-------------------------- MODULE MCClusterCaches --------------------------
(***************************************************************************)
(* Two cores and two lines that share the only way of every cache: each    *)
(* fill replaces the other line.  A flush is a write-back that also gives  *)
(* the line up, and a global access with cores that do not sleep behaves   *)
(* like an atomic, so one of each pair is enough.                          *)
(***************************************************************************)
EXTENDS ClusterCaches
CONSTANTS lineA, lineB

MCOffered(l) ==
  IF l = lineA THEN {"load", "store", "flush"}
  ELSE {"load", "global", "prefetch", "barrier", "invalidate"}
=============================================================================
