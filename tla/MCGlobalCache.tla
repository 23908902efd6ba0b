---------------------------- MODULE MCGlobalCache ----------------------------
(***************************************************************************)
(* Two clusters, four lines in one way: line 1 is fetched and line 2 ahead *)
(* of it; the others are written, and line 4 is broadcast as well.  Of the *)
(* three entries one is for evictions: the write-backs of three lines and  *)
(* the fetches of three compete for them, and a victim waits in its way.   *)
(***************************************************************************)
EXTENDS GlobalCache

MCOffered(l) ==
  CASE l = 1 -> {"read", "prefetch"}
    [] l = 2 -> {"write"}
    [] l = 3 -> {"write"}
    [] l = 4 -> {"write", "broadcast"}
=============================================================================
