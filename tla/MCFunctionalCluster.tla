------------------------- MODULE MCFunctionalCluster -------------------------
(* The functional cluster at work on the state of MemoryService, whose own   *)
(* specification and invariants it is checked against.  Two cores share a    *)
(* cluster; w is its synchronisation word, x an ordinary one.                *)
EXTENDS MemoryService, Sequences

CONSTANTS NumCores, Latencies, QueueDepth, Statuses, MaxRequests
VARIABLES FixedLatency, reply, pending, outpackets, clocked, sending,
          rotation, exit, issued

ASSUME LatencyAssumption == NumCores \in Nat \ {0} /\ Latencies \subseteq Nat
ASSUME StatusAssumption == Statuses \subseteq {"ACK", "NACK"} /\ Statuses # {}
ASSUME OneClusterAssumption ==
  Threads = 0 .. NumCores - 1 /\ ThreadsPerCluster = NumCores

MCThreads == 0 .. 1
MCAck == {"ACK"}
MCRequests ==
  ({0, 1} \X {"LDL"} \X {"w"} \X {0} \X {0})
    \union ({0, 1} \X {"STC"} \X {"w"} \X {1} \X {0})
    \union ({0} \X {"LDL", "READ"} \X {"x"} \X {0} \X {0})
    \union ({0} \X {"STC"} \X {"x"} \X {1} \X {0})
    \union ({1} \X {"STC", "WRITE", "XCHG"} \X {"x"} \X {1} \X {0})
    \union ({0} \X {"INC", "DEC"} \X {"x"} \X {0} \X {0})
    \union ({1} \X {"ADDU", "MIN", "MAX"} \X {"x"} \X {0} \X {2})
    \union ({0} \X {"CAS"} \X {"x"} \X {2} \X {1})

Machine == INSTANCE FunctionalCluster
MachineSpec == Machine!Spec

(* The cluster is a MemoryService: every access is made exactly once         *)
(* (ClusterCacheFunctional::FunctionalMemoryRequest and PerCycle).           *)
ServiceSpec == Machine!ServiceSpec
=============================================================================
