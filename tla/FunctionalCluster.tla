-------------------------- MODULE FunctionalCluster --------------------------
(***************************************************************************)
(* A cluster of rigel-sim in the functional configuration (RIGEL_CFG_NUM 2 *)
(* of user.config): CoreFunctionals whose out-port calls straight into     *)
(* ClusterCacheFunctional::FunctionalMemoryRequest through an              *)
(* InPortCallback.  With a fixed latency of 0 the access is made during    *)
(* the call, otherwise by the PerCycle of the cache once it is due.        *)
(*                                                                         *)
(* MemberCallbackWrapper::operator() returns no value, so what the core    *)
(* sees as the status of the port is undefined: Statuses is what a build   *)
(* produces.  Cores have one thread here; TiledChip has thread_select.     *)
(***************************************************************************)
EXTENDS Integers, Sequences

CONSTANTS
  NumCores,           \* cores of the cluster
  Latencies,          \* the values of CF_FIXED_LATENCY to consider (0 in the code)
  QueueDepth,         \* capacity of outpackets (99 in the code)
  Statuses,           \* what the callback may return: a subset of {"ACK", "NACK"}
  Threads, ThreadsPerCluster,            \* of MemoryService: one of each core
  Words, WordSize, Requests, SyncWords,  \* of MemoryService
  MaxRequests         \* bound: memory instructions software executes

Cores == 0 .. NumCores - 1

VARIABLES
  FixedLatency, \* CF_FIXED_LATENCY, which never changes
  reply,       \* from_ccache of every core: a packet waits there or not
  pending,     \* the cores whose request was accepted (_request_pending)
  outpackets,  \* the accepted requests with the cycles left until they are due
  clocked,     \* the cores this cycle has clocked
  sending,     \* the cores inside sendMemoryRequest or checkMemoryRequest: the
               \* pairs <<core, what comes next>>, at most one
  rotation,    \* CURR_CYCLE modulo NumCores
  exit,        \* did a component throw ExitSim?
  issued,      \* memory instructions executed so far
  mem, link, req, fresh   \* see MemoryService

memory == <<mem, link, req, fresh>>
vars == <<FixedLatency, reply, pending, outpackets, clocked, sending, rotation, exit, issued,
          mem, link, req, fresh>>

Service == INSTANCE MemoryService

Stalled(c) == req[c] # Service!NoPacket
-----------------------------------------------------------------------------
Init ==
  /\ FixedLatency \in Latencies
  /\ reply = [c \in Cores |-> FALSE]
  /\ pending = {}
  /\ outpackets = <<>>
  /\ clocked = {}
  /\ sending = {}
  /\ rotation = 0
  /\ exit = FALSE
  /\ issued = 0
  /\ Service!Init

(* doMemoryAccess has no case for a packet that already holds a reply type.*)
Access(c) ==
  IF req[c].msg \in Service!Replies
  THEN exit' = TRUE /\ UNCHANGED <<memory, reply>>
  ELSE /\ Service!doMemoryAccess(c)
       /\ reply' = [reply EXCEPT ![c] = TRUE]
       /\ UNCHANGED exit

(* ClusterCacheFunctional::PerCycle, before any core: all that is due.     *)
Due == outpackets # <<>> /\ Head(outpackets)[2] = 0

Reply ==
  /\ ~exit
  /\ clocked = {} /\ sending = {}
  /\ Due
  /\ Access(Head(outpackets)[1])
  /\ outpackets' = Tail(outpackets)
  /\ UNCHANGED <<FixedLatency, pending, clocked, sending, rotation, issued>>

(* The core whose turn it is: the first one not clocked from the rotating  *)
(* one on.                                                                 *)
Turn(c) ==
  /\ ~exit
  /\ ~Due \/ clocked # {}
  /\ sending = {}
  /\ c \notin clocked
  /\ \A d \in Cores : (d - rotation) % NumCores < (c - rotation) % NumCores
                        => d \in clocked

(* A new instruction: a memory access or something local to the core.      *)
Execute(c) ==
  /\ Turn(c)
  /\ ~Stalled(c)
  /\ \/ /\ clocked' = clocked \union {c}
        /\ UNCHANGED <<sending, issued, memory>>
     \/ /\ issued < MaxRequests
        /\ issued' = issued + 1
        /\ \E r \in Requests : Service!Issue(c, r)
        /\ sending' = {<<c, "send">>}
        /\ UNCHANGED clocked
  /\ UNCHANGED <<FixedLatency, reply, pending, outpackets, rotation, exit>>

(* A stalled instruction: send the request again, or look for the reply.   *)
Retry(c) ==
  /\ Turn(c)
  /\ Stalled(c)
  /\ sending' = {<<c, IF c \in pending THEN "check" ELSE "send">>}
  /\ UNCHANGED <<FixedLatency, reply, pending, outpackets, clocked, rotation, exit, issued, memory>>

(* sendMemoryRequest: FunctionalMemoryRequest runs, and the core continues *)
(* with the status it reads.                                               *)
FunctionalMemoryRequest(c) ==
  IF FixedLatency = 0
  THEN Access(c) /\ UNCHANGED outpackets
  ELSE /\ IF Len(outpackets) < QueueDepth
            THEN outpackets' = Append(outpackets, <<c, FixedLatency>>) /\ UNCHANGED exit
            ELSE exit' = TRUE /\ UNCHANGED outpackets
       /\ UNCHANGED <<memory, reply>>

Send_NotPending(c) ==
  /\ ~exit
  /\ <<c, "send">> \in sending
  /\ FunctionalMemoryRequest(c)
  /\ sending' = {}
  /\ clocked' = clocked \union {c}
  /\ UNCHANGED <<FixedLatency, pending, rotation, issued>>
Send(c) ==
  /\ ~exit
  /\ <<c, "send">> \in sending
  /\ FunctionalMemoryRequest(c)
  /\ \E status \in Statuses :
       IF status = "ACK"
       THEN /\ pending' = pending \union {c}
            /\ sending' = {<<c, "check">>}
            /\ UNCHANGED clocked
       ELSE /\ sending' = {}
            /\ clocked' = clocked \union {c}
            /\ UNCHANGED pending
  /\ UNCHANGED <<FixedLatency, rotation, issued>>

checkMemoryRequest(c) ==
  /\ <<c, "check">> \in sending
  /\ IF reply[c]
     THEN /\ Service!Retire(c)
          /\ reply' = [reply EXCEPT ![c] = FALSE]
          /\ pending' = pending \ {c}
     ELSE UNCHANGED <<memory, reply, pending>>
  /\ sending' = {}
  /\ clocked' = clocked \union {c}
  /\ UNCHANGED <<FixedLatency, outpackets, rotation, exit, issued>>

NextCycle ==
  /\ ~exit
  /\ clocked = Cores
  /\ clocked' = {}
  /\ rotation' = (rotation + 1) % NumCores
  /\ outpackets' = [i \in DOMAIN outpackets |->
       <<outpackets[i][1], IF outpackets[i][2] = 0 THEN 0 ELSE outpackets[i][2] - 1>>]
  /\ UNCHANGED <<FixedLatency, reply, pending, sending, exit, issued, memory>>

Next ==
  \/ Reply
  \/ \E c \in Cores : Execute(c)
  \/ \E c \in Cores : Retry(c)
  \/ \E c \in Cores : Send(c)
  \/ \E c \in Cores : checkMemoryRequest(c)
  \/ NextCycle

Spec == Init /\ [][Next]_vars
-----------------------------------------------------------------------------

(* The cluster is a MemoryService: every access is made exactly once.      *)
ServiceSpec == Service!Spec
=============================================================================
