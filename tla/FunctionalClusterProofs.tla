----------------------- MODULE FunctionalClusterProofs -----------------------
(***************************************************************************)
(* FunctionalCluster implements MemoryService, for any number of cores,    *)
(* latencies, depth of the queue of the cache, words and requests, when    *)
(* the callback of the port returns ACK: every access is made once.        *)
(*                                                                         *)
(* An access is made when a packet is called through the port (latency 0)  *)
(* or when it leaves outpackets; that this is never the second time rests  *)
(* on where a packet can be (Inv): being sent, waiting in outpackets,      *)
(* or answered, and in one of these places only.                           *)
(***************************************************************************)
EXTENDS FunctionalCluster, TLAPS

(* One cluster whose cores have one thread each, and a build in which the  *)
(* callback returns ACK.                                                   *)
Acks ==
  /\ NumCores \in Nat \ {0} /\ Latencies \subseteq Nat
  /\ Threads = Cores
  /\ Statuses = {"ACK"}

Queued(c) == \E i \in DOMAIN outpackets : outpackets[i][1] = c
Undone(c) == Stalled(c) /\ ~req[c].done

Fields == {"msg", "addr", "data", "operand", "done"}

(* The shape of the variables the packets move through.                    *)
Shape ==
  /\ FixedLatency \in Nat
  /\ reply \in [Cores -> BOOLEAN]
  /\ pending \subseteq Cores
  /\ outpackets \in Seq(Cores \X Nat)
  /\ clocked \subseteq Cores
  /\ sending \subseteq Cores \X {"send", "check"}
  /\ DOMAIN req = Cores
  /\ \A c \in Cores : Stalled(c) =>
       req[c] = [msg |-> req[c].msg, addr |-> req[c].addr, data |-> req[c].data,
                 operand |-> req[c].operand, done |-> req[c].done]

(* Where the packet of a stalled core is.  A packet that is being sent, or
   that waits in outpackets, was not served yet and has no reply; it is there
   once.  A core with a reply has a packet that was served.                *)
Places ==
  /\ \A s, t \in sending : s = t
  /\ \A c \in Cores :
       /\ <<c, "send">> \in sending =>
            Undone(c) /\ c \notin pending /\ ~reply[c] /\ ~Queued(c)
       /\ <<c, "check">> \in sending => c \in pending
       /\ c \in pending => Stalled(c)
       /\ Stalled(c) /\ c \notin pending => <<c, "send">> \in sending
       /\ Queued(c) => Undone(c) /\ c \in pending /\ ~reply[c]
       /\ reply[c] => Stalled(c) /\ req[c].done /\ c \in pending
  /\ \A i, j \in DOMAIN outpackets : outpackets[i][1] = outpackets[j][1] => i = j

Inv == Shape /\ Places

(* Completing a packet keeps its fields.                                   *)
LEMMA Completed ==
  ASSUME NEW p, NEW m, NEW v,
         p = [msg |-> p.msg, addr |-> p.addr, data |-> p.data,
              operand |-> p.operand, done |-> p.done]
  PROVE  [p EXCEPT !.msg = m, !.data = v, !.done = TRUE]
           = [msg |-> m, addr |-> p.addr, data |-> v, operand |-> p.operand, done |-> TRUE]
<1> DEFINE q == [p EXCEPT !.msg = m, !.data = v, !.done = TRUE]
<1>1. p \in [msg : {p.msg}, addr : {p.addr}, data : {p.data},
             operand : {p.operand}, done : {p.done}]
  OBVIOUS
<1>2. q \in [msg : {m}, addr : {p.addr}, data : {v}, operand : {p.operand}, done : {TRUE}]
  BY <1>1
<1> HIDE DEF q
<1>3. q = [msg |-> m, addr |-> p.addr, data |-> v, operand |-> p.operand, done |-> TRUE]
  BY <1>2
<1> QED
  BY <1>3 DEF q

LEMMA InitInv == ASSUME Acks, Init PROVE Inv
  BY DEF Acks, Init, Inv, Shape, Places, Stalled, Undone, Queued,
         Service!Init, Service!NoPacket

(* What serving a packet that was not served yet does to it.               *)
LEMMA AccessServes ==
  ASSUME Acks, Inv, NEW c \in Cores, Undone(c), Access(c)
  PROVE  /\ [Service!Next]_(Service!vars)
         /\ \A d \in Cores \ {c} : req'[d] = req[d] /\ reply'[d] = reply[d]
         /\ DOMAIN req' = Cores /\ reply' \in [Cores -> BOOLEAN]
         /\ req'[c] = [msg |-> req'[c].msg, addr |-> req'[c].addr, data |-> req'[c].data,
                       operand |-> req'[c].operand, done |-> req'[c].done]
         /\ Stalled(c)'
         /\ \/ exit' /\ UNCHANGED <<memory, reply>>
            \/ UNCHANGED exit /\ req'[c].done /\ reply'[c]
<1>1. CASE req[c].msg \in Service!Replies
  BY <1>1 DEF Access, memory, Service!vars, Inv, Shape, Undone, Stalled
<1>2. CASE req[c].msg \notin Service!Replies
  <2>1. Service!doMemoryAccess(c) /\ reply' = [reply EXCEPT ![c] = TRUE] /\ UNCHANGED exit
    BY <1>2 DEF Access
  <2>2. Service!Serve(c)
    BY <2>1 DEF Service!Serve, Undone, Stalled
  <2>3. Service!Next
    BY <2>2 DEF Service!Next, Acks
  <2>4. PICK m, v : Service!Complete(c, m, v)
    BY <2>1 DEF Service!doMemoryAccess, Service!Load, Service!Store, Service!LoadLinked,
                Service!StoreConditional, Service!GlobalAtomic
  <2>5. req'[c] = [msg |-> m, addr |-> req[c].addr, data |-> v,
                   operand |-> req[c].operand, done |-> TRUE]
    <3>1. req'[c] = [req[c] EXCEPT !.msg = m, !.data = v, !.done = TRUE]
      BY <2>4 DEF Service!Complete, Inv, Shape
    <3>2. req[c] = [msg |-> req[c].msg, addr |-> req[c].addr, data |-> req[c].data,
                    operand |-> req[c].operand, done |-> req[c].done]
      BY DEF Inv, Shape, Undone
    <3> QED
      BY <3>1, <3>2, Completed
  <2>6. \A d \in Cores \ {c} : req'[d] = req[d]
    BY <2>4 DEF Service!Complete, Inv, Shape
  <2>7. DOMAIN req' = Cores
    BY <2>4 DEF Service!Complete, Inv, Shape
  <2>8. Stalled(c)'
    BY <2>5 DEF Stalled, Service!NoPacket
  <2> QED
    BY <2>1, <2>3, <2>5, <2>6, <2>7, <2>8 DEF Inv, Shape
<1> QED
  BY <1>1, <1>2

(* The first packet that is due: it leaves outpackets for its reply.       *)
LEMMA ReplyStep ==
  ASSUME Acks, Inv, Reply
  PROVE  Inv' /\ [Service!Next]_(Service!vars)
<1> PICK c \in Cores : c = Head(outpackets)[1]
  BY DEF Reply, Due, Inv, Shape
<1>1. /\ Queued(c) /\ 1 \in DOMAIN outpackets /\ outpackets[1][1] = c
      /\ outpackets' = Tail(outpackets)
      /\ outpackets' \in Seq(Cores \X Nat)
      /\ \A i \in DOMAIN outpackets' :
           i + 1 \in DOMAIN outpackets /\ i + 1 # 1 /\ outpackets'[i] = outpackets[i + 1]
  BY DEF Reply, Due, Inv, Shape, Queued
<1>2. Undone(c) /\ c \in pending
  BY <1>1 DEF Inv, Places
<1>3. Access(c) /\ sending = {} /\ UNCHANGED <<FixedLatency, pending, clocked, sending>>
  BY DEF Reply
<1>4. ~Queued(c)' /\ \A d \in Cores : Queued(d)' => Queued(d)
  <2>1. \A i \in DOMAIN outpackets : i # 1 => outpackets[i][1] # c
    BY <1>1 DEF Inv, Places
  <2> QED
    BY <1>1, <2>1 DEF Queued
<1>5. /\ [Service!Next]_(Service!vars)
      /\ \A d \in Cores \ {c} : req'[d] = req[d] /\ reply'[d] = reply[d]
      /\ DOMAIN req' = Cores /\ reply' \in [Cores -> BOOLEAN]
      /\ req'[c] = [msg |-> req'[c].msg, addr |-> req'[c].addr, data |-> req'[c].data,
                    operand |-> req'[c].operand, done |-> req'[c].done]
      /\ Stalled(c)'
      /\ \/ exit' /\ UNCHANGED <<memory, reply>>
         \/ UNCHANGED exit /\ req'[c].done /\ reply'[c]
  BY <1>1, <1>2, <1>3, AccessServes
<1>6. Shape'
  BY <1>1, <1>3, <1>5 DEF Shape, Inv, Stalled
<1>7. \A i, j \in DOMAIN outpackets' : outpackets'[i][1] = outpackets'[j][1] => i = j
  <2> SUFFICES ASSUME NEW i \in DOMAIN outpackets', NEW j \in DOMAIN outpackets',
                      outpackets'[i][1] = outpackets'[j][1]
               PROVE  i = j
    OBVIOUS
  <2>1. i + 1 = j + 1
    BY <1>1 DEF Inv, Places
  <2>2. i \in Nat /\ j \in Nat
    BY <1>1
  <2> QED
    BY <2>1, <2>2
<1>8. Places'
  <2>1. \A d \in Cores \ {c} : (Stalled(d)' <=> Stalled(d)) /\ (Undone(d)' <=> Undone(d))
    BY <1>5 DEF Stalled, Undone
  <2>2. reply'[c] => Stalled(c)' /\ req'[c].done
    BY <1>2, <1>5 DEF Inv, Places, memory
  <2> QED
    BY <1>2, <1>3, <1>4, <1>5, <1>7, <2>1, <2>2 DEF Places, Inv
<1> QED
  BY <1>5, <1>6, <1>8 DEF Inv

LEMMA ExecuteStep ==
  ASSUME Acks, Inv, NEW c \in Cores, Execute(c)
  PROVE  Inv' /\ [Service!Next]_(Service!vars)
<1>1. sending = {} /\ ~Stalled(c) /\ UNCHANGED <<FixedLatency, reply, pending, outpackets>>
  BY DEF Execute, Turn
<1>2. CASE clocked' = clocked \union {c} /\ UNCHANGED <<sending, issued, memory>>
  BY <1>1, <1>2 DEF Inv, Shape, Places, Stalled, Undone, Queued, memory, Service!vars
<1>3. CASE /\ \E r \in Requests : Service!Issue(c, r)
           /\ sending' = {<<c, "send">>}
           /\ UNCHANGED clocked
  <2>1. PICK r \in Requests : Service!Issue(c, r)
    BY <1>3
  <2>2. Service!Next
    BY <2>1 DEF Service!Next, Service!Issue
  <2>3. /\ req'[c] = [msg |-> r[2], addr |-> r[3], data |-> r[4], operand |-> r[5], done |-> FALSE]
        /\ DOMAIN req' = Cores
        /\ \A d \in Cores \ {c} : req'[d] = req[d]
    BY <2>1 DEF Service!Issue, Inv, Shape
  <2>4. Undone(c)' /\ Stalled(c)'
    BY <2>3 DEF Undone, Stalled, Service!NoPacket
  <2>5. Shape'
    BY <1>1, <1>3, <2>3 DEF Shape, Inv, Stalled
  <2>6. c \notin pending /\ ~reply[c] /\ ~Queued(c)
    BY <1>1 DEF Inv, Places
  <2>7. \A d \in Cores : Queued(d)' <=> Queued(d)
    BY <1>1 DEF Queued
  <2>8. \A d \in Cores \ {c} : (Stalled(d)' <=> Stalled(d)) /\ (Undone(d)' <=> Undone(d))
    BY <2>3 DEF Stalled, Undone
  <2>9. Places'
    BY <1>1, <1>3, <2>3, <2>4, <2>6, <2>7, <2>8 DEF Places, Inv
  <2> QED
    BY <2>2, <2>5, <2>9 DEF Inv
<1> QED
  BY <1>2, <1>3 DEF Execute

(* With ACK a stalled core is always waiting for a reply.                  *)
LEMMA RetryStep ==
  ASSUME Acks, Inv, NEW c \in Cores, Retry(c)
  PROVE  Inv' /\ [Service!Next]_(Service!vars)
<1>1. /\ sending = {} /\ Stalled(c)
      /\ UNCHANGED <<FixedLatency, reply, pending, outpackets, clocked, memory>>
  BY DEF Retry, Turn
<1>2. c \in pending
  BY <1>1 DEF Inv, Places
<1>3. sending' = {<<c, "check">>}
  BY <1>2 DEF Retry
<1> QED
  BY <1>1, <1>2, <1>3 DEF Inv, Shape, Places, Stalled, Undone, Queued, memory, Service!vars

LEMMA SendStep ==
  ASSUME Acks, Inv, NEW c \in Cores, Send(c)
  PROVE  Inv' /\ [Service!Next]_(Service!vars)
<1>1. /\ FunctionalMemoryRequest(c) /\ <<c, "send">> \in sending
      /\ pending' = pending \union {c} /\ sending' = {<<c, "check">>}
      /\ UNCHANGED <<clocked, FixedLatency>>
  BY DEF Send, Acks
<1>2. Undone(c) /\ Stalled(c) /\ c \notin pending /\ ~reply[c] /\ ~Queued(c)
  BY <1>1 DEF Inv, Places, Undone
<1>3. \A d \in Cores : <<d, "send">> \in sending => d = c
  BY <1>1 DEF Inv, Places
<1>4. CASE FixedLatency = 0
  <2>1. Access(c) /\ UNCHANGED outpackets
    BY <1>1, <1>4 DEF FunctionalMemoryRequest
  <2>2. /\ [Service!Next]_(Service!vars)
        /\ \A d \in Cores \ {c} : req'[d] = req[d] /\ reply'[d] = reply[d]
        /\ DOMAIN req' = Cores /\ reply' \in [Cores -> BOOLEAN]
        /\ req'[c] = [msg |-> req'[c].msg, addr |-> req'[c].addr, data |-> req'[c].data,
                      operand |-> req'[c].operand, done |-> req'[c].done]
        /\ Stalled(c)'
        /\ \/ exit' /\ UNCHANGED <<memory, reply>>
           \/ UNCHANGED exit /\ req'[c].done /\ reply'[c]
    BY <1>2, <2>1, AccessServes
  <2>3. Shape'
    BY <1>1, <2>1, <2>2 DEF Shape, Inv, Stalled
  <2>4. \A d \in Cores : Queued(d)' <=> Queued(d)
    BY <2>1 DEF Queued
  <2>5. \A d \in Cores \ {c} : (Stalled(d)' <=> Stalled(d)) /\ (Undone(d)' <=> Undone(d))
    BY <2>2 DEF Stalled, Undone
  <2>6. reply'[c] => Stalled(c)' /\ req'[c].done
    BY <1>2, <2>2
  <2>7. Places'
    BY <1>1, <1>2, <1>3, <2>1, <2>2, <2>4, <2>5, <2>6 DEF Places, Inv
  <2> QED
    BY <2>2, <2>3, <2>7 DEF Inv
<1>5. CASE FixedLatency # 0
  <2>1. /\ UNCHANGED <<memory, reply>>
        /\ \/ outpackets' = Append(outpackets, <<c, FixedLatency>>)
           \/ UNCHANGED outpackets
    BY <1>1, <1>5 DEF FunctionalMemoryRequest
  <2>2. /\ outpackets' \in Seq(Cores \X Nat)
        /\ \A i \in DOMAIN outpackets' :
             \/ i \in DOMAIN outpackets /\ outpackets'[i] = outpackets[i]
             \/ i = Len(outpackets) + 1 /\ outpackets'[i][1] = c
    <3>1. /\ outpackets \in Seq(Cores \X Nat) /\ <<c, FixedLatency>> \in Cores \X Nat
          /\ <<c, FixedLatency>>[1] = c
      BY DEF Inv, Shape
    <3>2. CASE UNCHANGED outpackets
      BY <3>1, <3>2
    <3>3. CASE outpackets' = Append(outpackets, <<c, FixedLatency>>)
      <4> DEFINE p == <<c, FixedLatency>>
      <4> HIDE DEF p
      <4>1. outpackets' = Append(outpackets, p) /\ p \in Cores \X Nat /\ p[1] = c
        BY <3>1, <3>3 DEF p
      <4> QED
        BY <3>1, <4>1
    <3> QED
      BY <2>1, <3>2, <3>3
  <2>3. \A d \in Cores : Queued(d)' => Queued(d) \/ d = c
    BY <2>2 DEF Queued
  <2>4. \A i, j \in DOMAIN outpackets' : outpackets'[i][1] = outpackets'[j][1] => i = j
    BY <1>2, <2>2 DEF Queued, Inv, Places
  <2>5. Shape'
    BY <1>1, <2>1, <2>2 DEF Shape, Inv, Stalled, memory
  <2>6. \A d \in Cores : (Stalled(d)' <=> Stalled(d)) /\ (Undone(d)' <=> Undone(d))
    BY <2>1 DEF Stalled, Undone, memory
  <2>7. Places'
    BY <1>1, <1>2, <1>3, <2>1, <2>3, <2>4, <2>6 DEF Places, Inv, memory
  <2> QED
    BY <2>1, <2>5, <2>7 DEF Inv, memory, Service!vars
<1> QED
  BY <1>4, <1>5

LEMMA CheckStep ==
  ASSUME Acks, Inv, NEW c \in Cores, checkMemoryRequest(c)
  PROVE  Inv' /\ [Service!Next]_(Service!vars)
<1>1. /\ <<c, "check">> \in sending /\ sending' = {}
      /\ clocked' = clocked \union {c}
      /\ UNCHANGED <<FixedLatency, outpackets>>
  BY DEF checkMemoryRequest
<1>2. \A d \in Cores : <<d, "send">> \notin sending
  BY <1>1 DEF Inv, Places
<1>3. \A d \in Cores : Queued(d)' <=> Queued(d)
  BY <1>1 DEF Queued
<1>4. CASE reply[c]
  <2>1. /\ Service!Retire(c)
        /\ reply' = [reply EXCEPT ![c] = FALSE]
        /\ pending' = pending \ {c}
    BY <1>4 DEF checkMemoryRequest
  <2>2. Service!Next
    BY <2>1 DEF Service!Next, Acks
  <2>3. /\ req'[c] = Service!NoPacket /\ DOMAIN req' = Cores
        /\ \A d \in Cores \ {c} : req'[d] = req[d]
    BY <2>1 DEF Service!Retire, Inv, Shape
  <2>4. ~Stalled(c)' /\ ~reply'[c] /\ ~Queued(c)
    BY <1>4, <2>1, <2>3 DEF Stalled, Inv, Shape, Places
  <2>5. \A d \in Cores \ {c} : /\ (Stalled(d)' <=> Stalled(d)) /\ (Undone(d)' <=> Undone(d))
                               /\ reply'[d] = reply[d]
    BY <2>1, <2>3 DEF Stalled, Undone, Inv, Shape
  <2>6. Shape'
    BY <1>1, <2>1, <2>3, <2>4 DEF Shape, Inv, Stalled
  <2>7. Places'
    BY <1>1, <1>2, <1>3, <2>1, <2>3, <2>4, <2>5 DEF Places, Inv
  <2> QED
    BY <2>2, <2>6, <2>7 DEF Inv
<1>5. CASE ~reply[c]
  <2>1. UNCHANGED <<memory, reply, pending>>
    BY <1>5 DEF checkMemoryRequest
  <2> QED
    BY <1>1, <1>2, <1>3, <2>1 DEF Inv, Shape, Places, Stalled, Undone, memory, Service!vars
<1> QED
  BY <1>4, <1>5

LEMMA CycleStep ==
  ASSUME Acks, Inv, NextCycle
  PROVE  Inv' /\ [Service!Next]_(Service!vars)
<1>1. /\ clocked' = {}
      /\ UNCHANGED <<FixedLatency, reply, pending, sending, memory>>
  BY DEF NextCycle
<1>2. /\ outpackets' \in Seq(Cores \X Nat) /\ DOMAIN outpackets' = DOMAIN outpackets
      /\ \A i \in DOMAIN outpackets : outpackets'[i][1] = outpackets[i][1]
  <2>1. outpackets' = [i \in 1 .. Len(outpackets) |->
          <<outpackets[i][1], IF outpackets[i][2] = 0 THEN 0 ELSE outpackets[i][2] - 1>>]
    BY DEF NextCycle, Inv, Shape
  <2>2. \A i \in 1 .. Len(outpackets) : outpackets[i] \in Cores \X Nat
    BY DEF Inv, Shape
  <2>3. Len(outpackets) \in Nat /\ DOMAIN outpackets = 1 .. Len(outpackets)
    BY DEF Inv, Shape
  <2> QED
    BY <2>1, <2>2, <2>3
<1>3. \A d \in Cores : Queued(d)' <=> Queued(d)
  BY <1>2 DEF Queued
<1> QED
  BY <1>1, <1>2, <1>3 DEF Inv, Shape, Places, Stalled, Undone, memory, Service!vars

(* Every step keeps the packets in their places and is one step of the
   service, or none.                                                       *)
LEMMA NextStep ==
  ASSUME Acks, Inv, [Next]_vars
  PROVE  Inv' /\ [Service!Next]_(Service!vars)
<1>1. CASE UNCHANGED vars
  BY <1>1 DEF vars, Inv, Shape, Places, Stalled, Undone, Queued, Service!vars
<1>2. CASE Next
  BY <1>2, ReplyStep, ExecuteStep, RetryStep, SendStep, CheckStep, CycleStep DEF Next
<1> QED
  BY <1>1, <1>2

(* A reply at a core is always the one to its packet, which was served: with
   its packet it goes from the cache to the core as one.                   *)
RepliesToServed == \A c \in Cores : reply[c] => Stalled(c) /\ req[c].done

(* No core reads a reply before its access was made.                       *)
THEOREM RepliesAreServed == ASSUME Acks PROVE Spec => []RepliesToServed
<1>1. Init => Inv
  BY InitInv
<1>2. Inv /\ [Next]_vars => Inv'
  BY NextStep
<1>3. Inv => RepliesToServed
  BY DEF Inv, Places, RepliesToServed
<1> QED
  BY <1>1, <1>2, <1>3, PTL DEF Spec

(* The functional cluster makes every access exactly once, whatever the order
   of its cores (ClusterCacheFunctional::FunctionalMemoryRequest, PerCycle).*)
THEOREM ImplementsService == ASSUME Acks PROVE Spec => ServiceSpec
<1>1. Init => Inv /\ Service!Init
  BY InitInv DEF Init
<1>2. Inv /\ [Next]_vars => Inv' /\ [Service!Next]_(Service!vars)
  BY NextStep
<1> QED
  BY <1>1, <1>2, PTL DEF Spec, ServiceSpec, Service!Spec
=============================================================================
