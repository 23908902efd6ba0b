------------------------ MODULE MemoryServiceProofs ------------------------
(***************************************************************************)
(* Proofs about MemoryService for any number of threads and clusters, any  *)
(* words and any requests software may issue: the types, and what a link   *)
(* is worth.                                                               *)
(*                                                                         *)
(* LinkMeansUntouched is not inductive: whether a write breaks a link      *)
(* depends on who may write the word.  Asked adds where packets and links  *)
(* come from - a request of Requests - so that SyncAssumption applies to   *)
(* the writer and to the owner of the link.                                *)
(***************************************************************************)
EXTENDS MemoryService, TLAPS

Requested(g, a) == \E r \in Requests : r[1] = g /\ r[3] = a

(* A packet on its way is a request of its thread, and so was the LDL that
   made a valid link.                                                      *)
Asked ==
  /\ \A g \in Threads :
       req[g] # NoPacket /\ ~req[g].done =>
         \E r \in Requests : r[1] = g /\ r[2] = req[g].msg /\ r[3] = req[g].addr
  /\ \A g \in Threads : link[g].valid => Requested(g, link[g].addr)

(* The access changes at most these parts of the state of a served thread. *)
ServedTypes(g) ==
  /\ req[g] \in Packet
  /\ req[g].addr \in Words
  /\ req[g].data \in Value
  /\ req[g].operand \in Value
  /\ mem[req[g].addr] \in Value

(* A packet that is being served is a record of the declared kind.         *)
LEMMA ServedPacket ==
  ASSUME TypeOK, NEW g \in Threads, req[g] # NoPacket
  PROVE  ServedTypes(g)
  BY DEF TypeOK, ServedTypes, Packet

(* A request packet is never mistaken for the absent one.                  *)
LEMMA PacketIsNotNone ==
  ASSUME NEW p \in Packet
  PROVE  p # NoPacket
<1>1. p.msg \in Messages \union Replies
  BY DEF Packet
<1>2. p.msg # "none"
  BY <1>1 DEF Messages, Replies, Atomics
<1> QED
  BY <1>2 DEF NoPacket

(* Arithmetic of words stays within a word.                                *)
LEMMA UpdatedInValue ==
  ASSUME NEW p, p.msg \in Atomics, p.data \in Value, p.operand \in Value,
         NEW old \in Value
  PROVE  Updated(p, old) \in Value /\ Returned(p, old) \in Value
<1>1. WordSize \in Nat /\ WordSize > 1
  BY WordAssumption
<1>2. \A x \in Int : x % WordSize \in Value
  BY <1>1 DEF Value
<1>3. Value \subseteq Int
  BY DEF Value
<1>4. (old + p.operand) % WordSize \in Value
  <2>1. PICK x \in Int : x = p.operand
    BY <1>3
  <2>2. (old + x) % WordSize \in Value
    BY <1>2, <1>3
  <2> QED
    BY <2>1, <2>2
<1>5. (old + 1) % WordSize \in Value
  BY <1>2, <1>3
<1>6. (old + WordSize - 1) % WordSize \in Value
  BY <1>1, <1>2, <1>3
<1>7. Updated(p, old) \in Value
  <2>1. CASE p.msg \in {"CAS", "XCHG"}
    BY <2>1 DEF Updated
  <2>2. CASE p.msg = "ADDU"
    BY <2>2, <1>4 DEF Updated
  <2>3. CASE p.msg = "INC"
    BY <2>3, <1>5 DEF Updated
  <2>4. CASE p.msg = "DEC"
    BY <2>4, <1>6 DEF Updated
  <2>5. CASE p.msg = "MIN"
    BY <2>5 DEF Updated, Lesser
  <2>6. CASE p.msg = "MAX"
    BY <2>6 DEF Updated, Greater
  <2> QED
    BY <2>1, <2>2, <2>3, <2>4, <2>5, <2>6 DEF Atomics
<1> QED
  BY <1>7 DEF Returned

(* A completed access leaves a packet of the declared kind behind.         *)
LEMMA CompleteTypes ==
  ASSUME TypeOK, NEW g \in Threads, req[g] # NoPacket,
         NEW msg \in Messages \union Replies, NEW data \in Value,
         Complete(g, msg, data)
  PROVE  /\ req' \in [Threads -> Packet \union {NoPacket}]
         /\ \A h \in Threads : req'[h] # NoPacket /\ req'[h].msg \in Replies => req'[h].done
         /\ \A h \in Threads \ {g} : req'[h] = req[h]
         /\ req'[g].done
<1>1. req[g] \in Packet
  BY ServedPacket DEF ServedTypes
<1>2. req'[g] \in Packet /\ req'[g].done
  BY <1>1 DEF Complete, Packet, TypeOK
<1> QED
  BY <1>2 DEF Complete, TypeOK

-----------------------------------------------------------------------------
(* The declared kinds hold initially.                                      *)
LEMMA InitTypes == Init => TypeOK
<1> SUFFICES ASSUME Init PROVE TypeOK
  OBVIOUS
<1>1. (CHOOSE a \in Words : TRUE) \in Words
  BY WordAssumption
<1>2. 0 \in Value
  BY WordAssumption DEF Value
<1> QED
  BY <1>1, <1>2 DEF Init, TypeOK

(* A write keeps the words and the history of the declared kinds.          *)
LEMMA WriteTypes ==
  ASSUME TypeOK, NEW g \in Threads, NEW a \in Words, NEW v \in Value,
         WriteWord(g, a, v)
  PROVE  mem' \in [Words -> Value] /\ fresh' \subseteq Threads
  BY DEF TypeOK, WriteWord

(* Serving a packet keeps the types, whatever the access.                  *)
LEMMA ServeTypes ==
  ASSUME TypeOK, NEW g \in Threads, Serve(g)
  PROVE  TypeOK'
<1>1. req[g] # NoPacket /\ ~req[g].done /\ ServedTypes(g)
  BY ServedPacket DEF Serve
<1>2. {0, 1} \subseteq Value
  BY WordAssumption DEF Value
<1>3. ASSUME NEW msg \in Messages \union Replies, NEW data \in Value,
             Complete(g, msg, data), mem' \in [Words -> Value],
             link' \in [Threads -> [valid : BOOLEAN, addr : Words]],
             fresh' \subseteq Threads
      PROVE  TypeOK'
  BY <1>1, <1>3, CompleteTypes DEF TypeOK
<1>4. CASE Load(g)
  <2>1. Complete(g, "READ", mem[req[g].addr]) /\ "READ" \in Messages
    BY <1>4 DEF Load, Messages
  <2>2. mem' \in [Words -> Value] /\ fresh' \subseteq Threads
        /\ link' \in [Threads -> [valid : BOOLEAN, addr : Words]]
    BY <1>4 DEF Load, TypeOK
  <2> QED
    BY <1>1, <1>3, <2>1, <2>2 DEF ServedTypes
<1>5. CASE Store(g)
  <2>1. Complete(g, "WRITE", req[g].data) /\ "WRITE" \in Messages
    BY <1>5 DEF Store, Messages
  <2>2. mem' \in [Words -> Value] /\ fresh' \subseteq Threads
    BY <1>1, <1>5, WriteTypes DEF Store, ServedTypes
  <2>3. link' \in [Threads -> [valid : BOOLEAN, addr : Words]]
    BY <1>5 DEF Store, TypeOK
  <2> QED
    BY <1>1, <1>3, <2>1, <2>2, <2>3 DEF ServedTypes
<1>6. CASE LoadLinked(g)
  <2>1. Complete(g, "LDL_REPLY", mem[req[g].addr]) /\ "LDL_REPLY" \in Replies
    BY <1>6 DEF LoadLinked, Replies
  <2>2. mem' \in [Words -> Value] /\ fresh' \subseteq Threads
    BY <1>6 DEF LoadLinked, TypeOK
  <2>3. link' \in [Threads -> [valid : BOOLEAN, addr : Words]]
    BY <1>1, <1>6 DEF LoadLinked, TypeOK, ServedTypes
  <2> QED
    BY <1>1, <1>3, <2>1, <2>2, <2>3 DEF ServedTypes
<1>7. CASE StoreConditional(g)
  <2> DEFINE a == req[g].addr
  <2>1. CASE Linked(g, a)
    <3>1. /\ WriteWord(g, a, req[g].data)
          /\ link' = [h \in Threads |->
               IF h \in Broken(g, a) THEN [link[h] EXCEPT !.valid = FALSE] ELSE link[h]]
          /\ Complete(g, "STC_ACK", 1)
      BY <1>7, <2>1 DEF StoreConditional
    <3>2. mem' \in [Words -> Value] /\ fresh' \subseteq Threads
      BY <1>1, <3>1, WriteTypes DEF ServedTypes
    <3>3. link' \in [Threads -> [valid : BOOLEAN, addr : Words]]
      BY <3>1 DEF TypeOK
    <3>4. "STC_ACK" \in Replies /\ 1 \in Value
      BY <1>2 DEF Replies
    <3> QED
      BY <1>3, <3>1, <3>2, <3>3, <3>4
  <2>2. CASE ~Linked(g, a)
    <3>1. Complete(g, "STC_NACK", 0) /\ UNCHANGED <<mem, link, fresh>>
      BY <1>7, <2>2 DEF StoreConditional
    <3>2. "STC_NACK" \in Replies /\ 0 \in Value
      BY <1>2 DEF Replies
    <3> QED
      BY <1>3, <3>1, <3>2 DEF TypeOK
  <2> QED
    BY <2>1, <2>2
<1>8. CASE GlobalAtomic(g)
  <2> DEFINE p == req[g]
             old == mem[p.addr]
  <2>1. /\ p.msg \in Atomics
        /\ Complete(g, "ATOM_REPLY", Returned(p, old))
        /\ \/ UNCHANGED <<mem, fresh>>
           \/ WriteWord(g, p.addr, Updated(p, old))
        /\ UNCHANGED link
    BY <1>8 DEF GlobalAtomic
  <2>2. Updated(p, old) \in Value /\ Returned(p, old) \in Value
    <3>1. p.data \in Value /\ p.operand \in Value /\ old \in Value
      BY <1>1 DEF ServedTypes
    <3> QED
      BY <2>1, <3>1, UpdatedInValue
  <2>3. mem' \in [Words -> Value] /\ fresh' \subseteq Threads
    <3>1. CASE UNCHANGED <<mem, fresh>>
      BY <3>1 DEF TypeOK
    <3>2. CASE WriteWord(g, p.addr, Updated(p, old))
      BY <1>1, <2>2, <3>2, WriteTypes DEF ServedTypes
    <3> QED
      BY <2>1, <3>1, <3>2
  <2>4. link' \in [Threads -> [valid : BOOLEAN, addr : Words]]
    BY <2>1 DEF TypeOK
  <2>5. "ATOM_REPLY" \in Replies
    BY DEF Replies
  <2> QED
    BY <1>3, <2>1, <2>2, <2>3, <2>4, <2>5
<1> QED
  BY <1>4, <1>5, <1>6, <1>7, <1>8 DEF Serve, doMemoryAccess

(* A request software may issue makes a packet of the declared kind.       *)
LEMMA IssuedPacket ==
  ASSUME NEW r \in Requests
  PROVE  /\ r[1] \in Threads
         /\ [msg |-> r[2], addr |-> r[3], data |-> r[4], operand |-> r[5],
             done |-> FALSE] \in Packet
         /\ r[2] \notin Replies
  BY RequestAssumption DEF Packet, Messages, Atomics, Replies

(* Every step keeps the types.                                             *)
LEMMA NextTypes == TypeOK /\ [Next]_vars => TypeOK'
<1> SUFFICES ASSUME TypeOK, [Next]_vars PROVE TypeOK'
  OBVIOUS
<1>1. ASSUME NEW r \in Requests, Issue(r[1], r) PROVE TypeOK'
  <2> DEFINE p == [msg |-> r[2], addr |-> r[3], data |-> r[4], operand |-> r[5],
                   done |-> FALSE]
  <2>1. r[1] \in Threads /\ p \in Packet /\ p.msg \notin Replies
    BY IssuedPacket
  <2>2. req' = [req EXCEPT ![r[1]] = p] /\ UNCHANGED <<mem, link, fresh>>
    BY <1>1 DEF Issue
  <2>3. \A h \in Threads : req'[h] = IF h = r[1] THEN p ELSE req[h]
    BY <2>1, <2>2 DEF TypeOK
  <2> HIDE DEF p
  <2> QED
    BY <2>1, <2>2, <2>3 DEF TypeOK
<1>2. ASSUME NEW g \in Threads, Serve(g) PROVE TypeOK'
  BY <1>2, ServeTypes
<1>3. ASSUME NEW g \in Threads, Retire(g) PROVE TypeOK'
  BY <1>3 DEF Retire, TypeOK
<1>4. CASE UNCHANGED vars
  BY <1>4 DEF vars, TypeOK
<1> QED
  BY <1>1, <1>2, <1>3, <1>4 DEF Next

(* Type correctness of the memory service, for any number of threads.      *)
THEOREM TypeCorrect == Spec => []TypeOK
<1> QED
  BY InitTypes, NextTypes, PTL DEF Spec

-----------------------------------------------------------------------------
(* What serving a packet does to the links: the links of others are kept,
   unless an STC on the same word of the same cluster breaks them.         *)
LEMMA ServeLinks ==
  ASSUME TypeOK, NEW g \in Threads, Serve(g)
  PROVE  /\ req'[g].done
         /\ \A h \in Threads \ {g} : req'[h] = req[h]
         /\ \A h \in Threads : link'[h].valid =>
              \/ link'[h] = link[h] /\ link[h].valid
              \/ h = g /\ link'[h].addr = req[g].addr
<1>1. req[g] # NoPacket /\ ServedTypes(g)
  BY ServedPacket DEF Serve
<1>2. {0, 1} \subseteq Value
  BY WordAssumption DEF Value
<1>3. ASSUME NEW msg \in Messages \union Replies, NEW data \in Value,
             Complete(g, msg, data)
      PROVE  req'[g].done /\ \A h \in Threads \ {g} : req'[h] = req[h]
  BY <1>1, <1>3, CompleteTypes
<1>4. CASE Load(g)
  BY <1>1, <1>3, <1>4 DEF Load, ServedTypes, Messages
<1>5. CASE Store(g)
  BY <1>1, <1>3, <1>5 DEF Store, ServedTypes, Messages
<1>6. CASE LoadLinked(g)
  <2>1. Complete(g, "LDL_REPLY", mem[req[g].addr]) /\ "LDL_REPLY" \in Replies
    BY <1>6 DEF LoadLinked, Replies
  <2>2. \A h \in Threads : link'[h] =
          IF h = g THEN [valid |-> TRUE, addr |-> req[g].addr] ELSE link[h]
    BY <1>6 DEF LoadLinked, TypeOK
  <2> QED
    BY <1>1, <1>3, <2>1, <2>2 DEF ServedTypes
<1>7. CASE StoreConditional(g)
  <2> DEFINE a == req[g].addr
  <2>1. CASE Linked(g, a)
    <3>1. /\ link' = [h \in Threads |->
               IF h \in Broken(g, a) THEN [link[h] EXCEPT !.valid = FALSE] ELSE link[h]]
          /\ Complete(g, "STC_ACK", 1) /\ "STC_ACK" \in Replies
      BY <1>7, <2>1 DEF StoreConditional, Replies
    <3>2. \A h \in Threads : link'[h].valid => link'[h] = link[h] /\ link[h].valid
      <4> SUFFICES ASSUME NEW h \in Threads, link'[h].valid
                   PROVE  link'[h] = link[h] /\ link[h].valid
        OBVIOUS
      <4>1. link[h] \in [valid : BOOLEAN, addr : Words]
        BY DEF TypeOK
      <4>2. h \notin Broken(g, a)
        BY <3>1, <4>1
      <4> QED
        BY <3>1, <4>2
    <3> QED
      BY <1>2, <1>3, <3>1, <3>2
  <2>2. CASE ~Linked(g, a)
    <3>1. Complete(g, "STC_NACK", 0) /\ UNCHANGED link /\ "STC_NACK" \in Replies
      BY <1>7, <2>2 DEF StoreConditional, Replies
    <3> QED
      BY <1>2, <1>3, <3>1
  <2> QED
    BY <2>1, <2>2
<1>8. CASE GlobalAtomic(g)
  <2> DEFINE p == req[g]
             old == mem[p.addr]
  <2>1. /\ p.msg \in Atomics
        /\ Complete(g, "ATOM_REPLY", Returned(p, old)) /\ "ATOM_REPLY" \in Replies
        /\ UNCHANGED link
    BY <1>8 DEF GlobalAtomic, Replies
  <2>2. Returned(p, old) \in Value
    <3>1. p.data \in Value /\ p.operand \in Value /\ old \in Value
      BY <1>1 DEF ServedTypes
    <3> QED
      BY <2>1, <3>1, UpdatedInValue
  <2> QED
    BY <1>3, <2>1, <2>2
<1> QED
  BY <1>4, <1>5, <1>6, <1>7, <1>8 DEF Serve, doMemoryAccess

(* Packets and links keep coming from requests.                            *)
LEMMA NextAsked == TypeOK /\ Asked /\ [Next]_vars => Asked'
<1> SUFFICES ASSUME TypeOK, Asked, [Next]_vars PROVE Asked'
  OBVIOUS
<1>1. ASSUME NEW r \in Requests, Issue(r[1], r) PROVE Asked'
  <2> DEFINE p == [msg |-> r[2], addr |-> r[3], data |-> r[4], operand |-> r[5],
                   done |-> FALSE]
  <2>1. r[1] \in Threads /\ p.msg = r[2] /\ p.addr = r[3]
    BY IssuedPacket
  <2>2. req' = [req EXCEPT ![r[1]] = p] /\ UNCHANGED <<mem, link, fresh>>
    BY <1>1 DEF Issue
  <2>3. \A h \in Threads : req'[h] = IF h = r[1] THEN p ELSE req[h]
    BY <2>1, <2>2 DEF TypeOK
  <2> HIDE DEF p
  <2> QED
    BY <2>1, <2>2, <2>3 DEF Asked, Requested
<1>2. ASSUME NEW g \in Threads, Serve(g) PROVE Asked'
  <2>1. Requested(g, req[g].addr)
    BY <1>2 DEF Serve, Asked, Requested
  <2>2. \A h \in Threads : link'[h].valid => Requested(h, link'[h].addr)
    BY <1>2, <2>1, ServeLinks DEF Asked
  <2>3. \A h \in Threads : req'[h] # NoPacket /\ ~req'[h].done =>
          h # g /\ req'[h] = req[h]
    BY <1>2, ServeLinks
  <2> QED
    BY <2>2, <2>3 DEF Asked, Requested
<1>3. ASSUME NEW g \in Threads, Retire(g) PROVE Asked'
  <2>1. \A h \in Threads : req'[h] # NoPacket => req'[h] = req[h]
    BY <1>3 DEF Retire, TypeOK
  <2>2. link' = link
    BY <1>3 DEF Retire
  <2> QED
    BY <2>1, <2>2 DEF Asked, Requested
<1>4. CASE UNCHANGED vars
  BY <1>4 DEF vars, Asked, Requested
<1> QED
  BY <1>1, <1>2, <1>3, <1>4 DEF Next

(* A word of SyncWords is written by an STC only, from the cluster of every
   thread that links it.                                                   *)
LEMMA SyncWriter ==
  ASSUME TypeOK, Asked, NEW g \in Threads, Serve(g), req[g].addr \in SyncWords
  PROVE  /\ LoadLinked(g) \/ StoreConditional(g)
         /\ \A h \in Threads :
              link[h].valid /\ link[h].addr = req[g].addr => Cluster(g) = Cluster(h)
<1>1. PICK r \in Requests : r[1] = g /\ r[2] = req[g].msg /\ r[3] = req[g].addr
  BY DEF Asked, Serve
<1>2. req[g].msg \in {"LDL", "STC"}
  BY <1>1, SyncAssumption
<1>3. LoadLinked(g) \/ StoreConditional(g)
  BY <1>2 DEF Serve, doMemoryAccess, Load, Store, GlobalAtomic, Atomics
<1>4. ASSUME NEW h \in Threads, link[h].valid, link[h].addr = req[g].addr
      PROVE  Cluster(g) = Cluster(h)
  <2>1. PICK s \in Requests : s[1] = h /\ s[3] = req[g].addr
    BY <1>4 DEF Asked, Requested
  <2> QED
    BY <1>1, <2>1, SyncAssumption
<1> QED
  BY <1>3, <1>4

(* Serving keeps a link to a word of SyncWords as good as a lock.          *)
LEMMA ServeUntouched ==
  ASSUME TypeOK, Asked, LinkMeansUntouched, NEW g \in Threads, Serve(g)
  PROVE  LinkMeansUntouched'
<1> SUFFICES ASSUME NEW h \in Threads, link'[h].valid, link'[h].addr \in SyncWords
             PROVE  h \in fresh'
  BY DEF LinkMeansUntouched
<1>1. CASE ~(link'[h] = link[h] /\ link[h].valid)
  <2>1. h = g /\ link'[h].addr = req[g].addr
    BY <1>1, ServeLinks
  <2>2. LoadLinked(g) \/ StoreConditional(g)
    BY <2>1, SyncWriter
  <2>3. CASE LoadLinked(g)
    BY <2>1, <2>3 DEF LoadLinked
  <2>4. CASE StoreConditional(g)
    <3>1. link'[g] = link[g]
      BY <2>4 DEF StoreConditional, Broken, TypeOK
    <3>2. link'[g].valid
      BY <2>1
    <3> QED
      BY <1>1, <2>1, <3>1, <3>2
  <2> QED
    BY <2>2, <2>3, <2>4
<1>2. CASE link'[h] = link[h] /\ link[h].valid
  <2>1. h \in fresh
    BY <1>2 DEF LinkMeansUntouched
  <2>2. ASSUME NEW a, NEW v, WriteWord(g, a, v), a # link[h].addr \/ h = g
        PROVE  h \in fresh'
    BY <2>1, <2>2 DEF WriteWord
  <2>3. CASE req[g].addr # link[h].addr
    <3>1. \/ fresh' = fresh \/ fresh' = fresh \union {g}
          \/ \E v : WriteWord(g, req[g].addr, v)
      BY DEF Serve, doMemoryAccess, Load, Store, LoadLinked, StoreConditional,
             GlobalAtomic
    <3> QED
      BY <2>1, <2>2, <2>3, <3>1
  <2>4. CASE req[g].addr = link[h].addr
    <3>1. /\ LoadLinked(g) \/ StoreConditional(g)
          /\ Cluster(g) = Cluster(h)
      BY <1>2, <2>4, SyncWriter
    <3>2. CASE LoadLinked(g)
      BY <2>1, <3>2 DEF LoadLinked
    <3>3. CASE StoreConditional(g) /\ h = g
      <4>1. fresh' = fresh \/ WriteWord(g, req[g].addr, req[g].data)
        BY <3>3 DEF StoreConditional
      <4> QED
        BY <2>1, <2>2, <3>3, <4>1
    <3>4. CASE StoreConditional(g) /\ h # g
      <4> DEFINE a == req[g].addr
      <4>1. h \in Broken(g, a)
        BY <1>2, <2>4, <3>1, <3>4 DEF Broken, Linked
      <4>2. CASE Linked(g, a)
        <5>1. link'[h] = [link[h] EXCEPT !.valid = FALSE]
          BY <3>4, <4>1, <4>2 DEF StoreConditional
        <5>2. link[h] \in [valid : BOOLEAN, addr : Words]
          BY DEF TypeOK
        <5> QED
          BY <5>1, <5>2
      <4>3. CASE ~Linked(g, a)
        BY <2>1, <3>4, <4>3 DEF StoreConditional
      <4> QED
        BY <4>2, <4>3
    <3> QED
      BY <3>1, <3>2, <3>3, <3>4
  <2> QED
    BY <2>3, <2>4
<1> QED
  BY <1>1, <1>2

(* Every step keeps LinkMeansUntouched.                                    *)
LEMMA NextUntouched ==
  TypeOK /\ Asked /\ LinkMeansUntouched /\ [Next]_vars => LinkMeansUntouched'
<1> SUFFICES ASSUME TypeOK, Asked, LinkMeansUntouched, [Next]_vars
             PROVE  LinkMeansUntouched'
  OBVIOUS
<1>1. ASSUME NEW r \in Requests, Issue(r[1], r) PROVE LinkMeansUntouched'
  BY <1>1 DEF Issue, LinkMeansUntouched
<1>2. ASSUME NEW g \in Threads, Serve(g) PROVE LinkMeansUntouched'
  BY <1>2, ServeUntouched
<1>3. ASSUME NEW g \in Threads, Retire(g) PROVE LinkMeansUntouched'
  BY <1>3 DEF Retire, LinkMeansUntouched
<1>4. CASE UNCHANGED vars
  BY <1>4 DEF vars, LinkMeansUntouched
<1> QED
  BY <1>1, <1>2, <1>3, <1>4 DEF Next

(* A valid link to a synchronisation word means that no other thread wrote
   it: an STC that succeeds is atomic with its LDL (doLocalAtomic), for any
   number of threads and any requests that keep to the discipline.         *)
THEOREM LinkIsAtomic == Spec => []LinkMeansUntouched
<1>1. Init => Asked /\ LinkMeansUntouched
  BY DEF Init, Asked, LinkMeansUntouched, NoPacket
<1> QED
  BY <1>1, InitTypes, NextTypes, NextAsked, NextUntouched, PTL DEF Spec

(* Serving takes a link away only together with its place in fresh.        *)
LEMMA ServeLost ==
  ASSUME TypeOK, LinkLostToWriter, NEW g \in Threads, Serve(g)
  PROVE  LinkLostToWriter'
<1> SUFFICES ASSUME NEW h \in Threads, h \in fresh', link'[h].addr \in SyncWords
             PROVE  link'[h].valid
  BY DEF LinkLostToWriter
<1>1. CASE UNCHANGED link /\ fresh' \subseteq fresh
  BY <1>1 DEF LinkLostToWriter
<1>2. CASE LoadLinked(g)
  <2>1. CASE h = g
    BY <1>2, <2>1 DEF LoadLinked, TypeOK
  <2>2. CASE h # g
    <3>1. link'[h] = link[h] /\ h \in fresh
      BY <1>2, <2>2 DEF LoadLinked, TypeOK
    <3> QED
      BY <3>1 DEF LinkLostToWriter
  <2> QED
    BY <2>1, <2>2
<1>3. CASE StoreConditional(g) /\ Linked(g, req[g].addr)
  <2> DEFINE a == req[g].addr
  <2>1. /\ WriteWord(g, a, req[g].data)
        /\ link' = [k \in Threads |->
             IF k \in Broken(g, a) THEN [link[k] EXCEPT !.valid = FALSE] ELSE link[k]]
    BY <1>3 DEF StoreConditional
  <2>2. h \in fresh /\ (h = g \/ link[h].addr # a)
    BY <2>1 DEF WriteWord
  <2>3. h \notin Broken(g, a)
    BY <2>2 DEF Broken, Linked
  <2>4. link'[h] = link[h]
    BY <2>1, <2>3
  <2> QED
    BY <2>2, <2>4 DEF LinkLostToWriter
<1>4. CASE StoreConditional(g) /\ ~Linked(g, req[g].addr)
  BY <1>1, <1>4 DEF StoreConditional
<1>5. CASE Load(g) \/ Store(g) \/ GlobalAtomic(g)
  <2>1. UNCHANGED link /\ fresh' \subseteq fresh
    BY <1>5 DEF Load, Store, GlobalAtomic, WriteWord
  <2> QED
    BY <1>1, <2>1
<1> QED
  BY <1>2, <1>3, <1>4, <1>5 DEF Serve, doMemoryAccess

(* A link to a synchronisation word is lost to a writer only, so of the
   threads that contend for the word with LDL and STC one succeeds.        *)
THEOREM LinkLostOnlyToWriter == Spec => []LinkLostToWriter
<1>1. Init => LinkLostToWriter
  BY DEF Init, LinkLostToWriter
<1>2. TypeOK /\ LinkLostToWriter /\ [Next]_vars => LinkLostToWriter'
  <2> SUFFICES ASSUME TypeOK, LinkLostToWriter, [Next]_vars
               PROVE  LinkLostToWriter'
    OBVIOUS
  <2>1. ASSUME NEW r \in Requests, Issue(r[1], r) PROVE LinkLostToWriter'
    BY <2>1 DEF Issue, LinkLostToWriter
  <2>2. ASSUME NEW g \in Threads, Serve(g) PROVE LinkLostToWriter'
    BY <2>2, ServeLost
  <2>3. ASSUME NEW g \in Threads, Retire(g) PROVE LinkLostToWriter'
    BY <2>3 DEF Retire, LinkLostToWriter
  <2>4. CASE UNCHANGED vars
    BY <2>4 DEF vars, LinkLostToWriter
  <2> QED
    BY <2>1, <2>2, <2>3, <2>4 DEF Next
<1> QED
  BY <1>1, <1>2, InitTypes, NextTypes, PTL DEF Spec
=============================================================================
