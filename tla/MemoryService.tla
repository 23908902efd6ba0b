---------------------------- MODULE MemoryService ----------------------------
(***************************************************************************)
(* What the cluster caches of rigel-sim do with a memory request: the      *)
(* function doMemoryAccess and the table of load-linked addresses, which   *)
(* ClusterCacheStructural and ClusterCacheFunctional share word for word.  *)
(*                                                                         *)
(* The specification is also the service a core is promised, whatever      *)
(* carries its requests: between the issue of a request and the arrival of *)
(* the reply the access is made once, atomically.  TiledChip implements it.*)
(*                                                                         *)
(* A request is a Packet: the core holds a pointer to it and every         *)
(* component on the way updates it in place, so req is indexed by the      *)
(* thread that owns the packet; a thread has one at a time.                *)
(***************************************************************************)
EXTENDS Integers, FiniteSets

CONSTANTS
  Threads,             \* global thread numbers, from 0
  ThreadsPerCluster,   \* rigel::THREADS_PER_CLUSTER
  Words,               \* the word addresses software uses
  WordSize,            \* a word holds 0 .. WordSize - 1 (2^32 in the code)
  Requests,            \* the tuples <<thread, message, word, data, operand>>
                       \* software may issue
  SyncWords            \* words software touches with LDL and STC only, from
                       \* the threads of one cluster

Value == 0 .. WordSize - 1
Cluster(g) == g \div ThreadsPerCluster

Atomics == {"CAS", "XCHG", "ADDU", "INC", "DEC", "MIN", "MAX"}
Messages == {"READ", "WRITE", "LDL", "STC"} \union Atomics
Replies == {"LDL_REPLY", "STC_ACK", "STC_NACK", "ATOM_REPLY"}

Packet == [msg : Messages \union Replies, addr : Words, data : Value,
           operand : Value, done : BOOLEAN]
NoPacket == [msg |-> "none"]

ASSUME ThreadAssumption == Threads \subseteq Nat /\ ThreadsPerCluster \in Nat \ {0}
ASSUME WordAssumption ==
  /\ WordSize \in Nat \ {0, 1}
  /\ Words # {}
  /\ SyncWords \subseteq Words
ASSUME RequestAssumption ==
  Requests \subseteq Threads \X Messages \X Words \X Value \X Value
ASSUME SyncAssumption ==
  \A r, s \in Requests :
    r[3] \in SyncWords =>
      /\ r[2] \in {"LDL", "STC"}
      /\ r[3] = s[3] => Cluster(r[1]) = Cluster(s[1])

VARIABLES
  mem,    \* the backing store
  link,   \* LinkTable of every cluster: the linked address and its valid bit
  req,    \* the packet of a thread's outstanding memory instruction
  fresh   \* history: the threads whose linked word no other thread has
          \* written since they linked it

vars == <<mem, link, req, fresh>>

Linked(g, a) == link[g].valid /\ link[g].addr = a

(* The access is done: the packet carries the result back.                 *)
Complete(g, msg, data) ==
  req' = [req EXCEPT ![g] = [@ EXCEPT !.msg = msg, !.data = data, !.done = TRUE]]

(* g writes v to word a, under the links of the other threads to a.        *)
WriteWord(g, a, v) ==
  /\ mem' = [mem EXCEPT ![a] = v]
  /\ fresh' = {h \in fresh : h = g \/ link[h].addr # a}
-----------------------------------------------------------------------------
Init ==
  /\ mem = [a \in Words |-> 0]
  /\ link = [g \in Threads |-> [valid |-> FALSE, addr |-> CHOOSE a \in Words : TRUE]]
  /\ req = [g \in Threads |-> NoPacket]
  /\ fresh = {}

(* The core builds the packet of a memory instruction (doMem).             *)
Issue(g, r) ==
  /\ r[1] = g
  /\ req[g] = NoPacket
  /\ req' = [req EXCEPT ![g] = [msg |-> r[2], addr |-> r[3], data |-> r[4],
                                operand |-> r[5], done |-> FALSE]]
  /\ UNCHANGED <<mem, link, fresh>>

Load(g) ==
  /\ req[g].msg = "READ"
  /\ Complete(g, "READ", mem[req[g].addr])
  /\ UNCHANGED <<mem, link, fresh>>

Store(g) ==
  /\ req[g].msg = "WRITE"
  /\ WriteWord(g, req[g].addr, req[g].data)
  /\ Complete(g, "WRITE", req[g].data)
  /\ UNCHANGED link

LoadLinked(g) ==
  /\ req[g].msg = "LDL"
  /\ link' = [link EXCEPT ![g] = [valid |-> TRUE, addr |-> req[g].addr]]
  /\ Complete(g, "LDL_REPLY", mem[req[g].addr])
  /\ fresh' = fresh \union {g}
  /\ UNCHANGED mem

(* STC succeeds on a valid link to the same word.  It breaks the links of  *)
(* the cluster's other threads to that word, and keeps its own.            *)
Broken_None(g, a) == {}
Broken(g, a) == {h \in Threads \ {g} : Cluster(h) = Cluster(g) /\ Linked(h, a)}

StoreConditional(g) ==
  /\ req[g].msg = "STC"
  /\ LET a == req[g].addr IN
     \/ /\ Linked(g, a)
        /\ WriteWord(g, a, req[g].data)
        /\ link' = [h \in Threads |->
             IF h \in Broken(g, a) THEN [link[h] EXCEPT !.valid = FALSE] ELSE link[h]]
        /\ Complete(g, "STC_ACK", 1)
     \/ /\ ~Linked(g, a)
        /\ Complete(g, "STC_NACK", 0)
        /\ UNCHANGED <<mem, link, fresh>>

(* execGlobalAtomic: the word written, and the one returned.  The bitwise  *)
(* AND, OR and XOR differ from MIN and MAX in the value only.              *)
Lesser(x, y) == IF x < y THEN x ELSE y
Greater(x, y) == IF x > y THEN x ELSE y
Updated(p, old) ==
  CASE p.msg \in {"CAS", "XCHG"} -> p.data
    [] p.msg = "ADDU" -> (old + p.operand) % WordSize
    [] p.msg = "INC" -> (old + 1) % WordSize
    [] p.msg = "DEC" -> (old + WordSize - 1) % WordSize
    [] p.msg = "MIN" -> Lesser(old, p.operand)
    [] p.msg = "MAX" -> Greater(old, p.operand)
Returned(p, old) ==
  IF p.msg \in {"CAS", "XCHG", "ADDU"} THEN old ELSE Updated(p, old)

GlobalAtomic(g) ==
  /\ req[g].msg \in Atomics
  /\ LET p == req[g]
         old == mem[p.addr] IN
     /\ Complete(g, "ATOM_REPLY", Returned(p, old))
     /\ IF p.msg = "CAS" /\ old # p.operand
          THEN UNCHANGED <<mem, fresh>>
          ELSE WriteWord(g, p.addr, Updated(p, old))
  /\ UNCHANGED link

(* doMemoryAccess on the packet of g.                                      *)
doMemoryAccess(g) ==
  Load(g) \/ Store(g) \/ LoadLinked(g) \/ StoreConditional(g) \/ GlobalAtomic(g)

Serve(g) == req[g] # NoPacket /\ ~req[g].done /\ doMemoryAccess(g)

(* The core reads the reply and deletes the packet.                        *)
Retire(g) ==
  /\ req[g] # NoPacket
  /\ req[g].done
  /\ req' = [req EXCEPT ![g] = NoPacket]
  /\ UNCHANGED <<mem, link, fresh>>

Next ==
  \/ \E r \in Requests : Issue(r[1], r)
  \/ \E g \in Threads : Serve(g)
  \/ \E g \in Threads : Retire(g)

Spec == Init /\ [][Next]_vars
-----------------------------------------------------------------------------
(* Type invariant: packets, links and words are of the declared kinds, and a
   packet holds a reply type only once it is done.                         *)
TypeOK ==
  /\ mem \in [Words -> Value]
  /\ link \in [Threads -> [valid : BOOLEAN, addr : Words]]
  /\ req \in [Threads -> Packet \union {NoPacket}]
  /\ \A g \in Threads : req[g] # NoPacket /\ req[g].msg \in Replies => req[g].done
  /\ fresh \subseteq Threads

(* A valid link to a word that is used for LDL and STC by one cluster means
   that nobody else wrote the word since: an STC that succeeds is atomic with
   the LDL before it (doLocalAtomic).                                      *)
LinkMeansUntouched ==
  \A g \in Threads :
    link[g].valid /\ link[g].addr \in SyncWords => g \in fresh

(* A failing STC is somebody else's success: once a thread has linked a word
   used only for LDL and STC, its link to it is lost only after another thread
   of the cluster wrote the word, so contending threads cannot all fail.   *)
LinkLostToWriter ==
  \A g \in Threads :
    g \in fresh /\ link[g].addr \in SyncWords => link[g].valid
=============================================================================
