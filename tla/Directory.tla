------------------------------ MODULE Directory ------------------------------
(* The directory coherence protocol of the legacy memory system, for the     *)
(* lines of one directory set: the cluster caches (L2Cache) with their miss  *)
(* handling entries (MSHRs), the interconnect between them and one bank of   *)
(* the global cache, and the directory (CacheDirectory) the bank consults.   *)
(* An entry names at most "pointers" sharers exactly: with as many as there  *)
(* are clusters it is the full map, with fewer the limited directory, whose  *)
(* overflowed entries are recalled by a broadcast to every cluster.  The     *)
(* probe-filter, overflow and hybrid directories are other configurations.   *)
(* A default virtual channel carries requests and their replies; the bank    *)
(* scans the requests each cycle and a fill may be postponed, so both are    *)
(* sets.  The probe channel carries probes, their answers, releases and the  *)
(* replies to releases, in order for each cluster and direction.             *)
EXTENDS Naturals, Sequences, FiniteSets, SequencesExt

CONSTANTS Clusters, Lines, Ways,
          Accesses,   \* what the programs do: <<cluster, line, request>>
          PointerCounts  \* the directories to consider: MAX_LIMITED_PTRS

VARIABLES cache,      \* cache[c][l]: invalid, clean (read) or dirty (written)
          mshr,       \* mshr[c][l]: the entry of c's request or release of l
          answer,     \* answer[c][l]: the entry of c's answer to a probe of l
          requests,   \* requests waiting at the bank (VCN_DEFAULT)
          replies,    \* replies under way to the clusters (VCN_DEFAULT)
          up,         \* up[c]: messages from c on VCN_PROBE
          down,       \* down[c]: messages to c on VCN_PROBE
          entry,      \* entry[w]: the directory entry of way w
          replacing,  \* the replacement pending on the set
          outbox,     \* probes the directory has yet to send
          pointers    \* sharers an entry can name: fixed by the command line

clusterVars == <<cache, mshr, answer>>
bankVars == <<entry, replacing, outbox, pointers>>
vars == <<clusterVars, requests, replies, up, down, bankVars>>

None == "none"
Demands == {"READ_REQ", "WRITE_REQ"}
Releases == {"RD_RELEASE_REQ", "EVICT_REQ"}
Recalls == {"INVALIDATE_PROBE", "WR_RELEASE_PROBE"}
Probes == Recalls \cup {"BCAST_PROBE"}
Naks == {"INVALIDATE_NAK", "WR_RELEASE_NAK"}
Answers == {"INVALIDATE_ACK", "WR_RELEASE_ACK", "BCAST_ACK"} \cup Naks
Message == [type: Releases \cup Probes \cup Answers, line: Lines,
            seen: BOOLEAN]
Plain(t, l) == [type |-> t, line |-> l, seen |-> FALSE]
Request == [cluster: Clusters, line: Lines, type: Demands]
Read(c, l) == [cluster |-> c, line |-> l, type |-> "READ_REQ"]

ASSUME ClustersAssumption == IsFiniteSet(Clusters)
ASSUME AccessesAssumption == Accesses \subseteq Clusters \X Lines \X Demands
ASSUME PointersAssumption == PointerCounts \subseteq Nat \ {0}

(* IC_MSG_LINE_WRITEBACK_REQ is handled as IC_MSG_EVICT_REQ at every place.  *)
Mshr == [type: Demands \cup Releases \cup {None}, acked: BOOLEAN,
         nak: BOOLEAN, poison: BOOLEAN, upgrade: BOOLEAN]
NoMshr == [type |-> None, acked |-> FALSE, nak |-> FALSE, poison |-> FALSE,
           upgrade |-> FALSE]
Pend(type) == [NoMshr EXCEPT !.type = type]

EvictionLocks == {"EVICTION_LOCK_READ", "EVICTION_LOCK_WRITE"}
BcastStates == {"PENDING_WRITE_BCAST", "EVICTION_LOCK_READ_BCAST"}
LockedStates == {"PENDING_WB", "PENDING_WRITE"} \cup EvictionLocks
                  \cup BcastStates
States == {"INVALID", "READ_SHARED", "WRITE_PRIV"} \cup LockedStates
Entry == [addr: Lines \cup {None}, state: States, sharers: SUBSET Clusters,
          waiting: Clusters \cup {None}, nakWaitlist: SUBSET Clusters,
          fillPending: SUBSET Clusters, bcast: BOOLEAN]
Reset == [addr |-> None, state |-> "INVALID", sharers |-> {},
          waiting |-> None, nakWaitlist |-> {}, fillPending |-> {},
          bcast |-> FALSE]
Owned(l, s, c) == [Reset EXCEPT !.addr = l, !.state = s, !.sharers = {c},
                                !.fillPending = {c}]

NoReplacement == [way |-> None, aggressor |-> None]
Replacement == [way: Ways, aggressor: Lines] \cup {NoReplacement}

Init ==
  /\ cache = [c \in Clusters |-> [l \in Lines |-> "I"]]
  /\ mshr = [c \in Clusters |-> [l \in Lines |-> NoMshr]]
  /\ answer = [c \in Clusters |-> [l \in Lines |-> None]]
  /\ requests = {} /\ replies = {}
  /\ up = [c \in Clusters |-> <<>>] /\ down = [c \in Clusters |-> <<>>]
  /\ entry = [w \in Ways |-> Reset]
  /\ replacing = NoReplacement
  /\ outbox = <<>>
  /\ pointers \in PointerCounts

-----------------------------------------------------------------------------
(* The cluster caches.                                                       *)

IsPending(c, l) == mshr[c][l] # NoMshr \/ answer[c][l] # None
SetMshr(c, l, e) == mshr' = [mshr EXCEPT ![c][l] = e]
SetCache(c, l, s) == cache' = [cache EXCEPT ![c][l] = s]
SetAnswer(c, l, a) == answer' = [answer EXCEPT ![c][l] = a]
FirstOf(q) == IF q = <<>> THEN {} ELSE {Head(q)}
SendUp(c, t, l) == up' = [up EXCEPT ![c] = Append(@, Plain(t, l))]

(* A load or a store of a core of c misses.                                  *)
Miss(c, l, demand) ==
  /\ <<c, l, demand>> \in Accesses
  /\ cache[c][l] = "I" /\ ~IsPending(c, l)
  /\ SetMshr(c, l, Pend(demand))
  /\ UNCHANGED <<cache, answer, requests, replies, up, down, bankVars>>

(* A store to a clean line gives the line back first, to ask for it anew.    *)
StoreToShared_KeepsLine(c, l) ==
  /\ <<c, l, "WRITE_REQ">> \in Accesses
  /\ cache[c][l] = "S" /\ ~IsPending(c, l)
  /\ UNCHANGED cache
  /\ SetMshr(c, l, [Pend("RD_RELEASE_REQ") EXCEPT !.upgrade = TRUE])
  /\ UNCHANGED <<answer, requests, replies, up, down, bankVars>>
StoreToShared(c, l) ==
  /\ <<c, l, "WRITE_REQ">> \in Accesses
  /\ cache[c][l] = "S" /\ ~IsPending(c, l)
  /\ SetCache(c, l, "I")
  /\ SetMshr(c, l, [Pend("RD_RELEASE_REQ") EXCEPT !.upgrade = TRUE])
  /\ UNCHANGED <<answer, requests, replies, up, down, bankVars>>

(* The line is the victim of a fill, or a core writes it back or invalidates *)
(* it: c drops it at once and tells the directory.                           *)
GiveBack(c, l) ==
  /\ cache[c][l] # "I" /\ ~IsPending(c, l)
  /\ SetCache(c, l, "I")
  /\ SetMshr(c, l, Pend(IF cache[c][l] = "M" THEN "EVICT_REQ"
                                             ELSE "RD_RELEASE_REQ"))
  /\ UNCHANGED <<answer, requests, replies, up, down, bankVars>>

(* A read that leaves takes a logical channel and stamps it with the cycle:  *)
(* no probe already on its way can have seen it answered.                    *)
Unseen(m, l) == IF m.line = l THEN [m EXCEPT !.seen = FALSE] ELSE m
StampRead_Kept(c, l) == UNCHANGED <<down, outbox>>
StampRead(c, l) ==
  /\ down' = [down EXCEPT ![c] = [i \in DOMAIN down[c] |->
                                   Unseen(down[c][i], l)]]
  /\ outbox' = [i \in DOMAIN outbox |->
       IF outbox[i].cluster = c
         THEN [outbox[i] EXCEPT !.message = Unseen(outbox[i].message, l)]
         ELSE outbox[i]]

(* ClusterInject of a request or of a release.                               *)
Inject(c, l) ==
  LET type == mshr[c][l].type IN
  /\ type # None /\ ~mshr[c][l].acked
  /\ mshr' = [mshr EXCEPT ![c][l].acked = TRUE]
  /\ IF type \in Demands
       THEN /\ requests' = requests
                 \cup {[cluster |-> c, line |-> l, type |-> type]}
            /\ UNCHANGED up
       ELSE SendUp(c, type, l) /\ UNCHANGED requests
  /\ IF type = "READ_REQ" THEN StampRead(c, l) ELSE UNCHANGED <<down, outbox>>
  /\ UNCHANGED <<cache, answer, replies, entry, replacing, pointers>>

(* ClusterInject of an answer: nothing comes back, so its MSHR is freed.     *)
InjectAnswer(c, l) ==
  /\ answer[c][l] # None
  /\ SendUp(c, answer[c][l], l)
  /\ SetAnswer(c, l, None)
  /\ UNCHANGED <<cache, mshr, requests, replies, down, bankVars>>

Ack(probe) == IF probe = "INVALIDATE_PROBE" THEN "INVALIDATE_ACK"
                                            ELSE "WR_RELEASE_ACK"
Nak(probe) == IF probe = "INVALIDATE_PROBE" THEN "INVALIDATE_NAK"
                                            ELSE "WR_RELEASE_NAK"

(* The next message on the probe channel of c, a probe of one of the types.  *)
ReceiveProbe(c, m, types) ==
  /\ m.type \in types
  /\ answer[c][m.line] = None
  /\ down' = [down EXCEPT ![c] = Tail(@)]
  /\ UNCHANGED <<requests, replies, up, bankVars>>

(* Nothing is pending for the line: c invalidates it, if it has it.          *)
ProbeIdle(c) ==
  \E m \in FirstOf(down[c]) :
    /\ ReceiveProbe(c, m, Recalls)
    /\ mshr[c][m.line] = NoMshr
    /\ SetCache(c, m.line, "I")
    /\ SetAnswer(c, m.line, IF cache[c][m.line] = "I" THEN Nak(m.type)
                                                      ELSE Ack(m.type))
    /\ UNCHANGED mshr

(* A demand request that has not left is squashed.  A release that has not   *)
(* left makes the probe wait.                                                *)
ProbeSquashes(c) ==
  \E m \in FirstOf(down[c]) :
    /\ ReceiveProbe(c, m, Recalls)
    /\ mshr[c][m.line].type \in Demands /\ ~mshr[c][m.line].acked
    /\ SetMshr(c, m.line, NoMshr)
    /\ SetAnswer(c, m.line, Nak(m.type))
    /\ UNCHANGED cache

(* One that has left is marked: its fill will be given back on arrival.      *)
ProbeMarks(c) ==
  \E m \in FirstOf(down[c]) :
    /\ ReceiveProbe(c, m, Recalls)
    /\ mshr[c][m.line].acked
    /\ mshr' = [mshr EXCEPT ![c][m.line].nak =
                              @ \/ mshr[c][m.line].type \in Demands]
    /\ SetAnswer(c, m.line, Nak(m.type))
    /\ UNCHANGED cache

(* helper_handle_ccbcast_probe: c drops the line and acknowledges, whatever  *)
(* it holds.  A read the directory has already answered is poisoned, one     *)
(* that has not left is squashed, and so is a release.  A release that has   *)
(* left holds the acknowledgement back until it is replied to.               *)
ReleaseUnderWay(c, l) ==
  mshr[c][l].type = "RD_RELEASE_REQ" /\ mshr[c][l].acked
Squashable(c, l) ==
  mshr[c][l].type \in {"READ_REQ", "RD_RELEASE_REQ"} /\ ~mshr[c][l].acked
BroadcastInvalidates(c) ==
  \E m \in FirstOf(down[c]) :
    LET l == m.line IN
    /\ ReceiveProbe(c, m, {"BCAST_PROBE"})
    /\ ~ReleaseUnderWay(c, l)
    /\ SetMshr(c, l, IF Squashable(c, l) THEN NoMshr ELSE
         [mshr[c][l] EXCEPT !.poison = mshr[c][l].type = "READ_REQ" /\ m.seen])
    /\ SetCache(c, l, "I")
    /\ SetAnswer(c, l, "BCAST_ACK")
BroadcastPoisonsRelease(c) ==
  \E m \in FirstOf(down[c]) :
    /\ ReceiveProbe(c, m, {"BCAST_PROBE"})
    /\ ReleaseUnderWay(c, m.line)
    /\ mshr' = [mshr EXCEPT ![c][m.line].poison = TRUE]
    /\ UNCHANGED <<cache, answer>>

(* The reply to a release frees the MSHR, or lets the store that gave the    *)
(* line back go on, unless something else is pending for the line by now.  A *)
(* poisoned one makes way for the acknowledgement of the broadcast.          *)
ReleaseDone(c) ==
  \E l \in Lines :
    /\ down[c] # <<>> /\ Head(down[c]).type \in Releases
    /\ Head(down[c]).line = l
    /\ down' = [down EXCEPT ![c] = Tail(@)]
    /\ IF mshr[c][l].poison
         THEN SetMshr(c, l, NoMshr) /\ SetAnswer(c, l, "BCAST_ACK")
         ELSE /\ SetMshr(c, l, IF mshr[c][l].upgrade /\ answer[c][l] = None
                                 THEN Pend("WRITE_REQ") ELSE NoMshr)
              /\ UNCHANGED answer
    /\ UNCHANGED <<cache, requests, replies, up, bankVars>>

(* A reply arrives.  A poisoned one is dropped: the broadcast has taken the  *)
(* line from the directory.  A marked one is not filled: the line goes back. *)
Fill_IgnoresPoison(c, l) ==
  \E r \in replies :
    /\ r.cluster = c /\ r.line = l
    /\ replies' = replies \ {r}
    /\ IF mshr[c][l].nak
         THEN /\ SetMshr(c, l, Pend(IF r.type = "WRITE_REQ"
                                      THEN "EVICT_REQ" ELSE "RD_RELEASE_REQ"))
              /\ UNCHANGED cache
         ELSE /\ SetMshr(c, l, NoMshr)
              /\ SetCache(c, l, IF r.type = "WRITE_REQ" THEN "M" ELSE "S")
    /\ UNCHANGED <<answer, requests, up, down, bankVars>>
Fill(c, l) ==
  \E r \in replies :
    /\ r.cluster = c /\ r.line = l
    /\ replies' = replies \ {r}
    /\ \/ /\ mshr[c][l].poison
          /\ SetMshr(c, l, NoMshr) /\ UNCHANGED cache
       \/ /\ mshr[c][l].nak /\ ~mshr[c][l].poison
          /\ SetMshr(c, l, Pend(IF r.type = "WRITE_REQ"
                                  THEN "EVICT_REQ" ELSE "RD_RELEASE_REQ"))
          /\ UNCHANGED cache
       \/ /\ ~mshr[c][l].nak /\ ~mshr[c][l].poison
          /\ SetMshr(c, l, NoMshr)
          /\ SetCache(c, l, IF r.type = "WRITE_REQ" THEN "M" ELSE "S")
    /\ UNCHANGED <<answer, requests, up, down, bankVars>>

-----------------------------------------------------------------------------
(* The bank and its directory: requests.                                     *)

Tracked(l) == {w \in Ways : entry[w].state # "INVALID" /\ entry[w].addr = l}
SetEntry(w, e) == entry' = [entry EXCEPT ![w] = e]
(* A broadcast carries what the directory has answered to each cluster.      *)
ProbesTo(cs, t, l) ==
  SetToSeq({[cluster |-> c, message |-> [Plain(t, l) EXCEPT !.seen =
               t = "BCAST_PROBE" /\ Read(c, l) \in replies]] : c \in cs})
SendProbes(cs, t, l) == outbox' = outbox \o ProbesTo(cs, t, l)
Owner(e) == CHOOSE c \in e.sharers : TRUE

(* check_read_permission and check_write_permission.                         *)
ReadPermitted(e, c) == e.state = "READ_SHARED" /\ c \in e.sharers
WritePermitted(e, c) == e.state = "WRITE_PRIV" /\ c \in e.sharers
(* A read is content with write permission.                                  *)
Permitted(e, r) ==
  \/ WritePermitted(e, r.cluster)
  \/ r.type = "READ_REQ" /\ ReadPermitted(e, r.cluster)
(* check_request_pending *)
Blocked(e) == e.fillPending # {} \/ e.state \in LockedStates

(* write_to_read_perm_downgrade: a read under write permission leaves the    *)
(* line read-shared.                                                         *)
Downgrade(e, type) ==
  IF type = "READ_REQ" THEN [e EXCEPT !.state = "READ_SHARED"] ELSE e
ClearFillPending(e, c) == [e EXCEPT !.fillPending = @ \ {c}]

(* A permitted request hits in the global cache and is answered.  While the  *)
(* line is fetched from memory nothing here changes.                         *)
Reply(r) ==
  \E w \in Tracked(r.line) :
    /\ Permitted(entry[w], r)
    /\ SetEntry(w, ClearFillPending(Downgrade(entry[w], r.type), r.cluster))
    /\ requests' = requests \ {r} /\ replies' = replies \cup {r}
    /\ UNCHANGED <<clusterVars, up, down, replacing, outbox, pointers>>

(* The request finds an entry it may act on.                                 *)
Hit(r, w) ==
  /\ w \in Tracked(r.line)
  /\ ~Permitted(entry[w], r) /\ ~Blocked(entry[w])
  /\ UNCHANGED <<clusterVars, requests, replies, up, down, replacing, pointers>>

(* inc_sharers: one sharer more than the entry can name sets its broadcast   *)
(* bit, until the entry is reset.                                            *)
Join(e, c) ==
  [e EXCEPT !.sharers = @ \cup {c},
            !.bcast = @ \/ Cardinality(e.sharers) >= pointers]

(* request_read_permission of a line that others read.                       *)
ShareLine(r) ==
  \E w \in Ways :
    /\ Hit(r, w) /\ r.type = "READ_REQ" /\ entry[w].state = "READ_SHARED"
    /\ SetEntry(w, [Join(entry[w], r.cluster) EXCEPT
                      !.fillPending = @ \cup {r.cluster}])
    /\ UNCHANGED outbox

(* request_write_permission of a line that others read.  The requester needs *)
(* no probe; alone, it is upgraded.                                          *)
InvalidateSharers(r) ==
  \E w \in Ways :
    LET others == entry[w].sharers \ {r.cluster} IN
    /\ Hit(r, w) /\ r.type = "WRITE_REQ" /\ entry[w].state = "READ_SHARED"
    /\ ~entry[w].bcast
    /\ SetEntry(w, IF entry[w].sharers = {r.cluster}
         THEN [entry[w] EXCEPT !.state = "WRITE_PRIV",
                               !.fillPending = @ \cup {r.cluster}]
         ELSE [entry[w] EXCEPT !.state = "PENDING_WRITE", !.sharers = others,
                               !.waiting = r.cluster])
    /\ SendProbes(others, "INVALIDATE_PROBE", r.line)

(* One whose sharers the entry cannot name: every other cluster gets the     *)
(* broadcast, and the entry waits for each of them.                          *)
Broadcast(w, state, cs) ==
  /\ SetEntry(w, [entry[w] EXCEPT !.state = state, !.sharers = cs])
  /\ SendProbes(cs, "BCAST_PROBE", entry[w].addr)
InvalidateByBroadcast(r) ==
  \E w \in Ways :
    /\ Hit(r, w) /\ r.type = "WRITE_REQ" /\ entry[w].state = "READ_SHARED"
    /\ entry[w].bcast
    /\ Broadcast(w, "PENDING_WRITE_BCAST", Clusters \ {r.cluster})

(* A request for a line that another cluster owns: the owner must release it *)
(* first, and the requester waits.                                           *)
RecallOwner_Shares(r) ==
  \E w \in Ways :
    /\ Hit(r, w) /\ entry[w].state = "WRITE_PRIV"
    /\ SetEntry(w, [entry[w] EXCEPT
         !.state = "READ_SHARED", !.sharers = @ \cup {r.cluster}])
    /\ SendProbes({Owner(entry[w])}, "WR_RELEASE_PROBE", r.line)
RecallOwner(r) ==
  \E w \in Ways :
    /\ Hit(r, w) /\ entry[w].state = "WRITE_PRIV"
    /\ SetEntry(w, [entry[w] EXCEPT
         !.state = IF r.type = "READ_REQ" THEN "PENDING_WB"
                                          ELSE "PENDING_WRITE",
         !.waiting = r.cluster])
    /\ SendProbes({Owner(entry[w])}, "WR_RELEASE_PROBE", r.line)

(* get_replacement_entry: any policy, once no way is free.                   *)
Victim(w) == \A v \in Ways : entry[v].state # "INVALID"

(* replace_entry, for a line without an entry: only the aggressor may        *)
(* allocate while a replacement is pending.                                  *)
MayReplace(r, w) ==
  /\ Tracked(r.line) = {}
  /\ IF replacing = NoReplacement
       THEN entry[w].state = "INVALID"
              \/ Victim(w)
       ELSE replacing = [way |-> w, aggressor |-> r.line]
  /\ UNCHANGED <<clusterVars, requests, replies, up, down, pointers>>

(* The way is free. A victim whose last copy has left is free too: see Reset. *)
Allocate_KeepsReservation(r) ==
  \E w \in Ways :
    /\ MayReplace(r, w)
    /\ entry[w].state = "INVALID"
    /\ SetEntry(w, Owned(r.line, IF r.type = "READ_REQ" THEN "READ_SHARED"
                                                        ELSE "WRITE_PRIV",
                         r.cluster))
    /\ UNCHANGED replacing
    /\ UNCHANGED outbox
Allocate(r) ==
  \E w \in Ways :
    /\ MayReplace(r, w)
    /\ entry[w].state = "INVALID"
    /\ SetEntry(w, Owned(r.line, IF r.type = "READ_REQ" THEN "READ_SHARED"
                                                        ELSE "WRITE_PRIV",
                         r.cluster))
    /\ replacing' = NoReplacement
    /\ UNCHANGED outbox

(* The victim is in use: it is locked and its copies recalled once its fill  *)
(* is over and it is in a stable state; until then the set is reserved.      *)
RecallVictim(w) ==
  LET v == entry[w] IN
  IF v.state = "WRITE_PRIV"
    THEN /\ SetEntry(w, [v EXCEPT !.state = "EVICTION_LOCK_WRITE"])
         /\ SendProbes({Owner(v)}, "WR_RELEASE_PROBE", v.addr)
    ELSE IF v.bcast THEN Broadcast(w, "EVICTION_LOCK_READ_BCAST", Clusters)
    ELSE /\ SetEntry(w, [v EXCEPT !.state = "EVICTION_LOCK_READ"])
         /\ SendProbes(v.sharers, "INVALIDATE_PROBE", v.addr)
Evict(r) ==
  \E w \in Ways :
    /\ MayReplace(r, w) /\ entry[w].state # "INVALID"
    /\ replacing' = [way |-> w, aggressor |-> r.line]
    /\ \/ ~Blocked(entry[w]) /\ RecallVictim(w)
       \/ Blocked(entry[w]) /\ UNCHANGED <<entry, outbox>>

(* request_read_permission and request_write_permission.                     *)
RequestRead(r) ==
  /\ r.type = "READ_REQ"
  /\ ShareLine(r) \/ RecallOwner(r) \/ Allocate(r) \/ Evict(r)
RequestWrite(r) ==
  /\ r.type = "WRITE_REQ"
  /\ InvalidateSharers(r) \/ InvalidateByBroadcast(r) \/ RecallOwner(r)
       \/ Allocate(r) \/ Evict(r)

-----------------------------------------------------------------------------
(* The bank and its directory: probes out, releases and answers in.          *)

NextProbe == Head(outbox)
SendProbe ==
  /\ outbox # <<>>
  /\ down' = [down EXCEPT ![NextProbe.cluster] = Append(@, NextProbe.message)]
  /\ outbox' = Tail(outbox)
  /\ UNCHANGED <<clusterVars, requests, replies, up, entry, replacing, pointers>>

(* helper_handle_probe_responses: a release gets a reply, an answer none.    *)
Receive(c, m, w) ==
  /\ w \in Tracked(m.line)
  /\ up' = [up EXCEPT ![c] = Tail(@)]
  /\ down' = IF m.type \in Releases THEN [down EXCEPT ![c] = Append(@, m)]
                                    ELSE down
  /\ UNCHANGED <<clusterVars, requests, replies, outbox, pointers>>

ReadMessages == {"INVALIDATE_ACK", "INVALIDATE_NAK", "RD_RELEASE_REQ"}
WriteMessages == {"WR_RELEASE_ACK", "WR_RELEASE_NAK", "EVICT_REQ"}

(* A NAK and the release that crossed the probe come as a pair: the first of *)
(* them is only noted.                                                       *)
Completes_First(e, c, m) == TRUE
Completes(e, c, m) ==
  m.type \in {"INVALIDATE_ACK", "WR_RELEASE_ACK"} \/ c \in e.nakWaitlist
Note(w, c) == SetEntry(w, [entry[w] EXCEPT !.nakWaitlist = @ \cup {c}])

(* release_read_ownership when nothing waits for the line.                   *)
SharerLeaves(c) ==
  \E w \in Ways, m \in FirstOf(up[c]) :
    LET rest == entry[w].sharers \ {c} IN
    /\ Receive(c, m, w) /\ m.type \in ReadMessages \ Naks
    /\ entry[w].state = "READ_SHARED"
    /\ SetEntry(w, IF rest = {} THEN Reset
                                ELSE [entry[w] EXCEPT !.sharers = rest])
    /\ UNCHANGED replacing

(* release_read_ownership of a locked line: the last sharer frees the entry  *)
(* and, whatever it was locked for, the set's pending replacement.           *)
ReadRelease(c) ==
  \E w \in Ways, m \in FirstOf(up[c]) :
    LET rest == entry[w].sharers \ {c} IN
    /\ Receive(c, m, w) /\ m.type \in ReadMessages
    /\ entry[w].state \in EvictionLocks \cup {"PENDING_WRITE"}
    /\ IF ~Completes(entry[w], c, m) THEN Note(w, c) /\ UNCHANGED replacing
       ELSE IF rest # {}
         THEN SetEntry(w, [entry[w] EXCEPT !.sharers = rest])
              /\ UNCHANGED replacing
         ELSE SetEntry(w, Reset) /\ replacing' = NoReplacement

(* release_read_ownership of a line under broadcast: only acknowledgements   *)
(* count, and the last frees the entry, for whoever asks next.               *)
BroadcastRelease_CountsReleases(c) ==
  \E w \in Ways, m \in FirstOf(up[c]) :
    LET rest == entry[w].sharers \ {c} IN
    /\ Receive(c, m, w) /\ m.type \in {"BCAST_ACK", "RD_RELEASE_REQ"}
    /\ entry[w].state \in BcastStates
    /\ SetEntry(w, IF rest = {} THEN Reset
                                ELSE [entry[w] EXCEPT !.sharers = rest])
    /\ UNCHANGED replacing
BroadcastRelease(c) ==
  \E w \in Ways, m \in FirstOf(up[c]) :
    LET rest == entry[w].sharers \ {c} IN
    /\ Receive(c, m, w) /\ m.type \in {"BCAST_ACK", "RD_RELEASE_REQ"}
    /\ entry[w].state \in BcastStates
    /\ SetEntry(w, IF m.type = "RD_RELEASE_REQ" THEN entry[w]
                   ELSE IF rest = {} THEN Reset
                   ELSE [entry[w] EXCEPT !.sharers = rest])
    /\ UNCHANGED replacing

(* release_write_ownership when nothing waits for the line.                  *)
OwnerLeaves(c) ==
  \E w \in Ways, m \in FirstOf(up[c]) :
    /\ Receive(c, m, w) /\ m.type = "EVICT_REQ"
    /\ entry[w].state = "WRITE_PRIV" /\ entry[w].sharers = {c}
    /\ SetEntry(w, Reset)
    /\ UNCHANGED replacing

(* release_write_ownership of a locked line: the entry goes to the waiting   *)
(* cluster, or is free for the aggressor.                                    *)
WriteRelease(c) ==
  \E w \in Ways, m \in FirstOf(up[c]) :
    LET e == entry[w] IN
    /\ Receive(c, m, w) /\ m.type \in WriteMessages
    /\ e.state \in LockedStates \ BcastStates /\ e.sharers = {c}
    /\ IF ~Completes(e, c, m) THEN Note(w, c) /\ UNCHANGED replacing
       ELSE IF e.state \in EvictionLocks
         THEN SetEntry(w, Reset) /\ replacing' = NoReplacement
         ELSE /\ SetEntry(w, Owned(e.addr, IF e.state = "PENDING_WB"
                                THEN "READ_SHARED" ELSE "WRITE_PRIV",
                              e.waiting))
              /\ UNCHANGED replacing

-----------------------------------------------------------------------------
Cluster(c) ==
  \/ \E l \in Lines :
       \/ \E demand \in Demands : Miss(c, l, demand)
       \/ StoreToShared(c, l) \/ GiveBack(c, l)
       \/ Inject(c, l) \/ InjectAnswer(c, l) \/ Fill(c, l)
  \/ ProbeIdle(c) \/ ProbeSquashes(c) \/ ProbeMarks(c)
  \/ BroadcastInvalidates(c) \/ BroadcastPoisonsRelease(c) \/ ReleaseDone(c)

Serve(r) == Reply(r) \/ RequestRead(r) \/ RequestWrite(r)
ReleaseRead(c) == SharerLeaves(c) \/ ReadRelease(c) \/ BroadcastRelease(c)
ReleaseWrite(c) == OwnerLeaves(c) \/ WriteRelease(c)
ProbeResponse(c) == ReleaseRead(c) \/ ReleaseWrite(c)

Next ==
  \/ \E c \in Clusters : Cluster(c) \/ ProbeResponse(c)
  \/ \E r \in requests : Serve(r)
  \/ SendProbe

Spec == Init /\ [][Next]_vars

(* The clusters, the interconnect and the bank do something every cycle, so  *)
(* no message waits for ever; what a program asks for is up to it.           *)
Fairness ==
  /\ \A c \in Clusters :
       /\ \A l \in Lines : /\ WF_vars(Inject(c, l))
                           /\ WF_vars(InjectAnswer(c, l))
                           /\ WF_vars(Fill(c, l))
       /\ WF_vars(ProbeIdle(c) \/ ProbeSquashes(c) \/ ProbeMarks(c)
                    \/ BroadcastInvalidates(c) \/ BroadcastPoisonsRelease(c)
                    \/ ReleaseDone(c))
       /\ WF_vars(ProbeResponse(c))
       /\ \A l \in Lines, d \in Demands :
            LET r == [cluster |-> c, line |-> l, type |-> d]
            IN  WF_vars(r \in requests /\ Reply(r))
  /\ WF_vars(SendProbe)
FairSpec == Spec /\ Fairness

-----------------------------------------------------------------------------
(* Properties.                                                               *)

(* The promise of the protocol: while a cluster holds a line it may write,   *)
(* no other cluster holds the line at all (global_cache_coherence.cpp).      *)
SingleWriter ==
  \A l \in Lines, c, d \in Clusters :
    cache[c][l] = "M" /\ c # d => cache[d][l] = "I"

(* What a cluster holds the directory knows: it has an entry that names the  *)
(* cluster, through evictions, upgrades and crossing releases.               *)
CopiesTracked ==
  \A c \in Clusters, l \in Lines :
    cache[c][l] # "I" =>
      \E w \in Tracked(l) :
        /\ c \in entry[w].sharers
        /\ cache[c][l] = "M" =>
             entry[w].sharers = {c} /\ entry[w].state # "READ_SHARED"

(* "A release message should only come from clusters that had ownership to   *)
(* begin with" (directory.cpp): what arrives on the probe channel finds an   *)
(* entry of the line that names the sender, in a state that expects it.      *)
ReleaseExpected ==
  \A c \in Clusters :
    \A m \in FirstOf(up[c]) :
      \E w \in Tracked(m.line) :
        LET e == entry[w] IN
        /\ c \in e.sharers
        /\ \/ /\ m.type \in ReadMessages
              /\ \/ e.state = "READ_SHARED" /\ m.type \notin Naks
                 \/ e.state \in EvictionLocks \cup {"PENDING_WRITE"}
           \/ /\ m.type \in {"BCAST_ACK", "RD_RELEASE_REQ"}
              /\ e.state \in BcastStates
           \/ /\ m.type \in WriteMessages /\ e.sharers = {c}
              /\ \/ e.state = "WRITE_PRIV" /\ m.type = "EVICT_REQ"
                 \/ e.state \in LockedStates \ BcastStates

(* "We should never get here" (cluster_cache_coherence.cpp): a probe never   *)
(* finds a valid copy of a line the cluster also has something pending for.  *)
NoPendingCopy ==
  \A c \in Clusters, l \in Lines :
    cache[c][l] # "I" => ~IsPending(c, l)

(* A permitted request is answered with the latest data: nobody still holds  *)
(* or is sending a written copy of the line.                                 *)
FreshData ==
  \A r \in requests, c \in Clusters :
    (\E w \in Tracked(r.line) : Permitted(entry[w], r)) =>
      /\ c # r.cluster => cache[c][r.line] # "M"
      /\ \A i \in DOMAIN up[c] :
           up[c][i].line = r.line =>
             up[c][i].type \notin {"EVICT_REQ", "WR_RELEASE_ACK"}

(* A set is reserved for the replacement a waiting request started: once the *)
(* line that caused it is no longer asked for, nobody else could allocate.   *)
ReservedForWaiter ==
  replacing # NoReplacement =>
    /\ \E r \in requests : r.line = replacing.aggressor
    /\ Tracked(replacing.aggressor) = {}

(* A locked or filling entry is freed again: no probe, release or answer is  *)
(* lost, squashed or taken for another (DIRECTORY_STATE_WDT).                *)
LockReleased ==
  \A w \in Ways :
    (entry[w].state # "INVALID" /\ Blocked(entry[w])) ~> ~Blocked(entry[w])
=============================================================================
