---------------------------- MODULE ClusterCaches ----------------------------
(***************************************************************************)
(* The data caches of one cluster of the legacy chip: an L1 in front of    *)
(* each core, the L2 they share (the cluster cache) with its miss handling *)
(* entries, and the network beyond it.  Coherence is left to software      *)
(* (ENABLE_EXPERIMENTAL_DIRECTORY off, which is the default); with the     *)
(* directory the L2 is the one of module Directory.                        *)
(*                                                                         *)
(* A cycle is the step of the caches (turn 0: L2Cache::PerCycle, then the  *)
(* L1s) and one step of each core in the order of its number.  A core that *)
(* finds its access stalled tries it again in its next step.               *)
(*                                                                         *)
(* Abstractions.  Memory keeps the values (CacheModel writes every word to *)
(* the backing store), so the caches are about who holds which line.  Each *)
(* line has one word that is accessed; the others only keep the line valid *)
(* when that word is dropped.  The lines fall in one set of each cache.    *)
(* Ages are the order of the last touches (the code does not tell apart    *)
(* the touches of one cycle).  The watchdogs, the profile and the          *)
(* instruction side are left out; a core runs one thread, and contention   *)
(* for the ports of the L2 is off, as by default.                          *)
(***************************************************************************)
EXTENDS Integers, Sequences, FiniteSets, SequencesExt

CONSTANTS NumCores,       \* rigel::CORES_PER_CLUSTER
          Lines,          \* the lines the cores use
          Offered(_),     \* the accesses a core may begin
          L1Ways, L2Ways, \* ways of the set the lines fall in
          Entries,        \* MAX_L2D_OUTSTANDING_MISSES
          EvictionBuffer, \* L2D_EVICTION_BUFFER_SIZE
          BcastCount,     \* entries kept for broadcasts in L2Cache::mshr_full
          Latency,        \* L2D_ACCESS_LATENCY
          Sleepy,         \* the values of SLEEPY_CORES that are tried
          NonBlocking     \* the threads' nonblocking_atomics_enabled

Cores == 1 .. NumCores
NoCore == 0
Idle == [kind |-> "idle"]
NoFill == [wait |-> 0]

Kinds == {"load", "store", "atomic", "global", "prefetch",
          "writeback", "flush", "invalidate", "barrier"}
Request == [load |-> "READ", store |-> "WRITE", atomic |-> "ATOM", global |-> "GLOBAL",
            prefetch |-> "PREFETCH", writeback |-> "WB", flush |-> "WB"]

ASSUME CacheSizes ==
  /\ NumCores \in Nat \ {0} /\ L1Ways \in Nat \ {0} /\ L2Ways \in Nat \ {0}
  /\ EvictionBuffer \in Nat /\ BcastCount \in Nat
  /\ Entries \in Nat /\ Entries > EvictionBuffer + BcastCount
  /\ Latency \in Nat \ {0}
  /\ Sleepy \in (SUBSET BOOLEAN) \ {{}} /\ NonBlocking \in BOOLEAN

VARIABLES turn,        \* 0: the caches are next; c: core c is next
          sleepy,      \* SLEEPY_CORES
          order,       \* lines of the L2, the one touched last at the end
          word,        \* lines of the L2 whose accessed word is valid
          dirty,       \* lines of the L2 with a dirty word
          fifo,        \* the valid entries of pendingMiss, in the order of fifo_miss_map
          l1,          \* lines of each L1
          fill,        \* the fill each L1 waits for
          asleep,      \* core_sleeping
          op,          \* the access each core is at
          outstanding, \* GlobalMemOpOutstanding
          completed,   \* GlobalMemOpCompleted
          barrier      \* MemoryBarrierPending and MemoryBarrierCompleted

l2 == <<order, word, dirty>>
atomics == <<outstanding, completed>>
vars == <<turn, sleepy, l2, fifo, l1, fill, asleep, op, atomics, barrier>>

Init ==
  /\ turn = 0
  /\ sleepy \in Sleepy
  /\ order = << >> /\ word = {} /\ dirty = {}
  /\ fifo = << >>
  /\ l1 = [c \in Cores |-> {}] /\ fill = [c \in Cores |-> NoFill]
  /\ asleep = {}
  /\ op = [c \in Cores |-> Idle]
  /\ outstanding = {} /\ completed = {}
  /\ barrier = [c \in Cores |-> "none"]

-----------------------------------------------------------------------------
(* Miss handling entries.                                                  *)

Resident(l) == \E i \in DOMAIN order : order[i] = l
Without(s, l) == RemoveFirst(s, l)
Touched(s, l) == IF \E i \in DOMAIN s : s[i] = l THEN Append(Without(s, l), l) ELSE s

\* Mutation: demands may take the entries kept for evictions.
Full_TakesEvictionBuffer(f) == Len(f) >= Entries - BcastCount

\* L2Cache::mshr_full(false): no room for a new demand.
Full(f) == Len(f) >= Entries - (EvictionBuffer + BcastCount)

\* L2Cache::mshr_full(true): no room for the line an eviction must write back.
NoRoomToEvict(f) == Len(f) >= Entries - BcastCount

\* Mutation: a line that is being written back does not count.
IsPending_Fetches(l) ==
  \E i \in DOMAIN fifo : fifo[i].line = l /\ fifo[i].type \notin {"WB", "EVICT"}

\* CacheBase::IsPending: the entry of the lowest index that holds the line.
IsPending(l) == \E i \in DOMAIN fifo : fifo[i].line = l
PendingAt(l) ==
  CHOOSE i \in DOMAIN fifo :
    /\ fifo[i].line = l
    /\ \A j \in DOMAIN fifo : fifo[j].line = l => fifo[i].id <= fifo[j].id

\* Requests whose cores are put to sleep until the entry is cleared.
SleepsOn == {"READ", "WRITE", "GLOBAL"}

\* pendingMissFifoInsert: the lowest index that is free.
FreeId(f) == CHOOSE n \in 1 .. Len(f) + 1 :
               /\ \A i \in DOMAIN f : f[i].id # n
               /\ \A m \in 1 .. n - 1 : \E i \in DOMAIN f : f[i].id = m

\* L2Cache::pend.  A store is not sent: it is acknowledged at once and its
\* line is ready after the latency of the L2.  MissHandlingEntry::set forgets
\* that an atomic is nonblocking (was_nonblocking_atomic), so no field says so.
Entry(f, type, l, c) ==
  [id |-> FreeId(f), type |-> type, line |-> l, core |-> c,
   cores |-> IF type \in SleepsOn THEN {c} ELSE {},
   acked |-> type = "WRITE", wait |-> IF type = "WRITE" THEN Latency ELSE 0]

Pends(type, l, c) ==
  /\ fifo' = Append(fifo, Entry(fifo, type, l, c))
  /\ asleep' = IF type \in SleepsOn THEN asleep \cup {c} ELSE asleep

\* MissHandlingEntry::AddCore.
Joins(l, c) ==
  LET i == PendingAt(l) IN
  IF fifo[i].type \in SleepsOn
  THEN /\ fifo' = [fifo EXCEPT ![i].cores = @ \cup {c}]
       /\ asleep' = asleep \cup {c}
  ELSE UNCHANGED <<fifo, asleep>>

-----------------------------------------------------------------------------
(* The step of the caches.  A record s holds what it works on.             *)

Caches == [order |-> order, word |-> word, dirty |-> dirty, l1 |-> l1,
           fifo |-> [i \in DOMAIN fifo |-> [fifo[i] EXCEPT !.wait = IF @ > 0 THEN @ - 1 ELSE 0]],
           asleep |-> asleep, outstanding |-> outstanding, completed |-> completed]

\* Mutation: the victim is invalidated before it is asked whether it is dirty.
Evict_InvalidatesFirst(s) ==
  LET victim == Head(s.order) IN
  [s EXCEPT !.order = Tail(s.order),
            !.word = @ \ {victim}, !.dirty = @ \ {victim},
            !.l1 = [c \in Cores |-> s.l1[c] \ {victim}]]

\* L2Cache::evict when every way is taken: the line touched longest ago leaves
\* the L2 and every L1 (EvictDown); a dirty one is written back.
Evict(s) ==
  LET victim == Head(s.order) IN
  [s EXCEPT !.order = Tail(s.order),
            !.word = @ \ {victim}, !.dirty = @ \ {victim},
            !.l1 = [c \in Cores |-> s.l1[c] \ {victim}],
            !.fifo = IF victim \in s.dirty THEN Append(@, Entry(@, "EVICT", victim, NoCore)) ELSE @]

\* L2Cache::Fill.  The line comes in clean, whatever asked for it.
Fill(s, l) ==
  IF \E i \in DOMAIN s.order : s.order[i] = l
  THEN [s EXCEPT !.order = Touched(@, l), !.word = @ \cup {l}]
  ELSE LET e == IF Len(s.order) = L2Ways THEN Evict(s) ELSE s
       IN  [e EXCEPT !.order = Append(@, l), !.word = @ \cup {l}]

\* pendingMissFifoRemove: the entries behind m move up.
Removed(f, m) == RemoveAt(f, CHOOSE i \in DOMAIN f : f[i].id = m.id)

\* Mutation: only the core that asked first is woken.
Clear_WakesFirst(s, m) == [s EXCEPT !.fifo = Removed(@, m), !.asleep = @ \ {m.core}]

\* MissHandlingEntry::clear: every core that waits wakes.
Clear(s, m) == [s EXCEPT !.fifo = Removed(@, m), !.asleep = @ \ m.cores]

\* Mutation: the reply to a global operation does not complete it.
GlobalAnswered_NotCompleted(s, m) == Clear([s EXCEPT !.outstanding = @ \ {m.core}], m)

\* L2Cache::ccache_handle_tile_net_replies: the reply to entry m, by its type.
GlobalAnswered(s, m) ==
  Clear([s EXCEPT !.outstanding = @ \ {m.core}, !.completed = @ \cup {m.core}], m)
WriteBackAnswered(s, m) == Clear(s, m)
FetchAnswered(s, m) == Clear(Fill(s, m.line), m)

Answered(s, m) ==
  CASE m.type \in {"ATOM", "GLOBAL"} -> GlobalAnswered(s, m)
    [] m.type \in {"WB", "EVICT"} -> WriteBackAnswered(s, m)
    [] m.type \in {"READ", "PREFETCH"} -> FetchAnswered(s, m)

\* Mutation: write-backs are not waited for.
Drained_Fetches(s, c) ==
  \A i \in DOMAIN s.fifo : s.fifo[i].core # c \/ s.fifo[i].type = "WB"

\* L2Cache::ccache_handle_membar: a barrier completes when no entry is its thread's.
Drained(s, c) == \A i \in DOMAIN s.fifo : s.fifo[i].core # c

\* L2Cache::ccache_handle_pending_misses at one position of the fifo: a request
\* that was not sent is sent if the network takes it; a store whose line is ready
\* is filled.  Removing an entry moves the next one to a position already passed.
Serve(accepts, s, i) ==
  IF i > Len(s.fifo) THEN s
  ELSE LET m == s.fifo[i] IN
       IF ~m.acked THEN [s EXCEPT !.fifo[i].acked = accepts]
       ELSE IF m.type = "WRITE" /\ m.wait = 0 THEN Clear(Fill(s, m.line), m)
       ELSE s
ServeAll(accepts, s) ==
  LET After[i \in 0 .. Entries] == IF i = 0 THEN s ELSE Serve(accepts, After[i - 1], i)
  IN  After[Entries]

\* L1DCache::PerCycle and Fill: what an L1 may hold afterwards.  The victim is
\* the way numbered by the cycle.
Filled(held, f) ==
  IF f.wait # 1 \/ f.line \in held THEN {held}
  ELSE IF Cardinality(held) < L1Ways THEN {held \cup {f.line}}
  ELSE {(held \ {v}) \cup {f.line} : v \in held}
Later(f) == IF f.wait > 1 THEN [f EXCEPT !.wait = @ - 1] ELSE NoFill

\* An entry whose request the network has still to take, or to answer.
Unsent(id) == \E i \in DOMAIN fifo : fifo[i].id = id /\ ~fifo[i].acked
Unanswered(id) == \E i \in DOMAIN fifo : fifo[i].id = id /\ fifo[i].acked /\ fifo[i].type # "WRITE"

\* CacheModel::PerCycle.  At most one reply is taken in a cycle: the one to the
\* entry with index reply, or none.
CachesStep(reply, accepts) ==
  /\ turn = 0
  /\ reply # 0 => Unanswered(reply)
  /\ LET a == IF reply = 0 THEN Caches
              ELSE Answered(Caches, CHOOSE m \in {fifo[i] : i \in DOMAIN fifo} : m.id = reply)
         s == ServeAll(accepts, a)
     IN  /\ order' = s.order /\ word' = s.word /\ dirty' = s.dirty
         /\ fifo' = s.fifo /\ asleep' = s.asleep
         /\ outstanding' = s.outstanding /\ completed' = s.completed
         /\ barrier' = [c \in Cores |-> IF barrier[c] = "pending" /\ Drained(a, c)
                                        THEN "completed" ELSE barrier[c]]
         /\ l1' \in {h \in [Cores -> SUBSET Lines] : \A c \in Cores : h[c] \in Filled(s.l1[c], fill[c])}
         /\ fill' = [c \in Cores |-> Later(fill[c])]
  /\ turn' = 1
  /\ UNCHANGED <<sleepy, op>>

-----------------------------------------------------------------------------
(* A step of core c.  It begins an access or tries its stalled one again;  *)
(* Ends leaves it, Stalls keeps it for the next cycle.                     *)

NextTurn == turn' = IF turn = NumCores THEN 0 ELSE turn + 1

Attempts(c, kind, l) ==
  /\ turn = c /\ NextTurn
  /\ ~(sleepy /\ c \in asleep)
  /\ op[c] = Idle => kind \in Offered(l)
  /\ op[c] # Idle => op[c] = [kind |-> kind, line |-> l]
  /\ UNCHANGED sleepy

Ends(c) == op' = [op EXCEPT ![c] = Idle]
Stalls(c, kind, l) == op' = [op EXCEPT ![c] = [kind |-> kind, line |-> l]]

\* ClusterLegacy::PerCycle passes over a core that sleeps.
Sleeps(c) ==
  /\ turn = c /\ NextTurn
  /\ sleepy /\ c \in asleep
  /\ UNCHANGED <<sleepy, l2, fifo, l1, fill, asleep, op, atomics, barrier>>

\* A core with nothing to do in the memory stage.
Rests(c) ==
  /\ turn = c /\ NextTurn
  /\ ~(sleepy /\ c \in asleep) /\ op[c] = Idle
  /\ UNCHANGED <<sleepy, l2, fifo, l1, fill, asleep, op, atomics, barrier>>

(* CacheModel::read_access.                                                *)

\* The fill of its L1 is on the way.
LoadAwaitsL1(c, l) ==
  /\ Attempts(c, "load", l) /\ fill[c] # NoFill /\ fill[c].line = l
  /\ Stalls(c, "load", l)
  /\ UNCHANGED <<l2, fifo, l1, fill, asleep, atomics, barrier>>

LoadHitsL1(c, l) ==
  /\ Attempts(c, "load", l) /\ fill[c] = NoFill /\ l \in l1[c]
  /\ Ends(c)
  /\ UNCHANGED <<l2, fifo, l1, fill, asleep, atomics, barrier>>

\* The L2 has it: it is sent to the L1.
LoadHitsL2(c, l) ==
  /\ Attempts(c, "load", l) /\ fill[c] = NoFill /\ l \notin l1[c] /\ l \in word
  /\ order' = Touched(order, l)
  /\ fill' = [fill EXCEPT ![c] = [line |-> l, wait |-> Latency]]
  /\ Stalls(c, "load", l)
  /\ UNCHANGED <<word, dirty, fifo, l1, asleep, atomics, barrier>>

LoadMisses(c, l) ==
  /\ Attempts(c, "load", l) /\ fill[c] = NoFill /\ l \notin l1[c] /\ l \notin word
  /\ \/ /\ IsPending(l) /\ Joins(l, c)
     \/ /\ ~IsPending(l) /\ ~Full(fifo) /\ Pends("READ", l, c)
     \/ /\ ~IsPending(l) /\ Full(fifo) /\ UNCHANGED <<fifo, asleep>>
  /\ Stalls(c, "load", l)
  /\ UNCHANGED <<l2, l1, fill, atomics, barrier>>

(* CacheModel::write_access and helper_return_write_success.               *)

\* The word of the L2 becomes dirty; if the L2 does not hold it, only the L1
\* that was hit knows of the store.
StoreHits(c, l) ==
  /\ Attempts(c, "store", l) /\ (l \in l1[c] \/ l \in word)
  /\ IF l \in word
     THEN dirty' = dirty \cup {l} /\ order' = Touched(order, l)
     ELSE UNCHANGED <<dirty, order>>
  /\ Ends(c)
  /\ UNCHANGED <<word, fifo, l1, fill, asleep, atomics, barrier>>

\* The store is over as soon as its miss has an entry.
StoreMisses(c, l) ==
  /\ Attempts(c, "store", l) /\ l \notin l1[c] /\ l \notin word
  /\ \/ /\ ~IsPending(l) /\ ~Full(fifo) /\ Pends("WRITE", l, c) /\ Ends(c)
     \/ /\ Full(fifo) /\ Stalls(c, "store", l) /\ UNCHANGED <<fifo, asleep>>
     \/ /\ IsPending(l) /\ ~Full(fifo) /\ Joins(l, c) /\ Stalls(c, "store", l)
  /\ UNCHANGED <<l2, l1, fill, atomics, barrier>>

(* CacheModel::global_memory_access: atomics, and global loads and stores. *)

Globals == {"atomic", "global"}

\* The reply is there (GlobalMemOpCompleted): the operation is done in memory.
GlobalPerforms(c, k, l) ==
  /\ k \in Globals /\ Attempts(c, k, l) /\ c \in completed
  /\ completed' = completed \ {c}
  /\ Ends(c)
  /\ UNCHANGED <<l2, fifo, l1, fill, asleep, outstanding, barrier>>

GlobalAwaits(c, k, l) ==
  /\ k \in Globals /\ Attempts(c, k, l) /\ c \notin completed /\ c \in outstanding
  /\ Stalls(c, k, l)
  /\ UNCHANGED <<l2, fifo, l1, fill, asleep, atomics, barrier>>

\* Its word leaves the L2, the rest of the line stays; then the request is
\* pended if there is room.  A nonblocking one counts as completed at once.
GlobalRequests(c, k, l) ==
  /\ k \in Globals /\ Attempts(c, k, l) /\ c \notin completed /\ c \notin outstanding
  /\ word' = word \ {l}
  /\ \/ /\ ~Full(fifo) /\ Pends(Request[k], l, c)
        /\ outstanding' = IF NonBlocking THEN outstanding ELSE outstanding \cup {c}
        /\ completed' = IF NonBlocking THEN completed \cup {c} ELSE completed
     \/ /\ Full(fifo) /\ UNCHANGED <<fifo, asleep, atomics>>
  /\ Stalls(c, k, l)
  /\ UNCHANGED <<order, dirty, l1, fill, barrier>>

(* CacheModel::prefetch_line: over as soon as it is pended or not needed.  *)
Prefetches(c, l) ==
  /\ Attempts(c, "prefetch", l)
  /\ IF Full(fifo)
     THEN Stalls(c, "prefetch", l) /\ UNCHANGED <<order, fifo, asleep>>
     ELSE /\ Ends(c)
          /\ IF IsPending(l) \/ Resident(l)
             THEN UNCHANGED <<fifo, asleep>> ELSE Pends("PREFETCH", l, c)
          /\ order' = IF IsPending(l) THEN order ELSE Touched(order, l)
  /\ UNCHANGED <<word, dirty, l1, fill, atomics, barrier>>

(* CacheModel::writeback_line, which a flush follows with invalidate_line. *)

OwnCopyDropped(c, l) == l1' = [l1 EXCEPT ![c] = @ \ {l}]

\* CacheModel::invalidate_line: the core's own L1 and the L2; a line whose word
\* is not valid stays.
Dropped(l) ==
  IF l \in word
  THEN order' = Without(order, l) /\ word' = word \ {l} /\ dirty' = dirty \ {l}
  ELSE UNCHANGED l2

\* The line is clean now; a flush also gives it up.
Cleaned(k, l) ==
  /\ dirty' = dirty \ {l}
  /\ IF k = "flush" /\ l \in word
     THEN order' = Without(order, l) /\ word' = word \ {l}
     ELSE order' = Touched(order, l) /\ UNCHANGED word

WritesBack(c, k, l) ==
  /\ k \in {"writeback", "flush"} /\ Attempts(c, k, l) /\ OwnCopyDropped(c, l)
  /\ IF l \in dirty /\ (IsPending(l) \/ Full(fifo))
     THEN /\ order' = Touched(order, l) /\ Stalls(c, k, l)
          /\ UNCHANGED <<word, dirty, fifo, asleep>>
     ELSE /\ Cleaned(k, l) /\ Ends(c)
          /\ IF l \in dirty THEN Pends("WB", l, c) ELSE UNCHANGED <<fifo, asleep>>
  /\ UNCHANGED <<fill, atomics, barrier>>

\* I_LINE_INV.
Invalidates(c, l) ==
  /\ Attempts(c, "invalidate", l) /\ OwnCopyDropped(c, l) /\ Dropped(l)
  /\ Ends(c)
  /\ UNCHANGED <<fifo, fill, asleep, atomics, barrier>>

(* CacheModel::memory_barrier.                                             *)

BarrierEnds(c, l) ==
  /\ Attempts(c, "barrier", l) /\ barrier[c] = "completed"
  /\ barrier' = [barrier EXCEPT ![c] = "none"]
  /\ Ends(c)
  /\ UNCHANGED <<l2, fifo, l1, fill, asleep, atomics>>

BarrierWaits(c, l) ==
  /\ Attempts(c, "barrier", l) /\ barrier[c] # "completed"
  /\ barrier' = [barrier EXCEPT ![c] = "pending"]
  /\ Stalls(c, "barrier", l)
  /\ UNCHANGED <<l2, fifo, l1, fill, asleep, atomics>>

CoreStep(c) ==
  \/ Sleeps(c) \/ Rests(c)
  \/ \E l \in Lines :
       \/ LoadAwaitsL1(c, l) \/ LoadHitsL1(c, l) \/ LoadHitsL2(c, l) \/ LoadMisses(c, l)
       \/ StoreHits(c, l) \/ StoreMisses(c, l)
       \/ \E k \in Kinds : \/ GlobalPerforms(c, k, l) \/ GlobalAwaits(c, k, l) \/ GlobalRequests(c, k, l)
                           \/ WritesBack(c, k, l)
       \/ Prefetches(c, l) \/ Invalidates(c, l)
       \/ BarrierEnds(c, l) \/ BarrierWaits(c, l)

Replies == 0 .. Entries
Next ==
  \/ \E reply \in Replies, accepts \in BOOLEAN : CachesStep(reply, accepts)
  \/ \E c \in Cores : CoreStep(c)

\* The clock does not stop, the network takes every request in the end, and
\* every request it took is answered.
Tick == turn' \in 0 .. NumCores
Fairness ==
  /\ WF_turn(Tick)
  /\ \A id \in 1 .. Entries : []<>~Unsent(id) /\ []<>~Unanswered(id)

Spec == Init /\ [][Next]_vars /\ Fairness

-----------------------------------------------------------------------------
(* Properties.                                                             *)

EntryTypes == {"READ", "WRITE", "ATOM", "GLOBAL", "PREFETCH", "WB", "EVICT"}
Fetches == {"READ", "WRITE", "PREFETCH"}
Of(c, types) == {i \in DOMAIN fifo : fifo[i].core = c /\ fifo[i].type \in types}

\* A core that was put to sleep (WakeCore is called for the cores of an entry
\* when it is cleared, and nowhere else) is one of the cores of a live entry:
\* no order of misses, joins and replies leaves one behind.
SleepersAreWaited == \A c \in asleep : \E i \in DOMAIN fifo : c \in fifo[i].cores

\* A fill may have to write back the line it replaces, and it does so without
\* asking: the entries kept from demands (L2D_EVICTION_BUFFER_SIZE) must be
\* enough, whatever mix of misses and write-backs is under way.  Then evict never
\* meets mshr_full(true), and the locking of ways that follows it is never run.
EvictionsHaveRoom == ~NoRoomToEvict(fifo)

\* A line is fetched by one entry at a time, and never while an older write-back
\* or eviction of it is under way (IsPending holds the access back): the fill
\* cannot bring in what the write-back has not delivered yet.
FetchesOnceInOrder ==
  \A i, j \in DOMAIN fifo :
    fifo[i].line = fifo[j].line /\ fifo[i].type \in Fetches =>
      /\ fifo[j].type \in Fetches => i = j
      /\ fifo[j].type \in {"EVICT", "WB"} => i < j

\* A memory barrier lets its core go on only when none of its requests is left,
\* neither those sent nor those the network has not taken.
BarrierFences ==
  [][\A c \in Cores : (\E l \in Lines : BarrierEnds(c, l)) => Of(c, EntryTypes) = {}]_vars

\* A dirty line stays dirty until a write-back of it is under way: only LINE_INV
\* throws a store away.
DirtyNotDropped ==
  [][\A l \in dirty : l \notin dirty' =>
       \/ \E c \in Cores : Invalidates(c, l)
       \/ \E m \in ToSet(fifo') : m.line = l /\ m.type \in {"EVICT", "WB"}]_vars

\* A barrier that waits and a global operation that was sent come to their end,
\* whatever the other cores ask of the entries meanwhile.  (An access that has no
\* entry yet need not: the cores are served in the order of their numbers, so a
\* core may find every entry taken again each time it tries.)
PendedAccessEnds ==
  \A c \in Cores : barrier[c] = "pending" \/ c \in outstanding ~> op[c] = Idle
=============================================================================
