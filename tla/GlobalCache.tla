----------------------------- MODULE GlobalCache -----------------------------
(***************************************************************************)
(* One bank of the global cache of the legacy chip: the requests that the  *)
(* global network has brought to its buffer, the tags, the miss handling   *)
(* entries and the memory controller behind them.  Coherence is left to    *)
(* software (ENABLE_EXPERIMENTAL_DIRECTORY off, the default); module       *)
(* Directory has the bank's part of the protocol.                          *)
(*                                                                         *)
(* A step of the bank is one call of GlobalCache::PerCycle: it scans the   *)
(* request buffer, then its miss handling entries.  Between two of them    *)
(* the network adds requests and takes replies away, and the controller    *)
(* reports lines.                                                          *)
(*                                                                         *)
(* Abstractions.  Memory keeps the values, so a line is valid or dirty as  *)
(* a whole.  The lines fall in one set, and the bank has the buffer for    *)
(* itself.  A request names one line, as every request of a cluster does   *)
(* (L2Cache::pend keeps one address).  The replacement policy may name any *)
(* way (pick), and the scan of the entries may start anywhere (start): the *)
(* code takes CURR_CYCLE & (MSHR_COUNT-1), or the entry that the watchdog  *)
(* forces.                                                                 *)
(***************************************************************************)
EXTENDS Integers, Sequences, FiniteSets, SequencesExt

CONSTANTS NumLines,       \* the bank's lines: 1 .. NumLines, in the order of their addresses
          Clusters,       \* who asks; at most one request of each is in the buffer
          Offered(_),     \* the kinds of request that may be made of a line
          NumWays,        \* GCACHE_WAYS
          Entries,        \* GCACHE_OUTSTANDING_MISSES
          EvictionBuffer, \* GCACHE_EVICTION_BUFFER_SIZE
          RequestPorts,   \* GCACHE_REQUEST_PORTS_PER_BANK
          ReplyPorts,     \* GCACHE_REPLY_PORTS_PER_BANK
          ReplyRoom,      \* MAX_ENTRIES_GCACHE_REPLY_BUFFER
          PrefetchSize,   \* CMDLINE_GCACHE_PREFETCH_SIZE
          Bulk,           \* GCACHE_BULK_PREFETCH
          MemoryRoom      \* requests the memory controller holds for the bank

Lines == 1 .. NumLines
Ways == 1 .. NumWays
Slots == 1 .. Entries
NoLine == 0

\* What is asked of a line: to read it, to write it (a store, an eviction or a
\* write-back), to fetch it (PREFETCH_BLOCK_GC), to tell all clusters of it.
Kinds == {"read", "write", "prefetch", "broadcast"}

ASSUME BankSizes ==
  /\ NumLines \in Nat \ {0} /\ NumWays \in Nat \ {0}
  /\ EvictionBuffer \in Nat /\ Entries > EvictionBuffer
  /\ RequestPorts \in Nat \ {0} /\ ReplyPorts \in Nat \ {0} /\ ReplyRoom \in Nat \ {0}
  /\ PrefetchSize \in Nat /\ Bulk \in BOOLEAN /\ MemoryRoom \in Nat \ {0}
  /\ \A l \in Lines : Offered(l) \subseteq Kinds

VARIABLES tags,     \* TagArray[set]: a tag for each way
          entries,  \* pendingMiss: what each miss handling entry waits for
          requests, \* RequestBuffers: the messages in the order of the buffer
          replies,  \* ReplyBuffers: how many replies wait for the network
          failed,   \* an assertion has ended the simulation
          clock     \* the parity of CURR_CYCLE

vars == <<tags, entries, requests, replies, failed, clock>>

Empty == [line |-> NoLine, dirty |-> FALSE, accessed |-> TRUE, victim |-> NoLine]
Idle == [kind |-> "idle"]

Init ==
  /\ tags = [w \in Ways |-> Empty]
  /\ entries = [i \in Slots |-> Idle]
  /\ requests = << >>
  /\ replies = 0
  /\ failed = FALSE
  /\ clock = 0

-----------------------------------------------------------------------------
(* A record b holds what a step of the bank works on: tags, entries,       *)
(* requests, replies, failed, the ports left, and the state of the scan.   *)

Valid(b, l) == \E w \in Ways : b.tags[w].line = l
WayOf(b, l) == CHOOSE w \in Ways : b.tags[w].line = l

\* A locked way keeps the line it gives up in victim; no line is valid in it.
Locked(tag) == tag.victim # NoLine

\* CacheBase::is_being_evicted.
BeingEvicted(b, l) == \E w \in Ways : b.tags[w].victim = l

\* CacheBase::IsPending: an entry of any kind holds the line.
Holds(entry, l) == entry # Idle /\ l \in entry.lines
Pending(b, l) == \E i \in Slots : Holds(b.entries[i], l)

Used(b) == Cardinality({i \in Slots : b.entries[i] # Idle})

\* GlobalCache::mshr_full(false) and mshr_full(true).
Full(b) == Used(b) >= Entries - EvictionBuffer
NoRoomToEvict(b) == Used(b) = Entries

-----------------------------------------------------------------------------
(* Miss handling entries.                                                  *)

\* MemoryTimingModel.Schedule (external): the controller takes what it has
\* room for, and keeps it until all its lines are done.
Taken(b) ==
  Cardinality({i \in Slots : b.entries[i] # Idle /\ b.entries[i].acked
                             /\ Len(b.entries[i].ready) < Cardinality(b.entries[i].lines)})

\* scheduleWithGlobalMemory.
Schedule(b, i) ==
  IF Taken(b) < MemoryRoom THEN [b EXCEPT !.entries[i].acked = TRUE] ELSE b

\* PM_find_unused_mshr.
Unused(b) ==
  CHOOSE i \in Slots : b.entries[i] = Idle /\ \A j \in 1 .. i - 1 : b.entries[j] # Idle

\* MissHandlingEntry::set with variable latency: nothing is ready yet.
NewEntry(kind, lines) == [kind |-> kind, lines |-> lines, acked |-> FALSE, ready |-> << >>]

\* GlobalCache::pend: an entry, scheduled at once.  A set of no lines ends the
\* simulation (an assertion of MissHandlingEntry::set).
Pend(b, kind, lines) ==
  IF lines = {} THEN [b EXCEPT !.failed = TRUE]
  ELSE Schedule([b EXCEPT !.entries[Unused(b)] = NewEntry(kind, lines)], Unused(b))

\* Mutation: the entry of the last line is not cleared.
Notified_Leaks(b, i) ==
  [b EXCEPT !.entries[i].lines = @ \ {Head(b.entries[i].ready)}, !.entries[i].ready = Tail(@)]

\* The ready line at the head has been dealt with: notify_fill,
\* and PM_clear when it was the last.
Notified(b, i) ==
  LET entry == b.entries[i]
      left == entry.lines \ {Head(entry.ready)}
  IN [b EXCEPT !.entries[i] =
        IF left = {} THEN Idle
        ELSE [entry EXCEPT !.lines = left, !.ready = Tail(@)]]

-----------------------------------------------------------------------------
(* GlobalCache::evict: the way that is free for a new line, or a stall.    *)

\* The way replaced when all are valid: the one the policy names, if that has
\* been accessed, and way 1 when the policy finds none that is older.
Replaced(b) == IF b.tags[b.pick].accessed THEN b.pick ELSE 1

Stalled(b) == [bank |-> b, way |-> 0]
FreeWay(b, w) == [bank |-> b, way |-> w]

\* The line of way w must be written back first, unless that is under way.
WriteBack(b, w, line) ==
  IF Pending(b, line) THEN FreeWay(b, w)
  ELSE IF NoRoomToEvict(b)
       THEN Stalled([b EXCEPT !.tags[w].line = NoLine, !.tags[w].victim = line])
       ELSE FreeWay([Pend(b, "evict", {line}) EXCEPT !.tags[w].line = NoLine], w)

Lowest(ws) == CHOOSE w \in ws : \A v \in ws : w <= v

\* Mutation: the locked ways are not looked for.
Evict_Unlocked(b) ==
  LET FreeWays == {w \in Ways : b.tags[w].line = NoLine}
      w == Replaced(b)
  IN IF FreeWays # {} THEN FreeWay(b, Lowest(FreeWays))
     ELSE IF \A v \in Ways : ~b.tags[v].accessed THEN Stalled(b)
     ELSE IF b.tags[w].dirty THEN WriteBack(b, w, b.tags[w].line)
     ELSE FreeWay(b, w)

Evict(b) ==
  LET LockedWays == {w \in Ways : Locked(b.tags[w])}
      FreeWays == {w \in Ways : b.tags[w].line = NoLine}
      w == Replaced(b)
  IN IF LockedWays # {}
     THEN WriteBack(b, Lowest(LockedWays), b.tags[Lowest(LockedWays)].victim)
     ELSE IF FreeWays # {} THEN FreeWay(b, Lowest(FreeWays))
     ELSE IF \A v \in Ways : ~b.tags[v].accessed THEN Stalled(b)
     ELSE IF b.tags[w].dirty THEN WriteBack(b, w, b.tags[w].line)
     ELSE FreeWay(b, w)

-----------------------------------------------------------------------------
(* GlobalCache::Fill: the line becomes valid and the requests that wait    *)
(* for it are told, unless the eviction stalls.                            *)

DataBack(b, l) ==
  [b EXCEPT !.requests = [i \in DOMAIN @ |->
     IF @[i].line = l /\ @[i].state = "pending"
     THEN [@[i] EXCEPT !.state = "reply"] ELSE @[i]]]

Inserted(b, w, l, dirty, locked) ==
  [b EXCEPT !.tags[w] = [line |-> l, dirty |-> dirty, accessed |-> ~locked, victim |-> NoLine]]

Fill(b, l, dirty, locked) ==
  LET e == Evict(b) IN
  IF Valid(b, l)
  THEN [done |-> TRUE,
        bank |-> DataBack([b EXCEPT !.tags[WayOf(b, l)].accessed = TRUE,
                                    !.tags[WayOf(b, l)].dirty = @ \/ dirty], l)]
  ELSE IF e.way = 0 THEN [done |-> FALSE, bank |-> e.bank]
  ELSE [done |-> TRUE, bank |-> DataBack(Inserted(e.bank, e.way, l, dirty, locked), l)]

-----------------------------------------------------------------------------
(* helper_handle_new_requests: the buffer from its front.                  *)

\* helper_handle_bcasts: tells as many clusters as the ports and the reply
\* buffer allow.
Tell(b, i) ==
  LET told == b.requests[i].told
      room == ReplyRoom - b.replies
      n == Lowest({Cardinality(Clusters) - told, b.replyPorts, IF room > 0 THEN room ELSE 0})
  IN [b EXCEPT !.requests[i].told = told + n, !.replies = @ + n, !.replyPorts = @ - n]

\* helper_handle_gcache_request_hit: the reply leaves for the network and the
\* message leaves the buffer, where the scan then passes over the next one
\* (erase returns it, and the loop steps on).
Answer(b, i) ==
  LET m == b.requests[i]
      quiet == m.kind = "prefetch"
      t == IF Valid(b, m.line)
           THEN [b EXCEPT !.tags[WayOf(b, m.line)].accessed = TRUE,
                          !.tags[WayOf(b, m.line)].dirty = @ \/ m.kind = "write"]
           ELSE b
  IN [t EXCEPT !.replyPorts = @ - 1, !.replies = IF quiet THEN @ ELSE @ + 1,
               !.requests = RemoveAt(@, i), !.passOver = TRUE]

Hit(b, i) ==
  LET room == b.replies < ReplyRoom
      charged == IF room /\ b.requests[i].kind # "prefetch"
                 THEN [b EXCEPT !.requestPorts = @ - 1] ELSE b
  IN IF b.requestPorts = 0 THEN b
     ELSE IF ~room \/ b.replyPorts = 0 THEN charged
     ELSE Answer(charged, i)

\* helper_handle_prefetches: the lines that follow, as far as the bank goes.
Wanted(b, l) == ~Valid(b, l) /\ ~Pending(b, l) /\ ~BeingEvicted(b, l)

Following(l) == {n \in Lines : n > l /\ n <= l + PrefetchSize}

PrefetchOne(b, l) == IF Wanted(b, l) /\ ~Full(b) THEN Pend(b, "ahead", {l}) ELSE b

Prefetches(b, l) ==
  LET ahead == Following(l)
      wanted == {n \in ahead : Wanted(b, n)}
  IN IF Bulk
     THEN IF Full(b) \/ wanted = {} THEN b ELSE Pend(b, "ahead", wanted)
     ELSE FoldLeft(PrefetchOne, b, SetToSortSeq(ahead, <))

\* A miss that nobody has sent to memory yet.
Miss(b, i) ==
  LET m == b.requests[i]
      lines == IF BeingEvicted(b, m.line) THEN {} ELSE {m.line}
      sent == [b EXCEPT !.requestPorts = @ - 1,
                        !.requests[i].state = IF lines = {} THEN @ ELSE "pending"]
  IN IF Full(b) THEN b
     ELSE IF b.requestPorts = 0 THEN [b EXCEPT !.over = TRUE]
     ELSE Prefetches(Pend(sent, m.kind, lines), m.line)

\* A write allocates its line without asking memory for it.
WriteMiss(b, i) ==
  LET f == Fill(b, b.requests[i].line, TRUE, TRUE)
  IN IF f.done THEN [f.bank EXCEPT !.requests[i].state = "reply"] ELSE f.bank

Look(b, i) ==
  LET m == b.requests[i]
      state == IF Valid(b, m.line) /\ m.state = "new" THEN "reply" ELSE m.state
      known == [b EXCEPT !.requests[i].state = state]
  IN IF state = "reply" THEN Hit(known, i)
     ELSE IF state = "pending" \/ Pending(b, m.line) THEN known
     ELSE IF m.kind = "write" THEN WriteMiss(known, i)
     ELSE Miss(known, i)

\* One message of the scan, found by the cluster that sent it.
Position(b, c) == CHOOSE i \in DOMAIN b.requests : b.requests[i].from = c

Handle(b, c) ==
  LET i == Position(b, c) IN
  IF b.over \/ b.failed THEN b
  ELSE IF b.passOver THEN [b EXCEPT !.passOver = FALSE]
  ELSE IF b.requests[i].kind = "broadcast" /\ b.requests[i].told < Cardinality(Clusters)
       THEN Tell(b, i)
  ELSE Look(b, i)

NewRequests(b) ==
  FoldLeft(Handle, b, [i \in DOMAIN b.requests |-> b.requests[i].from])

-----------------------------------------------------------------------------
(* helper_handle_pending_requests.                                         *)

\* Lines fetched ahead, and by a prefetch into the global cache, may be
\* replaced at once; the others stay until a request has used them.
Stays == {"read", "broadcast"}

Served(b, i) ==
  LET entry == b.entries[i]
      f == Fill(b, Head(entry.ready), FALSE, entry.kind \in Stays)
  IN IF b.failed \/ entry = Idle THEN b
     ELSE IF ~entry.acked THEN Schedule(b, i)
     ELSE IF entry.ready = << >> THEN b
     ELSE IF entry.kind = "evict" THEN Notified(b, i)
     ELSE IF f.done THEN Notified(f.bank, i) ELSE f.bank

\* The entries from start on, and round.
FromSlot(start) == [n \in Slots |-> ((start + n - 2) % Entries) + 1]

PendingRequests(b, start) == FoldLeft(Served, b, FromSlot(start))

-----------------------------------------------------------------------------
\* GlobalCache::PerCycle.
Bank(pick) ==
  [tags |-> tags, entries |-> entries, requests |-> requests, replies |-> replies,
   failed |-> FALSE, requestPorts |-> RequestPorts, replyPorts |-> ReplyPorts,
   passOver |-> FALSE, over |-> FALSE, pick |-> pick]

PerCycle(start, pick) ==
  LET b == PendingRequests(NewRequests(Bank(pick)), start) IN
  /\ ~failed
  /\ tags' = b.tags
  /\ entries' = b.entries
  /\ requests' = b.requests
  /\ replies' = b.replies
  /\ failed' = b.failed
  /\ clock' = 1 - clock

\* The controller has finished a line of an entry it had taken (external).
MemoryAnswers(i, l) ==
  /\ ~failed
  /\ Holds(entries[i], l) /\ entries[i].acked /\ ~Contains(entries[i].ready, l)
  /\ entries' = [entries EXCEPT ![i].ready = Append(@, l)]
  /\ UNCHANGED <<tags, requests, replies, failed, clock>>

\* The global network brings a request (external).
Offer(c, kind, l) ==
  /\ ~failed
  /\ \A i \in DOMAIN requests : requests[i].from # c
  /\ requests' = Append(requests, [from |-> c, kind |-> kind, line |-> l,
                                   state |-> "new", told |-> 0])
  /\ UNCHANGED <<tags, entries, replies, failed, clock>>

\* The global network takes a reply (external).
TakeReply ==
  /\ ~failed
  /\ replies > 0
  /\ replies' = replies - 1
  /\ UNCHANGED <<tags, entries, requests, failed, clock>>

Cycle == \E start \in Slots, pick \in Ways : PerCycle(start, pick)
Memory == \E i \in Slots, l \in Lines : MemoryAnswers(i, l)
Network ==
  \/ TakeReply
  \/ \E c \in Clusters, l \in Lines : \E kind \in Offered(l) : Offer(c, kind, l)

Next == Cycle \/ Memory \/ Network

\* The bank is clocked every cycle, the network takes the replies, and the
\* controller finishes what it has taken.
Fairness ==
  /\ WF_clock(~failed /\ clock' = 1 - clock)
  /\ WF_replies(TakeReply)
  /\ \A i \in Slots, l \in Lines : WF_entries(MemoryAnswers(i, l))

Spec == Init /\ [][Next]_vars /\ Fairness

-----------------------------------------------------------------------------
(* Properties.                                                             *)

\* Memory does not have the latest value of a line: it is dirty, or its
\* write-back waits for an entry, or the entry waits for memory.
IsDirty(l) == \E w \in Ways : tags[w].line = l /\ tags[w].dirty
Leaves(l) == \E w \in Ways : tags[w].victim = l
WriteBackOf(l) == {i \in Slots : Holds(entries[i], l) /\ entries[i].kind = "evict"}
Owed(l) == IsDirty(l) \/ Leaves(l) \/ WriteBackOf(l) # {}

Written(l) == \E i \in WriteBackOf(l) : Contains(entries[i].ready, l)
Fetched(l) == \E i \in Slots : Holds(entries[i], l) /\ entries[i].kind # "evict"

\* A value that memory does not have is owed until memory has it, through the
\* replacement of its line, the wait of the victim in a locked way and the wait
\* for the controller; and meanwhile no request and no prefetch fetches the line
\* from memory (IsValidLine, IsPending and is_being_evicted together).
\* (A line that is written again while its write-back is under way is owed by
\* that write-back too: the code takes it for the one the line still needs.)
OwedUntilWritten ==
  [][\A l \in Lines : Owed(l) => (Owed(l)' \/ Written(l)) /\ ~Fetched(l)']_vars

\* The bank as a whole does not stop: while there are requests some are served.
\* Every fill may need an entry for the write-back of the line it replaces, and
\* all the entries may hold fetches that wait for their fill: what keeps the bank
\* going is the eviction buffer.  (One request alone may starve: what a fill locked
\* a way for may be taken by a write that comes earlier in the next cycle.)
Serves == Len(requests') < Len(requests)
BankServes == []<>(requests = << >>) \/ []<><<Serves>>_requests
=============================================================================
