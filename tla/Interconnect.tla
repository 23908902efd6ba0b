----------------------------- MODULE Interconnect -----------------------------
(***************************************************************************)
(* The network of the legacy chip: TileInterconnectNew, two levels of      *)
(* routers inside each tile, and GlobalNetworkNew, which joins the tiles   *)
(* to the banks of the global cache.  Three virtual channels: PROBE for    *)
(* coherence, DEFAULT for the rest, BCAST for broadcasts, which a tile     *)
(* splits on their way down and whose answers it combines on their way up. *)
(*                                                                         *)
(* Tick is GlobalNetworkNew::PerCycle and then TileInterconnectNew::       *)
(* PerCycle of every tile; what clusters do after it and what banks do     *)
(* before the next one happens between two Ticks, in any order.  The cycle *)
(* itself is not kept: whose turn it is (a bank's in Tick, a channel's in  *)
(* ClusterRemove) is any, a ready cycle is relative to CURR_CYCLE, and of  *)
(* the cycles that are past only the order matters (Settled).              *)
(*                                                                         *)
(* Abstractions.  A message is its type, cluster, address, ready cycle and *)
(* what broadcasts add to it; n numbers the messages of a flow and is no   *)
(* field of the code.  Banks answer every request, and what they and the   *)
(* clusters start is bounded by MaxSent.  Sequence numbers, timers and the *)
(* locality tracker are left out.                                          *)
(***************************************************************************)
EXTENDS Integers, Sequences, FiniteSets, SequencesExt

CONSTANTS NumTiles, ClustersPerTile,
          ClustersPerRouter,              \* CLUSTERS_PER_L1_ROUTER
          NumBanks,                       \* DRAM::CONTROLLERS, one bank each
          Home,                           \* the bank of each address
          Misses,                         \* addresses a bank has to fetch (set_gcache_pended)
          Holders, Owners,                \* clusters that hold the lines, and hold them dirty
          Asking, Probed, Writing,        \* the <<cluster, address>> of requests, probes, broadcasts
          L1Entries, L2Entries,           \* L1_ROUTER_ENTRIES, L2_ROUTER_ENTRIES
          L1Rate, L2Rate,                 \* L1_TO_L2_ and L2_TO_GNET_REQUESTS_PER_CYCLE
          TileRequestEntries, TileReplyEntries, BankEntries,  \* MAX_ENTRIES_...
          UpIn, UpOut, DownIn, DownOut,   \* MAX_GNET_..._MESSAGES_PER_CYCLE
          SplitRate,                      \* MAX_TILE_BCASTS_PER_CYCLE
          ClusterLatency, TileLatency, GnetLatency,
          MaxSent                         \* bound on requests, probes and broadcasts together

ASSUME NetworkSizes ==
  /\ {NumTiles, ClustersPerTile, ClustersPerRouter, NumBanks, L1Entries, L2Entries, L1Rate, L2Rate,
      TileRequestEntries, TileReplyEntries, BankEntries, UpIn, UpOut, DownIn, DownOut, SplitRate,
      ClusterLatency, TileLatency, GnetLatency} \subseteq Nat \ {0}
  /\ \A a \in DOMAIN Home : Home[a] \in 0 .. NumBanks - 1

Addrs == DOMAIN Home
Tiles == 0 .. NumTiles - 1
Clusters == 0 .. NumTiles * ClustersPerTile - 1
Banks == 0 .. NumBanks - 1
Channels == {"PROBE", "DEFAULT", "BCAST"}

TileOf(c) == c \div ClustersPerTile
Members(t) == {c \in Clusters : TileOf(c) = t}

\* GET_L1_ROUTER_ID rounds up: the first router serves the first cluster only.
RouterOf(c) ==
  <<TileOf(c), ((c % ClustersPerTile) + (ClustersPerRouter - 1)) \div ClustersPerRouter>>
NumRouters == ClustersPerTile + (ClustersPerRouter - 1) \div ClustersPerRouter
RoutersOf(t) == [i \in 1 .. NumRouters |-> <<t, i - 1>>]
Routers == Tiles \X (0 .. NumRouters - 1)

\* The lists of messages: l1_request, l2_request, RequestBuffers of a tile and of
\* a bank; ReplyBuffers of a bank and of a tile, l2_reply, l1_reply.
UpL1(r, v) == <<"up L1", r, v>>
UpL2(t, v) == <<"up L2", t, v>>
TileRequests(t, v) == <<"tile requests", t, v>>
BankRequests(b, v) == <<"bank requests", b, v>>
BankReplies(b, v) == <<"bank replies", b, v>>
TileReplies(t, v) == <<"tile replies", t, v>>
DownL2(t, v) == <<"down L2", t, v>>
DownL1(r, v) == <<"down L1", r, v>>
Places == UNION {{UpL1(r, v), DownL1(r, v)} : r \in Routers, v \in Channels}
   \cup UNION {{UpL2(t, v), DownL2(t, v), TileRequests(t, v), TileReplies(t, v)} : t \in Tiles, v \in Channels}
   \cup UNION {{BankRequests(b, v), BankReplies(b, v)} : b \in Banks, v \in Channels}

VARIABLES net,         \* the messages in each list
          collective,  \* the broadcasts each tile collects answers for, by address
          stalled,     \* the <<router, channel>> with stall_l1_request
          clock,       \* CURR_CYCLE, its parity
          owed,        \* the answers each cluster has still to send
          held, dirty, \* the clusters that hold each line, and hold it dirty
          awaited,     \* the clusters each bank waits for after a broadcast
          started,     \* how many requests, probes and broadcasts were sent
          sent, taken  \* history: messages of each flow sent and received

network == <<net, collective, stalled, clock>>
caches == <<owed, held, dirty>>
directory == <<awaited, started>>
vars == <<network, caches, directory, sent, taken>>

\* A flow is what one cluster and one bank send each other on one channel.
Flows == {"up", "down"} \X Clusters \X Banks \X {"PROBE", "DEFAULT"}
None == [wait |-> {}]

Init ==
  /\ net = [p \in Places |-> << >>]
  /\ collective = [t \in Tiles |-> [a \in Addrs |-> None]]
  /\ stalled = {} /\ clock = 0
  /\ owed = [c \in Clusters |-> << >>]
  /\ held = Holders /\ dirty = Owners
  /\ awaited = [a \in Addrs |-> {}] /\ started = 0
  /\ sent = [f \in Flows |-> 0] /\ taken = [f \in Flows |-> 0]

\* ICMsg.  A bank's step belongs to the cycle after the cluster's.
Message(type, c, a, n) ==
  [type |-> type, cluster |-> c, addr |-> a, n |-> n, ready |-> 0,
   valid |-> FALSE, skip |-> {}, sharers |-> {}]

Ready(m) == m.ready <= 0

-----------------------------------------------------------------------------
(* Routing.                                                                *)

Repeat(times, Step(_), s) ==
  LET After[i \in 0 .. times] == IF i = 0 THEN s ELSE Step(After[i - 1]) IN After[times]

\* Mutation: of messages that became ready together the last one is taken.
Oldest_LastOfEqual(q, eligible) ==
  CHOOSE i \in eligible : \A j \in eligible :
    q[i].ready < q[j].ready \/ (q[i].ready = q[j].ready /\ i >= j)

\* The first of the messages that became ready the longest ago.
Oldest(q, eligible) ==
  CHOOSE i \in eligible : \A j \in eligible :
    q[i].ready < q[j].ready \/ (q[i].ready = q[j].ready /\ i <= j)

Move(n, from, i, to, m) == [n EXCEPT ![from] = RemoveAt(@, i), ![to] = Append(@, m)]

\* helper_route_oldest_requests, one message.
RouteOldest(n, from, to) ==
  LET q == n[from] IN
  IF q = << >> THEN n
  ELSE LET i == Oldest(q, DOMAIN q) IN
       IF Ready(q[i]) THEN Move(n, from, i, to, q[i]) ELSE n

-----------------------------------------------------------------------------
(* GlobalNetworkNew::PerCycle.  s.net are the messages, s.used what each   *)
(* output has still to give in this cycle.                                 *)

Unpended(n, b, v) ==
  Len(SelectSeq(n[BankReplies(b, v)], LAMBDA m : m.addr \notin Misses \/ m.type # "request"))

\* getNumUnpendedMessages counts the replies of the bank, not its requests.
UpOne(s, t, v) ==
  LET q == s.net[TileRequests(t, v)]
      open == {i \in DOMAIN q : /\ s.used[Home[q[i].addr]] > 0
                                /\ Unpended(s.net, Home[q[i].addr], v) < BankEntries}
  IN  IF open = {} THEN s
      ELSE LET i == Oldest(q, open)
               b == Home[q[i].addr]
           IN  IF ~Ready(q[i]) THEN s
               ELSE [net |-> Move(s.net, TileRequests(t, v), i, BankRequests(b, v), q[i]),
                     used |-> [s.used EXCEPT ![b] = @ - 1]]

\* Tiles are served by the age of their first message.
Up(n, v) ==
  LET asking == {t \in Tiles : n[TileRequests(t, v)] # << >>}
      Age(t) == n[TileRequests(t, v)][1].ready
      order == SetToSortSeq(asking, LAMBDA t, u : Age(t) < Age(u) \/ (Age(t) = Age(u) /\ t < u))
      Serve(s, t) == Repeat(UpIn, LAMBDA x : UpOne(x, t, v), s)
  IN  IF asking = {} THEN n
      ELSE FoldLeft(Serve, [net |-> n, used |-> [b \in Banks |-> UpOut]], order).net

DownOne(s, b, v) ==
  LET q == s.net[BankReplies(b, v)]
      open == {i \in DOMAIN q : /\ s.used[TileOf(q[i].cluster)] > 0
                                /\ Len(s.net[TileReplies(TileOf(q[i].cluster), v)]) < TileReplyEntries}
  IN  IF open = {} THEN s
      ELSE LET i == Oldest(q, open)
               t == TileOf(q[i].cluster)
           IN  IF ~Ready(q[i]) THEN s
               ELSE [net |-> Move(s.net, BankReplies(b, v), i, TileReplies(t, v),
                                  [q[i] EXCEPT !.ready = TileLatency]),
                     used |-> [s.used EXCEPT ![t] = @ - 1]]

\* The bank that is first changes with every cycle.
Down(first, n, v) ==
  LET order == [i \in 1 .. NumBanks |-> (first + i - 1) % NumBanks]
      Serve(s, b) == Repeat(DownIn, LAMBDA x : DownOne(x, b, v), s)
  IN  IF \A b \in Banks : n[BankReplies(b, v)] = << >> THEN n
      ELSE FoldLeft(Serve, [net |-> n, used |-> [t \in Tiles |-> DownOut]], order).net

GlobalNetwork(first, n) ==
  LET up == Up(Up(Up(n, "PROBE"), "DEFAULT"), "BCAST")
  IN  Down(first, Down(first, Down(first, up, "PROBE"), "DEFAULT"), "BCAST")

-----------------------------------------------------------------------------
(* TileInterconnectNew::PerCycle.  s.net and s.open are the messages and   *)
(* the collective lists of tile t.                                         *)

StallsL2(n, p) == Len(n[p]) >= L2Entries

\* To the router of the cluster.
Deliver(n, v, m) == [n EXCEPT ![DownL1(RouterOf(m.cluster), v)] = Append(@, m)]

\* helper_L2_to_L1_routing: everything that is ready.
ToL1(n, t, v) ==
  FoldLeft(LAMBDA x, m : Deliver(x, v, m),
           [n EXCEPT ![DownL2(t, v)] = SelectSeq(@, LAMBDA m : ~Ready(m))],
           SelectSeq(n[DownL2(t, v)], Ready))

Converted(m) == IF m.type = "request" THEN [m EXCEPT !.type = "reply"] ELSE m

\* helper_GC_to_L2: everything that is ready; a request becomes its reply.
ToL2(n, t, v) ==
  LET q == n[TileReplies(t, v)] IN
  [n EXCEPT ![TileReplies(t, v)] = SelectSeq(q, LAMBDA m : ~Ready(m)),
            ![DownL2(t, v)] = @ \o [i \in DOMAIN SelectSeq(q, Ready) |-> Converted(SelectSeq(q, Ready)[i])]]

HandleReplies(before, n, t, v) ==
  LET m == ToL1(n, t, v) IN IF StallsL2(before, DownL2(t, v)) THEN m ELSE ToL2(m, t, v)

\* helper_HandleRepliesBCast, one broadcast: a copy for every cluster that is not
\* skipped, on the probe channel, unless a router (the last ones are not looked
\* at) is full.
Split(s, t) ==
  LET q == s.net[TileReplies(t, "BCAST")]
      m == Head(q)
      full == \E i \in 0 .. ClustersPerTile \div ClustersPerRouter - 1 :
                 Len(s.net[DownL1(<<t, i>>, "PROBE")]) >= 4 * ClustersPerRouter
      to == Members(t) \ m.skip
      copies == [i \in 1 .. Cardinality(to) |-> [m EXCEPT !.cluster = SetToSortSeq(to, <)[i]]]
  IN  IF q = << >> \/ full THEN s
      ELSE [net |-> FoldLeft(LAMBDA x, y : Deliver(x, "PROBE", y),
                             [s.net EXCEPT ![TileReplies(t, "BCAST")] = Tail(q)], copies),
            open |-> [s.open EXCEPT ![m.addr] = [wait |-> to, skip |-> Members(t) \cap m.skip,
                                                 sharers |-> {}, owned |-> FALSE]]]

\* Mutation: an answer is not struck off the list.
Left_Keeps(wait, c) == wait

\* The clusters still to answer.
Left(wait, c) == wait \ {c}

\* Mutation: the tile answers when one cluster is left.
Collected_OneLeft(wait) == Cardinality(wait) <= 1

Collected(wait) == wait = {}

\* helper_HandleRequests on BCAST, one answer: it is struck off; with the last
\* one the tile answers on the probe channel.  s.left counts those.
Combine(s, t) ==
  LET q == s.net[UpL2(t, "BCAST")] IN
  IF q = << >> \/ s.left = 0 \/ ~Ready(q[Oldest(q, DOMAIN q)]) THEN s
  ELSE LET i == Oldest(q, DOMAIN q)
           m == q[i]
           e == s.open[m.addr]
           names == m.valid /\ m.type # "inv reply"
           after == [e EXCEPT !.wait = Left(@, m.cluster),
                              !.sharers = IF names THEN @ \cup {m.cluster} ELSE @,
                              !.owned = @ \/ (names /\ m.type = "owned reply")]
           reply == [m EXCEPT !.cluster = t * ClustersPerTile, !.skip = @ \cup after.skip,
                              !.sharers = after.sharers,
                              !.type = IF after.owned THEN "owned reply" ELSE @]
       IN  IF Collected(after.wait)
           THEN [net |-> Move(s.net, UpL2(t, "BCAST"), i, TileRequests(t, "PROBE"), reply),
                 open |-> [s.open EXCEPT ![m.addr] = None], left |-> s.left - 1]
           ELSE [s EXCEPT !.net[UpL2(t, "BCAST")] = RemoveAt(@, i), !.open[m.addr] = after]

\* RequestBuffers of the tile take nothing more.
TileFull(n, t, v) == Len(n[TileRequests(t, v)]) >= TileRequestEntries

CombineAll(s, t) ==
  IF TileFull(s.net, t, "PROBE") THEN s
  ELSE LET f == Repeat(Len(s.net[UpL2(t, "BCAST")]), LAMBDA x : Combine(x, t),
                       [net |-> s.net, open |-> s.open, left |-> L2Rate])
       IN  [net |-> f.net, open |-> f.open]

\* helper_L1_to_L2_routing, unless the second level stalled.
FromL1(before, n, t, v) ==
  IF StallsL2(before, UpL2(t, v)) THEN n
  ELSE FoldLeft(LAMBDA x, r : Repeat(L1Rate, LAMBDA y : RouteOldest(y, UpL1(r, v), UpL2(t, v)), x),
                n, RoutersOf(t))

HandleRequests(before, n, t, v) ==
  LET m == IF v = "BCAST" \/ TileFull(n, t, v) THEN n
           ELSE Repeat(L2Rate, LAMBDA y : RouteOldest(y, UpL2(t, v), TileRequests(t, v)), n)
  IN  FromL1(before, m, t, v)

\* s.all are the collective lists of all tiles.
TileStep(s, t) ==
  LET before == s.net
      replies == HandleReplies(before, HandleReplies(before, s.net, t, "PROBE"), t, "DEFAULT")
      split == Repeat(SplitRate, LAMBDA x : Split(x, t), [net |-> replies, open |-> s.all[t]])
      combined == CombineAll(split, t)
      probes == HandleRequests(before, HandleRequests(before, combined.net, t, "BCAST"), t, "PROBE")
  IN  [net |-> HandleRequests(before, probes, t, "DEFAULT"), all |-> [s.all EXCEPT ![t] = combined.open]]

-----------------------------------------------------------------------------
(* The cycle.                                                              *)

Messages(n) == UNION {ToSet(n[p]) : p \in Places}

\* The messages with new ready cycles.
Timed(n, Time(_)) ==
  [p \in Places |-> IF n[p] = << >> THEN << >>
                     ELSE [i \in DOMAIN n[p] |-> [n[p][i] EXCEPT !.ready = Time(@)]]]

\* Ready cycles are relative to the current one; of those past the order matters.
Settled(n) ==
  LET past == {m.ready : m \in {x \in Messages(n) : Ready(x)}}
  IN  Timed(n, LAMBDA r : IF r > 0 THEN r ELSE -Cardinality({x \in past : x > r}))

Cycle(n) == Timed(n, LAMBDA r : r - 1)

Tick ==
  \E first \in Banks :
  LET start == GlobalNetwork(first, Cycle(net))
      tiles == FoldLeft(TileStep, [net |-> start, all |-> collective], [i \in 1 .. NumTiles |-> i - 1])
  IN  /\ net' = Settled(tiles.net)
      /\ collective' = tiles.all
      /\ stalled' = {<<r, v>> \in Routers \X Channels : Len(start[UpL1(r, v)]) >= L1Entries}
      /\ clock' = 1 - clock
      /\ UNCHANGED <<caches, directory, sent, taken>>

-----------------------------------------------------------------------------
(* The clusters.                                                           *)

\* ClusterInject: the channel follows from the type; false while the router stalls.
Channel(type) ==
  CASE type \in {"inv reply", "shr reply", "owned reply"} -> "BCAST"
    [] type = "ack" -> "PROBE"
    [] type = "request" -> "DEFAULT"

ClusterInject(c, m) ==
  LET v == Channel(m.type) IN
  /\ <<RouterOf(c), v>> \notin stalled
  /\ net' = [net EXCEPT ![UpL1(RouterOf(c), v)] = Append(@, [m EXCEPT !.ready = ClusterLatency])]
  /\ UNCHANGED <<collective, stalled, clock>>

Counts(f) == sent' = [sent EXCEPT ![f] = @ + 1]
Starts == started < MaxSent /\ started' = started + 1

Request(c, a) ==
  LET f == <<"up", c, Home[a], "DEFAULT">> IN
  /\ <<c, a>> \in Asking /\ Starts
  /\ ClusterInject(c, Message("request", c, a, sent[f] + 1))
  /\ Counts(f)
  /\ UNCHANGED <<caches, awaited, taken>>

Answer(c) ==
  /\ owed[c] # << >>
  /\ LET m == Head(owed[c])
         f == <<"up", c, Home[m.addr], "PROBE">>
     IN  IF m.type = "ack"
         THEN ClusterInject(c, [m EXCEPT !.n = sent[f] + 1]) /\ Counts(f)
         ELSE ClusterInject(c, m) /\ UNCHANGED sent
  /\ owed' = [owed EXCEPT ![c] = Tail(@)]
  /\ UNCHANGED <<held, dirty, directory, taken>>

Waiting(c, v) == {i \in DOMAIN net[DownL1(RouterOf(c), v)] :
                    LET m == net[DownL1(RouterOf(c), v)][i] IN m.cluster = c /\ Ready(m)}

\* The answer to a broadcast (helper_handle_ccbcast_probe): a line that is held is
\* given up, or kept clean if the broadcast asks who shares it.
BroadcastAnswer(c, m) ==
  LET a == m.addr
      type == IF m.type = "shr req" /\ c \in held[a]
              THEN IF c \in dirty[a] THEN "shr reply" ELSE "owned reply" ELSE "inv reply"
  IN  /\ held' = IF m.type = "inv req" THEN [held EXCEPT ![a] = @ \ {c}] ELSE held
      /\ dirty' = [dirty EXCEPT ![a] = @ \ {c}]
      /\ owed' = [owed EXCEPT ![c] = Append(@, [Message(type, c, a, 0) EXCEPT
                    !.valid = m.type = "inv req" /\ c \in held'[a]])]

Receives(c, m) ==
  LET f == <<"down", c, Home[m.addr], IF m.type = "probe" THEN "PROBE" ELSE "DEFAULT">> IN
  CASE m.type \in {"inv req", "shr req"} -> BroadcastAnswer(c, m) /\ UNCHANGED taken
    [] m.type = "probe" -> /\ owed' = [owed EXCEPT ![c] = Append(@, Message("ack", c, m.addr, 0))]
                           /\ taken' = [taken EXCEPT ![f] = @ + 1]
                           /\ UNCHANGED <<held, dirty>>
    [] m.type = "reply" -> taken' = [taken EXCEPT ![f] = @ + 1] /\ UNCHANGED caches

\* The channels take turns, and one without a message gives up its turn.
ClusterRemove(c) ==
  \E v \in {u \in Channels : Waiting(c, u) # {}} :
    /\ LET p == DownL1(RouterOf(c), v)
           i == CHOOSE x \in Waiting(c, v) : \A y \in Waiting(c, v) : x <= y
       IN  net' = [net EXCEPT ![p] = RemoveAt(@, i)] /\ Receives(c, net[p][i])
    /\ UNCHANGED <<collective, stalled, clock, directory, sent>>

-----------------------------------------------------------------------------
(* The banks.                                                              *)

\* ReplyBufferInject takes everything.
ReplyBufferInject(b, v, m) ==
  [net EXCEPT ![BankReplies(b, v)] = Append(@, [m EXCEPT !.ready = GnetLatency + 1])]

\* Requests are answered in any order.
Serve(b) ==
  \E i \in DOMAIN net[BankRequests(b, "DEFAULT")] :
    LET m == net[BankRequests(b, "DEFAULT")][i]
        up == <<"up", m.cluster, b, "DEFAULT">>
        down == <<"down", m.cluster, b, "DEFAULT">>
        after == ReplyBufferInject(b, "DEFAULT", [m EXCEPT !.n = sent[down] + 1])
    IN  /\ net' = [after EXCEPT ![BankRequests(b, "DEFAULT")] = RemoveAt(@, i)]
        /\ Counts(down) /\ taken' = [taken EXCEPT ![up] = @ + 1]
        /\ UNCHANGED <<collective, stalled, clock, caches, directory>>

SendProbe(c, a) ==
  LET f == <<"down", c, Home[a], "PROBE">> IN
  /\ <<c, a>> \in Probed /\ Starts
  /\ Len(net[BankReplies(Home[a], "PROBE")]) < BankEntries
  /\ net' = ReplyBufferInject(Home[a], "PROBE", Message("probe", c, a, sent[f] + 1))
  /\ Counts(f)
  /\ UNCHANGED <<collective, stalled, clock, caches, awaited, taken>>

\* BroadcastReplyInject: a message for every tile.  The directory has one
\* broadcast of an address at a time, and leaves out the cluster that asked.
Broadcast(a, asker, type) ==
  LET b == Home[a] IN
  /\ <<asker, a>> \in Writing /\ Starts /\ awaited[a] = {}
  /\ Len(net[BankReplies(b, "PROBE")]) < BankEntries
  /\ net' = [net EXCEPT ![BankReplies(b, "BCAST")] = @ \o [t \in 1 .. NumTiles |->
               [Message(type, (t - 1) * ClustersPerTile, a, 0) EXCEPT
                  !.skip = {asker}, !.ready = GnetLatency + 1]]]
  /\ awaited' = [awaited EXCEPT ![a] = Clusters \ {asker}]
  /\ UNCHANGED <<collective, stalled, clock, caches, sent, taken>>

\* helper_handle_probe_responses: the first answer; that of a tile stands for all
\* its clusters that are not on the skip list.
TakeAnswer(b) ==
  /\ net[BankRequests(b, "PROBE")] # << >>
  /\ LET m == Head(net[BankRequests(b, "PROBE")])
         f == <<"up", m.cluster, b, "PROBE">>
     IN  IF m.type = "ack"
         THEN taken' = [taken EXCEPT ![f] = @ + 1] /\ UNCHANGED awaited
         ELSE /\ awaited' = [awaited EXCEPT ![m.addr] = @ \ (Members(TileOf(m.cluster)) \ m.skip)]
              /\ UNCHANGED taken
  /\ net' = [net EXCEPT ![BankRequests(b, "PROBE")] = Tail(@)]
  /\ UNCHANGED <<collective, stalled, clock, caches, started, sent>>

Next ==
  \/ Tick
  \/ \E c \in Clusters : \/ \E a \in Addrs : Request(c, a) \/ SendProbe(c, a)
                         \/ Answer(c) \/ ClusterRemove(c)
  \/ \E a \in Addrs, c \in Clusters, type \in {"inv req", "shr req"} : Broadcast(a, c, type)
  \/ \E b \in Banks : Serve(b) \/ TakeAnswer(b)

\* Every part is clocked in every cycle.
Fairness ==
  /\ WF_clock(clock' = 1 - clock)
  /\ \A c \in Clusters : WF_owed(Answer(c)) /\ WF_net(ClusterRemove(c))
  /\ \A b \in Banks : WF_taken(Serve(b)) /\ WF_net(TakeAnswer(b))

Spec == Init /\ [][Next]_vars /\ Fairness

-----------------------------------------------------------------------------
(* Properties.                                                             *)

\* The lists a flow passes, from its end to its beginning.
InTransit(f) ==
  LET c == f[2]  b == f[3]  v == f[4]  t == TileOf(c)  r == RouterOf(c)
      path == IF f[1] = "up"
              THEN net[BankRequests(b, v)] \o net[TileRequests(t, v)] \o net[UpL2(t, v)] \o net[UpL1(r, v)]
              ELSE net[DownL1(r, v)] \o net[DownL2(t, v)] \o net[TileReplies(t, v)] \o net[BankReplies(b, v)]
  IN  SelectSeq(path, LAMBDA m : m.n > 0 /\ m.cluster = c /\ Home[m.addr] = b)

\* What a cluster and a bank send each other on a channel arrives in the order in
\* which it was sent, and nothing of it is lost or doubled, whatever is routed
\* beside it: the directory and the caches count on it for probes and releases.
FlowsInOrder ==
  \A f \in Flows :
    LET q == InTransit(f) IN
    /\ Len(q) = sent[f] - taken[f]
    /\ \A i, j \in DOMAIN q : i < j => q[i].n < q[j].n

BroadcastTypes == {"inv req", "shr req", "inv reply", "shr reply", "owned reply"}
InFlight(t, a) == {m \in Messages(net) : m.type \in BroadcastTypes /\ m.addr = a /\ TileOf(m.cluster) = t}
Owes(c, a) == \E i \in DOMAIN owed[c] : owed[c][i].addr = a /\ owed[c][i].type # "ack"

\* The answer of a tile releases all its clusters at the directory: when it is on
\* its way, no cluster of the tile still has the broadcast before it or an answer
\* to send, and there is no other answer.
TileAnswersForAll ==
  \A t \in Tiles, a \in Addrs : \A v \in {"tile requests", "bank requests"} :
    \A x \in Tiles \cup Banks :
      LET p == <<v, x, "PROBE">> IN
      p \in Places =>
        \A m \in ToSet(net[p]) :
          m.type # "ack" /\ m.addr = a /\ TileOf(m.cluster) = t =>
            /\ InFlight(t, a) = {m}
            /\ \A c \in Members(t) : ~Owes(c, a)
            /\ Members(t) \ m.skip \subseteq awaited[a]

\* Once nothing more is sent, every message has arrived and every broadcast has
\* been answered by all: no list waits for another for ever.
EverythingArrives == <>[](sent = taken /\ \A a \in Addrs : awaited[a] = {})
=============================================================================
