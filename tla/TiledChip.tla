------------------------------ MODULE TiledChip ------------------------------
(***************************************************************************)
(* The tiled chip of rigel-sim: ChipTiled, two CrossBars, a TreeNetwork per*)
(* tile, and ClusterStructurals with a ClusterCacheStructural and their    *)
(* CoreFunctionals, connected by ports that hold one packet and fifos of   *)
(* fixed capacity.  It is the structural configuration of user.config      *)
(* (RIGEL_CFG_NUM 3) with ClusterType set to ClusterStructural: the typedef*)
(* of user.config.default still says ClusterFunctional.                    *)
(*                                                                         *)
(* Every component has a PerCycle that the chip calls in a fixed order;    *)
(* each call is one step here, and turn says which comes next.  A packet   *)
(* is the number of the thread that owns it: components pass pointers.     *)
(* A PerCycle is a composition of handlers, each of them a function from   *)
(* the state of the network to the next.                                   *)
(***************************************************************************)
EXTENDS Integers, Sequences, FiniteSets, SequencesExt

CONSTANTS
  Tiles,               \* rigel::NUM_TILES
  ClustersPerTile,     \* rigel::CLUSTERS_PER_TILE
  CoresPerCluster,     \* rigel::CORES_PER_CLUSTER
  ThreadsPerCore,      \* rigel::THREADS_PER_CORE
  FifoDepth,           \* capacity of the shared fifos (99 in the code)
  Words, WordSize, Requests, SyncWords,  \* of MemoryService
  MaxRequests,         \* bound: memory instructions software executes
  Halts                \* does software execute HLT?

TileIds == 0 .. Tiles - 1
Clusters == 0 .. Tiles * ClustersPerTile - 1
Cores == 0 .. Cardinality(Clusters) * CoresPerCluster - 1
Threads == 0 .. Cardinality(Cores) * ThreadsPerCore - 1
ThreadsPerCluster == CoresPerCluster * ThreadsPerCore
NoPacketHere == -1

CoreOf(g) == g \div ThreadsPerCore
LocalCore(g) == CoreOf(g) % CoresPerCluster
ClusterOf(c) == c \div CoresPerCluster
TileOf(k) == k \div ClustersPerTile

ASSUME ShapeAssumption ==
  /\ {Tiles, ClustersPerTile, CoresPerCluster, ThreadsPerCore} \subseteq Nat \ {0}
  /\ FifoDepth \in Nat \ {0}
  /\ MaxRequests \in Nat
  /\ Halts \in BOOLEAN

(* The names of the in-ports and of the fifos, by their owner.             *)
PortIds ==
  ({"request_in", "reply_in", "from_gnet"} \X TileIds)
    \union ({"leaf_in", "memside_in"} \X Clusters)
    \union ({"coreside_in", "from_ccache"} \X Cores)

FifoIds ==
  ({"request_inbound", "request_outbound", "reply_inbound", "reply_outbound",
    "tree_inbound", "tree_outbound"} \X TileIds)
    \union ({"ccache_requests", "ccache_replies", "memside_requests",
             "memside_replies"} \X Clusters)
    \union ({"coreside_requests", "coreside_replies"} \X Cores)

Capacity(f) ==
  IF f[1] \in {"coreside_requests", "coreside_replies"} THEN ThreadsPerCluster
  ELSE FifoDepth

VARIABLES
  net,       \* ports, fifos and whether a component threw ExitSim
  turn,      \* the PerCycle calls left in this cycle
  rotation,  \* rigel::CURR_CYCLE modulo ClustersPerTile
  current,   \* current_tid of every core
  active,    \* active_tids of every core, as global thread numbers
  pending,   \* the threads whose request the port accepted (_request_pending)
  issued,    \* how many memory instructions were executed
  mem, link, req, fresh   \* see MemoryService

memory == <<mem, link, req, fresh>>
vars == <<net, turn, rotation, current, active, pending, issued, mem, link,
          req, fresh>>

Service == INSTANCE MemoryService

ASSUME RequestAssumption ==
  Requests \subseteq
    Threads \X Service!Messages \X Words \X Service!Value \X Service!Value
-----------------------------------------------------------------------------
(* fifo::push fails on a full fifo; no caller looks at its result.         *)
Push_OffByOne(n, f, g) ==
  IF Len(n.fifo[f]) + 1 < Capacity(f)
    THEN [n EXCEPT !.fifo[f] = Append(@, g)] ELSE n
Push(n, f, g) ==
  IF Len(n.fifo[f]) < Capacity(f)
    THEN [n EXCEPT !.fifo[f] = Append(@, g)] ELSE n
Pop(n, f) == [n EXCEPT !.fifo[f] = Tail(@)]

(* An in-port is ready exactly when it holds no packet.                    *)
Ready(n, q) == n.port[q] = NoPacketHere
Accept(n, q, g) == [n EXCEPT !.port[q] = g]
Read(n, q) == [n EXCEPT !.port[q] = NoPacketHere]

(* The packet next in line at a port or fifo, and its removal.             *)
FrontOf(n, p) ==
  IF p \in PortIds THEN n.port[p]
  ELSE IF n.fifo[p] = <<>> THEN NoPacketHere ELSE Head(n.fifo[p])
Take(n, p) == IF p \in PortIds THEN Read(n, p) ELSE Pop(n, p)
Put(n, p, g) == IF p \in PortIds THEN Accept(n, p, g) ELSE Push(n, p, g)

(* A hop: the handlers take the front packet of one port or fifo to another*)
(* one.  to says where, for every packet.  A port that is not ready sends  *)
(* a NACK and the packet stays for a later cycle, or the handler throws.   *)
Hop(from, to) == [from |-> from, to |-> [g \in Threads |-> to], fatal |-> FALSE]
FatalHop(from, to) == [Hop(from, to) EXCEPT !.fatal = TRUE]
RoutedHop(from, to) == [from |-> from, to |-> to, fatal |-> TRUE]

Nowhere == <<"nowhere", 0>>
Nack(n, p) == p = Nowhere \/ (p \in PortIds /\ ~Ready(n, p))

Transfer_Keeps(n, x) ==
  LET g == FrontOf(n, x.from) IN
  CASE n.exit \/ g = NoPacketHere -> n
    [] OTHER -> IF Nack(n, x.to[g]) THEN [n EXCEPT !.exit = x.fatal]
                ELSE Put(IF x.to[g] \in PortIds THEN n ELSE Take(n, x.from), x.to[g], g)
Transfer(n, x) ==
  LET g == FrontOf(n, x.from) IN
  CASE n.exit \/ g = NoPacketHere -> n
    [] OTHER -> IF Nack(n, x.to[g]) THEN [n EXCEPT !.exit = x.fatal]
                ELSE Put(Take(n, x.from), x.to[g], g)

(* The hops of a sequence, one after the other.                            *)
Route(n, hops) ==
  LET After[i \in 0 .. Len(hops)] ==
        IF i = 0 THEN n ELSE Transfer(After[i - 1], hops[i])
  IN  After[Len(hops)]

(* for-loops over the tiles, a tile's clusters and a cluster's cores, and  *)
(* the loop that empties a fifo: one hop for each packet it can hold.      *)
OverTiles(hop(_)) == [i \in 1 .. Tiles |-> hop(i - 1)]
OverClusters(t, hop(_)) == [i \in 1 .. ClustersPerTile |-> hop(t * ClustersPerTile + i - 1)]
OverCores(k, hop(_)) == [i \in 1 .. CoresPerCluster |-> hop(k * CoresPerCluster + i - 1)]
UntilEmpty(hop) == [i \in 1 .. Capacity(hop.from) |-> hop]
-----------------------------------------------------------------------------
(* CrossBar: inport i is routed to outport i.  sink is the connected port. *)
CrossBarHops(source, inbound, outbound, sink) ==
  LET setOutports(i) == Hop(<<outbound, i>>, <<sink, i>>)
      route(i) == Hop(<<inbound, i>>, <<outbound, i>>)
      readInports(i) == Hop(<<source, i>>, <<inbound, i>>)
  IN OverTiles(setOutports) \o OverTiles(route) \o OverTiles(readInports)

RequestHops ==
  CrossBarHops("request_in", "request_inbound", "request_outbound", "reply_in")
ReplyHops == CrossBarHops("reply_in", "reply_inbound", "reply_outbound", "from_gnet")

(* TreeNetwork of tile t: a reply goes down to the cluster of its thread.  *)
ClustersOf(t) == {k \in Clusters : TileOf(k) = t}

Leaf_ByTile(g) == g \div (ClustersPerTile * ThreadsPerCluster)
Leaf(g) == g \div ThreadsPerCluster

TreeHops(t) ==
  LET up == <<"tree_inbound", t>>
      down == <<"tree_outbound", t>>
      route(g) ==
        IF g \div (ClustersPerTile * ThreadsPerCluster) # t THEN Nowhere
        ELSE <<"memside_in", t * ClustersPerTile + (Leaf(g) % ClustersPerTile)>>
      handleLeafOutputs == RoutedHop(down, [g \in Threads |-> route(g)])
      handleRootInput == Hop(<<"from_gnet", t>>, down)
      handleRootOutput == FatalHop(up, <<"request_in", t>>)
      handleLeafInputs(k) == Hop(<<"leaf_in", k>>, up)
  IN <<handleLeafOutputs, handleRootInput, handleRootOutput>>
       \o OverClusters(t, handleLeafInputs)

(* ClusterCacheStructural of cluster k, the handlers before and after      *)
(* handleMemsideInputs.                                                    *)
CoresOf(k) == {c \in Cores : ClusterOf(c) = k}

CCacheReplies(k) ==
  LET handleCoreSideReplies(c) == Hop(<<"coreside_replies", c>>, <<"from_ccache", c>>)
      handleCCacheReplies == RoutedHop(<<"ccache_replies", k>>,
        [g \in Threads |-> <<"coreside_replies", k * CoresPerCluster + LocalCore(g)>>])
      handleMemsideReplies == Hop(<<"memside_replies", k>>, <<"ccache_replies", k>>)
  IN OverCores(k, handleCoreSideReplies) \o UntilEmpty(handleCCacheReplies)
       \o UntilEmpty(handleMemsideReplies)

CCacheRequests(k) ==
  LET handleMemsideRequests == Hop(<<"memside_requests", k>>, <<"leaf_in", k>>)
      handleCCacheRequests == Hop(<<"ccache_requests", k>>, <<"memside_requests", k>>)
      handleCoreSideRequests(c) == Hop(<<"coreside_requests", c>>, <<"ccache_requests", k>>)
      handleCoreSideInputs(c) == Hop(<<"coreside_in", c>>, <<"coreside_requests", c>>)
  IN <<handleMemsideRequests>> \o UntilEmpty(handleCCacheRequests)
       \o OverCores(k, handleCoreSideRequests) \o OverCores(k, handleCoreSideInputs)

handleMemsideInputs(k) == Hop(<<"memside_in", k>>, <<"memside_replies", k>>)
CCacheStep(n, k) ==
  Route(Transfer(Route(n, CCacheReplies(k)), handleMemsideInputs(k)), CCacheRequests(k))
-----------------------------------------------------------------------------
(* The calls of one cycle: the networks, then each tile's tree, its        *)
(* clusters from the rotating one on, and the cores of each cluster.  The  *)
(* code clocks those from a rand() one on; they share nothing, so that the *)
(* order they are clocked in makes no difference and one is taken.         *)
Calls(r) ==
  LET cluster(k) == <<<<"cluster", k>>>> \o
        [i \in 1 .. CoresPerCluster |-> <<"core", k * CoresPerCluster + i - 1>>]
      tile(t) == <<<<"tree", t>>>> \o
        FlattenSeq([i \in 1 .. ClustersPerTile |->
          cluster(t * ClustersPerTile + ((r + i - 1) % ClustersPerTile))])
  IN <<<<"request", 0>>, <<"reply", 0>>>>
       \o FlattenSeq([i \in 1 .. Tiles |-> tile(i - 1)])

CoreHalted(c) == active[c] = {}
ClusterHalted(k) == \A c \in CoresOf(k) : CoreHalted(c)
TileHalted(t) == \A k \in ClustersOf(t) : ClusterHalted(k)
ChipHalted == \A t \in TileIds : TileHalted(t)

Init ==
  /\ net = [port |-> [q \in PortIds |-> NoPacketHere],
            fifo |-> [f \in FifoIds |-> <<>>], exit |-> FALSE]
  /\ turn = Calls(0)
  /\ rotation = 0
  /\ current = [c \in Cores |-> 0]
  /\ active = [c \in Cores |-> {g \in Threads : CoreOf(g) = c}]
  /\ pending = {}
  /\ issued = 0
  /\ Service!Init

(* It is the turn of component x: the others keep their state.             *)
Called(kind, x) ==
  /\ ~net.exit
  /\ turn # <<>>
  /\ Head(turn) = <<kind, x>>
  /\ turn' = Tail(turn)
  /\ UNCHANGED rotation

cores == <<current, active, pending, issued>>

RequestCrossBar ==
  /\ Called("request", 0)
  /\ net' = Route(net, RequestHops)
  /\ UNCHANGED <<cores, memory>>

ReplyCrossBar ==
  /\ Called("reply", 0)
  /\ net' = Route(net, ReplyHops)
  /\ UNCHANGED <<cores, memory>>

Tree(t) ==
  /\ Called("tree", t)
  /\ net' = IF TileHalted(t) THEN net ELSE Route(net, TreeHops(t))
  /\ UNCHANGED <<cores, memory>>

(* The cluster cache; the packet at its memory side is given its access,   *)
(* unless it has a reply type already ("unhandled msgType()!").            *)
ClusterCache(k) ==
  /\ Called("cluster", k)
  /\ LET g == net.port[<<"memside_in", k>>] IN
     CASE ClusterHalted(k) -> UNCHANGED <<net, memory>>
       [] ~ClusterHalted(k) /\ g = NoPacketHere ->
            /\ net' = CCacheStep(net, k)
            /\ UNCHANGED memory
       [] OTHER ->
            IF req[g].msg \in Service!Replies
            THEN net' = [net EXCEPT !.exit = TRUE] /\ UNCHANGED memory
            ELSE /\ net' = CCacheStep(net, k)
                 /\ Service!doMemoryAccess(g)
  /\ UNCHANGED cores

(* thread_select: the stalled thread, or the first active one in the order *)
(* in which next_tid advances; its stride grows with every try.            *)
Stalled(g) == req[g] # Service!NoPacket
StalledOf(c) == {g \in active[c] : Stalled(g)}

Try_FromCurrent(c, i) == (current[c] + (i * (i + 1)) \div 2) % ThreadsPerCore
Try(c, i) == (current[c] + 1 + (i * (i + 1)) \div 2) % ThreadsPerCore

Hits(c) == {i \in 0 .. ThreadsPerCore - 1 :
              c * ThreadsPerCore + Try(c, i) \in active[c]}
FirstHit(c) == CHOOSE i \in Hits(c) : \A j \in Hits(c) : i <= j

(* A stalled instruction: send its request again if the port refused it, or*)
(* look for the reply.  The code also looks in the cycle of the send, when *)
(* there cannot be one yet.                                                *)
sendMemoryRequest(n, g) ==
  IF Ready(n, <<"coreside_in", CoreOf(g)>>)
    THEN Accept(n, <<"coreside_in", CoreOf(g)>>, g) ELSE n

checkMemoryRequest(c, g) ==
  IF Ready(net, <<"from_ccache", c>>)
  THEN UNCHANGED <<net, pending, memory>>
  ELSE /\ net' = [net EXCEPT !.port[<<"from_ccache", c>>] = NoPacketHere,
                             !.exit = ~req[g].done]
       /\ pending' = pending \ {g}
       /\ IF req[g].done THEN Service!Retire(g) ELSE UNCHANGED memory

Resume(c) ==
  /\ \E g \in StalledOf(c) :
       IF g \in pending
       THEN checkMemoryRequest(c, g)
       ELSE /\ net' = sendMemoryRequest(net, g)
            /\ pending' = IF net' = net THEN pending ELSE pending \union {g}
            /\ UNCHANGED memory
  /\ UNCHANGED <<current, active, issued>>

(* A new instruction of the selected thread: a memory access, HLT, or      *)
(* something that does not leave the core.                                 *)
Execute(c) ==
  /\ StalledOf(c) = {}
  /\ Hits(c) # {}
  /\ current' = [current EXCEPT ![c] = Try(c, FirstHit(c))]
  /\ LET g == c * ThreadsPerCore + Try(c, FirstHit(c)) IN
     \/ UNCHANGED <<net, active, pending, issued, memory>>
     \/ /\ Halts
        /\ active' = [active EXCEPT ![c] = @ \ {g}]
        /\ UNCHANGED <<net, pending, issued, memory>>
     \/ /\ issued < MaxRequests
        /\ issued' = issued + 1
        /\ \E r \in Requests : Service!Issue(g, r)
        /\ net' = sendMemoryRequest(net, g)
        /\ pending' = IF net' = net THEN pending ELSE pending \union {g}
        /\ UNCHANGED active

(* "no thread selectable": the core throws ExitSim.                        *)
NoThread(c) ==
  /\ StalledOf(c) = {}
  /\ Hits(c) = {}
  /\ net' = [net EXCEPT !.exit = TRUE]
  /\ UNCHANGED <<cores, memory>>

Core(c) ==
  /\ Called("core", c)
  /\ \/ CoreHalted(c) /\ UNCHANGED <<net, cores, memory>>
     \/ ~CoreHalted(c) /\ (Resume(c) \/ Execute(c) \/ NoThread(c))

NextCycle ==
  /\ ~net.exit
  /\ ~ChipHalted
  /\ turn = <<>>
  /\ rotation' = (rotation + 1) % ClustersPerTile
  /\ turn' = Calls(rotation')
  /\ UNCHANGED <<net, cores, memory>>

Next ==
  \/ RequestCrossBar
  \/ ReplyCrossBar
  \/ \E t \in TileIds : Tree(t)
  \/ \E k \in Clusters : ClusterCache(k)
  \/ \E c \in Cores : Core(c)
  \/ NextCycle

Spec == Init /\ [][Next]_vars

(* The simulator goes on to the next call as long as it runs.  Every step  *)
(* of Next is an Advance, which is cheaper to ask of a behaviour.          *)
Stopped == net.exit \/ (turn = <<>> /\ ChipHalted)

Advance ==
  /\ ~Stopped
  /\ turn' = IF turn = <<>> THEN Calls((rotation + 1) % ClustersPerTile)
             ELSE Tail(turn)

FairSpec == Spec /\ WF_turn(Advance)
-----------------------------------------------------------------------------
Places(g) ==
  {<<q, 0>> : q \in {p \in PortIds : net.port[p] = g}}
    \union UNION {{<<f, i>> : i \in {j \in DOMAIN net.fifo[f] : net.fifo[f][j] = g}}
                  : f \in FifoIds}

(* The packet of a pending request is in exactly one port or fifo position, and
   every packet in the network belongs to a pending request: no push is lost,
   no handler forwards twice, although none of them checks, and no handler
   that cannot take a NACK ends the simulation with one (ExitSim).         *)
PacketInOnePlace ==
  /\ \A g \in Threads : Cardinality(Places(g)) = IF g \in pending THEN 1 ELSE 0
  /\ ~net.exit

(* A reply reaches the core whose stalled thread asked for it, and it is done:
   the assertion reply == p and "unimplemented for incompleted operation" of
   CoreFunctional::checkMemoryRequest.                                     *)
ReplyFindsItsRequest ==
  \A c \in Cores :
    LET g == net.port[<<"from_ccache", c>>] IN
      g # NoPacketHere => g \in StalledOf(c) \intersect pending /\ req[g].done

(* The chip is a MemoryService: each access is made once, between the cycle the
   core issues it and the one it sees the reply.                           *)
ServiceSpec == Service!Spec

(* Every request is answered: no thread is stalled for ever.               *)
RequestsAnswered == \A g \in Threads : []<>~Stalled(g)

(* A thread that has not halted is selected again and again.               *)
ThreadsRun ==
  \A c \in Cores : \A g \in Threads :
    CoreOf(g) = c =>
      []<>(g \notin active[c] \/ current[c] = g % ThreadsPerCore)
=============================================================================
