--------------------------- MODULE TiledChipProofs ---------------------------
(***************************************************************************)
(* Proofs about TiledChip, for any number of tiles, clusters, cores and    *)
(* threads (Sized: the fifos can hold the packets of a tile's cores, and   *)
(* the stride of thread_select reaches every thread).                      *)
(*                                                                         *)
(* IInv, the inductive invariant, is the conjunction of                    *)
(*   - Kept: the shape of what the cores keep;                             *)
(*   - Waiting: a core has at most one stalled thread, and only stalled    *)
(*     threads have packets;                                               *)
(*   - Carried (Good): every packet is in one place of the network, once,  *)
(*     on a way of its own core, and beyond the memory exactly when its    *)
(*     access was made.  A core has one packet, so a fifo that is passed by*)
(*     the packets of n cores holds at most n: no push fails;              *)
(*   - InTurn: the calls that are left of the cycle are in order, and the  *)
(*     ports a handler would throw at (the root of a tree, the memory side *)
(*     of a cluster cache) are busy only where May says: the tree is called*)
(*     after the request crossbar has read its root port and before the    *)
(*     clusters that read their memory side.                               *)
(*                                                                         *)
(* The handlers are sequences of hops.  HopFacts says what one hop does,   *)
(* RouteFacts that a sequence keeps what each hop keeps, by induction      *)
(* (Iterated); the sections after it go through the hops of the crossbars, *)
(* the trees and the cluster caches, the calls of a cycle, and the steps.  *)
(***************************************************************************)
EXTENDS TiledChip, FiniteSetTheorems, WellFoundedInduction, TLAPS

(***************************************************************************)
(* Induction.  The library's theorems on it take an operator; these take a *)
(* set, which is all the provers need.  ClusterCachesProofs has the same.  *)
(***************************************************************************)

(* A set of numbers closed under successor up to N is 0 .. N.              *)
LEMMA UpTo ==
  ASSUME NEW N \in Nat, NEW S, 0 \in S, \A n \in S : n \in 0 .. N - 1 => n + 1 \in S
  PROVE  \A n \in 0 .. N : n \in S
<1> DEFINE R == StrictSubsetOrdering(Nat)
           T == {0 .. n : n \in (0 .. N) \ S}
<1> SUFFICES ASSUME NEW k \in 0 .. N, k \notin S PROVE FALSE
  OBVIOUS
<1>1. IsWellFoundedOn(R, FiniteSubsetsOf(Nat))
  BY FS_StrictSubsetOrderingWellFounded
<1>2. T \subseteq FiniteSubsetsOf(Nat)
  <2> SUFFICES ASSUME NEW n \in 0 .. N PROVE 0 .. n \in FiniteSubsetsOf(Nat)
    OBVIOUS
  <2>1. IsFiniteSet(0 .. n) /\ 0 .. n \in SUBSET Nat
    BY FS_Interval
  <2> QED
    BY <2>1 DEF FiniteSubsetsOf
<1>3. T # {}
  OBVIOUS
<1>4. PICK x \in T : \A y \in T : ~(<<y, x>> \in R)
  <2> HIDE DEF R, T
  <2> QED
    BY <1>1, <1>2, <1>3, WFMin
<1>5. PICK m \in (0 .. N) \ S : x = 0 .. m
  BY <1>4
<1>6. m # 0 /\ m - 1 \in (0 .. N) \ S
  <2>1. m # 0 /\ m \notin S /\ m \in 0 .. N
    OBVIOUS
  <2>2. m - 1 \in 0 .. N - 1 /\ m - 1 \in 0 .. N /\ (m - 1) + 1 = m
    BY <2>1
  <2> DEFINE p == m - 1
  <2>3. p \in S => p + 1 \in S
    BY <2>2
  <2> QED
    BY <2>1, <2>2, <2>3
<1>7. 0 .. m - 1 \in T
  BY <1>6
<1>8. <<0 .. m - 1, x>> \in R
  BY <1>5, <1>6 DEF StrictSubsetOrdering
<1> QED
  BY <1>4, <1>7, <1>8

(* A set of numbers that is not empty has a least one.                     *)
LEMMA Least ==
  ASSUME NEW S \in SUBSET Nat, S # {}
  PROVE  \E m \in S : \A n \in S : m <= n
<1>1. PICK k \in S : TRUE
  OBVIOUS
<1> DEFINE A == {n \in 0 .. k : \A j \in 0 .. n : j \notin S}
<1> SUFFICES ASSUME \A m \in S : \E n \in S : ~(m <= n) PROVE FALSE
  OBVIOUS
<1>2. 0 \in A
  BY <1>1
<1>3. ASSUME NEW n \in A, n \in 0 .. k - 1
      PROVE  n + 1 \in A
  <2>1. n + 1 \notin S
    <3> SUFFICES ASSUME n + 1 \in S PROVE FALSE
      OBVIOUS
    <3>1. PICK j \in S : ~(n + 1 <= j)
      OBVIOUS
    <3> QED
      BY <3>1, <1>3
  <2> QED
    BY <2>1, <1>3
<1> HIDE DEF A
<1>4. k \in A
  BY <1>1, <1>2, <1>3, UpTo
<1> QED
  BY <1>1, <1>4 DEF A

(* Applying f again and again, from s on, defines a function.              *)
Iterates(g, X, s, N, f) ==
  /\ g \in [0 .. N -> X] /\ g[0] = s
  /\ \A i \in 1 .. N : g[i] = f[<<g[i - 1], i>>]

LEMMA Iterated ==
  ASSUME NEW X, NEW s \in X, NEW N \in Nat, NEW f \in [X \X (1 .. N) -> X]
  PROVE  \E g : Iterates(g, X, s, N, f)
<1> DEFINE G(n, g) == g[0] = s /\ \A i \in 1 .. n : g[i] = f[<<g[i - 1], i>>]
           S == {n \in 0 .. N : \E g \in [0 .. n -> X] : G(n, g)}
<1>1. 0 \in S
  <2> DEFINE g == [i \in 0 .. 0 |-> s]
  <2>1. g \in [0 .. 0 -> X] /\ G(0, g)
    OBVIOUS
  <2> HIDE DEF g
  <2> QED
    BY <2>1
<1>2. ASSUME NEW n \in S, n \in 0 .. N - 1
      PROVE  n + 1 \in S
  <2>1. PICK g \in [0 .. n -> X] : G(n, g)
    OBVIOUS
  <2> DEFINE h == [i \in 0 .. n + 1 |-> IF i = n + 1 THEN f[<<g[n], n + 1>>] ELSE g[i]]
  <2>2. g[n] \in X /\ f[<<g[n], n + 1>>] \in X
    BY <1>2, <2>1
  <2>3. h \in [0 .. n + 1 -> X]
    BY <2>1, <2>2, <1>2
  <2>4. h[0] = s
    BY <2>1, <1>2
  <2>5. ASSUME NEW i \in 1 .. n + 1
        PROVE  h[i] = f[<<h[i - 1], i>>]
    <3>1. i - 1 \in 0 .. n + 1 /\ i - 1 # n + 1
      BY <1>2
    <3>2. h[i - 1] = g[i - 1]
      BY <3>1
    <3>3. CASE i = n + 1
      <4>1. i - 1 = n /\ h[i] = f[<<g[n], n + 1>>]
        BY <3>3, <1>2
      <4> QED
        BY <4>1, <3>2, <3>3
    <3>4. CASE i # n + 1
      <4>1. i \in 1 .. n /\ h[i] = g[i]
        BY <3>4, <1>2
      <4>2. g[i] = f[<<g[i - 1], i>>]
        BY <4>1, <2>1
      <4> HIDE DEF h
      <4> QED
        BY <4>1, <4>2, <3>2
    <3> QED
      BY <3>3, <3>4
  <2> HIDE DEF h
  <2>6. G(n + 1, h)
    BY <2>4, <2>5
  <2> HIDE DEF G
  <2>7. n + 1 \in 0 .. N
    BY <1>2
  <2> QED
    BY <2>3, <2>6, <2>7
<1>3. N \in S
  <2> HIDE DEF S
  <2> QED
    BY <1>1, <1>2, UpTo
<1> QED
  BY <1>3 DEF Iterates

-----------------------------------------------------------------------------
(***************************************************************************)
(* The numbers of threads, cores, clusters and tiles.                      *)
(***************************************************************************)

(* Division by a positive number.                                          *)
LEMMA Quotient ==
  ASSUME NEW a \in Nat, NEW b \in Nat \ {0}
  PROVE  /\ a \div b \in Nat /\ a % b \in 0 .. b - 1
         /\ a = (a \div b) * b + (a % b)
  OBVIOUS

LEMMA Remainder ==
  ASSUME NEW b \in Nat \ {0}, NEW q \in Nat, NEW r \in 0 .. b - 1
  PROVE  (q * b + r) \div b = q /\ (q * b + r) % b = r /\ q * b + r \in Nat
  OBVIOUS

LEMMA Numbering ==
  ASSUME NEW b \in Nat \ {0}, NEW n \in Nat, NEW q \in 0 .. n - 1, NEW r \in 0 .. b - 1
  PROVE  q * b + r \in 0 .. n * b - 1
  OBVIOUS

LEMMA NumberedQuotient ==
  ASSUME NEW b \in Nat \ {0}, NEW n \in Nat, NEW a \in 0 .. n * b - 1
  PROVE  a \div b \in 0 .. n - 1
  OBVIOUS

LEMMA NestedQuotient ==
  ASSUME NEW a \in Nat, NEW b \in Nat \ {0}, NEW c \in Nat \ {0}
  PROVE  (a \div b) \div c = a \div (c * b)
  OBVIOUS

LEMMA Product ==
  ASSUME NEW a \in Nat \ {0}, NEW b \in Nat \ {0} PROVE a * b \in Nat \ {0}
  OBVIOUS

LEMMA Shape ==
  /\ Tiles \in Nat \ {0} /\ ClustersPerTile \in Nat \ {0}
  /\ CoresPerCluster \in Nat \ {0} /\ ThreadsPerCore \in Nat \ {0}
  /\ ThreadsPerCluster \in Nat \ {0} /\ FifoDepth \in Nat \ {0}
  BY ShapeAssumption, Product DEF ThreadsPerCluster

LEMMA Sizes ==
  /\ Cardinality(Clusters) = Tiles * ClustersPerTile
  /\ Cardinality(Clusters) \in Nat \ {0}
  /\ Cardinality(Cores) = Cardinality(Clusters) * CoresPerCluster
  /\ Cardinality(Cores) \in Nat \ {0}
  /\ IsFiniteSet(Cores)
<1>1. Tiles * ClustersPerTile \in Nat \ {0}
  BY Shape, Product
<1>2. Cardinality(Clusters) = Tiles * ClustersPerTile
  <2> DEFINE n == Tiles * ClustersPerTile
  <2>1. n \in Nat \ {0}
    BY <1>1
  <2> HIDE DEF n
  <2>2. Cardinality(0 .. n - 1) = n
    BY <2>1, FS_Interval
  <2> QED
    BY <2>2 DEF n, Clusters
<1>3. Cardinality(Clusters) * CoresPerCluster \in Nat \ {0}
  BY <1>1, <1>2, Shape, Product
<1>4. Cardinality(Cores) = Cardinality(Clusters) * CoresPerCluster /\ IsFiniteSet(Cores)
  <2> DEFINE n == Cardinality(Clusters) * CoresPerCluster
  <2>1. n \in Nat \ {0}
    BY <1>3
  <2> HIDE DEF n
  <2>2. Cardinality(0 .. n - 1) = n /\ IsFiniteSet(0 .. n - 1)
    BY <2>1, FS_Interval
  <2> QED
    BY <2>2 DEF n, Cores
<1> QED
  BY <1>1, <1>2, <1>3, <1>4

(* Clusters of a tile, cores of a cluster and threads of a core, by number.*)
LEMMA Numbers ==
  ASSUME NEW n \in Nat \ {0}, NEW b \in Nat \ {0}
  PROVE  /\ \A a \in 0 .. n * b - 1 :
              /\ a \div b \in 0 .. n - 1 /\ a % b \in 0 .. b - 1
              /\ (a \div b) * b + (a % b) = a
         /\ \A q \in 0 .. n - 1, r \in 0 .. b - 1 :
              q * b + r \in 0 .. n * b - 1 /\ (q * b + r) \div b = q
<1>1. ASSUME NEW a \in 0 .. n * b - 1
      PROVE  /\ a \div b \in 0 .. n - 1 /\ a % b \in 0 .. b - 1
             /\ (a \div b) * b + (a % b) = a
  <2>1. n * b \in Nat
    OBVIOUS
  <2>2. a \in Nat
    BY <2>1
  <2> QED
    BY <2>2, Quotient, NumberedQuotient
<1>2. ASSUME NEW q \in 0 .. n - 1, NEW r \in 0 .. b - 1
      PROVE  q * b + r \in 0 .. n * b - 1 /\ (q * b + r) \div b = q
  <2>1. q \in Nat
    OBVIOUS
  <2> QED
    BY <2>1, Remainder, Numbering
<1> QED
  BY <1>1, <1>2

LEMMA ClusterNumbers ==
  /\ \A k \in Clusters : /\ TileOf(k) \in TileIds
                         /\ TileOf(k) * ClustersPerTile + (k % ClustersPerTile) = k
  /\ \A t \in TileIds, i \in 0 .. ClustersPerTile - 1 :
       t * ClustersPerTile + i \in Clusters /\ TileOf(t * ClustersPerTile + i) = t
  BY Shape, Numbers DEF Clusters, TileIds, TileOf

LEMMA CoreNumbers ==
  /\ \A c \in Cores : /\ ClusterOf(c) \in Clusters
                      /\ ClusterOf(c) * CoresPerCluster + (c % CoresPerCluster) = c
  /\ \A k \in Clusters, i \in 0 .. CoresPerCluster - 1 :
       k * CoresPerCluster + i \in Cores /\ ClusterOf(k * CoresPerCluster + i) = k
<1> DEFINE n == Cardinality(Clusters)
<1>1. n \in Nat \ {0} /\ Clusters = 0 .. n - 1 /\ Cores = 0 .. n * CoresPerCluster - 1
  <2>1. n = Tiles * ClustersPerTile /\ n \in Nat \ {0}
    BY Sizes
  <2> HIDE DEF n
  <2>2. Clusters = 0 .. n - 1
    BY <2>1 DEF Clusters
  <2>3. Cores = 0 .. n * CoresPerCluster - 1
    BY DEF Cores, n
  <2> QED
    BY <2>1, <2>2, <2>3
<1> HIDE DEF n
<1>2. CoresPerCluster \in Nat \ {0}
  BY Shape
<1>3. /\ \A a \in 0 .. n * CoresPerCluster - 1 :
           /\ a \div CoresPerCluster \in 0 .. n - 1
           /\ a % CoresPerCluster \in 0 .. CoresPerCluster - 1
           /\ (a \div CoresPerCluster) * CoresPerCluster + (a % CoresPerCluster) = a
      /\ \A q \in 0 .. n - 1, r \in 0 .. CoresPerCluster - 1 :
           /\ q * CoresPerCluster + r \in 0 .. n * CoresPerCluster - 1
           /\ (q * CoresPerCluster + r) \div CoresPerCluster = q
  BY <1>1, <1>2, Numbers, Zenon
<1>4. /\ \A c \in Cores :
           /\ c \div CoresPerCluster \in Clusters
           /\ (c \div CoresPerCluster) * CoresPerCluster + (c % CoresPerCluster) = c
      /\ \A k \in Clusters, i \in 0 .. CoresPerCluster - 1 :
           /\ k * CoresPerCluster + i \in Cores
           /\ (k * CoresPerCluster + i) \div CoresPerCluster = k
  BY <1>1, <1>3, Zenon
<1> QED
  BY <1>4 DEF ClusterOf

LEMMA ThreadNumbers ==
  /\ \A g \in Threads : /\ CoreOf(g) \in Cores
                        /\ CoreOf(g) * ThreadsPerCore + (g % ThreadsPerCore) = g
                        /\ g % ThreadsPerCore \in 0 .. ThreadsPerCore - 1
  /\ \A c \in Cores, i \in 0 .. ThreadsPerCore - 1 :
       c * ThreadsPerCore + i \in Threads /\ CoreOf(c * ThreadsPerCore + i) = c
<1> DEFINE n == Cardinality(Cores)
<1>1. n \in Nat \ {0} /\ Cores = 0 .. n - 1 /\ Threads = 0 .. n * ThreadsPerCore - 1
  <2>1. n = Cardinality(Clusters) * CoresPerCluster /\ n \in Nat \ {0}
    BY Sizes
  <2> HIDE DEF n
  <2>2. Cores = 0 .. n - 1
    BY <2>1 DEF Cores
  <2>3. Threads = 0 .. n * ThreadsPerCore - 1
    BY DEF Threads, n
  <2> QED
    BY <2>1, <2>2, <2>3
<1> HIDE DEF n
<1>2. ThreadsPerCore \in Nat \ {0}
  BY Shape
<1>3. /\ \A a \in 0 .. n * ThreadsPerCore - 1 :
           /\ a \div ThreadsPerCore \in 0 .. n - 1 /\ a % ThreadsPerCore \in 0 .. ThreadsPerCore - 1
           /\ (a \div ThreadsPerCore) * ThreadsPerCore + (a % ThreadsPerCore) = a
      /\ \A q \in 0 .. n - 1, r \in 0 .. ThreadsPerCore - 1 :
           /\ q * ThreadsPerCore + r \in 0 .. n * ThreadsPerCore - 1
           /\ (q * ThreadsPerCore + r) \div ThreadsPerCore = q
  BY <1>1, <1>2, Numbers, Zenon
<1>4. /\ \A g \in Threads : /\ g \div ThreadsPerCore \in Cores
                             /\ g % ThreadsPerCore \in 0 .. ThreadsPerCore - 1
                             /\ (g \div ThreadsPerCore) * ThreadsPerCore + (g % ThreadsPerCore) = g
      /\ \A c \in Cores, i \in 0 .. ThreadsPerCore - 1 :
           /\ c * ThreadsPerCore + i \in Threads
           /\ (c * ThreadsPerCore + i) \div ThreadsPerCore = c
  BY <1>1, <1>3, Zenon
<1> QED
  BY <1>4 DEF CoreOf

(* The tree and the cluster cache compute where the core of a thread is.   *)
LEMMA ThreadHome ==
  ASSUME NEW g \in Threads
  PROVE  /\ CoreOf(g) \in Cores /\ ClusterOf(CoreOf(g)) \in Clusters
         /\ TileOf(ClusterOf(CoreOf(g))) \in TileIds
         /\ Leaf(g) = ClusterOf(CoreOf(g))
         /\ g \div (ClustersPerTile * ThreadsPerCluster) = TileOf(ClusterOf(CoreOf(g)))
         /\ ClusterOf(CoreOf(g)) * CoresPerCluster + LocalCore(g) = CoreOf(g)
<1>1. g \in Nat /\ CoreOf(g) \in Cores
  BY ThreadNumbers, Sizes DEF Threads
<1>2. Leaf(g) = ClusterOf(CoreOf(g))
  BY <1>1, Shape, NestedQuotient DEF Leaf, ClusterOf, CoreOf, ThreadsPerCluster
<1>3. g \div (ClustersPerTile * ThreadsPerCluster) = TileOf(Leaf(g))
  BY <1>1, Shape, NestedQuotient DEF Leaf, TileOf
<1> QED
  BY <1>1, <1>2, <1>3, CoreNumbers, ClusterNumbers DEF LocalCore
-----------------------------------------------------------------------------
(***************************************************************************)
(* The network: where packets are, and what a hop does to it.              *)
(***************************************************************************)

(* The fifos are deep enough for the packets of a tile, one a core, and the*)
(* stride of thread_select reaches every thread.                           *)
TileCores(t) == {c \in Cores : TileOf(ClusterOf(c)) = t}
Sized ==
  /\ \A t \in TileIds : Cardinality(TileCores(t)) <= FifoDepth
  /\ \A a \in 0 .. ThreadsPerCore - 1 :
       0 .. ThreadsPerCore - 1
         \subseteq {(a + 1 + (i * (i + 1)) \div 2) % ThreadsPerCore :
                      i \in 0 .. ThreadsPerCore - 1}

Spots == PortIds \union FifoIds
CoreSpots == {"coreside_in", "from_ccache", "coreside_requests", "coreside_replies"}
ClusterSpots == {"leaf_in", "memside_in", "ccache_requests", "ccache_replies",
                 "memside_requests", "memside_replies"}
Served == {"memside_replies", "ccache_replies", "coreside_replies", "from_ccache"}

(* The cores whose packets may be at a spot.                               *)
Home(p) ==
  {c \in Cores : p[2] = IF p[1] \in CoreSpots THEN c
                        ELSE IF p[1] \in ClusterSpots THEN ClusterOf(c)
                        ELSE TileOf(ClusterOf(c))}

Nets == [port : [PortIds -> Threads \union {NoPacketHere}],
         fifo : [FifoIds -> Seq(Threads)], exit : BOOLEAN]

Holds(n, p, g) ==
  IF p \in PortIds THEN n.port[p] = g
  ELSE \E i \in DOMAIN n.fifo[p] : n.fifo[p][i] = g

(* Every packet of P is in one spot, and there once; nothing else is.  It  *)
(* is on its way to or from its core, and past the memory exactly when its *)
(* access was done (D).                                                    *)
Good(n, P, D) ==
  /\ n \in Nets /\ ~n.exit
  /\ \A f \in FifoIds : \A i, j \in DOMAIN n.fifo[f] :
       n.fifo[f][i] = n.fifo[f][j] => i = j
  /\ \A g \in Threads : \A p, q \in Spots : Holds(n, p, g) /\ Holds(n, q, g) => p = q
  /\ \A g \in Threads : \A p \in Spots :
       Holds(n, p, g) => /\ g \in P /\ CoreOf(g) \in Home(p)
                         /\ g \in D <=> p[1] \in Served
  /\ \A g \in P : \E p \in Spots : Holds(n, p, g)

OnePerCore(P) ==
  P \subseteq Threads /\ \A g, h \in P : CoreOf(g) = CoreOf(h) => g = h

LEMMA SpotFacts ==
  /\ PortIds \intersect FifoIds = {} /\ Nowhere \notin Spots
  /\ NoPacketHere \notin Threads
<1>1. \A p \in PortIds : p[1] \in {"request_in", "reply_in", "from_gnet", "leaf_in",
                                  "memside_in", "coreside_in", "from_ccache"}
  BY DEF PortIds
<1>2. \A p \in FifoIds : p[1] \in {"request_inbound", "request_outbound", "reply_inbound",
        "reply_outbound", "tree_inbound", "tree_outbound", "ccache_requests",
        "ccache_replies", "memside_requests", "memside_replies",
        "coreside_requests", "coreside_replies"}
  BY DEF FifoIds
<1>3. \A g \in Threads : g \in Nat
  BY Sizes DEF Threads
<1> QED
  BY <1>1, <1>2, <1>3 DEF Nowhere, Spots, NoPacketHere

(* A fifo has a place for every core whose packets pass it.                *)
LEMMA HomeFits ==
  ASSUME Sized, NEW f \in FifoIds
  PROVE  IsFiniteSet(Home(f)) /\ Cardinality(Home(f)) <= Capacity(f) /\ Capacity(f) \in Nat
<1>0. Home(f) \subseteq Cores /\ IsFiniteSet(Home(f))
  <2>1. Home(f) \subseteq Cores
    BY DEF Home
  <2> QED
    BY <2>1, Sizes, FS_Subset
<1>1. CASE f[1] \in {"coreside_requests", "coreside_replies"}
  <2>1. Home(f) \subseteq {f[2]}
    BY <1>1 DEF Home, CoreSpots
  <2>2. IsFiniteSet({f[2]}) /\ Cardinality({f[2]}) = 1
    BY FS_Singleton
  <2>3. Cardinality(Home(f)) <= 1
    BY <2>1, <2>2, FS_Subset
  <2>4. Cardinality(Home(f)) \in Nat
    BY <1>0, FS_CardinalityType
  <2> QED
    BY <1>0, <1>1, <2>3, <2>4, Shape DEF Capacity
<1>2. CASE f[1] \notin {"coreside_requests", "coreside_replies"}
  <2>1. f[1] \notin CoreSpots
    BY <1>2 DEF FifoIds, CoreSpots
  <2>2. PICK t \in TileIds : Home(f) \subseteq TileCores(t)
    <3>1. CASE f[1] \in ClusterSpots
      <4>1. f[2] \in Clusters
        BY <2>1, <3>1 DEF FifoIds, ClusterSpots
      <4>2. TileOf(f[2]) \in TileIds
        BY <4>1, ClusterNumbers
      <4> QED
        BY <2>1, <3>1, <4>2 DEF Home, TileCores
    <3>2. CASE f[1] \notin ClusterSpots
      <4>1. f[2] \in TileIds
        BY <2>1, <3>2 DEF FifoIds, ClusterSpots, CoreSpots
      <4> QED
        BY <2>1, <3>2, <4>1 DEF Home, TileCores
    <3> QED
      BY <3>1, <3>2
  <2>3. IsFiniteSet(TileCores(t))
    BY Sizes, FS_Subset DEF TileCores
  <2>4. Cardinality(Home(f)) <= Cardinality(TileCores(t))
    BY <2>2, <2>3, FS_Subset
  <2>5. Cardinality(Home(f)) \in Nat /\ Cardinality(TileCores(t)) \in Nat
    BY <1>0, <2>3, FS_CardinalityType
  <2>6. Cardinality(TileCores(t)) <= FifoDepth
    BY DEF Sized
  <2> QED
    BY <1>0, <1>2, <2>4, <2>5, <2>6, Shape DEF Capacity
<1> QED
  BY <1>1, <1>2

(* A packet that comes to a fifo finds room.                               *)
LEMMA RoomLeft ==
  ASSUME Sized, NEW n, NEW P, NEW D, Good(n, P, D), OnePerCore(P),
         NEW f \in FifoIds, NEW g \in P, CoreOf(g) \in Home(f), ~Holds(n, f, g)
  PROVE  Len(n.fifo[f]) < Capacity(f)
<1> DEFINE s == n.fifo[f]
           N == Len(s)
           h == [i \in 1 .. N + 1 |-> IF i = N + 1 THEN CoreOf(g) ELSE CoreOf(s[i])]
<1>1. s \in Seq(Threads) /\ N \in Nat /\ DOMAIN s = 1 .. N /\ f \notin PortIds /\ f \in Spots
  BY SpotFacts DEF Good, Nets, Spots
<1>2. \A i \in 1 .. N : s[i] \in Threads /\ Holds(n, f, s[i])
  BY <1>1 DEF Holds
<1>3. \A i \in 1 .. N : s[i] \in P /\ CoreOf(s[i]) \in Home(f) /\ s[i] # g
  BY <1>1, <1>2 DEF Good
<1>4. \A i, j \in 1 .. N : s[i] = s[j] => i = j
  BY <1>1 DEF Good
<1> HIDE DEF s, N
<1>5. h \in [1 .. N + 1 -> Home(f)]
  BY <1>1, <1>3
<1>6. \A i, j \in 1 .. N + 1 : h[i] = h[j] => i = j
  <2> SUFFICES ASSUME NEW i \in 1 .. N + 1, NEW j \in 1 .. N + 1, h[i] = h[j] PROVE i = j
    OBVIOUS
  <2>1. CASE i = N + 1 /\ j # N + 1
    <3>1. j \in 1 .. N
      BY <1>1, <2>1
    <3> QED
      BY <1>3, <2>1, <3>1 DEF OnePerCore
  <2>2. CASE j = N + 1 /\ i # N + 1
    <3>1. i \in 1 .. N
      BY <1>1, <2>2
    <3> QED
      BY <1>3, <2>2, <3>1 DEF OnePerCore
  <2>3. CASE i # N + 1 /\ j # N + 1
    <3>1. i \in 1 .. N /\ j \in 1 .. N
      BY <1>1, <2>3
    <3>2. s[i] = s[j]
      BY <1>3, <2>3, <3>1 DEF OnePerCore
    <3> QED
      BY <1>4, <3>1, <3>2
  <2> QED
    BY <2>1, <2>2, <2>3
<1> HIDE DEF h
<1>7. IsFiniteSet(1 .. N + 1) /\ Cardinality(1 .. N + 1) = N + 1
  BY <1>1, FS_Interval
<1>8. IsFiniteSet(Home(f)) /\ Cardinality(Home(f)) <= Capacity(f) /\ Capacity(f) \in Nat
  BY HomeFits
<1>9. N + 1 <= Cardinality(Home(f))
  <2>1. h \in Injection(1 .. N + 1, Home(f))
    BY <1>5, <1>6 DEF Injection, IsInjective
  <2> QED
    BY <2>1, <1>7, <1>8, FS_Injection
<1> QED
  BY <1>1, <1>8, <1>9, FS_CardinalityType DEF N, s
-----------------------------------------------------------------------------
HopSet == [from : Spots, to : [Threads -> Spots \union {Nowhere}], fatal : BOOLEAN]

(* A hop that takes packets only to where they may be, and not over the    *)
(* memory.                                                                 *)
Legal(x) ==
  /\ x \in HopSet
  /\ \A g \in Threads : CoreOf(g) \in Home(x.from) =>
       /\ x.to[g] \in Spots \ {x.from} /\ CoreOf(g) \in Home(x.to[g])
       /\ x.to[g][1] \in Served <=> x.from[1] \in Served

(* The place left by a packet, and the place it comes to.                  *)
LEMMA TakeFacts ==
  ASSUME NEW n \in Nets, NEW p \in Spots, NEW g, g = FrontOf(n, p), g # NoPacketHere,
         \A f \in FifoIds : \A i, j \in DOMAIN n.fifo[f] :
           n.fifo[f][i] = n.fifo[f][j] => i = j
  PROVE  /\ g \in Threads /\ Holds(n, p, g)
         /\ Take(n, p) \in Nets /\ Take(n, p).exit = n.exit
         /\ \A r \in PortIds : Take(n, p).port[r] = IF r = p THEN NoPacketHere ELSE n.port[r]
         /\ \A f \in FifoIds : Take(n, p).fifo[f] = IF f = p THEN Tail(n.fifo[f]) ELSE n.fifo[f]
         /\ \A r \in Spots \ {p} : \A h : Holds(Take(n, p), r, h) <=> Holds(n, r, h)
         /\ \A h \in Threads : Holds(Take(n, p), p, h) <=> Holds(n, p, h) /\ h # g
         /\ \A f \in FifoIds : \A i, j \in DOMAIN Take(n, p).fifo[f] :
              Take(n, p).fifo[f][i] = Take(n, p).fifo[f][j] => i = j
<1> DEFINE m == Take(n, p)
<1>1. CASE p \in PortIds
  <2>1. p \notin FifoIds /\ g = n.port[p] /\ g \in Threads
    BY <1>1, SpotFacts DEF FrontOf, Nets
  <2>2. m = [n EXCEPT !.port[p] = NoPacketHere]
    BY <1>1 DEF Take, Read
  <2>3. m \in Nets /\ m.exit = n.exit /\ m.fifo = n.fifo
    BY <1>1, <2>2 DEF Nets
  <2>4. \A r \in PortIds : m.port[r] = IF r = p THEN NoPacketHere ELSE n.port[r]
    BY <1>1, <2>2 DEF Nets
  <2> HIDE DEF m
  <2>5. \A h \in Threads : Holds(m, p, h) <=> Holds(n, p, h) /\ h # g
    BY <1>1, <2>1, <2>4, SpotFacts DEF Holds
  <2>6. \A r \in Spots \ {p} : \A h : Holds(m, r, h) <=> Holds(n, r, h)
    BY <2>3, <2>4 DEF Holds, Spots
  <2> QED
    BY <1>1, <2>1, <2>3, <2>4, <2>5, <2>6 DEF Holds, m
<1>2. CASE p \notin PortIds
  <2> DEFINE s == n.fifo[p]
  <2>1. p \in FifoIds /\ s \in Seq(Threads) /\ s # <<>> /\ g = Head(s)
    BY <1>2 DEF FrontOf, Nets, Spots
  <2>2. m = [n EXCEPT !.fifo[p] = Tail(@)]
    BY <1>2 DEF Take, Pop
  <2>3. /\ Tail(s) \in Seq(Threads) /\ Len(s) \in Nat \ {0} /\ DOMAIN s = 1 .. Len(s)
        /\ DOMAIN Tail(s) = 1 .. Len(s) - 1
        /\ \A i \in 1 .. Len(s) - 1 : Tail(s)[i] = s[i + 1]
        /\ g = s[1] /\ g \in Threads
    BY <2>1
  <2>4. m.fifo = [n.fifo EXCEPT ![p] = Tail(s)] /\ m.exit = n.exit /\ m.port = n.port
        /\ m \in [port : {n.port}, fifo : {[n.fifo EXCEPT ![p] = Tail(s)]}, exit : {n.exit}]
    BY <2>2 DEF Nets
  <2>5. [n.fifo EXCEPT ![p] = Tail(s)] \in [FifoIds -> Seq(Threads)]
    BY <2>3 DEF Nets
  <2>6. m \in Nets
    BY <2>4, <2>5 DEF Nets
  <2>7. \A f \in FifoIds : m.fifo[f] = IF f = p THEN Tail(n.fifo[f]) ELSE n.fifo[f]
    BY <2>1, <2>4 DEF Nets
  <2> HIDE DEF m
  <2>8. \A i, j \in DOMAIN s : s[i] = s[j] => i = j
    BY <2>1
  <2>9. \A i \in 1 .. Len(s) - 1 : i \in DOMAIN s /\ i + 1 \in DOMAIN s /\ i + 1 # 1
    BY <2>3
  <2> HIDE DEF s
  <2>10. \A h \in Threads : Holds(m, p, h) <=> Holds(n, p, h) /\ h # g
    <3>1. m.fifo[p] = Tail(s) /\ n.fifo[p] = s
      BY <2>1, <2>7 DEF s
    <3>2. ASSUME NEW h, NEW i \in DOMAIN s, s[i] = h, h # g
          PROVE  \E j \in DOMAIN Tail(s) : Tail(s)[j] = h
      <4>1. i # 1
        BY <2>3, <3>2
      <4>2. i \in 1 .. Len(s)
        BY <2>3
      <4>3. i - 1 \in 1 .. Len(s) - 1 /\ (i - 1) + 1 = i
        BY <2>3, <4>1, <4>2
      <4> QED
        BY <4>3, <3>2, <2>3
    <3>3. ASSUME NEW h, NEW i \in DOMAIN Tail(s), Tail(s)[i] = h
          PROVE  h # g /\ \E j \in DOMAIN s : s[j] = h
      <4>1. h = s[i + 1] /\ i + 1 \in DOMAIN s /\ i + 1 # 1 /\ 1 \in DOMAIN s
        BY <2>3, <2>9, <3>3
      <4> QED
        BY <4>1, <2>3, <2>8
    <3> QED
      BY <1>2, <3>1, <3>2, <3>3 DEF Holds
  <2>11. \A r \in Spots \ {p} : \A h : Holds(m, r, h) <=> Holds(n, r, h)
    BY <2>4, <2>7 DEF Holds, Spots
  <2>12. \A f \in FifoIds : \A i, j \in DOMAIN m.fifo[f] :
           m.fifo[f][i] = m.fifo[f][j] => i = j
    <3>1. ASSUME NEW i \in DOMAIN Tail(s), NEW j \in DOMAIN Tail(s), Tail(s)[i] = Tail(s)[j]
          PROVE  i = j
      <4>1. i + 1 \in DOMAIN s /\ j + 1 \in DOMAIN s /\ s[i + 1] = s[j + 1]
            /\ i \in Nat /\ j \in Nat
        BY <2>3, <2>9, <3>1
      <4> QED
        BY <4>1, <2>8
    <3>2. \A f \in FifoIds \ {p} : m.fifo[f] = n.fifo[f]
      BY <2>7
    <3>3. m.fifo[p] = Tail(s)
      BY <2>1, <2>7 DEF s
    <3> QED
      BY <3>1, <3>2, <3>3
  <2>13. Holds(n, p, g)
    <3>1. 1 \in DOMAIN s /\ s[1] = g
      BY <2>3
    <3> QED
      BY <1>2, <3>1 DEF Holds, s
  <2>14. \A r \in PortIds : m.port[r] = IF r = p THEN NoPacketHere ELSE n.port[r]
    BY <1>2, <2>4
  <2>15. m.exit = n.exit /\ g \in Threads
    BY <2>3, <2>4
  <2> QED
    BY <2>6, <2>7, <2>10, <2>11, <2>12, <2>13, <2>14, <2>15 DEF m
<1> QED
  BY <1>1, <1>2

LEMMA PutFacts ==
  ASSUME NEW n \in Nets, NEW q \in Spots, NEW g \in Threads, ~Holds(n, q, g),
         q \in PortIds => n.port[q] = NoPacketHere,
         q \in FifoIds => Len(n.fifo[q]) < Capacity(q),
         \A f \in FifoIds : \A i, j \in DOMAIN n.fifo[f] :
           n.fifo[f][i] = n.fifo[f][j] => i = j
  PROVE  /\ Put(n, q, g) \in Nets /\ Put(n, q, g).exit = n.exit
         /\ \A r \in PortIds \ {q} : Put(n, q, g).port[r] = n.port[r]
         /\ \A r \in Spots \ {q} : \A h : Holds(Put(n, q, g), r, h) <=> Holds(n, r, h)
         /\ \A h \in Threads : Holds(Put(n, q, g), q, h) <=> Holds(n, q, h) \/ h = g
         /\ \A f \in FifoIds : \A i, j \in DOMAIN Put(n, q, g).fifo[f] :
              Put(n, q, g).fifo[f][i] = Put(n, q, g).fifo[f][j] => i = j
<1> DEFINE m == Put(n, q, g)
<1>1. CASE q \in PortIds
  <2>1. m = [n EXCEPT !.port[q] = g]
    BY <1>1 DEF Put, Accept
  <2>2. m \in Nets /\ m.exit = n.exit /\ m.fifo = n.fifo
    BY <1>1, <2>1 DEF Nets
  <2>3. \A r \in PortIds : m.port[r] = IF r = q THEN g ELSE n.port[r]
    BY <1>1, <2>1 DEF Nets
  <2> HIDE DEF m
  <2>4. \A h \in Threads : Holds(m, q, h) <=> Holds(n, q, h) \/ h = g
    BY <1>1, <2>3, SpotFacts DEF Holds
  <2>5. \A r \in Spots \ {q} : \A h : Holds(m, r, h) <=> Holds(n, r, h)
    BY <2>2, <2>3 DEF Holds, Spots
  <2> QED
    BY <1>1, <2>2, <2>3, <2>4, <2>5 DEF m
<1>2. CASE q \notin PortIds
  <2> DEFINE s == n.fifo[q]
             t == Append(s, g)
  <2>1. q \in FifoIds /\ s \in Seq(Threads) /\ t \in Seq(Threads)
    BY <1>2 DEF Nets, Spots
  <2>2. m = [n EXCEPT !.fifo[q] = Append(@, g)]
    BY <1>2, <2>1 DEF Put, Push
  <2>3. /\ Len(s) \in Nat /\ DOMAIN s = 1 .. Len(s) /\ DOMAIN t = 1 .. Len(s) + 1
        /\ \A i \in 1 .. Len(s) : t[i] = s[i]
        /\ t[Len(s) + 1] = g
    BY <2>1
  <2>4. m.fifo = [n.fifo EXCEPT ![q] = t] /\ m.exit = n.exit /\ m.port = n.port
        /\ m \in [port : {n.port}, fifo : {[n.fifo EXCEPT ![q] = t]}, exit : {n.exit}]
    BY <2>2 DEF Nets
  <2>5. [n.fifo EXCEPT ![q] = t] \in [FifoIds -> Seq(Threads)]
    BY <2>1 DEF Nets
  <2>6. m \in Nets
    BY <2>4, <2>5 DEF Nets
  <2>7. \A f \in FifoIds : m.fifo[f] = IF f = q THEN t ELSE n.fifo[f]
    BY <2>1, <2>4 DEF Nets
  <2> HIDE DEF m
  <2>8. \A i, j \in DOMAIN s : s[i] = s[j] => i = j
    BY <2>1
  <2>9. \A i \in DOMAIN s : s[i] # g
    BY <1>2 DEF Holds
  <2>10. n.fifo[q] = s /\ m.fifo[q] = t
    BY <2>1, <2>7
  <2> HIDE DEF s, t
  <2>11. \A h \in Threads : Holds(m, q, h) <=> Holds(n, q, h) \/ h = g
    BY <1>2, <2>3, <2>10 DEF Holds
  <2>12. \A r \in Spots \ {q} : \A h : Holds(m, r, h) <=> Holds(n, r, h)
    BY <2>4, <2>7 DEF Holds, Spots
  <2>13. \A f \in FifoIds : \A i, j \in DOMAIN m.fifo[f] :
           m.fifo[f][i] = m.fifo[f][j] => i = j
    <3>1. ASSUME NEW i \in DOMAIN t, NEW j \in DOMAIN t, t[i] = t[j]
          PROVE  i = j
      BY <2>3, <2>8, <2>9, <3>1
    <3>2. \A f \in FifoIds \ {q} : m.fifo[f] = n.fifo[f]
      BY <2>7
    <3> QED
      BY <2>10, <3>1, <3>2
  <2>14. \A r \in PortIds \ {q} : m.port[r] = n.port[r]
    BY <2>4
  <2> QED
    BY <2>4, <2>6, <2>11, <2>12, <2>13, <2>14 DEF m
<1> QED
  BY <1>1, <1>2
-----------------------------------------------------------------------------
(* The front packet of a spot goes to another one that takes it.           *)
LEMMA HopFacts ==
  ASSUME Sized, NEW n, NEW P, NEW D, Good(n, P, D), OnePerCore(P),
         NEW x \in HopSet, NEW g, g = FrontOf(n, x.from), g # NoPacketHere,
         x.to[g] \in Spots \ {x.from}, CoreOf(g) \in Home(x.to[g]), ~Nack(n, x.to[g])
  PROVE  LET q == x.to[g]  m == Transfer(n, x) IN
           /\ g \in P /\ Holds(n, x.from, g)
           /\ Good(m, P, IF q[1] \in Served THEN D \union {g} ELSE D \ {g})
           /\ \A r \in PortIds \ {q} :
                m.port[r] = IF r = x.from THEN NoPacketHere ELSE n.port[r]
<1> DEFINE p == x.from
           q == x.to[g]
           t == Take(n, p)
           m == Put(t, q, g)
           E == IF q[1] \in Served THEN D \union {g} ELSE D \ {g}
<1>0. /\ n \in Nets /\ ~n.exit /\ p \in Spots
      /\ \A f \in FifoIds : \A i, j \in DOMAIN n.fifo[f] :
           n.fifo[f][i] = n.fifo[f][j] => i = j
  BY DEF Good, HopSet
<1>1. Transfer(n, x) = m
  BY <1>0 DEF Transfer
<1>2. q \in Spots /\ q # p
  OBVIOUS
<1> HIDE DEF p, q
<1>3. /\ g \in Threads /\ Holds(n, p, g)
      /\ t \in Nets /\ t.exit = n.exit
      /\ \A r \in PortIds : t.port[r] = IF r = p THEN NoPacketHere ELSE n.port[r]
      /\ \A f \in FifoIds : t.fifo[f] = IF f = p THEN Tail(n.fifo[f]) ELSE n.fifo[f]
      /\ \A r \in Spots \ {p} : \A h : Holds(t, r, h) <=> Holds(n, r, h)
      /\ \A h \in Threads : Holds(t, p, h) <=> Holds(n, p, h) /\ h # g
      /\ \A f \in FifoIds : \A i, j \in DOMAIN t.fifo[f] :
           t.fifo[f][i] = t.fifo[f][j] => i = j
  <2>1. g = FrontOf(n, p)
    BY DEF p
  <2> QED
    BY <1>0, <2>1, TakeFacts
<1>4. g \in P /\ ~Holds(n, q, g) /\ ~Holds(t, q, g)
  BY <1>0, <1>2, <1>3 DEF Good
<1>5. q \in PortIds => t.port[q] = NoPacketHere
  BY <1>2, <1>3 DEF Nack, Ready, q
<1>6. q \in FifoIds => Len(t.fifo[q]) < Capacity(q)
  <2> SUFFICES ASSUME q \in FifoIds PROVE Len(t.fifo[q]) < Capacity(q)
    OBVIOUS
  <2>1. CoreOf(g) \in Home(q)
    BY DEF q
  <2>2. t.fifo[q] = n.fifo[q]
    BY <1>2, <1>3
  <2> QED
    BY <1>4, <2>1, <2>2, RoomLeft
<1> HIDE DEF t
<1>7. /\ m \in Nets /\ m.exit = t.exit
      /\ \A r \in PortIds \ {q} : m.port[r] = t.port[r]
      /\ \A r \in Spots \ {q} : \A h : Holds(m, r, h) <=> Holds(t, r, h)
      /\ \A h \in Threads : Holds(m, q, h) <=> Holds(t, q, h) \/ h = g
      /\ \A f \in FifoIds : \A i, j \in DOMAIN m.fifo[f] :
           m.fifo[f][i] = m.fifo[f][j] => i = j
  BY <1>2, <1>3, <1>4, <1>5, <1>6, PutFacts
<1> HIDE DEF m
<1>8. \A h \in Threads, s \in Spots :
        Holds(m, s, h) <=> IF h = g THEN s = q ELSE Holds(n, s, h)
  <2> SUFFICES ASSUME NEW h \in Threads, NEW s \in Spots
               PROVE  Holds(m, s, h) <=> IF h = g THEN s = q ELSE Holds(n, s, h)
    OBVIOUS
  <2>1. CASE s = q
    BY <1>2, <1>3, <1>7, <2>1
  <2>2. CASE s = p
    BY <1>2, <1>3, <1>7, <2>2
  <2>3. CASE s \notin {p, q}
    <3>1. Holds(m, s, h) <=> Holds(n, s, h)
      BY <1>3, <1>7, <2>3
    <3>2. ~Holds(n, s, g)
      BY <1>0, <1>3, <2>3 DEF Good
    <3> QED
      BY <3>1, <3>2, <2>3
  <2> QED
    BY <2>1, <2>2, <2>3
<1>9. Good(m, P, E)
  <2>1. m \in Nets /\ ~m.exit
    BY <1>0, <1>3, <1>7
  <2>2. \A h \in Threads : \A s, r \in Spots : Holds(m, s, h) /\ Holds(m, r, h) => s = r
    BY <1>8 DEF Good
  <2>3. ASSUME NEW h \in Threads, NEW s \in Spots, Holds(m, s, h)
        PROVE  h \in P /\ CoreOf(h) \in Home(s) /\ (h \in E <=> s[1] \in Served)
    <3>1. CASE h = g
      <4>1. s = q
        BY <1>8, <2>3, <3>1
      <4>2. CoreOf(g) \in Home(q)
        BY DEF q
      <4> QED
        BY <4>1, <4>2, <3>1, <1>4
    <3>2. CASE h # g
      <4>1. Holds(n, s, h)
        BY <1>8, <2>3, <3>2
      <4> QED
        BY <4>1, <3>2 DEF Good
    <3> QED
      BY <3>1, <3>2
  <2>4. ASSUME NEW h \in P PROVE \E s \in Spots : Holds(m, s, h)
    <3>1. h \in Threads
      BY DEF OnePerCore
    <3>2. PICK s \in Spots : Holds(n, s, h)
      BY DEF Good
    <3> QED
      BY <1>2, <1>8, <3>1, <3>2
  <2> HIDE DEF E
  <2> QED
    BY <2>1, <2>2, <2>3, <2>4, <1>7 DEF Good
<1>10. \A r \in PortIds \ {q} : m.port[r] = IF r = p THEN NoPacketHere ELSE n.port[r]
  BY <1>3, <1>7
<1> QED
  BY <1>1, <1>3, <1>4, <1>9, <1>10 DEF p, q, E, m

(* The ports that a NACK from would be fatal, and those of them in use.    *)
Strict == {r \in PortIds : r[1] \in {"request_in", "memside_in"}}
Busy(n) == {r \in Strict : ~Ready(n, r)}
Ends(x) == {x.to[g] : g \in Threads}

(* What a hop leaves of B, a set of busy ports.                            *)
Left(B, x) == (IF Ends(x) \subseteq FifoIds THEN B \ {x.from} ELSE B)
                \union (Ends(x) \intersect Strict)

LEMMA TransferFacts ==
  ASSUME Sized, NEW n, NEW P, NEW D, Good(n, P, D), OnePerCore(P),
         NEW x, Legal(x), NEW B, Busy(n) \subseteq B,
         x.fatal => Ends(x) \intersect PortIds \subseteq Strict \ B
  PROVE  /\ Good(Transfer(n, x), P, D) /\ Busy(Transfer(n, x)) \subseteq Left(B, x)
         /\ \A r \in PortIds \ (Ends(x) \union {x.from}) : Transfer(n, x).port[r] = n.port[r]
<1> DEFINE g == FrontOf(n, x.from)
           m == Transfer(n, x)
<1>0. ~n.exit /\ n \in Nets /\ x \in HopSet /\ x.from \in Spots /\ x.fatal \in BOOLEAN
  BY DEF Good, Legal, HopSet
<1>1. CASE g = NoPacketHere
  <2>1. m = n
    BY <1>1 DEF Transfer
  <2>2. x.from \in PortIds => Ready(n, x.from)
    BY <1>1 DEF FrontOf, Ready
  <2>3. x.from \notin Busy(n)
    BY <2>2 DEF Busy, Strict
  <2> QED
    BY <2>1, <2>3 DEF Left
<1>2. CASE g # NoPacketHere
  <2>1. g \in Threads /\ Holds(n, x.from, g)
    BY <1>0, <1>2, TakeFacts DEF Good
  <2>2. CoreOf(g) \in Home(x.from)
    BY <1>0, <2>1 DEF Good
  <2>3. /\ x.to[g] \in Spots \ {x.from} /\ CoreOf(g) \in Home(x.to[g])
        /\ x.to[g][1] \in Served <=> x.from[1] \in Served
        /\ x.to[g] \in Ends(x)
    BY <2>1, <2>2 DEF Legal, Ends
  <2>4. CASE ~Nack(n, x.to[g])
    <3> DEFINE q == x.to[g]
               E == IF q[1] \in Served THEN D \union {g} ELSE D \ {g}
    <3>1. /\ Good(m, P, E)
          /\ \A r \in PortIds \ {q} : m.port[r] = IF r = x.from THEN NoPacketHere ELSE n.port[r]
      BY <1>0, <1>2, <2>3, <2>4, HopFacts
    <3>2. g \in D <=> x.from[1] \in Served
      BY <1>0, <2>1 DEF Good
    <3>3. E = D
      BY <2>3, <3>2
    <3>4. ASSUME NEW r \in Busy(m) PROVE r \in Left(B, x)
      <4>1. r \in Strict /\ r \in PortIds /\ m.port[r] # NoPacketHere
        BY DEF Busy, Strict, Ready
      <4>2. CASE r = q
        BY <4>1, <4>2, <2>3 DEF Left
      <4>3. CASE r # q
        <5>1. r # x.from /\ n.port[r] # NoPacketHere
          BY <3>1, <4>1, <4>3
        <5>2. r \in Busy(n)
          BY <4>1, <5>1 DEF Busy, Ready
        <5> QED
          BY <5>1, <5>2 DEF Left
      <4> QED
        BY <4>2, <4>3
    <3>5. \A r \in PortIds \ (Ends(x) \union {x.from}) : m.port[r] = n.port[r]
      BY <2>3, <3>1
    <3> HIDE DEF m, E
    <3> QED
      BY <3>1, <3>3, <3>4, <3>5 DEF m
  <2>5. CASE Nack(n, x.to[g])
    <3>1. x.to[g] \in PortIds /\ ~Ready(n, x.to[g])
      BY <2>3, <2>5, SpotFacts DEF Nack
    <3>2. ~x.fatal
      BY <2>3, <3>1 DEF Busy
    <3>3. m = [n EXCEPT !.exit = FALSE]
      BY <1>0, <1>2, <2>5, <3>2 DEF Transfer
    <3>4. m = n
      BY <3>3, <1>0 DEF Nets
    <3>5. ~(Ends(x) \subseteq FifoIds)
      BY <2>3, <3>1, SpotFacts
    <3> QED
      BY <3>4, <3>5 DEF Left
  <2> QED
    BY <2>4, <2>5
<1> QED
  BY <1>1, <1>2

(* A hop keeps the types, whatever the state.                              *)
LEMMA TransferTypes ==
  ASSUME NEW n \in Nets, NEW x \in HopSet
  PROVE  Transfer(n, x) \in Nets
<1> DEFINE g == FrontOf(n, x.from)
           q == x.to[g]
           m == Take(n, x.from)
<1>0. n.fifo \in [FifoIds -> Seq(Threads)] /\ n.port \in [PortIds -> Threads \union {NoPacketHere}]
      /\ x.from \in Spots /\ x.fatal \in BOOLEAN
      /\ n = [port |-> n.port, fifo |-> n.fifo, exit |-> n.exit]
  BY DEF Nets, HopSet
<1>1. CASE n.exit \/ g = NoPacketHere
  BY <1>1 DEF Transfer
<1>2. CASE ~(n.exit \/ g = NoPacketHere) /\ Nack(n, q)
  <2>1. Transfer(n, x) = [n EXCEPT !.exit = x.fatal]
    BY <1>2 DEF Transfer
  <2> QED
    BY <1>0, <2>1 DEF Nets
<1>3. CASE ~(n.exit \/ g = NoPacketHere) /\ ~Nack(n, q)
  <2>1. Transfer(n, x) = Put(m, q, g)
    BY <1>3 DEF Transfer
  <2>2. g \in Threads /\ m \in Nets
    <3>1. CASE x.from \in PortIds
      <4>1. g \in Threads /\ m = [n EXCEPT !.port[x.from] = NoPacketHere]
        BY <1>0, <1>3, <3>1 DEF FrontOf, Take, Read
      <4> QED
        BY <4>1, <3>1 DEF Nets
    <3>2. CASE x.from \notin PortIds
      <4>1. x.from \in FifoIds
        BY <1>0, <3>2 DEF Spots
      <4> DEFINE s == n.fifo[x.from]
      <4>2. s # <<>> /\ g = Head(s) /\ s \in Seq(Threads)
        BY <1>0, <1>3, <3>2, <4>1 DEF FrontOf
      <4>3. g \in Threads /\ Tail(s) \in Seq(Threads)
        BY <4>2
      <4>4. m = [n EXCEPT !.fifo[x.from] = Tail(s)]
        BY <3>2 DEF Take, Pop
      <4> HIDE DEF s
      <4> QED
        BY <4>1, <4>3, <4>4 DEF Nets
    <3> QED
      BY <3>1, <3>2
  <2>3. q \in Spots
    BY <1>3, <2>2 DEF HopSet, Nack
  <2> HIDE DEF m, g, q
  <2>4. CASE q \in PortIds
    <3>1. Put(m, q, g) = [m EXCEPT !.port[q] = g]
      BY <2>4 DEF Put, Accept
    <3>2. [m EXCEPT !.port[q] = g] \in Nets
      BY <2>2, <2>4 DEF Nets
    <3> QED
      BY <2>1, <3>1, <3>2
  <2>5. CASE q \notin PortIds
    <3>1. q \in FifoIds /\ m.fifo[q] \in Seq(Threads)
      BY <2>2, <2>3, <2>5 DEF Spots, Nets
    <3>2. Append(m.fifo[q], g) \in Seq(Threads)
      BY <2>2, <3>1
    <3>3. Put(m, q, g) \in {m, [m EXCEPT !.fifo[q] = Append(m.fifo[q], g)]}
      BY <2>5 DEF Put, Push
    <3>4. [m EXCEPT !.fifo[q] = Append(m.fifo[q], g)] \in Nets
      BY <2>2, <3>1, <3>2 DEF Nets
    <3> QED
      BY <2>1, <2>2, <3>3, <3>4
  <2> QED
    BY <2>4, <2>5
<1> QED
  BY <1>1, <1>2, <1>3

(* The handlers of a PerCycle, one hop after the other.  B says for every  *)
(* hop which of the strict ports may be in use before it; R are ports that *)
(* no hop touches.                                                         *)
Planned(n, hops, B, R) ==
  /\ hops \in Seq(HopSet) /\ R \subseteq PortIds /\ Busy(n) \subseteq B[0]
  /\ \A i \in 1 .. Len(hops) :
       /\ Legal(hops[i]) /\ Left(B[i - 1], hops[i]) \subseteq B[i]
       /\ hops[i].fatal => Ends(hops[i]) \intersect PortIds \subseteq Strict \ B[i - 1]
       /\ R \intersect (Ends(hops[i]) \union {hops[i].from}) = {}

LEMMA RouteFacts ==
  ASSUME Sized, NEW n, NEW P, NEW D, Good(n, P, D), OnePerCore(P),
         NEW hops, NEW B, NEW R, Planned(n, hops, B, R)
  PROVE  /\ Good(Route(n, hops), P, D) /\ Busy(Route(n, hops)) \subseteq B[Len(hops)]
         /\ \A r \in R : Route(n, hops).port[r] = n.port[r]
<1> DEFINE N == Len(hops)
           f == [p \in Nets \X (1 .. N) |-> Transfer(p[1], hops[p[2]])]
           After == CHOOSE a : a = [i \in 0 .. N |->
                                      IF i = 0 THEN n ELSE Transfer(a[i - 1], hops[i])]
           S == {i \in 0 .. N : /\ Good(After[i], P, D) /\ Busy(After[i]) \subseteq B[i]
                                /\ \A r \in R : After[i].port[r] = n.port[r]}
<1>0. N \in Nat /\ n \in Nets /\ \A i \in 1 .. N : hops[i] \in HopSet
  BY DEF Good, Planned
<1>1. Route(n, hops) = After[N]
  BY DEF Route
<1> HIDE DEF N
<1>2. f \in [Nets \X (1 .. N) -> Nets]
  BY <1>0, TransferTypes
<1>3. \E a : a = [i \in 0 .. N |-> IF i = 0 THEN n ELSE Transfer(a[i - 1], hops[i])]
  <2>1. PICK a : Iterates(a, Nets, n, N, f)
    <3> HIDE DEF f
    <3> QED
      BY <1>0, <1>2, Iterated
  <2>2. /\ a \in [0 .. N -> Nets] /\ a[0] = n
        /\ \A i \in 1 .. N : a[i] = f[<<a[i - 1], i>>]
    BY <2>1 DEF Iterates
  <2>3. ASSUME NEW i \in 0 .. N, i # 0
        PROVE  a[i] = Transfer(a[i - 1], hops[i])
    <3>1. i \in 1 .. N /\ i - 1 \in 0 .. N
      BY <1>0, <2>3
    <3>2. a[i - 1] \in Nets
      BY <2>2, <3>1
    <3> QED
      BY <2>2, <3>1, <3>2
  <2> HIDE DEF f
  <2>4. a = [i \in 0 .. N |-> IF i = 0 THEN n ELSE Transfer(a[i - 1], hops[i])]
    BY <2>2, <2>3
  <2> QED
    BY <2>4
<1>4. After = [i \in 0 .. N |-> IF i = 0 THEN n ELSE Transfer(After[i - 1], hops[i])]
  BY <1>3
<1> HIDE DEF After
<1>5. 0 \in S
  BY <1>0, <1>4 DEF Planned
<1>6. ASSUME NEW i \in S, i \in 0 .. N - 1
      PROVE  i + 1 \in S
  <2> DEFINE x == hops[i + 1]
  <2>1. i + 1 \in 1 .. N /\ i + 1 \in 0 .. N /\ (i + 1) - 1 = i /\ i + 1 # 0
    BY <1>0, <1>6
  <2>2. After[i + 1] = Transfer(After[i], x)
    BY <1>4, <2>1
  <2>3. /\ Legal(x) /\ Left(B[i], x) \subseteq B[i + 1]
        /\ x.fatal => Ends(x) \intersect PortIds \subseteq Strict \ B[i]
        /\ R \intersect (Ends(x) \union {x.from}) = {}
    BY <2>1 DEF N, Planned
  <2> HIDE DEF x
  <2>4. /\ Good(After[i], P, D) /\ Busy(After[i]) \subseteq B[i]
        /\ \A r \in R : After[i].port[r] = n.port[r]
    OBVIOUS
  <2>5. /\ Good(Transfer(After[i], x), P, D)
        /\ Busy(Transfer(After[i], x)) \subseteq Left(B[i], x)
        /\ \A r \in PortIds \ (Ends(x) \union {x.from}) :
             Transfer(After[i], x).port[r] = After[i].port[r]
    BY <2>3, <2>4, TransferFacts
  <2>6. \A r \in R : Transfer(After[i], x).port[r] = n.port[r]
    BY <2>3, <2>4, <2>5 DEF Planned
  <2> QED
    BY <2>1, <2>2, <2>3, <2>5, <2>6
<1>7. N \in S
  <2> HIDE DEF S
  <2> QED
    BY <1>0, <1>5, <1>6, UpTo
<1> QED
  BY <1>1, <1>7 DEF S, N
-----------------------------------------------------------------------------
(***************************************************************************)
(* The hops of the components.                                             *)
(***************************************************************************)

(* Hops that go to no strict port.                                         *)
CalmHops ==
  {x \in HopSet : /\ Legal(x) /\ Ends(x) \intersect Strict = {}
                  /\ x.fatal => Ends(x) \subseteq FifoIds}

IsJoin(S, s, a, b) ==
  /\ s \in Seq(S) /\ Len(s) = Len(a) + Len(b)
  /\ \A i \in 1 .. Len(a) : s[i] = a[i]
  /\ \A i \in 1 .. Len(b) : s[Len(a) + i] = b[i]

LEMMA Joined ==
  ASSUME NEW S, NEW a \in Seq(S), NEW b \in Seq(S)
  PROVE  IsJoin(S, a \o b, a, b)
  BY DEF IsJoin

LEMMA CalmRoute ==
  ASSUME Sized, NEW n, NEW P, NEW D, Good(n, P, D), OnePerCore(P),
         NEW hops \in Seq(CalmHops), NEW R \in SUBSET PortIds,
         \A i \in 1 .. Len(hops) : R \intersect (Ends(hops[i]) \union {hops[i].from}) = {}
  PROVE  /\ Good(Route(n, hops), P, D) /\ Busy(Route(n, hops)) \subseteq Busy(n)
         /\ \A r \in R : Route(n, hops).port[r] = n.port[r]
<1> DEFINE B == [i \in 0 .. Len(hops) |-> Busy(n)]
<1>1. hops \in Seq(HopSet) /\ Len(hops) \in Nat /\ \A i \in 1 .. Len(hops) : hops[i] \in CalmHops
  BY DEF CalmHops
<1>2. ASSUME NEW i \in 1 .. Len(hops)
      PROVE  /\ Legal(hops[i]) /\ Left(B[i - 1], hops[i]) \subseteq B[i]
             /\ hops[i].fatal => Ends(hops[i]) \intersect PortIds \subseteq Strict \ B[i - 1]
  <2>1. i \in 0 .. Len(hops) /\ i - 1 \in 0 .. Len(hops)
    BY <1>1
  <2>2. B[i] = Busy(n) /\ B[i - 1] = Busy(n)
    BY <2>1
  <2>3. hops[i] \in CalmHops
    BY <1>1
  <2> HIDE DEF B
  <2> QED
    BY <2>2, <2>3, SpotFacts DEF CalmHops, Left
<1>3. Busy(n) \subseteq B[0] /\ B[Len(hops)] = Busy(n)
  BY <1>1
<1> HIDE DEF B
<1>4. Planned(n, hops, B, R)
  BY <1>1, <1>2, <1>3 DEF Planned
<1> QED
  BY <1>3, <1>4, RouteFacts

LEMMA HopLegal ==
  ASSUME NEW p \in Spots, NEW q \in Spots \ {p}, Home(p) \subseteq Home(q),
         q[1] \in Served <=> p[1] \in Served
  PROVE  /\ Legal(Hop(p, q)) /\ ~Hop(p, q).fatal
         /\ Ends(Hop(p, q)) \subseteq {q} /\ Hop(p, q).from = p
         /\ Legal(FatalHop(p, q))
         /\ Ends(FatalHop(p, q)) \subseteq {q} /\ FatalHop(p, q).from = p
<1> DEFINE x == Hop(p, q)
           y == FatalHop(p, q)
<1>1. /\ x.from = p /\ x.fatal = FALSE /\ x.to = [g \in Threads |-> q] /\ x \in HopSet
  BY DEF Hop, HopSet
<1>2. /\ y.from = p /\ y.to = [g \in Threads |-> q] /\ y \in HopSet
  BY DEF Hop, FatalHop, HopSet
<1> HIDE DEF x, y
<1>3. Legal(x) /\ Ends(x) \subseteq {q}
  BY <1>1 DEF Legal, Ends
<1>4. Legal(y) /\ Ends(y) \subseteq {q}
  BY <1>2 DEF Legal, Ends
<1> QED
  BY <1>1, <1>2, <1>3, <1>4 DEF x, y

LEMMA CalmHop ==
  ASSUME NEW p \in Spots, NEW q \in Spots \ {p}, Home(p) \subseteq Home(q),
         q[1] \in Served <=> p[1] \in Served, q \notin Strict
  PROVE  Hop(p, q) \in CalmHops
  BY HopLegal DEF CalmHops, Legal

LEMMA Spot ==
  /\ \A i \in TileIds : \A s \in {"request_in", "reply_in", "from_gnet"} : <<s, i>> \in PortIds
  /\ \A i \in TileIds : \A s \in {"request_inbound", "request_outbound", "reply_inbound",
       "reply_outbound", "tree_inbound", "tree_outbound"} : <<s, i>> \in FifoIds
  /\ \A i \in Clusters : \A s \in {"leaf_in", "memside_in"} : <<s, i>> \in PortIds
  /\ \A i \in Clusters : \A s \in {"ccache_requests", "ccache_replies", "memside_requests",
       "memside_replies"} : <<s, i>> \in FifoIds
  /\ \A i \in Cores : \A s \in {"coreside_in", "from_ccache"} : <<s, i>> \in PortIds
  /\ \A i \in Cores : \A s \in {"coreside_requests", "coreside_replies"} : <<s, i>> \in FifoIds
  BY DEF PortIds, FifoIds

(* A cluster's spots pass the packets of its cores, a tile's those of its  *)
(* clusters.                                                               *)
TileSpots == {"request_in", "reply_in", "from_gnet", "request_inbound", "request_outbound",
              "reply_inbound", "reply_outbound", "tree_inbound", "tree_outbound"}

LEMMA Homes ==
  /\ \A c \in Cores : \A s \in CoreSpots : Home(<<s, c>>) = {c}
  /\ \A k \in Clusters : \A s \in ClusterSpots : Home(<<s, k>>) = CoresOf(k)
  /\ \A t \in TileIds : \A s \in TileSpots : Home(<<s, t>>) = TileCores(t)
<1>1. \A c \in Cores : \A s \in CoreSpots : Home(<<s, c>>) = {c}
  BY DEF Home
<1>2. \A k \in Clusters : \A s \in ClusterSpots : Home(<<s, k>>) = CoresOf(k)
  BY DEF Home, CoresOf, ClusterSpots, CoreSpots
<1>3. \A t \in TileIds : \A s \in TileSpots : Home(<<s, t>>) = TileCores(t)
  BY DEF Home, TileCores, TileSpots, ClusterSpots, CoreSpots
<1> QED
  BY <1>1, <1>2, <1>3

(* A hop from one spot of a tile to another.                               *)
LEMMA CrossBarHop ==
  ASSUME NEW i \in TileIds, NEW a \in TileSpots, NEW b \in TileSpots \ {a, "request_in"}
  PROVE  Hop(<<a, i>>, <<b, i>>) \in CalmHops
<1>1. <<a, i>> \in Spots /\ <<b, i>> \in Spots
  BY Spot DEF TileSpots, Spots
<1>2. Home(<<a, i>>) = Home(<<b, i>>)
  BY Homes
<1>3. a \notin Served /\ b \notin Served
  BY DEF TileSpots, Served
<1>4. <<b, i>> \notin Strict
  BY DEF Strict, TileSpots
<1> QED
  BY <1>1, <1>2, <1>3, <1>4, CalmHop

LEMMA OverTilesFacts ==
  ASSUME NEW a \in TileSpots, NEW b \in TileSpots \ {a, "request_in"}
  PROVE  [i \in 1 .. Tiles |-> Hop(<<a, i - 1>>, <<b, i - 1>>)] \in Seq(CalmHops)
<1>1. \A i \in 1 .. Tiles : i - 1 \in TileIds
  BY Shape DEF TileIds
<1>2. \A i \in 1 .. Tiles : Hop(<<a, i - 1>>, <<b, i - 1>>) \in CalmHops
  BY <1>1, CrossBarHop
<1> QED
  BY <1>2, Shape

LEMMA ReplyRoute ==
  ASSUME Sized, NEW n, NEW P, NEW D, Good(n, P, D), OnePerCore(P)
  PROVE  Good(Route(n, ReplyHops), P, D) /\ Busy(Route(n, ReplyHops)) \subseteq Busy(n)
<1> DEFINE hops(a, b) == [i \in 1 .. Tiles |-> Hop(<<a, i - 1>>, <<b, i - 1>>)]
<1>1. ReplyHops = hops("reply_outbound", "from_gnet") \o hops("reply_inbound", "reply_outbound")
                    \o hops("reply_in", "reply_inbound")
  BY DEF ReplyHops, CrossBarHops, OverTiles
<1>2. /\ hops("reply_outbound", "from_gnet") \in Seq(CalmHops)
      /\ hops("reply_inbound", "reply_outbound") \in Seq(CalmHops)
      /\ hops("reply_in", "reply_inbound") \in Seq(CalmHops)
  BY OverTilesFacts DEF TileSpots
<1> HIDE DEF hops
<1>3. ReplyHops \in Seq(CalmHops)
  BY <1>1, <1>2
<1>4. {} \in SUBSET PortIds
  OBVIOUS
<1> QED
  BY <1>3, <1>4, CalmRoute

RequestIns == {<<"request_in", t>> : t \in TileIds}
LEMMA RequestRoute ==
  ASSUME Sized, NEW n, NEW P, NEW D, Good(n, P, D), OnePerCore(P)
  PROVE  /\ Good(Route(n, RequestHops), P, D)
         /\ Busy(Route(n, RequestHops)) \subseteq Busy(n) \ RequestIns
<1> DEFINE hops(a, b) == [i \in 1 .. Tiles |-> Hop(<<a, i - 1>>, <<b, i - 1>>)]
           one == hops("request_outbound", "reply_in")
           two == hops("request_inbound", "request_outbound")
           three == hops("request_in", "request_inbound")
           B == [i \in 0 .. 3 * Tiles |->
                  {r \in Busy(n) : \A j \in 1 .. i - 2 * Tiles : r # <<"request_in", j - 1>>}]
<1>1. RequestHops = one \o two \o three
  BY DEF RequestHops, CrossBarHops, OverTiles
<1>2. one \in Seq(CalmHops) /\ two \in Seq(CalmHops) /\ three \in Seq(CalmHops)
  BY OverTilesFacts DEF TileSpots
<1>3. Len(one) = Tiles /\ Len(two) = Tiles /\ Len(three) = Tiles /\ Tiles \in Nat \ {0}
  BY Shape
<1>4. \A j \in 1 .. Tiles : three[j] = Hop(<<"request_in", j - 1>>, <<"request_inbound", j - 1>>)
  OBVIOUS
<1> HIDE DEF one, two, three
<1>5. /\ RequestHops \in Seq(CalmHops) /\ Len(RequestHops) = 3 * Tiles
      /\ \A i \in 1 .. 3 * Tiles : i > 2 * Tiles => RequestHops[i] = three[i - 2 * Tiles]
  <2> DEFINE pre == one \o two
  <2>1. /\ pre \in Seq(CalmHops) /\ Len(pre) = 2 * Tiles
    BY <1>2, <1>3
  <2> HIDE DEF pre
  <2>2. /\ pre \o three \in Seq(CalmHops) /\ Len(pre \o three) = 3 * Tiles
        /\ \A i \in 1 .. 3 * Tiles : i > 2 * Tiles => (pre \o three)[i] = three[i - 2 * Tiles]
    <3>1. /\ pre \o three \in Seq(CalmHops) /\ Len(pre \o three) = Len(pre) + Len(three)
          /\ \A j \in 1 .. Len(three) : (pre \o three)[Len(pre) + j] = three[j]
      BY <1>2, <2>1, Joined DEF IsJoin
    <3>2. ASSUME NEW i \in 1 .. 3 * Tiles, i > 2 * Tiles
          PROVE  (pre \o three)[i] = three[i - 2 * Tiles]
      <4>1. i - 2 * Tiles \in 1 .. Tiles /\ 2 * Tiles + (i - 2 * Tiles) = i
        BY <1>3, <3>2
      <4> QED
        BY <1>3, <2>1, <3>1, <4>1
    <3> QED
      BY <1>3, <2>1, <3>1, <3>2
  <2> QED
    BY <1>1, <2>2 DEF pre
<1>6. \A i \in 1 .. 3 * Tiles : RequestHops[i] \in CalmHops
  BY <1>5
<1>7. ASSUME NEW i \in 1 .. 3 * Tiles
      PROVE  Left(B[i - 1], RequestHops[i]) \subseteq B[i]
  <2> DEFINE x == RequestHops[i]
             j == i - 2 * Tiles
  <2>1. i \in 0 .. 3 * Tiles /\ i - 1 \in 0 .. 3 * Tiles
    BY <1>3
  <2>2. Ends(x) \intersect Strict = {}
    BY <1>6 DEF CalmHops
  <2>3. CASE i <= 2 * Tiles
    <3>1. B[i - 1] = Busy(n) /\ B[i] = Busy(n)
      BY <1>3, <2>1, <2>3
    <3> HIDE DEF B, x
    <3> QED
      BY <2>2, <3>1 DEF Left, x
  <2>4. CASE i > 2 * Tiles
    <3>1. j \in 1 .. Tiles /\ x = Hop(<<"request_in", j - 1>>, <<"request_inbound", j - 1>>)
      BY <1>3, <1>4, <1>5, <2>4
    <3>2. x.from = <<"request_in", j - 1>> /\ Ends(x) \subseteq {<<"request_inbound", j - 1>>}
      BY <3>1 DEF Hop, Ends
    <3>3. j - 1 \in TileIds
      BY <3>1, Shape DEF TileIds
    <3>4. Ends(x) \subseteq FifoIds
      BY <3>2, <3>3, Spot
    <3>5. Left(B[i - 1], x) = B[i - 1] \ {<<"request_in", j - 1>>}
      BY <2>2, <3>2, <3>4 DEF Left
    <3>6. ASSUME NEW r \in B[i - 1] \ {<<"request_in", j - 1>>} PROVE r \in B[i]
      <4>1. /\ r \in Busy(n)
            /\ \A h \in 1 .. (i - 1) - 2 * Tiles : r # <<"request_in", h - 1>>
        BY <2>1, <3>6
      <4>2. \A h \in 1 .. j : h = j \/ h \in 1 .. (i - 1) - 2 * Tiles
        BY <1>3, <2>4
      <4> QED
        BY <2>1, <4>1, <4>2
    <3> QED
      BY <3>5, <3>6
  <2>5. i <= 2 * Tiles \/ i > 2 * Tiles
    BY <1>3
  <2> HIDE DEF B, x, j
  <2> QED
    BY <2>3, <2>4, <2>5 DEF x
<1>8. ASSUME NEW i \in 1 .. 3 * Tiles, RequestHops[i].fatal
      PROVE  Ends(RequestHops[i]) \intersect PortIds \subseteq Strict \ B[i - 1]
  BY <1>6, <1>8, SpotFacts DEF CalmHops
<1>9. Busy(n) \subseteq B[0]
  BY <1>3
<1>10. ASSUME NEW r \in B[3 * Tiles] PROVE r \in Busy(n) \ RequestIns
  <2>1. /\ r \in Busy(n)
        /\ \A j \in 1 .. 3 * Tiles - 2 * Tiles : r # <<"request_in", j - 1>>
    BY <1>3, <1>10
  <2>2. ASSUME NEW t \in TileIds PROVE r # <<"request_in", t>>
    <3>1. t + 1 \in 1 .. 3 * Tiles - 2 * Tiles /\ (t + 1) - 1 = t
      BY <1>3 DEF TileIds
    <3> QED
      BY <2>1, <3>1
  <2> QED
    BY <2>1, <2>2 DEF RequestIns
<1> HIDE DEF B
<1>11. RequestHops \in Seq(HopSet) /\ \A i \in 1 .. 3 * Tiles : Legal(RequestHops[i])
  BY <1>5, <1>6 DEF CalmHops
<1>12. Planned(n, RequestHops, B, {})
  BY <1>5, <1>7, <1>8, <1>9, <1>11 DEF Planned
<1>13. /\ Good(Route(n, RequestHops), P, D)
       /\ Busy(Route(n, RequestHops)) \subseteq B[3 * Tiles]
  BY <1>5, <1>12, RouteFacts
<1> QED
  BY <1>10, <1>13
-----------------------------------------------------------------------------
(* The tree of a tile: nothing may be in the ports it offers packets to.   *)
TileIns(t) == {<<"memside_in", k>> : k \in ClustersOf(t)}
TreePorts(t) == TileIns(t) \union {<<"request_in", t>>}

LEMMA TreeRoute ==
  ASSUME Sized, NEW n, NEW P, NEW D, Good(n, P, D), OnePerCore(P),
         NEW t \in TileIds, Busy(n) \intersect TreePorts(t) = {}
  PROVE  /\ Good(Route(n, TreeHops(t)), P, D)
         /\ Busy(Route(n, TreeHops(t))) \subseteq Busy(n) \union TreePorts(t)
<1> DEFINE up == <<"tree_inbound", t>>
           down == <<"tree_outbound", t>>
           route == [g \in Threads |->
             IF g \div (ClustersPerTile * ThreadsPerCluster) # t THEN Nowhere
             ELSE <<"memside_in", t * ClustersPerTile + (Leaf(g) % ClustersPerTile)>>]
           x == RoutedHop(down, route)
           y == Hop(<<"from_gnet", t>>, down)
           z == FatalHop(up, <<"request_in", t>>)
           leaves == [i \in 1 .. ClustersPerTile |->
                        Hop(<<"leaf_in", t * ClustersPerTile + i - 1>>, up)]
           hops == TreeHops(t)
           B == [i \in 0 .. Len(hops) |->
                   IF i = 0 THEN Busy(n)
                   ELSE IF i <= 2 THEN Busy(n) \union TileIns(t)
                   ELSE Busy(n) \union TreePorts(t)]
<1>1. hops = <<x, y, z>> \o leaves
  BY DEF TreeHops, OverClusters
<1>2. /\ up \in Spots /\ down \in Spots /\ up \in FifoIds /\ down \in FifoIds
      /\ <<"from_gnet", t>> \in Spots /\ <<"request_in", t>> \in Spots
      /\ Home(up) = TileCores(t) /\ Home(down) = TileCores(t)
      /\ Home(<<"from_gnet", t>>) = TileCores(t) /\ Home(<<"request_in", t>>) = TileCores(t)
  BY Spot, Homes DEF Spots, TileSpots
<1>3. \A i \in 1 .. ClustersPerTile :
        /\ t * ClustersPerTile + i - 1 \in Clusters
        /\ TileOf(t * ClustersPerTile + i - 1) = t
  <2> SUFFICES ASSUME NEW i \in 1 .. ClustersPerTile
               PROVE  /\ t * ClustersPerTile + i - 1 \in Clusters
                      /\ TileOf(t * ClustersPerTile + i - 1) = t
    OBVIOUS
  <2>1. i - 1 \in 0 .. ClustersPerTile - 1
    BY Shape
  <2>2. t * ClustersPerTile + (i - 1) = t * ClustersPerTile + i - 1
    BY Shape DEF TileIds
  <2>3. /\ t * ClustersPerTile + (i - 1) \in Clusters
        /\ TileOf(t * ClustersPerTile + (i - 1)) = t
    BY <2>1, ClusterNumbers
  <2> QED
    BY <2>2, <2>3
<1>4. /\ Legal(x) /\ x \in HopSet /\ x.from = down
      /\ Ends(x) \subseteq TileIns(t) \union {Nowhere}
  <2>1. \A g \in Threads : CoreOf(g) \in TileCores(t) =>
          route[g] = <<"memside_in", ClusterOf(CoreOf(g))>>
    <3> SUFFICES ASSUME NEW g \in Threads, CoreOf(g) \in TileCores(t)
                 PROVE  route[g] = <<"memside_in", ClusterOf(CoreOf(g))>>
      OBVIOUS
    <3> DEFINE k == ClusterOf(CoreOf(g))
    <3>1. k \in Clusters /\ Leaf(g) = k /\ TileOf(k) = t
          /\ g \div (ClustersPerTile * ThreadsPerCluster) = t
      BY ThreadHome DEF TileCores
    <3>2. t * ClustersPerTile + (k % ClustersPerTile) = k
      BY <3>1, ClusterNumbers
    <3> QED
      BY <3>1, <3>2
  <2>2. ASSUME NEW g \in Threads
        PROVE  route[g] \in TileIns(t) \union {Nowhere}
    <3>1. Leaf(g) \in Nat
      BY ThreadHome, Shape DEF Clusters
    <3>2. Leaf(g) % ClustersPerTile \in 0 .. ClustersPerTile - 1
      BY <3>1, Shape, Quotient
    <3>3. /\ t * ClustersPerTile + (Leaf(g) % ClustersPerTile) \in Clusters
          /\ TileOf(t * ClustersPerTile + (Leaf(g) % ClustersPerTile)) = t
      BY <3>2, ClusterNumbers
    <3> QED
      BY <3>3 DEF TileIns, ClustersOf
  <2>3. TileIns(t) \subseteq Spots
    BY Spot DEF TileIns, ClustersOf, Spots
  <2> HIDE DEF route
  <2>4. route \in [Threads -> Spots \union {Nowhere}]
    <3>1. route = [g \in Threads |-> route[g]]
      BY DEF route
    <3> QED
      BY <2>2, <2>3, <3>1
  <2>5. x.from = down /\ x.to = route /\ x \in HopSet
    BY <1>2, <2>4 DEF RoutedHop, HopSet
  <2>6. ASSUME NEW g \in Threads, CoreOf(g) \in Home(down)
        PROVE  /\ route[g] \in Spots \ {down} /\ CoreOf(g) \in Home(route[g])
               /\ route[g][1] \in Served <=> down[1] \in Served
    <3> DEFINE k == ClusterOf(CoreOf(g))
    <3>1. route[g] = <<"memside_in", k>> /\ k \in Clusters /\ CoreOf(g) \in Cores
      BY <1>2, <2>1, <2>6, ThreadHome
    <3>2. Home(<<"memside_in", k>>) = CoresOf(k) /\ <<"memside_in", k>> \in Spots
      BY <3>1, Homes, Spot DEF ClusterSpots, Spots
    <3> QED
      BY <3>1, <3>2 DEF CoresOf, Served
  <2> HIDE DEF x, down
  <2>7. Legal(x)
    BY <2>5, <2>6 DEF Legal
  <2>8. Ends(x) \subseteq TileIns(t) \union {Nowhere}
    BY <2>2, <2>5 DEF Ends
  <2> QED
    BY <2>5, <2>7, <2>8
<1>5. Legal(y) /\ ~y.fatal /\ Ends(y) \subseteq {down}
  BY <1>2, HopLegal DEF Served
<1>6. Legal(z) /\ Ends(z) \subseteq {<<"request_in", t>>}
  BY <1>2, HopLegal DEF Served
<1>7. ASSUME NEW i \in 1 .. ClustersPerTile
      PROVE  leaves[i] \in CalmHops
  <2> DEFINE k == t * ClustersPerTile + i - 1
  <2>1. k \in Clusters /\ TileOf(k) = t
    BY <1>3
  <2> HIDE DEF k
  <2>2. <<"leaf_in", k>> \in Spots /\ Home(<<"leaf_in", k>>) = CoresOf(k)
    BY <2>1, Spot, Homes DEF ClusterSpots, Spots
  <2>3. CoresOf(k) \subseteq TileCores(t)
    BY <2>1 DEF CoresOf, TileCores
  <2>4. Hop(<<"leaf_in", k>>, up) \in CalmHops
    BY <1>2, <2>2, <2>3, CalmHop DEF Served, Strict
  <2> QED
    BY <2>4 DEF k
<1> HIDE DEF x, y, z, leaves, up, down
<1>8. /\ leaves \in Seq(HopSet) /\ Len(leaves) = ClustersPerTile
  <2>1. leaves = [i \in 1 .. ClustersPerTile |-> leaves[i]]
    BY DEF leaves
  <2> QED
    BY <1>7, <2>1, Shape DEF CalmHops
<1>9. /\ hops \in Seq(HopSet) /\ Len(hops) = 3 + ClustersPerTile
      /\ hops[1] = x /\ hops[2] = y /\ hops[3] = z
      /\ \A i \in 1 .. ClustersPerTile : hops[3 + i] = leaves[i]
  <2> DEFINE pre == <<x, y, z>>
  <2>1. pre \in Seq(HopSet) /\ Len(pre) = 3 /\ pre[1] = x /\ pre[2] = y /\ pre[3] = z
    BY <1>4, <1>5, <1>6 DEF Legal
  <2> HIDE DEF pre, hops
  <2>2. /\ pre \o leaves \in Seq(HopSet) /\ Len(pre \o leaves) = Len(pre) + Len(leaves)
        /\ \A i \in 1 .. Len(pre) : (pre \o leaves)[i] = pre[i]
        /\ \A i \in 1 .. Len(leaves) : (pre \o leaves)[Len(pre) + i] = leaves[i]
    <3>1. IsJoin(HopSet, pre \o leaves, pre, leaves)
      BY <1>8, <2>1, Joined
    <3> QED
      BY <3>1 DEF IsJoin
  <2>3. hops = pre \o leaves
    BY <1>1 DEF pre
  <2> QED
    BY <1>8, <2>1, <2>2, <2>3
<1>10. Strict \intersect FifoIds = {} /\ TreePorts(t) \subseteq Strict /\ Nowhere \notin PortIds
  <2>1. \A k \in ClustersOf(t) : <<"memside_in", k>> \in PortIds
    BY Spot DEF ClustersOf
  <2>2. <<"request_in", t>> \in PortIds
    BY Spot
  <2> QED
    BY <2>1, <2>2, SpotFacts DEF Strict, TreePorts, TileIns, Spots
<1> HIDE DEF hops
<1>11. \A i \in 4 .. 3 + ClustersPerTile : hops[i] \in CalmHops
  <2> SUFFICES ASSUME NEW i \in 4 .. 3 + ClustersPerTile PROVE hops[i] \in CalmHops
    OBVIOUS
  <2>1. i - 3 \in 1 .. ClustersPerTile /\ 3 + (i - 3) = i
    BY Shape
  <2> QED
    BY <1>7, <1>9, <2>1
<1>12. ASSUME NEW i \in 1 .. Len(hops)
       PROVE  /\ Legal(hops[i]) /\ Left(B[i - 1], hops[i]) \subseteq B[i]
              /\ hops[i].fatal => Ends(hops[i]) \intersect PortIds \subseteq Strict \ B[i - 1]
  <2>0. i \in 0 .. Len(hops) /\ i - 1 \in 0 .. Len(hops) /\ i \in Nat \ {0} /\ Len(hops) \in Nat
    BY <1>9, Shape
  <2>1. CASE i = 1
    <3>1. B[i - 1] = Busy(n) /\ B[i] = Busy(n) \union TileIns(t)
      BY <2>0, <2>1
    <3> HIDE DEF B
    <3> QED
      BY <1>4, <1>9, <1>10, <2>1, <3>1, SpotFacts DEF Left, TreePorts, Strict
  <2>2. CASE i = 2
    <3>1. B[i - 1] = Busy(n) \union TileIns(t) /\ B[i] = Busy(n) \union TileIns(t)
      BY <2>0, <2>2
    <3>2. Ends(y) \intersect Strict = {}
      BY <1>2, <1>5, <1>10
    <3> HIDE DEF B
    <3> QED
      BY <1>5, <1>9, <2>2, <3>1, <3>2 DEF Left
  <2>3. CASE i = 3
    <3>1. B[i - 1] = Busy(n) \union TileIns(t) /\ B[i] = Busy(n) \union TreePorts(t)
      BY <2>0, <2>3
    <3>2. <<"request_in", t>> \in Strict \ B[i - 1] /\ TileIns(t) \subseteq TreePorts(t)
      <4>1. <<"request_in", t>> \notin TileIns(t)
        BY DEF TileIns
      <4> HIDE DEF B
      <4> QED
        BY <4>1, <3>1, <1>10 DEF TreePorts
    <3>3. <<"request_in", t>> \in TreePorts(t)
      BY DEF TreePorts
    <3> HIDE DEF B
    <3> QED
      BY <1>6, <1>9, <2>3, <3>1, <3>2, <3>3 DEF Left
  <2>4. CASE i > 3
    <3>1. B[i] = Busy(n) \union TreePorts(t)
      BY <2>0, <2>4
    <3>2. B[i - 1] \subseteq Busy(n) \union TreePorts(t)
      BY <2>0, <2>4 DEF TreePorts
    <3>3. hops[i] \in CalmHops
      BY <1>9, <1>11, <2>0, <2>4
    <3> HIDE DEF B
    <3> QED
      BY <3>1, <3>2, <3>3, SpotFacts DEF CalmHops, Left
  <2>5. i = 1 \/ i = 2 \/ i = 3 \/ i > 3
    BY <2>0
  <2> HIDE DEF B
  <2> QED
    BY <2>1, <2>2, <2>3, <2>4, <2>5
<1>13. B[0] = Busy(n) /\ B[Len(hops)] = Busy(n) \union TreePorts(t)
  BY <1>9, Shape
<1> HIDE DEF B
<1>14. Planned(n, hops, B, {})
  BY <1>9, <1>12, <1>13 DEF Planned
<1> QED
  BY <1>13, <1>14, RouteFacts DEF hops
-----------------------------------------------------------------------------
(* The cluster cache.  Its hops but one go to no strict port and leave the *)
(* packet at the memory side where it is.                                  *)
CacheHops(k) ==
  {x \in CalmHops : {<<"memside_in", k>>} \intersect (Ends(x) \union {x.from}) = {}}

LEMMA CacheRoute ==
  ASSUME Sized, NEW n, NEW P, NEW D, Good(n, P, D), OnePerCore(P),
         NEW k \in Clusters, NEW hops \in Seq(CacheHops(k))
  PROVE  /\ Good(Route(n, hops), P, D) /\ Busy(Route(n, hops)) \subseteq Busy(n)
         /\ Route(n, hops).port[<<"memside_in", k>>] = n.port[<<"memside_in", k>>]
<1> DEFINE R == {<<"memside_in", k>>}
<1>1. hops \in Seq(CalmHops) /\ R \in SUBSET PortIds
  <2>1. <<"memside_in", k>> \in PortIds
    BY Spot
  <2>2. CacheHops(k) \subseteq CalmHops
    BY DEF CacheHops
  <2> QED
    BY <2>1, <2>2
<1>2. \A i \in 1 .. Len(hops) : R \intersect (Ends(hops[i]) \union {hops[i].from}) = {}
  BY DEF CacheHops
<1>3. \A r \in R : Route(n, hops).port[r] = n.port[r]
  BY <1>1, <1>2, CalmRoute
<1>4. Good(Route(n, hops), P, D) /\ Busy(Route(n, hops)) \subseteq Busy(n)
  BY <1>1, <1>2, CalmRoute
<1> QED
  BY <1>3, <1>4

LEMMA CacheHop ==
  ASSUME NEW k \in Clusters, NEW p \in Spots, NEW q \in Spots \ {p}, Home(p) \subseteq Home(q),
         q[1] \in Served <=> p[1] \in Served, q \notin Strict, p[1] # "memside_in"
  PROVE  Hop(p, q) \in CacheHops(k)
<1>1. q # <<"memside_in", k>> /\ p # <<"memside_in", k>>
  <2> DEFINE r == <<"memside_in", k>>
  <2>1. r \in PortIds /\ r[1] = "memside_in"
    BY Spot
  <2> HIDE DEF r
  <2> QED
    BY <2>1 DEF Strict, r
<1> QED
  BY <1>1, CalmHop, HopLegal DEF CacheHops

LEMMA CoreNumber ==
  ASSUME NEW k \in Clusters, NEW i \in 1 .. CoresPerCluster
  PROVE  k * CoresPerCluster + i - 1 \in CoresOf(k)
<1>1. i - 1 \in 0 .. CoresPerCluster - 1
  BY Shape
<1>2. k * CoresPerCluster + (i - 1) = k * CoresPerCluster + i - 1
  BY Shape DEF Clusters
<1> QED
  BY <1>1, <1>2, CoreNumbers DEF CoresOf

(* From one spot of a core to another, or to one of its cluster.           *)
LEMMA OverCoresFacts ==
  ASSUME NEW k \in Clusters, NEW a \in CoreSpots, NEW b \in CoreSpots \ {a},
         b \in Served <=> a \in Served
  PROVE  [i \in 1 .. CoresPerCluster |->
            Hop(<<a, k * CoresPerCluster + i - 1>>, <<b, k * CoresPerCluster + i - 1>>)]
           \in Seq(CacheHops(k))
<1>1. ASSUME NEW c \in CoresOf(k)
      PROVE  Hop(<<a, c>>, <<b, c>>) \in CacheHops(k)
  <2>1. c \in Cores
    BY DEF CoresOf
  <2>2. <<a, c>> \in Spots /\ <<b, c>> \in Spots /\ Home(<<a, c>>) = Home(<<b, c>>)
    BY <2>1, Spot, Homes DEF CoreSpots, Spots
  <2>3. <<b, c>> \notin Strict /\ a # "memside_in"
    BY DEF CoreSpots, Strict
  <2> QED
    BY <2>2, <2>3, CacheHop
<1>2. \A i \in 1 .. CoresPerCluster :
        Hop(<<a, k * CoresPerCluster + i - 1>>, <<b, k * CoresPerCluster + i - 1>>) \in CacheHops(k)
  BY <1>1, CoreNumber
<1> QED
  BY <1>2, Shape

LEMMA ClusterHop ==
  ASSUME NEW k \in Clusters, NEW a \in ClusterSpots \ {"memside_in"},
         NEW b \in ClusterSpots \ {a, "memside_in"}, b \in Served <=> a \in Served
  PROVE  /\ Hop(<<a, k>>, <<b, k>>) \in CacheHops(k)
         /\ a # "leaf_in" => UntilEmpty(Hop(<<a, k>>, <<b, k>>)) \in Seq(CacheHops(k))
<1>1. <<a, k>> \in Spots /\ <<b, k>> \in Spots /\ Home(<<a, k>>) = Home(<<b, k>>)
  BY Spot, Homes DEF ClusterSpots, Spots
<1>2. <<b, k>> \notin Strict
  BY DEF ClusterSpots, Strict
<1>3. Hop(<<a, k>>, <<b, k>>) \in CacheHops(k)
  BY <1>1, <1>2, CacheHop
<1>4. Capacity(<<a, k>>) \in Nat
  BY Shape DEF Capacity
<1>5. Hop(<<a, k>>, <<b, k>>).from = <<a, k>>
  BY DEF Hop
<1> QED
  BY <1>3, <1>4, <1>5 DEF UntilEmpty

LEMMA RepliesAreCalm ==
  ASSUME NEW k \in Clusters
  PROVE  CCacheReplies(k) \in Seq(CacheHops(k))
<1> DEFINE one == [i \in 1 .. CoresPerCluster |->
                     Hop(<<"coreside_replies", k * CoresPerCluster + i - 1>>,
                         <<"from_ccache", k * CoresPerCluster + i - 1>>)]
           route == [g \in Threads |-> <<"coreside_replies", k * CoresPerCluster + LocalCore(g)>>]
           x == RoutedHop(<<"ccache_replies", k>>, route)
           three == UntilEmpty(Hop(<<"memside_replies", k>>, <<"ccache_replies", k>>))
<1>1. CCacheReplies(k) = one \o UntilEmpty(x) \o three
  BY DEF CCacheReplies, OverCores
<1>2. one \in Seq(CacheHops(k))
  BY OverCoresFacts DEF CoreSpots, Served
<1>3. three \in Seq(CacheHops(k))
  BY ClusterHop DEF ClusterSpots, Served
<1>4. x \in CacheHops(k)
  <2> DEFINE p == <<"ccache_replies", k>>
  <2>1. ASSUME NEW g \in Threads
        PROVE  /\ route[g] \in FifoIds /\ route[g][1] = "coreside_replies"
               /\ ClusterOf(CoreOf(g)) = k => route[g] = <<"coreside_replies", CoreOf(g)>>
    <3>1. CoreOf(g) \in Nat /\ CoreOf(g) \in Cores
      BY ThreadHome, Sizes DEF Cores
    <3>2. LocalCore(g) \in 0 .. CoresPerCluster - 1
      BY <3>1, Shape, Quotient DEF LocalCore
    <3>3. k * CoresPerCluster + LocalCore(g) \in Cores
      BY <3>2, CoreNumbers
    <3> QED
      BY <3>3, Spot, ThreadHome
  <2> HIDE DEF route
  <2>2. p \in FifoIds /\ p \in Spots /\ Home(p) = CoresOf(k) /\ p # <<"memside_in", k>>
    BY Spot, Homes DEF Spots, ClusterSpots
  <2>3. x.from = p /\ x.to = route /\ x.fatal = TRUE
        /\ x = [from |-> p, to |-> route, fatal |-> TRUE]
    BY DEF RoutedHop
  <2>4. route \in [Threads -> Spots \union {Nowhere}]
    <3>1. route = [g \in Threads |-> route[g]]
      BY DEF route
    <3> QED
      BY <2>1, <3>1 DEF Spots
  <2>5. x \in HopSet
    BY <2>2, <2>3, <2>4 DEF HopSet
  <2>6. ASSUME NEW g \in Threads, CoreOf(g) \in Home(p)
        PROVE  /\ route[g] \in Spots \ {p} /\ CoreOf(g) \in Home(route[g])
               /\ route[g][1] \in Served <=> p[1] \in Served
    <3>1. CoreOf(g) \in Cores /\ ClusterOf(CoreOf(g)) = k
      BY <2>2, <2>6 DEF CoresOf
    <3>2. route[g] = <<"coreside_replies", CoreOf(g)>> /\ route[g] \in FifoIds
      BY <2>1, <3>1
    <3>3. CoreOf(g) \in Home(<<"coreside_replies", CoreOf(g)>>)
      BY <3>1, Homes DEF CoreSpots
    <3> QED
      BY <3>2, <3>3 DEF Served, Spots
  <2>7. Ends(x) \subseteq FifoIds
    BY <2>1, <2>3 DEF Ends
  <2> HIDE DEF x, p
  <2>8. Legal(x)
    BY <2>3, <2>5, <2>6 DEF Legal
  <2>9. <<"memside_in", k>> \notin FifoIds /\ Strict \intersect FifoIds = {}
    BY Spot, SpotFacts DEF Strict
  <2> QED
    BY <2>2, <2>3, <2>5, <2>7, <2>8, <2>9 DEF CalmHops, CacheHops
<1>5. UntilEmpty(x) \in Seq(CacheHops(k))
  <2>1. Capacity(x.from) \in Nat
    BY Shape DEF Capacity
  <2> HIDE DEF x
  <2> QED
    BY <1>4, <2>1 DEF UntilEmpty
<1> HIDE DEF one, three, x
<1>6. one \o UntilEmpty(x) \in Seq(CacheHops(k))
  BY <1>2, <1>5
<1> QED
  BY <1>1, <1>3, <1>6

LEMMA RequestsAreCalm ==
  ASSUME NEW k \in Clusters
  PROVE  CCacheRequests(k) \in Seq(CacheHops(k))
<1> DEFINE one == <<Hop(<<"memside_requests", k>>, <<"leaf_in", k>>)>>
           two == UntilEmpty(Hop(<<"ccache_requests", k>>, <<"memside_requests", k>>))
           three == [i \in 1 .. CoresPerCluster |->
                       Hop(<<"coreside_requests", k * CoresPerCluster + i - 1>>,
                           <<"ccache_requests", k>>)]
           four == [i \in 1 .. CoresPerCluster |->
                      Hop(<<"coreside_in", k * CoresPerCluster + i - 1>>,
                          <<"coreside_requests", k * CoresPerCluster + i - 1>>)]
<1>1. CCacheRequests(k) = one \o two \o three \o four
  BY DEF CCacheRequests, OverCores
<1>2. one \in Seq(CacheHops(k))
  <2>1. Hop(<<"memside_requests", k>>, <<"leaf_in", k>>) \in CacheHops(k)
    BY ClusterHop DEF ClusterSpots, Served
  <2> QED
    BY <2>1
<1>3. two \in Seq(CacheHops(k))
  BY ClusterHop DEF ClusterSpots, Served
<1>4. three \in Seq(CacheHops(k))
  <2>1. ASSUME NEW c \in CoresOf(k)
        PROVE  Hop(<<"coreside_requests", c>>, <<"ccache_requests", k>>) \in CacheHops(k)
    <3>1. c \in Cores
      BY DEF CoresOf
    <3>2. /\ <<"coreside_requests", c>> \in Spots /\ <<"ccache_requests", k>> \in Spots
          /\ Home(<<"coreside_requests", c>>) = {c} /\ Home(<<"ccache_requests", k>>) = CoresOf(k)
      BY <3>1, Spot, Homes DEF Spots, CoreSpots, ClusterSpots
    <3> QED
      BY <3>2, CacheHop DEF Served, Strict
  <2>2. \A i \in 1 .. CoresPerCluster :
          Hop(<<"coreside_requests", k * CoresPerCluster + i - 1>>, <<"ccache_requests", k>>)
            \in CacheHops(k)
    BY <2>1, CoreNumber
  <2> QED
    BY <2>2, Shape
<1>5. four \in Seq(CacheHops(k))
  BY OverCoresFacts DEF CoreSpots, Served
<1> HIDE DEF one, two, three, four
<1>6. one \o two \in Seq(CacheHops(k))
  BY <1>2, <1>3
<1>7. one \o two \o three \in Seq(CacheHops(k))
  BY <1>4, <1>6
<1> QED
  BY <1>1, <1>5, <1>7

LEMMA CCacheFacts ==
  ASSUME Sized, NEW n, NEW P, NEW D, Good(n, P, D), OnePerCore(P), NEW k \in Clusters
  PROVE  LET g == n.port[<<"memside_in", k>>]  m == CCacheStep(n, k) IN
           /\ Busy(m) \subseteq Busy(n) \ {<<"memside_in", k>>}
           /\ g = NoPacketHere => Good(m, P, D)
           /\ g # NoPacketHere => /\ g \in P /\ g \notin D /\ CoreOf(g) \in CoresOf(k)
                                  /\ Good(m, P, D \union {g})
<1> DEFINE p == <<"memside_in", k>>
           q == <<"memside_replies", k>>
           g == n.port[p]
           n1 == Route(n, CCacheReplies(k))
           x == handleMemsideInputs(k)
           n2 == Transfer(n1, x)
           m == Route(n2, CCacheRequests(k))
<1>1. CCacheStep(n, k) = m
  BY DEF CCacheStep
<1>2. /\ p \in PortIds /\ p \in Spots /\ q \in Spots /\ q \in FifoIds /\ q \notin PortIds
      /\ Home(p) = CoresOf(k) /\ Home(q) = CoresOf(k) /\ p # q
      /\ p[1] \notin Served /\ q[1] \in Served
  BY Spot, Homes, SpotFacts DEF Spots, ClusterSpots, Served
<1>3. x.from = p /\ x.to = [h \in Threads |-> q] /\ x \in HopSet
  BY <1>2 DEF handleMemsideInputs, Hop, HopSet
<1> HIDE DEF x
<1>4. /\ Good(n1, P, D) /\ Busy(n1) \subseteq Busy(n) /\ n1.port[p] = g
  BY RepliesAreCalm, CacheRoute
<1> HIDE DEF n1, p, q
<1>5. FrontOf(n1, x.from) = g
  BY <1>2, <1>3, <1>4 DEF FrontOf
<1>6. /\ Busy(n2) \subseteq Busy(n) \ {p}
      /\ g = NoPacketHere => Good(n2, P, D)
      /\ g # NoPacketHere => /\ g \in P /\ g \notin D /\ CoreOf(g) \in CoresOf(k)
                             /\ Good(n2, P, D \union {g})
  <2>1. CASE g = NoPacketHere
    <3>1. n2 = n1
      BY <1>5, <2>1 DEF Transfer
    <3>2. p \notin Busy(n1)
      BY <1>4, <2>1 DEF Busy, Ready
    <3> QED
      BY <1>4, <2>1, <3>1, <3>2
  <2>2. CASE g # NoPacketHere
    <3>1. n1 \in Nets /\ x.from \in Spots
      BY <1>2, <1>3, <1>4 DEF Good
    <3>2. g \in Threads /\ Holds(n1, p, g)
      BY <1>2, <1>4, <2>2, <3>1 DEF Nets, Holds
    <3>3. g \in P /\ g \notin D /\ CoreOf(g) \in CoresOf(k)
      BY <1>2, <1>4, <3>2 DEF Good
    <3>4. x.to[g] = q /\ ~Nack(n1, q)
      BY <1>2, <1>3, <3>2, SpotFacts DEF Nack
    <3>5. /\ x.to[g] \in Spots \ {x.from} /\ CoreOf(g) \in Home(x.to[g]) /\ ~Nack(n1, x.to[g])
      BY <1>2, <1>3, <3>3, <3>4
    <3>6. /\ Good(n2, P, IF x.to[g][1] \in Served THEN D \union {g} ELSE D \ {g})
          /\ \A r \in PortIds \ {x.to[g]} :
               n2.port[r] = IF r = x.from THEN NoPacketHere ELSE n1.port[r]
      <4> HIDE DEF g
      <4> QED
        BY <1>3, <1>4, <1>5, <2>2, <3>5, HopFacts
    <3>7. /\ Good(n2, P, IF q[1] \in Served THEN D \union {g} ELSE D \ {g})
          /\ \A r \in PortIds \ {q} :
               n2.port[r] = IF r = x.from THEN NoPacketHere ELSE n1.port[r]
      BY <3>4, <3>6
    <3>8. Busy(n2) \subseteq Busy(n1) \ {p}
      BY <1>2, <1>3, <3>7 DEF Busy, Ready, Strict
    <3> QED
      BY <1>2, <1>4, <2>2, <3>3, <3>7, <3>8
  <2> QED
    BY <2>1, <2>2
<1> HIDE DEF n2
<1>7. ASSUME NEW E, Good(n2, P, E)
      PROVE  Good(m, P, E) /\ Busy(m) \subseteq Busy(n2)
  BY <1>7, RequestsAreCalm, CacheRoute
<1> HIDE DEF m, g
<1>8. Good(n2, P, D) \/ Good(n2, P, D \union {g})
  BY <1>6
<1>9. Busy(m) \subseteq Busy(n2)
  BY <1>7, <1>8
<1> QED
  BY <1>1, <1>6, <1>7, <1>9 DEF p, g
-----------------------------------------------------------------------------
(***************************************************************************)
(* The calls of a cycle.                                                   *)
(***************************************************************************)

(* What every prefix of a flattened sequence keeps, the whole one has.     *)
LEMMA Flattened ==
  ASSUME NEW S, NEW ss \in Seq(Seq(S)), NEW N \in Nat \ {0}, Len(ss) = N, NEW G,
         ss[1] \in G[1],
         \A n \in 1 .. N - 1 : \A q \in Seq(S) : q \in G[n] => q \o ss[n + 1] \in G[n + 1]
  PROVE  FlattenSeq(ss) \in Seq(S) /\ FlattenSeq(ss) \in G[N]
<1> DEFINE f == [p \in Seq(S) \X (1 .. N - 1) |-> p[1] \o ss[p[2] + 1]]
           Joining(g) == g = [i \in 1 .. N |-> IF i = 1 THEN ss[i] ELSE g[i - 1] \o ss[i]]
           Flat == CHOOSE g : Joining(g)
           A == {n \in 0 .. N - 1 : Flat[n + 1] \in Seq(S) /\ Flat[n + 1] \in G[n + 1]}
<1>0. /\ N - 1 \in Nat /\ ss[1] \in Seq(S)
      /\ \A i \in 1 .. N : ss[i] \in Seq(S)
  OBVIOUS
<1>1. f \in [Seq(S) \X (1 .. N - 1) -> Seq(S)]
  <2>1. ASSUME NEW q \in Seq(S), NEW i \in 1 .. N - 1
        PROVE  q \o ss[i + 1] \in Seq(S)
    <3>1. i + 1 \in 1 .. N
      BY <1>0
    <3> QED
      BY <1>0, <3>1
  <2> QED
    BY <2>1
<1>2. \E g : Joining(g)
  <2>1. PICK a : Iterates(a, Seq(S), ss[1], N - 1, f)
    <3> HIDE DEF f
    <3> QED
      BY <1>0, <1>1, Iterated
  <2>2. /\ a \in [0 .. N - 1 -> Seq(S)] /\ a[0] = ss[1]
        /\ \A i \in 1 .. N - 1 : a[i] = f[<<a[i - 1], i>>]
    BY <2>1 DEF Iterates
  <2> DEFINE g == [i \in 1 .. N |-> a[i - 1]]
  <2>3. ASSUME NEW i \in 1 .. N, i # 1
        PROVE  g[i] = g[i - 1] \o ss[i]
    <3>1. i - 1 \in 1 .. N - 1 /\ (i - 1) + 1 = i /\ i - 1 \in 1 .. N
          /\ (i - 1) - 1 \in 0 .. N - 1
      BY <2>3
    <3>2. a[(i - 1) - 1] \in Seq(S)
      BY <2>2, <3>1
    <3>3. a[i - 1] = a[(i - 1) - 1] \o ss[i]
      BY <2>2, <3>1, <3>2
    <3> QED
      BY <3>1, <3>3
  <2>4. g[1] = ss[1]
    BY <2>2
  <2>5. g = [i \in 1 .. N |-> g[i]]
    OBVIOUS
  <2> HIDE DEF g
  <2>6. Joining(g)
    BY <2>3, <2>4, <2>5
  <2> QED
    BY <2>6
<1>3. Joining(Flat)
  BY <1>2
<1>4. FlattenSeq(ss) = Flat[N]
  BY DEF FlattenSeq
<1> HIDE DEF Flat
<1>5. 0 \in A
  BY <1>0, <1>3
<1>6. ASSUME NEW n \in A, n \in 0 .. (N - 1) - 1
      PROVE  n + 1 \in A
  <2>1. /\ n + 1 \in 1 .. N - 1 /\ n + 1 \in 1 .. N /\ (n + 1) + 1 \in 1 .. N
        /\ (n + 1) + 1 # 1 /\ ((n + 1) + 1) - 1 = n + 1 /\ n + 1 \in 0 .. N - 1
    BY <1>6
  <2> DEFINE q == Flat[n + 1]
             m == n + 1
  <2>2. q \in Seq(S) /\ q \in G[m]
    BY <1>6
  <2>3. Flat[m + 1] = q \o ss[m + 1]
    BY <1>3, <2>1
  <2>4. ss[m + 1] \in Seq(S)
    BY <1>0, <2>1
  <2> HIDE DEF q, m, A, f
  <2>5. m \in 1 .. N - 1
    BY <2>1 DEF m
  <2>6. Flat[m + 1] \in Seq(S)
    BY <2>2, <2>3, <2>4
  <2>7. Flat[m + 1] \in G[m + 1]
    BY <2>2, <2>3, <2>5, Zenon
  <2> QED
    BY <2>1, <2>6, <2>7 DEF m, A
<1>7. N - 1 \in A
  <2> HIDE DEF A
  <2> QED
    BY <1>0, <1>5, <1>6, UpTo
<1>8. (N - 1) + 1 = N
  OBVIOUS
<1> QED
  BY <1>4, <1>7, <1>8

CallSet == {"request", "reply", "tree", "cluster", "core"} \X Nat
Listed(s, x) == \E i \in DOMAIN s : s[i] = x
Once(s, x) == \A i, j \in DOMAIN s : s[i] = x /\ s[j] = x => i = j
Before(s, x, y) == \A i \in DOMAIN s : s[i] = x => \E j \in DOMAIN s : i < j /\ s[j] = y

LEMMA JoinFacts ==
  ASSUME NEW S, NEW a \in Seq(S), NEW b \in Seq(S)
  PROVE  /\ \A x : Listed(a \o b, x) <=> Listed(a, x) \/ Listed(b, x)
         /\ \A x : Once(a, x) /\ Once(b, x) /\ ~(Listed(a, x) /\ Listed(b, x)) => Once(a \o b, x)
         /\ \A x, y : Before(a, x, y) /\ Before(b, x, y) => Before(a \o b, x, y)
<1> DEFINE s == a \o b
           m == Len(a)
           n == Len(b)
<1>1. /\ m \in Nat /\ n \in Nat /\ DOMAIN a = 1 .. m /\ DOMAIN b = 1 .. n
      /\ DOMAIN s = 1 .. m + n
      /\ \A i \in 1 .. m : s[i] = a[i]
      /\ \A i \in 1 .. n : s[m + i] = b[i]
  OBVIOUS
<1> HIDE DEF s, m, n
<1>2. ASSUME NEW i \in DOMAIN s
      PROVE  \/ i \in DOMAIN a /\ s[i] = a[i]
             \/ i - m \in DOMAIN b /\ s[i] = b[i - m] /\ i > m
  <2>1. CASE i <= m
    <3>1. i \in 1 .. m
      BY <1>1, <2>1
    <3> QED
      BY <1>1, <3>1
  <2>2. CASE i > m
    <3>1. i - m \in 1 .. n /\ m + (i - m) = i
      BY <1>1, <2>2
    <3> QED
      BY <1>1, <2>2, <3>1
  <2> QED
    BY <1>1, <2>1, <2>2
<1>3. \A i \in DOMAIN a : i \in DOMAIN s /\ s[i] = a[i] /\ i <= m
  BY <1>1
<1>4. \A i \in DOMAIN b : m + i \in DOMAIN s /\ s[m + i] = b[i] /\ i \in Nat
  BY <1>1
<1>5. \A i \in DOMAIN s : i \in Nat
  BY <1>1
<1>6. ASSUME NEW x PROVE Listed(s, x) <=> Listed(a, x) \/ Listed(b, x)
  BY <1>2, <1>3, <1>4 DEF Listed
<1>7. ASSUME NEW x, Once(a, x), Once(b, x), ~(Listed(a, x) /\ Listed(b, x))
      PROVE  Once(s, x)
  <2> SUFFICES ASSUME NEW i \in DOMAIN s, NEW j \in DOMAIN s, s[i] = x, s[j] = x PROVE i = j
    BY DEF Once
  <2>1. CASE i \in DOMAIN a /\ j \in DOMAIN a
    BY <1>3, <1>7, <2>1 DEF Once
  <2>2. CASE i \notin DOMAIN a /\ j \notin DOMAIN a
    <3>1. i - m = j - m
      BY <1>2, <1>7, <2>2 DEF Once
    <3> QED
      BY <1>1, <1>5, <3>1
  <2>3. CASE i \in DOMAIN a /\ j \notin DOMAIN a
    <3>1. a[i] = x /\ j - m \in DOMAIN b /\ b[j - m] = x
      BY <1>2, <1>3, <2>3
    <3> QED
      BY <1>7, <2>3, <3>1 DEF Listed
  <2>4. CASE i \notin DOMAIN a /\ j \in DOMAIN a
    <3>1. a[j] = x /\ i - m \in DOMAIN b /\ b[i - m] = x
      BY <1>2, <1>3, <2>4
    <3> QED
      BY <1>7, <2>4, <3>1 DEF Listed
  <2> QED
    BY <2>1, <2>2, <2>3, <2>4
<1>8. ASSUME NEW x, NEW y, Before(a, x, y), Before(b, x, y)
      PROVE  Before(s, x, y)
  <2> SUFFICES ASSUME NEW i \in DOMAIN s, s[i] = x PROVE \E j \in DOMAIN s : i < j /\ s[j] = y
    BY DEF Before
  <2>1. CASE i \in DOMAIN a
    <3>1. PICK j \in DOMAIN a : i < j /\ a[j] = y
      BY <1>3, <1>8, <2>1 DEF Before
    <3> QED
      BY <1>3, <3>1
  <2>2. CASE i \notin DOMAIN a
    <3>1. i - m \in DOMAIN b /\ b[i - m] = x
      BY <1>2, <2>2
    <3>2. PICK j \in DOMAIN b : i - m < j /\ b[j] = y
      BY <1>8, <3>1 DEF Before
    <3>3. m + j \in DOMAIN s /\ s[m + j] = y /\ j \in Nat
      BY <1>4, <3>2
    <3>4. i < m + j
      BY <1>1, <1>5, <3>2, <3>3
    <3> QED
      BY <3>3, <3>4
  <2> QED
    BY <2>1, <2>2
<1> QED
  BY <1>6, <1>7, <1>8 DEF s
-----------------------------------------------------------------------------
(* The calls in order: a tile's tree once, before its clusters.            *)
Request == <<"request", 0>>
TreeOf(k) == <<"tree", TileOf(k)>>
Ordered(s) ==
  /\ s \in Seq(CallSet)
  /\ \A i \in DOMAIN s : s[i] = Request => i = 1
  /\ \A t \in TileIds : Once(s, <<"tree", t>>)
  /\ \A k \in Clusters : Before(s, TreeOf(k), <<"cluster", k>>)

ClusterCalls(k) ==
  <<<<"cluster", k>>>> \o
    [i \in 1 .. CoresPerCluster |-> <<"core", k * CoresPerCluster + i - 1>>]
Turn(r, t, i) == t * ClustersPerTile + ((r + i - 1) % ClustersPerTile)
TileClusters(r, t) == [i \in 1 .. ClustersPerTile |-> ClusterCalls(Turn(r, t, i))]
TileCalls(r, t) == <<<<"tree", t>>>> \o FlattenSeq(TileClusters(r, t))

(* No call of a network or of a tree.                                      *)
Local(s) == \A i \in DOMAIN s : s[i][1] \notin {"request", "tree"}

LEMMA ClusterCallsFacts ==
  ASSUME NEW k \in Nat
  PROVE  /\ ClusterCalls(k) \in Seq(CallSet) /\ Local(ClusterCalls(k))
         /\ Listed(ClusterCalls(k), <<"cluster", k>>)
<1> DEFINE a == <<<<"cluster", k>>>>
           b == [i \in 1 .. CoresPerCluster |-> <<"core", k * CoresPerCluster + i - 1>>]
<1>1. a \in Seq(CallSet) /\ Len(a) = 1 /\ a[1] = <<"cluster", k>>
  BY DEF CallSet
<1>2. b \in Seq(CallSet) /\ \A i \in DOMAIN b : b[i][1] = "core"
  <2>1. \A i \in 1 .. CoresPerCluster : k * CoresPerCluster + i - 1 \in Nat
    <3>1. k * CoresPerCluster \in Nat
      BY Shape
    <3> QED
      BY <3>1, Shape
  <2>2. CoresPerCluster \in Nat
    BY Shape
  <2> QED
    BY <2>1, <2>2 DEF CallSet
<1> HIDE DEF a, b
<1>3. IsJoin(CallSet, a \o b, a, b)
  BY <1>1, <1>2, Joined
<1> DEFINE s == a \o b
<1>4. ASSUME NEW i \in DOMAIN s
      PROVE  s[i] = <<"cluster", k>> \/ \E j \in DOMAIN b : s[i] = b[j]
  <2>1. i = 1 \/ i - 1 \in 1 .. Len(b)
    BY <1>1, <1>2, <1>3, <1>4 DEF IsJoin
  <2>2. CASE i = 1
    BY <1>1, <1>3, <2>2 DEF IsJoin
  <2>3. CASE i - 1 \in 1 .. Len(b)
    <3>1. i - 1 \in DOMAIN b /\ Len(a) + (i - 1) = i
      BY <1>1, <1>2, <1>3, <1>4, <2>3 DEF IsJoin
    <3> QED
      BY <1>3, <2>3, <3>1 DEF IsJoin
  <2> QED
    BY <2>1, <2>2, <2>3
<1>5. 1 \in DOMAIN s /\ s[1] = <<"cluster", k>>
  BY <1>1, <1>2, <1>3 DEF IsJoin
<1> HIDE DEF s
<1>6. ClusterCalls(k) = s
  BY DEF ClusterCalls, s, a, b
<1>7. \A i \in DOMAIN s : s[i][1] \in {"cluster", "core"}
  BY <1>2, <1>4
<1> QED
  BY <1>3, <1>5, <1>6, <1>7 DEF Local, Listed, IsJoin, s

LEMMA LocalJoin ==
  ASSUME NEW a \in Seq(CallSet), NEW b \in Seq(CallSet), Local(a), Local(b)
  PROVE  Local(a \o b)
<1> SUFFICES ASSUME NEW i \in DOMAIN (a \o b), (a \o b)[i][1] \in {"request", "tree"}
             PROVE  FALSE
  BY DEF Local
<1>1. Listed(a \o b, (a \o b)[i])
  BY DEF Listed
<1>2. Listed(a, (a \o b)[i]) \/ Listed(b, (a \o b)[i])
  BY <1>1, JoinFacts
<1> QED
  BY <1>2 DEF Listed, Local

(* The rotation passes every cluster of the tile.                          *)
LEMMA Rotated ==
  ASSUME NEW K \in Nat \ {0}, NEW r \in 0 .. K - 1, NEW j \in 0 .. K - 1
  PROVE  \E i \in 1 .. K : (r + i - 1) % K = j
<1>1. CASE r <= j
  <2>1. j - r + 1 \in 1 .. K /\ r + (j - r + 1) - 1 = j /\ j % K = j
    BY <1>1
  <2> QED
    BY <2>1
<1>2. CASE j < r
  <2>1. j + K - r + 1 \in 1 .. K /\ r + (j + K - r + 1) - 1 = 1 * K + j
    BY <1>2
  <2>2. (1 * K + j) % K = j
    BY Remainder
  <2> QED
    BY <2>1, <2>2
<1> QED
  BY <1>1, <1>2
-----------------------------------------------------------------------------
LEMMA TileClustersFacts ==
  ASSUME NEW r \in 0 .. ClustersPerTile - 1, NEW t \in TileIds
  PROVE  LET s == FlattenSeq(TileClusters(r, t)) IN
           /\ s \in Seq(CallSet) /\ Local(s)
           /\ \A k \in ClustersOf(t) : Listed(s, <<"cluster", k>>)
<1> DEFINE N == ClustersPerTile
           ss == TileClusters(r, t)
           H(n) == {q \in Seq(CallSet) :
                      Local(q) /\ \A i \in 1 .. n : Listed(q, <<"cluster", Turn(r, t, i)>>)}
           G == [n \in 1 .. N |-> H(n)]
<1>1. \A i \in 1 .. N : Turn(r, t, i) \in Clusters /\ Turn(r, t, i) \in Nat
  <2> SUFFICES ASSUME NEW i \in 1 .. N PROVE Turn(r, t, i) \in Clusters /\ Turn(r, t, i) \in Nat
    OBVIOUS
  <2>1. r + i - 1 \in Nat
    BY Shape
  <2>2. (r + i - 1) % N \in 0 .. N - 1
    BY <2>1, Shape, Quotient
  <2> QED
    BY <2>2, ClusterNumbers DEF Turn, Clusters
<1>2. \A i \in 1 .. N : /\ ss[i] = ClusterCalls(Turn(r, t, i)) /\ ss[i] \in Seq(CallSet)
                        /\ Local(ss[i]) /\ Listed(ss[i], <<"cluster", Turn(r, t, i)>>)
  BY <1>1, ClusterCallsFacts DEF TileClusters
<1>3. ss \in Seq(Seq(CallSet)) /\ Len(ss) = N /\ N \in Nat \ {0}
  <2>1. ss = [i \in 1 .. N |-> ClusterCalls(Turn(r, t, i))] /\ N \in Nat \ {0}
    BY Shape DEF TileClusters
  <2>2. \A i \in 1 .. N : ClusterCalls(Turn(r, t, i)) \in Seq(CallSet)
    BY <1>1, ClusterCallsFacts
  <2> QED
    BY <2>1, <2>2
<1> HIDE DEF ss
<1>4. ss[1] \in G[1]
  <2>1. 1 \in 1 .. N /\ \A i \in 1 .. 1 : i = 1
    BY <1>3
  <2> QED
    BY <1>2, <2>1
<1>5. ASSUME NEW n \in 1 .. N - 1, NEW q \in Seq(CallSet), q \in G[n]
      PROVE  q \o ss[n + 1] \in G[n + 1]
  <2>1. n \in 1 .. N /\ n + 1 \in 1 .. N
    BY <1>3
  <2>2. Local(q) /\ \A i \in 1 .. n : Listed(q, <<"cluster", Turn(r, t, i)>>)
    BY <1>5, <2>1
  <2>3. Local(q \o ss[n + 1]) /\ q \o ss[n + 1] \in Seq(CallSet)
    <3> DEFINE b == ss[n + 1]
    <3>1. b \in Seq(CallSet) /\ Local(b)
      BY <1>2, <2>1
    <3> HIDE DEF b
    <3>2. Local(q \o b) /\ q \o b \in Seq(CallSet)
      BY <2>2, <3>1, LocalJoin
    <3> QED
      BY <3>2 DEF b
  <2>4. ASSUME NEW i \in 1 .. n + 1
        PROVE  Listed(q \o ss[n + 1], <<"cluster", Turn(r, t, i)>>)
    <3>1. i \in 1 .. n \/ i = n + 1
      BY <1>3
    <3>2. \/ Listed(q, <<"cluster", Turn(r, t, i)>>)
          \/ Listed(ss[n + 1], <<"cluster", Turn(r, t, i)>>)
      BY <1>2, <2>1, <2>2, <3>1
    <3>3. ss[n + 1] \in Seq(CallSet)
      BY <1>2, <2>1
    <3> QED
      BY <3>2, <3>3, JoinFacts
  <2> QED
    BY <2>1, <2>3, <2>4
<1>6. FlattenSeq(ss) \in Seq(CallSet) /\ FlattenSeq(ss) \in G[N]
  <2> HIDE DEF G
  <2> QED
    BY <1>3, <1>4, <1>5, Flattened
<1>7. N \in 1 .. N
  BY <1>3
<1>8. Local(FlattenSeq(ss))
      /\ \A i \in 1 .. N : Listed(FlattenSeq(ss), <<"cluster", Turn(r, t, i)>>)
  BY <1>6, <1>7
<1>9. ASSUME NEW k \in ClustersOf(t)
      PROVE  \E i \in 1 .. N : k = Turn(r, t, i)
  <2>1. k \in Clusters /\ TileOf(k) = t /\ k \in Nat
    BY DEF ClustersOf, Clusters
  <2>2. k % N \in 0 .. N - 1 /\ t * N + (k % N) = k
    BY <1>3, <2>1, ClusterNumbers, Quotient
  <2>3. PICK i \in 1 .. N : (r + i - 1) % N = k % N
    <3> DEFINE j == k % N
    <3>1. j \in 0 .. N - 1 /\ r \in 0 .. N - 1 /\ N \in Nat \ {0}
      BY <1>3, <2>2
    <3> HIDE DEF j, N
    <3>2. \E i \in 1 .. N : (r + i - 1) % N = j
      BY <3>1, Rotated, Zenon
    <3> QED
      BY <3>2 DEF j
  <2> QED
    BY <2>2, <2>3 DEF Turn
<1> QED
  BY <1>6, <1>8, <1>9 DEF ss

LEMMA TileCallsFacts ==
  ASSUME NEW r \in 0 .. ClustersPerTile - 1, NEW t \in TileIds
  PROVE  LET s == TileCalls(r, t) IN
           /\ s \in Seq(CallSet)
           /\ ~Listed(s, Request)
           /\ Once(s, <<"tree", t>>)
           /\ \A u \in TileIds \ {t} : ~Listed(s, <<"tree", u>>)
           /\ \A k \in Clusters : Before(s, TreeOf(k), <<"cluster", k>>)
<1> DEFINE a == <<<<"tree", t>>>>
           b == FlattenSeq(TileClusters(r, t))
           s == a \o b
<1>1. a \in Seq(CallSet) /\ Len(a) = 1 /\ a[1] = <<"tree", t>>
  BY DEF CallSet, TileIds
<1>2. b \in Seq(CallSet) /\ Local(b) /\ \A k \in ClustersOf(t) : Listed(b, <<"cluster", k>>)
  BY TileClustersFacts
<1> HIDE DEF a, b
<1> DEFINE m == Len(b)
<1>3. /\ s \in Seq(CallSet) /\ DOMAIN s = 1 .. 1 + m /\ s[1] = <<"tree", t>>
      /\ \A i \in 1 .. m : s[1 + i] = b[i]
      /\ m \in Nat /\ DOMAIN b = 1 .. m
  <2>1. IsJoin(CallSet, s, a, b)
    BY <1>1, <1>2, Joined
  <2> QED
    BY <1>1, <1>2, <2>1 DEF IsJoin
<1> HIDE DEF s, m
<1>4. ASSUME NEW i \in DOMAIN s
      PROVE  \/ i = 1 /\ s[i] = <<"tree", t>>
             \/ i # 1 /\ s[i][1] \notin {"request", "tree"}
  <2>1. i = 1 \/ (i # 1 /\ i - 1 \in 1 .. m /\ 1 + (i - 1) = i)
    BY <1>3
  <2>2. CASE i = 1
    BY <1>3, <2>2
  <2>3. CASE i # 1 /\ i - 1 \in 1 .. m /\ 1 + (i - 1) = i
    <3>1. i - 1 \in DOMAIN b
      BY <1>3, <2>3
    <3>2. s[i] = b[i - 1]
      BY <1>3, <2>3
    <3> QED
      BY <1>2, <2>3, <3>1, <3>2 DEF Local
  <2> QED
    BY <2>1, <2>2, <2>3
<1>5. ~Listed(s, Request) /\ Once(s, <<"tree", t>>)
  BY <1>4 DEF Listed, Once, Request
<1>6. \A u \in TileIds \ {t} : ~Listed(s, <<"tree", u>>)
  BY <1>4 DEF Listed
<1>7. ASSUME NEW k \in Clusters
      PROVE  Before(s, TreeOf(k), <<"cluster", k>>)
  <2> SUFFICES ASSUME NEW i \in DOMAIN s, s[i] = TreeOf(k)
               PROVE  \E j \in DOMAIN s : i < j /\ s[j] = <<"cluster", k>>
    BY DEF Before
  <2>1. i = 1 /\ k \in ClustersOf(t)
    BY <1>4 DEF TreeOf, ClustersOf
  <2>2. PICK j \in DOMAIN b : b[j] = <<"cluster", k>>
    BY <1>2, <2>1 DEF Listed
  <2>3. j \in 1 .. m /\ 1 + j \in DOMAIN s /\ 1 < 1 + j
    BY <1>3
  <2>4. s[1 + j] = b[j]
    BY <1>3, <2>3
  <2> QED
    BY <2>1, <2>2, <2>3, <2>4
<1>8. TileCalls(r, t) = s
  BY DEF TileCalls, s, a, b
<1> QED
  BY <1>3, <1>5, <1>6, <1>7, <1>8

LEMMA CallsOrdered ==
  ASSUME NEW r \in 0 .. ClustersPerTile - 1
  PROVE  /\ Ordered(Calls(r))
         /\ Len(Calls(r)) > 0 /\ Calls(r)[1] = Request
         /\ \A t \in TileIds : Listed(Calls(r), <<"tree", t>>)
<1> DEFINE ss == [i \in 1 .. Tiles |-> TileCalls(r, i - 1)]
           H(n) == {q \in Seq(CallSet) :
                      /\ ~Listed(q, Request)
                      /\ \A t \in TileIds : Once(q, <<"tree", t>>)
                      /\ \A t \in TileIds : Listed(q, <<"tree", t>>) <=> t < n
                      /\ \A k \in Clusters : Before(q, TreeOf(k), <<"cluster", k>>)}
           G == [n \in 1 .. Tiles |-> H(n)]
<1>1. ASSUME NEW i \in 1 .. Tiles
      PROVE  /\ i - 1 \in TileIds /\ ss[i] \in Seq(CallSet)
             /\ ~Listed(ss[i], Request)
             /\ \A t \in TileIds : Once(ss[i], <<"tree", t>>)
             /\ \A t \in TileIds : Listed(ss[i], <<"tree", t>>) <=> t = i - 1
             /\ \A k \in Clusters : Before(ss[i], TreeOf(k), <<"cluster", k>>)
  <2>1. i - 1 \in TileIds
    BY Shape DEF TileIds
  <2>2. Listed(TileCalls(r, i - 1), <<"tree", i - 1>>)
    <3> DEFINE t == i - 1
               b == FlattenSeq(TileClusters(r, t))
    <3>1. b \in Seq(CallSet)
      BY <2>1, TileClustersFacts
    <3>2. Listed(<<<<"tree", t>>>>, <<"tree", t>>) /\ <<<<"tree", t>>>> \in Seq(CallSet)
      BY <2>1 DEF Listed, CallSet, TileIds
    <3> HIDE DEF b
    <3>3. Listed(<<<<"tree", t>>>> \o b, <<"tree", t>>)
      BY <3>1, <3>2, JoinFacts
    <3> QED
      BY <3>3 DEF TileCalls, b
  <2>3. \A u \in TileIds \ {i - 1} : Once(TileCalls(r, i - 1), <<"tree", u>>)
    BY <2>1, TileCallsFacts DEF Once, Listed
  <2> QED
    BY <2>1, <2>2, <2>3, TileCallsFacts
<1>2. ss \in Seq(Seq(CallSet)) /\ Len(ss) = Tiles /\ Tiles \in Nat \ {0}
  BY <1>1, Shape
<1> HIDE DEF ss
<1>3. ss[1] \in G[1]
  <2>1. 1 \in 1 .. Tiles /\ \A t \in TileIds : t < 1 <=> t = 1 - 1
    BY <1>2 DEF TileIds
  <2> QED
    BY <1>1, <2>1
<1>4. ASSUME NEW n \in 1 .. Tiles - 1, NEW q \in Seq(CallSet), q \in G[n]
      PROVE  q \o ss[n + 1] \in G[n + 1]
  <2>1. n \in 1 .. Tiles /\ n + 1 \in 1 .. Tiles /\ (n + 1) - 1 = n
    BY <1>2
  <2>2. q \in H(n)
    BY <1>4, <2>1
  <2> DEFINE b == ss[n + 1]
  <2>3. /\ b \in Seq(CallSet)
        /\ ~Listed(b, Request)
        /\ \A t \in TileIds : Once(b, <<"tree", t>>)
        /\ \A t \in TileIds : Listed(b, <<"tree", t>>) <=> t = n
        /\ \A k \in Clusters : Before(b, TreeOf(k), <<"cluster", k>>)
    BY <1>1, <2>1
  <2> HIDE DEF b
  <2>4. \A t \in TileIds : t < n + 1 <=> t < n \/ t = n
    BY <1>2 DEF TileIds
  <2>5. \A t \in TileIds : Listed(q \o b, <<"tree", t>>) <=> t < n + 1
    BY <2>2, <2>3, <2>4, JoinFacts
  <2>6. \A t \in TileIds : ~(t < n /\ t = n)
    BY <1>2 DEF TileIds
  <2>7. \A t \in TileIds : Once(q \o b, <<"tree", t>>)
    BY <2>2, <2>3, <2>6, JoinFacts
  <2>8. ~Listed(q \o b, Request)
        /\ \A k \in Clusters : Before(q \o b, TreeOf(k), <<"cluster", k>>)
    BY <2>2, <2>3, JoinFacts
  <2>9. q \o b \in Seq(CallSet)
    BY <2>3
  <2>10. q \o b \in H(n + 1)
    BY <2>5, <2>7, <2>8, <2>9
  <2> QED
    BY <2>1, <2>10 DEF b
<1>5. FlattenSeq(ss) \in Seq(CallSet) /\ FlattenSeq(ss) \in G[Tiles]
  <2> HIDE DEF G
  <2> QED
    BY <1>2, <1>3, <1>4, Flattened
<1> DEFINE a == <<Request, <<"reply", 0>>>>
           b == FlattenSeq(ss)
<1>6. Calls(r) = a \o b
  BY DEF Calls, ss, TileCalls, TileClusters, ClusterCalls, Turn, Request
<1>7. /\ b \in Seq(CallSet) /\ ~Listed(b, Request)
      /\ \A t \in TileIds : Once(b, <<"tree", t>>) /\ Listed(b, <<"tree", t>>)
      /\ \A k \in Clusters : Before(b, TreeOf(k), <<"cluster", k>>)
  <2>1. Tiles \in 1 .. Tiles /\ \A t \in TileIds : t < Tiles
    BY <1>2 DEF TileIds
  <2>2. b \in H(Tiles)
    BY <1>5, <2>1
  <2> QED
    BY <2>1, <2>2
<1> HIDE DEF b
<1>8. /\ a \in Seq(CallSet) /\ Len(a) = 2 /\ a[1] = Request /\ a[2] = <<"reply", 0>>
      /\ DOMAIN a = 1 .. 2
  BY DEF CallSet, Request
<1>9. \A t : ~Listed(a, <<"tree", t>>)
  BY DEF Listed, Request
<1> HIDE DEF a
<1>10. /\ \A t : Once(a, <<"tree", t>>)
       /\ \A k \in Clusters : Before(a, TreeOf(k), <<"cluster", k>>)
  BY <1>9 DEF Once, Before, Listed, TreeOf
<1> DEFINE s == a \o b
<1>11. s \in Seq(CallSet) /\ Len(s) > 0 /\ s[1] = Request /\ IsJoin(CallSet, s, a, b)
  <2>1. IsJoin(CallSet, s, a, b)
    BY <1>7, <1>8, Joined
  <2> QED
    BY <1>7, <1>8, <2>1 DEF IsJoin
<1>12. /\ \A t \in TileIds : Once(s, <<"tree", t>>) /\ Listed(s, <<"tree", t>>)
       /\ \A k \in Clusters : Before(s, TreeOf(k), <<"cluster", k>>)
  BY <1>7, <1>8, <1>9, <1>10, JoinFacts
<1>13. ASSUME NEW i \in DOMAIN s, s[i] = Request
       PROVE  i = 1
  <2>1. i \in 1 .. 2 + Len(b) /\ Len(b) \in Nat
    BY <1>7, <1>8, <1>11 DEF IsJoin
  <2>2. i = 1 \/ i = 2 \/ (i - 2 \in 1 .. Len(b) /\ 2 + (i - 2) = i)
    BY <2>1
  <2>3. CASE i = 2
    <3>1. s[2] = <<"reply", 0>>
      BY <1>8, <1>11 DEF IsJoin
    <3> QED
      BY <1>13, <2>3, <3>1 DEF Request
  <2>4. CASE i - 2 \in 1 .. Len(b) /\ 2 + (i - 2) = i
    <3>1. s[i] = b[i - 2] /\ i - 2 \in DOMAIN b
      BY <1>7, <1>8, <1>11, <2>4 DEF IsJoin
    <3> QED
      BY <1>7, <1>13, <3>1 DEF Listed
  <2> QED
    BY <2>2, <2>3, <2>4
<1> QED
  BY <1>6, <1>11, <1>12, <1>13 DEF Ordered, s
-----------------------------------------------------------------------------
(* The strict ports that may be in use before the calls s.  The root of a  *)
(* tree goes to the request crossbar of the next cycle, its leaves to the  *)
(* clusters called after it.                                               *)
StartsCycle(s) == s # <<>> /\ s[1] = Request
May(s) ==
  {<<"request_in", t>> : t \in {u \in TileIds : StartsCycle(s) \/ ~Listed(s, <<"tree", u>>)}}
    \union {<<"memside_in", k>> :
              k \in {j \in Clusters : Listed(s, <<"cluster", j>>) /\ ~Listed(s, TreeOf(j))}}

LEMMA TailOrdered ==
  ASSUME NEW s, Ordered(s), s # <<>>
  PROVE  /\ Ordered(Tail(s)) /\ ~StartsCycle(Tail(s))
         /\ Head(s) = s[1]
         /\ \A x : Listed(s, x) <=> x = Head(s) \/ Listed(Tail(s), x)
         /\ \A t \in TileIds : Head(s) = <<"tree", t>> => ~Listed(Tail(s), <<"tree", t>>)
         /\ \A k \in Clusters : Head(s) = TreeOf(k) => Listed(Tail(s), <<"cluster", k>>)
<1> DEFINE r == Tail(s)
           m == Len(r)
<1>1. /\ r \in Seq(CallSet) /\ m \in Nat /\ DOMAIN r = 1 .. m /\ DOMAIN s = 1 .. m + 1
      /\ s \in Seq(CallSet) /\ Head(s) = s[1] /\ (m = 0 => r = <<>>)
      /\ \A i \in 1 .. m : r[i] = s[i + 1]
  BY DEF Ordered
<1>2. \A i \in DOMAIN s : i = 1 \/ (i # 1 /\ i > 1 /\ i - 1 \in DOMAIN r /\ s[i] = r[i - 1])
  <2> SUFFICES ASSUME NEW i \in DOMAIN s, i # 1
               PROVE  i > 1 /\ i - 1 \in DOMAIN r /\ s[i] = r[i - 1]
    OBVIOUS
  <2>1. i > 1 /\ i - 1 \in 1 .. m /\ (i - 1) + 1 = i
    BY <1>1
  <2> QED
    BY <1>1, <2>1
<1>3. /\ \A i \in DOMAIN r : i + 1 \in DOMAIN s /\ i + 1 # 1 /\ s[i + 1] = r[i] /\ i \in Nat
      /\ 1 \in DOMAIN s
  BY <1>1
<1> HIDE DEF r, m
<1>4. \A x : Listed(s, x) <=> x = s[1] \/ Listed(r, x)
  BY <1>2, <1>3 DEF Listed
<1>5. \A i \in DOMAIN r : r[i] # Request
  BY <1>3 DEF Ordered
<1>6. \A t \in TileIds : Once(r, <<"tree", t>>)
  <2> SUFFICES ASSUME NEW t \in TileIds, NEW i \in DOMAIN r, NEW j \in DOMAIN r,
                      r[i] = <<"tree", t>>, r[j] = <<"tree", t>>
               PROVE  i = j
    BY DEF Once
  <2>1. i + 1 = j + 1
    BY <1>3 DEF Ordered, Once
  <2> QED
    BY <1>3, <2>1
<1>7. \A k \in Clusters : Before(r, TreeOf(k), <<"cluster", k>>)
  <2> SUFFICES ASSUME NEW k \in Clusters, NEW i \in DOMAIN r, r[i] = TreeOf(k)
               PROVE  \E j \in DOMAIN r : i < j /\ r[j] = <<"cluster", k>>
    BY DEF Before
  <2>1. PICK j \in DOMAIN s : i + 1 < j /\ s[j] = <<"cluster", k>>
    BY <1>3 DEF Ordered, Before
  <2>2. j # 1 /\ i < j - 1
    BY <1>1, <1>3, <2>1
  <2> QED
    BY <1>2, <2>1, <2>2
<1>8. Ordered(r)
  BY <1>1, <1>5, <1>6, <1>7 DEF Ordered, r
<1>9. ASSUME NEW t \in TileIds, s[1] = <<"tree", t>>
      PROVE  ~Listed(r, <<"tree", t>>)
  BY <1>3, <1>9 DEF Listed, Ordered, Once
<1>10. ASSUME NEW k \in Clusters, s[1] = TreeOf(k)
       PROVE  Listed(r, <<"cluster", k>>)
  <2>1. PICK j \in DOMAIN s : 1 < j /\ s[j] = <<"cluster", k>>
    BY <1>3, <1>10 DEF Ordered, Before
  <2> QED
    BY <1>2, <2>1 DEF Listed
<1>11. ~StartsCycle(r)
  <2> SUFFICES ASSUME r # <<>> PROVE r[1] # Request
    BY DEF StartsCycle
  <2>1. 1 \in DOMAIN r
    <3>1. m # 0
      BY <1>1 DEF r, m
    <3> QED
      BY <3>1, <1>1 DEF r, m
  <2> QED
    BY <1>5, <2>1
<1> QED
  BY <1>1, <1>4, <1>8, <1>9, <1>10, <1>11 DEF r

(* What the call of a component does to the ports that may be in use.      *)
LEMMA MayAfter ==
  ASSUME NEW s, Ordered(s), s # <<>>
  PROVE  /\ Head(s) = Request => May(s) \ RequestIns \subseteq May(Tail(s))
         /\ Head(s)[1] \in {"reply", "core"} => May(s) \subseteq May(Tail(s))
         /\ \A t \in TileIds : Head(s) = <<"tree", t>> =>
              /\ May(s) \intersect TreePorts(t) = {}
              /\ May(s) \union TreePorts(t) \subseteq May(Tail(s))
         /\ \A k \in Clusters : Head(s) = <<"cluster", k>> =>
              May(s) \ {<<"memside_in", k>>} \subseteq May(Tail(s))
<1> DEFINE r == Tail(s)
           h == Head(s)
<1>1. /\ ~StartsCycle(r)
      /\ StartsCycle(s) <=> h = Request
      /\ \A x : Listed(s, x) <=> x = h \/ Listed(r, x)
      /\ \A t \in TileIds : h = <<"tree", t>> => ~Listed(r, <<"tree", t>>)
      /\ \A k \in Clusters : h = TreeOf(k) => Listed(r, <<"cluster", k>>)
  BY TailOrdered DEF StartsCycle
<1>2. \A k \in Clusters : TileOf(k) \in TileIds
  BY ClusterNumbers
<1> HIDE DEF r, h
<1>3. ASSUME h = Request PROVE May(s) \ RequestIns \subseteq May(r)
  BY <1>1, <1>3 DEF May, RequestIns, Request, TreeOf
<1>4. ASSUME h[1] \in {"reply", "core"} PROVE May(s) \subseteq May(r)
  <2>1. h # Request /\ \A u : h # <<"tree", u>> /\ h # <<"cluster", u>>
    BY <1>4 DEF Request
  <2>2. /\ ~StartsCycle(s) /\ ~StartsCycle(r)
        /\ \A u : Listed(s, <<"tree", u>>) <=> Listed(r, <<"tree", u>>)
        /\ \A u : Listed(s, <<"cluster", u>>) <=> Listed(r, <<"cluster", u>>)
    BY <1>1, <2>1
  <2> SUFFICES ASSUME NEW p \in May(s) PROVE p \in May(r)
    OBVIOUS
  <2>4. CASE \E t \in TileIds : p = <<"request_in", t>> /\ ~Listed(s, <<"tree", t>>)
    BY <2>2, <2>4 DEF May
  <2>5. CASE \E k \in Clusters : p = <<"memside_in", k>> /\ Listed(s, <<"cluster", k>>)
                                  /\ ~Listed(s, TreeOf(k))
    <3>1. PICK k \in Clusters : /\ p = <<"memside_in", k>> /\ Listed(s, <<"cluster", k>>)
                                /\ ~Listed(s, TreeOf(k))
      BY <2>5
    <3>2. Listed(r, <<"cluster", k>>)
      BY <2>2, <3>1
    <3>3. ~Listed(r, TreeOf(k))
      BY <2>2, <3>1 DEF TreeOf
    <3> QED
      BY <3>1, <3>2, <3>3 DEF May
  <2> QED
    BY <2>2, <2>4, <2>5 DEF May
<1>5. ASSUME NEW t \in TileIds, h = <<"tree", t>>
      PROVE  /\ May(s) \intersect TreePorts(t) = {}
             /\ May(s) \union TreePorts(t) \subseteq May(r)
  <2>1. ~StartsCycle(s) /\ Listed(s, <<"tree", t>>) /\ ~Listed(r, <<"tree", t>>)
    BY <1>1, <1>5 DEF Request
  <2>2. <<"request_in", t>> \notin May(s) /\ <<"request_in", t>> \in May(r)
    BY <2>1 DEF May
  <2>3. ASSUME NEW k \in ClustersOf(t)
        PROVE  <<"memside_in", k>> \notin May(s) /\ <<"memside_in", k>> \in May(r)
    <3>1. k \in Clusters /\ TreeOf(k) = <<"tree", t>>
      BY DEF ClustersOf, TreeOf
    <3>2. Listed(s, TreeOf(k)) /\ ~Listed(r, TreeOf(k)) /\ Listed(r, <<"cluster", k>>)
      BY <1>1, <1>5, <2>1, <3>1
    <3> QED
      BY <3>1, <3>2 DEF May
  <2>4. May(s) \subseteq May(r)
    BY <1>1, <1>5, <2>1 DEF May, TreeOf
  <2> QED
    BY <2>2, <2>3, <2>4 DEF TreePorts, TileIns
<1>6. ASSUME NEW k \in Clusters, h = <<"cluster", k>>
      PROVE  May(s) \ {<<"memside_in", k>>} \subseteq May(r)
  BY <1>1, <1>6 DEF May, Request, TreeOf
<1> QED
  BY <1>3, <1>4, <1>5, <1>6 DEF r, h

LEMMA MayFirst ==
  ASSUME NEW r \in 0 .. ClustersPerTile - 1
  PROVE  Ordered(Calls(r)) /\ May(<<>>) \subseteq May(Calls(r))
<1>1. StartsCycle(Calls(r)) /\ Ordered(Calls(r))
  BY CallsOrdered DEF StartsCycle
<1>2. \A x : ~Listed(<<>>, x)
  BY DEF Listed
<1> QED
  BY <1>1, <1>2 DEF May
-----------------------------------------------------------------------------
(***************************************************************************)
(* The inductive invariant.                                                *)
(***************************************************************************)

(* The threads whose access was made and that have not read the reply.     *)
Done == {g \in Threads : Stalled(g) /\ req[g].done}

(* The shape of what a core keeps.                                         *)
Kept ==
  /\ rotation \in 0 .. ClustersPerTile - 1
  /\ current \in [Cores -> 0 .. ThreadsPerCore - 1]
  /\ active \in [Cores -> SUBSET Threads]
  /\ \A c \in Cores : \A g \in active[c] : CoreOf(g) = c
  /\ DOMAIN req = Threads
  /\ \A g \in Threads : Stalled(g) =>
       /\ req[g] = [msg |-> req[g].msg, addr |-> req[g].addr, data |-> req[g].data,
                    operand |-> req[g].operand, done |-> req[g].done]
       /\ req[g].done \/ req[g].msg \in Service!Messages

(* A stalled thread is one its core has, and the only one; its packet is in
   the network as soon as the port took it, and was not served before.     *)
Waiting ==
  /\ \A g \in Threads : Stalled(g) => g \in active[CoreOf(g)]
  /\ \A g, h \in Threads : Stalled(g) /\ Stalled(h) /\ CoreOf(g) = CoreOf(h) => g = h
  /\ pending \subseteq {g \in Threads : Stalled(g)}
  /\ \A g \in Threads \ pending : Stalled(g) => ~req[g].done

Carried == Good(net, pending, Done)
InTurn == Ordered(turn) /\ Busy(net) \subseteq May(turn)

IInv == Kept /\ Waiting /\ Carried /\ InTurn

LEMMA PendingFacts ==
  ASSUME Waiting PROVE OnePerCore(pending)
  BY DEF Waiting, OnePerCore

LEMMA ServiceFacts ==
  /\ Service!Messages \intersect Service!Replies = {}
  /\ \A r \in Requests : r[2] \in Service!Messages /\ r[1] \in Threads
<1>1. Service!Messages \intersect Service!Replies = {}
  BY DEF Service!Messages, Service!Replies, Service!Atomics
<1>2. \A r \in Requests : r[2] \in Service!Messages /\ r[1] \in Threads
  BY RequestAssumption
<1> QED
  BY <1>1, <1>2

LEMMA Completed ==
  ASSUME NEW p, NEW m, NEW v,
         p = [msg |-> p.msg, addr |-> p.addr, data |-> p.data,
              operand |-> p.operand, done |-> p.done]
  PROVE  [p EXCEPT !.msg = m, !.data = v, !.done = TRUE]
           = [msg |-> m, addr |-> p.addr, data |-> v, operand |-> p.operand, done |-> TRUE]
<1> DEFINE q == [p EXCEPT !.msg = m, !.data = v, !.done = TRUE]
<1>1. p \in [msg : {p.msg}, addr : {p.addr}, data : {p.data},
             operand : {p.operand}, done : {p.done}]
  OBVIOUS
<1>2. q \in [msg : {m}, addr : {p.addr}, data : {v}, operand : {p.operand}, done : {TRUE}]
  BY <1>1
<1> HIDE DEF q
<1>3. q = [msg |-> m, addr |-> p.addr, data |-> v, operand |-> p.operand, done |-> TRUE]
  BY <1>2
<1> QED
  BY <1>3 DEF q

(* An access of a packet that was not served is the step of the service    *)
(* that serves it, and does it.                                            *)
LEMMA AccessServes ==
  ASSUME Kept, NEW g \in Threads, Stalled(g), ~req[g].done, Service!doMemoryAccess(g)
  PROVE  /\ Service!Next /\ DOMAIN req' = Threads
         /\ \A h \in Threads \ {g} : req'[h] = req[h]
         /\ req'[g] = [msg |-> req'[g].msg, addr |-> req'[g].addr, data |-> req'[g].data,
                       operand |-> req'[g].operand, done |-> TRUE]
         /\ Done' = Done \union {g}
         /\ \A h \in Threads : Stalled(h)' <=> Stalled(h)
<1>1. Service!Next
  BY DEF Service!Next, Service!Serve, Stalled
<1>2. PICK m, v : Service!Complete(g, m, v)
  BY DEF Service!doMemoryAccess, Service!Load, Service!Store, Service!LoadLinked,
         Service!StoreConditional, Service!GlobalAtomic
<1>3. DOMAIN req' = Threads /\ \A h \in Threads \ {g} : req'[h] = req[h]
  BY <1>2 DEF Service!Complete, Kept
<1>4. req'[g] = [msg |-> m, addr |-> req[g].addr, data |-> v,
                 operand |-> req[g].operand, done |-> TRUE]
  <2>1. req'[g] = [req[g] EXCEPT !.msg = m, !.data = v, !.done = TRUE]
    BY <1>2 DEF Service!Complete, Kept
  <2>2. req[g] = [msg |-> req[g].msg, addr |-> req[g].addr, data |-> req[g].data,
                  operand |-> req[g].operand, done |-> req[g].done]
    BY DEF Kept
  <2> QED
    BY <2>1, <2>2, Completed
<1>5. Stalled(g)' /\ req'[g].done
  BY <1>4 DEF Stalled, Service!NoPacket
<1>6. \A h \in Threads : Stalled(h)' <=> Stalled(h)
  BY <1>3, <1>5 DEF Stalled
<1>7. Done' = Done \union {g}
  BY <1>3, <1>5, <1>6 DEF Done
<1> QED
  BY <1>1, <1>3, <1>4, <1>6, <1>7

(* A packet at a port that holds one is a pending one.                     *)
LEMMA PortFacts ==
  ASSUME NEW n, NEW P, NEW D, Good(n, P, D), NEW q \in PortIds, ~Ready(n, q)
  PROVE  /\ n.port[q] \in P /\ n.port[q] \in Threads
         /\ CoreOf(n.port[q]) \in Home(q)
         /\ n.port[q] \in D <=> q[1] \in Served
         /\ Holds(n, q, n.port[q])
<1>1. n.port[q] \in Threads /\ Holds(n, q, n.port[q]) /\ q \in Spots
  BY DEF Good, Nets, Ready, Holds, Spots
<1> QED
  BY <1>1 DEF Good

(* The core takes its packet from a port, or gives it to one.              *)
LEMMA Removed ==
  ASSUME NEW n, NEW P, NEW D, Good(n, P, D), NEW q \in PortIds, ~Ready(n, q)
  PROVE  LET g == n.port[q] IN
           /\ Good(Read(n, q), P \ {g}, D \ {g})
           /\ Busy(Read(n, q)) \subseteq Busy(n)
<1> DEFINE g == n.port[q]
           m == Take(n, q)
<1>1. g \in P /\ Holds(n, q, g) /\ q \in Spots /\ g = FrontOf(n, q) /\ g # NoPacketHere
      /\ n \in Nets /\ m = Read(n, q) /\ g \in Threads
  <2>1. g \in P /\ Holds(n, q, g) /\ g \in Threads
    BY PortFacts
  <2>2. g = FrontOf(n, q) /\ g # NoPacketHere /\ m = Read(n, q)
    BY DEF FrontOf, Ready, Take
  <2>3. q \in Spots /\ n \in Nets
    BY DEF Spots, Good
  <2> QED
    BY <2>1, <2>2, <2>3
<1>2. \A f \in FifoIds : \A i, j \in DOMAIN n.fifo[f] : n.fifo[f][i] = n.fifo[f][j] => i = j
  BY DEF Good
<1>3. /\ m \in Nets /\ m.exit = n.exit
      /\ \A r \in PortIds : m.port[r] = IF r = q THEN NoPacketHere ELSE n.port[r]
      /\ \A r \in Spots \ {q} : \A h : Holds(m, r, h) <=> Holds(n, r, h)
      /\ \A h \in Threads : Holds(m, q, h) <=> Holds(n, q, h) /\ h # g
      /\ \A f \in FifoIds : \A i, j \in DOMAIN m.fifo[f] : m.fifo[f][i] = m.fifo[f][j] => i = j
  <2> HIDE DEF m, g
  <2> QED
    BY <1>1, <1>2, TakeFacts DEF m
<1> HIDE DEF m, g
<1>4. \A h \in Threads : \A r \in Spots : Holds(m, r, h) => Holds(n, r, h)
  BY <1>3
<1>5. \A h \in Threads : \A r, s \in Spots : Holds(m, r, h) /\ Holds(m, s, h) => r = s
  BY <1>4 DEF Good
<1>6. \A r \in Spots : ~Holds(m, r, g)
  BY <1>1, <1>3 DEF Good
<1>7. \A h \in Threads : \A r \in Spots : Holds(m, r, h) =>
        /\ h \in P \ {g} /\ CoreOf(h) \in Home(r)
        /\ h \in D \ {g} <=> r[1] \in Served
  BY <1>4, <1>6 DEF Good
<1>8. ASSUME NEW h \in P \ {g}
      PROVE  \E r \in Spots : Holds(m, r, h)
  <2>1. PICK r \in Spots : Holds(n, r, h)
    BY DEF Good
  <2>2. CASE r = q
    BY <1>1, <2>1, <2>2 DEF Holds, g
  <2> QED
    BY <1>3, <2>1, <2>2
<1>9. Good(m, P \ {g}, D \ {g})
  BY <1>3, <1>5, <1>7, <1>8 DEF Good
<1>10. Busy(m) \subseteq Busy(n)
  BY <1>3 DEF Busy, Strict, Ready
<1> QED
  BY <1>1, <1>9, <1>10 DEF g

LEMMA Inserted ==
  ASSUME NEW n, NEW P \in SUBSET Threads, NEW D, Good(n, P, D), NEW g \in Threads \ P, g \notin D,
         NEW q, q = <<"coreside_in", CoreOf(g)>>, Ready(n, q)
  PROVE  /\ Good(Accept(n, q, g), P \union {g}, D) /\ Accept(n, q, g) # n
         /\ Busy(Accept(n, q, g)) \subseteq Busy(n)
<1> DEFINE m == Put(n, q, g)
<1>1. /\ CoreOf(g) \in Cores /\ q \in PortIds /\ q \notin FifoIds /\ q \in Spots
      /\ m = Accept(n, q, g) /\ n \in Nets /\ Home(q) = {CoreOf(g)}
      /\ q[1] \notin Served /\ q \notin Strict /\ n.port[q] = NoPacketHere
      /\ g # NoPacketHere
  BY ThreadNumbers, Spot, SpotFacts, Homes
     DEF Spots, Put, Good, CoreSpots, Served, Strict, Ready
<1>2. \A f \in FifoIds : \A i, j \in DOMAIN n.fifo[f] : n.fifo[f][i] = n.fifo[f][j] => i = j
  BY DEF Good
<1>3. \A r \in Spots : ~Holds(n, r, g)
  BY DEF Good
<1>4. /\ m \in Nets /\ m.exit = n.exit
      /\ \A r \in PortIds \ {q} : m.port[r] = n.port[r]
      /\ \A r \in Spots \ {q} : \A h : Holds(m, r, h) <=> Holds(n, r, h)
      /\ \A h \in Threads : Holds(m, q, h) <=> Holds(n, q, h) \/ h = g
      /\ \A f \in FifoIds : \A i, j \in DOMAIN m.fifo[f] : m.fifo[f][i] = m.fifo[f][j] => i = j
  <2> HIDE DEF m
  <2> QED
    BY <1>1, <1>2, <1>3, PutFacts DEF m
<1>5. Accept(n, q, g) # n
  BY <1>1 DEF Accept, Nets
<1> HIDE DEF m
<1>6. \A h \in Threads : ~Holds(n, q, h)
  <2>1. \A h \in Threads : h # NoPacketHere
    BY SpotFacts
  <2> QED
    BY <1>1, <2>1 DEF Holds
<1>7. \A h \in Threads : \A r \in Spots :
        Holds(m, r, h) <=> Holds(n, r, h) \/ (r = q /\ h = g)
  BY <1>1, <1>4
<1>8. \A h \in Threads : \A r, s \in Spots : Holds(m, r, h) /\ Holds(m, s, h) => r = s
  BY <1>3, <1>7 DEF Good
<1>9. \A h \in Threads : \A r \in Spots : Holds(m, r, h) =>
        /\ h \in P \union {g} /\ CoreOf(h) \in Home(r)
        /\ h \in D <=> r[1] \in Served
  BY <1>1, <1>7 DEF Good
<1>10. \A h \in P \union {g} : \E r \in Spots : Holds(m, r, h)
  <2>1. \A h \in P : \E r \in Spots : Holds(n, r, h) /\ h \in Threads
    BY DEF Good
  <2> QED
    BY <1>1, <1>7, <2>1
<1>11. Good(m, P \union {g}, D)
  BY <1>4, <1>8, <1>9, <1>10 DEF Good
<1>12. Busy(m) \subseteq Busy(n)
  BY <1>1, <1>4 DEF Busy, Strict, Ready
<1> QED
  BY <1>1, <1>5, <1>11, <1>12
-----------------------------------------------------------------------------
(***************************************************************************)
(* The steps.                                                              *)
(***************************************************************************)

(* What a call other than a core's leaves alone.                           *)
LEMMA NetStep ==
  ASSUME IInv, UNCHANGED <<rotation, cores, memory>>,
         Good(net', pending, Done), Ordered(turn'), Busy(net') \subseteq May(turn')
  PROVE  IInv' /\ [Service!Next]_(Service!vars)
<1>1. UNCHANGED <<rotation, current, active, pending, mem, link, req, fresh>>
  BY DEF cores, memory
<1>2. Kept'
  BY <1>1 DEF Kept, Stalled, IInv
<1>3. Waiting'
  BY <1>1 DEF Waiting, Stalled, IInv
<1>4. Done' = Done
  BY <1>1 DEF Done, Stalled
<1>5. Carried' /\ InTurn'
  BY <1>1, <1>4 DEF Carried, InTurn, Busy, Ready
<1> QED
  BY <1>1, <1>2, <1>3, <1>5 DEF IInv, Service!vars

LEMMA Caller ==
  ASSUME IInv, NEW kind, NEW x, Called(kind, x)
  PROVE  /\ turn # <<>> /\ turn' = Tail(turn) /\ Head(turn) = <<kind, x>>
         /\ Ordered(turn) /\ Ordered(turn') /\ UNCHANGED rotation
         /\ Busy(net) \subseteq May(turn)
         /\ Good(net, pending, Done) /\ OnePerCore(pending)
  BY PendingFacts, TailOrdered DEF Called, IInv, InTurn, Carried

LEMMA RequestStep ==
  ASSUME Sized, IInv, RequestCrossBar
  PROVE  IInv' /\ [Service!Next]_(Service!vars)
<1>1. /\ Called("request", 0) /\ net' = Route(net, RequestHops)
      /\ UNCHANGED <<cores, memory>>
  BY DEF RequestCrossBar
<1>2. /\ Good(net', pending, Done)
      /\ Busy(net') \subseteq Busy(net) \ RequestIns
  BY <1>1, Caller, RequestRoute
<1>3. May(turn) \ RequestIns \subseteq May(turn')
  BY <1>1, Caller, MayAfter DEF Request
<1> QED
  BY <1>1, <1>2, <1>3, Caller, NetStep

LEMMA ReplyStep ==
  ASSUME Sized, IInv, ReplyCrossBar
  PROVE  IInv' /\ [Service!Next]_(Service!vars)
<1>1. /\ Called("reply", 0) /\ net' = Route(net, ReplyHops)
      /\ UNCHANGED <<cores, memory>>
  BY DEF ReplyCrossBar
<1>2. Good(net', pending, Done) /\ Busy(net') \subseteq Busy(net)
  BY <1>1, Caller, ReplyRoute
<1>3. May(turn) \subseteq May(turn')
  <2>1. /\ turn # <<>> /\ turn' = Tail(turn) /\ Head(turn)[1] = "reply" /\ Ordered(turn)
    BY <1>1, Caller
  <2> QED
    BY <2>1, MayAfter
<1> QED
  BY <1>1, <1>2, <1>3, Caller, NetStep

LEMMA TreeStep ==
  ASSUME Sized, IInv, NEW t \in TileIds, Tree(t)
  PROVE  IInv' /\ [Service!Next]_(Service!vars)
<1>1. /\ Called("tree", t) /\ UNCHANGED <<cores, memory>>
      /\ net' = IF TileHalted(t) THEN net ELSE Route(net, TreeHops(t))
  BY DEF Tree
<1>2. /\ May(turn) \intersect TreePorts(t) = {}
      /\ May(turn) \union TreePorts(t) \subseteq May(turn')
  <2>1. /\ turn # <<>> /\ turn' = Tail(turn) /\ Head(turn) = <<"tree", t>> /\ Ordered(turn)
    BY <1>1, Caller
  <2> QED
    BY <2>1, MayAfter
<1>3. Busy(net) \subseteq May(turn) /\ Good(net, pending, Done) /\ OnePerCore(pending)
  BY <1>1, Caller
<1>4. Good(net', pending, Done) /\ Busy(net') \subseteq Busy(net) \union TreePorts(t)
  <2>1. CASE net' = net
    BY <1>3, <2>1
  <2>2. CASE net' = Route(net, TreeHops(t))
    <3>1. Busy(net) \intersect TreePorts(t) = {}
      BY <1>2, <1>3
    <3> QED
      BY <1>3, <2>2, <3>1, TreeRoute
  <2> QED
    BY <1>1, <2>1, <2>2
<1>5. Busy(net') \subseteq May(turn')
  BY <1>2, <1>3, <1>4
<1> QED
  BY <1>1, <1>4, <1>5, Caller, NetStep

(* The packet at the memory side of a cluster is one of its own, stalled.  *)
LEMMA AtMemory ==
  ASSUME IInv, NEW k \in Clusters, NEW g, g = net.port[<<"memside_in", k>>],
         g # NoPacketHere
  PROVE  /\ ~ClusterHalted(k) /\ g \in pending /\ g \in Threads /\ Stalled(g)
         /\ ~req[g].done /\ req[g].msg \notin Service!Replies
<1>1. <<"memside_in", k>> \in PortIds /\ ~Ready(net, <<"memside_in", k>>)
  BY Spot DEF Ready
<1>2. g \in pending /\ g \in Threads /\ CoreOf(g) \in CoresOf(k) /\ g \notin Done
  <2> DEFINE q == <<"memside_in", k>>
  <2>1. Home(q) = CoresOf(k) /\ q[1] \notin Served
    BY Homes DEF ClusterSpots, Served
  <2>2. Good(net, pending, Done)
    BY DEF IInv, Carried
  <2>3. q \in PortIds /\ ~Ready(net, q) /\ g = net.port[q]
    BY <1>1
  <2> HIDE DEF q
  <2> QED
    BY <2>1, <2>2, <2>3, PortFacts
<1>3. Stalled(g) /\ ~req[g].done /\ g \in active[CoreOf(g)]
  BY <1>2 DEF IInv, Waiting, Done
<1>4. ~ClusterHalted(k)
  BY <1>2, <1>3 DEF ClusterHalted, CoreHalted
<1>5. req[g].msg \in Service!Messages
  BY <1>2, <1>3 DEF IInv, Kept
<1> QED
  BY <1>2, <1>3, <1>4, <1>5, ServiceFacts

LEMMA ClusterStep ==
  ASSUME Sized, IInv, NEW k \in Clusters, ClusterCache(k)
  PROVE  IInv' /\ [Service!Next]_(Service!vars)
<1> DEFINE q == <<"memside_in", k>>
<1>0. PICK g : g = net.port[q]
  OBVIOUS
<1>1. Called("cluster", k) /\ UNCHANGED cores
  BY DEF ClusterCache
<1>2. /\ Busy(net) \subseteq May(turn) /\ Good(net, pending, Done) /\ OnePerCore(pending)
      /\ Ordered(turn') /\ UNCHANGED rotation
      /\ May(turn) \ {q} \subseteq May(turn')
  BY <1>1, Caller, MayAfter
<1>3. CASE ClusterHalted(k)
  <2>1. g = NoPacketHere
    BY <1>0, <1>3, AtMemory
  <2>2. q \notin Busy(net) /\ UNCHANGED <<net, memory>>
    BY <1>3, <1>0, <2>1 DEF Busy, Ready, ClusterCache
  <2>3. Busy(net') \subseteq May(turn') /\ Good(net', pending, Done)
    BY <1>2, <2>2
  <2> QED
    BY <1>1, <1>2, <2>2, <2>3, NetStep
<1>4. CASE ~ClusterHalted(k) /\ g = NoPacketHere
  <2>1. net' = CCacheStep(net, k) /\ UNCHANGED memory
    BY <1>0, <1>4 DEF ClusterCache
  <2>2. Busy(net') \subseteq Busy(net) \ {q} /\ Good(net', pending, Done)
    BY <1>0, <1>2, <1>4, <2>1, CCacheFacts
  <2>3. Busy(net') \subseteq May(turn')
    BY <1>2, <2>2
  <2> QED
    BY <1>1, <1>2, <2>1, <2>2, <2>3, NetStep
<1>5. CASE g # NoPacketHere
  <2>1. /\ ~ClusterHalted(k) /\ g \in pending /\ g \in Threads /\ Stalled(g)
        /\ ~req[g].done /\ req[g].msg \notin Service!Replies
    BY <1>0, <1>5, AtMemory
  <2>2. net' = CCacheStep(net, k) /\ Service!doMemoryAccess(g)
    BY <1>0, <1>5, <2>1 DEF ClusterCache
  <2>3. /\ Busy(net') \subseteq Busy(net) \ {q}
        /\ Good(net', pending, Done \union {g})
    BY <1>0, <1>2, <1>5, <2>2, CCacheFacts
  <2>4. /\ Service!Next /\ DOMAIN req' = Threads
        /\ \A h \in Threads \ {g} : req'[h] = req[h]
        /\ req'[g] = [msg |-> req'[g].msg, addr |-> req'[g].addr, data |-> req'[g].data,
                      operand |-> req'[g].operand, done |-> TRUE]
        /\ Done' = Done \union {g}
        /\ \A h \in Threads : Stalled(h)' <=> Stalled(h)
    BY <2>1, <2>2, AccessServes DEF IInv
  <2>5. UNCHANGED <<current, active, pending>>
    BY <1>1 DEF cores
  <2>6. req'[g].done
    BY <2>4
  <2>7. Kept'
    <3>1. \A h \in Threads : Stalled(h)' =>
            req'[h] = [msg |-> req'[h].msg, addr |-> req'[h].addr, data |-> req'[h].data,
                       operand |-> req'[h].operand, done |-> req'[h].done]
      BY <2>4, <2>6 DEF IInv, Kept
    <3>2. \A h \in Threads : Stalled(h)' => req'[h].done \/ req'[h].msg \in Service!Messages
      BY <2>4, <2>6 DEF IInv, Kept
    <3> QED
      BY <1>2, <2>4, <2>5, <3>1, <3>2 DEF IInv, Kept
  <2>8. Waiting'
    BY <2>1, <2>4, <2>5 DEF IInv, Waiting
  <2>9. Carried'
    BY <2>3, <2>4, <2>5 DEF Carried
  <2>10. InTurn'
    BY <1>2, <2>3 DEF InTurn, Busy, Ready
  <2> QED
    BY <2>4, <2>7, <2>8, <2>9, <2>10 DEF IInv
<1> QED
  BY <1>3, <1>4, <1>5

LEMMA CycleStep ==
  ASSUME Sized, IInv, NextCycle
  PROVE  IInv' /\ [Service!Next]_(Service!vars)
<1>1. /\ rotation' = (rotation + 1) % ClustersPerTile /\ turn' = Calls(rotation')
      /\ UNCHANGED <<net, cores, memory>> /\ turn = <<>>
  BY DEF NextCycle
<1>2. rotation' \in 0 .. ClustersPerTile - 1
  <2>1. rotation + 1 \in Nat
    BY Shape DEF IInv, Kept
  <2> QED
    BY <1>1, <2>1, Shape, Quotient
<1>3. Ordered(turn') /\ May(turn) \subseteq May(turn')
  BY <1>1, <1>2, MayFirst
<1>4. UNCHANGED <<current, active, pending, mem, link, req, fresh>>
  BY <1>1 DEF cores, memory
<1>5. Kept' /\ Waiting'
  BY <1>2, <1>4 DEF Kept, Waiting, Stalled, IInv
<1>6. Done' = Done
  BY <1>4 DEF Done, Stalled
<1>7. Carried' /\ InTurn'
  BY <1>1, <1>3, <1>4, <1>6 DEF IInv, Carried, InTurn, Busy, Ready
<1> QED
  BY <1>4, <1>5, <1>7 DEF IInv, Service!vars
-----------------------------------------------------------------------------
(* The step of a core leaves the calls of the networks alone.              *)
LEMMA CoreTurn ==
  ASSUME IInv, NEW c \in Cores, Called("core", c), Busy(net') \subseteq Busy(net)
  PROVE  InTurn' /\ UNCHANGED rotation
<1>1. /\ turn # <<>> /\ turn' = Tail(turn) /\ Head(turn)[1] = "core" /\ Ordered(turn)
      /\ Ordered(turn') /\ Busy(net) \subseteq May(turn) /\ UNCHANGED rotation
  BY Caller
<1>2. May(turn) \subseteq May(turn')
  BY <1>1, MayAfter
<1> QED
  BY <1>1, <1>2 DEF InTurn, Busy, Ready

LEMMA HaltedStep ==
  ASSUME IInv, NEW c \in Cores, Called("core", c), UNCHANGED <<net, cores, memory>>
  PROVE  IInv' /\ [Service!Next]_(Service!vars)
<1>1. InTurn' /\ UNCHANGED rotation
  BY CoreTurn
<1> QED
  BY <1>1, Caller, NetStep DEF InTurn, Busy, Ready

(* A stalled thread waits for its reply, or sends its request again.       *)
LEMMA CheckStep ==
  ASSUME IInv, NEW c \in Cores, Called("core", c), NEW g \in StalledOf(c), g \in pending,
         checkMemoryRequest(c, g), UNCHANGED <<current, active, issued>>
  PROVE  IInv' /\ [Service!Next]_(Service!vars)
<1> DEFINE q == <<"from_ccache", c>>
<1>0. /\ g \in Threads /\ Stalled(g) /\ CoreOf(g) = c
      /\ Good(net, pending, Done) /\ pending \subseteq Threads
  BY DEF StalledOf, IInv, Kept, Waiting, Carried
<1>1. CASE Ready(net, q)
  <2>1. UNCHANGED <<net, cores, memory>>
    BY <1>1 DEF checkMemoryRequest, cores
  <2> QED
    BY <2>1, HaltedStep
<1>2. CASE ~Ready(net, q)
  <2>1. q \in PortIds /\ Home(q) = {c} /\ q[1] \in Served
    BY Spot, Homes DEF CoreSpots, Served
  <2> HIDE DEF q
  <2>2. net.port[q] \in pending /\ CoreOf(net.port[q]) = c /\ net.port[q] \in Done
    BY <1>0, <1>2, <2>1, PortFacts
  <2>3. net.port[q] = g /\ g \in Done /\ req[g].done
    BY <1>0, <2>2 DEF IInv, Waiting, Done
  <2>4. /\ net' = [net EXCEPT !.port[q] = NoPacketHere, !.exit = ~req[g].done]
        /\ pending' = pending \ {g} /\ Service!Retire(g)
    BY <1>2, <2>3 DEF checkMemoryRequest, q
  <2>5. net' = Read(net, q)
    <3>1. (~req[g].done) = FALSE /\ net.exit = FALSE /\ net \in Nets
      BY <1>0, <2>3 DEF Good, Nets
    <3>2. net' = [net EXCEPT !.port[q] = NoPacketHere, !.exit = FALSE]
      BY <2>3, <2>4, <3>1
    <3> QED
      BY <3>1, <3>2 DEF Read, Nets
  <2>6. Good(net', pending \ {g}, Done \ {g}) /\ Busy(net') \subseteq Busy(net)
    BY <1>0, <1>2, <2>1, <2>3, <2>5, Removed
  <2>7. /\ req'[g] = Service!NoPacket /\ DOMAIN req' = Threads
        /\ \A h \in Threads \ {g} : req'[h] = req[h]
    BY <1>0, <2>4 DEF Service!Retire, IInv, Kept
  <2>8. ~Stalled(g)' /\ \A h \in Threads \ {g} : Stalled(h)' <=> Stalled(h)
    BY <2>7 DEF Stalled
  <2>9. Done' = Done \ {g}
    BY <2>7, <2>8 DEF Done
  <2>10. InTurn' /\ UNCHANGED rotation
    BY <2>6, CoreTurn
  <2>11. Kept'
    BY <2>7, <2>8, <2>10 DEF IInv, Kept
  <2>12. Waiting'
    BY <2>4, <2>7, <2>8 DEF IInv, Waiting
  <2>13. Carried'
    BY <2>4, <2>6, <2>9 DEF Carried
  <2>14. Service!Next
    BY <1>0, <2>4 DEF Service!Next
  <2> QED
    BY <2>10, <2>11, <2>12, <2>13, <2>14 DEF IInv
<1> QED
  BY <1>1, <1>2

(* The port takes the packet of g, or keeps the one it has.                *)
LEMMA SendFacts ==
  ASSUME NEW n, NEW P \in SUBSET Threads, NEW D, Good(n, P, D), NEW g \in Threads \ P,
         g \notin D
  PROVE  LET m == sendMemoryRequest(n, g) IN
           /\ Good(m, IF m = n THEN P ELSE P \union {g}, D)
           /\ Busy(m) \subseteq Busy(n)
<1> DEFINE q == <<"coreside_in", CoreOf(g)>>
<1>1. CASE Ready(n, q)
  <2>1. sendMemoryRequest(n, g) = Accept(n, q, g)
    BY <1>1 DEF sendMemoryRequest
  <2>2. /\ Good(Accept(n, q, g), P \union {g}, D) /\ Accept(n, q, g) # n
        /\ Busy(Accept(n, q, g)) \subseteq Busy(n)
    BY <1>1, Inserted
  <2> QED
    BY <2>1, <2>2
<1>2. CASE ~Ready(n, q)
  BY <1>2 DEF sendMemoryRequest
<1> QED
  BY <1>1, <1>2

LEMMA SendStep ==
  ASSUME IInv, NEW c \in Cores, Called("core", c), NEW g \in StalledOf(c), g \notin pending,
         net' = sendMemoryRequest(net, g),
         pending' = IF net' = net THEN pending ELSE pending \union {g},
         UNCHANGED memory, UNCHANGED <<current, active, issued>>
  PROVE  IInv' /\ [Service!Next]_(Service!vars)
<1>1. /\ g \in Threads /\ Stalled(g) /\ CoreOf(g) = c /\ g \notin Done
      /\ Good(net, pending, Done) /\ pending \subseteq Threads
  BY DEF StalledOf, IInv, Kept, Waiting, Carried, Done
<1>2. Good(net', pending', Done) /\ Busy(net') \subseteq Busy(net)
  BY <1>1, SendFacts
<1>3. UNCHANGED <<mem, link, req, fresh>>
  BY DEF memory
<1>4. InTurn' /\ UNCHANGED rotation
  BY <1>2, CoreTurn
<1>5. Kept'
  BY <1>3, <1>4 DEF IInv, Kept, Stalled
<1>6. Waiting'
  BY <1>1, <1>3 DEF IInv, Waiting, Stalled
<1>7. Carried'
  BY <1>2, <1>3 DEF Carried, Done, Stalled
<1> QED
  BY <1>3, <1>4, <1>5, <1>6, <1>7 DEF IInv, Service!vars

(* The thread selected for a new instruction is an active one.             *)
LEMMA Selected ==
  ASSUME IInv, NEW c \in Cores, Hits(c) # {}
  PROVE  /\ Try(c, FirstHit(c)) \in 0 .. ThreadsPerCore - 1
         /\ c * ThreadsPerCore + Try(c, FirstHit(c)) \in active[c]
<1>1. Hits(c) \in SUBSET Nat
  BY DEF Hits
<1>2. \E i \in Hits(c) : \A j \in Hits(c) : i <= j
  <2> DEFINE S == Hits(c)
  <2>1. S \in SUBSET Nat /\ S # {}
    BY <1>1
  <2> HIDE DEF S
  <2>2. \E i \in S : \A j \in S : i <= j
    BY <2>1, Least
  <2> QED
    BY <2>2 DEF S
<1>3. FirstHit(c) \in Hits(c)
  BY <1>2 DEF FirstHit
<1> DEFINE i == FirstHit(c)
<1>4. i \in 0 .. ThreadsPerCore - 1 /\ c * ThreadsPerCore + Try(c, i) \in active[c]
  BY <1>3 DEF Hits
<1>5. i \in Nat /\ current[c] \in Nat
  BY <1>4, Shape DEF IInv, Kept
<1>6. Try(c, i) \in 0 .. ThreadsPerCore - 1
  <2> HIDE DEF i
  <2>1. i * (i + 1) \in Nat
    BY <1>5
  <2>2. (i * (i + 1)) \div 2 \in Nat
    BY <2>1
  <2>3. current[c] + 1 + (i * (i + 1)) \div 2 \in Nat
    BY <1>5, <2>2
  <2> QED
    BY <2>3, Shape, Quotient DEF Try
<1> QED
  BY <1>4, <1>6

LEMMA SelectFinds ==
  ASSUME Sized, IInv, NEW c \in Cores, ~CoreHalted(c)
  PROVE  Hits(c) # {}
<1>1. PICK g \in Threads : g \in active[c] /\ CoreOf(g) = c
  BY DEF CoreHalted, IInv, Kept
<1>2. /\ g % ThreadsPerCore \in 0 .. ThreadsPerCore - 1
      /\ c * ThreadsPerCore + (g % ThreadsPerCore) = g
  BY <1>1, ThreadNumbers
<1>3. current[c] \in 0 .. ThreadsPerCore - 1
  BY DEF IInv, Kept
<1>4. PICK i \in 0 .. ThreadsPerCore - 1 :
        g % ThreadsPerCore = (current[c] + 1 + (i * (i + 1)) \div 2) % ThreadsPerCore
  BY <1>2, <1>3 DEF Sized
<1>5. g % ThreadsPerCore = Try(c, i)
  BY <1>4 DEF Try
<1> QED
  BY <1>1, <1>2, <1>5 DEF Hits
-----------------------------------------------------------------------------
LEMMA ExecuteStep ==
  ASSUME IInv, NEW c \in Cores, Called("core", c), Execute(c)
  PROVE  IInv' /\ [Service!Next]_(Service!vars)
<1>0. PICK g : g = c * ThreadsPerCore + Try(c, FirstHit(c))
  OBVIOUS
<1>1. /\ StalledOf(c) = {} /\ Hits(c) # {}
      /\ current' = [current EXCEPT ![c] = Try(c, FirstHit(c))]
  BY DEF Execute
<1>2. /\ g \in active[c] /\ g \in Threads /\ CoreOf(g) = c
      /\ Try(c, FirstHit(c)) \in 0 .. ThreadsPerCore - 1
  BY <1>0, <1>1, Selected DEF IInv, Kept
<1>3. current' \in [Cores -> 0 .. ThreadsPerCore - 1]
  BY <1>1, <1>2 DEF IInv, Kept
<1>4. \/ UNCHANGED <<net, active, pending, issued, memory>>
      \/ /\ active' = [active EXCEPT ![c] = @ \ {g}]
         /\ UNCHANGED <<net, pending, issued, memory>>
      \/ /\ \E r \in Requests : Service!Issue(g, r)
         /\ net' = sendMemoryRequest(net, g)
         /\ pending' = IF net' = net THEN pending ELSE pending \union {g}
         /\ UNCHANGED active
  BY <1>0 DEF Execute
<1>5. /\ \A h \in Threads : Stalled(h) => CoreOf(h) # c
      /\ g \notin pending /\ g \notin Done /\ ~Stalled(g)
      /\ Good(net, pending, Done) /\ pending \subseteq Threads
  BY <1>1, <1>2 DEF StalledOf, IInv, Waiting, Carried, Done
<1>6. CASE UNCHANGED <<net, pending, memory>> /\ active' \in [Cores -> SUBSET Threads]
           /\ \A d \in Cores : active'[d] = active[d] \/ (d = c /\ active'[d] \subseteq active[d])
  <2>1. UNCHANGED <<net, pending, mem, link, req, fresh>>
    BY <1>6 DEF memory
  <2>2. InTurn' /\ UNCHANGED rotation
    BY <2>1, CoreTurn
  <2>3. Kept'
    <3>1. \A d \in Cores : \A h \in active'[d] : CoreOf(h) = d
      BY <1>6 DEF IInv, Kept
    <3> QED
      BY <1>3, <1>6, <2>1, <2>2, <3>1 DEF IInv, Kept, Stalled
  <2>4. Waiting'
    <3>1. \A h \in Threads : Stalled(h) => h \in active'[CoreOf(h)]
      BY <1>5, <1>6, ThreadNumbers DEF IInv, Waiting
    <3> QED
      BY <2>1, <3>1 DEF IInv, Waiting, Stalled
  <2>5. Carried'
    BY <2>1 DEF IInv, Carried, Done, Stalled
  <2> QED
    BY <2>1, <2>2, <2>3, <2>4, <2>5 DEF IInv, Service!vars
<1>7. CASE /\ \E r \in Requests : Service!Issue(g, r)
           /\ net' = sendMemoryRequest(net, g)
           /\ pending' = IF net' = net THEN pending ELSE pending \union {g}
           /\ UNCHANGED active
  <2>1. PICK r \in Requests : Service!Issue(g, r)
    BY <1>7
  <2>2. Service!Next
    BY <2>1 DEF Service!Next, Service!Issue
  <2>3. /\ req'[g] = [msg |-> r[2], addr |-> r[3], data |-> r[4], operand |-> r[5],
                      done |-> FALSE]
        /\ DOMAIN req' = Threads /\ \A h \in Threads \ {g} : req'[h] = req[h]
    BY <1>2, <2>1 DEF Service!Issue, IInv, Kept
  <2>4. Stalled(g)' /\ \A h \in Threads \ {g} : Stalled(h)' <=> Stalled(h)
    <3>1. Stalled(g)'
      BY <2>3 DEF Stalled, Service!NoPacket
    <3>2. \A h \in Threads \ {g} : Stalled(h)' <=> Stalled(h)
      BY <2>3 DEF Stalled
    <3> QED
      BY <3>1, <3>2
  <2>5. Done' = Done
    BY <1>5, <2>3, <2>4 DEF Done
  <2>6. Good(net', pending', Done) /\ Busy(net') \subseteq Busy(net)
    BY <1>2, <1>5, <1>7, SendFacts
  <2>7. InTurn' /\ UNCHANGED rotation
    BY <2>6, CoreTurn
  <2>8. Kept'
    <3>1. r[2] \in Service!Messages
      BY ServiceFacts
    <3>2. \A h \in Threads : Stalled(h)' =>
            /\ req'[h] = [msg |-> req'[h].msg, addr |-> req'[h].addr, data |-> req'[h].data,
                          operand |-> req'[h].operand, done |-> req'[h].done]
            /\ req'[h].done \/ req'[h].msg \in Service!Messages
      <4> SUFFICES ASSUME NEW h \in Threads, Stalled(h)'
                   PROVE  /\ req'[h] = [msg |-> req'[h].msg, addr |-> req'[h].addr,
                                        data |-> req'[h].data, operand |-> req'[h].operand,
                                        done |-> req'[h].done]
                          /\ req'[h].done \/ req'[h].msg \in Service!Messages
        OBVIOUS
      <4>1. CASE h = g
        BY <2>3, <3>1, <4>1
      <4>2. CASE h # g
        BY <2>3, <2>4, <4>2 DEF IInv, Kept
      <4> QED
        BY <4>1, <4>2
    <3> QED
      BY <1>3, <1>7, <2>3, <2>7, <3>2 DEF IInv, Kept
  <2>9. Waiting'
    <3>1. \A h \in Threads : Stalled(h)' => h \in active'[CoreOf(h)]
      BY <1>2, <1>7, <2>4 DEF IInv, Waiting
    <3>2. \A h, i \in Threads : Stalled(h)' /\ Stalled(i)' /\ CoreOf(h) = CoreOf(i) => h = i
      BY <1>2, <1>5, <2>4 DEF IInv, Waiting
    <3>3. pending' \subseteq {h \in Threads : Stalled(h)'}
      <4>1. \A h \in pending : h \in Threads /\ h # g /\ Stalled(h)
        BY <1>5 DEF IInv, Waiting
      <4>2. \A h \in pending' : h \in pending \/ h = g
        BY <1>7
      <4> QED
        BY <1>2, <2>4, <4>1, <4>2
    <3>4. \A h \in Threads \ pending' : Stalled(h)' => ~req'[h].done
      BY <1>7, <2>3, <2>4 DEF IInv, Waiting
    <3> QED
      BY <3>1, <3>2, <3>3, <3>4 DEF Waiting
  <2>10. Carried'
    BY <2>5, <2>6 DEF Carried
  <2> QED
    BY <2>2, <2>7, <2>8, <2>9, <2>10 DEF IInv
<1>8. CASE UNCHANGED <<net, active, pending, issued, memory>>
  BY <1>6, <1>8 DEF IInv, Kept
<1>9. CASE active' = [active EXCEPT ![c] = @ \ {g}] /\ UNCHANGED <<net, pending, issued, memory>>
  <2>1. /\ active' \in [Cores -> SUBSET Threads]
        /\ \A d \in Cores : active'[d] = active[d] \/ (d = c /\ active'[d] \subseteq active[d])
    BY <1>9 DEF IInv, Kept
  <2> QED
    BY <1>6, <1>9, <2>1
<1> QED
  BY <1>4, <1>7, <1>8, <1>9

LEMMA CoreStep ==
  ASSUME Sized, IInv, NEW c \in Cores, Core(c)
  PROVE  IInv' /\ [Service!Next]_(Service!vars)
<1>1. Called("core", c)
  BY DEF Core
<1>2. CASE UNCHANGED <<net, cores, memory>>
  BY <1>1, <1>2, HaltedStep
<1>3. CASE Resume(c)
  <2>1. PICK g \in StalledOf(c) :
          IF g \in pending
          THEN checkMemoryRequest(c, g)
          ELSE /\ net' = sendMemoryRequest(net, g)
               /\ pending' = IF net' = net THEN pending ELSE pending \union {g}
               /\ UNCHANGED memory
    BY <1>3 DEF Resume
  <2>2. UNCHANGED <<current, active, issued>>
    BY <1>3 DEF Resume
  <2>3. CASE g \in pending
    BY <1>1, <2>1, <2>2, <2>3, CheckStep
  <2>4. CASE g \notin pending
    BY <1>1, <2>1, <2>2, <2>4, SendStep
  <2> QED
    BY <2>3, <2>4
<1>4. CASE Execute(c)
  BY <1>1, <1>4, ExecuteStep
<1>5. ~CoreHalted(c) => ~NoThread(c)
  BY SelectFinds DEF NoThread
<1> QED
  BY <1>2, <1>3, <1>4, <1>5 DEF Core

LEMMA NextStep ==
  ASSUME Sized, IInv, [Next]_vars
  PROVE  IInv' /\ [Service!Next]_(Service!vars)
<1>1. CASE UNCHANGED vars
  BY <1>1 DEF vars, IInv, Kept, Waiting, Carried, InTurn, Done, Stalled, Busy, Ready,
              Service!vars
<1>2. CASE Next
  BY <1>2, RequestStep, ReplyStep, TreeStep, ClusterStep, CoreStep, CycleStep DEF Next
<1> QED
  BY <1>1, <1>2

LEMMA InitInv ==
  ASSUME Init PROVE IInv
<1>1. /\ net = [port |-> [q \in PortIds |-> NoPacketHere],
                fifo |-> [f \in FifoIds |-> <<>>], exit |-> FALSE]
      /\ turn = Calls(0) /\ rotation = 0 /\ pending = {}
      /\ current = [c \in Cores |-> 0]
      /\ active = [c \in Cores |-> {g \in Threads : CoreOf(g) = c}]
      /\ req = [g \in Threads |-> Service!NoPacket]
  BY DEF Init, Service!Init
<1>2. \A g \in Threads : ~Stalled(g)
  BY <1>1 DEF Stalled
<1>3. Done = {}
  BY <1>2 DEF Done
<1>4. 0 \in 0 .. ClustersPerTile - 1 /\ 0 \in 0 .. ThreadsPerCore - 1
  BY Shape
<1>5. Kept /\ Waiting
  BY <1>1, <1>2, <1>4 DEF Kept, Waiting
<1>6. Good(net, pending, Done)
  <2>1. net \in Nets /\ ~net.exit
    BY <1>1 DEF Nets
  <2>2. \A q \in PortIds : net.port[q] = NoPacketHere
    BY <1>1
  <2>3. \A f \in FifoIds : net.fifo[f] = <<>>
    BY <1>1
  <2>4. \A g \in Threads : \A p \in Spots : ~Holds(net, p, g)
    BY <2>2, <2>3, SpotFacts DEF Holds, Spots
  <2> QED
    <3>1. \A f \in FifoIds : DOMAIN net.fifo[f] = {}
      BY <2>3
    <3>2. \A f \in FifoIds : \A i, j \in DOMAIN net.fifo[f] :
            net.fifo[f][i] = net.fifo[f][j] => i = j
      BY <3>1
    <3> QED
      BY <1>1, <1>3, <2>1, <2>4, <3>2 DEF Good
<1>7. Ordered(turn) /\ Busy(net) = {}
  BY <1>1, <1>4, MayFirst DEF Busy, Strict, Ready
<1> QED
  BY <1>5, <1>6, <1>7 DEF IInv, Carried, InTurn

(* A packet is in the place Good says, and nowhere else.                   *)
LEMMA Placed ==
  ASSUME IInv PROVE PacketInOnePlace
<1>1. Good(net, pending, Done) /\ pending \subseteq Threads
  BY DEF IInv, Carried, Waiting
<1>2. ~net.exit
  BY <1>1 DEF Good
<1>3. ASSUME NEW g \in Threads, NEW x \in Places(g)
      PROVE  \E p \in Spots :
               /\ Holds(net, p, g)
               /\ \/ p \in PortIds /\ x = <<p, 0>>
                  \/ p \in FifoIds /\ \E i \in DOMAIN net.fifo[p] :
                       x = <<p, i>> /\ net.fifo[p][i] = g
  BY SpotFacts DEF Places, Holds, Spots
<1>4. ASSUME NEW g \in Threads, g \notin pending
      PROVE  Cardinality(Places(g)) = 0
  <2>1. Places(g) = {}
    BY <1>1, <1>3, <1>4 DEF Good
  <2> QED
    BY <2>1, FS_EmptySet
<1>5. ASSUME NEW g \in pending
      PROVE  Cardinality(Places(g)) = 1
  <2>0. g \in Threads
    BY <1>1
  <2>1. PICK p \in Spots : Holds(net, p, g)
    BY <1>1 DEF Good
  <2>2. PICK x : /\ x \in Places(g)
                 /\ \/ p \in PortIds /\ x = <<p, 0>>
                    \/ p \in FifoIds /\ \E i \in DOMAIN net.fifo[p] :
                         x = <<p, i>> /\ net.fifo[p][i] = g
    <3>1. CASE p \in PortIds
      BY <2>1, <3>1 DEF Places, Holds
    <3>2. CASE p \in FifoIds
      <4>1. PICK i \in DOMAIN net.fifo[p] : net.fifo[p][i] = g
        BY <2>1, <3>2, SpotFacts DEF Holds
      <4>2. <<p, i>> \in Places(g)
        BY <3>2, <4>1 DEF Places
      <4> QED
        BY <3>2, <4>1, <4>2
    <3> QED
      BY <3>1, <3>2 DEF Spots
  <2>3. ASSUME NEW y \in Places(g) PROVE y = x
    <3>1. PICK q \in Spots :
            /\ Holds(net, q, g)
            /\ \/ q \in PortIds /\ y = <<q, 0>>
               \/ q \in FifoIds /\ \E i \in DOMAIN net.fifo[q] :
                    y = <<q, i>> /\ net.fifo[q][i] = g
      BY <1>3, <2>0
    <3>2. q = p
      BY <1>1, <2>0, <2>1, <3>1 DEF Good
    <3>3. CASE p \in PortIds
      BY <2>2, <3>1, <3>2, <3>3, SpotFacts
    <3>4. CASE p \in FifoIds
      <4>1. PICK i \in DOMAIN net.fifo[p] : x = <<p, i>> /\ net.fifo[p][i] = g
        BY <2>2, <3>4, SpotFacts
      <4>2. PICK j \in DOMAIN net.fifo[p] : y = <<p, j>> /\ net.fifo[p][j] = g
        BY <3>1, <3>2, <3>4, SpotFacts
      <4>3. i = j
        BY <1>1, <3>4, <4>1, <4>2 DEF Good
      <4> QED
        BY <4>1, <4>2, <4>3
    <3> QED
      BY <3>3, <3>4 DEF Spots
  <2>4. Places(g) = {x}
    BY <2>2, <2>3
  <2> QED
    BY <2>4, FS_Singleton
<1> QED
  BY <1>2, <1>4, <1>5 DEF PacketInOnePlace

LEMMA Answered ==
  ASSUME IInv PROVE ReplyFindsItsRequest
<1> SUFFICES ASSUME NEW c \in Cores, NEW g, g = net.port[<<"from_ccache", c>>],
                    g # NoPacketHere
             PROVE  g \in StalledOf(c) \intersect pending /\ req[g].done
  BY DEF ReplyFindsItsRequest
<1> DEFINE q == <<"from_ccache", c>>
<1>1. q \in PortIds /\ ~Ready(net, q) /\ Home(q) = {c} /\ q[1] \in Served
  BY Spot, Homes DEF Ready, CoreSpots, Served
<1>2. Good(net, pending, Done) /\ g = net.port[q]
  BY DEF IInv, Carried
<1> HIDE DEF q
<1>3. g \in pending /\ g \in Threads /\ CoreOf(g) = c /\ g \in Done
  BY <1>1, <1>2, PortFacts
<1> QED
  BY <1>3 DEF Done, StalledOf, IInv, Waiting
-----------------------------------------------------------------------------
(* No packet is lost, doubled or left behind: every push of a fifo finds room,
   every port a handler cannot fail at is free (fifo::push, InPortBase::sendMsg,
   TreeNetwork::handleLeafOutputs and handleRootOutput), for any number of
   tiles, clusters, cores and threads whose packets the fifos can hold.    *)
THEOREM PacketsKept == ASSUME Sized PROVE Spec => []PacketInOnePlace
<1>1. Init => IInv
  BY InitInv
<1>2. IInv /\ [Next]_vars => IInv'
  BY NextStep
<1>3. IInv => PacketInOnePlace
  BY Placed
<1> QED
  BY <1>1, <1>2, <1>3, PTL DEF Spec

(* The reply a core reads is the one to its stalled thread's request, and the
   access was made (CoreFunctional::checkMemoryRequest).                   *)
THEOREM RepliesFindTheirRequests == ASSUME Sized PROVE Spec => []ReplyFindsItsRequest
<1>1. Init => IInv
  BY InitInv
<1>2. IInv /\ [Next]_vars => IInv'
  BY NextStep
<1>3. IInv => ReplyFindsItsRequest
  BY Answered
<1> QED
  BY <1>1, <1>2, <1>3, PTL DEF Spec

(* The tiled chip makes each access once, atomically, between its issue and
   its reply, whatever way its packet takes (ClusterCacheStructural,
   doMemoryAccess).                                                        *)
THEOREM ImplementsService == ASSUME Sized PROVE Spec => ServiceSpec
<1>1. Init => IInv /\ Service!Init
  BY InitInv DEF Init
<1>2. IInv /\ [Next]_vars => IInv' /\ [Service!Next]_(Service!vars)
  BY NextStep
<1> QED
  BY <1>1, <1>2, PTL DEF Spec, ServiceSpec, Service!Spec
=============================================================================
