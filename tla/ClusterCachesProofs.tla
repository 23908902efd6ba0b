------------------------- MODULE ClusterCachesProofs -------------------------
(***************************************************************************)
(* Proofs about ClusterCaches, for every number of cores, lines and MSHRs. *)
(*                                                                         *)
(* The handlers of the cluster cache walk over the MSHRs and over the      *)
(* cores: recursive functions of the number of steps made.  UpTo and       *)
(* Iterated give the value of such a function and an induction over it, so *)
(* that a walk keeps what each of its steps keeps.                         *)
(*                                                                         *)
(* IInv, the inductive invariant, is the conjunction of                    *)
(*   - the types;                                                          *)
(*   - Distinct: no two MSHRs share an index, else a removal would take    *)
(*     another core's miss;                                                *)
(*   - OnceInOrder: a line is fetched once, and fetched before it is       *)
(*     written back;                                                       *)
(*   - Waited: a core asleep is in the core list of some MSHR;             *)
(*   - Room: demand misses leave the MSHRs that evictions may need;        *)
(*   - WordsHeld: a dirty or valid word is of a line the L2 holds, so an   *)
(*     eviction finds what it must write;                                  *)
(*   - AtBarrier, Fenced: a core at a barrier does nothing else, and none  *)
(*     of its requests is left once the barrier is complete.               *)
(* The action properties follow from a step's lemma under IInv.            *)
(***************************************************************************)
EXTENDS ClusterCaches, FiniteSetTheorems, WellFoundedInduction, TLAPS

(***************************************************************************)
(* Induction.  The library's theorems on it take an operator; these take a *)
(* set, which is all the provers need.                                     *)
(***************************************************************************)

(* A set of numbers closed under successor up to N is 0 .. N.              *)
LEMMA UpTo ==
  ASSUME NEW N \in Nat, NEW S, 0 \in S, \A n \in S : n \in 0 .. N - 1 => n + 1 \in S
  PROVE  \A n \in 0 .. N : n \in S
<1> DEFINE R == StrictSubsetOrdering(Nat)
           T == {0 .. n : n \in (0 .. N) \ S}
<1> SUFFICES ASSUME NEW k \in 0 .. N, k \notin S PROVE FALSE
  OBVIOUS
<1>1. IsWellFoundedOn(R, FiniteSubsetsOf(Nat))
  BY FS_StrictSubsetOrderingWellFounded
<1>2. T \subseteq FiniteSubsetsOf(Nat)
  <2> SUFFICES ASSUME NEW n \in 0 .. N PROVE 0 .. n \in FiniteSubsetsOf(Nat)
    OBVIOUS
  <2>1. IsFiniteSet(0 .. n) /\ 0 .. n \in SUBSET Nat
    BY FS_Interval
  <2> QED
    BY <2>1 DEF FiniteSubsetsOf
<1>3. T # {}
  OBVIOUS
<1>4. PICK x \in T : \A y \in T : ~(<<y, x>> \in R)
  <2> HIDE DEF R, T
  <2> QED
    BY <1>1, <1>2, <1>3, WFMin
<1>5. PICK m \in (0 .. N) \ S : x = 0 .. m
  BY <1>4
<1>6. m # 0 /\ m - 1 \in (0 .. N) \ S
  <2>1. m # 0 /\ m \notin S /\ m \in 0 .. N
    OBVIOUS
  <2>2. m - 1 \in 0 .. N - 1 /\ m - 1 \in 0 .. N /\ (m - 1) + 1 = m
    BY <2>1
  <2> DEFINE p == m - 1
  <2>3. p \in S => p + 1 \in S
    BY <2>2
  <2> QED
    BY <2>1, <2>2, <2>3
<1>7. 0 .. m - 1 \in T
  BY <1>6
<1>8. <<0 .. m - 1, x>> \in R
  BY <1>5, <1>6 DEF StrictSubsetOrdering
<1> QED
  BY <1>4, <1>7, <1>8

(* A set of numbers that is not empty has a least one.                     *)
LEMMA Least ==
  ASSUME NEW S \in SUBSET Nat, S # {}
  PROVE  \E m \in S : \A n \in S : m <= n
<1>1. PICK k \in S : TRUE
  OBVIOUS
<1> DEFINE A == {n \in 0 .. k : \A j \in 0 .. n : j \notin S}
<1> SUFFICES ASSUME \A m \in S : \E n \in S : ~(m <= n) PROVE FALSE
  OBVIOUS
<1>2. 0 \in A
  BY <1>1
<1>3. ASSUME NEW n \in A, n \in 0 .. k - 1
      PROVE  n + 1 \in A
  <2>1. n + 1 \notin S
    <3> SUFFICES ASSUME n + 1 \in S PROVE FALSE
      OBVIOUS
    <3>1. PICK j \in S : ~(n + 1 <= j)
      OBVIOUS
    <3> QED
      BY <3>1, <1>3
  <2> QED
    BY <2>1, <1>3
<1> HIDE DEF A
<1>4. k \in A
  BY <1>1, <1>2, <1>3, UpTo
<1> QED
  BY <1>1, <1>4 DEF A

(* Applying f again and again, from s on, defines a function.              *)
Iterates(g, X, s, N, f) ==
  /\ g \in [0 .. N -> X] /\ g[0] = s
  /\ \A i \in 1 .. N : g[i] = f[<<g[i - 1], i>>]

LEMMA Iterated ==
  ASSUME NEW X, NEW s \in X, NEW N \in Nat, NEW f \in [X \X (1 .. N) -> X]
  PROVE  \E g : Iterates(g, X, s, N, f)
<1> DEFINE G(n, g) == g[0] = s /\ \A i \in 1 .. n : g[i] = f[<<g[i - 1], i>>]
           S == {n \in 0 .. N : \E g \in [0 .. n -> X] : G(n, g)}
<1>1. 0 \in S
  <2> DEFINE g == [i \in 0 .. 0 |-> s]
  <2>1. g \in [0 .. 0 -> X] /\ G(0, g)
    OBVIOUS
  <2> HIDE DEF g
  <2> QED
    BY <2>1
<1>2. ASSUME NEW n \in S, n \in 0 .. N - 1
      PROVE  n + 1 \in S
  <2>1. PICK g \in [0 .. n -> X] : G(n, g)
    OBVIOUS
  <2> DEFINE h == [i \in 0 .. n + 1 |-> IF i = n + 1 THEN f[<<g[n], n + 1>>] ELSE g[i]]
  <2>2. g[n] \in X /\ f[<<g[n], n + 1>>] \in X
    BY <1>2, <2>1
  <2>3. h \in [0 .. n + 1 -> X]
    BY <2>1, <2>2, <1>2
  <2>4. h[0] = s
    BY <2>1, <1>2
  <2>5. ASSUME NEW i \in 1 .. n + 1
        PROVE  h[i] = f[<<h[i - 1], i>>]
    <3>1. i - 1 \in 0 .. n + 1 /\ i - 1 # n + 1
      BY <1>2
    <3>2. h[i - 1] = g[i - 1]
      BY <3>1
    <3>3. CASE i = n + 1
      <4>1. i - 1 = n /\ h[i] = f[<<g[n], n + 1>>]
        BY <3>3, <1>2
      <4> QED
        BY <4>1, <3>2, <3>3
    <3>4. CASE i # n + 1
      <4>1. i \in 1 .. n /\ h[i] = g[i]
        BY <3>4, <1>2
      <4>2. g[i] = f[<<g[i - 1], i>>]
        BY <4>1, <2>1
      <4> HIDE DEF h
      <4> QED
        BY <4>1, <4>2, <3>2
    <3> QED
      BY <3>3, <3>4
  <2> HIDE DEF h
  <2>6. G(n + 1, h)
    BY <2>4, <2>5
  <2> HIDE DEF G
  <2>7. n + 1 \in 0 .. N
    BY <1>2
  <2> QED
    BY <2>3, <2>6, <2>7
<1>3. N \in S
  <2> HIDE DEF S
  <2> QED
    BY <1>1, <1>2, UpTo
<1> QED
  BY <1>3 DEF Iterates

-----------------------------------------------------------------------------
(***************************************************************************)
(* Sequences of entries and of lines.                                      *)
(***************************************************************************)

(* A miss handling entry; an eviction, and nothing else, is no core's.     *)
MissEntry ==
  {e \in [id : Nat \ {0}, type : EntryTypes, line : Lines, core : Cores \cup {NoCore},
          cores : SUBSET Cores, acked : BOOLEAN, wait : Nat] :
     e.type = "EVICT" <=> e.core = NoCore}

(* What is left of a sequence without its i-th element, and where.         *)
LEMMA RemoveAtFacts ==
  ASSUME NEW S, NEW s \in Seq(S), NEW i \in DOMAIN s
  PROVE  /\ RemoveAt(s, i) \in Seq(S)
         /\ Len(RemoveAt(s, i)) = Len(s) - 1
         /\ \A j \in 1 .. Len(s) - 1 : RemoveAt(s, i)[j] = s[IF j < i THEN j ELSE j + 1]
<1> DEFINE a == SubSeq(s, 1, i - 1)
           b == SubSeq(s, i + 1, Len(s))
<1>0. i \in 1 .. Len(s) /\ Len(s) \in Nat
  OBVIOUS
<1>1. a \in Seq(S) /\ Len(a) = i - 1 /\ \A j \in 1 .. i - 1 : a[j] = s[j]
  BY <1>0
<1>2. /\ b \in Seq(S) /\ Len(b) = Len(s) - i
      /\ \A j \in 1 .. Len(s) - i : b[j] = s[j + i]
  BY <1>0
<1> HIDE DEF a, b
<1>3. /\ a \o b \in Seq(S) /\ Len(a \o b) = Len(s) - 1
      /\ \A j \in 1 .. Len(s) - 1 :
           (a \o b)[j] = IF j <= i - 1 THEN a[j] ELSE b[j - (i - 1)]
  BY <1>0, <1>1, <1>2
<1>4. ASSUME NEW j \in 1 .. Len(s) - 1
      PROVE  (a \o b)[j] = s[IF j < i THEN j ELSE j + 1]
  <2>0. j < i \/ j >= i
    BY <1>0
  <2>1. CASE j < i
    BY <2>1, <1>0, <1>1, <1>3
  <2>2. CASE j >= i
    <3>1. j - (i - 1) \in 1 .. Len(s) - i /\ (j - (i - 1)) + i = j + 1
      BY <2>2, <1>0
    <3>2. (a \o b)[j] = b[j - (i - 1)]
      BY <2>2, <1>0, <1>3
    <3>3. b[j - (i - 1)] = s[(j - (i - 1)) + i]
      BY <3>1, <1>2
    <3> QED
      BY <2>2, <3>1, <3>2, <3>3, <1>0
  <2> QED
    BY <2>0, <2>1, <2>2
<1>5. RemoveAt(s, i) = a \o b
  BY DEF RemoveAt, a, b
<1> QED
  BY <1>3, <1>4, <1>5

(* Taking a line out of the order of the L2 leaves the other lines in it.  *)
LEMMA WithoutFacts ==
  ASSUME NEW s \in Seq(Lines), NEW l
  PROVE  /\ Without(s, l) \in Seq(Lines)
         /\ \A i \in DOMAIN s : s[i] # l => \E j \in DOMAIN Without(s, l) : Without(s, l)[j] = s[i]
<1>1. CASE \E i \in 1 .. Len(s) : s[i] = l
  <2> DEFINE I == {i \in 1 .. Len(s) : s[i] = l}
             k == CHOOSE x \in I : \A y \in I : x <= y
  <2>1. I \in SUBSET Nat /\ I # {}
    BY <1>1
  <2>2. k \in I
    <3> HIDE DEF I
    <3> QED
      BY <2>1, Least
  <2>3. Without(s, l) = RemoveAt(s, k)
    <3>1. I # {}
      BY <2>1
    <3> QED
      BY <1>1, <3>1 DEF Without, RemoveFirst, SelectInSeq, Min
  <2>4. k \in DOMAIN s /\ s[k] = l
    BY <2>2
  <2> HIDE DEF k, I
  <2>5. /\ RemoveAt(s, k) \in Seq(Lines)
        /\ Len(RemoveAt(s, k)) = Len(s) - 1
        /\ \A j \in 1 .. Len(s) - 1 : RemoveAt(s, k)[j] = s[IF j < k THEN j ELSE j + 1]
    BY <2>4, RemoveAtFacts
  <2>6. ASSUME NEW i \in DOMAIN s, s[i] # l
        PROVE  \E j \in DOMAIN RemoveAt(s, k) : RemoveAt(s, k)[j] = s[i]
    <3>1. i # k /\ i \in 1 .. Len(s) /\ k \in 1 .. Len(s) /\ Len(s) \in Nat
      BY <2>4, <2>6
    <3>2. DOMAIN RemoveAt(s, k) = 1 .. Len(s) - 1
      BY <2>5
    <3>3. CASE i < k
      BY <3>1, <3>2, <3>3, <2>5
    <3>4. CASE i > k
      <4>1. i - 1 \in 1 .. Len(s) - 1 /\ ~(i - 1 < k) /\ (i - 1) + 1 = i
        BY <3>1, <3>4
      <4> QED
        BY <4>1, <3>2, <2>5
    <3> QED
      BY <3>1, <3>3, <3>4
  <2> QED
    BY <2>3, <2>5, <2>6
<1>2. CASE ~ \E i \in 1 .. Len(s) : s[i] = l
  BY <1>2 DEF Without, RemoveFirst
<1> QED
  BY <1>1, <1>2

InOrder(s, l) == \E i \in DOMAIN s : s[i] = l

LEMMA TouchedFacts ==
  ASSUME NEW s \in Seq(Lines), NEW l \in Lines
  PROVE  /\ Touched(s, l) \in Seq(Lines)
         /\ \A k : InOrder(s, k) => InOrder(Touched(s, l), k)
<1>1. CASE InOrder(s, l)
  <2> DEFINE w == Without(s, l)
  <2>1. Touched(s, l) = Append(w, l)
    BY <1>1 DEF Touched, InOrder
  <2>2. w \in Seq(Lines) /\ \A i \in DOMAIN s : s[i] # l => \E j \in DOMAIN w : w[j] = s[i]
    BY WithoutFacts
  <2> HIDE DEF w
  <2>3. /\ Append(w, l) \in Seq(Lines) /\ InOrder(Append(w, l), l)
        /\ \A j \in DOMAIN w : j \in DOMAIN Append(w, l) /\ Append(w, l)[j] = w[j]
    <3>1. Len(w) + 1 \in DOMAIN Append(w, l) /\ Append(w, l)[Len(w) + 1] = l
      BY <2>2
    <3> QED
      BY <2>2, <3>1 DEF InOrder
  <2>4. ASSUME NEW k, InOrder(s, k)
        PROVE  InOrder(Append(w, l), k)
    <3>1. PICK i \in DOMAIN s : s[i] = k
      BY <2>4 DEF InOrder
    <3> QED
      BY <3>1, <2>2, <2>3 DEF InOrder
  <2> QED
    BY <2>1, <2>3, <2>4
<1>2. CASE ~InOrder(s, l)
  BY <1>2 DEF Touched, InOrder
<1> QED
  BY <1>1, <1>2

(* What the entries of a fifo must be: no two share an index, and a line is
   fetched once and before it is written back.                             *)
Distinct(f) == \A i, j \in DOMAIN f : f[i].id = f[j].id => i = j
OnceInOrder(f) ==
  \A i, j \in DOMAIN f :
    f[i].line = f[j].line /\ f[i].type \in Fetches =>
      /\ f[j].type \in Fetches => i = j
      /\ f[j].type \in {"EVICT", "WB"} => i < j
Waited(a, f) == \A c \in a : \E i \in DOMAIN f : c \in f[i].cores
Fifo(f) == f \in Seq(MissEntry) /\ Distinct(f) /\ OnceInOrder(f)

(* There is always an index that no entry has.                             *)
LEMMA FreeIdFacts ==
  ASSUME NEW f \in Seq(MissEntry)
  PROVE  FreeId(f) \in Nat \ {0} /\ \A i \in DOMAIN f : f[i].id # FreeId(f)
<1> DEFINE n == Len(f)
           U == {f[i].id : i \in 1 .. n}
           A == (1 .. n + 1) \ U
<1>1. n \in Nat /\ DOMAIN f = 1 .. n
  OBVIOUS
<1>2. A # {}
  <2> SUFFICES ASSUME 1 .. n + 1 \subseteq U PROVE FALSE
    OBVIOUS
  <2>1. IsFiniteSet(1 .. n) /\ Cardinality(1 .. n) = n
    BY <1>1, FS_Interval
  <2>2. IsFiniteSet(U) /\ Cardinality(U) <= n
    <3> DEFINE h == [i \in 1 .. n |-> f[i].id]
    <3>1. U = {h[i] : i \in 1 .. n}
      OBVIOUS
    <3>2. h \in [1 .. n -> U] /\ h \in Surjection(1 .. n, U)
      BY DEF Surjection
    <3> HIDE DEF h, U
    <3> QED
      BY <3>2, <2>1, FS_Surjection
  <2>3. Cardinality(1 .. n + 1) = n + 1
    BY <1>1, FS_Interval
  <2>4. Cardinality(1 .. n + 1) <= Cardinality(U)
    BY <2>2, FS_Subset
  <2>5. Cardinality(U) \in Nat
    BY <2>2, FS_CardinalityType
  <2> QED
    BY <1>1, <2>2, <2>3, <2>4, <2>5
<1>3. PICK m \in A : \A k \in A : m <= k
  <2>1. A \in SUBSET Nat
    BY <1>1
  <2> HIDE DEF A
  <2> QED
    BY <1>2, <2>1, Least
<1>4. /\ m \in 1 .. Len(f) + 1
      /\ \A i \in DOMAIN f : f[i].id # m
      /\ \A k \in 1 .. m - 1 : \E i \in DOMAIN f : f[i].id = k
  BY <1>1, <1>3
<1>5. FreeId(f) \in 1 .. Len(f) + 1 /\ \A i \in DOMAIN f : f[i].id # FreeId(f)
  BY <1>4 DEF FreeId
<1> QED
  BY <1>1, <1>5

(* An entry leaves; the others stay as they are.                           *)
LEMMA RemovedFacts ==
  ASSUME NEW f, Fifo(f), NEW i \in DOMAIN f, NEW m, m.id = f[i].id
  PROVE  /\ Fifo(Removed(f, m))
         /\ Len(Removed(f, m)) = Len(f) - 1
         /\ \A k \in DOMAIN Removed(f, m) : \E j \in DOMAIN f : j # i /\ Removed(f, m)[k] = f[j]
         /\ \A j \in DOMAIN f : j # i => \E k \in DOMAIN Removed(f, m) : Removed(f, m)[k] = f[j]
<1> DEFINE r == RemoveAt(f, i)
           At(k) == IF k < i THEN k ELSE k + 1
<1>0. f \in Seq(MissEntry) /\ Len(f) \in Nat /\ DOMAIN f = 1 .. Len(f)
  BY DEF Fifo
<1>1. Removed(f, m) = r
  <2>1. \A k \in DOMAIN f : f[k].id = m.id => k = i
    BY DEF Fifo, Distinct
  <2>2. (CHOOSE k \in DOMAIN f : f[k].id = m.id) = i
    BY <2>1
  <2> QED
    BY <2>2 DEF Removed
<1>2. /\ r \in Seq(MissEntry) /\ Len(r) = Len(f) - 1
      /\ \A k \in 1 .. Len(f) - 1 : r[k] = f[At(k)]
  BY <1>0, RemoveAtFacts
<1> HIDE DEF r
<1>3. DOMAIN r = 1 .. Len(f) - 1
  BY <1>2
<1>4. \A k \in DOMAIN r : At(k) \in DOMAIN f /\ At(k) # i /\ r[k] = f[At(k)]
  BY <1>0, <1>2, <1>3
<1>5. \A k, l \in DOMAIN r : (At(k) = At(l) => k = l) /\ (At(k) < At(l) => k < l)
  BY <1>0, <1>3
<1>6. ASSUME NEW j \in DOMAIN f, j # i
      PROVE  \E k \in DOMAIN r : r[k] = f[j]
  <2>1. CASE j < i
    <3>1. j \in DOMAIN r /\ At(j) = j
      BY <2>1, <1>0, <1>3
    <3> QED
      BY <3>1, <1>4
  <2>2. CASE j > i
    <3>1. j - 1 \in DOMAIN r /\ At(j - 1) = j
      BY <2>2, <1>0, <1>3
    <3> QED
      BY <3>1, <1>4
  <2> QED
    BY <2>1, <2>2, <1>0, <1>6
<1> HIDE DEF At
<1>7. Distinct(r)
  BY <1>4, <1>5 DEF Distinct, Fifo
<1>8. OnceInOrder(r)
  <2> SUFFICES ASSUME NEW k \in DOMAIN r, NEW l \in DOMAIN r,
                      r[k].line = r[l].line, r[k].type \in Fetches
               PROVE  /\ r[l].type \in Fetches => k = l
                      /\ r[l].type \in {"EVICT", "WB"} => k < l
    BY DEF OnceInOrder
  <2>1. /\ r[l].type \in Fetches => At(k) = At(l)
        /\ r[l].type \in {"EVICT", "WB"} => At(k) < At(l)
    BY <1>4 DEF Fifo, OnceInOrder
  <2> QED
    BY <2>1, <1>5
<1>9. \A k \in DOMAIN r : \E j \in DOMAIN f : j # i /\ r[k] = f[j]
  BY <1>4
<1> QED
  BY <1>1, <1>2, <1>6, <1>7, <1>8, <1>9 DEF Fifo

(* An entry comes in: a fetch only of a line that has none.                *)
LEMMA AppendedFacts ==
  ASSUME NEW f, Fifo(f), NEW e \in MissEntry,
         \A i \in DOMAIN f : f[i].id # e.id,
         e.type \in Fetches => \A i \in DOMAIN f : f[i].line # e.line
  PROVE  /\ Fifo(Append(f, e))
         /\ Len(Append(f, e)) = Len(f) + 1
         /\ DOMAIN Append(f, e) = (DOMAIN f) \cup {Len(f) + 1}
         /\ \A i \in DOMAIN f : Append(f, e)[i] = f[i]
         /\ Append(f, e)[Len(f) + 1] = e
<1> DEFINE a == Append(f, e)
<1>1. f \in Seq(MissEntry) /\ Len(f) \in Nat /\ DOMAIN f = 1 .. Len(f)
  BY DEF Fifo
<1>2. /\ a \in Seq(MissEntry) /\ Len(a) = Len(f) + 1
      /\ DOMAIN a = (DOMAIN f) \cup {Len(f) + 1}
      /\ \A i \in DOMAIN f : a[i] = f[i] /\ i < Len(f) + 1
      /\ a[Len(f) + 1] = e
  BY <1>1
<1> HIDE DEF a
<1>3. Distinct(a)
  BY <1>2 DEF Distinct, Fifo
<1>4. OnceInOrder(a)
  <2> SUFFICES ASSUME NEW i \in DOMAIN a, NEW j \in DOMAIN a,
                      a[i].line = a[j].line, a[i].type \in Fetches
               PROVE  /\ a[j].type \in Fetches => i = j
                      /\ a[j].type \in {"EVICT", "WB"} => i < j
    BY DEF OnceInOrder
  <2>1. CASE i \in DOMAIN f /\ j \in DOMAIN f
    BY <2>1, <1>2 DEF Fifo, OnceInOrder
  <2>2. CASE i = Len(f) + 1 /\ j \in DOMAIN f
    BY <2>2, <1>2
  <2>3. CASE i \in DOMAIN f /\ j = Len(f) + 1
    BY <2>3, <1>2
  <2>4. CASE i = Len(f) + 1 /\ j = Len(f) + 1
    BY <2>4, <1>2 DEF Fetches
  <2> QED
    BY <2>1, <2>2, <2>3, <2>4, <1>2
<1> QED
  BY <1>2, <1>3, <1>4 DEF Fifo, a

(* The entry a request is given.                                           *)
NewEntry(e, f, type, l, c) ==
  /\ e \in MissEntry /\ \A i \in DOMAIN f : f[i].id # e.id
  /\ e.type = type /\ e.line = l /\ e.core = c
  /\ e.cores = IF type \in SleepsOn THEN {c} ELSE {}

LEMMA EntryFacts ==
  ASSUME NEW f \in Seq(MissEntry), NEW type \in EntryTypes, NEW l \in Lines,
         NEW c \in Cores \cup {NoCore}, type = "EVICT" <=> c = NoCore
  PROVE  NewEntry(Entry(f, type, l, c), f, type, l, c)
<1>1. FreeId(f) \in Nat \ {0} /\ \A i \in DOMAIN f : f[i].id # FreeId(f)
  BY FreeIdFacts
<1>2. type \in SleepsOn => c \in Cores
  BY DEF SleepsOn
<1>3. (IF type = "WRITE" THEN Latency ELSE 0) \in Nat
  BY CacheSizes
<1>4. (IF type \in SleepsOn THEN {c} ELSE {}) \in SUBSET Cores
  BY <1>2
<1> QED
  BY <1>1, <1>3, <1>4 DEF Entry, MissEntry, NewEntry

-----------------------------------------------------------------------------
(***************************************************************************)
(* The step of the caches, on the record they work on.                     *)
(***************************************************************************)

CacheState ==
  [order : Seq(Lines), word : SUBSET Lines, dirty : SUBSET Lines,
   l1 : [Cores -> SUBSET Lines], fifo : Seq(MissEntry),
   asleep : SUBSET Cores, outstanding : SUBSET Cores, completed : SUBSET Cores]

(* What holds of the caches between any two operations of their step.      *)
Good(s) ==
  /\ s \in CacheState
  /\ Fifo(s.fifo)
  /\ Waited(s.asleep, s.fifo)
  /\ \A l \in s.dirty \cup s.word : InOrder(s.order, l)

(* A write-back of the line is under way.  None of c's requests is left.   *)
WrittenBack(f, l) == \E i \in DOMAIN f : f[i].line = l /\ f[i].type \in {"EVICT", "WB"}
NoneOf(f, c) == \A i \in DOMAIN f : f[i].core # c

(* The caches lose no dirty line and invent no request of a core.          *)
Careful(s, t) ==
  /\ \A l \in s.dirty : l \in t.dirty \/ WrittenBack(t.fifo, l)
  /\ \A c \in Cores : NoneOf(s.fifo, c) => NoneOf(t.fifo, c)

(* The fifo of t is that of s, or has the victim of an eviction behind it. *)
MayEvict(s, t) ==
  \/ t.fifo = s.fifo
  \/ \E e \in MissEntry : /\ t.fifo = Append(s.fifo, e)
                           /\ DOMAIN t.fifo = DOMAIN s.fifo \cup {Len(s.fifo) + 1}
                           /\ Len(t.fifo) = Len(s.fifo) + 1
                           /\ \A i \in DOMAIN s.fifo : t.fifo[i] = s.fifo[i]
                           /\ t.fifo[Len(s.fifo) + 1] = e
                           /\ e.type = "EVICT" /\ e.core = NoCore

LEMMA EvictFacts ==
  ASSUME NEW s, Good(s), Len(s.order) > 0
  PROVE  /\ Good(Evict(s)) /\ Careful(s, Evict(s)) /\ MayEvict(s, Evict(s))
         /\ Evict(s).asleep = s.asleep
<1> DEFINE v == Head(s.order)
           e == Entry(s.fifo, "EVICT", v, NoCore)
           t == Evict(s)
<1>1. s \in CacheState /\ s.order \in Seq(Lines) /\ s.fifo \in Seq(MissEntry) /\ Fifo(s.fifo)
  BY DEF Good, CacheState
<1>2. v \in Lines /\ v = s.order[1] /\ 1 \in DOMAIN s.order
  BY <1>1
<1>3. /\ Tail(s.order) \in Seq(Lines)
      /\ \A l : InOrder(s.order, l) /\ l # v => InOrder(Tail(s.order), l)
  <2>1. /\ Tail(s.order) \in Seq(Lines)
        /\ DOMAIN Tail(s.order) = 1 .. Len(s.order) - 1
        /\ \A i \in 1 .. Len(s.order) - 1 : Tail(s.order)[i] = s.order[i + 1]
    BY <1>1
  <2>2. ASSUME NEW l, InOrder(s.order, l), l # v
        PROVE  InOrder(Tail(s.order), l)
    <3>1. PICK i \in DOMAIN s.order : s.order[i] = l
      BY <2>2 DEF InOrder
    <3>2. i - 1 \in 1 .. Len(s.order) - 1 /\ (i - 1) + 1 = i
      BY <3>1, <2>2, <1>1, <1>2
    <3> QED
      BY <3>1, <3>2, <2>1 DEF InOrder
  <2> QED
    BY <2>1, <2>2
<1>4. /\ e \in MissEntry /\ \A i \in DOMAIN s.fifo : s.fifo[i].id # e.id
      /\ e.type = "EVICT" /\ e.line = v /\ e.core = NoCore /\ e.cores = {}
  <2>1. NewEntry(e, s.fifo, "EVICT", v, NoCore)
    BY <1>1, <1>2, EntryFacts DEF EntryTypes
  <2> QED
    BY <2>1 DEF NewEntry, SleepsOn
<1>5. [c \in Cores |-> s.l1[c] \ {v}] \in [Cores -> SUBSET Lines]
  BY <1>1 DEF CacheState
<1>6. /\ t \in CacheState /\ t.order = Tail(s.order) /\ t.dirty = s.dirty \ {v}
      /\ t.word = s.word \ {v}
      /\ t.fifo = IF v \in s.dirty THEN Append(s.fifo, e) ELSE s.fifo
      /\ t.asleep = s.asleep
  <2> DEFINE o == Tail(s.order)
             w == s.word \ {v}
             d == s.dirty \ {v}
             h == [c \in Cores |-> s.l1[c] \ {v}]
             f == IF v \in s.dirty THEN Append(s.fifo, e) ELSE s.fifo
  <2>1. t = [s EXCEPT !.order = o, !.word = w, !.dirty = d, !.l1 = h, !.fifo = f]
    BY DEF Evict
  <2>2. /\ o \in Seq(Lines) /\ w \in SUBSET Lines /\ d \in SUBSET Lines
        /\ h \in [Cores -> SUBSET Lines] /\ f \in Seq(MissEntry)
    BY <1>1, <1>3, <1>4, <1>5 DEF CacheState
  <2> HIDE DEF o, w, d, h, f, t
  <2>3. /\ t \in CacheState /\ t.order = o /\ t.word = w /\ t.dirty = d /\ t.fifo = f
        /\ t.asleep = s.asleep
    BY <1>1, <2>1, <2>2 DEF CacheState
  <2> QED
    BY <2>3 DEF o, w, d, f
<1> HIDE DEF e, t, v
<1>7. CASE v \in s.dirty
  <2>1. /\ Fifo(t.fifo) /\ MayEvict(s, t)
        /\ DOMAIN t.fifo = (DOMAIN s.fifo) \cup {Len(s.fifo) + 1}
        /\ \A i \in DOMAIN s.fifo : t.fifo[i] = s.fifo[i]
        /\ t.fifo[Len(s.fifo) + 1] = e
    BY <1>1, <1>4, <1>6, <1>7, AppendedFacts DEF Fetches, MayEvict
  <2>2. Waited(t.asleep, t.fifo)
    BY <2>1, <1>6 DEF Good, Waited
  <2>3. \A l \in t.dirty \cup t.word : InOrder(t.order, l)
    BY <1>3, <1>6 DEF Good
  <2>4. Careful(s, t)
    <3>1. WrittenBack(t.fifo, v)
      BY <2>1, <1>4 DEF WrittenBack
    <3>2. \A c \in Cores : c # NoCore
      BY DEF Cores, NoCore
    <3> QED
      BY <3>1, <3>2, <2>1, <1>4, <1>6 DEF Careful, NoneOf
  <2> QED
    BY <2>1, <2>2, <2>3, <2>4, <1>6 DEF Good, t
<1>8. CASE v \notin s.dirty
  <2>1. t.fifo = s.fifo
    BY <1>6, <1>8
  <2> QED
    BY <2>1, <1>1, <1>3, <1>6, <1>8 DEF Good, Careful, MayEvict, t
<1> QED
  BY <1>7, <1>8

LEMMA FillFacts ==
  ASSUME NEW s, Good(s), NEW l \in Lines
  PROVE  /\ Good(Fill(s, l)) /\ Careful(s, Fill(s, l)) /\ MayEvict(s, Fill(s, l))
         /\ Fill(s, l).asleep = s.asleep
<1>1. s \in CacheState /\ s.order \in Seq(Lines)
  BY DEF Good, CacheState
<1>2. CASE InOrder(s.order, l)
  <2> DEFINE t == [s EXCEPT !.order = Touched(@, l), !.word = @ \cup {l}]
  <2>1. Fill(s, l) = t
    BY <1>2 DEF Fill, InOrder
  <2>2. /\ Touched(s.order, l) \in Seq(Lines)
        /\ \A k : InOrder(s.order, k) => InOrder(Touched(s.order, l), k)
    BY <1>1, TouchedFacts
  <2>3. /\ t \in CacheState /\ t.order = Touched(s.order, l) /\ t.word = s.word \cup {l}
        /\ t.dirty = s.dirty /\ t.fifo = s.fifo /\ t.asleep = s.asleep
    BY <1>1, <2>2 DEF CacheState
  <2> HIDE DEF t
  <2> QED
    BY <1>2, <2>1, <2>2, <2>3 DEF Good, Careful, MayEvict
<1>3. CASE ~InOrder(s.order, l)
  <2> DEFINE e == IF Len(s.order) = L2Ways THEN Evict(s) ELSE s
             t == [e EXCEPT !.order = Append(@, l), !.word = @ \cup {l}]
  <2>1. Fill(s, l) = t
    BY <1>3 DEF Fill, InOrder
  <2>2. Good(e) /\ Careful(s, e) /\ MayEvict(s, e) /\ e.asleep = s.asleep
    <3>1. CASE Len(s.order) = L2Ways
      BY <3>1, <1>1, CacheSizes, EvictFacts
    <3>2. CASE Len(s.order) # L2Ways
      BY <3>2 DEF Careful, MayEvict
    <3> QED
      BY <3>1, <3>2
  <2> HIDE DEF e
  <2>3. e \in CacheState /\ e.order \in Seq(Lines)
    BY <2>2 DEF Good, CacheState
  <2>4. /\ Append(e.order, l) \in Seq(Lines)
        /\ \A i \in DOMAIN e.order :
             i \in DOMAIN Append(e.order, l) /\ Append(e.order, l)[i] = e.order[i]
        /\ Len(e.order) + 1 \in DOMAIN Append(e.order, l)
        /\ Append(e.order, l)[Len(e.order) + 1] = l
    BY <2>3
  <2>5. /\ t \in CacheState /\ t.order = Append(e.order, l) /\ t.word = e.word \cup {l}
        /\ t.dirty = e.dirty /\ t.fifo = e.fifo /\ t.asleep = e.asleep
    BY <2>3, <2>4 DEF CacheState
  <2>6. InOrder(t.order, l) /\ \A k : InOrder(e.order, k) => InOrder(t.order, k)
    BY <2>4, <2>5 DEF InOrder
  <2> HIDE DEF t
  <2> QED
    BY <2>1, <2>2, <2>5, <2>6 DEF Good, Careful, MayEvict
<1> QED
  BY <1>2, <1>3

(* Write-backs under way stay so.                                          *)
StillWritten(s, t) == \A l : WrittenBack(s.fifo, l) => WrittenBack(t.fifo, l)

LEMMA ClearFacts ==
  ASSUME NEW s, Good(s), NEW i \in DOMAIN s.fifo, NEW m,
         m.id = s.fifo[i].id, m.cores = s.fifo[i].cores
  PROVE  /\ Good(Clear(s, m))
         /\ Clear(s, m).dirty = s.dirty
         /\ Len(Clear(s, m).fifo) = Len(s.fifo) - 1
         /\ \A c : NoneOf(s.fifo, c) => NoneOf(Clear(s, m).fifo, c)
         /\ s.fifo[i].type \notin {"EVICT", "WB"} => StillWritten(s, Clear(s, m))
<1> DEFINE r == Removed(s.fifo, m)
           a == s.asleep \ m.cores
           t == [s EXCEPT !.fifo = r, !.asleep = a]
<1>1. s \in CacheState /\ Fifo(s.fifo) /\ Waited(s.asleep, s.fifo)
  BY DEF Good
<1>2. /\ Fifo(r) /\ Len(r) = Len(s.fifo) - 1
      /\ \A k \in DOMAIN r : \E j \in DOMAIN s.fifo : j # i /\ r[k] = s.fifo[j]
      /\ \A j \in DOMAIN s.fifo : j # i => \E k \in DOMAIN r : r[k] = s.fifo[j]
  BY <1>1, RemovedFacts
<1>3. a \in SUBSET Cores
  BY <1>1 DEF CacheState
<1>4. Clear(s, m) = t
  BY DEF Clear
<1>5. Waited(a, r)
  <2> SUFFICES ASSUME NEW c \in a PROVE \E k \in DOMAIN r : c \in r[k].cores
    BY DEF Waited
  <2>1. PICK j \in DOMAIN s.fifo : c \in s.fifo[j].cores
    BY <1>1 DEF Waited
  <2>2. j # i
    BY <2>1
  <2> HIDE DEF r
  <2> QED
    BY <2>1, <2>2, <1>2
<1> HIDE DEF r, a
<1>6. /\ t \in CacheState /\ t.fifo = r /\ t.asleep = a /\ t.dirty = s.dirty
      /\ t.word = s.word /\ t.order = s.order
  BY <1>1, <1>2, <1>3 DEF CacheState, Fifo
<1> HIDE DEF t
<1>7. Good(t)
  BY <1>2, <1>5, <1>6 DEF Good
<1>8. \A c : NoneOf(s.fifo, c) => NoneOf(t.fifo, c)
  BY <1>2, <1>6 DEF NoneOf
<1>9. s.fifo[i].type \notin {"EVICT", "WB"} => StillWritten(s, t)
  <2> SUFFICES ASSUME s.fifo[i].type \notin {"EVICT", "WB"}, NEW l, WrittenBack(s.fifo, l)
               PROVE  WrittenBack(t.fifo, l)
    BY DEF StillWritten
  <2>1. PICK j \in DOMAIN s.fifo : s.fifo[j].line = l /\ s.fifo[j].type \in {"EVICT", "WB"}
    BY DEF WrittenBack
  <2>2. PICK k \in DOMAIN r : r[k] = s.fifo[j]
    BY <2>1, <1>2
  <2> QED
    BY <2>1, <2>2, <1>6 DEF WrittenBack
<1> QED
  BY <1>2, <1>4, <1>6, <1>7, <1>8, <1>9

(* A fill on behalf of entry i, which is then cleared.                     *)
LEMMA FillClearFacts ==
  ASSUME NEW s, Good(s), NEW i \in DOMAIN s.fifo, NEW m, m.line \in Lines,
         m.id = s.fifo[i].id, m.cores = s.fifo[i].cores,
         s.fifo[i].type \notin {"EVICT", "WB"}
  PROVE  LET t == Clear(Fill(s, m.line), m) IN
           /\ Good(t) /\ Careful(s, t) /\ StillWritten(s, t) /\ Len(t.fifo) <= Len(s.fifo)
<1> DEFINE u == Fill(s, m.line)
           t == Clear(u, m)
<1>1. Good(u) /\ Careful(s, u) /\ MayEvict(s, u)
  BY FillFacts
<1> HIDE DEF u
<1>2. Len(s.fifo) \in Nat /\ Len(u.fifo) \in Nat
  BY <1>1 DEF Good, Fifo
<1>3. i \in DOMAIN u.fifo /\ u.fifo[i] = s.fifo[i] /\ Len(u.fifo) <= Len(s.fifo) + 1
  BY <1>1, <1>2 DEF MayEvict
<1>4. StillWritten(s, u)
  BY <1>1 DEF StillWritten, WrittenBack, MayEvict
<1>5. /\ Good(t) /\ t.dirty = u.dirty /\ Len(t.fifo) = Len(u.fifo) - 1
      /\ \A c : NoneOf(u.fifo, c) => NoneOf(t.fifo, c)
      /\ StillWritten(u, t)
  BY <1>1, <1>3, ClearFacts
<1> HIDE DEF t
<1>6. Careful(s, t)
  BY <1>1, <1>5 DEF Careful, StillWritten
<1>7. StillWritten(s, t)
  BY <1>4, <1>5 DEF StillWritten
<1>8. Good(t) /\ Careful(s, t) /\ StillWritten(s, t) /\ Len(t.fifo) <= Len(s.fifo)
  BY <1>2, <1>3, <1>5, <1>6, <1>7
<1> QED
  BY <1>8 DEF t, u

LEMMA ServeFacts ==
  ASSUME NEW s, Good(s), NEW i \in Nat \ {0}, NEW accepts \in BOOLEAN
  PROVE  LET t == Serve(accepts, s, i) IN
           /\ Good(t) /\ Careful(s, t) /\ StillWritten(s, t) /\ Len(t.fifo) <= Len(s.fifo)
<1> DEFINE t == Serve(accepts, s, i)
           m == s.fifo[i]
<1>0. /\ s \in CacheState /\ s.fifo \in Seq(MissEntry) /\ Len(s.fifo) \in Nat
      /\ Fifo(s.fifo) /\ DOMAIN s.fifo = 1 .. Len(s.fifo)
  BY DEF Good, Fifo
<1>1. CASE t = s
  BY <1>0, <1>1 DEF Careful, StillWritten
<1>2. CASE i \in DOMAIN s.fifo /\ ~m.acked /\ t = [s EXCEPT !.fifo[i].acked = accepts]
  <2> DEFINE f == [s.fifo EXCEPT ![i] = [@ EXCEPT !.acked = accepts]]
             e == [s.fifo[i] EXCEPT !.acked = accepts]
  <2>0. s.fifo[i] \in MissEntry
    BY <1>0, <1>2
  <2>1. /\ e \in MissEntry /\ e.id = s.fifo[i].id /\ e.type = s.fifo[i].type
        /\ e.line = s.fifo[i].line /\ e.core = s.fifo[i].core /\ e.cores = s.fifo[i].cores
    BY <2>0 DEF MissEntry
  <2>2. /\ f \in Seq(MissEntry) /\ DOMAIN f = DOMAIN s.fifo /\ Len(f) = Len(s.fifo)
        /\ f[i] = e /\ \A j \in DOMAIN f : j # i => f[j] = s.fifo[j]
    <3>1. f = [s.fifo EXCEPT ![i] = e]
      BY <1>0
    <3> HIDE DEF f, e
    <3> QED
      BY <3>1, <2>1, <1>0, <1>2
  <2>3. t = [s EXCEPT !.fifo = f]
    BY <1>2
  <2> HIDE DEF e, f, t
  <2>4. \A j \in DOMAIN f : /\ f[j].id = s.fifo[j].id /\ f[j].type = s.fifo[j].type
                            /\ f[j].line = s.fifo[j].line /\ f[j].core = s.fifo[j].core
                            /\ f[j].cores = s.fifo[j].cores
    BY <2>1, <2>2
  <2>5. /\ t \in CacheState /\ t.fifo = f /\ t.asleep = s.asleep /\ t.dirty = s.dirty
        /\ t.word = s.word /\ t.order = s.order
    BY <2>2, <2>3, <1>0 DEF CacheState
  <2>6. Fifo(f)
    <3>1. Distinct(f)
      BY <2>2, <2>4, <1>0 DEF Distinct, Fifo
    <3>2. OnceInOrder(f)
      BY <2>2, <2>4, <1>0 DEF OnceInOrder, Fifo
    <3> QED
      BY <2>2, <3>1, <3>2 DEF Fifo
  <2>7. Waited(t.asleep, f)
    BY <2>2, <2>4, <2>5 DEF Waited, Good
  <2>8. Good(t)
    BY <2>5, <2>6, <2>7 DEF Good
  <2>9. Careful(s, t) /\ StillWritten(s, t)
    BY <2>2, <2>4, <2>5 DEF Careful, StillWritten, NoneOf, WrittenBack
  <2> QED
    BY <1>0, <2>2, <2>5, <2>8, <2>9 DEF t
<1>3. CASE i \in DOMAIN s.fifo /\ m.type = "WRITE" /\ t = Clear(Fill(s, m.line), m)
  <2>1. m.line \in Lines /\ m.type \notin {"EVICT", "WB"}
    BY <1>0, <1>3 DEF MissEntry
  <2> QED
    BY <2>1, <1>3, FillClearFacts
<1>4. \/ t = s
      \/ i \in DOMAIN s.fifo /\ ~m.acked /\ t = [s EXCEPT !.fifo[i].acked = accepts]
      \/ i \in DOMAIN s.fifo /\ m.type = "WRITE" /\ t = Clear(Fill(s, m.line), m)
  <2>1. i > Len(s.fifo) \/ i \in DOMAIN s.fifo
    BY <1>0
  <2> QED
    BY <2>1, <1>0 DEF Serve
<1> QED
  BY <1>1, <1>2, <1>3, <1>4

(* The pass over the fifo: what each position keeps, the whole keeps.      *)
LEMMA ServeAllFacts ==
  ASSUME NEW s, Good(s), NEW accepts \in BOOLEAN
  PROVE  LET t == ServeAll(accepts, s) IN
           /\ Good(t) /\ Careful(s, t) /\ StillWritten(s, t) /\ Len(t.fifo) <= Len(s.fifo)
<1> DEFINE Kept(t) == /\ Good(t) /\ Careful(s, t) /\ StillWritten(s, t)
                      /\ Len(t.fifo) <= Len(s.fifo)
           X == {t \in CacheState : Kept(t)}
           f == [p \in X \X (1 .. Entries) |-> Serve(accepts, p[1], p[2])]
           After == CHOOSE g : g = [i \in 0 .. Entries |->
                                      IF i = 0 THEN s ELSE Serve(accepts, g[i - 1], i)]
<1>0. Entries \in Nat
  BY CacheSizes
<1>1. s \in X
  <2>1. Careful(s, s) /\ StillWritten(s, s)
    BY DEF Careful, StillWritten
  <2>2. s \in CacheState /\ Len(s.fifo) \in Nat
    BY DEF Good, Fifo
  <2> QED
    BY <2>1, <2>2
<1>2. ASSUME NEW t \in X, NEW i \in 1 .. Entries
      PROVE  Serve(accepts, t, i) \in X
  <2> DEFINE u == Serve(accepts, t, i)
  <2>1. i \in Nat \ {0} /\ Good(t) /\ Careful(s, t) /\ StillWritten(s, t)
        /\ Len(t.fifo) <= Len(s.fifo)
    BY <1>0
  <2>2. Good(u) /\ Careful(t, u) /\ StillWritten(t, u) /\ Len(u.fifo) <= Len(t.fifo)
    BY <2>1, ServeFacts
  <2> HIDE DEF u
  <2>3. Careful(s, u)
    BY <2>1, <2>2 DEF Careful, StillWritten
  <2>4. StillWritten(s, u)
    BY <2>1, <2>2 DEF StillWritten
  <2>5. u \in CacheState /\ Len(s.fifo) \in Nat /\ Len(t.fifo) \in Nat /\ Len(u.fifo) \in Nat
    BY <2>1, <2>2 DEF Good, Fifo
  <2>6. Kept(u) /\ u \in CacheState
    BY <2>1, <2>2, <2>3, <2>4, <2>5
  <2> HIDE DEF Kept
  <2> QED
    BY <2>6 DEF u
<1> HIDE DEF X
<1>3. f \in [X \X (1 .. Entries) -> X]
  BY <1>2
<1>4. \E g : g = [i \in 0 .. Entries |-> IF i = 0 THEN s ELSE Serve(accepts, g[i - 1], i)]
  <2>0. PICK g : Iterates(g, X, s, Entries, f)
    <3> HIDE DEF f
    <3> QED
      BY <1>0, <1>1, <1>3, Iterated
  <2>1. /\ g \in [0 .. Entries -> X] /\ g[0] = s
        /\ \A i \in 1 .. Entries : g[i] = f[<<g[i - 1], i>>]
    BY <2>0 DEF Iterates
  <2>2. ASSUME NEW i \in 0 .. Entries, i # 0
        PROVE  g[i] = Serve(accepts, g[i - 1], i)
    <3>1. i \in 1 .. Entries /\ i - 1 \in 0 .. Entries
      BY <1>0, <2>2
    <3>2. g[i - 1] \in X
      BY <2>1, <3>1
    <3> QED
      BY <2>1, <3>1, <3>2
  <2>3. g = [i \in 0 .. Entries |-> IF i = 0 THEN s ELSE Serve(accepts, g[i - 1], i)]
    BY <2>1, <2>2
  <2> QED
    BY <2>3
<1>5. After = [i \in 0 .. Entries |-> IF i = 0 THEN s ELSE Serve(accepts, After[i - 1], i)]
  BY <1>4
<1>6. ServeAll(accepts, s) = After[Entries]
  BY DEF ServeAll
<1> HIDE DEF After
<1>7. Entries \in {n \in 0 .. Entries : After[n] \in X}
  <2> DEFINE S == {n \in 0 .. Entries : After[n] \in X}
  <2>1. 0 \in S
    BY <1>0, <1>1, <1>5
  <2>2. ASSUME NEW n \in S, n \in 0 .. Entries - 1
        PROVE  n + 1 \in S
    <3>1. n + 1 \in 1 .. Entries /\ n + 1 \in 0 .. Entries /\ (n + 1) - 1 = n /\ n + 1 # 0
      BY <1>0, <2>2
    <3>2. After[n + 1] = Serve(accepts, After[n], n + 1)
      BY <1>5, <3>1
    <3> QED
      BY <1>2, <3>1, <3>2
  <2> HIDE DEF S
  <2>3. Entries \in S
    BY <1>0, <2>1, <2>2, UpTo
  <2> QED
    BY <2>3 DEF S
<1> QED
  BY <1>6, <1>7 DEF X

-----------------------------------------------------------------------------
(***************************************************************************)
(* The inductive invariant.                                                *)
(***************************************************************************)

TypeOK ==
  /\ turn \in 0 .. NumCores
  /\ sleepy \in BOOLEAN
  /\ order \in Seq(Lines) /\ word \in SUBSET Lines /\ dirty \in SUBSET Lines
  /\ fifo \in Seq(MissEntry)
  /\ l1 \in [Cores -> SUBSET Lines]
  /\ fill \in [Cores -> {NoFill} \cup [line : Lines, wait : Nat]]
  /\ asleep \in SUBSET Cores
  /\ op \in [Cores -> {Idle} \cup [kind : Kinds, line : Lines]]
  /\ outstanding \in SUBSET Cores /\ completed \in SUBSET Cores
  /\ barrier \in [Cores -> {"none", "pending", "completed"}]

(* Demands have left the entries that evictions and broadcasts may need.   *)
Room == Len(fifo) <= Entries - (EvictionBuffer + BcastCount)

(* The words of the L2, dirty or valid, are of lines it holds.             *)
WordsHeld == \A l \in dirty \cup word : InOrder(order, l)

(* A core at a barrier does nothing else, and has no request left once the
   barrier is completed.                                                   *)
AtBarrier == \A c \in Cores : barrier[c] # "none" => op[c].kind = "barrier"
Fenced == \A c \in Cores : barrier[c] = "completed" => NoneOf(fifo, c)

IInv ==
  /\ TypeOK
  /\ Distinct(fifo) /\ OnceInOrder(fifo) /\ Waited(asleep, fifo)
  /\ Room /\ WordsHeld /\ AtBarrier /\ Fenced

LEMMA InitIInv == Init => IInv
<1> SUFFICES ASSUME Init PROVE IInv
  OBVIOUS
<1>1. TypeOK
  BY CacheSizes DEF Init, TypeOK
<1>2. fifo = << >> /\ asleep = {} /\ dirty = {} /\ word = {} /\ \A c \in Cores : barrier[c] = "none"
  BY DEF Init
<1>3. Distinct(fifo) /\ OnceInOrder(fifo) /\ Waited(asleep, fifo) /\ Room
  BY <1>2, CacheSizes DEF Distinct, OnceInOrder, Waited, Room
<1> QED
  BY <1>1, <1>2, <1>3 DEF IInv, WordsHeld, AtBarrier, Fenced

(***************************************************************************)
(* The step of the caches.                                                 *)
(***************************************************************************)

(* The waiting times that run down.                                        *)
LEMMA CachesGood ==
  ASSUME IInv
  PROVE  /\ Good(Caches) /\ Caches.dirty = dirty /\ Len(Caches.fifo) = Len(fifo)
         /\ DOMAIN Caches.fifo = DOMAIN fifo
         /\ \A i \in DOMAIN fifo : /\ Caches.fifo[i].id = fifo[i].id
                                  /\ Caches.fifo[i].type = fifo[i].type
                                  /\ Caches.fifo[i].line = fifo[i].line
                                  /\ Caches.fifo[i].core = fifo[i].core
                                  /\ Caches.fifo[i].cores = fifo[i].cores
<1> DEFINE f == [i \in DOMAIN fifo |-> [fifo[i] EXCEPT !.wait = IF @ > 0 THEN @ - 1 ELSE 0]]
<1>1. fifo \in Seq(MissEntry) /\ Len(fifo) \in Nat /\ DOMAIN fifo = 1 .. Len(fifo)
  BY DEF IInv, TypeOK
<1>2. ASSUME NEW i \in DOMAIN fifo
      PROVE  /\ f[i] \in MissEntry
             /\ f[i].id = fifo[i].id /\ f[i].type = fifo[i].type /\ f[i].line = fifo[i].line
             /\ f[i].core = fifo[i].core /\ f[i].cores = fifo[i].cores
  <2> DEFINE w == IF fifo[i].wait > 0 THEN fifo[i].wait - 1 ELSE 0
  <2>1. f[i] = [fifo[i] EXCEPT !.wait = w]
    OBVIOUS
  <2>2. fifo[i] \in MissEntry
    BY <1>1
  <2>3. w \in Nat
    BY <2>2 DEF MissEntry
  <2> HIDE DEF w, f
  <2> QED
    BY <2>1, <2>2, <2>3 DEF MissEntry
<1>3. f \in Seq(MissEntry) /\ DOMAIN f = DOMAIN fifo /\ Len(f) = Len(fifo)
  <2>1. f = [i \in 1 .. Len(fifo) |-> f[i]]
    BY <1>1
  <2>2. \A i \in 1 .. Len(fifo) : f[i] \in MissEntry
    BY <1>1, <1>2
  <2> HIDE DEF f
  <2>3. f \in [1 .. Len(fifo) -> MissEntry]
    BY <2>1, <2>2
  <2> QED
    BY <1>1, <2>3
<1>4. Caches = [order |-> order, word |-> word, dirty |-> dirty, l1 |-> l1, fifo |-> f,
                asleep |-> asleep, outstanding |-> outstanding, completed |-> completed]
  BY DEF Caches
<1> HIDE DEF f
<1>5. Caches \in CacheState
  BY <1>3, <1>4 DEF CacheState, IInv, TypeOK
<1>6. Fifo(f)
  <2>1. Distinct(f)
    BY <1>2, <1>3 DEF IInv, Distinct
  <2>2. OnceInOrder(f)
    BY <1>2, <1>3 DEF IInv, OnceInOrder
  <2> QED
    BY <1>3, <2>1, <2>2 DEF Fifo
<1>7. Waited(asleep, f)
  BY <1>2, <1>3 DEF IInv, Waited
<1>8. /\ Caches.fifo = f /\ Caches.asleep = asleep /\ Caches.dirty = dirty
      /\ Caches.word = word /\ Caches.order = order
  BY <1>4
<1> QED
  BY <1>2, <1>3, <1>5, <1>6, <1>7, <1>8 DEF Good, IInv, WordsHeld

(* The reply to an entry that was sent and is no store.                    *)
LEMMA AnsweredFacts ==
  ASSUME NEW s, Good(s), NEW i \in DOMAIN s.fifo, NEW m,
         m.id = s.fifo[i].id, m.type = s.fifo[i].type, m.line = s.fifo[i].line,
         m.core = s.fifo[i].core, m.cores = s.fifo[i].cores, m.type # "WRITE"
  PROVE  LET t == Answered(s, m) IN
           Good(t) /\ Careful(s, t) /\ Len(t.fifo) <= Len(s.fifo)
<1>1. s \in CacheState /\ s.fifo[i] \in MissEntry /\ Len(s.fifo) \in Nat
  BY DEF Good, Fifo
<1>2. /\ m.type \in EntryTypes /\ m.line \in Lines
      /\ m.type # "EVICT" => m.core \in Cores
  BY <1>1 DEF MissEntry
<1>3. CASE m.type \in {"ATOM", "GLOBAL"}
  <2> DEFINE o == s.outstanding \ {m.core}
             k == s.completed \cup {m.core}
             u == [s EXCEPT !.outstanding = o, !.completed = k]
             t == Clear(u, m)
  <2>1. o \in SUBSET Cores /\ k \in SUBSET Cores
    BY <1>1, <1>2, <1>3 DEF CacheState
  <2>2. Answered(s, m) = t
    BY <1>3 DEF Answered, GlobalAnswered
  <2> HIDE DEF o, k
  <2>3. /\ u \in CacheState /\ u.fifo = s.fifo /\ u.asleep = s.asleep /\ u.dirty = s.dirty
        /\ u.word = s.word /\ u.order = s.order
    BY <1>1, <2>1 DEF CacheState
  <2> HIDE DEF u
  <2>4. Good(u)
    BY <2>3 DEF Good
  <2>5. /\ Good(t) /\ t.dirty = u.dirty /\ Len(t.fifo) = Len(u.fifo) - 1
        /\ \A c : NoneOf(u.fifo, c) => NoneOf(t.fifo, c)
    BY <2>3, <2>4, ClearFacts
  <2> HIDE DEF t
  <2> QED
    BY <1>1, <2>2, <2>3, <2>5 DEF Careful
<1>4. CASE m.type \in {"WB", "EVICT"}
  <2> DEFINE t == Clear(s, m)
  <2>1. Answered(s, m) = t
    BY <1>4 DEF Answered, WriteBackAnswered
  <2>2. /\ Good(t) /\ t.dirty = s.dirty /\ Len(t.fifo) = Len(s.fifo) - 1
        /\ \A c : NoneOf(s.fifo, c) => NoneOf(t.fifo, c)
    BY ClearFacts
  <2> HIDE DEF t
  <2> QED
    BY <1>1, <2>1, <2>2 DEF Careful
<1>5. CASE m.type \in {"READ", "PREFETCH"}
  <2>1. Answered(s, m) = Clear(Fill(s, m.line), m)
    BY <1>5 DEF Answered, FetchAnswered
  <2>2. s.fifo[i].type \notin {"EVICT", "WB"}
    BY <1>5
  <2> QED
    BY <1>2, <2>1, <2>2, FillClearFacts
<1> QED
  BY <1>2, <1>3, <1>4, <1>5 DEF EntryTypes

(* The reply taken (a), then the pass over the fifo (s): nothing dirty is
   lost, no request is added to those of a core, and the fifo does not grow.*)
CachesEnd(a, s) ==
  /\ Good(s) /\ Len(s.fifo) <= Len(fifo)
  /\ \A l \in dirty : l \in s.dirty \/ WrittenBack(s.fifo, l)
  /\ \A c \in Cores : NoneOf(fifo, c) => NoneOf(s.fifo, c)
  /\ \A c \in Cores : Drained(a, c) => NoneOf(s.fifo, c)
  /\ order' = s.order /\ word' = s.word /\ dirty' = s.dirty
  /\ fifo' = s.fifo /\ asleep' = s.asleep
  /\ outstanding' = s.outstanding /\ completed' = s.completed
  /\ barrier' = [c \in Cores |-> IF barrier[c] = "pending" /\ Drained(a, c)
                                 THEN "completed" ELSE barrier[c]]

LEMMA CachesStepFacts ==
  ASSUME IInv, NEW reply \in Replies, NEW accepts \in BOOLEAN, CachesStep(reply, accepts)
  PROVE  \E a, s : CachesEnd(a, s)
<1> DEFINE m == CHOOSE e \in {fifo[i] : i \in DOMAIN fifo} : e.id = reply
           a == IF reply = 0 THEN Caches ELSE Answered(Caches, m)
           s == ServeAll(accepts, a)
<1>1. /\ Good(Caches) /\ Caches.dirty = dirty /\ Len(Caches.fifo) = Len(fifo)
      /\ DOMAIN Caches.fifo = DOMAIN fifo
      /\ \A i \in DOMAIN fifo : /\ Caches.fifo[i].id = fifo[i].id
                               /\ Caches.fifo[i].type = fifo[i].type
                               /\ Caches.fifo[i].line = fifo[i].line
                               /\ Caches.fifo[i].core = fifo[i].core
                               /\ Caches.fifo[i].cores = fifo[i].cores
  BY CachesGood
<1>2. Good(a) /\ Careful(Caches, a) /\ Len(a.fifo) <= Len(Caches.fifo)
  <2>1. CASE reply = 0
    <3>1. Len(Caches.fifo) \in Nat
      BY <1>1 DEF Good, Fifo
    <3> QED
      BY <2>1, <3>1, <1>1 DEF Careful
  <2>2. CASE reply # 0
    <3>1. PICK i \in DOMAIN fifo : fifo[i].id = reply /\ fifo[i].type # "WRITE"
      BY <2>2 DEF CachesStep, Unanswered
    <3>2. m = fifo[i]
      <4>1. \A j \in DOMAIN fifo : fifo[j].id = reply => j = i
        BY <3>1 DEF IInv, Distinct
      <4> QED
        BY <3>1, <4>1
    <3> HIDE DEF m
    <3>3. Good(Answered(Caches, m)) /\ Careful(Caches, Answered(Caches, m))
          /\ Len(Answered(Caches, m).fifo) <= Len(Caches.fifo)
      BY <1>1, <3>1, <3>2, AnsweredFacts
    <3> QED
      BY <2>2, <3>3
  <2> QED
    BY <2>1, <2>2
<1>3. /\ order' = s.order /\ word' = s.word /\ dirty' = s.dirty
      /\ fifo' = s.fifo /\ asleep' = s.asleep
      /\ outstanding' = s.outstanding /\ completed' = s.completed
      /\ barrier' = [c \in Cores |-> IF barrier[c] = "pending" /\ Drained(a, c)
                                     THEN "completed" ELSE barrier[c]]
  BY DEF CachesStep
<1> HIDE DEF m, a
<1>4. Good(s) /\ Careful(a, s) /\ StillWritten(a, s) /\ Len(s.fifo) <= Len(a.fifo)
  BY <1>2, ServeAllFacts
<1> HIDE DEF s
<1>5. Len(s.fifo) <= Len(fifo)
  <2>1. Len(s.fifo) \in Nat /\ Len(a.fifo) \in Nat /\ Len(fifo) \in Nat
    BY <1>2, <1>4 DEF Good, Fifo, IInv, TypeOK
  <2> QED
    BY <2>1, <1>1, <1>2, <1>4
<1>6. \A l \in dirty : l \in s.dirty \/ WrittenBack(s.fifo, l)
  BY <1>1, <1>2, <1>4 DEF Careful, StillWritten
<1>7. \A c \in Cores : NoneOf(fifo, c) => NoneOf(s.fifo, c)
  <2>1. \A c \in Cores : NoneOf(fifo, c) => NoneOf(Caches.fifo, c)
    BY <1>1 DEF NoneOf
  <2> QED
    BY <2>1, <1>2, <1>4 DEF Careful
<1>8. \A c \in Cores : Drained(a, c) => NoneOf(s.fifo, c)
  BY <1>4 DEF Careful, Drained, NoneOf
<1> QED
  BY <1>3, <1>4, <1>5, <1>6, <1>7, <1>8 DEF CachesEnd

LEMMA CachesKeep ==
  ASSUME IInv, NEW reply \in Replies, NEW accepts \in BOOLEAN, CachesStep(reply, accepts)
  PROVE  IInv'
<1>1. PICK a, s : CachesEnd(a, s)
  BY CachesStepFacts
<1>2. Good(s) /\ s \in CacheState /\ Fifo(s.fifo)
  BY <1>1 DEF CachesEnd, Good
<1>3. /\ order' = s.order /\ word' = s.word /\ dirty' = s.dirty
      /\ fifo' = s.fifo /\ asleep' = s.asleep
      /\ outstanding' = s.outstanding /\ completed' = s.completed
      /\ barrier' = [c \in Cores |-> IF barrier[c] = "pending" /\ Drained(a, c)
                                     THEN "completed" ELSE barrier[c]]
  BY <1>1 DEF CachesEnd
<1>4. TypeOK'
  <2>1. turn' \in 0 .. NumCores /\ sleepy' = sleepy /\ op' = op
    BY CacheSizes DEF CachesStep
  <2>2. l1' \in [Cores -> SUBSET Lines]
    BY DEF CachesStep
  <2>3. fill' \in [Cores -> {NoFill} \cup [line : Lines, wait : Nat]]
    <3>1. fill' = [c \in Cores |-> Later(fill[c])]
      BY DEF CachesStep
    <3>2. ASSUME NEW c \in Cores
          PROVE  Later(fill[c]) \in {NoFill} \cup [line : Lines, wait : Nat]
      <4>1. CASE fill[c] = NoFill
        BY <4>1 DEF Later, NoFill
      <4>2. CASE fill[c] \in [line : Lines, wait : Nat]
        <5>1. CASE fill[c].wait > 1
          <6>1. fill[c].wait - 1 \in Nat
            BY <4>2, <5>1
          <6> QED
            BY <4>2, <5>1, <6>1 DEF Later
        <5>2. CASE ~(fill[c].wait > 1)
          BY <5>2 DEF Later
        <5> QED
          BY <5>1, <5>2
      <4> QED
        BY <4>1, <4>2 DEF IInv, TypeOK
    <3> QED
      BY <3>1, <3>2
  <2>4. barrier' \in [Cores -> {"none", "pending", "completed"}]
    BY <1>3 DEF IInv, TypeOK
  <2> QED
    BY <1>2, <1>3, <2>1, <2>2, <2>3, <2>4 DEF TypeOK, IInv, CacheState
<1>5. Distinct(fifo)' /\ OnceInOrder(fifo)' /\ Waited(asleep, fifo)' /\ WordsHeld'
  BY <1>2, <1>3 DEF Good, Fifo, Distinct, OnceInOrder, Waited, WordsHeld, InOrder
<1>6. Room'
  <2>1. Len(s.fifo) <= Len(fifo) /\ Len(s.fifo) \in Nat /\ Len(fifo) \in Nat
    BY <1>1, <1>2 DEF CachesEnd, Fifo, IInv, TypeOK
  <2> QED
    BY <1>3, <2>1, CacheSizes DEF IInv, Room
<1>7. AtBarrier'
  <2>1. op' = op
    BY DEF CachesStep
  <2>2. \A c \in Cores : barrier'[c] # "none" => barrier[c] # "none"
    BY <1>3
  <2> QED
    BY <2>1, <2>2 DEF AtBarrier, IInv
<1>8. Fenced'
  <2> SUFFICES ASSUME NEW c \in Cores, barrier'[c] = "completed"
               PROVE  NoneOf(fifo', c)
    BY DEF Fenced, NoneOf
  <2>1. barrier[c] = "completed" \/ Drained(a, c)
    BY <1>3
  <2> QED
    BY <1>1, <1>3, <2>1 DEF CachesEnd, Fenced, IInv
<1> QED
  BY <1>4, <1>5, <1>6, <1>7, <1>8 DEF IInv

(***************************************************************************)
(* The steps of the cores.                                                 *)
(***************************************************************************)

(* What a core may do to the entries: nothing, pend a request of its own
   while there is room, or join an entry of the line.                      *)
CoreFifo(c) ==
  \/ UNCHANGED <<fifo, asleep>>
  \/ \E type \in EntryTypes \ {"EVICT"}, l \in Lines :
       ~Full(fifo) /\ (type \in Fetches => ~IsPending(l)) /\ Pends(type, l, c)
  \/ \E l \in Lines : IsPending(l) /\ Joins(l, c)

FifoKept(c) ==
  /\ fifo' \in Seq(MissEntry) /\ asleep' \in SUBSET Cores
  /\ Distinct(fifo)' /\ OnceInOrder(fifo)' /\ Waited(asleep, fifo)' /\ Room'
  /\ \A d \in Cores \ {c} : NoneOf(fifo, d) => NoneOf(fifo', d)

LEMMA PendsFacts ==
  ASSUME IInv, NEW c \in Cores, NEW type \in EntryTypes \ {"EVICT"}, NEW l \in Lines,
         ~Full(fifo), type \in Fetches => ~IsPending(l), Pends(type, l, c)
  PROVE  FifoKept(c) /\ (type = "WB" => WrittenBack(fifo', l))
<1> DEFINE e == Entry(fifo, type, l, c)
<1>1. fifo \in Seq(MissEntry) /\ Len(fifo) \in Nat /\ Fifo(fifo)
  BY DEF IInv, TypeOK, Fifo
<1>2. type \in EntryTypes /\ c \in Cores \cup {NoCore} /\ (type = "EVICT" <=> c = NoCore)
  BY DEF Cores, NoCore
<1>3. /\ e \in MissEntry /\ \A i \in DOMAIN fifo : fifo[i].id # e.id
      /\ e.type = type /\ e.line = l /\ e.core = c
      /\ e.cores = IF type \in SleepsOn THEN {c} ELSE {}
  <2>1. NewEntry(e, fifo, type, l, c)
    BY <1>1, <1>2, EntryFacts
  <2> QED
    BY <2>1 DEF NewEntry
<1>4. fifo' = Append(fifo, e) /\ asleep' = IF type \in SleepsOn THEN asleep \cup {c} ELSE asleep
  BY DEF Pends
<1> HIDE DEF e
<1>5. type \in Fetches => \A i \in DOMAIN fifo : fifo[i].line # l
  BY DEF IsPending
<1>6. /\ Fifo(fifo') /\ Len(fifo') = Len(fifo) + 1
      /\ DOMAIN fifo' = (DOMAIN fifo) \cup {Len(fifo) + 1}
      /\ \A i \in DOMAIN fifo : fifo'[i] = fifo[i]
      /\ fifo'[Len(fifo) + 1] = e
  BY <1>1, <1>3, <1>4, <1>5, AppendedFacts
<1>7. Waited(asleep', fifo')
  BY <1>3, <1>4, <1>6 DEF IInv, Waited
<1>8. Room'
  BY <1>1, <1>6, CacheSizes DEF Full, Room
<1>9. \A d \in Cores \ {c} : NoneOf(fifo, d) => NoneOf(fifo', d)
  BY <1>3, <1>6 DEF NoneOf
<1>10. asleep' \in SUBSET Cores
  BY <1>4 DEF IInv, TypeOK
<1>11. type = "WB" => WrittenBack(fifo', l)
  BY <1>3, <1>6 DEF WrittenBack
<1> QED
  BY <1>6, <1>7, <1>8, <1>9, <1>10, <1>11 DEF FifoKept, Fifo, Distinct, OnceInOrder, Waited

LEMMA JoinsFacts ==
  ASSUME IInv, NEW c \in Cores, NEW l \in Lines, IsPending(l), Joins(l, c)
  PROVE  FifoKept(c)
<1> DEFINE k == PendingAt(l)
           e == [fifo[k] EXCEPT !.cores = @ \cup {c}]
<1>1. fifo \in Seq(MissEntry) /\ Len(fifo) \in Nat /\ DOMAIN fifo = 1 .. Len(fifo)
  BY DEF IInv, TypeOK
<1>2. k \in DOMAIN fifo
  <2> DEFINE S == {fifo[i].id : i \in {j \in DOMAIN fifo : fifo[j].line = l}}
  <2>1. S \in SUBSET Nat
    BY <1>1 DEF MissEntry
  <2>2. S # {}
    BY DEF IsPending
  <2>3. PICK n \in S : \A x \in S : n <= x
    <3> HIDE DEF S
    <3> QED
      BY <2>1, <2>2, Least
  <2>4. \E i \in DOMAIN fifo :
          /\ fifo[i].line = l
          /\ \A j \in DOMAIN fifo : fifo[j].line = l => fifo[i].id <= fifo[j].id
    BY <2>3
  <2> QED
    BY <2>4 DEF PendingAt
<1> HIDE DEF k
<1>3. CASE UNCHANGED <<fifo, asleep>>
  BY <1>3 DEF IInv, TypeOK, FifoKept, Distinct, OnceInOrder, Waited, Room
<1>4. CASE fifo' = [fifo EXCEPT ![k] = e] /\ asleep' = asleep \cup {c}
  <2>1. /\ e \in MissEntry /\ e.id = fifo[k].id /\ e.type = fifo[k].type
        /\ e.line = fifo[k].line /\ e.core = fifo[k].core
        /\ e.cores = fifo[k].cores \cup {c}
    <3>1. fifo[k] \in MissEntry
      BY <1>1, <1>2
    <3>2. fifo[k].cores \cup {c} \in SUBSET Cores
      BY <3>1 DEF MissEntry
    <3> QED
      BY <3>1, <3>2 DEF MissEntry
  <2> HIDE DEF e
  <2>2. /\ fifo' \in Seq(MissEntry) /\ DOMAIN fifo' = DOMAIN fifo /\ Len(fifo') = Len(fifo)
        /\ fifo'[k] = e /\ \A i \in DOMAIN fifo : i # k => fifo'[i] = fifo[i]
    BY <1>1, <1>2, <1>4, <2>1
  <2>3. \A i \in DOMAIN fifo : /\ fifo'[i].id = fifo[i].id /\ fifo'[i].type = fifo[i].type
                             /\ fifo'[i].line = fifo[i].line /\ fifo'[i].core = fifo[i].core
                             /\ fifo[i].cores \subseteq fifo'[i].cores
    BY <2>1, <2>2
  <2>4. Distinct(fifo')
    BY <2>2, <2>3 DEF Distinct, IInv
  <2>5. OnceInOrder(fifo')
    BY <2>2, <2>3 DEF OnceInOrder, IInv
  <2>6. Waited(asleep', fifo')
    <3> SUFFICES ASSUME NEW d \in asleep \cup {c}
                 PROVE  \E i \in DOMAIN fifo' : d \in fifo'[i].cores
      BY <1>4 DEF Waited
    <3>1. CASE d = c
      BY <3>1, <1>2, <2>1, <2>2
    <3>2. CASE d \in asleep
      <4>1. PICK i \in DOMAIN fifo : d \in fifo[i].cores
        BY <3>2 DEF IInv, Waited
      <4> QED
        BY <4>1, <2>2, <2>3
    <3> QED
      BY <3>1, <3>2
  <2>7. Room'
    BY <2>2 DEF Room, IInv
  <2>8. \A d \in Cores \ {c} : NoneOf(fifo, d) => NoneOf(fifo', d)
    BY <2>2, <2>3 DEF NoneOf
  <2>9. asleep' \in SUBSET Cores
    BY <1>4 DEF IInv, TypeOK
  <2> QED
    BY <2>2, <2>4, <2>5, <2>6, <2>7, <2>8, <2>9 DEF FifoKept, Distinct, OnceInOrder, Waited
<1> QED
  BY <1>3, <1>4 DEF Joins, k

LEMMA CoreFifoFacts ==
  ASSUME IInv, NEW c \in Cores, CoreFifo(c)
  PROVE  FifoKept(c)
<1>1. CASE UNCHANGED <<fifo, asleep>>
  BY <1>1 DEF IInv, TypeOK, FifoKept, Distinct, OnceInOrder, Waited, Room
<1> QED
  BY <1>1, PendsFacts, JoinsFacts DEF CoreFifo

(* The rest of the state, which an access that is no barrier may change.   *)
CoreRest(c) ==
  /\ turn' \in 0 .. NumCores /\ sleepy' = sleepy
  /\ order' \in Seq(Lines) /\ word' \in SUBSET Lines /\ dirty' \in SUBSET Lines
  /\ \A l \in dirty' \cup word' : InOrder(order', l)
  /\ l1' \in [Cores -> SUBSET Lines]
  /\ fill' \in [Cores -> {NoFill} \cup [line : Lines, wait : Nat]]
  /\ op' \in [Cores -> {Idle} \cup [kind : Kinds, line : Lines]]
  /\ outstanding' \in SUBSET Cores /\ completed' \in SUBSET Cores
  /\ \A d \in Cores \ {c} : op'[d] = op[d]
  /\ barrier' = barrier /\ barrier[c] = "none"

LEMMA CoreKeeps ==
  ASSUME IInv, NEW c \in Cores, CoreFifo(c), CoreRest(c)
  PROVE  IInv'
<1>1. FifoKept(c)
  BY CoreFifoFacts
<1>2. TypeOK'
  BY <1>1 DEF FifoKept, CoreRest, TypeOK, IInv
<1>3. WordsHeld'
  BY DEF CoreRest, WordsHeld, InOrder
<1>4. AtBarrier'
  BY DEF CoreRest, AtBarrier, IInv
<1>5. Fenced'
  BY <1>1 DEF CoreRest, FifoKept, Fenced, NoneOf, IInv
<1> QED
  BY <1>1, <1>2, <1>3, <1>4, <1>5 DEF FifoKept, IInv

(* A core that begins or retries an access is at no barrier.               *)
LEMMA AttemptFacts ==
  ASSUME IInv, NEW c \in Cores, NEW k \in Kinds \ {"barrier"}, NEW l \in Lines,
         Attempts(c, k, l), Ends(c) \/ Stalls(c, k, l)
  PROVE  /\ turn' \in 0 .. NumCores /\ sleepy' = sleepy
         /\ op' \in [Cores -> {Idle} \cup [kind : Kinds, line : Lines]]
         /\ \A d \in Cores \ {c} : op'[d] = op[d]
         /\ barrier[c] = "none"
<1>1. turn' \in 0 .. NumCores /\ sleepy' = sleepy
  BY CacheSizes DEF Attempts, NextTurn, IInv, TypeOK
<1>2. barrier[c] = "none"
  <2>1. op[c].kind # "barrier"
    <3>1. CASE op[c] = Idle
      BY <3>1 DEF Idle
    <3>2. CASE op[c] = [kind |-> k, line |-> l]
      BY <3>2
    <3> QED
      BY <3>1, <3>2 DEF Attempts
  <2> QED
    BY <2>1 DEF IInv, AtBarrier
<1>3. [kind |-> k, line |-> l] \in [kind : Kinds, line : Lines]
  OBVIOUS
<1>4. op' \in [Cores -> {Idle} \cup [kind : Kinds, line : Lines]]
      /\ \A d \in Cores \ {c} : op'[d] = op[d]
  BY <1>3 DEF Ends, Stalls, IInv, TypeOK
<1> QED
  BY <1>1, <1>2, <1>4

DirtyKept == \A l \in dirty : l \in dirty' \/ WrittenBack(fifo', l)

(* Actions that leave the L2 as it is.                                     *)
LEMMA LoadKeeps ==
  ASSUME IInv, NEW c \in Cores, NEW l \in Lines,
         LoadAwaitsL1(c, l) \/ LoadHitsL1(c, l) \/ LoadHitsL2(c, l) \/ LoadMisses(c, l)
  PROVE  IInv' /\ DirtyKept
<1>0. "load" \in Kinds \ {"barrier"}
  BY DEF Kinds
<1>1. Attempts(c, "load", l) /\ (Ends(c) \/ Stalls(c, "load", l))
  BY DEF LoadAwaitsL1, LoadHitsL1, LoadHitsL2, LoadMisses
<1>2. /\ turn' \in 0 .. NumCores /\ sleepy' = sleepy
      /\ op' \in [Cores -> {Idle} \cup [kind : Kinds, line : Lines]]
      /\ \A d \in Cores \ {c} : op'[d] = op[d]
      /\ barrier[c] = "none"
  BY <1>0, <1>1, AttemptFacts
<1>3. CoreFifo(c)
  <2>1. CASE LoadMisses(c, l)
    <3>1. "READ" \in EntryTypes \ {"EVICT"}
      BY DEF EntryTypes
    <3> QED
      BY <2>1, <3>1 DEF LoadMisses, CoreFifo
  <2>2. CASE LoadAwaitsL1(c, l) \/ LoadHitsL1(c, l) \/ LoadHitsL2(c, l)
    BY <2>2 DEF LoadAwaitsL1, LoadHitsL1, LoadHitsL2, CoreFifo
  <2> QED
    BY <2>1, <2>2
<1>4. /\ order' = order \/ order' = Touched(order, l)
      /\ word' = word /\ dirty' = dirty /\ l1' = l1 /\ UNCHANGED <<atomics, barrier>>
  BY DEF LoadAwaitsL1, LoadHitsL1, LoadHitsL2, LoadMisses, l2
<1>5. fill' \in [Cores -> {NoFill} \cup [line : Lines, wait : Nat]]
  <2>1. [line |-> l, wait |-> Latency] \in [line : Lines, wait : Nat]
    BY CacheSizes
  <2>2. fill' = fill \/ fill' = [fill EXCEPT ![c] = [line |-> l, wait |-> Latency]]
    BY DEF LoadAwaitsL1, LoadHitsL1, LoadHitsL2, LoadMisses
  <2> QED
    BY <2>1, <2>2 DEF IInv, TypeOK
<1>6. /\ Touched(order, l) \in Seq(Lines)
      /\ \A k : InOrder(order, k) => InOrder(Touched(order, l), k)
  BY TouchedFacts DEF IInv, TypeOK
<1>7. CoreRest(c)
  BY <1>2, <1>4, <1>5, <1>6 DEF CoreRest, IInv, TypeOK, WordsHeld, atomics
<1> QED
  BY <1>3, <1>4, <1>7, CoreKeeps DEF DirtyKept

LEMMA StoreKeeps ==
  ASSUME IInv, NEW c \in Cores, NEW l \in Lines, StoreHits(c, l) \/ StoreMisses(c, l)
  PROVE  IInv' /\ DirtyKept
<1>0. "store" \in Kinds \ {"barrier"}
  BY DEF Kinds
<1>1. Attempts(c, "store", l) /\ (Ends(c) \/ Stalls(c, "store", l))
  BY DEF StoreHits, StoreMisses
<1>2. /\ turn' \in 0 .. NumCores /\ sleepy' = sleepy
      /\ op' \in [Cores -> {Idle} \cup [kind : Kinds, line : Lines]]
      /\ \A d \in Cores \ {c} : op'[d] = op[d]
      /\ barrier[c] = "none"
  BY <1>0, <1>1, AttemptFacts
<1>3. CoreFifo(c)
  <2>1. "WRITE" \in EntryTypes \ {"EVICT"}
    BY DEF EntryTypes
  <2> QED
    BY <2>1 DEF StoreHits, StoreMisses, CoreFifo
<1>4. /\ \/ order' = order /\ dirty' = dirty
         \/ order' = Touched(order, l) /\ dirty' = dirty \cup {l} /\ l \in word
      /\ word' = word /\ l1' = l1 /\ fill' = fill /\ UNCHANGED <<atomics, barrier>>
  BY DEF StoreHits, StoreMisses, l2
<1>5. /\ Touched(order, l) \in Seq(Lines)
      /\ \A k : InOrder(order, k) => InOrder(Touched(order, l), k)
  BY TouchedFacts DEF IInv, TypeOK
<1>6. CoreRest(c)
  BY <1>2, <1>4, <1>5 DEF CoreRest, IInv, TypeOK, WordsHeld, atomics
<1> QED
  BY <1>3, <1>4, <1>6, CoreKeeps DEF DirtyKept

LEMMA GlobalKeeps ==
  ASSUME IInv, NEW c \in Cores, NEW k \in Kinds, NEW l \in Lines,
         GlobalPerforms(c, k, l) \/ GlobalAwaits(c, k, l) \/ GlobalRequests(c, k, l)
  PROVE  IInv' /\ DirtyKept
<1>0. k \in Globals /\ k \in Kinds \ {"barrier"}
  BY DEF GlobalPerforms, GlobalAwaits, GlobalRequests, Globals
<1>1. Attempts(c, k, l) /\ (Ends(c) \/ Stalls(c, k, l))
  BY DEF GlobalPerforms, GlobalAwaits, GlobalRequests
<1>2. /\ turn' \in 0 .. NumCores /\ sleepy' = sleepy
      /\ op' \in [Cores -> {Idle} \cup [kind : Kinds, line : Lines]]
      /\ \A d \in Cores \ {c} : op'[d] = op[d]
      /\ barrier[c] = "none"
  BY <1>0, <1>1, AttemptFacts
<1>3. CoreFifo(c)
  <2>1. Request[k] \in EntryTypes \ {"EVICT"} /\ Request[k] \notin Fetches
    BY <1>0 DEF Request, Globals, EntryTypes, Fetches
  <2> QED
    BY <2>1 DEF GlobalPerforms, GlobalAwaits, GlobalRequests, CoreFifo
<1>4. /\ order' = order /\ dirty' = dirty /\ word' \subseteq word
      /\ l1' = l1 /\ fill' = fill /\ barrier' = barrier
  BY DEF GlobalPerforms, GlobalAwaits, GlobalRequests, l2
<1>5. outstanding' \in SUBSET Cores /\ completed' \in SUBSET Cores
  BY DEF GlobalPerforms, GlobalAwaits, GlobalRequests, atomics, IInv, TypeOK
<1>6. CoreRest(c)
  BY <1>2, <1>4, <1>5 DEF CoreRest, IInv, TypeOK, WordsHeld
<1> QED
  BY <1>3, <1>4, <1>6, CoreKeeps DEF DirtyKept

LEMMA PrefetchKeeps ==
  ASSUME IInv, NEW c \in Cores, NEW l \in Lines, Prefetches(c, l)
  PROVE  IInv' /\ DirtyKept
<1>0. "prefetch" \in Kinds \ {"barrier"}
  BY DEF Kinds
<1>1. Attempts(c, "prefetch", l) /\ (Ends(c) \/ Stalls(c, "prefetch", l))
  BY DEF Prefetches
<1>2. /\ turn' \in 0 .. NumCores /\ sleepy' = sleepy
      /\ op' \in [Cores -> {Idle} \cup [kind : Kinds, line : Lines]]
      /\ \A d \in Cores \ {c} : op'[d] = op[d]
      /\ barrier[c] = "none"
  BY <1>0, <1>1, AttemptFacts
<1>3. CoreFifo(c)
  <2>1. "PREFETCH" \in EntryTypes \ {"EVICT"}
    BY DEF EntryTypes
  <2> QED
    BY <2>1 DEF Prefetches, CoreFifo
<1>4. /\ order' = order \/ order' = Touched(order, l)
      /\ dirty' = dirty /\ word' = word
      /\ l1' = l1 /\ fill' = fill /\ UNCHANGED <<atomics, barrier>>
  BY DEF Prefetches
<1>5. /\ Touched(order, l) \in Seq(Lines)
      /\ \A k : InOrder(order, k) => InOrder(Touched(order, l), k)
  BY TouchedFacts DEF IInv, TypeOK
<1>6. CoreRest(c)
  BY <1>2, <1>4, <1>5 DEF CoreRest, IInv, TypeOK, WordsHeld, atomics
<1> QED
  BY <1>3, <1>4, <1>6, CoreKeeps DEF DirtyKept

(* A line that leaves the L2 takes its words with it, and no other's.      *)
LEMMA DroppedFacts ==
  ASSUME IInv, NEW l \in Lines
  PROVE  /\ Without(order, l) \in Seq(Lines)
         /\ \A k \in (dirty \cup word) \ {l} : InOrder(Without(order, l), k)
<1>1. /\ Without(order, l) \in Seq(Lines)
      /\ \A i \in DOMAIN order : order[i] # l =>
           \E j \in DOMAIN Without(order, l) : Without(order, l)[j] = order[i]
  BY WithoutFacts DEF IInv, TypeOK
<1>2. \A k \in dirty \cup word : \E i \in DOMAIN order : order[i] = k
  BY DEF IInv, WordsHeld, InOrder
<1> QED
  BY <1>1, <1>2 DEF InOrder

LEMMA WriteBackKeeps ==
  ASSUME IInv, NEW c \in Cores, NEW k \in Kinds, NEW l \in Lines, WritesBack(c, k, l)
  PROVE  IInv' /\ DirtyKept
<1>0. k \in {"writeback", "flush"} /\ k \in Kinds \ {"barrier"}
  BY DEF WritesBack
<1>1. Attempts(c, k, l) /\ (Ends(c) \/ Stalls(c, k, l)) /\ OwnCopyDropped(c, l)
  BY DEF WritesBack
<1>2. /\ turn' \in 0 .. NumCores /\ sleepy' = sleepy
      /\ op' \in [Cores -> {Idle} \cup [kind : Kinds, line : Lines]]
      /\ \A d \in Cores \ {c} : op'[d] = op[d]
      /\ barrier[c] = "none"
  BY <1>0, <1>1, AttemptFacts
<1>3. "WB" \in EntryTypes \ {"EVICT"} /\ "WB" \notin Fetches
  BY DEF EntryTypes, Fetches
<1>4. CoreFifo(c)
  <2>1. CASE l \in dirty /\ ~(IsPending(l) \/ Full(fifo))
    BY <2>1, <1>3 DEF WritesBack, CoreFifo
  <2>2. CASE ~(l \in dirty /\ ~(IsPending(l) \/ Full(fifo)))
    BY <2>2 DEF WritesBack, CoreFifo
  <2> QED
    BY <2>1, <2>2
<1>5. l1' \in [Cores -> SUBSET Lines]
  BY <1>1 DEF OwnCopyDropped, IInv, TypeOK
<1>6. /\ Touched(order, l) \in Seq(Lines)
      /\ \A j : InOrder(order, j) => InOrder(Touched(order, l), j)
  BY TouchedFacts DEF IInv, TypeOK
<1>7. /\ fill' = fill /\ UNCHANGED <<atomics, barrier>>
  BY DEF WritesBack
<1>8. \/ order' = Touched(order, l) /\ word' = word /\ dirty' \subseteq dirty
      \/ order' = Without(order, l) /\ word' = word \ {l} /\ dirty' = dirty \ {l}
  BY DEF WritesBack, Cleaned
<1>9. CoreRest(c)
  BY <1>2, <1>5, <1>6, <1>7, <1>8, DroppedFacts DEF CoreRest, IInv, TypeOK, WordsHeld, atomics
<1>10. DirtyKept
  <2>1. CASE l \in dirty /\ ~(IsPending(l) \/ Full(fifo))
    <3>1. ~Full(fifo) /\ Pends("WB", l, c) /\ dirty' = dirty \ {l}
      BY <2>1 DEF WritesBack, Cleaned
    <3>2. WrittenBack(fifo', l)
      BY <3>1, <1>3, PendsFacts
    <3> QED
      BY <3>1, <3>2 DEF DirtyKept
  <2>2. CASE ~(l \in dirty /\ ~(IsPending(l) \/ Full(fifo)))
    <3>1. dirty' = dirty \/ (l \notin dirty /\ dirty' = dirty \ {l})
      BY <2>2 DEF WritesBack, Cleaned
    <3> QED
      BY <3>1 DEF DirtyKept
  <2> QED
    BY <2>1, <2>2
<1> QED
  BY <1>4, <1>9, <1>10, CoreKeeps

LEMMA InvalidateKeeps ==
  ASSUME IInv, NEW c \in Cores, NEW l \in Lines, Invalidates(c, l)
  PROVE  IInv' /\ \A k \in dirty : k \notin dirty' => k = l
<1>0. "invalidate" \in Kinds \ {"barrier"}
  BY DEF Kinds
<1>1. Attempts(c, "invalidate", l) /\ Ends(c) /\ OwnCopyDropped(c, l)
  BY DEF Invalidates
<1>2. /\ turn' \in 0 .. NumCores /\ sleepy' = sleepy
      /\ op' \in [Cores -> {Idle} \cup [kind : Kinds, line : Lines]]
      /\ \A d \in Cores \ {c} : op'[d] = op[d]
      /\ barrier[c] = "none"
  BY <1>0, <1>1, AttemptFacts
<1>3. CoreFifo(c)
  BY DEF Invalidates, CoreFifo
<1>4. l1' \in [Cores -> SUBSET Lines]
  BY <1>1 DEF OwnCopyDropped, IInv, TypeOK
<1>5. /\ fill' = fill /\ UNCHANGED <<atomics, barrier>>
      /\ \/ order' = order /\ word' = word /\ dirty' = dirty
         \/ order' = Without(order, l) /\ word' = word \ {l} /\ dirty' = dirty \ {l}
  BY DEF Invalidates, Dropped, l2
<1>6. CoreRest(c)
  BY <1>2, <1>4, <1>5, DroppedFacts DEF CoreRest, IInv, TypeOK, WordsHeld, atomics
<1> QED
  BY <1>3, <1>5, <1>6, CoreKeeps

LEMMA BarrierKeeps ==
  ASSUME IInv, NEW c \in Cores, NEW l \in Lines, BarrierEnds(c, l) \/ BarrierWaits(c, l)
  PROVE  IInv' /\ DirtyKept
<1>1. /\ Attempts(c, "barrier", l) /\ (Ends(c) \/ Stalls(c, "barrier", l))
      /\ UNCHANGED <<l2, fifo, l1, fill, asleep, atomics>>
  BY DEF BarrierEnds, BarrierWaits
<1>2. turn' \in 0 .. NumCores /\ sleepy' = sleepy
  BY <1>1, CacheSizes DEF Attempts, NextTurn, IInv, TypeOK
<1>3. /\ op' \in [Cores -> {Idle} \cup [kind : Kinds, line : Lines]]
      /\ \A d \in Cores \ {c} : op'[d] = op[d]
  <2>1. [kind |-> "barrier", line |-> l] \in [kind : Kinds, line : Lines]
    BY DEF Kinds
  <2> QED
    BY <1>1, <2>1 DEF Ends, Stalls, IInv, TypeOK
<1>4. /\ barrier' \in [Cores -> {"none", "pending", "completed"}]
      /\ \A d \in Cores \ {c} : barrier'[d] = barrier[d]
      /\ \/ barrier'[c] = "none"
         \/ barrier'[c] = "pending" /\ op'[c].kind = "barrier"
  <2>1. CASE BarrierEnds(c, l)
    BY <2>1 DEF BarrierEnds, IInv, TypeOK
  <2>2. CASE BarrierWaits(c, l)
    <3>1. op'[c] = [kind |-> "barrier", line |-> l]
      BY <2>2 DEF BarrierWaits, Stalls, IInv, TypeOK
    <3> QED
      BY <2>2, <3>1 DEF BarrierWaits, IInv, TypeOK
  <2> QED
    BY <2>1, <2>2
<1>5. TypeOK'
  BY <1>1, <1>2, <1>3, <1>4 DEF IInv, TypeOK, l2, atomics
<1>6. /\ Distinct(fifo)' /\ OnceInOrder(fifo)' /\ Waited(asleep, fifo)' /\ Room'
      /\ WordsHeld'
  BY <1>1 DEF IInv, Distinct, OnceInOrder, Waited, Room, WordsHeld, InOrder, l2
<1>7. AtBarrier' /\ Fenced'
  BY <1>1, <1>3, <1>4 DEF IInv, AtBarrier, Fenced, NoneOf
<1> QED
  BY <1>1, <1>5, <1>6, <1>7 DEF IInv, DirtyKept, l2

(* A turn that passes.                                                     *)
LEMMA PassKeeps ==
  ASSUME IInv, NEW c \in Cores, Sleeps(c) \/ Rests(c)
  PROVE  IInv' /\ DirtyKept
<1>1. UNCHANGED <<sleepy, l2, fifo, l1, fill, asleep, op, atomics, barrier>>
  BY DEF Sleeps, Rests
<1>2. turn' \in 0 .. NumCores
  BY CacheSizes DEF Sleeps, Rests, NextTurn, IInv, TypeOK
<1> QED
  BY <1>1, <1>2 DEF IInv, TypeOK, Distinct, OnceInOrder, Waited, Room, WordsHeld, InOrder,
                    AtBarrier, Fenced, NoneOf, DirtyKept, l2, atomics

(* Every step keeps the invariant and loses no dirty line but to LINE_INV. *)
LEMMA NextKeeps ==
  ASSUME IInv, [Next]_vars
  PROVE  /\ IInv'
         /\ \A l \in dirty : l \notin dirty' =>
              WrittenBack(fifo', l) \/ \E c \in Cores : Invalidates(c, l)
<1>1. CASE UNCHANGED vars
  BY <1>1 DEF IInv, TypeOK, Distinct, OnceInOrder, Waited, Room, WordsHeld, InOrder,
              AtBarrier, Fenced, NoneOf, vars, l2, atomics
<1>2. ASSUME NEW reply \in Replies, NEW accepts \in BOOLEAN, CachesStep(reply, accepts)
      PROVE  IInv' /\ DirtyKept
  <2>1. PICK a, s : CachesEnd(a, s)
    BY <1>2, CachesStepFacts
  <2>2. DirtyKept
    BY <2>1 DEF CachesEnd, DirtyKept
  <2> QED
    BY <1>2, <2>2, CachesKeep
<1>3. ASSUME NEW c \in Cores, CoreStep(c)
      PROVE  IInv' /\ (DirtyKept \/ \E l \in Lines : /\ Invalidates(c, l)
                                                    /\ \A k \in dirty : k \notin dirty' => k = l)
  <2>1. CASE Sleeps(c) \/ Rests(c)
    BY <2>1, PassKeeps
  <2>2. ASSUME NEW l \in Lines,
               LoadAwaitsL1(c, l) \/ LoadHitsL1(c, l) \/ LoadHitsL2(c, l) \/ LoadMisses(c, l)
        PROVE  IInv' /\ DirtyKept
    BY <2>2, LoadKeeps
  <2>3. ASSUME NEW l \in Lines, StoreHits(c, l) \/ StoreMisses(c, l)
        PROVE  IInv' /\ DirtyKept
    BY <2>3, StoreKeeps
  <2>4. ASSUME NEW l \in Lines, NEW k \in Kinds,
               GlobalPerforms(c, k, l) \/ GlobalAwaits(c, k, l) \/ GlobalRequests(c, k, l)
        PROVE  IInv' /\ DirtyKept
    BY <2>4, GlobalKeeps
  <2>5. ASSUME NEW l \in Lines, NEW k \in Kinds, WritesBack(c, k, l)
        PROVE  IInv' /\ DirtyKept
    BY <2>5, WriteBackKeeps
  <2>6. ASSUME NEW l \in Lines, Prefetches(c, l)
        PROVE  IInv' /\ DirtyKept
    BY <2>6, PrefetchKeeps
  <2>7. ASSUME NEW l \in Lines, Invalidates(c, l)
        PROVE  IInv' /\ \A k \in dirty : k \notin dirty' => k = l
    BY <2>7, InvalidateKeeps
  <2>8. ASSUME NEW l \in Lines, BarrierEnds(c, l) \/ BarrierWaits(c, l)
        PROVE  IInv' /\ DirtyKept
    BY <2>8, BarrierKeeps
  <2> QED
    BY <1>3, <2>1, <2>2, <2>3, <2>4, <2>5, <2>6, <2>7, <2>8 DEF CoreStep
<1>4. DirtyKept => \A l \in dirty : l \notin dirty' => WrittenBack(fifo', l)
  BY DEF DirtyKept
<1> QED
  BY <1>1, <1>2, <1>3, <1>4 DEF Next

LEMMA InvHolds == Spec => []IInv
<1>1. IInv /\ [Next]_vars => IInv'
  BY NextKeeps
<1> QED
  BY <1>1, InitIInv, PTL DEF Spec

-----------------------------------------------------------------------------
(* What the variables hold.                                                *)
THEOREM TypeCorrect == Spec => []TypeOK
<1>1. IInv => TypeOK
  BY DEF IInv
<1> QED
  BY <1>1, InvHolds, PTL

(* No order of misses, joins, refusals and replies leaves a core asleep that
   no entry will wake (MissHandlingEntry::AddCore and clear).              *)
THEOREM NobodyLeftAsleep == Spec => []SleepersAreWaited
<1>1. IInv => SleepersAreWaited
  BY DEF IInv, Waited, SleepersAreWaited
<1> QED
  BY <1>1, InvHolds, PTL

(* Demands leave evictions their entries, if any are kept for them
   (L2Cache::mshr_full, evict).                                            *)
THEOREM EvictionsFindRoom == ASSUME EvictionBuffer # 0 PROVE Spec => []EvictionsHaveRoom
<1>1. IInv => EvictionsHaveRoom
  BY CacheSizes DEF IInv, TypeOK, Room, EvictionsHaveRoom, NoRoomToEvict
<1> QED
  BY <1>1, InvHolds, PTL

(* A line is fetched once at a time, and not while an older write-back of it is
   under way (CacheBase::IsPending before every request).                  *)
THEOREM FetchedOnceInOrder == Spec => []FetchesOnceInOrder
<1>1. IInv => FetchesOnceInOrder
  BY DEF IInv, OnceInOrder, FetchesOnceInOrder
<1> QED
  BY <1>1, InvHolds, PTL

(* The L2 has dirty or valid words of no line it does not hold (L2Cache::Fill,
   evict, CacheBase::invalidate_line).                                     *)
THEOREM WordsOfHeldLines == Spec => []WordsHeld
<1>1. IInv => WordsHeld
  BY DEF IInv
<1> QED
  BY <1>1, InvHolds, PTL

(* No core passes a memory barrier with a request of its own left
   (L2Cache::ccache_handle_membar).                                        *)
THEOREM BarriersFence == Spec => BarrierFences
<1>1. IInv /\ [Next]_vars =>
        [\A c \in Cores : (\E l \in Lines : BarrierEnds(c, l)) => Of(c, EntryTypes) = {}]_vars
  <2> SUFFICES ASSUME IInv, NEW c \in Cores, NEW l \in Lines, BarrierEnds(c, l)
               PROVE  Of(c, EntryTypes) = {}
    OBVIOUS
  <2>1. NoneOf(fifo, c)
    BY DEF BarrierEnds, IInv, Fenced
  <2> QED
    BY <2>1 DEF NoneOf, Of
<1> QED
  BY <1>1, InvHolds, PTL DEF Spec, BarrierFences

(* Only LINE_INV throws a store away: any other way out of the L2 has the line
   written back (L2Cache::evict, CacheModel::writeback_line).              *)
THEOREM StoresAreNotDropped == Spec => DirtyNotDropped
<1>1. IInv /\ [Next]_vars =>
        [\A l \in dirty : l \notin dirty' =>
           \/ \E c \in Cores : Invalidates(c, l)
           \/ \E m \in ToSet(fifo') : m.line = l /\ m.type \in {"EVICT", "WB"}]_vars
  <2> SUFFICES ASSUME IInv, [Next]_vars, NEW l \in dirty, l \notin dirty'
               PROVE  \/ \E c \in Cores : Invalidates(c, l)
                      \/ \E m \in ToSet(fifo') : m.line = l /\ m.type \in {"EVICT", "WB"}
    OBVIOUS
  <2>1. WrittenBack(fifo', l) => \E m \in ToSet(fifo') : m.line = l /\ m.type \in {"EVICT", "WB"}
    BY DEF WrittenBack, ToSet
  <2> QED
    BY <2>1, NextKeeps
<1> QED
  BY <1>1, InvHolds, PTL DEF Spec, DirtyNotDropped
=============================================================================
