--------------------------- MODULE TaskQueueProofs ---------------------------
(***************************************************************************)
(* Proofs about TaskQueue for any number of cores, any latencies, sizes    *)
(* and loops.                                                              *)
(***************************************************************************)
EXTENDS TaskQueue, TLAPS

Distinct(q) == \A i, j \in DOMAIN q : i # j => q[i] # q[j]

(* What pushing tasks first .. last on a queue does to its elements.       *)
LEMMA PushedFacts ==
  ASSUME NEW q \in Seq(Tasks), NEW first \in Nat \ {0}, NEW last \in Nat,
         first <= last + 1, last <= MaxTasks
  PROVE  /\ Pushed(q, first, last) \in Seq(Tasks)
         /\ Len(Pushed(q, first, last)) = Len(q) + (last + 1 - first)
         /\ Elements(Pushed(q, first, last)) = Elements(q) \union (first .. last)
         /\ Distinct(q) /\ (\A t \in Elements(q) : t < first)
              => Distinct(Pushed(q, first, last))
<1> DEFINE n == last - first + 1
           h == [i \in 1 .. n |-> last + 1 - i]
           p == h \o q
<1>1. n \in Nat /\ h \in Seq(Tasks) /\ Len(h) = n
  <2>1. n \in Nat
    OBVIOUS
  <2>2. \A i \in 1 .. n : h[i] \in Tasks
    BY BoundAssumption DEF Tasks
  <2>3. h \in [1 .. n -> Tasks]
    BY <2>2
  <2> QED
    BY <2>1, <2>3
<1>2. /\ p \in Seq(Tasks)
      /\ Len(p) = n + Len(q)
      /\ \A i \in 1 .. n : p[i] = last + 1 - i
      /\ \A i \in n + 1 .. n + Len(q) : p[i] = q[i - n]
      /\ DOMAIN p = 1 .. n + Len(q)
      /\ Len(q) \in Nat
  BY <1>1
<1>3. p = Pushed(q, first, last)
  BY DEF Pushed
<1>4. Elements(p) = Elements(q) \union (first .. last)
  <2>1. ASSUME NEW t \in Elements(p)
        PROVE  t \in Elements(q) \union (first .. last)
    <3>1. PICK i \in 1 .. n + Len(q) : t = p[i]
      BY <1>2, <2>1 DEF Elements
    <3>2. CASE i \in 1 .. n
      BY <1>2, <3>1, <3>2
    <3>3. CASE i \in n + 1 .. n + Len(q)
      <4>1. i - n \in DOMAIN q
        BY <1>1, <3>3
      <4> QED
        BY <1>2, <3>1, <3>3, <4>1 DEF Elements
    <3> QED
      BY <1>1, <3>2, <3>3
  <2>2. ASSUME NEW t \in Elements(q)
        PROVE  t \in Elements(p)
    <3>1. PICK j \in 1 .. Len(q) : t = q[j]
      BY <2>2 DEF Elements
    <3>2. j + n \in n + 1 .. n + Len(q) /\ p[j + n] = q[j]
      BY <1>1, <1>2
    <3>3. j + n \in DOMAIN p
      BY <1>1, <1>2, <3>2
    <3> QED
      BY <3>1, <3>2, <3>3 DEF Elements
  <2>3. ASSUME NEW t \in first .. last
        PROVE  t \in Elements(p)
    <3>1. last + 1 - t \in 1 .. n /\ p[last + 1 - t] = t
      BY <1>1, <1>2, <2>3
    <3>2. last + 1 - t \in DOMAIN p
      BY <1>1, <1>2, <3>1
    <3> QED
      BY <3>1, <3>2 DEF Elements
  <2> QED
    BY <2>1, <2>2, <2>3
<1>6. n = last + 1 - first
  OBVIOUS
<1>5. ASSUME Distinct(q), \A t \in Elements(q) : t < first
      PROVE  Distinct(p)
  <2> HIDE DEF n, h, p
  <2> SUFFICES ASSUME NEW i \in 1 .. n + Len(q), NEW j \in 1 .. n + Len(q), i < j
               PROVE  p[i] # p[j]
    <3>1. \A i, j \in 1 .. n + Len(q) : i # j => i < j \/ j < i
      BY <1>1, <1>2
    <3> QED
      BY <1>2, <3>1 DEF Distinct
  <2>1. CASE j \in 1 .. n
    <3>1. i \in 1 .. n /\ p[i] = last + 1 - i /\ p[j] = last + 1 - j
      BY <1>1, <1>2, <2>1
    <3> QED
      BY <3>1
  <2>2. CASE i \in 1 .. n /\ j \in n + 1 .. n + Len(q)
    <3>1. j - n \in DOMAIN q /\ p[j] = q[j - n]
      BY <1>1, <1>2, <2>2
    <3>2. p[j] < first
      BY <1>5, <3>1 DEF Elements
    <3>3. p[i] >= first
      BY <1>1, <1>2, <1>6, <2>2
    <3>4. p[j] \in Int /\ p[i] \in Int
      BY <1>2, BoundAssumption DEF Tasks
    <3> QED
      BY <3>2, <3>3, <3>4
  <2>3. CASE i \in n + 1 .. n + Len(q)
    <3>1. /\ i - n \in DOMAIN q /\ p[i] = q[i - n]
          /\ j - n \in DOMAIN q /\ p[j] = q[j - n]
          /\ i - n # j - n
      BY <1>1, <1>2, <2>3
    <3> QED
      BY <1>5, <3>1 DEF Distinct
  <2> QED
    BY <1>1, <2>1, <2>2, <2>3
<1> HIDE DEF n, h, p
<1> QED
  BY <1>1, <1>2, <1>3, <1>4, <1>5, <1>6

(* What popping the front task does.                                       *)
LEMMA PoppedFacts ==
  ASSUME NEW q \in Seq(Tasks), q # <<>>
  PROVE  /\ Head(q) \in Tasks
         /\ Tail(q) \in Seq(Tasks)
         /\ Len(Tail(q)) = Len(q) - 1
         /\ Elements(q) = Elements(Tail(q)) \union {Head(q)}
         /\ Distinct(q) => Distinct(Tail(q)) /\ Head(q) \notin Elements(Tail(q))
<1>1. /\ Head(q) \in Tasks /\ Tail(q) \in Seq(Tasks) /\ Len(Tail(q)) = Len(q) - 1
      /\ Len(q) > 0 /\ Head(q) = q[1] /\ Len(q) \in Nat
      /\ \A i \in 1 .. Len(q) - 1 : Tail(q)[i] = q[i + 1]
  OBVIOUS
<1>2. DOMAIN q = 1 .. Len(q) /\ DOMAIN Tail(q) = 1 .. Len(q) - 1
  BY <1>1
<1>3. Elements(q) = Elements(Tail(q)) \union {Head(q)}
  <2>1. ASSUME NEW t \in Elements(q)
        PROVE  t \in Elements(Tail(q)) \union {Head(q)}
    <3>1. PICK i \in 1 .. Len(q) : t = q[i]
      BY <1>2, <2>1 DEF Elements
    <3>2. CASE i = 1
      BY <1>1, <3>1, <3>2
    <3>3. CASE i # 1
      <4>1. i - 1 \in DOMAIN Tail(q) /\ Tail(q)[i - 1] = q[i]
        BY <1>1, <1>2, <3>3
      <4> QED
        BY <3>1, <4>1 DEF Elements
    <3> QED
      BY <3>2, <3>3
  <2>2. ASSUME NEW t \in Elements(Tail(q))
        PROVE  t \in Elements(q)
    <3>1. PICK i \in 1 .. Len(q) - 1 : t = Tail(q)[i]
      BY <1>2, <2>2 DEF Elements
    <3>2. i + 1 \in DOMAIN q /\ Tail(q)[i] = q[i + 1]
      BY <1>1, <1>2
    <3> QED
      BY <3>1, <3>2 DEF Elements
  <2>3. Head(q) \in Elements(q)
    BY <1>1, <1>2 DEF Elements
  <2> QED
    BY <2>1, <2>2, <2>3
<1>4. ASSUME Distinct(q)
      PROVE  Distinct(Tail(q)) /\ Head(q) \notin Elements(Tail(q))
  BY <1>1, <1>2, <1>4 DEF Distinct, Elements
<1> QED
  BY <1>1, <1>3, <1>4

(* The empty queue.                                                        *)
LEMMA EmptyFacts ==
  /\ <<>> \in Seq(Tasks) /\ Len(<<>>) = 0 /\ Elements(<<>>) = {} /\ Distinct(<<>>)
  /\ \A q \in Seq(Tasks) : Elements(q) = {} => q = <<>>
<1>1. <<>> \in Seq(Tasks) /\ Len(<<>>) = 0 /\ Elements(<<>>) = {} /\ Distinct(<<>>)
  BY DEF Elements, Distinct
<1>2. ASSUME NEW q \in Seq(Tasks), q # <<>>
      PROVE  Elements(q) # {}
  BY <1>2, PoppedFacts
<1> QED
  BY <1>1, <1>2
-----------------------------------------------------------------------------
(* What a call that accepts the tasks issued + 1 .. issued + k changes; both
   enqueues are refinements of it.                                         *)
Accepts(k) ==
  /\ k + issued <= MaxTasks
  /\ Len(queue) <= maxSize => Len(queue) + k <= maxSize
  /\ queue' = Pushed(queue, issued + 1, issued + k)
  /\ issued' = issued + k

LEMMA EnqueueCases ==
  ASSUME TypeOK, NEW c \in Cores,
         TQ_Enqueue(c) \/ \E l \in LoopShapes : TQ_EnqueueLoop(c, l[1], l[2])
  PROVE  /\ MayAct(c) /\ ~Stalled(c)
         /\ \/ UNCHANGED <<queue, issued>>
            \/ \E k \in Nat : Accepts(k)
         /\ \E r \in {"SUCCESS", "OVERFLOW"} : Return(c, r)
         /\ abort' \in {abort, "overflow"}
         /\ UNCHANGED <<latches, pend, maxSize, done, dropped>>
<1>1. CASE TQ_Enqueue(c)
  <2>1. CASE Len(queue) = maxSize
    BY <1>1, <2>1 DEF TQ_Enqueue, TypeOK
  <2>2. CASE Len(queue) # maxSize
    <3>1. /\ 1 \in Nat /\ 1 + issued <= MaxTasks
          /\ Len(queue) <= maxSize => Len(queue) + 1 <= maxSize
      <4>1. maxSize \in Nat /\ Len(queue) \in Nat /\ issued \in Nat
        BY SizeAssumption DEF TypeOK
      <4> QED
        BY <1>1, <2>2, <4>1, BoundAssumption DEF TQ_Enqueue
    <3>2. Accepts(1)
      BY <1>1, <2>2, <3>1 DEF TQ_Enqueue, Accepts
    <3> QED
      BY <1>1, <2>2, <3>1, <3>2 DEF TQ_Enqueue
  <2> QED
    BY <2>1, <2>2
<1>2. CASE \E l \in LoopShapes : TQ_EnqueueLoop(c, l[1], l[2])
  <2>1. PICK n \in Nat, s \in Nat \ {0} : TQ_EnqueueLoop(c, n, s)
    BY <1>2, LoopAssumption
  <2>2. NumTasks(n, s) \in Nat
    BY DEF NumTasks
  <2>3. CASE Overflows(NumTasks(n, s))
    BY <2>1, <2>3 DEF TQ_EnqueueLoop
  <2>4. CASE ~Overflows(NumTasks(n, s))
    <3>1. /\ NumTasks(n, s) + issued <= MaxTasks
          /\ Len(queue) + NumTasks(n, s) <= maxSize
      <4>1. maxSize \in Nat /\ Len(queue) \in Nat /\ issued \in Nat
        BY SizeAssumption DEF TypeOK
      <4> QED
        BY <2>1, <2>2, <2>4, <4>1, BoundAssumption DEF TQ_EnqueueLoop, Overflows
    <3>2. Accepts(NumTasks(n, s))
      BY <2>1, <2>4, <3>1 DEF TQ_EnqueueLoop, Accepts
    <3> QED
      BY <2>1, <2>2, <2>4, <3>1, <3>2 DEF TQ_EnqueueLoop
  <2> QED
    BY <2>3, <2>4
<1> QED
  BY <1>1, <1>2

(* An accepting call keeps the queue well formed.                          *)
LEMMA AcceptFacts ==
  ASSUME TypeOK, NEW k \in Nat, Accepts(k)
  PROVE  /\ queue' \in Seq(Tasks)
         /\ issued' \in 0 .. MaxTasks
         /\ Len(queue') = Len(queue) + k
         /\ Elements(queue') = Elements(queue) \union (issued + 1 .. issued + k)
         /\ Distinct(queue) /\ Elements(queue) \subseteq 1 .. issued
              => Distinct(queue')
<1> DEFINE first == issued + 1
           last == issued + k
<1>1. /\ first \in Nat \ {0} /\ last \in Nat /\ first <= last + 1
      /\ last <= MaxTasks /\ last + 1 - first = k /\ queue \in Seq(Tasks)
  BY BoundAssumption DEF TypeOK, Accepts
<1>2. queue' = Pushed(queue, first, last) /\ issued' = issued + k
  BY DEF Accepts
<1>3. issued' \in 0 .. MaxTasks
  BY <1>2, BoundAssumption DEF TypeOK, Accepts
<1>4. ASSUME Elements(queue) \subseteq 1 .. issued
      PROVE  \A t \in Elements(queue) : t < first
  BY <1>4 DEF TypeOK
<1> HIDE DEF first, last
<1>5. /\ queue' \in Seq(Tasks)
      /\ Len(queue') = Len(queue) + k
      /\ Elements(queue') = Elements(queue) \union (first .. last)
      /\ Distinct(queue) /\ (\A t \in Elements(queue) : t < first)
           => Distinct(queue')
  BY <1>1, <1>2, PushedFacts
<1> QED
  BY <1>3, <1>4, <1>5 DEF first, last
-----------------------------------------------------------------------------
(* Elements and promised tasks are tasks.                                  *)
LEMMA TaskSets ==
  ASSUME TypeOK
  PROVE  /\ Elements(queue) \subseteq Tasks
         /\ NoTask \notin Elements(queue)
<1>1. ASSUME NEW i \in DOMAIN queue
      PROVE  queue[i] \in Tasks
  BY DEF TypeOK
<1>2. Elements(queue) \subseteq Tasks
  BY <1>1 DEF Elements
<1> QED
  BY <1>2 DEF Tasks, NoTask

(* The type invariant, with what it needs: a promise is always of a task.  *)
TypeInv ==
  /\ TypeOK
  /\ \A c \in Cores : next[c] = "PENDING_DEQUEUE" \/ curr[c] = "PENDING_DEQUEUE"
                     => pend[c] \in Tasks

LEMMA InitTypeInv == Init => TypeInv
<1> SUFFICES ASSUME Init PROVE TypeInv
  OBVIOUS
<1>1. queue \in Seq(Tasks)
  BY EmptyFacts DEF Init
<1> QED
  BY <1>1, BoundAssumption
  DEF Init, TypeInv, TypeOK, CoreStates, Returns, NoTask, Tasks

LEMMA NextTypeInv == TypeInv /\ [Next]_vars => TypeInv'
<1> SUFFICES ASSUME TypeInv, [Next]_vars PROVE TypeInv'
  OBVIOUS
<1> USE DEF CoreStates, Returns
<1>1. CASE UNCHANGED vars
  BY <1>1 DEF vars, TypeInv, TypeOK, Tasks, NoTask
<1>2. CASE Clock
  <2>1. /\ next' \in [Cores -> CoreStates]
        /\ \A c \in Cores : next'[c] = "PENDING_DEQUEUE" => next[c] = "PENDING_DEQUEUE"
    BY <1>2 DEF Clock, Default, TypeInv, TypeOK
  <2>2. cycles' \in [Cores -> Nat]
    BY <1>2 DEF Clock, Countdown, TypeInv, TypeOK
  <2> QED
    BY <1>2, <2>1, <2>2 DEF Clock, history, TypeInv, TypeOK, Tasks
<1>3. CASE Announce
  BY <1>3, LatencyAssumption DEF Announce, history, TypeInv, TypeOK, Tasks
<1>4. ASSUME NEW c \in Cores, TQ_Init(c)
      PROVE  TypeInv'
  <2>1. dropped' \subseteq Tasks
    BY <1>4, TaskSets DEF TQ_Init, TypeInv, TypeOK, Promised
  <2>2. queue' \in Seq(Tasks)
    BY <1>4, EmptyFacts DEF TQ_Init
  <2> QED
    BY <1>4, <2>1, <2>2 DEF TQ_Init, Return, TypeInv, TypeOK, Tasks
<1>5. ASSUME NEW c \in Cores, TQ_End(c)
      PROVE  TypeInv'
  BY <1>5 DEF TQ_End, Return, history, TypeInv, TypeOK, Tasks
<1>6. ASSUME NEW c \in Cores,
             TQ_Enqueue(c) \/ \E l \in LoopShapes : TQ_EnqueueLoop(c, l[1], l[2])
      PROVE  TypeInv'
  <2>1. queue' \in Seq(Tasks) /\ issued' \in 0 .. MaxTasks
    <3>1. CASE UNCHANGED <<queue, issued>>
      BY <3>1 DEF TypeInv, TypeOK, Tasks
    <3>2. CASE \E k \in Nat : Accepts(k)
      BY <3>2, AcceptFacts DEF TypeInv
    <3>3. \/ UNCHANGED <<queue, issued>>
          \/ \E k \in Nat : Accepts(k)
      <4>1. TypeOK
        BY DEF TypeInv
      <4> QED
        BY <1>6, <4>1, EnqueueCases
    <3> QED
      BY <3>1, <3>2, <3>3
  <2>2. /\ \E r \in {"SUCCESS", "OVERFLOW"} : Return(c, r)
        /\ abort' \in {abort, "overflow"}
        /\ UNCHANGED <<latches, pend, maxSize, done, dropped>>
    BY <1>6, EnqueueCases DEF TypeInv
  <2> QED
    BY <2>1, <2>2 DEF Return, latches, TypeInv, TypeOK, Tasks
<1>7. ASSUME NEW c \in Cores, TQ_Dequeue(c)
      PROVE  TypeInv'
  <2>1. UNCHANGED <<curr, maxSize, issued, dropped>>
    BY <1>7 DEF TQ_Dequeue
  <2> USE DEF TypeInv, TypeOK, Tasks, Return, Update
  <2>2. CASE Deliver(c)
    BY <2>1, <2>2 DEF Deliver
  <2>3. CASE AwaitLatency(c)
    BY <2>1, <2>3 DEF AwaitLatency
  <2>4. CASE BlockOnEmpty(c)
    BY <2>1, <2>4 DEF BlockOnEmpty
  <2>5. CASE SelectNextTask(c)
    <3>1. Head(queue) \in Tasks /\ Tail(queue) \in Seq(Tasks)
      BY <2>5, PoppedFacts DEF SelectNextTask
    <3> QED
      BY <2>1, <2>5, <3>1, LatencyAssumption DEF SelectNextTask
  <2>6. CASE WakeNext(c)
    BY <2>1, <2>6 DEF WakeNext
  <2>7. CASE PassBarrier(c)
    BY <2>1, <2>7 DEF PassBarrier
  <2>8. CASE UnknownState(c)
    BY <2>1, <2>8 DEF UnknownState
  <2> QED
    BY <1>7, <2>2, <2>3, <2>4, <2>5, <2>6, <2>7, <2>8 DEF TQ_Dequeue
<1> QED
  BY <1>1, <1>2, <1>3, <1>4, <1>5, <1>6, <1>7 DEF Next, PerCycle

(* The state of the queue keeps its types, and a core is promised a task only
   when its latch holds one (task_queue.h, TQ_CoreStateDesc).              *)
THEOREM TypeCorrect == Spec => [](TypeOK)
<1>1. TypeInv => TypeOK
  BY DEF TypeInv
<1> QED
  BY <1>1, InitTypeInv, NextTypeInv, PTL DEF Spec
-----------------------------------------------------------------------------
(* Why a barrier never opens over queued work.  A core that is running has not
   declared itself blocked (so whoever enqueues is awake), and a core declares
   itself blocked only when it sees the queue empty.                       *)
AwakeInv ==
  /\ QueueBounded
  /\ \A c \in Cores : ~Stalled(c) => next[c] # "BLOCKING"
  /\ WorkKeepsSomeCoreAwake

LEMMA InitAwakeInv == Init => AwakeInv
BY SizeAssumption
DEF Init, AwakeInv, QueueBounded, WorkKeepsSomeCoreAwake, Stalled

LEMMA NextAwakeInv == TypeInv /\ AwakeInv /\ [Next]_vars => AwakeInv'
<1> SUFFICES ASSUME TypeInv, AwakeInv, [Next]_vars PROVE AwakeInv'
  OBVIOUS
<1>t. TypeOK
  BY DEF TypeInv
<1> USE DEF AwakeInv, QueueBounded, WorkKeepsSomeCoreAwake, Stalled
<1>1. CASE UNCHANGED vars
  BY <1>1 DEF vars
<1>2. CASE Clock
  BY <1>2, <1>t DEF Clock, Default, TypeOK
<1>3. CASE Announce
  BY <1>3, <1>t, CoresAssumption DEF Announce, TypeOK
<1>4. ASSUME NEW c \in Cores, TQ_Init(c)
      PROVE  AwakeInv'
  BY <1>4, <1>t, SizeAssumption DEF TQ_Init, TypeOK
<1>5. ASSUME NEW c \in Cores, TQ_End(c)
      PROVE  AwakeInv'
  BY <1>5, <1>t, CoresAssumption DEF TQ_End, TypeOK
<1>6. ASSUME NEW c \in Cores,
             TQ_Enqueue(c) \/ \E l \in LoopShapes : TQ_EnqueueLoop(c, l[1], l[2])
      PROVE  AwakeInv'
  <2>1. /\ ~Stalled(c)
        /\ \E r \in {"SUCCESS", "OVERFLOW"} : Return(c, r)
        /\ UNCHANGED <<latches, pend, maxSize, done, dropped>>
    BY <1>6, <1>t, EnqueueCases
  <2>2. QueueBounded'
    <3>1. CASE UNCHANGED <<queue, issued>>
      BY <2>1, <3>1
    <3>2. ASSUME NEW k \in Nat, Accepts(k)
          PROVE  QueueBounded'
      BY <1>t, <2>1, <3>2, AcceptFacts DEF Accepts
    <3>3. UNCHANGED <<queue, issued>> \/ \E k \in Nat : Accepts(k)
      BY <1>6, <1>t, EnqueueCases
    <3> QED
      BY <3>1, <3>2, <3>3
  <2> QED
    BY <2>1, <2>2, <1>t DEF Return, latches, TypeOK
<1>7. ASSUME NEW c \in Cores, TQ_Dequeue(c)
      PROVE  AwakeInv'
  <2>1. UNCHANGED <<curr, maxSize, issued, dropped>>
    BY <1>7 DEF TQ_Dequeue
  <2> USE <1>t, <2>1 DEF TypeOK, Return, Update
  <2>2. CASE Deliver(c)
    BY <2>2 DEF Deliver
  <2>3. CASE AwaitLatency(c)
    BY <2>3 DEF AwaitLatency
  <2>4. CASE BlockOnEmpty(c)
    BY <2>4 DEF BlockOnEmpty
  <2>5. CASE SelectNextTask(c)
    <3>1. Len(queue') = Len(queue) - 1 /\ Len(queue) \in Nat /\ maxSize \in Nat
      BY <2>5, PoppedFacts, SizeAssumption DEF SelectNextTask
    <3> QED
      BY <2>5, <3>1 DEF SelectNextTask
  <2>6. CASE WakeNext(c)
    BY <2>6 DEF WakeNext
  <2>7. CASE PassBarrier(c)
    BY <2>7 DEF PassBarrier
  <2>8. CASE UnknownState(c)
    BY <2>8 DEF UnknownState
  <2> QED
    BY <1>7, <2>2, <2>3, <2>4, <2>5, <2>6, <2>7, <2>8 DEF TQ_Dequeue
<1> QED
  BY <1>1, <1>2, <1>3, <1>4, <1>5, <1>6, <1>7 DEF Next, PerCycle

(* As long as a task is queued some core's latch is not BLOCKING, whatever the
   order of the calls within a cycle (task_queue.cpp:293, :398).           *)
THEOREM WorkWakes == Spec => []WorkKeepsSomeCoreAwake
<1>1. AwakeInv => WorkKeepsSomeCoreAwake
  BY DEF AwakeInv
<1> QED
  BY <1>1, InitTypeInv, NextTypeInv, InitAwakeInv, NextAwakeInv, PTL DEF Spec

(* The queue never holds more than QueueMaxSize tasks (task_queue.cpp:229). *)
THEOREM BoundHolds == Spec => []QueueBounded
<1>1. AwakeInv => QueueBounded
  BY DEF AwakeInv
<1> QED
  BY <1>1, InitTypeInv, NextTypeInv, InitAwakeInv, NextAwakeInv, PTL DEF Spec
-----------------------------------------------------------------------------
(* A core holds a claim on a task from SelectNextTask until the call that
   delivers it: TQ_Dequeue looks at CurrState, so a claim survives in curr until
   the core has made its call of the cycle, even if TQ_End replaced NextState. *)
Claim(c) == next[c] = "PENDING_DEQUEUE" \/ (c \notin acted /\ curr[c] = "PENDING_DEQUEUE")

OnceInv ==
  /\ Distinct(queue)
  /\ \A c, d \in Cores : c # d /\ Claim(c) /\ Claim(d) => pend[c] # pend[d]
  /\ \A c \in Cores : Claim(c) =>
       pend[c] \in 1 .. issued /\ pend[c] \notin Elements(queue) \union done \union dropped
  /\ Elements(queue) \intersect (done \union dropped) = {}
  /\ done \intersect dropped = {}
  /\ Elements(queue) \union done \union dropped \subseteq 1 .. issued

LEMMA OnceImpliesNoTaskTwice == TypeOK /\ OnceInv => NoTaskTwice
<1> SUFFICES ASSUME TypeOK, OnceInv PROVE NoTaskTwice
  OBVIOUS
<1>1. \A c \in Cores : next[c] = "PENDING_DEQUEUE" => Claim(c)
  BY DEF Claim
<1>2. \A t \in Promised : \E c \in Cores : Claim(c) /\ t = pend[c]
  BY <1>1 DEF Promised
<1>3. /\ Elements(queue) \intersect Promised = {}
      /\ (done \union dropped) \intersect (Elements(queue) \union Promised) = {}
  BY <1>2 DEF OnceInv
<1> QED
  BY <1>1, <1>3 DEF OnceInv, NoTaskTwice, Distinct

LEMMA InitOnceInv == Init => OnceInv
BY EmptyFacts DEF Init, OnceInv, Claim

(* A step that changes no task and makes no claim keeps the invariant.     *)
LEMMA OnceKept ==
  ASSUME OnceInv,
         UNCHANGED <<pend, queue, issued, done, dropped>>,
         \A c \in Cores : Claim(c)' => Claim(c)
  PROVE  OnceInv'
BY DEF OnceInv, Elements, Distinct

LEMMA NextOnceInv == TypeInv /\ OnceInv /\ [Next]_vars => OnceInv'
<1> SUFFICES ASSUME TypeInv, OnceInv, [Next]_vars PROVE OnceInv'
  OBVIOUS
<1>t. TypeOK
  BY DEF TypeInv
<1>1. CASE UNCHANGED vars
  BY <1>1, OnceKept DEF vars, Claim
<1>2. CASE Clock
  <2>1. \A c \in Cores : Claim(c)' => Claim(c)
    BY <1>2, <1>t DEF Clock, Default, Claim, TypeOK
  <2> QED
    BY <1>2, <2>1, OnceKept DEF Clock, history
<1>3. CASE Announce
  <2>1. \A c \in Cores : ~Claim(c)'
    BY <1>3 DEF Announce, Claim
  <2> QED
    BY <1>3, <2>1, OnceKept DEF Announce, history
<1>4. ASSUME NEW c \in Cores, TQ_Init(c)
      PROVE  OnceInv'
  <2>1. /\ \A d \in Cores : ~Claim(d)'
        /\ queue' = <<>>
        /\ dropped' = dropped \union Elements(queue) \union Promised
        /\ UNCHANGED <<done, issued>>
    BY <1>4 DEF TQ_Init, Claim
  <2>2. Promised \subseteq 1 .. issued /\ Promised \intersect done = {}
    BY DEF OnceInv, Promised, Claim
  <2>3. Elements(queue') = {} /\ Distinct(queue')
    BY <2>1, EmptyFacts
  <2> QED
    BY <2>1, <2>2, <2>3 DEF OnceInv
<1>5. ASSUME NEW c \in Cores, TQ_End(c)
      PROVE  OnceInv'
  <2>1. \A d \in Cores : Claim(d)' => Claim(d)
    BY <1>5 DEF TQ_End, Return, Claim
  <2> QED
    BY <1>5, <2>1, OnceKept DEF TQ_End, history
<1>6. ASSUME NEW c \in Cores,
             TQ_Enqueue(c) \/ \E l \in LoopShapes : TQ_EnqueueLoop(c, l[1], l[2])
      PROVE  OnceInv'
  <2>1. /\ \E r \in {"SUCCESS", "OVERFLOW"} : Return(c, r)
        /\ UNCHANGED <<latches, pend, maxSize, done, dropped>>
    BY <1>6, <1>t, EnqueueCases
  <2>2. \A d \in Cores : Claim(d)' => Claim(d)
    BY <2>1 DEF Return, latches, Claim
  <2>3. CASE UNCHANGED <<queue, issued>>
    BY <2>1, <2>2, <2>3, OnceKept
  <2>4. ASSUME NEW k \in Nat, Accepts(k)
        PROVE  OnceInv'
    <3>1. /\ Elements(queue') = Elements(queue) \union (issued + 1 .. issued + k)
          /\ Distinct(queue')
          /\ issued' = issued + k
      BY <1>t, <2>4, AcceptFacts DEF Accepts, OnceInv
    <3>2. /\ issued \in Nat
          /\ 1 .. issued \subseteq 1 .. issued'
          /\ (issued + 1 .. issued + k) \intersect (1 .. issued) = {}
          /\ (issued + 1 .. issued + k) \subseteq 1 .. issued'
      BY <1>t, <3>1, BoundAssumption DEF TypeOK
    <3>3. /\ Elements(queue') \intersect (done' \union dropped') = {}
          /\ Elements(queue') \union done' \union dropped' \subseteq 1 .. issued'
      BY <2>1, <3>1, <3>2 DEF OnceInv
    <3>4. \A d \in Cores : Claim(d)' =>
             /\ pend'[d] \in 1 .. issued'
             /\ pend'[d] \notin Elements(queue') \union done' \union dropped'
      BY <2>1, <2>2, <3>1, <3>2 DEF OnceInv
    <3> QED
      BY <2>1, <2>2, <3>1, <3>3, <3>4 DEF OnceInv
  <2>5. UNCHANGED <<queue, issued>> \/ \E k \in Nat : Accepts(k)
    BY <1>6, <1>t, EnqueueCases
  <2> QED
    BY <2>3, <2>4, <2>5
<1>7. ASSUME NEW c \in Cores, TQ_Dequeue(c)
      PROVE  OnceInv'
  <2>1. c \notin acted /\ UNCHANGED <<curr, maxSize, issued, dropped>>
    BY <1>7 DEF TQ_Dequeue, MayAct
  <2>2. ASSUME Deliver(c)
        PROVE  OnceInv'
    <3>1. /\ Claim(c)
          /\ done' = done \union {pend[c]}
          /\ UNCHANGED <<pend, queue>>
      BY <2>1, <2>2 DEF Deliver, Claim
    <3>2. \A d \in Cores : Claim(d)' => Claim(d) /\ d # c
      BY <1>t, <2>1, <2>2 DEF Deliver, Claim, Update, Return, TypeOK
    <3>3. \A d \in Cores : Claim(d)' => pend[d] # pend[c]
      BY <3>1, <3>2 DEF OnceInv
    <3>4. /\ pend[c] \in 1 .. issued
          /\ pend[c] \notin Elements(queue) \union dropped
      BY <3>1 DEF OnceInv
    <3>5. Elements(queue') = Elements(queue) /\ (Distinct(queue) => Distinct(queue'))
      BY <3>1
    <3> QED
      BY <2>1, <3>1, <3>2, <3>3, <3>4, <3>5 DEF OnceInv
  <2>3. ASSUME SelectNextTask(c)
        PROVE  OnceInv'
    <3>1. /\ Head(queue) \in Elements(queue)
          /\ Elements(queue') = Elements(queue) \ {Head(queue)}
          /\ Distinct(queue')
      <4>1. /\ Elements(queue) = Elements(Tail(queue)) \union {Head(queue)}
            /\ Distinct(Tail(queue)) /\ Head(queue) \notin Elements(Tail(queue))
        BY <1>t, <2>3, PoppedFacts DEF SelectNextTask, OnceInv, TypeOK
      <4> QED
        BY <2>3, <4>1 DEF SelectNextTask
    <3>2. /\ \A d \in Cores : d # c => pend'[d] = pend[d] /\ (Claim(d)' => Claim(d))
          /\ pend'[c] = Head(queue)
          /\ done' = done
      BY <1>t, <2>1, <2>3 DEF SelectNextTask, Claim, Update, Return, TypeOK
    <3>3. \A d \in Cores : d # c /\ Claim(d)' => pend'[d] # Head(queue)
      BY <3>1, <3>2 DEF OnceInv
    <3>4. \A d \in Cores : Claim(d)' =>
             /\ pend'[d] \in 1 .. issued'
             /\ pend'[d] \notin Elements(queue') \union done' \union dropped'
      BY <2>1, <3>1, <3>2 DEF OnceInv
    <3>5. \A d, e \in Cores : d # e /\ Claim(d)' /\ Claim(e)' => pend'[d] # pend'[e]
      BY <3>2, <3>3 DEF OnceInv
    <3>6. /\ Elements(queue') \intersect (done' \union dropped') = {}
          /\ done' \intersect dropped' = {}
          /\ Elements(queue') \union done' \union dropped' \subseteq 1 .. issued'
      BY <2>1, <3>1, <3>2 DEF OnceInv
    <3> QED
      BY <3>1, <3>4, <3>5, <3>6 DEF OnceInv
  <2>4. CASE \/ AwaitLatency(c) \/ BlockOnEmpty(c) \/ WakeNext(c)
             \/ PassBarrier(c) \/ UnknownState(c)
    <3>1. \A d \in Cores : Claim(d)' => Claim(d)
      BY <1>t, <2>1, <2>4
      DEF AwaitLatency, BlockOnEmpty, WakeNext, PassBarrier, UnknownState,
          Claim, Update, Return, TypeOK
    <3>2. UNCHANGED <<pend, queue, issued, done, dropped>>
      BY <2>1, <2>4
      DEF AwaitLatency, BlockOnEmpty, WakeNext, PassBarrier, UnknownState
    <3> QED
      BY <3>1, <3>2, OnceKept
  <2> QED
    BY <1>7, <2>2, <2>3, <2>4 DEF TQ_Dequeue
<1> QED
  BY <1>1, <1>2, <1>3, <1>4, <1>5, <1>6, <1>7 DEF Next, PerCycle

(* No task is ever in two places, so none is handed out twice, even when TQ_End
   and TQ_Init interfere with calls in progress (task_queue.cpp:278-325).  *)
THEOREM TaskOnce == Spec => []NoTaskTwice
<1>1. TypeInv /\ OnceInv => NoTaskTwice
  BY OnceImpliesNoTaskTwice DEF TypeInv
<1> QED
  BY <1>1, InitTypeInv, NextTypeInv, InitOnceInv, NextOnceInv, PTL DEF Spec
-----------------------------------------------------------------------------
(* Without TQ_End, a core that has not made its call yet finds in NextState what
   Clock left there, so a call only ever replaces the state it looked at.  *)
KeepInv ==
  ~Ends =>
    /\ \A c \in Cores : c \notin acted => next[c] = Default(curr[c])
    /\ 1 .. issued \subseteq Elements(queue) \union Promised \union done \union dropped

LEMMA InitKeepInv == Init => KeepInv
BY DEF Init, KeepInv, Default, Held, Timed

(* A step that keeps every promise and changes no task keeps the invariant. *)
LEMMA KeptTasks ==
  ASSUME Promised \subseteq Promised',
         UNCHANGED <<queue, issued, done, dropped>>,
         1 .. issued \subseteq Elements(queue) \union Promised \union done \union dropped
  PROVE  1 .. issued' \subseteq Elements(queue') \union Promised' \union done' \union dropped'
OBVIOUS

LEMMA NextKeepInv == TypeInv /\ AwakeInv /\ KeepInv /\ [Next]_vars => KeepInv'
<1> SUFFICES ASSUME TypeInv, AwakeInv, KeepInv, [Next]_vars, ~Ends PROVE KeepInv'
  BY DEF KeepInv
<1>t. TypeOK
  BY DEF TypeInv
<1>k. /\ \A c \in Cores : c \notin acted => next[c] = Default(curr[c])
      /\ 1 .. issued \subseteq Elements(queue) \union Promised \union done \union dropped
  BY DEF KeepInv
<1>1. CASE UNCHANGED vars
  BY <1>1, <1>k DEF vars, KeepInv, Promised, Elements
<1>2. CASE Clock
  <2>1. /\ \A c \in Cores : next'[c] = Default(curr'[c])
        /\ Promised \subseteq Promised'
    BY <1>2, <1>t DEF Clock, Default, Held, Timed, Promised, TypeOK
  <2> QED
    BY <1>2, <1>k, <2>1, KeptTasks DEF Clock, history, KeepInv
<1>3. CASE Announce
  <2>1. /\ \A c \in Cores : next'[c] = Default(curr'[c])
        /\ Promised = {}
    BY <1>3 DEF Announce, Default, Held, Timed, Promised
  <2> QED
    BY <1>3, <1>k, <2>1, KeptTasks DEF Announce, history, KeepInv
<1>4. ASSUME NEW c \in Cores, TQ_Init(c)
      PROVE  KeepInv'
  <2>1. /\ \A d \in Cores : next'[d] = Default(curr'[d])
        /\ dropped' = dropped \union Elements(queue) \union Promised
        /\ UNCHANGED <<issued, done>>
    BY <1>4 DEF TQ_Init, Default, Held, Timed
  <2> QED
    BY <1>k, <2>1 DEF KeepInv
<1>5. ASSUME NEW c \in Cores, TQ_End(c)
      PROVE  KeepInv'
  BY <1>5 DEF TQ_End
<1>6. ASSUME NEW c \in Cores,
             TQ_Enqueue(c) \/ \E l \in LoopShapes : TQ_EnqueueLoop(c, l[1], l[2])
      PROVE  KeepInv'
  <2>1. /\ \E r \in {"SUCCESS", "OVERFLOW"} : Return(c, r)
        /\ UNCHANGED <<latches, pend, maxSize, done, dropped>>
    BY <1>6, <1>t, EnqueueCases
  <2>2. /\ Promised' = Promised
        /\ \A d \in Cores : d \notin acted' => next'[d] = Default(curr'[d])
    BY <1>k, <2>1 DEF Return, latches, Promised
  <2>3. CASE UNCHANGED <<queue, issued>>
    BY <1>k, <2>1, <2>2, <2>3, KeptTasks DEF KeepInv
  <2>4. ASSUME NEW k \in Nat, Accepts(k)
        PROVE  KeepInv'
    <3>1. /\ Elements(queue') = Elements(queue) \union (issued + 1 .. issued + k)
          /\ issued' = issued + k
      BY <1>t, <2>4, AcceptFacts DEF Accepts
    <3>2. 1 .. issued' \subseteq (1 .. issued) \union (issued + 1 .. issued + k)
      BY <1>t, <3>1, BoundAssumption DEF TypeOK
    <3> QED
      BY <1>k, <2>1, <2>2, <3>1, <3>2 DEF KeepInv
  <2>5. UNCHANGED <<queue, issued>> \/ \E k \in Nat : Accepts(k)
    BY <1>6, <1>t, EnqueueCases
  <2> QED
    BY <2>3, <2>4, <2>5
<1>7. ASSUME NEW c \in Cores, TQ_Dequeue(c)
      PROVE  KeepInv'
  <2>1. c \notin acted /\ UNCHANGED <<curr, maxSize, issued, dropped>>
    BY <1>7 DEF TQ_Dequeue, MayAct
  <2>2. next[c] = Default(curr[c])
    BY <1>k, <2>1
  <2>3. /\ acted' = acted \union {c}
        /\ \A d \in Cores \ {c} : next'[d] = next[d]
    BY <1>7, <1>t
    DEF TQ_Dequeue, Deliver, AwaitLatency, BlockOnEmpty, SelectNextTask,
        WakeNext, PassBarrier, UnknownState, Update, Return, TypeOK
  <2>4. \A d \in Cores : d \notin acted' => next'[d] = Default(curr'[d])
    BY <1>k, <2>1, <2>3
  <2>5. CASE Deliver(c)
    <3>1. /\ Promised \subseteq Promised' \union {pend[c]}
          /\ done' = done \union {pend[c]}
          /\ queue' = queue
      BY <2>3, <2>5 DEF Deliver, Promised
    <3> QED
      BY <1>k, <2>1, <2>4, <3>1 DEF KeepInv
  <2>6. CASE SelectNextTask(c)
    <3>1. Elements(queue) \subseteq Elements(queue') \union {Head(queue)}
      BY <1>t, <2>6, PoppedFacts DEF SelectNextTask, TypeOK
    <3>2. pend'[c] = Head(queue) /\ next'[c] = "PENDING_DEQUEUE"
      BY <1>t, <2>6 DEF SelectNextTask, Update, TypeOK
    <3>3. Head(queue) \in Promised'
      BY <3>2 DEF Promised
    <3>4. next[c] # "PENDING_DEQUEUE"
      BY <2>2, <2>6 DEF SelectNextTask, Default, Held, Timed
    <3>5. Promised \subseteq Promised'
      BY <1>t, <2>3, <2>6, <3>4 DEF SelectNextTask, Promised, TypeOK
    <3> QED
      BY <1>k, <2>1, <2>4, <2>6, <3>1, <3>3, <3>5 DEF KeepInv, SelectNextTask
  <2>7. CASE \/ AwaitLatency(c) \/ BlockOnEmpty(c) \/ WakeNext(c)
             \/ PassBarrier(c) \/ UnknownState(c)
    <3>1. /\ UNCHANGED <<pend, queue, done>>
          /\ next'[c] = next[c] \/ next[c] # "PENDING_DEQUEUE"
      BY <1>t, <2>2, <2>7
      DEF AwaitLatency, BlockOnEmpty, WakeNext, PassBarrier, UnknownState,
          Update, TypeOK, Default, Held, Timed
    <3>2. Promised \subseteq Promised'
      BY <2>3, <3>1 DEF Promised
    <3> QED
      BY <1>k, <2>1, <2>4, <3>1, <3>2, KeptTasks DEF KeepInv
  <2> QED
    BY <1>7, <2>5, <2>6, <2>7 DEF TQ_Dequeue
<1> QED
  BY <1>1, <1>2, <1>3, <1>4, <1>5, <1>6, <1>7 DEF Next, PerCycle

LEMMA KeepImpliesNoTaskLost == TypeOK /\ OnceInv /\ KeepInv => NoTaskLost
<1> SUFFICES ASSUME TypeOK, OnceInv, KeepInv, ~Ends
             PROVE  1 .. issued = Elements(queue) \union Promised \union done \union dropped
  BY DEF NoTaskLost
<1>1. Promised \subseteq 1 .. issued
  BY DEF OnceInv, Promised, Claim
<1> QED
  BY <1>1 DEF OnceInv, KeepInv

(* The inductive invariant of the task queue.                              *)
IInv == TypeInv /\ AwakeInv /\ OnceInv /\ KeepInv

LEMMA InvHolds == Spec => []IInv
<1>1. Init => IInv
  BY InitTypeInv, InitAwakeInv, InitOnceInv, InitKeepInv DEF IInv
<1>2. IInv /\ [Next]_vars => IInv'
  BY NextTypeInv, NextAwakeInv, NextOnceInv, NextKeepInv DEF IInv
<1> QED
  BY <1>1, <1>2, PTL DEF Spec

(* Without TQ_End every accepted task is queued, promised to a core, delivered
   or discarded by TQ_Init (task_queue.cpp:278-325).                       *)
THEOREM TaskKept == Spec => []NoTaskLost
<1>1. IInv => NoTaskLost
  BY KeepImpliesNoTaskLost DEF IInv, TypeInv
<1> QED
  BY <1>1, InvHolds, PTL

(* PerCycle announces a barrier only when all cores are stalled and no accepted
   task is left (task_queue.cpp:399).                                      *)
THEOREM BarrierDry == Spec => BarrierMeansDry
<1>1. ASSUME IInv, Announce
      PROVE  /\ \A c \in Cores : Stalled(c)
             /\ ~Ends => 1 .. issued = done \union dropped
  <2>1. \A c \in Cores : next[c] = "BLOCKING"
    BY <1>1 DEF Announce
  <2>2. \A c \in Cores : Stalled(c)
    BY <1>1, <2>1 DEF IInv, AwakeInv
  <2>3. queue = <<>> /\ Promised = {}
    BY <1>1, <2>1 DEF IInv, AwakeInv, WorkKeepsSomeCoreAwake, Promised
  <2>4. Elements(queue) = {}
    BY <2>3, EmptyFacts
  <2>5. NoTaskLost
    BY <1>1, KeepImpliesNoTaskLost DEF IInv, TypeInv
  <2> QED
    BY <2>2, <2>3, <2>4, <2>5 DEF NoTaskLost
<1>2. IInv /\ [Next]_vars =>
        [Announce => /\ \A c \in Cores : Stalled(c)
                     /\ ~Ends => 1 .. issued = done \union dropped]_vars
  BY <1>1
<1> QED
  BY <1>2, InvHolds, PTL DEF Spec, BarrierMeansDry
-----------------------------------------------------------------------------
(***************************************************************************)
(* TaskQueue implements TaskPool when software calls TQ_Init only before   *)
(* the queue is used and never calls TQ_End.                               *)
(***************************************************************************)

Plain == ~Ends /\ ~Reinit

(* What the refinement needs beyond IInv: the latch tells which cores are
   stalled, and TQ_Init finds nothing to discard.                          *)
FitInv ==
  /\ \A c \in Cores : Stalled(c) <=> next[c] # "ACTIVE"
  /\ (\A c \in Cores : retval[c] = "none") => issued = 0
  /\ dropped = {}

LEMMA InitFitInv == Plain /\ Init => FitInv
BY DEF Init, FitInv, Stalled

LEMMA Unused ==
  ASSUME IInv, FitInv, \A c \in Cores : retval[c] = "none"
  PROVE  queue = <<>> /\ Promised = {} /\ \A c \in Cores : next[c] = "ACTIVE"
<1>1. \A c \in Cores : next[c] = "ACTIVE"
  BY DEF FitInv, Stalled
<1>2. Elements(queue) = {}
  BY DEF IInv, OnceInv, FitInv
<1> QED
  BY <1>1, <1>2, EmptyFacts DEF IInv, TypeInv, TypeOK, Promised

LEMMA NextFitInv == Plain /\ IInv /\ FitInv /\ [Next]_vars => FitInv'
<1> SUFFICES ASSUME Plain, IInv, FitInv, [Next]_vars PROVE FitInv'
  OBVIOUS
<1>t. TypeOK
  BY DEF IInv, TypeInv
<1> USE DEF Stalled
<1>1. CASE UNCHANGED vars
  BY <1>1 DEF vars, FitInv
<1>2. CASE Clock
  BY <1>2, <1>t DEF Clock, history, Default, Held, Timed, FitInv, TypeOK, CoreStates
<1>3. CASE Announce
  BY <1>3, <1>t DEF Announce, history, FitInv, TypeOK
<1>4. ASSUME NEW c \in Cores, TQ_Init(c)
      PROVE  FitInv'
  <2>1. \A d \in Cores : retval[d] = "none"
    BY <1>4 DEF TQ_Init, Plain
  <2>2. Elements(queue) = {} /\ Promised = {}
    BY <2>1, Unused, EmptyFacts
  <2> QED
    BY <1>4, <1>t, <2>1, <2>2 DEF TQ_Init, Return, FitInv, TypeOK
<1>5. ASSUME NEW c \in Cores, TQ_End(c)
      PROVE  FitInv'
  BY <1>5 DEF TQ_End, Plain
<1>6. ASSUME NEW c \in Cores,
             TQ_Enqueue(c) \/ \E l \in LoopShapes : TQ_EnqueueLoop(c, l[1], l[2])
      PROVE  FitInv'
  <2>1. /\ ~Stalled(c)
        /\ \E r \in {"SUCCESS", "OVERFLOW"} : Return(c, r)
        /\ UNCHANGED <<latches, pend, maxSize, done, dropped>>
    BY <1>6, <1>t, EnqueueCases
  <2> QED
    BY <2>1, <1>t DEF Return, latches, FitInv, TypeOK
<1>7. ASSUME NEW c \in Cores, TQ_Dequeue(c)
      PROVE  FitInv'
  <2>1. c \notin acted /\ UNCHANGED <<curr, maxSize, issued, dropped>>
    BY <1>7 DEF TQ_Dequeue, MayAct
  <2>2. next[c] = Default(curr[c])
    BY <2>1 DEF IInv, KeepInv, Plain
  <2>3. \E r \in {"SUCCESS", "BLOCK", "SYNC"} :
          /\ retval' = [retval EXCEPT ![c] = r]
          /\ next'[c] # "ACTIVE" <=> r = "BLOCK"
          /\ \A d \in Cores \ {c} : next'[d] = next[d]
    BY <1>7, <1>t, <2>2
    DEF TQ_Dequeue, Deliver, AwaitLatency, BlockOnEmpty, SelectNextTask,
        WakeNext, PassBarrier, UnknownState, Update, Return, TypeOK,
        Default, Held, Timed
  <2> QED
    BY <1>t, <2>1, <2>3 DEF FitInv, TypeOK
<1> QED
  BY <1>1, <1>2, <1>3, <1>4, <1>5, <1>6, <1>7 DEF Next, PerCycle
-----------------------------------------------------------------------------
(* The values TaskQueue gives to the variables of TaskPool.                *)
poolBar == Elements(queue) \union Promised
waitingBar == {c \in Cores : Stalled(c)}
owedBar == {c \in Cores : next[c] \in {"PENDING_UNBLOCK", "UNBLOCK"}}
barVars == <<poolBar, done, waitingBar, owedBar>>

LEMMA InitMaps == Init => Pool!Init
BY EmptyFacts DEF Init, Pool!Init, Promised, Stalled

(* A step with the same mapped values is a stuttering step of TaskPool.    *)
LEMMA Stutter == UNCHANGED barVars => UNCHANGED Pool!vars
BY DEF Pool!vars, barVars, poolBar, waitingBar, owedBar

LEMMA StepMaps == Plain /\ IInv /\ FitInv /\ [Next]_vars => [Pool!Next]_Pool!vars
<1> SUFFICES ASSUME Plain, IInv, FitInv, [Next]_vars PROVE [Pool!Next]_Pool!vars
  OBVIOUS
<1>t. TypeOK
  BY DEF IInv, TypeInv
<1> USE DEF Stalled
<1>1. CASE UNCHANGED vars
  BY <1>1, Stutter
  DEF vars, barVars, poolBar, waitingBar, owedBar, Elements, Promised
<1>2. CASE Clock
  <2>1. Promised' = Promised /\ owedBar' = owedBar
    BY <1>2, <1>t DEF Clock, Default, Held, Timed, Promised, owedBar, TypeOK
  <2>2. poolBar' = poolBar /\ waitingBar' = waitingBar /\ done' = done
    BY <1>2, <2>1 DEF Clock, history, poolBar, waitingBar, Elements
  <2> QED
    BY <2>1, <2>2, Stutter DEF barVars
<1>3. CASE Announce
  <2>1. \A c \in Cores : next[c] = "BLOCKING" /\ next'[c] = "PENDING_UNBLOCK"
    BY <1>3 DEF Announce
  <2>2. queue = <<>> /\ Promised = {} /\ Promised' = {} /\ queue' = queue
    BY <1>3, <2>1 DEF Announce, IInv, AwakeInv, WorkKeepsSomeCoreAwake, Promised
  <2>3. poolBar = {} /\ poolBar' = {}
    BY <2>2, EmptyFacts DEF poolBar
  <2>4. /\ waitingBar = Cores /\ waitingBar' = waitingBar
        /\ owedBar = {} /\ owedBar' = Cores
        /\ done' = done
    BY <1>3, <2>1 DEF Announce, history, FitInv, waitingBar, owedBar
  <2>5. Pool!Open
    BY <2>3, <2>4 DEF Pool!Open, poolBar, waitingBar, owedBar
  <2> QED
    BY <2>5 DEF Pool!Next
<1>4. ASSUME NEW c \in Cores, TQ_Init(c)
      PROVE  UNCHANGED barVars
  <2>1. \A d \in Cores : retval[d] = "none"
    BY <1>4 DEF TQ_Init, Plain
  <2>2. queue = <<>> /\ Promised = {} /\ \A d \in Cores : next[d] = "ACTIVE"
    BY <2>1, Unused
  <2>3. queue' = <<>> /\ Promised' = {} /\ done' = done
        /\ \A d \in Cores : next'[d] = "ACTIVE"
    BY <1>4 DEF TQ_Init, Promised
  <2>4. waitingBar = {} /\ waitingBar' = {}
    BY <1>4, <1>t, <2>1 DEF TQ_Init, Return, waitingBar, TypeOK
  <2> QED
    BY <2>2, <2>3, <2>4 DEF barVars, poolBar, owedBar, Elements
<1>5. ASSUME NEW c \in Cores, TQ_End(c)
      PROVE  FALSE
  BY <1>5 DEF TQ_End, Plain
<1>6. ASSUME NEW c \in Cores,
             TQ_Enqueue(c) \/ \E l \in LoopShapes : TQ_EnqueueLoop(c, l[1], l[2])
      PROVE  [Pool!Next]_Pool!vars
  <2>1. /\ ~Stalled(c)
        /\ \E r \in {"SUCCESS", "OVERFLOW"} : Return(c, r)
        /\ UNCHANGED <<latches, pend, maxSize, done, dropped>>
    BY <1>6, <1>t, EnqueueCases
  <2>2. /\ waitingBar' = waitingBar /\ owedBar' = owedBar /\ Promised' = Promised
        /\ c \notin waitingBar /\ done' = done
    BY <1>t, <2>1 DEF Return, latches, waitingBar, owedBar, Promised, TypeOK
  <2>3. CASE UNCHANGED <<queue, issued>>
    BY <2>2, <2>3, Stutter DEF barVars, poolBar, Elements
  <2>4. ASSUME NEW k \in Nat, Accepts(k)
        PROVE  Pool!Next
    <3> DEFINE new == issued + 1 .. issued + k
    <3>1. Elements(queue') = Elements(queue) \union new
      BY <1>t, <2>4, AcceptFacts
    <3>2. new \subseteq Tasks /\ new \intersect (1 .. issued) = {}
      BY <1>t, <2>4, BoundAssumption DEF Accepts, TypeOK, Tasks
    <3>3. poolBar \union done \subseteq 1 .. issued
      BY DEF poolBar, Promised, IInv, OnceInv, Claim
    <3> HIDE DEF new
    <3>4. poolBar' = poolBar \union new
      BY <2>2, <3>1 DEF poolBar
    <3>5. Pool!Submit(c, new)
      BY <2>2, <3>2, <3>3, <3>4 DEF Pool!Submit, poolBar, waitingBar, owedBar
    <3> QED
      BY <3>2, <3>5 DEF Pool!Next
  <2>5. UNCHANGED <<queue, issued>> \/ \E k \in Nat : Accepts(k)
    BY <1>6, <1>t, EnqueueCases
  <2> QED
    BY <2>3, <2>4, <2>5
<1>7. ASSUME NEW c \in Cores, TQ_Dequeue(c)
      PROVE  [Pool!Next]_Pool!vars
  <2>1. c \notin acted /\ UNCHANGED <<curr, maxSize, issued, dropped>>
    BY <1>7 DEF TQ_Dequeue, MayAct
  <2>2. next[c] = Default(curr[c])
    BY <2>1 DEF IInv, KeepInv, Plain
  <2>3. Stalled(c) <=> next[c] # "ACTIVE"
    BY DEF FitInv
  <2> USE DEF Default, Held, Timed
  <2>4. ASSUME Deliver(c)
        PROVE  Pool!Take(c, pend[c])
    <3>1. next[c] = "PENDING_DEQUEUE" /\ c \in waitingBar /\ c \notin owedBar
      BY <2>2, <2>3, <2>4 DEF Deliver, waitingBar, owedBar
    <3>2. /\ pend[c] \in Promised /\ pend[c] \notin Elements(queue)
          /\ \A d \in Cores \ {c} : next[d] = "PENDING_DEQUEUE" => pend[d] # pend[c]
      BY <3>1 DEF IInv, OnceInv, Claim, Promised
    <3>3. /\ queue' = queue /\ done' = done \union {pend[c]}
          /\ owedBar' = owedBar /\ waitingBar' = waitingBar \ {c}
      BY <1>t, <2>4, <3>1 DEF Deliver, Update, Return, owedBar, waitingBar, TypeOK
    <3>4. Promised' = Promised \ {pend[c]}
      BY <1>t, <2>4, <3>1, <3>2 DEF Deliver, Update, Promised, TypeOK
    <3>5. poolBar' = poolBar \ {pend[c]} /\ pend[c] \in poolBar
      BY <3>2, <3>3, <3>4 DEF poolBar, Elements
    <3> QED
      BY <3>1, <3>3, <3>5 DEF Pool!Take, poolBar, owedBar, waitingBar
  <2>5. ASSUME \/ AwaitLatency(c) \/ WakeNext(c) \/ UnknownState(c)
        PROVE  UNCHANGED barVars
    <3>1. next[c] # "ACTIVE" /\ Stalled(c)
      BY <2>2, <2>3, <2>5 DEF AwaitLatency, WakeNext, UnknownState
    <3>2. /\ UNCHANGED <<pend, queue, done>>
          /\ retval' = [retval EXCEPT ![c] = "BLOCK"]
          /\ \A d \in Cores : next'[d] = next[d]
                \/ {next[d], next'[d]} = {"PENDING_UNBLOCK", "UNBLOCK"}
      BY <1>t, <2>2, <2>5
      DEF AwaitLatency, WakeNext, UnknownState, Update, Return, TypeOK
    <3>3. waitingBar' = waitingBar
      BY <1>t, <3>1, <3>2 DEF waitingBar, TypeOK
    <3>4. owedBar' = owedBar
      BY <3>2 DEF owedBar
    <3>5. Promised' = Promised
      BY <3>2 DEF Promised
    <3> QED
      BY <3>2, <3>3, <3>4, <3>5 DEF barVars, poolBar, Elements
  <2>6. ASSUME BlockOnEmpty(c) \/ SelectNextTask(c)
        PROVE  Pool!Ask(c) \/ UNCHANGED barVars
    <3>1. /\ next[c] \in {"ACTIVE", "BLOCKING"}
          /\ next' = [next EXCEPT ![c] = next'[c]]
          /\ next'[c] \in {"BLOCKING", "PENDING_DEQUEUE"}
          /\ retval' = [retval EXCEPT ![c] = "BLOCK"]
          /\ done' = done
      BY <1>t, <2>2, <2>6
      DEF BlockOnEmpty, SelectNextTask, Update, Return, TypeOK
    <3>2. owedBar' = owedBar /\ waitingBar' = waitingBar \union {c}
      BY <1>t, <3>1 DEF owedBar, waitingBar, TypeOK
    <3>3. poolBar' = poolBar
      <4>1. CASE BlockOnEmpty(c)
        <5>1. Promised' = Promised
          BY <1>t, <3>1, <4>1 DEF BlockOnEmpty, Update, Promised, TypeOK
        <5> QED
          BY <4>1, <5>1 DEF BlockOnEmpty, poolBar, Elements
      <4>2. CASE SelectNextTask(c)
        <5>1. Elements(queue) = Elements(queue') \union {Head(queue)}
          BY <1>t, <4>2, PoppedFacts DEF SelectNextTask, TypeOK
        <5>2. Promised' = Promised \union {Head(queue)}
          BY <1>t, <3>1, <4>2 DEF SelectNextTask, Update, Promised, TypeOK
        <5> QED
          BY <5>1, <5>2 DEF poolBar
      <4> QED
        BY <2>6, <4>1, <4>2
    <3>4. CASE next[c] = "ACTIVE"
      <4>1. c \notin waitingBar
        BY <2>3, <3>4 DEF waitingBar
      <4> QED
        BY <3>1, <3>2, <3>3, <4>1 DEF Pool!Ask, poolBar, owedBar, waitingBar
    <3>5. CASE next[c] = "BLOCKING"
      <4>1. c \in waitingBar
        BY <2>3, <3>5 DEF waitingBar
      <4> QED
        BY <3>1, <3>2, <3>3, <4>1 DEF barVars
    <3> QED
      BY <3>1, <3>4, <3>5
  <2>7. ASSUME PassBarrier(c)
        PROVE  Pool!Pass(c)
    <3>1. next[c] = "UNBLOCK" /\ c \in owedBar
      BY <2>2, <2>7 DEF PassBarrier, owedBar
    <3>2. /\ owedBar' = owedBar \ {c} /\ waitingBar' = waitingBar \ {c}
          /\ Promised' = Promised /\ UNCHANGED <<queue, done>>
      BY <1>t, <2>7, <3>1
      DEF PassBarrier, Update, Return, owedBar, waitingBar, Promised, TypeOK
    <3> QED
      BY <3>1, <3>2 DEF Pool!Pass, owedBar, waitingBar, Elements
  <2>8. CASE Deliver(c)
    <3>1. pend[c] \in Tasks
      BY <2>8 DEF Deliver, IInv, TypeInv
    <3>2. \E t \in Tasks : Pool!Take(c, t)
      BY <2>4, <2>8, <3>1 DEF Pool!Take
    <3> QED
      BY <3>2 DEF Pool!Next
  <2>9. CASE PassBarrier(c)
    <3>1. \E d \in Cores : Pool!Pass(d)
      BY <2>7, <2>9
    <3> QED
      BY <3>1 DEF Pool!Next
  <2>10. CASE Pool!Ask(c)
    <3>1. \E d \in Cores : Pool!Ask(d)
      BY <2>10
    <3> QED
      BY <3>1 DEF Pool!Next
  <2>11. CASE UNCHANGED barVars
    BY <2>11, Stutter
  <2> QED
    BY <1>7, <2>5, <2>6, <2>8, <2>9, <2>10, <2>11 DEF TQ_Dequeue
<1> QED
  BY <1>1, <1>2, <1>3, <1>4, <1>5, <1>6, <1>7, Stutter DEF Next, PerCycle

(* The queue hands out every task once and opens the next barrier only after
   every core has left the last one, for any number of cores and any
   latencies (task_queue.cpp, TaskSystemBaseline).                         *)
THEOREM Implements == ASSUME ~Ends, ~Reinit PROVE Spec => PoolSpec
<1>1. Plain
  BY DEF Plain
<1>2. Init => FitInv /\ Pool!Init
  BY <1>1, InitFitInv, InitMaps
<1>3. IInv /\ FitInv /\ [Next]_vars => FitInv' /\ [Pool!Next]_Pool!vars
  BY <1>1, NextFitInv, StepMaps
<1> QED
  BY <1>2, <1>3, InvHolds, PTL DEF Spec, PoolSpec, Pool!Spec

(* The latch and the pipeline agree on who is stalled.                     *)
THEOREM LatchAgrees == Spec => []StallMatchesLatch
<1>1. CASE Ends \/ Reinit
  <2>1. StallMatchesLatch
    BY <1>1 DEF StallMatchesLatch
  <2> QED
    BY <2>1, PTL
<1>2. CASE Plain
  <2>1. Init => FitInv
    BY <1>2, InitFitInv
  <2>2. IInv /\ FitInv /\ [Next]_vars => FitInv'
    BY <1>2, NextFitInv
  <2>3. FitInv => StallMatchesLatch
    BY DEF FitInv, StallMatchesLatch
  <2> QED
    BY <2>1, <2>2, <2>3, InvHolds, PTL DEF Spec
<1> QED
  BY <1>1, <1>2, SwitchAssumption DEF Plain
=============================================================================
