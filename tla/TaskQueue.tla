------------------------------ MODULE TaskQueue ------------------------------
(***************************************************************************)
(* The hardware task queue of rigel-sim: class TaskSystemBaseline and the  *)
(* per-core latch TQ_CoreStateDesc (include/util/task_queue.h,             *)
(* src/util/task_queue.cpp), driven by the memory stage of the cores       *)
(* (src/stages/memory_req.cpp).                                            *)
(*                                                                         *)
(* One cycle of the simulator is PerCycle, which clocks the latches,       *)
(* followed by at most one task-queue call of each core, in any order:     *)
(* every TQ instruction locks TQ_RET_REG in the scoreboard, so a core has  *)
(* one of them in flight.  A TQ_Dequeue that returns BLOCK stalls the      *)
(* pipeline and is called again in a later cycle.                          *)
(*                                                                         *)
(* A task is an identity: its four words are software's.  The states       *)
(* PENDING_END, INVALID and PENDING_ENQUEUE_* of TQ_CoreStateType are left *)
(* out, as no statement of the program stores them.                        *)
(***************************************************************************)
EXTENDS Integers, Sequences, FiniteSets

CONSTANTS
  Cores,               \* rigel::CORES_TOTAL cores
  DefaultSize,         \* size given by the constructor (1024 in the code)
  QueueSizes,          \* sizes software may pass to TQ_Init
  LatencyDequeue,      \* LATENCY_DEQUEUE (20 in the code)
  LatencyBlockedSync,  \* LATENCY_BLOCKED_SYNC (100 in the code)
  LoopShapes,          \* pairs <<N, S>> software may pass to TQ_EnqueueLoop
  MaxTasks,            \* bound: how many tasks software ever submits
  Reinit,              \* may software call TQ_Init once the queue is in use?
  Ends,                \* may software call TQ_End?
  Asserts              \* is the simulator built with assertions?

ASSUME CoresAssumption == IsFiniteSet(Cores) /\ Cores # {}
ASSUME SizeAssumption == DefaultSize \in Nat /\ QueueSizes \subseteq Nat
ASSUME LatencyAssumption ==
  LatencyDequeue \in Nat \ {0} /\ LatencyBlockedSync \in Nat \ {0}
ASSUME LoopAssumption == LoopShapes \subseteq Nat \X (Nat \ {0})
ASSUME BoundAssumption == MaxTasks \in Nat
ASSUME SwitchAssumption ==
  Reinit \in BOOLEAN /\ Ends \in BOOLEAN /\ Asserts \in BOOLEAN

VARIABLES
  curr,      \* TQ_CoreState[c].CurrState
  next,      \* TQ_CoreState[c].NextState
  cycles,    \* TQ_CoreState[c].CyclesReady, not counted below 0
  pend,      \* TQ_CoreState[c].PendingTaskDescriptor
  queue,     \* TaskQueue, front first
  maxSize,   \* QueueMaxSize
  retval,    \* the value the last call of a core returned
  acted,     \* the cores that made their call in this cycle
  abort,     \* "none", or the assertion that stopped the simulator
  issued,    \* history: the tasks accepted so far are 1 .. issued
  done,      \* history: the tasks delivered to a core
  dropped    \* history: the tasks a TQ_Init discarded

latches == <<curr, next, cycles>>
history == <<issued, done, dropped>>
vars == <<curr, next, cycles, pend, queue, maxSize, retval, acted, abort,
          issued, done, dropped>>

Tasks == 1 .. MaxTasks
NoTask == 0

CoreStates == {"ACTIVE", "BLOCKING", "PENDING_DEQUEUE", "PENDING_UNBLOCK",
               "UNBLOCK", "END_UNBLOCK"}
Returns == {"none", "SUCCESS", "BLOCK", "SYNC", "OVERFLOW"}

Elements(s) == {s[i] : i \in DOMAIN s}

(* The states a latch holds until somebody updates it, and those of them   *)
(* that count the cycles of a latency.                                     *)
Timed == {"PENDING_DEQUEUE", "PENDING_UNBLOCK"}
Held_NotPendingDequeue == {"PENDING_UNBLOCK", "BLOCKING", "UNBLOCK", "END_UNBLOCK"}
Held_NotBlocking == Timed \union {"UNBLOCK", "END_UNBLOCK"}
Held == Timed \union {"BLOCKING", "UNBLOCK", "END_UNBLOCK"}

Stalled(c) == retval[c] = "BLOCK"

Ready(c) == cycles[c] <= 1

(* The tasks taken off the queue that wait for LATENCY_DEQUEUE.            *)
Promised == {pend[c] : c \in {d \in Cores : next[d] = "PENDING_DEQUEUE"}}

(* A core that may make its call of this cycle.                            *)
MayAct(c) == abort = "none" /\ c \notin acted

Return(c, r) ==
  /\ retval' = [retval EXCEPT ![c] = r]
  /\ acted' = acted \union {c}
-----------------------------------------------------------------------------
Init ==
  /\ curr = [c \in Cores |-> "ACTIVE"]
  /\ next = [c \in Cores |-> "ACTIVE"]
  /\ cycles = [c \in Cores |-> 0]
  /\ pend = [c \in Cores |-> NoTask]
  /\ queue = <<>>
  /\ maxSize = DefaultSize
  /\ retval = [c \in Cores |-> "none"]
  /\ acted = {}
  /\ abort = "none"
  /\ issued = 0
  /\ done = {}
  /\ dropped = {}

(* Clock() of one latch: the value NextState takes, and the countdown.     *)
Default(s) == IF s \in Held THEN s ELSE "ACTIVE"

Countdown_DequeueOnly(s, n) == IF s = "PENDING_DEQUEUE" /\ n > 0 THEN n - 1 ELSE n
Countdown(s, n) == IF s \in Timed /\ n > 0 THEN n - 1 ELSE n

(* PerCycle when some core is not blocking: clock every latch.             *)
Clock ==
  /\ abort = "none"
  /\ \E c \in Cores : next[c] # "BLOCKING"
  /\ curr' = next
  /\ next' = [c \in Cores |-> Default(next[c])]
  /\ cycles' = [c \in Cores |-> Countdown(next[c], cycles[c])]
  /\ acted' = {}
  /\ UNCHANGED <<pend, queue, maxSize, retval, abort, history>>

(* PerCycle when all cores are blocking: the barrier is announced.         *)
Announce_CountsPending ==
  /\ abort = "none"
  /\ \A c \in Cores : next[c] \in {"BLOCKING", "PENDING_DEQUEUE"}
  /\ curr' = [c \in Cores |-> "PENDING_UNBLOCK"]
  /\ next' = [c \in Cores |-> "PENDING_UNBLOCK"]
  /\ cycles' = [c \in Cores |-> LatencyBlockedSync]
  /\ acted' = {}
  /\ UNCHANGED <<pend, queue, maxSize, retval, abort, history>>
Announce ==
  /\ abort = "none"
  /\ \A c \in Cores : next[c] = "BLOCKING"
  /\ curr' = [c \in Cores |-> "PENDING_UNBLOCK"]
  /\ next' = [c \in Cores |-> "PENDING_UNBLOCK"]
  /\ cycles' = [c \in Cores |-> LatencyBlockedSync]
  /\ acted' = {}
  /\ UNCHANGED <<pend, queue, maxSize, retval, abort, history>>

PerCycle == Clock \/ Announce
-----------------------------------------------------------------------------
(* TQ_Init: one core of the software calls it, before the queue is used or *)
(* (Reinit) at any later time.                                             *)
TQ_Init(c) ==
  /\ MayAct(c)
  /\ ~Stalled(c)
  /\ Reinit \/ \A d \in Cores : retval[d] = "none"
  /\ curr' = [d \in Cores |-> "ACTIVE"]
  /\ next' = [d \in Cores |-> "ACTIVE"]
  /\ cycles' = [d \in Cores |-> 0]
  /\ queue' = <<>>
  /\ dropped' = dropped \union Elements(queue) \union Promised
  /\ maxSize' \in QueueSizes
  /\ Return(c, "SUCCESS")
  /\ UNCHANGED <<pend, abort, issued, done>>

TQ_End(c) ==
  /\ Ends
  /\ MayAct(c)
  /\ ~Stalled(c)
  /\ next' = [d \in Cores |-> "END_UNBLOCK"]
  /\ Return(c, "SUCCESS")
  /\ UNCHANGED <<curr, cycles, pend, queue, maxSize, abort, history>>

(* The tasks first .. last pushed at the front of q, the last one on top.  *)
Pushed(q, first, last) ==
  [i \in 1 .. (last - first + 1) |-> last + 1 - i] \o q

(* TQ_Enqueue: a full queue trips an assertion, if there are assertions.   *)
TQ_Enqueue(c) ==
  /\ MayAct(c)
  /\ ~Stalled(c)
  /\ issued < MaxTasks
  /\ \/ /\ Len(queue) = maxSize
        /\ abort' = IF Asserts THEN "overflow" ELSE abort
        /\ Return(c, "OVERFLOW")
        /\ UNCHANGED <<queue, issued>>
     \/ /\ Len(queue) # maxSize
        /\ queue' = Pushed(queue, issued + 1, issued + 1)
        /\ issued' = issued + 1
        /\ Return(c, "SUCCESS")
        /\ UNCHANGED abort
  /\ UNCHANGED <<latches, pend, maxSize, done, dropped>>

(* TQ_EnqueueLoop: N iterations in tasks of S, all of them or none.        *)
NumTasks(n, s) == (n + s - 1) \div s

Overflows(k) == Len(queue) + k > maxSize

TQ_EnqueueLoop(c, n, s) ==
  /\ MayAct(c)
  /\ ~Stalled(c)
  /\ issued + NumTasks(n, s) <= MaxTasks
  /\ \/ /\ Overflows(NumTasks(n, s))
        /\ Return(c, "OVERFLOW")
        /\ UNCHANGED <<queue, issued>>
     \/ /\ ~Overflows(NumTasks(n, s))
        /\ queue' = Pushed(queue, issued + 1, issued + NumTasks(n, s))
        /\ issued' = issued + NumTasks(n, s)
        /\ Return(c, "SUCCESS")
  /\ UNCHANGED <<latches, pend, maxSize, abort, done, dropped>>
-----------------------------------------------------------------------------
(* TQ_Dequeue, one action per state of the calling core.  Update(s) stores *)
(* NextState and, for a timed state, its latency.                          *)
Update(c, s) == next' = [next EXCEPT ![c] = s]

(* PENDING_DEQUEUE, the latency has elapsed: hand the task over.           *)
Deliver_KeepsState(c) ==
  /\ curr[c] = "PENDING_DEQUEUE"
  /\ Ready(c)
  /\ done' = done \union {pend[c]}
  /\ Return(c, "SUCCESS")
  /\ UNCHANGED <<next, cycles, pend, queue, abort>>
Deliver(c) ==
  /\ curr[c] = "PENDING_DEQUEUE"
  /\ Ready(c)
  /\ done' = done \union {pend[c]}
  /\ Update(c, "ACTIVE")
  /\ Return(c, "SUCCESS")
  /\ UNCHANGED <<cycles, pend, queue, abort>>

(* PENDING_DEQUEUE or PENDING_UNBLOCK, the latency has not elapsed.        *)
AwaitLatency(c) ==
  /\ curr[c] \in Timed
  /\ ~Ready(c)
  /\ Return(c, "BLOCK")
  /\ UNCHANGED <<next, cycles, pend, queue, abort, done>>

(* ACTIVE or BLOCKING, no task: block.                                     *)
BlockOnEmpty_Unchecked(c) ==
  /\ curr[c] \in {"ACTIVE", "BLOCKING"}
  /\ Update(c, "BLOCKING")
  /\ Return(c, "BLOCK")
  /\ UNCHANGED <<cycles, pend, queue, abort, done>>
BlockOnEmpty(c) ==
  /\ curr[c] \in {"ACTIVE", "BLOCKING"}
  /\ queue = <<>>
  /\ Update(c, "BLOCKING")
  /\ Return(c, "BLOCK")
  /\ UNCHANGED <<cycles, pend, queue, abort, done>>

(* ACTIVE or BLOCKING: SelectNextTask takes the front of the queue.        *)
SelectNextTask(c) ==
  /\ curr[c] \in {"ACTIVE", "BLOCKING"}
  /\ queue # <<>>
  /\ pend' = [pend EXCEPT ![c] = Head(queue)]
  /\ queue' = Tail(queue)
  /\ Update(c, "PENDING_DEQUEUE")
  /\ cycles' = [cycles EXCEPT ![c] = LatencyDequeue]
  /\ Return(c, "BLOCK")
  /\ UNCHANGED <<abort, done>>

(* PENDING_UNBLOCK, the latency has elapsed: next cycle the core wakes up. *)
WakeNext(c) ==
  /\ curr[c] = "PENDING_UNBLOCK"
  /\ Ready(c)
  /\ Update(c, "UNBLOCK")
  /\ Return(c, "BLOCK")
  /\ UNCHANGED <<cycles, pend, queue, abort, done>>

(* UNBLOCK: the core leaves the barrier.                                   *)
PassBarrier_KeepsState(c) ==
  /\ curr[c] = "UNBLOCK"
  /\ Return(c, "SYNC")
  /\ UNCHANGED <<next, cycles, pend, queue, abort, done>>
PassBarrier(c) ==
  /\ curr[c] = "UNBLOCK"
  /\ Update(c, "ACTIVE")
  /\ Return(c, "SYNC")
  /\ UNCHANGED <<cycles, pend, queue, abort, done>>

(* END_UNBLOCK has no case: "Unknown TaskQueue state found!", or BLOCK in  *)
(* a build without assertions.                                             *)
UnknownState(c) ==
  /\ curr[c] = "END_UNBLOCK"
  /\ abort' = IF Asserts THEN "unknown_state" ELSE abort
  /\ Return(c, "BLOCK")
  /\ UNCHANGED <<next, cycles, pend, queue, done>>

TQ_Dequeue(c) ==
  /\ MayAct(c)
  /\ \/ Deliver(c)
     \/ AwaitLatency(c)
     \/ BlockOnEmpty(c)
     \/ SelectNextTask(c)
     \/ WakeNext(c)
     \/ PassBarrier(c)
     \/ UnknownState(c)
  /\ UNCHANGED <<curr, maxSize, issued, dropped>>
-----------------------------------------------------------------------------
Next ==
  \/ PerCycle
  \/ \E c \in Cores : TQ_Init(c)
  \/ \E c \in Cores : TQ_End(c)
  \/ \E c \in Cores : TQ_Enqueue(c)
  \/ \E c \in Cores, l \in LoopShapes : TQ_EnqueueLoop(c, l[1], l[2])
  \/ \E c \in Cores : TQ_Dequeue(c)

Spec == Init /\ [][Next]_vars

(* The simulator calls PerCycle in every cycle and a stalled instruction   *)
(* is presented to the memory stage again in every cycle.  Nothing obliges *)
(* software to make another call.                                          *)
Fairness ==
  /\ WF_vars(PerCycle)
  /\ \A c \in Cores : WF_vars(Stalled(c) /\ TQ_Dequeue(c))

FairSpec == Spec /\ Fairness
-----------------------------------------------------------------------------
(* Type invariant: every latch field, the queue and the history hold values
   of the kinds TQ_CoreStateDesc and TaskSystemBaseline declare.           *)
TypeOK ==
  /\ curr \in [Cores -> CoreStates]
  /\ next \in [Cores -> CoreStates]
  /\ cycles \in [Cores -> Nat]
  /\ pend \in [Cores -> Tasks \union {NoTask}]
  /\ queue \in Seq(Tasks)
  /\ maxSize \in QueueSizes \union {DefaultSize}
  /\ retval \in [Cores -> Returns]
  /\ acted \subseteq Cores
  /\ abort \in {"none", "overflow", "unknown_state"}
  /\ issued \in 0 .. MaxTasks
  /\ done \subseteq Tasks
  /\ dropped \subseteq Tasks

(* QueueMaxSize is never exceeded: the check TQ_EnqueueLoop makes for all of
   its tasks at once is enough for the pushes that follow it, and TQ_Enqueue
   tests for equality only.                                                *)
QueueBounded == Len(queue) <= maxSize

(* As long as the queue holds a task, some core's latch is not BLOCKING: the
   calls of one cycle come in any order and each looks at the queue once, yet
   PerCycle never counts all cores as blocked while work is left.          *)
WorkKeepsSomeCoreAwake ==
  queue # <<>> => \E c \in Cores : next[c] # "BLOCKING"

(* No task exists twice: the queue holds it once, or it is promised to one
   core, or it was delivered, or TQ_Init discarded it.                     *)
NoTaskTwice ==
  /\ \A i, j \in DOMAIN queue : i # j => queue[i] # queue[j]
  /\ \A c, d \in Cores :
       c # d /\ next[c] = "PENDING_DEQUEUE" /\ next[d] = "PENDING_DEQUEUE"
         => pend[c] # pend[d]
  /\ Elements(queue) \intersect Promised = {}
  /\ (done \union dropped) \intersect (Elements(queue) \union Promised) = {}
  /\ done \intersect dropped = {}

(* No task is lost while software does not call TQ_End: every accepted task
   is queued, promised, delivered or discarded by TQ_Init.                 *)
NoTaskLost ==
  ~Ends =>
    1 .. issued = Elements(queue) \union Promised \union done \union dropped

(* A barrier is announced only when every accepted task has been handed out
   and every core is stalled: "Everyone has started BLOCK'ing and there are no
   new tasks" (task_queue.h, TQ_RET_SYNC).                                 *)
BarrierMeansDry ==
  [][Announce => /\ \A c \in Cores : Stalled(c)
                 /\ ~Ends => 1 .. issued = done \union dropped]_vars

(* The latch and the pipeline agree: a core is stalled exactly when its latch
   will not be ACTIVE in the next cycle.  It is what makes the barrier wait for
   running cores; TQ_Init (Reinit) and TQ_End break it by design.          *)
StallMatchesLatch ==
  ~Reinit /\ ~Ends => \A c \in Cores : Stalled(c) <=> next[c] # "ACTIVE"

(* The queue is a TaskPool: tasks between SelectNextTask and their delivery are
   still in the pool, and a core is owed its SYNC from the announcement of the
   barrier until its dequeue returns it.                                   *)
Pool == INSTANCE TaskPool
  WITH pool <- Elements(queue) \union Promised,
       taken <- done,
       waiting <- {c \in Cores : Stalled(c)},
       owed <- {c \in Cores : next[c] \in {"PENDING_UNBLOCK", "UNBLOCK"}}

(* TaskQueue implements TaskPool: each task is handed out once, and no core
   reaches the next barrier before every core has left the previous one.   *)
PoolSpec == Pool!Spec

(* When every core is stalled some core is released: with a task left one of
   them gets it, without one the barrier opens.                            *)
NoCommonStall == (\A c \in Cores : Stalled(c)) ~> \E c \in Cores : ~Stalled(c)

(* A core in an announced barrier gets its SYNC, whatever the others do.   *)
BarrierReleases ==
  \A c \in Cores : curr[c] = "PENDING_UNBLOCK" ~> retval[c] = "SYNC"

=============================================================================
