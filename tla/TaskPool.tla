------------------------------ MODULE TaskPool ------------------------------
(***************************************************************************)
(* What software is promised by the hardware task queue of rigel-sim       *)
(* (include/util/task_queue.h, the comments of class TaskSystemBase): a    *)
(* pool of tasks from which every task is handed out exactly once, and a   *)
(* barrier that opens when every core is asking for work and none is left. *)
(*                                                                         *)
(* Latencies, the LIFO order of the pool, the per-core state machine and   *)
(* the clock are all absent: TaskQueue implements this specification.      *)
(***************************************************************************)
EXTENDS FiniteSets

CONSTANTS Cores,     \* the cores that share the queue
          Tasks      \* the identities a task may have

VARIABLES pool,      \* the tasks submitted and not yet handed out
          taken,     \* the tasks handed out
          waiting,   \* the cores stalled in a dequeue
          owed       \* the cores a barrier has opened for and that have not left it

vars == <<pool, taken, waiting, owed>>

TypeOK ==
  /\ pool \subseteq Tasks
  /\ taken \subseteq Tasks
  /\ waiting \subseteq Cores
  /\ owed \subseteq waiting

Init ==
  /\ pool = {}
  /\ taken = {}
  /\ waiting = {}
  /\ owed = {}

(* A running core submits tasks that were never seen before.               *)
Submit(c, ts) ==
  /\ c \notin waiting
  /\ ts \intersect (pool \union taken) = {}
  /\ pool' = pool \union ts
  /\ UNCHANGED <<taken, waiting, owed>>

(* A running core asks for work and stalls.                                *)
Ask(c) ==
  /\ c \notin waiting
  /\ waiting' = waiting \union {c}
  /\ UNCHANGED <<pool, taken, owed>>

(* A stalled core that no barrier has opened for is given a task.          *)
Take(c, t) ==
  /\ c \in waiting \ owed
  /\ t \in pool
  /\ pool' = pool \ {t}
  /\ taken' = taken \union {t}
  /\ waiting' = waiting \ {c}
  /\ UNCHANGED owed

(* Everybody is stalled, nothing is left and the previous barrier is over. *)
Open ==
  /\ waiting = Cores
  /\ pool = {}
  /\ owed = {}
  /\ owed' = Cores
  /\ UNCHANGED <<pool, taken, waiting>>

(* A core leaves the open barrier.                                         *)
Pass(c) ==
  /\ c \in owed
  /\ owed' = owed \ {c}
  /\ waiting' = waiting \ {c}
  /\ UNCHANGED <<pool, taken>>

Next ==
  \/ \E c \in Cores, ts \in SUBSET Tasks : Submit(c, ts)
  \/ \E c \in Cores : Ask(c)
  \/ \E c \in Cores, t \in Tasks : Take(c, t)
  \/ Open
  \/ \E c \in Cores : Pass(c)

Spec == Init /\ [][Next]_vars
=============================================================================
