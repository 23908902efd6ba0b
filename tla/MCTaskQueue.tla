---------------------------- MODULE MCTaskQueue ----------------------------
(* TLC instances of TaskQueue.                                             *)
EXTENDS TaskQueue, TLC

(* A loop of two tasks with a remainder, and one larger than the queue.    *)
MCLoops == {<<3, 2>>, <<3, 1>>}

CoreSymmetry == Permutations(Cores)
=============================================================================
