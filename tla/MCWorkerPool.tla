----------------------------- MODULE MCWorkerPool -----------------------------
(* WorkerPool with interchangeable tasks, for the safety runs. *)
EXTENDS WorkerPool, TLC

TaskSymmetry == Permutations(Tasks)
===============================================================================
