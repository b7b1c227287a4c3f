------------------------------ MODULE MCSemaphore ------------------------------
(* Semaphore with interchangeable threads. *)
EXTENDS Semaphore, TLC

ThreadSymmetry == Permutations(Threads)
================================================================================
