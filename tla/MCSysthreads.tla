------------------------------ MODULE MCSysthreads ------------------------------
(***************************************************************************)
(* Systhreads with the main thread, two threads of Thread.create and one   *)
(* thread from C; the two created threads are interchangeable.             *)
(***************************************************************************)
EXTENDS Systhreads, TLC

ThreadSymmetry == Permutations(OCamlThreads)
================================================================================
