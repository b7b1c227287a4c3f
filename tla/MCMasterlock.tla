------------------------------ MODULE MCMasterlock ------------------------------
(* Masterlock with model values for the threads. *)
EXTENDS Masterlock
================================================================================
