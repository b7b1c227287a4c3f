--------------------------------- MODULE MCSync ---------------------------------
(* Sync with model values for the threads and the conditions. *)
EXTENDS Sync
================================================================================
