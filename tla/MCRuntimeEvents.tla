---------------------------- MODULE MCRuntimeEvents ----------------------------
(* Rings of eight words and events of two and three. *)
EXTENDS RuntimeEvents

MCKinds == {[type |-> "unit", len |-> 2], [type |-> "counter", len |-> 3]}
MCMaxOptions == {None, 1}
================================================================================
