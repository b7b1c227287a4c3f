------------------------------ MODULE RuntimeLock ------------------------------
(***************************************************************************)
(* What the threads of a domain may rely on, whatever implements it: the   *)
(* runtime lock is held by at most one of them, it is taken only when it   *)
(* is free, and only its holder gives it up (threads.h: "Only one thread   *)
(* at a time can execute OCaml compiled code or OCaml run-time system      *)
(* functions within a domain").  [Masterlock] implements this.             *)
(***************************************************************************)
CONSTANTS Threads, NoThread

VARIABLE holder   \* the thread that may run OCaml code, or NoThread

vars == <<holder>>

Init == holder \in Threads \cup {NoThread}

Acquire(t) == holder = NoThread /\ holder' = t

Release(t) == holder = t /\ holder' = NoThread

Next == \E t \in Threads : Acquire(t) \/ Release(t)

Spec == Init /\ [][Next]_vars
================================================================================
