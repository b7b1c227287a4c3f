------------------------------- MODULE LossyLog --------------------------------
(***************************************************************************)
(* What a runtime_events ring promises its consumer (runtime_events.mli):  *)
(* the events of a domain, in order and undamaged, except that the oldest  *)
(* ones may be dropped before they are read, of which the consumer is      *)
(* told.  Events have positions, counted in words from the ring's start.   *)
(* [RuntimeEvents] implements this.                                        *)
(***************************************************************************)
EXTENDS Integers

CONSTANTS
  Rings,   \* one log for each
  Events   \* the events that may be written, records with a type and a length

VARIABLES
  log,     \* the events ever written: records with at, their position
  tail,    \* the position at which the next event is written
  oldest,  \* the position of the oldest event that is kept
  next,    \* the position the consumer reads next
  given    \* what the consumer was given last, the words of an event

vars == <<log, tail, oldest, next, given>>

\* The words of an event: [at, event, word].
Words(e) == [k \in 0..e.event.len - 1 |-> [at |-> e.at, event |-> e.event, word |-> k]]

Init ==
  /\ log = [q \in Rings |-> {}]
  /\ tail = [q \in Rings |-> 0]
  /\ oldest = [q \in Rings |-> 0]
  /\ next = [q \in Rings |-> 0]
  /\ given = <<>>

Write(q) ==
  /\ \E ev \in Events :
       /\ log' = [log EXCEPT ![q] = @ \cup {[at |-> tail[q], event |-> ev]}]
       /\ tail' = [tail EXCEPT ![q] = @ + ev.len]
  /\ UNCHANGED <<oldest, next, given>>

Drop(q) ==
  /\ \E e \in log[q] :
       /\ e.at = oldest[q]
       /\ oldest' = [oldest EXCEPT ![q] = e.at + e.event.len]
  /\ UNCHANGED <<log, tail, next, given>>

\* The consumer is given the event at its position, unless it is padding, and
\* moves on or, when it refuses the event, does not.
Give(q) ==
  /\ \E e \in log[q] :
       /\ e.at = next[q]
       /\ given' = IF e.event.type = "padding" THEN given ELSE Words(e)
       /\ next' \in {next, [next EXCEPT ![q] = e.at + e.event.len]}
  /\ UNCHANGED <<log, tail, oldest>>

\* The consumer skips events that have been dropped, and stops between events.
Lose(q) ==
  /\ \E e \in log[q] : LET p == e.at + e.event.len IN
       /\ next[q] < p
       /\ p <= oldest[q]
       /\ next' = [next EXCEPT ![q] = p]
  /\ UNCHANGED <<log, tail, oldest, given>>

Next == \E q \in Rings : Write(q) \/ Drop(q) \/ Give(q) \/ Lose(q)

Spec == Init /\ [][Next]_vars
================================================================================
