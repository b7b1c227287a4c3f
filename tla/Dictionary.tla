----------------------------- MODULE Dictionary -----------------------------
(***************************************************************************)
(* What the concurrent dictionary promises (runtime/caml/lf_skiplist.h):   *)
(* every operation takes effect at one moment between its call and its     *)
(* return.  An operation that reads one key answers with a value the key   *)
(* had at such a moment, so a call remembers the values it has seen.       *)
(***************************************************************************)
EXTENDS Naturals

CONSTANTS
    Proc,       \* the threads that use the dictionary
    Key,        \* a set of natural numbers
    Data,
    Absent      \* what a key that is not there has, and what a call that has
                \* not taken effect answers

VARIABLES
    dict,       \* the data of each key
    call        \* the call each thread makes

vars == <<dict, call>>

Op == {"insert", "remove", "find", "find_below"}
Idle == [op |-> "idle"]
Running(p, op) == call[p].op = op /\ ~call[p].done

(* What the calls know once a key has become d.  "gone" says that the key  *)
(* of the call has been removed since the call began.                      *)
Learn(c, k, d) ==
    IF c.op = "idle" THEN c
    ELSE [c EXCEPT !.seen[k] = @ \cup {d},
                   !.gone = @ \/ (k = c.key /\ d = Absent /\ dict[k] # Absent)]
SetKey(k, d, p, r) ==
    /\ dict' = [dict EXCEPT ![k] = d]
    /\ call' = [q \in Proc |->
                  IF q = p THEN [Learn(call[p], k, d) EXCEPT !.done = TRUE, !.res = r]
                           ELSE Learn(call[q], k, d)]
Answer(p, r) ==
    /\ call' = [call EXCEPT ![p].done = TRUE, ![p].res = r]
    /\ UNCHANGED dict

Init == /\ dict = [k \in Key |-> Absent]
        /\ call = [p \in Proc |-> Idle]

Call(p) ==
    /\ call[p] = Idle
    /\ \E op \in Op, k \in Key, d \in Data \cup {Absent} :
          /\ op = "insert" <=> d # Absent
          /\ call' = [call EXCEPT ![p] =
                     [op |-> op, key |-> k, data |-> d, gone |-> FALSE,
                      seen |-> [l \in Key |-> {dict[l]}],
                      done |-> FALSE, res |-> Absent]]
    /\ UNCHANGED dict

Insert(p) == Running(p, "insert") /\ SetKey(call[p].key, call[p].data, p, 1)

(* An update of a key that another call removes at the same time may as    *)
(* well have come just before the removal; a call that has seen the        *)
(* removal may then have seen the update.                                  *)
InsertThenRemoved(p) ==
    /\ Running(p, "insert") /\ call[p].gone
    /\ call' = [q \in Proc |->
                  IF q = p THEN [call[p] EXCEPT !.done = TRUE, !.res = 1]
                  ELSE IF call[q].op # "idle" /\ Absent \in call[q].seen[call[p].key]
                  THEN [call[q] EXCEPT !.seen[call[p].key] = @ \cup {call[p].data}]
                  ELSE call[q]]
    /\ UNCHANGED dict

Remove(p) ==
    /\ Running(p, "remove")
    /\ dict[call[p].key] # Absent
    /\ SetKey(call[p].key, Absent, p, 1)

RemoveNothing(p) ==
    Running(p, "remove") /\ Absent \in call[p].seen[call[p].key] /\ Answer(p, 0)

Find(p) ==
    Running(p, "find") /\ \E r \in call[p].seen[call[p].key] : Answer(p, r)

(* The largest key that is not above the one given: a key that has been    *)
(* there, with no key in between that was there all the time.              *)
FindBelow(p) ==
    LET Above(k) == {l \in Key : k < l /\ l <= call[p].key}
        Skipped(K) == \A l \in K : Absent \in call[p].seen[l]
    IN
    /\ Running(p, "find_below")
    /\ \/ Skipped({l \in Key : l <= call[p].key}) /\ Answer(p, Absent)
       \/ \E k \in Key :
             /\ k <= call[p].key /\ Skipped(Above(k))
             /\ \E d \in call[p].seen[k] \ {Absent} : Answer(p, <<k, d>>)

Return(p) ==
    /\ call[p] # Idle /\ call[p].done
    /\ call' = [call EXCEPT ![p] = Idle]
    /\ UNCHANGED dict

Next == \E p \in Proc :
    \/ Call(p) \/ Return(p)
    \/ Insert(p) \/ InsertThenRemoved(p)
    \/ Remove(p) \/ RemoveNothing(p)
    \/ Find(p) \/ FindBelow(p)

Spec == Init /\ [][Next]_vars
=============================================================================
