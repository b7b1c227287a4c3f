-------------------------------- MODULE Monitor --------------------------------
(***************************************************************************)
(* What Mutex and Condition promise (stdlib/mutex.mli, condition.mli): one *)
(* mutex, and the condition variables used with it.  "This call atomically *)
(* unlocks the mutex m and suspends the current thread on the condition    *)
(* variable c"; "it can also be woken up for no reason"; "The mutex m is   *)
(* locked again before wait returns."  [Sync] implements this, and         *)
(* [Semaphore] and [Event] are built on it.                                *)
(***************************************************************************)
EXTENDS FiniteSets

CONSTANTS Threads, Conditions, NoThread

VARIABLES
  owner,    \* the thread that has locked the mutex, or NoThread
  waiting,  \* the threads suspended on each condition variable
  woken     \* the threads that have been woken up and not locked the mutex yet

vars == <<owner, waiting, woken>>

Init ==
  /\ owner = NoThread
  /\ waiting = [c \in Conditions |-> {}]
  /\ woken = {}

\* A thread in wait does nothing else.
Awake(t) == t \notin woken /\ \A c \in Conditions : t \notin waiting[c]

Lock(t) == Awake(t) /\ owner = NoThread /\ owner' = t /\ UNCHANGED <<waiting, woken>>

Unlock(t) == Awake(t) /\ owner = t /\ owner' = NoThread /\ UNCHANGED <<waiting, woken>>

\* A thread that has not locked the mutex waits without unlocking it.
Wait(t, c) ==
  /\ Awake(t)
  /\ owner' = IF owner = t THEN NoThread ELSE owner
  /\ waiting' = [waiting EXCEPT ![c] = @ \cup {t}]
  /\ UNCHANGED woken

\* The threads of S are woken up.
Wake(c, S) ==
  /\ waiting' = [waiting EXCEPT ![c] = @ \ S]
  /\ woken' = woken \cup S
  /\ UNCHANGED owner

\* By a signal, by a broadcast, or for no reason.
Restart(c) == \E S \in SUBSET waiting[c] : Wake(c, S)

\* A signal wakes up one of the threads waiting, if there is one; it may wake
\* more.
Signal(c) == \E S \in SUBSET waiting[c] : (S = {} => waiting[c] = {}) /\ Wake(c, S)

Relock(t) ==
  /\ t \in woken
  /\ owner = NoThread
  /\ owner' = t
  /\ woken' = woken \ {t}
  /\ UNCHANGED waiting

Next ==
  \/ \E t \in Threads :
       Lock(t) \/ Unlock(t) \/ Relock(t) \/ \E c \in Conditions : Wait(t, c)
  \/ \E c \in Conditions : Restart(c)

Spec == Init /\ [][Next]_vars
================================================================================
