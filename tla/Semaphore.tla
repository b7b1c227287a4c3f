------------------------------- MODULE Semaphore -------------------------------
(***************************************************************************)
(* Counting and binary semaphores (stdlib/semaphore.ml) on a mutex and a   *)
(* condition variable, as [Monitor] specifies them.  A step ends where the *)
(* mutex is locked, unlocked or waited with.                               *)
(***************************************************************************)
EXTENDS Integers, FiniteSets

CONSTANTS
  Threads, NoThread,
  max_int

nonzero == "nonzero"
Conditions == {nonzero}

ASSUME SemaphoreAssumption ==
  /\ IsFiniteSet(Threads)
  /\ NoThread \notin Threads
  /\ max_int \in Nat \ {0}

VARIABLES
  owner, waiting, woken,  \* the mutex and the condition
  v,               \* the current value
  binary,          \* whether this is Semaphore.Binary
  initial,         \* the argument of make
  aslock,          \* whether only threads that have acquired release
  pc,              \* where each thread is
  inside           \* history: the threads that have acquired and not released

kind == <<binary, initial, aslock>>
vars == <<owner, waiting, woken, v, kind, pc, inside>>

Monitor == INSTANCE Monitor

(***************************************************************************)
(* Control points: the first three call Mutex.lock next, the next three    *)
(* have the mutex, and "suspended" is in Condition.wait.                   *)
(***************************************************************************)
Points == {"idle", "acquire", "try", "release", "acquiring", "trying",
           "releasing", "suspended"}

\* The types of the variables; the value never passes max_int.
TypeOK ==
  /\ owner \in Threads \cup {NoThread}
  /\ waiting \in [Conditions -> SUBSET Threads]
  /\ woken \in SUBSET Threads
  /\ binary \in BOOLEAN
  /\ aslock \in BOOLEAN
  /\ v \in 0..(IF binary THEN 1 ELSE max_int)
  /\ initial \in 0..max_int
  /\ pc \in [Threads -> Points]
  /\ inside \in SUBSET Threads

Init ==
  /\ Monitor!Init
  /\ binary \in BOOLEAN
  /\ aslock \in BOOLEAN
  /\ initial \in 0..(IF binary THEN 1 ELSE max_int)
  /\ v = initial
  /\ pc = [t \in Threads |-> "idle"]
  /\ inside = {}

Goto(t, p) == pc' = [pc EXCEPT ![t] = p]

Call(t, p) ==
  /\ pc[t] = "idle"
  /\ aslock => (p = "release" <=> t \in inside)
  /\ Goto(t, p)
  /\ UNCHANGED <<owner, waiting, woken, v, kind, inside>>

Locked == [acquire |-> "acquiring", try |-> "trying", release |-> "releasing"]

Lock(t) ==
  /\ pc[t] \in DOMAIN Locked
  /\ Monitor!Lock(t)
  /\ Goto(t, Locked[pc[t]])
  /\ UNCHANGED <<v, kind, inside>>

Take(t) ==
  /\ v > 0
  /\ v' = IF binary THEN 0 ELSE v - 1
  /\ inside' = inside \cup {t}
  /\ Monitor!Unlock(t)
  /\ Goto(t, "idle")
  /\ UNCHANGED kind

(***************************************************************************)
(* acquire                                                                 *)
(***************************************************************************)
AcquireWait(t) ==
  /\ pc[t] = "acquiring"
  /\ v = 0
  /\ Monitor!Wait(t, nonzero)
  /\ Goto(t, "suspended")
  /\ UNCHANGED <<v, kind, inside>>

\* Condition.wait returns with the mutex; the while tests again.
AcquireRestart(t) ==
  /\ pc[t] = "suspended"
  /\ Monitor!Relock(t)
  /\ Goto(t, "acquiring")
  /\ UNCHANGED <<v, kind, inside>>

AcquireTake(t) == pc[t] = "acquiring" /\ Take(t)

(***************************************************************************)
(* try_acquire                                                             *)
(***************************************************************************)
TryTake(t) == pc[t] = "trying" /\ Take(t)

TryFail(t) ==
  /\ pc[t] = "trying"
  /\ v = 0
  /\ Monitor!Unlock(t)
  /\ Goto(t, "idle")
  /\ UNCHANGED <<v, kind, inside>>

\* Signal nonzero if [signal], and unlock.
SignalAndUnlock(t, signal) ==
  /\ \E S \in SUBSET waiting[nonzero] :
       /\ IF signal THEN S # {} \/ waiting[nonzero] = {} ELSE S = {}
       /\ waiting' = [waiting EXCEPT ![nonzero] = @ \ S]
       /\ woken' = woken \cup S
  /\ owner' = NoThread
  /\ Goto(t, "idle")
  /\ UNCHANGED kind

\* Mutant: signal only when the value leaves zero.
ReleaseSignalsOnce(t) ==
  /\ pc[t] = "releasing"
  /\ binary \/ v < max_int
  /\ v' = IF binary THEN 1 ELSE v + 1
  /\ inside' = inside \ {t}
  /\ SignalAndUnlock(t, v = 0)

(***************************************************************************)
(* release.  The signal and the unlock are one step: nobody else can have  *)
(* the mutex in between.                                                   *)
(***************************************************************************)
Release(t) ==
  /\ pc[t] = "releasing"
  /\ binary \/ v < max_int
  /\ v' = IF binary THEN 1 ELSE v + 1
  /\ inside' = inside \ {t}
  /\ SignalAndUnlock(t, TRUE)

\* Sys_error "Semaphore.Counting.release: overflow"
ReleaseOverflow(t) ==
  /\ pc[t] = "releasing"
  /\ ~binary /\ v = max_int
  /\ Monitor!Unlock(t)
  /\ Goto(t, "idle")
  /\ UNCHANGED <<v, kind, inside>>

\* A thread may be woken up for no reason.
Spurious ==
  /\ \E t \in waiting[nonzero] : Monitor!Wake(nonzero, {t})
  /\ UNCHANGED <<v, kind, pc, inside>>

Acquiring(t) == AcquireWait(t) \/ AcquireRestart(t) \/ AcquireTake(t)
Trying(t) == TryTake(t) \/ TryFail(t)
Releasing(t) == Release(t) \/ ReleaseOverflow(t)

Next ==
  \/ \E t \in Threads :
       \/ \E p \in DOMAIN Locked : Call(t, p)
       \/ Lock(t) \/ Acquiring(t) \/ Trying(t) \/ Releasing(t)
  \/ Spurious

Spec == Init /\ [][Next]_vars

--------------------------------------------------------------------------------
(***************************************************************************)
(* Properties.                                                             *)
(***************************************************************************)

\* No token is stranded: while a thread sleeps in acquire, every token is matched
\* by a thread that has been woken and not looked at it yet, however other
\* threads take tokens, give them back or wake up for no reason.
NoTokenStranded ==
  waiting[nonzero] # {} /\ owner = NoThread => Cardinality(woken) >= v

\* A semaphore used as a lock admits as many threads as it had tokens, and loses
\* none of them.
TokensConserved ==
  aslock => Cardinality(inside) + v = initial

\* The tokens are where they should be: as many as there were, never more than
\* max_int, and never idle while a thread sleeps for one.
TokensAccounted == TypeOK /\ TokensConserved /\ NoTokenStranded
================================================================================
