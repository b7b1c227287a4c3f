---------------------------------- MODULE Sync ----------------------------------
(***************************************************************************)
(* Mutexes and condition variables (runtime/sync.c on the futex based      *)
(* custom_condvar of runtime/sync_posix.h), called in any order by threads *)
(* that share the runtime lock.  There is one mutex, of the pthread type   *)
(* ERRORCHECK, and the conditions that are used with it.                   *)
(*                                                                         *)
(* A thread with the runtime lock does a whole call in one step, up to the *)
(* next access that threads without it can see: a signal increments the    *)
(* counter and calls FUTEX_WAKE in two steps.  As in Masterlock, [fresh]   *)
(* has the threads for which FUTEX_WAIT would find the counter unchanged.  *)
(***************************************************************************)
EXTENDS Integers, FiniteSets

CONSTANTS Threads, Conditions, NoThread, NoCondition

ASSUME SyncAssumption ==
  /\ Threads # {}
  /\ NoThread \notin Threads
  /\ NoCondition \notin Conditions

VARIABLES
  runtime,  \* the thread that holds the runtime lock, or NoThread
  owner,    \* the thread that has locked the mutex, or NoThread
  fresh,    \* threads in custom_condvar_wait with old_count = cv->counter
  pc,       \* where each thread is
  cond,     \* the condition its call is about
  due       \* history: who waited when a proper signal began

vars == <<runtime, owner, fresh, pc, cond, due>>

(***************************************************************************)
(* Control points.                                                         *)
(*   run      runs OCaml code with the runtime lock                        *)
(*   leave    in caml_leave_blocking_section, about to get it back         *)
(*   lock     Mutex.lock, in pthread_mutex_lock without the runtime lock   *)
(*   wait     Condition.wait, about to read the counter and unlock         *)
(*   futex, asleep, woken   in the rest of custom_condvar_wait             *)
(*   wakeone, wakeall       has incremented the counter, with the runtime  *)
(*            lock, about to call FUTEX_WAKE                               *)
(***************************************************************************)
Points == {"run", "leave", "lock", "wait", "futex", "asleep", "woken",
           "wakeone", "wakeall"}

\* The types of the variables; only a thread about to call FUTEX_WAIT compares
\* the counter.
TypeOK ==
  /\ runtime \in Threads \cup {NoThread}
  /\ owner \in Threads \cup {NoThread}
  /\ fresh \in SUBSET Threads
  /\ pc \in [Threads -> Points]
  /\ cond \in [Threads -> Conditions \cup {NoCondition}]
  /\ due \in [Threads -> SUBSET Threads]
  /\ \A t \in fresh : pc[t] = "futex"

Init ==
  /\ runtime = NoThread
  /\ owner = NoThread
  /\ fresh = {}
  /\ pc = [t \in Threads |-> "leave"]
  /\ cond = [t \in Threads |-> NoCondition]
  /\ due = [t \in Threads |-> {}]

Goto(t, p) == pc' = [pc EXCEPT ![t] = p]

About(t, c) == cond' = [cond EXCEPT ![t] = c]

(***************************************************************************)
(* The runtime lock: blocking sections, and yields, which are the same to  *)
(* everybody else.                                                         *)
(***************************************************************************)
EnterBlockingSection(t) ==
  /\ pc[t] = "run"
  /\ runtime' = NoThread
  /\ Goto(t, "leave")
  /\ UNCHANGED <<owner, fresh, cond, due>>

LeaveBlockingSection(t) ==
  /\ pc[t] = "leave"
  /\ runtime = NoThread
  /\ runtime' = t
  /\ Goto(t, "run")
  /\ About(t, NoCondition)
  /\ UNCHANGED <<owner, fresh, due>>

(***************************************************************************)
(* Mutex.lock tries without giving up the runtime lock first (PR#4351).    *)
(* Mutex.try_lock is the first action, and otherwise changes nothing.      *)
(***************************************************************************)
MutexTrylock(t) ==
  /\ pc[t] = "run"
  /\ owner = NoThread
  /\ owner' = t
  /\ UNCHANGED <<runtime, fresh, pc, cond, due>>

\* Mutant: block on the mutex without giving up the runtime lock.
MutexBlockInRuntime(t) ==
  /\ pc[t] = "run"
  /\ owner # NoThread
  /\ Goto(t, "lock")
  /\ UNCHANGED <<runtime, owner, fresh, cond, due>>

MutexBlock(t) ==
  /\ pc[t] = "run"
  /\ owner # NoThread
  /\ runtime' = NoThread
  /\ Goto(t, "lock")
  /\ UNCHANGED <<owner, fresh, cond, due>>

MutexLock(t) ==
  /\ pc[t] = "lock"
  /\ owner = NoThread
  /\ owner' = t
  /\ Goto(t, "leave")
  /\ UNCHANGED <<runtime, fresh, cond, due>>

\* pthread_mutex_lock by the owner fails with EDEADLK: Mutex.lock raises.
MutexLockFails(t) ==
  /\ pc[t] = "lock"
  /\ owner = t
  /\ Goto(t, "leave")
  /\ UNCHANGED <<runtime, owner, fresh, cond, due>>

\* By another thread than the owner this fails, and changes nothing.
MutexUnlock(t) ==
  /\ pc[t] = "run"
  /\ owner = t
  /\ owner' = NoThread
  /\ UNCHANGED <<runtime, fresh, pc, cond, due>>

(***************************************************************************)
(* Condition.wait.  The result of pthread_mutex_unlock is ignored, so a    *)
(* thread that has not locked the mutex waits too, and has it afterwards.  *)
(***************************************************************************)
ConditionWait(t, c) ==
  /\ pc[t] = "run"
  /\ runtime' = NoThread
  /\ Goto(t, "wait")
  /\ About(t, c)
  /\ UNCHANGED <<owner, fresh, due>>

WaitUnlock(t) ==
  /\ pc[t] = "wait"
  /\ fresh' = fresh \cup {t}
  /\ owner' = IF owner = t THEN NoThread ELSE owner
  /\ Goto(t, "futex")
  /\ UNCHANGED <<runtime, cond, due>>

FutexSleep(t) ==
  /\ pc[t] = "futex"
  /\ t \in fresh
  /\ fresh' = fresh \ {t}
  /\ Goto(t, "asleep")
  /\ UNCHANGED <<runtime, owner, cond, due>>

FutexAgain(t) ==
  /\ pc[t] = "futex"
  /\ t \notin fresh
  /\ Goto(t, "woken")
  /\ UNCHANGED <<runtime, owner, fresh, cond, due>>

FutexInterrupted(t) ==
  /\ pc[t] = "asleep"
  /\ Goto(t, "woken")
  /\ UNCHANGED <<runtime, owner, fresh, cond, due>>

\* Mutant: a thread that was woken returns without the mutex.
WaitRelockForgotten(t) ==
  /\ pc[t] = "woken"
  /\ Goto(t, "leave")
  /\ UNCHANGED <<runtime, owner, fresh, cond, due>>

\* The mutex first, the runtime lock afterwards.
WaitRelock(t) ==
  /\ pc[t] = "woken"
  /\ owner = NoThread
  /\ owner' = t
  /\ Goto(t, "leave")
  /\ UNCHANGED <<runtime, fresh, cond, due>>

(***************************************************************************)
(* Condition.signal and Condition.broadcast, with the runtime lock.        *)
(***************************************************************************)
Asleep(c) == {t \in Threads : pc[t] = "asleep" /\ cond[t] = c}

Suspended(c) == Asleep(c) \cup {t \in fresh : cond[t] = c}

\* A signal sent with the mutex while nobody is about to wait without it.
Proper(t) == owner = t /\ \A u \in Threads : pc[u] # "wait"

\* Mutant: FUTEX_WAKE comes before the increment.
CounterNotIncremented(t, c, p) ==
  /\ pc[t] = "run"
  /\ due' = [due EXCEPT ![t] = IF Proper(t) THEN Suspended(c) ELSE {}]
  /\ Goto(t, p)
  /\ About(t, c)
  /\ UNCHANGED <<runtime, owner, fresh>>

Increment(t, c, p) ==
  /\ pc[t] = "run"
  /\ due' = [due EXCEPT ![t] = IF Proper(t) THEN Suspended(c) ELSE {}]
  /\ fresh' = {u \in fresh : cond[u] # c}
  /\ Goto(t, p)
  /\ About(t, c)
  /\ UNCHANGED <<runtime, owner>>

WakeDone(t) ==
  /\ About(t, NoCondition)
  /\ due' = [due EXCEPT ![t] = {}]
  /\ UNCHANGED <<runtime, owner, fresh>>

WakeOne(t) ==
  /\ pc[t] = "wakeone"
  /\ \/ Asleep(cond[t]) = {} /\ Goto(t, "run")
     \/ \E u \in Asleep(cond[t]) : pc' = [pc EXCEPT ![u] = "woken", ![t] = "run"]
  /\ WakeDone(t)

WakeAll(t) ==
  /\ pc[t] = "wakeall"
  /\ pc' = [u \in Threads |-> IF u = t THEN "run"
                              ELSE IF u \in Asleep(cond[t]) THEN "woken" ELSE pc[u]]
  /\ WakeDone(t)

(***************************************************************************)
(* The specification.  A thread calls when it likes, and a call that has   *)
(* begun goes on by itself.                                                *)
(***************************************************************************)
Proceed(t) ==
  \/ LeaveBlockingSection(t) \/ MutexLock(t) \/ MutexLockFails(t)
  \/ WaitUnlock(t) \/ FutexSleep(t) \/ FutexAgain(t) \/ WaitRelock(t)
  \/ WakeOne(t) \/ WakeAll(t)

Call(t) ==
  \/ MutexTrylock(t) \/ MutexBlock(t) \/ MutexUnlock(t)
  \/ \E c \in Conditions :
       \/ ConditionWait(t, c)
       \/ Increment(t, c, "wakeone") \/ Increment(t, c, "wakeall")

Next ==
  \E t \in Threads :
    EnterBlockingSection(t) \/ FutexInterrupted(t) \/ Proceed(t) \/ Call(t)

Spec == Init /\ [][Next]_vars

--------------------------------------------------------------------------------
(***************************************************************************)
(* Properties.                                                             *)
(***************************************************************************)

\* No circle of the mutex and the runtime lock: the owner of the mutex, which
\* needs the runtime lock before it can unlock, never waits for a thread that
\* waits for the mutex (PR#4351, and the order of the locks in Condition.wait).
NoCircularWait ==
  \A t, u \in Threads :
    pc[t] \in {"lock", "woken"} /\ owner = u /\ t # u => ~(runtime = t /\ pc[u] = "leave")

\* The locks are taken in an order in which nobody can block the program, and every
\* thread that compares the counter is one that has unlocked and not slept yet.
LocksOrdered == TypeOK /\ NoCircularWait

Restarted(t) == pc[t] \notin {"asleep"} /\ t \notin fresh

\* Used as condition.mli asks, a signal restarts one of the threads that waited
\* when it was called, and a broadcast all of them, although a wait reads the
\* counter long before it sleeps and a signal takes two steps.
SignalRestarts ==
  [][\A t \in Threads :
       /\ WakeOne(t) /\ due[t] # {} => \E u \in due[t] : Restarted(u)'
       /\ WakeAll(t) => \A u \in due[t] : Restarted(u)']_vars

\* The mutex and the conditions as their users see them.
waiting == [c \in Conditions |-> Suspended(c)]
woken == {t \in Threads \ fresh : pc[t] \in {"futex", "woken"}}
Abstract == INSTANCE Monitor

\* Whatever the calls and their order, also without the mutex, sync.c does what
\* mutex.mli and condition.mli say of a mutex and its conditions.
RefinesMonitor == Abstract!Spec
================================================================================
