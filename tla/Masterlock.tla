------------------------------- MODULE Masterlock -------------------------------
(***************************************************************************)
(* The master lock of systhreads: [st_masterlock_acquire],                 *)
(* [st_masterlock_release] and [st_thread_yield] of st_pthreads.h, on the  *)
(* futex based [custom_condvar] of runtime/sync_posix.h, with the yield    *)
(* shortcut of [caml_thread_yield].                                        *)
(*                                                                         *)
(* One step is what the other threads see happen at once: a stretch of     *)
(* code under the mutex [m->lock] up to the next access that is made       *)
(* without it.  Three accesses are: the increment of [cv->counter] and the *)
(* FUTEX_WAKE of a release, which come after the unlock; the futex call of *)
(* a waiter; and the read of [m->waiters] in [default_can_skip_yield].     *)
(*                                                                         *)
(* [cv->counter] is only ever compared with an earlier value of itself, so *)
(* the model keeps the outcome of that comparison: [fresh] holds the       *)
(* threads about to call FUTEX_WAIT for which it would find the counter    *)
(* unchanged.  This equals the code as long as the 32 bit counter does not *)
(* go once around between the two accesses of one waiter.                  *)
(***************************************************************************)
EXTENDS Integers, FiniteSets

CONSTANTS
  Threads,    \* the pthreads that compete for the master lock
  NoThread,   \* not a thread: the mutex is free
  Spurious    \* whether FUTEX_WAIT may return by itself (EINTR)

ASSUME ThreadsAssumption ==
  /\ IsFiniteSet(Threads)
  /\ Threads # {}
  /\ NoThread \notin Threads
  /\ Spurious \in BOOLEAN

VARIABLES
  mutex,    \* m->lock: the thread that holds it, or NoThread
  busy,     \* m->busy
  waiters,  \* m->waiters
  fresh,    \* threads in custom_condvar_wait with old_count = cv->counter
  pc,       \* where each thread is
  op,       \* which of the three operations it is in
  owner,    \* history: the last thread to set m->busy
  tested    \* threads in caml_thread_yield that saw m->waiters # 0

vars == <<mutex, busy, waiters, fresh, pc, op, owner, tested>>

(***************************************************************************)
(* Control points.                                                         *)
(*   out     in a blocking section: does not hold the master lock          *)
(*   in      holds the master lock, runs OCaml code                        *)
(*   lock    about to call pthread_mutex_lock(&m->lock)                    *)
(*   check   st_thread_yield, has the mutex, about to read m->waiters      *)
(*   test    has the mutex, about to read m->busy                          *)
(*   futex   custom_condvar_wait, has read the counter, left the mutex     *)
(*   asleep  blocked in FUTEX_WAIT                                         *)
(*   woken   FUTEX_WAIT has returned, about to take the mutex again        *)
(*   bump    custom_condvar_signal, about to increment the counter         *)
(*   wake    custom_condvar_signal, about to call FUTEX_WAKE               *)
(***************************************************************************)
Points == {"out", "in", "lock", "check", "test", "futex", "asleep", "woken",
           "bump", "wake"}
Operations == {"acquire", "release", "yield"}

\* The types of the fields of st_masterlock; m->waiters, decremented on two
\* paths, never goes below zero.
TypeOK ==
  /\ mutex \in Threads \cup {NoThread}
  /\ busy \in BOOLEAN
  /\ waiters \in Nat
  /\ fresh \in SUBSET Threads
  /\ pc \in [Threads -> Points]
  /\ op \in [Threads -> Operations]
  /\ owner \in Threads
  /\ tested \in SUBSET Threads

(***************************************************************************)
(* [st_masterlock_init] runs on the thread that loads the library, and     *)
(* leaves the lock taken by it; the others are outside.                    *)
(***************************************************************************)
Init ==
  /\ mutex = NoThread
  /\ busy = TRUE
  /\ waiters = 0
  /\ fresh = {}
  /\ tested = {}
  /\ owner \in Threads
  /\ pc = [t \in Threads |-> IF t = owner THEN "in" ELSE "out"]
  /\ op = [t \in Threads |-> "acquire"]

At(t, p, o) == pc[t] = p /\ op[t] = o

Goto(t, p) == pc' = [pc EXCEPT ![t] = p]

\* pthread_mutex_lock(&m->lock) succeeds.
TakeMutex(t) == mutex = NoThread /\ mutex' = t

(***************************************************************************)
(* custom_condvar_wait, up to the futex call: read the counter, unlock.    *)
(***************************************************************************)
CondWait(t) ==
  /\ fresh' = fresh \cup {t}
  /\ mutex' = NoThread
  /\ Goto(t, "futex")

\* FUTEX_WAIT finds the counter as custom_condvar_wait read it, and blocks.
FutexSleep(t) ==
  /\ pc[t] = "futex"
  /\ t \in fresh
  /\ fresh' = fresh \ {t}
  /\ Goto(t, "asleep")
  /\ UNCHANGED <<mutex, busy, waiters, op, owner, tested>>

\* FUTEX_WAIT finds another value in the counter, and returns EAGAIN.
FutexAgain(t) ==
  /\ pc[t] = "futex"
  /\ t \notin fresh
  /\ Goto(t, "woken")
  /\ UNCHANGED <<mutex, busy, waiters, fresh, op, owner, tested>>

\* FUTEX_WAIT is interrupted (the code ignores its result).
FutexInterrupted(t) ==
  /\ Spurious
  /\ pc[t] = "asleep"
  /\ Goto(t, "woken")
  /\ UNCHANGED <<mutex, busy, waiters, fresh, op, owner, tested>>

\* Mutant: the signal forgets to increment the counter.
BumpForgotten(t) ==
  /\ pc[t] = "bump"
  /\ Goto(t, "wake")
  /\ UNCHANGED <<mutex, busy, waiters, fresh, op, owner, tested>>

(***************************************************************************)
(* custom_condvar_signal: increment the counter, which every thread that   *)
(* has read it but does not sleep yet will notice, then wake one sleeper   *)
(* if there is any; the signalling thread continues at [next].             *)
(***************************************************************************)

Bump(t) ==
  /\ pc[t] = "bump"
  /\ fresh' = {}
  /\ Goto(t, "wake")
  /\ UNCHANGED <<mutex, busy, waiters, op, owner, tested>>

Asleep == {t \in Threads : pc[t] = "asleep"}

WakeOne(t, next) ==
  \/ /\ Asleep = {}
     /\ Goto(t, next)
  \/ \E s \in Asleep : pc' = [pc EXCEPT ![s] = "woken", ![t] = next]

(***************************************************************************)
(* st_masterlock_acquire                                                   *)
(***************************************************************************)
AcquireCall(t) ==
  /\ pc[t] = "out"
  /\ pc' = [pc EXCEPT ![t] = "lock"]
  /\ op' = [op EXCEPT ![t] = "acquire"]
  /\ UNCHANGED <<mutex, busy, waiters, fresh, owner, tested>>

AcquireLock(t) ==
  /\ At(t, "lock", "acquire")
  /\ TakeMutex(t)
  /\ Goto(t, "test")
  /\ UNCHANGED <<busy, waiters, fresh, op, owner, tested>>

AcquireWait(t) ==
  /\ At(t, "test", "acquire")
  /\ busy
  /\ waiters' = waiters + 1
  /\ CondWait(t)
  /\ UNCHANGED <<busy, op, owner, tested>>

\* Mutant: the waiter that returns stays counted.
AcquireRelockCounted(t) ==
  /\ At(t, "woken", "acquire")
  /\ TakeMutex(t)
  /\ Goto(t, "test")
  /\ UNCHANGED <<busy, waiters, fresh, op, owner, tested>>

\* custom_condvar_wait returns with the mutex: waiters - 1, then the test.
AcquireRelock(t) ==
  /\ At(t, "woken", "acquire")
  /\ TakeMutex(t)
  /\ waiters' = waiters - 1
  /\ Goto(t, "test")
  /\ UNCHANGED <<busy, fresh, op, owner, tested>>

AcquireTake(t) ==
  /\ At(t, "test", "acquire")
  /\ ~busy
  /\ busy' = TRUE
  /\ owner' = t
  /\ mutex' = NoThread
  /\ Goto(t, "in")
  /\ UNCHANGED <<waiters, fresh, op, tested>>

(***************************************************************************)
(* st_masterlock_release: the signal comes after the unlock.               *)
(***************************************************************************)
ReleaseClear(t) ==
  /\ pc[t] = "in"
  /\ mutex = NoThread
  /\ busy' = FALSE
  /\ pc' = [pc EXCEPT ![t] = "bump"]
  /\ op' = [op EXCEPT ![t] = "release"]
  /\ UNCHANGED <<mutex, waiters, fresh, owner, tested>>

\* Mutant: the release increments the counter and wakes nobody.
ReleaseWakeNobody(t) ==
  /\ At(t, "wake", "release")
  /\ Goto(t, "out")
  /\ UNCHANGED <<mutex, busy, waiters, fresh, op, owner, tested>>

ReleaseWake(t) ==
  /\ At(t, "wake", "release")
  /\ WakeOne(t, "out")
  /\ UNCHANGED <<mutex, busy, waiters, fresh, op, owner, tested>>

(***************************************************************************)
(* caml_thread_yield and st_thread_yield.  Without waiters the yield is    *)
(* skipped (default_can_skip_yield, a read without the mutex).  Otherwise  *)
(* pending signals are processed, whose handlers may release the lock and  *)
(* take it again, before the lock is given up and the signal sent with the *)
(* mutex held; the thread then waits at least once before it looks at      *)
(* m->busy.                                                                *)
(***************************************************************************)
YieldTest(t) ==
  /\ pc[t] = "in"
  /\ waiters # 0
  /\ tested' = tested \cup {t}
  /\ UNCHANGED <<mutex, busy, waiters, fresh, pc, op, owner>>

YieldCall(t) ==
  /\ pc[t] = "in"
  /\ t \in tested
  /\ tested' = tested \ {t}
  /\ pc' = [pc EXCEPT ![t] = "lock"]
  /\ op' = [op EXCEPT ![t] = "yield"]
  /\ UNCHANGED <<mutex, busy, waiters, fresh, owner>>

YieldLock(t) ==
  /\ At(t, "lock", "yield")
  /\ TakeMutex(t)
  /\ Goto(t, "check")
  /\ UNCHANGED <<busy, waiters, fresh, op, owner, tested>>

\* The waiters have gone meanwhile: unlock and return with the lock.
YieldNobody(t) ==
  /\ pc[t] = "check"
  /\ waiters = 0
  /\ mutex' = NoThread
  /\ Goto(t, "in")
  /\ UNCHANGED <<busy, waiters, fresh, op, owner, tested>>

YieldClear(t) ==
  /\ pc[t] = "check"
  /\ waiters # 0
  /\ busy' = FALSE
  /\ waiters' = waiters + 1
  /\ Goto(t, "bump")
  /\ UNCHANGED <<mutex, fresh, op, owner, tested>>

\* FUTEX_WAKE, then custom_condvar_wait up to the futex call.
YieldWake(t) ==
  /\ At(t, "wake", "yield")
  /\ WakeOne(t, "futex")
  /\ fresh' = fresh \cup {t}
  /\ mutex' = NoThread
  /\ UNCHANGED <<busy, waiters, op, owner, tested>>

YieldRelock(t) ==
  /\ At(t, "woken", "yield")
  /\ TakeMutex(t)
  /\ Goto(t, "test")
  /\ UNCHANGED <<busy, waiters, fresh, op, owner, tested>>

YieldWait(t) ==
  /\ At(t, "test", "yield")
  /\ busy
  /\ CondWait(t)
  /\ UNCHANGED <<busy, waiters, op, owner, tested>>

\* Mutant: the yield waits once and takes the lock without looking at m->busy.
YieldTakeUntested(t) ==
  /\ At(t, "test", "yield")
  /\ busy' = TRUE
  /\ owner' = t
  /\ waiters' = waiters - 1
  /\ mutex' = NoThread
  /\ Goto(t, "in")
  /\ UNCHANGED <<fresh, op, tested>>

YieldTake(t) ==
  /\ At(t, "test", "yield")
  /\ ~busy
  /\ busy' = TRUE
  /\ owner' = t
  /\ waiters' = waiters - 1
  /\ mutex' = NoThread
  /\ Goto(t, "in")
  /\ UNCHANGED <<fresh, op, tested>>

(***************************************************************************)
(* The specification.  A thread decides when to call acquire, release and  *)
(* yield; once inside one of them it does not stop by itself.              *)
(***************************************************************************)
Call(t) ==
  AcquireCall(t) \/ ReleaseClear(t) \/ YieldTest(t) \/ YieldCall(t)

Condvar(t) == FutexSleep(t) \/ FutexAgain(t) \/ Bump(t)

Acquiring(t) ==
  AcquireLock(t) \/ AcquireWait(t) \/ AcquireRelock(t) \/ AcquireTake(t)

Yielding(t) ==
  \/ YieldLock(t) \/ YieldNobody(t) \/ YieldClear(t) \/ YieldWake(t)
  \/ YieldRelock(t) \/ YieldWait(t) \/ YieldTake(t)

Proceed(t) == Condvar(t) \/ Acquiring(t) \/ ReleaseWake(t) \/ Yielding(t)

Next == \E t \in Threads : Call(t) \/ FutexInterrupted(t) \/ Proceed(t)

Fairness == \A t \in Threads : WF_vars(Proceed(t))

Spec == Init /\ [][Next]_vars

FairSpec == Spec /\ Fairness

--------------------------------------------------------------------------------
(***************************************************************************)
(* Properties.                                                             *)
(***************************************************************************)

\* The threads that own the master lock as far as the code they run knows.
Holding(t) == pc[t] = "in" \/ At(t, "lock", "yield") \/ pc[t] = "check"

\* The threads counted by m->waiters.
Waiting(t) ==
  \/ pc[t] \in {"futex", "asleep", "woken"}
  \/ op[t] = "yield" /\ pc[t] \in {"bump", "wake", "test"}

\* At most one thread runs OCaml code, and m->busy says whether one does.
MutualExclusion ==
  /\ \A t \in Threads : Holding(t) => busy /\ owner = t
  /\ busy => Holding(owner)

\* m->waiters, which decides whether a yield may be skipped, counts the
\* threads inside the wait loops of acquire and yield, whichever way a futex
\* call ends.
WaitersExact == waiters = Cardinality({t \in Threads : Waiting(t)})

\* A thread that will look at m->busy without having to be woken.
Contending(t) ==
  \/ pc[t] \in {"woken", "test"}
  \/ At(t, "lock", "acquire")
  \/ pc[t] = "futex" /\ t \notin fresh

\* No wakeup is lost: when the lock is free and a thread sleeps, a FUTEX_WAKE
\* is still to come or another thread is on its way to take the lock, which
\* will signal when it leaves; and a thread that has not gone to sleep yet will
\* not do so on a signal that it missed.
NoLostWakeup ==
  ~busy =>
    /\ Asleep # {} => \E t \in Threads : Contending(t) \/ pc[t] \in {"bump", "wake"}
    /\ fresh # {} => \E t \in Threads : Contending(t) \/ pc[t] = "bump"

\* A lock that is free while threads wait for it does not stay free.
FreeLockIsTaken == (~busy /\ \E t \in Threads : Waiting(t)) ~> busy

\* What the comment in st_thread_yield promises when futex calls are not
\* interrupted: a yield that gives the lock up lets another thread have it
\* before it returns.
YieldHandsOver == [][\A t \in Threads : YieldTake(t) => owner # t]_vars

\* The lock as its users see it.
holder == IF busy THEN owner ELSE NoThread
Abstract == INSTANCE RuntimeLock

\* What acquire, release and yield do with busy, a mutex and a futex is what
\* blocking sections rely on: one holder, which alone gives the lock up.
RefinesRuntimeLock == Abstract!Spec
================================================================================
