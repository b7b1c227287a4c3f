--------------------------- MODULE MasterlockProofs ---------------------------
(***************************************************************************)
(* Proofs about the master lock, for every finite set of threads.          *)
(***************************************************************************)
EXTENDS Masterlock, FiniteSetTheorems, TLAPS

\* The threads that own the mutex m->lock by the code they are in.
HasMutex(t) ==
  \/ pc[t] \in {"test", "check"}
  \/ op[t] = "yield" /\ pc[t] \in {"bump", "wake"}

\* The mutex protects what the code says it protects.
MutexInv == \A t \in Threads : HasMutex(t) <=> mutex = t

\* Which operation can be at which control point.
OpInv ==
  \A t \in Threads :
    /\ pc[t] = "check" => op[t] = "yield"
    /\ pc[t] \in {"lock", "test", "futex", "asleep", "woken"} => op[t] # "release"
    /\ pc[t] \in {"bump", "wake"} => op[t] # "acquire"

\* Only a thread on its way into FUTEX_WAIT can be fresh.
FreshInv == \A t \in fresh : pc[t] = "futex"

(***************************************************************************)
(* A yielding thread that has signalled and is about to wait has company:  *)
(* the waiter that m->waiters announced cannot leave the wait loop without *)
(* the mutex, and after the increment nobody is about to sleep.            *)
(***************************************************************************)
CompanyInv ==
  \A t \in Threads :
    /\ op[t] = "yield" /\ pc[t] \in {"bump", "wake"}
         => \E u \in Threads : u # t /\ Waiting(u)
    /\ op[t] = "yield" /\ pc[t] = "wake" => fresh = {}

IInv ==
  /\ TypeOK
  /\ MutexInv
  /\ OpInv
  /\ FreshInv
  /\ CompanyInv
  /\ MutualExclusion
  /\ WaitersExact
  /\ NoLostWakeup
--------------------------------------------------------------------------------
(***************************************************************************)
(* m->waiters and the threads that wait.                                   *)
(***************************************************************************)
Waiters == {t \in Threads : Waiting(t)}

LEMMA WaitersFinite == IsFiniteSet(Waiters)
BY ThreadsAssumption, FS_Subset DEF Waiters

\* A waiting thread is counted.
LEMMA WaitingCounted ==
  ASSUME WaitersExact, NEW t \in Threads, Waiting(t)
  PROVE  waiters \in Nat /\ waiters > 0
<1>1. t \in Waiters
  BY DEF Waiters
<1>2. Cardinality(Waiters) \in Nat /\ Cardinality(Waiters) # 0
  BY <1>1, WaitersFinite, FS_CardinalityType, FS_EmptySet
<1> QED
  BY <1>2 DEF WaitersExact, Waiters

\* A non zero count has a thread behind it.
LEMMA CountedWaiting ==
  ASSUME WaitersExact, waiters # 0
  PROVE  \E t \in Threads : Waiting(t)
<1>1. Waiters # {}
  BY WaitersFinite, FS_EmptySet DEF WaitersExact, Waiters
<1> QED
  BY <1>1 DEF Waiters

LEMMA CountAdd ==
  ASSUME WaitersExact, NEW t \in Threads, ~Waiting(t), Waiters' = Waiters \cup {t},
         waiters' = waiters + 1
  PROVE  WaitersExact'
<1>1. Cardinality(Waiters \cup {t}) = Cardinality(Waiters) + 1
  BY WaitersFinite, FS_AddElement DEF Waiters
<1> QED
  BY <1>1 DEF WaitersExact, Waiters

LEMMA CountRemove ==
  ASSUME WaitersExact, NEW t \in Threads, Waiting(t), Waiters' = Waiters \ {t},
         waiters' = waiters - 1
  PROVE  WaitersExact'
<1>1. Cardinality(Waiters \ {t}) = Cardinality(Waiters) - 1
  BY WaitersFinite, FS_RemoveElement DEF Waiters
<1> QED
  BY <1>1 DEF WaitersExact, Waiters

LEMMA CountSame ==
  ASSUME WaitersExact, Waiters' = Waiters, waiters' = waiters
  PROVE  WaitersExact'
BY DEF WaitersExact, Waiters

--------------------------------------------------------------------------------
(***************************************************************************)
(* Each part of the invariant is preserved by every step.                  *)
(***************************************************************************)
Step(t) == Call(t) \/ FutexInterrupted(t) \/ Proceed(t)

LEMMA TypeStep ==
  ASSUME TypeOK, WaitersExact, NEW t \in Threads, Step(t)
  PROVE  TypeOK'
<1> USE ThreadsAssumption DEF TypeOK, Points, Operations, Goto, At
<1>1. CASE Call(t) \/ FutexInterrupted(t) \/ Condvar(t) \/ ReleaseWake(t)
  BY <1>1 DEF Call, AcquireCall, ReleaseClear, YieldTest, YieldCall, FutexInterrupted,
       Condvar, FutexSleep, FutexAgain, Bump, ReleaseWake, WakeOne, Asleep
<1>2. CASE Acquiring(t)
  <2>1. CASE AcquireRelock(t)
    <3>1. waiters - 1 \in Nat
      BY <2>1, WaitingCounted DEF AcquireRelock, Waiting
    <3> QED
      BY <2>1, <3>1 DEF AcquireRelock, TakeMutex
  <2>2. CASE AcquireWait(t)
    <3>1. waiters' \in Nat
      BY <2>2 DEF AcquireWait
    <3> QED
      BY <2>2, <3>1 DEF AcquireWait, CondWait
  <2>3. CASE AcquireLock(t) \/ AcquireTake(t)
    BY <2>3 DEF AcquireLock, AcquireTake, TakeMutex
  <2> QED
    BY <1>2, <2>1, <2>2, <2>3 DEF Acquiring
<1>3. CASE Yielding(t)
  <2>1. CASE YieldTake(t)
    <3>1. waiters - 1 \in Nat
      BY <2>1, WaitingCounted DEF YieldTake, Waiting
    <3> QED
      BY <2>1, <3>1 DEF YieldTake
  <2>2. CASE YieldClear(t)
    <3>1. waiters' \in Nat
      BY <2>2 DEF YieldClear
    <3> QED
      BY <2>2, <3>1 DEF YieldClear
  <2>3. CASE YieldLock(t) \/ YieldNobody(t) \/ YieldWake(t)
    BY <2>3 DEF YieldLock, YieldNobody, YieldWake, TakeMutex, WakeOne, Asleep
  <2>4. CASE YieldRelock(t) \/ YieldWait(t)
    BY <2>4 DEF YieldRelock, YieldWait, TakeMutex, CondWait
  <2> QED
    BY <1>3, <2>1, <2>2, <2>3, <2>4 DEF Yielding
<1> QED
  BY <1>1, <1>2, <1>3 DEF Step, Proceed

\* The mutex, the operations' control points and the fresh threads.
LEMMA ControlStep ==
  ASSUME TypeOK, MutexInv, OpInv, FreshInv, NEW t \in Threads, Step(t)
  PROVE  MutexInv' /\ OpInv' /\ FreshInv'
<1> USE ThreadsAssumption DEF TypeOK, Points, Operations, Goto, At, MutexInv,
      HasMutex, OpInv, FreshInv
<1>1. CASE Call(t) \/ FutexInterrupted(t) \/ Condvar(t) \/ ReleaseWake(t)
  BY <1>1 DEF Call, AcquireCall, ReleaseClear, YieldTest, YieldCall, FutexInterrupted,
       Condvar, FutexSleep, FutexAgain, Bump, ReleaseWake, WakeOne, Asleep
<1>2. CASE Acquiring(t)
  BY <1>2 DEF Acquiring, AcquireLock, AcquireWait, AcquireRelock, AcquireTake,
       TakeMutex, CondWait
<1>3. CASE Yielding(t)
  BY <1>3 DEF Yielding, YieldLock, YieldNobody, YieldClear, YieldWake,
       YieldRelock, YieldWait, YieldTake, TakeMutex, CondWait, WakeOne, Asleep
<1> QED
  BY <1>1, <1>2, <1>3 DEF Step, Proceed

LEMMA MutualExclusionStep ==
  ASSUME TypeOK, MutexInv, OpInv, MutualExclusion, NEW t \in Threads, Step(t)
  PROVE  MutualExclusion'
<1> USE ThreadsAssumption DEF TypeOK, Points, Operations, Goto, At, MutexInv,
      HasMutex, OpInv, MutualExclusion, Holding
<1>1. CASE Call(t) \/ FutexInterrupted(t) \/ Condvar(t) \/ ReleaseWake(t)
  BY <1>1 DEF Call, AcquireCall, ReleaseClear, YieldTest, YieldCall, FutexInterrupted,
       Condvar, FutexSleep, FutexAgain, Bump, ReleaseWake, WakeOne, Asleep
<1>2. CASE Acquiring(t)
  BY <1>2 DEF Acquiring, AcquireLock, AcquireWait, AcquireRelock, AcquireTake,
       TakeMutex, CondWait
<1>3. CASE Yielding(t)
  BY <1>3 DEF Yielding, YieldLock, YieldNobody, YieldClear, YieldWake,
       YieldRelock, YieldWait, YieldTake, TakeMutex, CondWait, WakeOne, Asleep
<1> QED
  BY <1>1, <1>2, <1>3 DEF Step, Proceed

LEMMA WaitersStep ==
  ASSUME TypeOK, OpInv, WaitersExact, NEW t \in Threads, Step(t)
  PROVE  WaitersExact'
<1> USE DEF TypeOK, Points, Operations, Goto, At, OpInv, Waiters, Waiting
<1>1. CASE AcquireWait(t)
  <2>1. Waiters' = Waiters \cup {t} /\ ~Waiting(t)
    BY <1>1 DEF AcquireWait, CondWait
  <2> QED
    BY <1>1, <2>1, CountAdd DEF AcquireWait
<1>2. CASE YieldClear(t)
  <2>1. Waiters' = Waiters \cup {t} /\ ~Waiting(t)
    BY <1>2 DEF YieldClear
  <2> QED
    BY <1>2, <2>1, CountAdd DEF YieldClear
<1>3. CASE AcquireRelock(t)
  <2>1. Waiters' = Waiters \ {t} /\ Waiting(t)
    BY <1>3 DEF AcquireRelock
  <2> QED
    BY <1>3, <2>1, CountRemove DEF AcquireRelock
<1>4. CASE YieldTake(t)
  <2>1. Waiters' = Waiters \ {t} /\ Waiting(t)
    BY <1>4 DEF YieldTake
  <2> QED
    BY <1>4, <2>1, CountRemove DEF YieldTake
<1>5. CASE Call(t) \/ FutexInterrupted(t) \/ Condvar(t) \/ ReleaseWake(t)
  <2>1. Waiters' = Waiters /\ waiters' = waiters
    BY <1>5 DEF Call, AcquireCall, ReleaseClear, YieldTest, YieldCall, FutexInterrupted,
         Condvar, FutexSleep, FutexAgain, Bump, ReleaseWake, WakeOne, Asleep
  <2> QED
    BY <2>1, CountSame
<1>6. CASE AcquireLock(t) \/ AcquireTake(t) \/ YieldLock(t) \/ YieldNobody(t)
  <2>1. Waiters' = Waiters /\ waiters' = waiters
    BY <1>6 DEF AcquireLock, AcquireTake, YieldLock, YieldNobody
  <2> QED
    BY <2>1, CountSame
<1>7. CASE YieldWake(t) \/ YieldRelock(t) \/ YieldWait(t)
  <2>1. Waiters' = Waiters /\ waiters' = waiters
    BY <1>7 DEF YieldWake, YieldRelock, YieldWait, CondWait, WakeOne, Asleep
  <2> QED
    BY <2>1, CountSame
<1> QED
  BY <1>1, <1>2, <1>3, <1>4, <1>5, <1>6, <1>7 DEF Step, Proceed, Acquiring, Yielding

\* The waiter that a yielding thread counts on stays until the mutex is free.
LEMMA CompanyStep ==
  ASSUME TypeOK, MutexInv, OpInv, WaitersExact, CompanyInv,
         NEW t \in Threads, Step(t)
  PROVE  CompanyInv'
<1> USE ThreadsAssumption DEF TypeOK, Points, Operations, Goto, At, MutexInv,
      HasMutex, OpInv, CompanyInv, Waiting
<1>1. CASE Call(t) \/ FutexInterrupted(t) \/ Condvar(t) \/ ReleaseWake(t)
  BY <1>1 DEF Call, AcquireCall, ReleaseClear, YieldTest, YieldCall, FutexInterrupted,
       Condvar, FutexSleep, FutexAgain, Bump, ReleaseWake, WakeOne, Asleep
<1>2. CASE Acquiring(t)
  BY <1>2 DEF Acquiring, AcquireLock, AcquireWait, AcquireRelock, AcquireTake,
       TakeMutex, CondWait
<1>3. CASE YieldClear(t)
  <2>1. PICK u \in Threads : Waiting(u)
    BY <1>3, CountedWaiting DEF YieldClear
  <2>2. u # t
    BY <1>3, <2>1 DEF YieldClear
  <2> QED
    BY <1>3, <2>1, <2>2 DEF YieldClear
<1>4. CASE Yielding(t) /\ ~YieldClear(t)
  BY <1>4 DEF Yielding, YieldLock, YieldNobody, YieldWake, YieldRelock,
       YieldWait, YieldTake, TakeMutex, CondWait, WakeOne, Asleep
<1> QED
  BY <1>1, <1>2, <1>3, <1>4 DEF Step, Proceed

LEMMA NoLostWakeupStep ==
  ASSUME IInv, NEW t \in Threads, Step(t)
  PROVE  NoLostWakeup'
<1> USE ThreadsAssumption DEF IInv, TypeOK, Points, Operations, Goto, At, OpInv,
      FreshInv, MutualExclusion, Holding, NoLostWakeup, Contending, Asleep
<1>1. CASE Call(t) \/ FutexInterrupted(t)
  BY <1>1 DEF Call, AcquireCall, ReleaseClear, YieldTest, YieldCall, FutexInterrupted
<1>2. CASE Condvar(t)
  BY <1>2 DEF Condvar, FutexSleep, FutexAgain, Bump
<1>3. CASE ReleaseWake(t)
  BY <1>3 DEF ReleaseWake, WakeOne
<1>4. CASE Acquiring(t)
  BY <1>4 DEF Acquiring, AcquireLock, AcquireWait, AcquireRelock, AcquireTake,
       TakeMutex, CondWait
<1>5. CASE YieldWake(t)
  <2>1. PICK u \in Threads : u # t /\ Waiting(u)
    BY <1>5 DEF YieldWake, CompanyInv
  <2>2. fresh = {} /\ mutex = t
    BY <1>5 DEF YieldWake, CompanyInv, MutexInv, HasMutex
  <2>3. pc[u] \in {"futex", "asleep", "woken"}
    BY <2>1, <2>2 DEF Waiting, MutexInv, HasMutex
  <2>4. \E v \in Threads : Contending(v)'
    <3>1. CASE Asleep = {}
      <4>1. Contending(u)'
        BY <1>5, <2>1, <2>2, <2>3, <3>1 DEF YieldWake, WakeOne
      <4> QED
        BY <4>1
    <3>2. CASE Asleep # {}
      BY <1>5, <3>2 DEF YieldWake, WakeOne
    <3> QED
      BY <3>1, <3>2
  <2> QED
    BY <2>4
<1>6. CASE Yielding(t) /\ ~YieldWake(t)
  BY <1>6 DEF Yielding, YieldLock, YieldNobody, YieldClear, YieldRelock,
       YieldWait, YieldTake, TakeMutex, CondWait
<1> QED
  BY <1>1, <1>2, <1>3, <1>4, <1>5, <1>6 DEF Step, Proceed

--------------------------------------------------------------------------------
(***************************************************************************)
(* The inductive invariant, and what follows from it.                      *)
(***************************************************************************)
LEMMA InitIInv == Init => IInv
<1> SUFFICES ASSUME Init PROVE IInv
  OBVIOUS
<1> USE ThreadsAssumption DEF Init
<1>1. TypeOK /\ MutexInv /\ OpInv /\ FreshInv /\ CompanyInv /\ MutualExclusion
  BY DEF TypeOK, Points, Operations, MutexInv, HasMutex, OpInv, FreshInv,
       CompanyInv, MutualExclusion, Holding, At
<1>2. NoLostWakeup
  BY DEF NoLostWakeup
<1>3. WaitersExact
  <2>1. {t \in Threads : Waiting(t)} = {}
    BY DEF Waiting
  <2> QED
    BY <2>1, FS_EmptySet DEF WaitersExact
<1> QED
  BY <1>1, <1>2, <1>3 DEF IInv

LEMMA NextIInv == IInv /\ [Next]_vars => IInv'
<1> SUFFICES ASSUME IInv, [Next]_vars PROVE IInv'
  OBVIOUS
<1>1. CASE UNCHANGED vars
  BY <1>1 DEF vars, IInv, TypeOK, MutexInv, HasMutex, OpInv, FreshInv,
       CompanyInv, Waiting, MutualExclusion, Holding, At, WaitersExact,
       NoLostWakeup, Contending, Asleep
<1>2. ASSUME NEW t \in Threads, Step(t) PROVE IInv'
  BY <1>2, TypeStep, ControlStep, MutualExclusionStep, WaitersStep, CompanyStep,
     NoLostWakeupStep DEF IInv
<1> QED
  BY <1>1, <1>2 DEF Next, Step

LEMMA InvariantIInv == Spec => []IInv
BY InitIInv, NextIInv, PTL DEF Spec

\* st_masterlock_acquire, st_masterlock_release and st_thread_yield keep the
\* types of the lock's fields; in particular m->waiters never goes below zero.
THEOREM TypeCorrect == Spec => []TypeOK
<1>1. IInv => TypeOK
  BY DEF IInv
<1> QED
  BY <1>1, InvariantIInv, PTL

\* The master lock admits one thread at a time, however many compete for it.
THEOREM LockExcludes == Spec => []MutualExclusion
<1>1. IInv => MutualExclusion
  BY DEF IInv
<1> QED
  BY <1>1, InvariantIInv, PTL

\* m->waiters is exact, so default_can_skip_yield never skips a yield that a
\* registered waiter needs.
THEOREM WaitersCounted == Spec => []WaitersExact
<1>1. IInv => WaitersExact
  BY DEF IInv
<1> QED
  BY <1>1, InvariantIInv, PTL

\* The signal of a release after its unlock, and the signal of a yield before
\* its wait, lose no wakeup.
THEOREM WakeupNotLost == Spec => []NoLostWakeup
<1>1. IInv => NoLostWakeup
  BY DEF IInv
<1> QED
  BY <1>1, InvariantIInv, PTL

\* The futex based lock implements the abstract runtime lock.
THEOREM ImplementsRuntimeLock == Spec => RefinesRuntimeLock
<1>1. Init => Abstract!Init
  BY DEF Init, Abstract!Init, holder
<1>2. IInv /\ [Next]_vars => [Abstract!Next]_(Abstract!vars)
  <2> SUFFICES ASSUME IInv, [Next]_vars
               PROVE  Abstract!Next \/ UNCHANGED holder
    BY DEF Abstract!vars
  <2> USE ThreadsAssumption DEF Abstract!Next, Abstract!Acquire,
        Abstract!Release, holder
  <2>1. CASE UNCHANGED vars
    BY <2>1 DEF vars
  <2>2. ASSUME NEW t \in Threads, AcquireTake(t) \/ YieldTake(t)
        PROVE  Abstract!Acquire(t)
    BY <2>2 DEF AcquireTake, YieldTake
  <2>3. ASSUME NEW t \in Threads, ReleaseClear(t) \/ YieldClear(t)
        PROVE  Abstract!Release(t)
    BY <2>3 DEF ReleaseClear, YieldClear, IInv, MutualExclusion, Holding
  <2>4. ASSUME NEW t \in Threads, Step(t), ~AcquireTake(t), ~YieldTake(t),
               ~ReleaseClear(t), ~YieldClear(t)
        PROVE  UNCHANGED holder
    <3>1. UNCHANGED <<busy, owner>>
      BY <2>4 DEF Step, Call, AcquireCall, YieldTest, YieldCall, FutexInterrupted, Proceed,
           Condvar, FutexSleep, FutexAgain, Bump, Acquiring, AcquireLock,
           AcquireWait, AcquireRelock, ReleaseWake, Yielding, YieldLock,
           YieldNobody, YieldWake, YieldRelock, YieldWait
    <3> QED
      BY <3>1
  <2> QED
    BY <2>1, <2>2, <2>3, <2>4 DEF Next, Step
<1> QED
  BY <1>1, <1>2, InvariantIInv, PTL DEF Spec, RefinesRuntimeLock, Abstract!Spec
================================================================================
