------------------------------- MODULE SyncProofs -------------------------------
(***************************************************************************)
(* Proofs about mutexes and condition variables, for every set of threads  *)
(* and of conditions: the order of the two locks, what a signal does to    *)
(* the threads that wait, and that sync.c implements [Monitor].            *)
(***************************************************************************)
EXTENDS Sync, TLAPS

\* The threads that have the runtime lock by the code they are in.
InRuntime(t) == pc[t] \in {"run", "wakeone", "wakeall"}

RuntimeInv == \A t \in Threads : InRuntime(t) <=> runtime = t

\* A call about a condition knows which one.
CondInv ==
  \A t \in Threads :
    pc[t] \in {"wait", "futex", "asleep", "woken", "wakeone", "wakeall"}
      => cond[t] \in Conditions

(***************************************************************************)
(* Between the increment and FUTEX_WAKE of a proper signal, the signalling *)
(* thread has both locks: nobody can begin to wait, nobody whose value of  *)
(* the counter is still current is about to sleep on the condition, and    *)
(* the threads asleep on it are among those that waited when the signal    *)
(* began.  Those are still in custom_condvar_wait.                         *)
(***************************************************************************)
DueInv ==
  \A t \in Threads : due[t] # {} =>
    /\ owner = t
    /\ pc[t] \in {"wakeone", "wakeall"}
    /\ \A u \in Threads : pc[u] # "wait"
    /\ \A u \in fresh : cond[u] # cond[t]
    /\ Asleep(cond[t]) \subseteq due[t]
    /\ \A u \in due[t] : /\ u \notin fresh
                         /\ pc[u] \in {"futex", "asleep", "woken"}
                         /\ cond[u] = cond[t]

IInv ==
  /\ TypeOK
  /\ RuntimeInv
  /\ CondInv
  /\ DueInv
--------------------------------------------------------------------------------
Step(t) == EnterBlockingSection(t) \/ FutexInterrupted(t) \/ Proceed(t) \/ Call(t)

LEMMA InitIInv == Init => IInv
BY SyncAssumption
   DEF Init, IInv, TypeOK, Points, RuntimeInv, InRuntime, CondInv, DueInv

(***************************************************************************)
(* Every step preserves the types, who has the runtime lock and which      *)
(* condition a call is about.                                              *)
(***************************************************************************)
LEMMA TypeStep ==
  ASSUME TypeOK, NEW t \in Threads, Step(t)
  PROVE  TypeOK'
<1> USE SyncAssumption DEF TypeOK, Points, Goto, About
<1>1. CASE EnterBlockingSection(t) \/ FutexInterrupted(t)
  BY <1>1 DEF EnterBlockingSection, FutexInterrupted
<1>2. CASE Proceed(t)
  <2>1. CASE LeaveBlockingSection(t) \/ MutexLock(t) \/ MutexLockFails(t) \/ WaitRelock(t)
    BY <2>1 DEF LeaveBlockingSection, MutexLock, MutexLockFails, WaitRelock
  <2>2. CASE WaitUnlock(t) \/ FutexSleep(t) \/ FutexAgain(t)
    BY <2>2 DEF WaitUnlock, FutexSleep, FutexAgain
  <2>3. CASE WakeOne(t)
    BY <2>3 DEF WakeOne, WakeDone, Asleep
  <2>4. CASE WakeAll(t)
    BY <2>4 DEF WakeAll, WakeDone, Asleep
  <2> QED
    BY <1>2, <2>1, <2>2, <2>3, <2>4 DEF Proceed
<1>3. CASE Call(t)
  <2>1. CASE MutexTrylock(t) \/ MutexBlock(t) \/ MutexUnlock(t)
    BY <2>1 DEF MutexTrylock, MutexBlock, MutexUnlock
  <2>2. ASSUME NEW c \in Conditions, ConditionWait(t, c)
        PROVE  TypeOK'
    BY <2>2 DEF ConditionWait
  <2>3. ASSUME NEW c \in Conditions, NEW p \in {"wakeone", "wakeall"}, Increment(t, c, p)
        PROVE  TypeOK'
    BY <2>3 DEF Increment, Suspended, Asleep
  <2> QED
    BY <1>3, <2>1, <2>2, <2>3 DEF Call
<1> QED
  BY <1>1, <1>2, <1>3 DEF Step

LEMMA RuntimeStep ==
  ASSUME TypeOK, RuntimeInv, NEW t \in Threads, Step(t)
  PROVE  RuntimeInv'
<1> USE SyncAssumption DEF TypeOK, RuntimeInv, InRuntime, Goto
<1>1. CASE EnterBlockingSection(t) \/ FutexInterrupted(t)
  BY <1>1 DEF EnterBlockingSection, FutexInterrupted
<1>2. CASE Proceed(t)
  <2>1. CASE LeaveBlockingSection(t) \/ MutexLock(t) \/ MutexLockFails(t) \/ WaitRelock(t)
    BY <2>1 DEF LeaveBlockingSection, MutexLock, MutexLockFails, WaitRelock
  <2>2. CASE WaitUnlock(t) \/ FutexSleep(t) \/ FutexAgain(t)
    BY <2>2 DEF WaitUnlock, FutexSleep, FutexAgain
  <2>3. CASE WakeOne(t)
    BY <2>3 DEF WakeOne, WakeDone, Asleep
  <2>4. CASE WakeAll(t)
    BY <2>4 DEF WakeAll, WakeDone, Asleep
  <2> QED
    BY <1>2, <2>1, <2>2, <2>3, <2>4 DEF Proceed
<1>3. CASE Call(t)
  <2>1. CASE MutexTrylock(t) \/ MutexBlock(t) \/ MutexUnlock(t)
    BY <2>1 DEF MutexTrylock, MutexBlock, MutexUnlock
  <2>2. ASSUME NEW c \in Conditions, ConditionWait(t, c)
        PROVE  RuntimeInv'
    BY <2>2 DEF ConditionWait
  <2>3. ASSUME NEW c \in Conditions, NEW p \in {"wakeone", "wakeall"}, Increment(t, c, p)
        PROVE  RuntimeInv'
    BY <2>3 DEF Increment
  <2> QED
    BY <1>3, <2>1, <2>2, <2>3 DEF Call
<1> QED
  BY <1>1, <1>2, <1>3 DEF Step

LEMMA CondStep ==
  ASSUME TypeOK, CondInv, NEW t \in Threads, Step(t)
  PROVE  CondInv'
<1> USE DEF TypeOK, CondInv, Goto, About
<1>1. CASE EnterBlockingSection(t) \/ FutexInterrupted(t)
  BY <1>1 DEF EnterBlockingSection, FutexInterrupted
<1>2. CASE Proceed(t)
  <2>1. CASE LeaveBlockingSection(t) \/ MutexLock(t) \/ MutexLockFails(t) \/ WaitRelock(t)
    BY <2>1 DEF LeaveBlockingSection, MutexLock, MutexLockFails, WaitRelock
  <2>2. CASE WaitUnlock(t) \/ FutexSleep(t) \/ FutexAgain(t)
    BY <2>2 DEF WaitUnlock, FutexSleep, FutexAgain
  <2>3. CASE WakeOne(t)
    BY <2>3 DEF WakeOne, WakeDone, Asleep
  <2>4. CASE WakeAll(t)
    BY <2>4 DEF WakeAll, WakeDone, Asleep
  <2> QED
    BY <1>2, <2>1, <2>2, <2>3, <2>4 DEF Proceed
<1>3. CASE Call(t)
  <2>1. CASE MutexTrylock(t) \/ MutexBlock(t) \/ MutexUnlock(t)
    BY <2>1 DEF MutexTrylock, MutexBlock, MutexUnlock
  <2>2. ASSUME NEW c \in Conditions, ConditionWait(t, c)
        PROVE  CondInv'
    BY <2>2 DEF ConditionWait
  <2>3. ASSUME NEW c \in Conditions, NEW p \in {"wakeone", "wakeall"}, Increment(t, c, p)
        PROVE  CondInv'
    BY <2>3 DEF Increment
  <2> QED
    BY <1>3, <2>1, <2>2, <2>3 DEF Call
<1> QED
  BY <1>1, <1>2, <1>3 DEF Step

--------------------------------------------------------------------------------
(***************************************************************************)
(* A proper signal in progress is undisturbed by the other threads, which  *)
(* have neither the mutex nor the runtime lock.                            *)
(***************************************************************************)
LEMMA DueStep ==
  ASSUME TypeOK, RuntimeInv, DueInv, NEW t \in Threads, Step(t)
  PROVE  DueInv'
<1> USE SyncAssumption DEF TypeOK, RuntimeInv, InRuntime, DueInv, Asleep, Goto, About
<1>1. CASE EnterBlockingSection(t) \/ FutexInterrupted(t)
  BY <1>1 DEF EnterBlockingSection, FutexInterrupted
<1>2. CASE Proceed(t)
  <2>1. CASE LeaveBlockingSection(t)
    BY <2>1 DEF LeaveBlockingSection
  <2>2. CASE MutexLock(t) \/ MutexLockFails(t) \/ WaitRelock(t)
    BY <2>2 DEF MutexLock, MutexLockFails, WaitRelock
  <2>3. CASE WaitUnlock(t)
    BY <2>3 DEF WaitUnlock
  <2>4. CASE FutexSleep(t) \/ FutexAgain(t)
    BY <2>4 DEF FutexSleep, FutexAgain
  <2>5. CASE WakeOne(t) \/ WakeAll(t)
    <3>1. \A u \in Threads : due'[u] = {}
      BY <2>5 DEF WakeOne, WakeAll, WakeDone
    <3> QED
      BY <3>1
  <2> QED
    BY <1>2, <2>1, <2>2, <2>3, <2>4, <2>5 DEF Proceed
<1>3. CASE Call(t)
  <2>1. CASE MutexTrylock(t) \/ MutexBlock(t) \/ MutexUnlock(t)
    BY <2>1 DEF MutexTrylock, MutexBlock, MutexUnlock
  <2>2. ASSUME NEW c \in Conditions, ConditionWait(t, c)
        PROVE  DueInv'
    BY <2>2 DEF ConditionWait
  <2>3. ASSUME NEW c \in Conditions, NEW p \in {"wakeone", "wakeall"}, Increment(t, c, p)
        PROVE  DueInv'
    \* The other threads have no signal in progress: they have not the runtime lock.
    <3>1. \A u \in Threads : u # t => due'[u] = {}
      BY <2>3 DEF Increment
    <3>2. CASE Proper(t)
      BY <2>3, <3>1, <3>2 DEF Increment, Proper, Suspended
    <3>3. CASE ~Proper(t)
      BY <2>3, <3>1, <3>3 DEF Increment
    <3> QED
      BY <3>2, <3>3
  <2> QED
    BY <1>3, <2>1, <2>2, <2>3 DEF Call
<1> QED
  BY <1>1, <1>2, <1>3 DEF Step

LEMMA NextIInv == IInv /\ [Next]_vars => IInv'
<1> SUFFICES ASSUME IInv, [Next]_vars PROVE IInv'
  OBVIOUS
<1>1. CASE UNCHANGED vars
  BY <1>1 DEF vars, IInv, TypeOK, RuntimeInv, InRuntime, CondInv, DueInv, Asleep
<1>2. ASSUME NEW t \in Threads, Step(t)
      PROVE  IInv'
  BY <1>2, TypeStep, RuntimeStep, CondStep, DueStep DEF IInv
<1> QED
  BY <1>1, <1>2 DEF Next, Step

LEMMA InvariantIInv == Spec => []IInv
BY InitIInv, NextIInv, PTL DEF Spec

--------------------------------------------------------------------------------
(***************************************************************************)
(* The properties.                                                         *)
(***************************************************************************)

\* Mutex.lock gives up the runtime lock before it blocks, and Condition.wait
\* takes the mutex before the runtime lock: whoever waits for the mutex has not
\* the runtime lock its owner needs.
THEOREM LocksAreOrdered == Spec => []LocksOrdered
<1>1. IInv => LocksOrdered
  BY SyncAssumption DEF IInv, LocksOrdered, NoCircularWait, RuntimeInv, InRuntime
<1> QED
  BY <1>1, InvariantIInv, PTL

\* Condition.signal called with the mutex restarts a thread that waited when it
\* was called, and Condition.broadcast all of them, however the two steps of the
\* signal and those of custom_condvar_wait interleave.
THEOREM SignalsRestart == Spec => SignalRestarts
<1> DEFINE Restarts ==
      \A t \in Threads :
        /\ WakeOne(t) /\ due[t] # {} => \E u \in due[t] : Restarted(u)'
        /\ WakeAll(t) => \A u \in due[t] : Restarted(u)'
<1>1. ASSUME IInv, [Next]_vars
      PROVE  [Restarts]_vars
  <2>1. ASSUME NEW t \in Threads, WakeOne(t), due[t] # {}
        PROVE  \E u \in due[t] : Restarted(u)'
    <3> USE <1>1, <2>1 DEF IInv, TypeOK, DueInv, WakeOne, WakeDone, Restarted
    <3>1. CASE Asleep(cond[t]) = {} /\ Goto(t, "run")
      BY <3>1 DEF Goto, Asleep
    <3>2. ASSUME NEW u \in Asleep(cond[t]), pc' = [pc EXCEPT ![u] = "woken", ![t] = "run"]
          PROVE  \E v \in due[t] : Restarted(v)'
      <4>1. u \in due[t] /\ Restarted(u)'
        BY <3>2 DEF Asleep
      <4> QED
        BY <4>1
    <3> QED
      BY <3>1, <3>2
  <2>2. ASSUME NEW t \in Threads, WakeAll(t), NEW u \in due[t]
        PROVE  Restarted(u)'
    BY <1>1, <2>2 DEF IInv, TypeOK, DueInv, WakeAll, WakeDone, Restarted, Asleep
  <2> QED
    BY <2>1, <2>2
<1> QED
  BY <1>1, InvariantIInv, PTL DEF Spec, SignalRestarts
--------------------------------------------------------------------------------
(***************************************************************************)
(* The refinement.  A step of Sync is seen by the users of the mutex and   *)
(* of the conditions through [owner], [waiting] and [woken].               *)
(***************************************************************************)

\* Waiting for the mutex or for the runtime lock, running and going to sleep
\* change none of them.
LEMMA StepUnseen ==
  ASSUME IInv, NEW t \in Threads,
         \/ EnterBlockingSection(t) \/ LeaveBlockingSection(t) \/ MutexBlock(t)
         \/ MutexLockFails(t) \/ FutexSleep(t) \/ FutexAgain(t)
         \/ \E c \in Conditions : ConditionWait(t, c)
  PROVE  UNCHANGED <<owner, waiting, woken>>
<1> USE DEF IInv, TypeOK, RuntimeInv, InRuntime, Goto, About
<1>1. CASE EnterBlockingSection(t) \/ MutexBlock(t) \/ MutexLockFails(t)
  BY <1>1 DEF EnterBlockingSection, MutexBlock, MutexLockFails, waiting, woken,
       Suspended, Asleep
<1>2. CASE LeaveBlockingSection(t)
  BY <1>2 DEF LeaveBlockingSection, waiting, woken, Suspended, Asleep
<1>3. CASE FutexSleep(t)
  BY <1>3 DEF FutexSleep, waiting, woken, Suspended, Asleep
<1>4. CASE FutexAgain(t)
  BY <1>4 DEF FutexAgain, waiting, woken, Suspended, Asleep
<1>5. ASSUME NEW c \in Conditions, ConditionWait(t, c)
      PROVE  UNCHANGED <<owner, waiting, woken>>
  BY <1>5 DEF ConditionWait, waiting, woken, Suspended, Asleep
<1> QED
  BY <1>1, <1>2, <1>3, <1>4, <1>5

\* Mutex.lock, at once or after blocking, and Mutex.unlock.
LEMMA StepMutex ==
  ASSUME IInv, NEW t \in Threads, MutexTrylock(t) \/ MutexLock(t) \/ MutexUnlock(t)
  PROVE  Abstract!Lock(t) \/ Abstract!Unlock(t)
<1> USE DEF IInv, TypeOK, Goto, Abstract!Lock, Abstract!Unlock, Abstract!Awake,
      waiting, woken, Suspended, Asleep
<1>1. CASE MutexTrylock(t) \/ MutexUnlock(t)
  BY <1>1 DEF MutexTrylock, MutexUnlock
<1>2. CASE MutexLock(t)
  BY <1>2 DEF MutexLock
<1> QED
  BY <1>1, <1>2

\* The atomic step of Condition.wait is the read of the counter with the mutex.
LEMMA StepWait ==
  ASSUME IInv, NEW t \in Threads, WaitUnlock(t)
  PROVE  cond[t] \in Conditions /\ Abstract!Wait(t, cond[t])
<1> USE DEF IInv, TypeOK, CondInv, WaitUnlock, Goto
<1>1. cond[t] \in Conditions
  OBVIOUS
<1>2. Abstract!Awake(t)
  BY DEF Abstract!Awake, waiting, woken, Suspended, Asleep
<1>3. waiting' = [waiting EXCEPT ![cond[t]] = @ \cup {t}]
  BY <1>1 DEF waiting, Suspended, Asleep
<1>4. woken' = woken
  BY DEF woken
<1> QED
  BY <1>1, <1>2, <1>3, <1>4 DEF Abstract!Wait

LEMMA StepRelock ==
  ASSUME IInv, NEW t \in Threads, WaitRelock(t)
  PROVE  Abstract!Relock(t)
BY DEF IInv, TypeOK, WaitRelock, Goto, Abstract!Relock, waiting, woken, Suspended, Asleep

\* Threads of S that leave FUTEX_WAIT, or will find the counter changed, are
\* woken up.
LEMMA StepWake ==
  ASSUME TypeOK, NEW c \in Conditions, NEW S \in SUBSET Suspended(c), UNCHANGED owner,
         \A d \in Conditions : Suspended(d)' = IF d = c THEN Suspended(c) \ S ELSE Suspended(d),
         woken' = woken \cup S
  PROVE  Abstract!Restart(c)
<1>1. S \in SUBSET waiting[c]
  BY DEF waiting
<1>2. waiting' = [waiting EXCEPT ![c] = @ \ S]
  BY DEF waiting
<1> QED
  BY <1>1, <1>2 DEF Abstract!Restart, Abstract!Wake

LEMMA StepRestart ==
  ASSUME IInv, NEW t \in Threads,
         \/ FutexInterrupted(t) \/ WakeOne(t) \/ WakeAll(t)
         \/ \E c \in Conditions : Increment(t, c, "wakeone") \/ Increment(t, c, "wakeall")
  PROVE  \E c \in Conditions : Abstract!Restart(c)
<1> USE DEF IInv, TypeOK, RuntimeInv, InRuntime, CondInv, Goto, About
<1>1. CASE FutexInterrupted(t)
  <2> DEFINE c == cond[t]
  <2>1. c \in Conditions /\ {t} \in SUBSET Suspended(c)
    BY <1>1 DEF FutexInterrupted, Suspended, Asleep
  <2>2. \A d \in Conditions : Suspended(d)' = IF d = c THEN Suspended(c) \ {t} ELSE Suspended(d)
    BY <1>1 DEF FutexInterrupted, Suspended, Asleep
  <2>3. woken' = woken \cup {t}
    BY <1>1 DEF FutexInterrupted, woken
  <2> QED
    BY <1>1, <2>1, <2>2, <2>3, StepWake DEF FutexInterrupted
<1>2. CASE WakeOne(t)
  <2> DEFINE c == cond[t]
  <2>1. c \in Conditions /\ UNCHANGED owner
    BY <1>2 DEF WakeOne, WakeDone
  <2>2. CASE Asleep(c) = {} /\ Goto(t, "run")
    <3>1. \A d \in Conditions : Suspended(d)' = IF d = c THEN Suspended(c) \ {} ELSE Suspended(d)
      BY <1>2, <2>2 DEF WakeOne, WakeDone, Suspended, Asleep
    <3>2. woken' = woken \cup {}
      BY <1>2, <2>2 DEF WakeOne, WakeDone, woken
    <3> QED
      BY <2>1, <3>1, <3>2, StepWake
  <2>3. ASSUME NEW u \in Asleep(c), pc' = [pc EXCEPT ![u] = "woken", ![t] = "run"]
        PROVE  \E d \in Conditions : Abstract!Restart(d)
    <3>1. {u} \in SUBSET Suspended(c) /\ u \in Threads /\ u # t
      BY <1>2, <2>3 DEF WakeOne, Suspended, Asleep
    <3>2. \A d \in Conditions : Suspended(d)' = IF d = c THEN Suspended(c) \ {u} ELSE Suspended(d)
      BY <1>2, <2>3, <3>1 DEF WakeOne, WakeDone, Suspended, Asleep
    <3>3. woken' = woken \cup {u}
      BY <1>2, <2>3, <3>1 DEF WakeOne, WakeDone, woken, Asleep
    <3> QED
      BY <2>1, <3>1, <3>2, <3>3, StepWake
  <2> QED
    BY <1>2, <2>2, <2>3 DEF WakeOne
<1>3. CASE WakeAll(t)
  <2> DEFINE c == cond[t]
  <2>1. c \in Conditions /\ UNCHANGED owner /\ Asleep(c) \in SUBSET Suspended(c)
    BY <1>3 DEF WakeAll, WakeDone, Suspended
  <2>2. \A d \in Conditions :
          Suspended(d)' = IF d = c THEN Suspended(c) \ Asleep(c) ELSE Suspended(d)
    BY <1>3 DEF WakeAll, WakeDone, Suspended, Asleep
  <2>3. woken' = woken \cup Asleep(c)
    BY <1>3 DEF WakeAll, WakeDone, woken, Asleep
  <2> QED
    BY <2>1, <2>2, <2>3, StepWake
<1>4. ASSUME NEW c \in Conditions, NEW p \in {"wakeone", "wakeall"}, Increment(t, c, p)
      PROVE  Abstract!Restart(c)
  <2> DEFINE S == {u \in fresh : cond[u] = c}
  <2>1. UNCHANGED owner /\ S \in SUBSET Suspended(c)
    BY <1>4 DEF Increment, Suspended
  <2>2. \A d \in Conditions : Suspended(d)' = IF d = c THEN Suspended(c) \ S ELSE Suspended(d)
    BY <1>4 DEF Increment, Suspended, Asleep
  <2>3. woken' = woken \cup S
    BY <1>4 DEF Increment, woken
  <2> QED
    BY <2>1, <2>2, <2>3, StepWake
<1> QED
  BY <1>1, <1>2, <1>3, <1>4

\* Whatever the calls and their order, runtime/sync.c on the condition variables
\* of sync_posix.h does what mutex.mli and condition.mli promise: a wait unlocks
\* the mutex and suspends the thread in one step, and has the mutex again when it
\* returns.
THEOREM ImplementsMonitor == Spec => RefinesMonitor
<1>1. Init => Abstract!Init
  BY DEF Init, Abstract!Init, waiting, woken, Suspended, Asleep
<1>2. IInv /\ [Next]_vars => [Abstract!Next]_(Abstract!vars)
  <2> SUFFICES ASSUME IInv, [Next]_vars
               PROVE  Abstract!Next \/ UNCHANGED <<owner, waiting, woken>>
    BY DEF Abstract!vars
  <2>1. CASE UNCHANGED vars
    BY <2>1 DEF vars, waiting, woken, Suspended, Asleep
  <2>2. ASSUME NEW t \in Threads, Step(t)
        PROVE  Abstract!Next \/ UNCHANGED <<owner, waiting, woken>>
    BY <2>2, StepUnseen, StepMutex, StepWait, StepRelock, StepRestart
       DEF Step, Proceed, Call, Abstract!Next
  <2> QED
    BY <2>1, <2>2 DEF Next, Step
<1> QED
  BY <1>1, <1>2, InvariantIInv, PTL DEF Spec, RefinesMonitor, Abstract!Spec
================================================================================
