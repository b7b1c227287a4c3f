---------------------------- MODULE SemaphoreProofs ----------------------------
(***************************************************************************)
(* Proofs about semaphores, for every finite set of threads, every value   *)
(* of make and every max_int.                                              *)
(***************************************************************************)
EXTENDS Semaphore, FiniteSetTheorems, TLAPS

\* The mutex belongs to the thread that is between its lock and its unlock.
OwnerInv ==
  \A t \in Threads : owner = t <=> pc[t] \in {"acquiring", "trying", "releasing"}

\* The threads in Condition.wait are those that the condition knows.
SuspendedInv ==
  /\ \A t \in Threads : pc[t] = "suspended" <=> t \in waiting[nonzero] \cup woken
  /\ waiting[nonzero] \cap woken = {}

\* In a semaphore used as a lock a thread asks for a token only when it has none,
\* and gives one back only when it has one.
InsideInv ==
  aslock => \A t \in Threads :
    /\ pc[t] \in {"release", "releasing"} => t \in inside
    /\ pc[t] \in {"acquire", "try", "acquiring", "trying", "suspended"} => t \notin inside

InitialInv == binary => initial <= 1

(***************************************************************************)
(* A thread that acquires and has the mutex takes the token that it was    *)
(* woken up for, or found none: it counts with the threads woken up.       *)
(***************************************************************************)
Due == Cardinality(woken) + (IF \E t \in Threads : pc[t] = "acquiring" THEN 1 ELSE 0)

StrandedInv == waiting[nonzero] # {} => Due >= v

IInv ==
  /\ TypeOK
  /\ OwnerInv
  /\ SuspendedInv
  /\ InsideInv
  /\ InitialInv
  /\ TokensConserved
  /\ StrandedInv

--------------------------------------------------------------------------------
LEMMA InitIInv == Init => IInv
<1> SUFFICES ASSUME Init PROVE IInv
  OBVIOUS
<1> USE SemaphoreAssumption DEF Init, Monitor!Init
<1>1. TypeOK
  BY DEF TypeOK, Points, Conditions
<1>2. OwnerInv /\ InsideInv /\ InitialInv
  BY DEF OwnerInv, InsideInv, InitialInv
<1>3. SuspendedInv /\ StrandedInv
  BY DEF SuspendedInv, StrandedInv, Conditions
<1>4. TokensConserved
  BY FS_EmptySet DEF TokensConserved
<1> QED
  BY <1>1, <1>2, <1>3, <1>4 DEF IInv

(***************************************************************************)
(* Every step preserves the types, the mutex and the states of the         *)
(* threads.                                                                *)
(***************************************************************************)
LEMMA LockedPoints == /\ DOMAIN Locked = {"acquire", "try", "release"}
                      /\ Locked["acquire"] = "acquiring"
                      /\ Locked["try"] = "trying"
                      /\ Locked["release"] = "releasing"
BY DEF Locked

\* A token is taken only where there is one: the two ways to write it agree.
LEMMA TakeOne ==
  ASSUME TypeOK, NEW t \in Threads, Take(t)
  PROVE  v' = v - 1
BY SemaphoreAssumption DEF TypeOK, Take

LEMMA TypeStep == ASSUME TypeOK, Next PROVE TypeOK'
<1> USE SemaphoreAssumption, LockedPoints DEF TypeOK, Points, Goto, Conditions, kind
<1>1. ASSUME NEW t \in Threads, NEW p \in DOMAIN Locked, Call(t, p)
      PROVE  TypeOK'
  BY <1>1 DEF Call
<1>2. ASSUME NEW t \in Threads, Lock(t)
      PROVE  TypeOK'
  BY <1>2 DEF Lock, Monitor!Lock
<1>3. ASSUME NEW t \in Threads, AcquireWait(t)
      PROVE  TypeOK'
  BY <1>3 DEF AcquireWait, Monitor!Wait
<1>4. ASSUME NEW t \in Threads, AcquireRestart(t)
      PROVE  TypeOK'
  BY <1>4 DEF AcquireRestart, Monitor!Relock
<1>5. ASSUME NEW t \in Threads, AcquireTake(t) \/ TryTake(t)
      PROVE  TypeOK'
  BY <1>5 DEF AcquireTake, TryTake, Take, Monitor!Unlock
<1>6. ASSUME NEW t \in Threads, TryFail(t) \/ ReleaseOverflow(t)
      PROVE  TypeOK'
  BY <1>6 DEF TryFail, ReleaseOverflow, Monitor!Unlock
<1>7. ASSUME NEW t \in Threads, Release(t)
      PROVE  TypeOK'
  BY <1>7 DEF Release, SignalAndUnlock
<1>8. CASE Spurious
  BY <1>8 DEF Spurious, Monitor!Wake
<1> QED
  BY <1>1, <1>2, <1>3, <1>4, <1>5, <1>6, <1>7, <1>8
     DEF Next, Acquiring, Trying, Releasing

LEMMA OwnerStep == ASSUME TypeOK, OwnerInv, Next PROVE OwnerInv'
<1> USE SemaphoreAssumption, LockedPoints DEF TypeOK, OwnerInv, Goto
<1>1. ASSUME NEW t \in Threads, NEW p \in DOMAIN Locked, Call(t, p)
      PROVE  OwnerInv'
  BY <1>1 DEF Call
<1>2. ASSUME NEW t \in Threads, Lock(t)
      PROVE  OwnerInv'
  BY <1>2 DEF Lock, Monitor!Lock
<1>3. ASSUME NEW t \in Threads, AcquireWait(t)
      PROVE  OwnerInv'
  BY <1>3 DEF AcquireWait, Monitor!Wait
<1>4. ASSUME NEW t \in Threads, AcquireRestart(t)
      PROVE  OwnerInv'
  BY <1>4 DEF AcquireRestart, Monitor!Relock
<1>5. ASSUME NEW t \in Threads, AcquireTake(t) \/ TryTake(t)
      PROVE  OwnerInv'
  BY <1>5 DEF AcquireTake, TryTake, Take, Monitor!Unlock
<1>6. ASSUME NEW t \in Threads, TryFail(t) \/ ReleaseOverflow(t)
      PROVE  OwnerInv'
  BY <1>6 DEF TryFail, ReleaseOverflow, Monitor!Unlock
<1>7. ASSUME NEW t \in Threads, Release(t)
      PROVE  OwnerInv'
  BY <1>7 DEF Release, SignalAndUnlock
<1>8. CASE Spurious
  BY <1>8 DEF Spurious, Monitor!Wake
<1> QED
  BY <1>1, <1>2, <1>3, <1>4, <1>5, <1>6, <1>7, <1>8
     DEF Next, Acquiring, Trying, Releasing

LEMMA SuspendedStep == ASSUME TypeOK, OwnerInv, SuspendedInv, Next PROVE SuspendedInv'
<1> USE SemaphoreAssumption, LockedPoints DEF TypeOK, OwnerInv, SuspendedInv, Goto, Conditions
<1>1. ASSUME NEW t \in Threads, NEW p \in DOMAIN Locked, Call(t, p)
      PROVE  SuspendedInv'
  BY <1>1 DEF Call
<1>2. ASSUME NEW t \in Threads, Lock(t)
      PROVE  SuspendedInv'
  BY <1>2 DEF Lock, Monitor!Lock
<1>3. ASSUME NEW t \in Threads, AcquireWait(t)
      PROVE  SuspendedInv'
  BY <1>3 DEF AcquireWait, Monitor!Wait
<1>4. ASSUME NEW t \in Threads, AcquireRestart(t)
      PROVE  SuspendedInv'
  BY <1>4 DEF AcquireRestart, Monitor!Relock
<1>5. ASSUME NEW t \in Threads, AcquireTake(t) \/ TryTake(t)
      PROVE  SuspendedInv'
  BY <1>5 DEF AcquireTake, TryTake, Take, Monitor!Unlock
<1>6. ASSUME NEW t \in Threads, TryFail(t) \/ ReleaseOverflow(t)
      PROVE  SuspendedInv'
  BY <1>6 DEF TryFail, ReleaseOverflow, Monitor!Unlock
<1>7. ASSUME NEW t \in Threads, Release(t)
      PROVE  SuspendedInv'
  BY <1>7 DEF Release, SignalAndUnlock
<1>8. CASE Spurious
  BY <1>8 DEF Spurious, Monitor!Wake
<1> QED
  BY <1>1, <1>2, <1>3, <1>4, <1>5, <1>6, <1>7, <1>8
     DEF Next, Acquiring, Trying, Releasing

LEMMA InsideStep == ASSUME TypeOK, InsideInv, InitialInv, Next PROVE InsideInv' /\ InitialInv'
<1> USE LockedPoints DEF TypeOK, InsideInv, InitialInv, Goto, kind
<1>1. ASSUME NEW t \in Threads, NEW p \in DOMAIN Locked, Call(t, p)
      PROVE  (InsideInv /\ InitialInv)'
  BY <1>1 DEF Call
<1>2. ASSUME NEW t \in Threads, Lock(t)
      PROVE  (InsideInv /\ InitialInv)'
  BY <1>2 DEF Lock, Monitor!Lock
<1>3. ASSUME NEW t \in Threads, AcquireWait(t)
      PROVE  (InsideInv /\ InitialInv)'
  BY <1>3 DEF AcquireWait, Monitor!Wait
<1>4. ASSUME NEW t \in Threads, AcquireRestart(t)
      PROVE  (InsideInv /\ InitialInv)'
  BY <1>4 DEF AcquireRestart, Monitor!Relock
<1>5. ASSUME NEW t \in Threads, AcquireTake(t) \/ TryTake(t)
      PROVE  (InsideInv /\ InitialInv)'
  BY <1>5 DEF AcquireTake, TryTake, Take, Monitor!Unlock
<1>6. ASSUME NEW t \in Threads, TryFail(t) \/ ReleaseOverflow(t)
      PROVE  (InsideInv /\ InitialInv)'
  BY <1>6 DEF TryFail, ReleaseOverflow, Monitor!Unlock
<1>7. ASSUME NEW t \in Threads, Release(t)
      PROVE  (InsideInv /\ InitialInv)'
  BY <1>7 DEF Release, SignalAndUnlock
<1>8. CASE Spurious
  BY <1>8 DEF Spurious, Monitor!Wake
<1> QED
  BY <1>1, <1>2, <1>3, <1>4, <1>5, <1>6, <1>7, <1>8
     DEF Next, Acquiring, Trying, Releasing

--------------------------------------------------------------------------------
(***************************************************************************)
(* Counting tokens.                                                        *)
(***************************************************************************)
LEMMA SubsetFinite ==
  ASSUME NEW S \in SUBSET Threads
  PROVE  IsFiniteSet(S) /\ Cardinality(S) \in Nat
BY SemaphoreAssumption, FS_Subset, FS_CardinalityType

\* A thread that acquires a token has none yet, and one that releases has one.
LEMMA ConservedStep ==
  ASSUME TypeOK, InsideInv, InitialInv, TokensConserved, Next
  PROVE  TokensConserved'
<1> SUFFICES ASSUME aslock' PROVE (Cardinality(inside) + v = initial)'
  BY DEF TokensConserved
<1>1. ASSUME NEW t \in Threads, AcquireTake(t) \/ TryTake(t)
      PROVE  (Cardinality(inside) + v = initial)'
  <2>1. t \notin inside /\ aslock /\ inside' = inside \cup {t} /\ initial' = initial
    BY <1>1 DEF AcquireTake, TryTake, Take, InsideInv, kind
  <2>2. v' = v - 1
    BY <1>1, TakeOne DEF AcquireTake, TryTake
  <2>3. Cardinality(inside') = Cardinality(inside) + 1
    BY <2>1, SubsetFinite, FS_AddElement DEF TypeOK
  <2> QED
    BY <2>1, <2>2, <2>3, SubsetFinite, SemaphoreAssumption DEF TypeOK, TokensConserved
<1>2. ASSUME NEW t \in Threads, Release(t)
      PROVE  (Cardinality(inside) + v = initial)'
  <2>1. t \in inside /\ aslock /\ inside' = inside \ {t} /\ initial' = initial
    BY <1>2 DEF Release, SignalAndUnlock, InsideInv, kind
  <2>2. Cardinality(inside') = Cardinality(inside) - 1
    BY <2>1, SubsetFinite, FS_RemoveElement DEF TypeOK
  <2>3. Cardinality(inside) > 0
    BY <2>1, SubsetFinite, FS_EmptySet DEF TypeOK
  \* The binary semaphore is set to 1; as a lock it was 0.
  <2>4. v' = v + 1
    BY <1>2, <2>1, <2>3, SubsetFinite, SemaphoreAssumption
       DEF Release, TypeOK, InitialInv, TokensConserved
  <2> QED
    BY <2>1, <2>2, <2>4, SubsetFinite, SemaphoreAssumption DEF TypeOK, TokensConserved
<1>3. CASE UNCHANGED <<inside, v, kind>>
  BY <1>3 DEF TokensConserved, kind
<1> QED
  BY <1>1, <1>2, <1>3
     DEF Next, Call, Lock, Acquiring, AcquireWait, AcquireRestart, Trying, TryFail,
         Releasing, ReleaseOverflow, Spurious

\* The threads woken up, and the one that is about to look, cover the tokens.
LEMMA StrandedStep ==
  ASSUME TypeOK, OwnerInv, SuspendedInv, StrandedInv, Next
  PROVE  StrandedInv'
<1> DEFINE Looking == \E t \in Threads : pc[t] = "acquiring"
<1> USE LockedPoints DEF Goto
<1>a. /\ IsFiniteSet(woken)
      /\ Cardinality(woken) \in Nat
      /\ v \in Nat
  BY SubsetFinite, SemaphoreAssumption DEF TypeOK
<1>1. ASSUME NEW t \in Threads, NEW p \in DOMAIN Locked, Call(t, p)
      PROVE  StrandedInv'
  <2>1. Looking' <=> Looking
    BY <1>1 DEF Call, TypeOK
  <2> QED
    BY <1>1, <2>1 DEF Call, StrandedInv, Due
<1>2. ASSUME NEW t \in Threads, Lock(t)
      PROVE  StrandedInv'
  <2>1. ~Looking
    BY <1>2, SemaphoreAssumption DEF Lock, Monitor!Lock, OwnerInv
  <2> QED
    BY <1>2, <2>1, <1>a DEF Lock, Monitor!Lock, StrandedInv, Due
<1>3. ASSUME NEW t \in Threads, AcquireWait(t)
      PROVE  StrandedInv'
  BY <1>3, <1>a DEF AcquireWait, Monitor!Wait, StrandedInv, Due
<1>4. ASSUME NEW t \in Threads, AcquireRestart(t)
      PROVE  StrandedInv'
  <2>1. ~Looking /\ Looking'
    BY <1>4, SemaphoreAssumption DEF AcquireRestart, Monitor!Relock, OwnerInv, TypeOK
  <2>2. Cardinality(woken') = Cardinality(woken) - 1
    BY <1>4, <1>a, FS_RemoveElement DEF AcquireRestart, Monitor!Relock
  <2> QED
    BY <1>4, <2>1, <2>2, <1>a DEF AcquireRestart, Monitor!Relock, StrandedInv, Due
<1>5. ASSUME NEW t \in Threads, AcquireTake(t) \/ TryTake(t)
      PROVE  StrandedInv'
  <2>1. v' = v - 1
    BY <1>5, TakeOne DEF AcquireTake, TryTake
  <2> QED
    BY <1>5, <2>1, <1>a DEF AcquireTake, TryTake, Take, Monitor!Unlock, StrandedInv, Due
<1>6. ASSUME NEW t \in Threads, TryFail(t) \/ ReleaseOverflow(t)
      PROVE  StrandedInv'
  <2>1. ~Looking
    BY <1>6 DEF TryFail, ReleaseOverflow, OwnerInv, Monitor!Unlock
  <2> QED
    BY <1>6, <2>1, <1>a DEF TryFail, ReleaseOverflow, Monitor!Unlock, StrandedInv, Due, TypeOK
<1>7. ASSUME NEW t \in Threads, Release(t)
      PROVE  StrandedInv'
  <2>1. ~Looking
    BY <1>7 DEF Release, OwnerInv
  <2>2. v' \in Nat /\ v' <= v + 1
    BY <1>7, <1>a DEF Release
  <2>3. PICK S \in SUBSET waiting[nonzero] :
          /\ S # {} \/ waiting[nonzero] = {}
          /\ waiting' = [waiting EXCEPT ![nonzero] = @ \ S]
          /\ woken' = woken \cup S
    BY <1>7 DEF Release, SignalAndUnlock
  <2>4. CASE waiting[nonzero] = {}
    BY <2>3, <2>4 DEF StrandedInv, TypeOK, Conditions
  <2>5. CASE S # {}
    <3>1. IsFiniteSet(S) /\ Cardinality(S) \in Nat /\ Cardinality(S) # 0
      BY <2>5, SubsetFinite, FS_EmptySet DEF TypeOK, Conditions
    <3>2. Cardinality(woken \cap S) = 0
      <4>1. woken \cap S = {}
        BY DEF SuspendedInv
      <4> QED
        BY <4>1, FS_EmptySet
    <3>3. Cardinality(woken') = Cardinality(woken) + Cardinality(S)
      <4>1. Cardinality(woken \cup S) =
              Cardinality(woken) + Cardinality(S) - Cardinality(woken \cap S)
        BY <3>1, <1>a, FS_Union
      <4> QED
        BY <2>3, <3>1, <3>2, <4>1, <1>a
    <3>4. Cardinality(woken') \in Nat /\ Cardinality(woken') >= Cardinality(woken) + 1
      BY <3>1, <3>3, <1>a
    <3>5. waiting[nonzero] # {}
      BY <2>5
    <3> QED
      BY <2>1, <2>2, <3>4, <3>5, <1>a DEF StrandedInv, Due
  <2> QED
    BY <2>3, <2>4, <2>5
<1>8. CASE Spurious
  <2>1. PICK t \in waiting[nonzero] : Monitor!Wake(nonzero, {t})
    BY <1>8 DEF Spurious
  <2>2. Cardinality(woken') = Cardinality(woken) + 1
    BY <2>1, <1>a, FS_AddElement DEF Monitor!Wake, SuspendedInv
  <2> QED
    BY <1>8, <2>1, <2>2, <1>a DEF Spurious, StrandedInv, Due
<1> QED
  BY <1>1, <1>2, <1>3, <1>4, <1>5, <1>6, <1>7, <1>8
     DEF Next, Acquiring, Trying, Releasing

LEMMA NextIInv == IInv /\ [Next]_vars => IInv'
<1> SUFFICES ASSUME IInv, [Next]_vars PROVE IInv'
  OBVIOUS
<1>1. CASE UNCHANGED vars
  BY <1>1 DEF vars, kind, IInv, TypeOK, OwnerInv, SuspendedInv, InsideInv, InitialInv,
       TokensConserved, StrandedInv, Due
<1>2. CASE Next
  BY <1>2, TypeStep, OwnerStep, SuspendedStep, InsideStep, ConservedStep, StrandedStep
     DEF IInv
<1> QED
  BY <1>1, <1>2

LEMMA InvariantIInv == Spec => []IInv
BY InitIInv, NextIInv, PTL DEF Spec

--------------------------------------------------------------------------------
\* acquire, try_acquire and release of semaphore.ml neither lose nor invent a
\* token of a semaphore used as a lock, release never passes max_int, and no token
\* lies idle while a thread sleeps in acquire, because every release signals.
THEOREM TokensAreAccounted == Spec => []TokensAccounted
<1>1. IInv => TokensAccounted
  <2> SUFFICES ASSUME IInv PROVE NoTokenStranded
    BY DEF IInv, TokensAccounted
  <2>1. SUFFICES ASSUME waiting[nonzero] # {}, owner = NoThread
                 PROVE  Cardinality(woken) >= v
    BY DEF NoTokenStranded
  <2>2. ~\E t \in Threads : pc[t] = "acquiring"
    BY <2>1, SemaphoreAssumption DEF IInv, OwnerInv
  <2>3. Cardinality(woken) \in Nat
    BY SubsetFinite DEF IInv, TypeOK
  <2> QED
    BY <2>1, <2>2, <2>3 DEF IInv, StrandedInv, Due
<1> QED
  BY <1>1, InvariantIInv, PTL
================================================================================
