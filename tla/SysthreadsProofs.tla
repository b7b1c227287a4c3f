---------------------------- MODULE SysthreadsProofs ----------------------------
(***************************************************************************)
(* Proofs about the threads of a domain, for every set of threads and      *)
(* locking schemes, fork included.                                         *)
(***************************************************************************)
EXTENDS Systhreads, FiniteSetTheorems, TLAPS

\* Every lock that a thread will release is its own.
LockInv ==
  \A t \in Threads :
    /\ pc[t] \in {"verify", "yielded", "giveback"} => held[s[t]] = t
    /\ pc[t] \in {"run", "tickjoin"} => held[scheme] = t

\* The info blocks of the registered threads are linked both ways.
ListInv ==
  \A t \in Threads :
    Registered(t) =>
      /\ next[t] \in Threads /\ Registered(next[t]) /\ prev[next[t]] = t
      /\ prev[t] \in Threads /\ Registered(prev[t]) /\ next[prev[t]] = t

\* What stop_tick_thread goes back to.
TickJoinInv ==
  \A t \in Threads :
    pc[t] = "tickjoin" =>
      \/ k[t] = "disable" /\ active = t
      \/ k[t] \in {"stop", "unregister"} /\ active = NoThread /\ next[t] = t

\* The continuations of thread_lock_acquire.
ContinuationInv ==
  \A t \in Threads :
    pc[t] \in {"load", "lock", "verify", "giveback"} =>
      k[t] \in {"start", "leave", "switch", "yield", "register", "unregister"}

\* A registered thread that does not run has its state in its info block.
SavedInv ==
  \A t \in Threads :
    Registered(t) /\ pc[t] \notin {"run", "tickjoin"} => saved[t] = t

ActiveInv ==
  /\ active # NoThread => Registered(active)
  /\ CamlStateSetUp

IInv ==
  /\ TypeOK
  /\ LockInv
  /\ ListInv
  /\ TickJoinInv
  /\ ContinuationInv
  /\ SavedInv
  /\ ActiveInv

\* The steps of thread t.
StepOf(t) ==
  \/ Acquiring(t) \/ Arriving(t) \/ Running(t) \/ LeaveBlockingSection(t)
  \/ PollInterrupt(t) \/ TickJoined(t) \/ ThreadStop(t)
  \/ RegisterCall(t) \/ UnregisterCall(t)

LEMMA NextSteps ==
  Next => (\E t \in Threads : StepOf(t)) \/ TickTests \/ TickFires
BY DEF Next, StepOf, Threads

--------------------------------------------------------------------------------
LEMMA TickTypeStep ==
  ASSUME TickTypeOK, NEW t \in Threads, StepOf(t)
  PROVE  TickTypeOK'
<1> USE DEF TickTypeOK, ticks
<1>1. CASE UNCHANGED ticks
  BY <1>1
<1>2. ASSUME NEW may, StartTick(may) PROVE TickTypeOK'
  BY <1>2 DEF StartTick
<1>3. ASSUME NEW c, RemoveLastStopsTick(t, c) PROVE TickTypeOK'
  BY <1>3 DEF RemoveLastStopsTick, StopTickThen
<1>4. CASE PollInterrupt(t)
  BY <1>4 DEF PollInterrupt
<1>5. CASE EnableTick(t)
  BY <1>5 DEF EnableTick
<1>6. CASE DisableTick(t)
  <2>1. CASE ~tick_running /\ tick_disabled' = TRUE /\ UNCHANGED tick_stop
    BY <1>6, <2>1 DEF DisableTick
  <2>2. CASE StopTickThen(t, "disable") /\ UNCHANGED tick_disabled
    BY <1>6, <2>2 DEF DisableTick, StopTickThen
  <2> QED
    BY <1>6, <2>1, <2>2 DEF DisableTick
<1>7. CASE Fork(t)
  BY <1>7 DEF Fork
<1>8. CASE TickJoined(t)
  BY <1>8 DEF TickJoined
<1>9. CASE Arriving(t) \/ ThreadStop(t)
  BY <1>1, <1>2, <1>3, <1>9 DEF Arriving, Resume, YieldReturns, Register,
       RegisterFails, Unregister, ThreadStop
<1>10. CASE Running(t)
  BY <1>1, <1>2, <1>5, <1>6, <1>7, <1>10 DEF Running, EnterBlockingSection,
       Yield, SwitchScheme, ThreadNew, TickNotCreated
<1>11. CASE Acquiring(t) \/ LeaveBlockingSection(t) \/ RegisterCall(t) \/ UnregisterCall(t)
  BY <1>1, <1>11 DEF Acquiring, LoadScheme, LockScheme, WrongScheme, GiveBack,
       YieldLock, YieldRetries, LeaveBlockingSection, RegisterCall, UnregisterCall
<1> QED
  BY <1>4, <1>8, <1>9, <1>10, <1>11 DEF StepOf

LEMMA ThreadTypeStep ==
  ASSUME ThreadTypeOK, NEW t \in Threads, StepOf(t), pc[t] = "run" => active = t,
         Registered(t) => next[t] \in Threads /\ prev[t] \in Threads
  PROVE  ThreadTypeOK'
<1> USE SysthreadsAssumption DEF ThreadTypeOK, Points, Continuations, locks, local, list, ticks
<1>1. CASE Acquiring(t) \/ LeaveBlockingSection(t) \/ RegisterCall(t) \/ UnregisterCall(t)
  BY <1>1 DEF Acquiring, LoadScheme, LockScheme, WrongScheme, GiveBack, YieldLock,
       YieldRetries, LeaveBlockingSection, RegisterCall, UnregisterCall,
       AcquireThen, Unlock
<1>2. CASE Resume(t) \/ YieldReturns(t)
  BY <1>2 DEF Resume, YieldReturns, RestoreAndRun, Forget
<1>3. CASE EnterBlockingSection(t) \/ Yield(t)
  BY <1>3 DEF EnterBlockingSection, Yield, caml_thread_yield,
       save_runtime_state, thread_lock_release, Unlock
<1>4. CASE PollInterrupt(t)
  <2>1. CASE CanSkipYield
    BY <1>4, <2>1 DEF PollInterrupt
  <2>2. CASE ~CanSkipYield
    BY <1>4, <2>2 DEF PollInterrupt, caml_thread_yield, save_runtime_state,
         thread_lock_release, Unlock
  <2> QED
    BY <2>1, <2>2
<1>5. CASE \E new \in Schemes : SwitchScheme(t, new)
  BY <1>5 DEF SwitchScheme, save_runtime_state
<1>6. ASSUME NEW u \in OCamlThreads, ThreadNew(t, u) PROVE ThreadTypeOK'
  <2>1. u \in Threads /\ active \in Threads
    BY <1>6 DEF ThreadNew, Threads
  <2>2. next' \in [Threads -> Threads \cup {NoThread}]
        /\ prev' \in [Threads -> Threads \cup {NoThread}]
    BY <1>6, <2>1 DEF ThreadNew, InsertAfterActive
  <2> QED
    BY <1>6, <2>1, <2>2 DEF ThreadNew, AcquireThen, StartTick, TickNotCreated
<1>7. CASE EnableTick(t) \/ DisableTick(t)
  BY <1>7 DEF EnableTick, DisableTick, StopTickThen
<1>8. CASE Fork(t)
  BY <1>8 DEF Fork
<1>9. ASSUME Gone(t), RemoveAndFree(t) \/ RemoveLast(t), UNCHANGED ticks,
             next[t] \in Threads, prev[t] \in Threads
      PROVE  ThreadTypeOK'
  BY <1>9 DEF Gone, RemoveAndFree, RemoveLast, Unlink, thread_lock_release,
       Unlock, Forget
<1>10. ASSUME NEW c \in {"stop", "unregister"}, RemoveLastStopsTick(t, c) PROVE ThreadTypeOK'
  BY <1>10 DEF RemoveLastStopsTick, StopTickThen
<1>11. CASE ThreadStop(t) \/ Unregister(t)
  <2>1. next[t] \in Threads /\ prev[t] \in Threads
    BY <1>11 DEF ThreadStop, Unregister, Registered, Verified
  <2> QED
    BY <1>9, <1>10, <1>11, <2>1 DEF ThreadStop, Unregister
<1>12. CASE RegisterFails(t)
  BY <1>12 DEF RegisterFails, Gone, thread_lock_release, Unlock, Forget
<1>13. CASE Register(t)
  <2>1. next' \in [Threads -> Threads \cup {NoThread}]
        /\ prev' \in [Threads -> Threads \cup {NoThread}]
    BY <1>13 DEF Register, InsertAfterActive
  <2> QED
    BY <1>13, <2>1 DEF Register, StartTick, thread_lock_release, Unlock, Forget
<1>14. CASE TickJoined(t)
  <2>1. next[t] \in Threads /\ prev[t] \in Threads
    BY <1>14 DEF TickJoined, Registered
  <2>2. CASE k[t] = "disable"
    BY <1>14, <2>2 DEF TickJoined, Forget
  <2>3. CASE k[t] # "disable"
    BY <1>14, <2>1, <2>3 DEF TickJoined, Unlink, Gone, thread_lock_release,
         Unlock, Forget
  <2> QED
    BY <2>2, <2>3
<1> QED
  BY <1>1, <1>2, <1>3, <1>4, <1>5, <1>6, <1>7, <1>8, <1>11, <1>12, <1>13, <1>14
     DEF StepOf, Arriving, Running

--------------------------------------------------------------------------------
\* The locks: only the thread that releases a lock can have it.
LEMMA LockStep ==
  ASSUME ThreadTypeOK, LockInv, NEW t \in Threads, StepOf(t)
  PROVE  LockInv'
<1> USE SysthreadsAssumption DEF ThreadTypeOK, Points, LockInv, locks, local, list
<1>1. CASE Acquiring(t) \/ LeaveBlockingSection(t) \/ RegisterCall(t) \/ UnregisterCall(t)
  BY <1>1 DEF Acquiring, LoadScheme, LockScheme, WrongScheme, GiveBack, YieldLock,
       YieldRetries, LeaveBlockingSection, RegisterCall, UnregisterCall,
       AcquireThen, Unlock
<1>2. CASE Resume(t) \/ YieldReturns(t)
  BY <1>2 DEF Resume, Verified, YieldReturns, RestoreAndRun, Forget
<1>3. CASE EnterBlockingSection(t)
  BY <1>3 DEF EnterBlockingSection, thread_lock_release, Unlock
<1>4. ASSUME pc[t] = "run", caml_thread_yield(t) PROVE LockInv'
  BY <1>4 DEF caml_thread_yield, thread_lock_release, Unlock
<1>5. CASE Yield(t) \/ PollInterrupt(t)
  BY <1>4, <1>5 DEF Yield, PollInterrupt
<1>6. CASE \E new \in Schemes : SwitchScheme(t, new)
  BY <1>6 DEF SwitchScheme
<1>7. ASSUME NEW u \in OCamlThreads, ThreadNew(t, u) PROVE LockInv'
  BY <1>7 DEF ThreadNew, AcquireThen, Threads
<1>8. CASE EnableTick(t)
  BY <1>8 DEF EnableTick
<1>9. CASE DisableTick(t)
  BY <1>9 DEF DisableTick, StopTickThen
<1>10. CASE Fork(t)
  BY <1>10 DEF Fork
<1>11. ASSUME held[scheme] = t, Gone(t) PROVE LockInv'
  BY <1>11 DEF Gone, thread_lock_release, Unlock, Forget
<1>12. ASSUME NEW c, held[scheme] = t, RemoveLastStopsTick(t, c) PROVE LockInv'
  BY <1>12 DEF RemoveLastStopsTick, StopTickThen
<1>13. CASE Verified(t) \/ pc[t] = "run" \/ pc[t] = "tickjoin"
  <2>1. held[scheme] = t
    BY <1>13 DEF Verified
  <2>2. CASE ThreadStop(t) \/ Unregister(t) \/ RegisterFails(t)
    BY <1>11, <1>12, <2>1, <2>2 DEF ThreadStop, Unregister, RegisterFails
  <2>3. CASE Register(t)
    BY <2>1, <2>3 DEF Register, thread_lock_release, Unlock, Forget
  <2>4. CASE TickJoined(t)
    <3>1. CASE k[t] = "disable"
      BY <2>1, <2>4, <3>1 DEF TickJoined, Forget
    <3>2. CASE k[t] # "disable"
      BY <1>11, <2>1, <2>4, <3>2 DEF TickJoined
    <3> QED
      BY <3>1, <3>2
  <2> QED
    BY <1>1, <1>2, <1>3, <1>5, <1>6, <1>7, <1>8, <1>9, <1>10, <2>2, <2>3, <2>4
       DEF StepOf, Arriving, Running
<1>14. CASE ~(Verified(t) \/ pc[t] = "run" \/ pc[t] = "tickjoin")
  BY <1>1, <1>2, <1>3, <1>5, <1>6, <1>7, <1>8, <1>9, <1>10, <1>14
     DEF StepOf, Arriving, Running, ThreadStop, Unregister, RegisterFails,
         Register, TickJoined
<1> QED
  BY <1>13, <1>14

\* At most one thread is in the runtime.
LEMMA Alone ==
  ASSUME LockInv, NEW t \in Threads, NEW u \in Threads,
         InRuntime(t), pc[u] \in {"run", "tickjoin"}
  PROVE  u = t
BY DEF LockInv, InRuntime, Verified

LEMMA ContinuationStep ==
  ASSUME ThreadTypeOK, ContinuationInv, NEW t \in Threads, StepOf(t)
  PROVE  ContinuationInv'
<1> USE DEF ThreadTypeOK, Points, Continuations, ContinuationInv, locks, local, list
<1>1. CASE Acquiring(t) \/ LeaveBlockingSection(t) \/ RegisterCall(t) \/ UnregisterCall(t)
  BY <1>1 DEF Acquiring, LoadScheme, LockScheme, WrongScheme, GiveBack, YieldLock,
       YieldRetries, LeaveBlockingSection, RegisterCall, UnregisterCall, AcquireThen
<1>2. CASE Arriving(t)
  BY <1>2 DEF Arriving, Resume, YieldReturns, RestoreAndRun, Forget, Register,
       RegisterFails, Unregister, Gone, RemoveLastStopsTick, StopTickThen
<1>3. CASE PollInterrupt(t) \/ TickJoined(t) \/ ThreadStop(t)
  BY <1>3 DEF PollInterrupt, caml_thread_yield, TickJoined, Gone, Forget,
       ThreadStop, RemoveLastStopsTick, StopTickThen
<1>4. ASSUME NEW u \in OCamlThreads, ThreadNew(t, u) PROVE ContinuationInv'
  BY <1>4 DEF ThreadNew, AcquireThen
<1>5. CASE EnterBlockingSection(t) \/ Yield(t) \/ \E new \in Schemes : SwitchScheme(t, new)
  BY <1>5 DEF EnterBlockingSection, Yield, caml_thread_yield, SwitchScheme
<1>6. CASE EnableTick(t) \/ DisableTick(t) \/ Fork(t)
  BY <1>6 DEF EnableTick, DisableTick, StopTickThen, Fork
<1> QED
  BY <1>1, <1>2, <1>3, <1>4, <1>5, <1>6 DEF StepOf, Running

--------------------------------------------------------------------------------
(***************************************************************************)
(* The list and the runtime states.                                        *)
(***************************************************************************)
StateInv == ListInv /\ TickJoinInv /\ SavedInv /\ ActiveInv

\* Steps outside the runtime leave the list alone.
LEMMA OutsideStep ==
  ASSUME IInv, NEW t \in Threads,
         \/ Acquiring(t) \/ LeaveBlockingSection(t)
         \/ RegisterCall(t) \/ UnregisterCall(t)
  PROVE  StateInv'
<1> USE DEF IInv, TypeOK, ThreadTypeOK, Points, Continuations, locks, local, list
<1>1. UNCHANGED list
  BY DEF Acquiring, LoadScheme, LockScheme, WrongScheme, GiveBack, YieldLock,
       YieldRetries, LeaveBlockingSection, RegisterCall, UnregisterCall
<1>2. \A u \in Threads : Registered(u)' <=> Registered(u)
  BY DEF Acquiring, LoadScheme, LockScheme, WrongScheme, GiveBack, YieldLock,
       YieldRetries, LeaveBlockingSection, RegisterCall, UnregisterCall,
       AcquireThen, Registered
<1>3. \A u \in Threads :
        /\ (pc'[u] = "run") <=> (pc[u] = "run")
        /\ (pc'[u] = "tickjoin") <=> (pc[u] = "tickjoin")
        /\ pc[u] = "tickjoin" => k'[u] = k[u]
  BY DEF Acquiring, LoadScheme, LockScheme, WrongScheme, GiveBack, YieldLock,
       YieldRetries, LeaveBlockingSection, RegisterCall, UnregisterCall, AcquireThen
<1> QED
  BY <1>1, <1>2, <1>3 DEF StateInv, ListInv, TickJoinInv, SavedInv, ActiveInv,
       CamlStateSetUp

\* A thread comes back into the runtime.
LEMMA ResumeStep ==
  ASSUME IInv, NEW t \in Threads, Resume(t) \/ YieldReturns(t)
  PROVE  StateInv'
<1> USE SysthreadsAssumption DEF IInv, TypeOK, ThreadTypeOK, Points, Continuations,
      locks, local, list
<1>1. Registered(t) /\ saved[t] = t /\ pc[t] \notin {"run", "tickjoin"} /\ held[scheme] = t
  BY DEF Resume, YieldReturns, Verified, Registered, SavedInv, LockInv
<1>2. \A u \in Threads : u # t => pc[u] \notin {"run", "tickjoin"}
  BY <1>1 DEF LockInv
<1>3. \A u \in Threads : Registered(u)' <=> Registered(u)
  BY <1>1 DEF Resume, YieldReturns, RestoreAndRun, Forget, Registered
<1>4. /\ pc' = [pc EXCEPT ![t] = "run"] /\ active' = t /\ caml_state' = t
      /\ saved' = [saved EXCEPT ![t] = NoThread] /\ UNCHANGED <<next, prev>>
  BY <1>1 DEF Resume, YieldReturns, RestoreAndRun
<1> QED
  BY <1>1, <1>2, <1>3, <1>4 DEF StateInv, ListInv, TickJoinInv, SavedInv,
       ActiveInv, CamlStateSetUp

\* A running thread saves its state and leaves the runtime.
LEMMA LeaveStep ==
  ASSUME IInv, NEW t \in Threads, pc[t] = "run",
         \/ EnterBlockingSection(t) \/ caml_thread_yield(t)
         \/ \E new \in Schemes : SwitchScheme(t, new)
  PROVE  StateInv'
<1> USE SysthreadsAssumption DEF IInv, TypeOK, ThreadTypeOK, Points, Continuations,
      locks, local, list
<1>1. active = t /\ caml_state = t
  BY DEF ActiveInv, CamlStateSetUp
<1>2. \A u \in Threads : u # t => pc[u] \notin {"run", "tickjoin"}
  BY DEF LockInv
<1>3. /\ saved' = [saved EXCEPT ![t] = t]
      /\ UNCHANGED <<active, next, prev, caml_state>>
  BY <1>1 DEF EnterBlockingSection, caml_thread_yield, SwitchScheme,
       save_runtime_state
<1>4. \E p \in {"out", "yield", "giveback"} : pc' = [pc EXCEPT ![t] = p]
  BY DEF EnterBlockingSection, caml_thread_yield, SwitchScheme
<1>5. \A u \in Threads : Registered(u)' <=> Registered(u)
  BY <1>1, <1>4 DEF EnterBlockingSection, caml_thread_yield, SwitchScheme, Registered
<1> QED
  BY <1>1, <1>2, <1>3, <1>4, <1>5 DEF StateInv, ListInv, TickJoinInv, SavedInv,
       ActiveInv, CamlStateSetUp

\* A new info block goes after the active one.
LEMMA InsertList ==
  ASSUME ListInv, ThreadTypeOK, NEW u \in Threads, ~Registered(u),
         active \in Threads, Registered(active), InsertAfterActive(u),
         \A v \in Threads : Registered(v)' <=> Registered(v) \/ v = u
  PROVE  ListInv'
BY DEF ListInv, ThreadTypeOK, InsertAfterActive

LEMMA NewStep ==
  ASSUME IInv, NEW t \in Threads, NEW u \in OCamlThreads, ThreadNew(t, u)
  PROVE  StateInv'
<1> USE SysthreadsAssumption DEF IInv, TypeOK, ThreadTypeOK, Points, Continuations,
      locks, local, list
<1>1. u \in Threads /\ u # t /\ ~Registered(u) /\ pc[t] = "run"
  BY DEF ThreadNew, Registered, Threads
<1>2. active = t /\ Registered(t)
  BY <1>1 DEF ActiveInv, CamlStateSetUp, Registered
<1>3. \A v \in Threads : Registered(v)' <=> Registered(v) \/ v = u
  BY <1>1 DEF ThreadNew, AcquireThen, Registered
<1>4. ListInv'
  BY <1>1, <1>2, <1>3, InsertList DEF ThreadNew
<1>5. /\ pc' = [pc EXCEPT ![u] = "load"] /\ k' = [k EXCEPT ![u] = "start"]
      /\ saved' = [saved EXCEPT ![u] = u] /\ UNCHANGED <<active, caml_state>>
  BY DEF ThreadNew, AcquireThen
<1>6. TickJoinInv'
  BY <1>1, <1>2, <1>5 DEF TickJoinInv
<1> QED
  BY <1>1, <1>2, <1>3, <1>4, <1>5, <1>6 DEF StateInv, SavedInv, ActiveInv,
       CamlStateSetUp

\* A thread from C registers.
LEMMA RegisterStep ==
  ASSUME IInv, NEW t \in Threads, Register(t)
  PROVE  StateInv'
<1> USE SysthreadsAssumption DEF IInv, TypeOK, ThreadTypeOK, Points, Continuations,
      locks, local, list
<1>1. ~Registered(t) /\ Verified(t) /\ held[scheme] = t
  BY DEF Register, Registered, Verified, LockInv
<1>2. \A u \in Threads : pc[u] \notin {"run", "tickjoin"}
  BY <1>1 DEF LockInv, Verified
<1>3. \A v \in Threads : Registered(v)' <=> Registered(v) \/ v = t
  BY <1>1 DEF Register, Forget, Registered
<1>4. ListInv'
  <2>1. CASE active = NoThread
    BY <1>1, <1>3, <2>1 DEF Register, ListInv
  <2>2. CASE active # NoThread
    BY <1>1, <1>3, <2>2, InsertList DEF Register, ActiveInv
  <2> QED
    BY <2>1, <2>2
<1>5. /\ pc' = [pc EXCEPT ![t] = "out"] /\ active' = t /\ caml_state' = t
      /\ saved' = [saved EXCEPT ![t] = t]
  BY DEF Register
<1> QED
  BY <1>1, <1>2, <1>3, <1>4, <1>5 DEF StateInv, TickJoinInv, SavedInv, ActiveInv,
       CamlStateSetUp

\* An info block leaves the list.
LEMMA UnlinkList ==
  ASSUME ListInv, ThreadTypeOK, NEW t \in Threads, Registered(t), Unlink(t),
         \A v \in Threads : Registered(v)' <=> Registered(v) /\ v # t
  PROVE  ListInv'
<1> USE DEF ListInv, ThreadTypeOK, Unlink
<1> SUFFICES ASSUME NEW v \in Threads, Registered(v), v # t
             PROVE  (/\ next[v] \in Threads /\ Registered(next[v]) /\ prev[next[v]] = v
                     /\ prev[v] \in Threads /\ Registered(prev[v]) /\ next[prev[v]] = v)'
  OBVIOUS
<1>1. next'[v] = IF next[v] = t THEN next[t] ELSE next[v]
  OBVIOUS
<1>2. prev'[v] = IF prev[v] = t THEN prev[t] ELSE prev[v]
  OBVIOUS
<1>3. next'[v] \in Threads /\ next'[v] # t /\ prev'[next'[v]] = v
  BY <1>1
<1>4. prev'[v] \in Threads /\ prev'[v] # t /\ next'[prev'[v]] = v
  BY <1>2
<1> QED
  BY <1>1, <1>2, <1>3, <1>4

\* caml_thread_stop and caml_c_thread_unregister.
LEMMA RemoveStep ==
  ASSUME IInv, NEW t \in Threads, InRuntime(t), Registered(t),
         pc[t] # "tickjoin", RemoveAndFree(t) \/ RemoveLast(t), Gone(t)
  PROVE  StateInv'
<1> USE SysthreadsAssumption DEF IInv, TypeOK, ThreadTypeOK, Points, Continuations,
      locks, local, list
<1>1. \A u \in Threads : u # t => pc[u] \notin {"run", "tickjoin"}
  BY Alone
<1>2. \A v \in Threads : Registered(v)' <=> Registered(v) /\ v # t
  BY DEF Gone, Forget, Registered
<1>3. Unlink(t)
  BY DEF RemoveAndFree, RemoveLast
<1>4. ListInv'
  BY <1>2, <1>3, UnlinkList
<1>5. pc' = [pc EXCEPT ![t] = "none"] /\ saved' = [saved EXCEPT ![t] = NoThread]
  BY <1>3 DEF Gone, Unlink
<1>6. TickJoinInv' /\ SavedInv' /\ \A u \in Threads : pc'[u] # "run"
  BY <1>1, <1>2, <1>5 DEF TickJoinInv, SavedInv
<1>7. active' # NoThread => Registered(active)' /\ caml_state' = active'
  <2>1. CASE RemoveLast(t)
    BY <2>1 DEF RemoveLast
  <2>2. CASE RemoveAndFree(t) /\ active = t
    <3>1. next[t] \in Threads /\ Registered(next[t]) /\ next[t] # t
      BY <2>2 DEF ListInv, RemoveAndFree
    <3>2. saved[next[t]] = next[t]
      BY <1>1, <3>1 DEF SavedInv
    <3> QED
      BY <1>2, <2>2, <3>1, <3>2 DEF RemoveAndFree
  <2>3. CASE RemoveAndFree(t) /\ active # t
    BY <1>2, <2>3 DEF RemoveAndFree, ActiveInv, CamlStateSetUp
  <2> QED
    BY <2>1, <2>2, <2>3
<1> QED
  BY <1>4, <1>6, <1>7 DEF StateInv, ActiveInv, CamlStateSetUp

\* The last thread waits for the tick thread before it leaves.
LEMMA RemoveLastStep ==
  ASSUME IInv, NEW t \in Threads, NEW c \in {"stop", "unregister"},
         InRuntime(t), Registered(t), RemoveLastStopsTick(t, c)
  PROVE  StateInv'
<1> USE SysthreadsAssumption DEF IInv, TypeOK, ThreadTypeOK, Points, Continuations,
      locks, local, list
<1>1. \A u \in Threads : u # t => pc[u] \notin {"run", "tickjoin"}
  BY Alone
<1>2. \A v \in Threads : Registered(v)' <=> Registered(v)
  BY DEF RemoveLastStopsTick, StopTickThen, Registered
<1>3. /\ pc' = [pc EXCEPT ![t] = "tickjoin"] /\ k' = [k EXCEPT ![t] = c]
      /\ active' = NoThread /\ next[t] = t
      /\ UNCHANGED <<next, prev, caml_state, saved>>
  BY DEF RemoveLastStopsTick, StopTickThen
<1> QED
  BY <1>1, <1>2, <1>3 DEF StateInv, ListInv, TickJoinInv, SavedInv, ActiveInv,
       CamlStateSetUp

\* stop_tick_thread returns.
LEMMA TickJoinedStep ==
  ASSUME IInv, NEW t \in Threads, TickJoined(t)
  PROVE  StateInv'
<1> USE SysthreadsAssumption DEF IInv, TypeOK, ThreadTypeOK, Points, Continuations,
      locks, local, list
<1>1. pc[t] = "tickjoin" /\ Registered(t)
  BY DEF TickJoined, Registered
<1>2. \A u \in Threads : u # t => pc[u] \notin {"run", "tickjoin"}
  BY <1>1, Alone DEF InRuntime
<1>3. CASE k[t] = "disable"
  <2>1. \A v \in Threads : Registered(v)' <=> Registered(v)
    BY <1>1, <1>3 DEF TickJoined, Forget, Registered
  <2>2. pc' = [pc EXCEPT ![t] = "run"] /\ UNCHANGED list /\ active = t
    BY <1>1, <1>3 DEF TickJoined, TickJoinInv
  <2> QED
    BY <1>2, <2>1, <2>2 DEF StateInv, ListInv, TickJoinInv, SavedInv, ActiveInv,
         CamlStateSetUp
<1>4. CASE k[t] # "disable"
  <2>1. Unlink(t) /\ Gone(t) /\ UNCHANGED <<active, caml_state>> /\ active = NoThread
    BY <1>1, <1>4 DEF TickJoined, TickJoinInv
  <2>2. \A v \in Threads : Registered(v)' <=> Registered(v) /\ v # t
    BY <1>1, <2>1 DEF Gone, Forget, Registered
  <2>3. ListInv'
    BY <1>1, <2>1, <2>2, UnlinkList
  <2>4. pc' = [pc EXCEPT ![t] = "none"] /\ saved' = [saved EXCEPT ![t] = NoThread]
    BY <2>1 DEF Gone, Unlink
  <2> QED
    BY <1>2, <2>1, <2>2, <2>3, <2>4 DEF StateInv, TickJoinInv, SavedInv, ActiveInv,
         CamlStateSetUp
<1> QED
  BY <1>3, <1>4

\* The steps that do not touch the list: a skipped yield, the tick's switches.
LEMMA InsideStep ==
  ASSUME IInv, NEW t \in Threads,
         \/ UNCHANGED <<locks, local, pc, list>>
         \/ EnableTick(t) \/ DisableTick(t)
  PROVE  StateInv'
<1> USE SysthreadsAssumption DEF IInv, TypeOK, ThreadTypeOK, Points, Continuations,
      locks, local, list
<1>1. CASE UNCHANGED <<local, pc, list>>
  BY <1>1 DEF StateInv, ListInv, TickJoinInv, SavedInv, ActiveInv,
       CamlStateSetUp, Registered
<1>2. CASE DisableTick(t) /\ StopTickThen(t, "disable")
  <2>1. \A v \in Threads : Registered(v)' <=> Registered(v)
    BY <1>2 DEF DisableTick, StopTickThen, Registered
  <2>2. active = t
    BY <1>2 DEF DisableTick, ActiveInv, CamlStateSetUp
  <2> QED
    BY <1>2, <2>1, <2>2 DEF DisableTick, StopTickThen, StateInv, ListInv, TickJoinInv,
         SavedInv, ActiveInv, CamlStateSetUp
<1> QED
  BY <1>1, <1>2 DEF EnableTick, DisableTick

LEMMA ForkStep ==
  ASSUME IInv, NEW t \in Threads, Fork(t)
  PROVE  StateInv'
<1> USE SysthreadsAssumption DEF IInv, TypeOK, ThreadTypeOK
<1>1. active = t /\ caml_state = t
  BY DEF Fork, ActiveInv, CamlStateSetUp
<1>2. \A v \in Threads : Registered(v)' <=> v = t
  BY DEF Fork, Registered
<1> QED
  BY <1>1, <1>2 DEF Fork, StateInv, ListInv, TickJoinInv, SavedInv, ActiveInv,
       CamlStateSetUp

LEMMA StateStep ==
  ASSUME IInv, NEW t \in Threads, StepOf(t)
  PROVE  StateInv'
<1>1. CASE Acquiring(t) \/ LeaveBlockingSection(t) \/ RegisterCall(t) \/ UnregisterCall(t)
  BY <1>1, OutsideStep
<1>2. CASE Resume(t) \/ YieldReturns(t)
  BY <1>2, ResumeStep
<1>3. CASE Register(t)
  BY <1>3, RegisterStep
<1>4. CASE RegisterFails(t)
  <2>1. UNCHANGED list /\ pc' = [pc EXCEPT ![t] = "none"] /\ pc[t] = "verify" /\ k[t] = "register"
    BY <1>4 DEF RegisterFails, Verified, Gone
  <2>2. \A v \in Threads : Registered(v)' <=> Registered(v)
    BY <1>4, <2>1 DEF RegisterFails, Gone, Forget, Registered, IInv, TypeOK, ThreadTypeOK
  <2>3. \A u \in Threads : pc[u] = "tickjoin" => k'[u] = k[u]
    BY <1>4, <2>1 DEF RegisterFails, Gone, Forget, IInv, TypeOK, ThreadTypeOK
  <2> QED
    BY <2>1, <2>2, <2>3 DEF list, IInv, TypeOK, ThreadTypeOK, StateInv, ListInv,
         TickJoinInv, SavedInv, ActiveInv, CamlStateSetUp
<1>5. CASE ThreadStop(t) \/ Unregister(t)
  <2>1. InRuntime(t) /\ Registered(t) /\ pc[t] # "tickjoin"
    BY <1>5 DEF ThreadStop, Unregister, InRuntime, Registered, Verified
  <2> QED
    BY <1>5, <2>1, RemoveStep, RemoveLastStep DEF ThreadStop, Unregister
<1>6. CASE PollInterrupt(t)
  BY <1>6, LeaveStep, InsideStep DEF PollInterrupt
<1>7. CASE TickJoined(t)
  BY <1>7, TickJoinedStep
<1>8. CASE Running(t)
  BY <1>8, LeaveStep, InsideStep, NewStep, ForkStep DEF Running,
       EnterBlockingSection, Yield, SwitchScheme
<1> QED
  BY <1>1, <1>2, <1>3, <1>4, <1>5, <1>6, <1>7, <1>8 DEF StepOf, Arriving

--------------------------------------------------------------------------------
(***************************************************************************)
(* The inductive invariant, and what follows from it.                      *)
(***************************************************************************)
LEMMA InitIInv == Init => IInv
<1> SUFFICES ASSUME Init PROVE IInv
  OBVIOUS
<1> USE SysthreadsAssumption DEF Init
<1>1. Main \in Threads
  BY DEF Threads
<1>2. TypeOK
  BY <1>1 DEF TypeOK, ThreadTypeOK, TickTypeOK, Points, Continuations
<1>3. \A t \in Threads : Registered(t) <=> t = Main
  BY <1>1 DEF Registered
<1> QED
  BY <1>1, <1>2, <1>3 DEF IInv, LockInv, ListInv, TickJoinInv, ContinuationInv,
       SavedInv, ActiveInv, CamlStateSetUp

LEMMA NextIInv == IInv /\ [Next]_vars => IInv'
<1> SUFFICES ASSUME IInv, [Next]_vars PROVE IInv'
  OBVIOUS
<1>1. ASSUME UNCHANGED <<locks, local, pc, list>> PROVE StateInv' /\ LockInv' /\ ContinuationInv' /\ ThreadTypeOK'
  BY <1>1 DEF locks, local, list, IInv, TypeOK, ThreadTypeOK, StateInv, LockInv,
       ContinuationInv, ListInv, TickJoinInv, SavedInv, ActiveInv,
       CamlStateSetUp, Registered
<1>2. CASE UNCHANGED vars
  <2>1. TickTypeOK'
    BY <1>2 DEF vars, ticks, IInv, TypeOK, TickTypeOK
  <2> QED
    BY <1>1, <1>2, <2>1 DEF vars, IInv, TypeOK, StateInv
<1>3. CASE TickTests \/ TickFires
  <2>1. TickTypeOK'
    <3>1. tick' \in {"test", "sleep", "exited"}
      BY <1>3 DEF TickTests, TickFires
    <3>2. CASE TickTests
      BY <3>1, <3>2 DEF TickTests, IInv, TypeOK, TickTypeOK
    <3>3. CASE TickFires
      BY <3>1, <3>3 DEF TickFires, IInv, TypeOK, TickTypeOK
    <3> QED
      BY <1>3, <3>2, <3>3
  <2> QED
    BY <1>1, <1>3, <2>1 DEF TickTests, TickFires, IInv, TypeOK, StateInv
<1>4. ASSUME NEW t \in Threads, StepOf(t) PROVE IInv'
  <2>1. ThreadTypeOK'
    BY <1>4, ThreadTypeStep DEF IInv, TypeOK, ActiveInv, CamlStateSetUp, ListInv
  <2> QED
    BY <1>4, <2>1, TickTypeStep, LockStep, ContinuationStep, StateStep
       DEF IInv, TypeOK, StateInv
<1> QED
  BY <1>2, <1>3, <1>4, NextSteps

LEMMA InvariantIInv == Spec => []IInv
BY InitIInv, NextIInv, PTL DEF Spec

\* The variables of st_stubs.c keep their types, and Tick_thread_stop is never
\* left set for the next tick thread.
THEOREM TypeCorrect == Spec => []TypeOK
<1>1. IInv => TypeOK
  BY DEF IInv
<1> QED
  BY <1>1, InvariantIInv, PTL

\* Whatever locking schemes there are and whoever replaces them, at most one
\* thread is in the runtime, with the lock of the scheme in force.
THEOREM OneThreadInRuntime == Spec => []RuntimeExcludes
<1>1. IInv => RuntimeExcludes
  BY DEF IInv, LockInv, RuntimeExcludes, InRuntime, Verified
<1> QED
  BY <1>1, InvariantIInv, PTL

\* A thread that runs finds its own latest state in Caml_state, across blocking
\* sections, yields, switches, C threads that come and go, and fork.
THEOREM StateIsSetUp == Spec => []CamlStateSetUp
<1>1. IInv => CamlStateSetUp
  BY DEF IInv, ActiveInv
<1> QED
  BY <1>1, InvariantIInv, PTL

--------------------------------------------------------------------------------
(***************************************************************************)
(* The refinement.                                                         *)
(***************************************************************************)
In(t) == pc[t] \in {"run", "tickjoin"}

LEMMA HolderIs ==
  ASSUME LockInv, NEW t \in Threads, In(t)
  PROVE  holder = t
<1>1. \A u \in Threads : In(u) => u = t
  BY DEF LockInv, In
<1> QED
  BY <1>1 DEF holder, In

LEMMA HolderNone ==
  ASSUME \A t \in Threads : ~In(t)
  PROVE  holder = NoThread
BY DEF holder, In

\* The same two facts of the state after a step.
LEMMA HolderIsNext ==
  ASSUME LockInv', NEW t \in Threads, In(t)'
  PROVE  holder' = t
<1>1. \A u \in Threads : In(u)' => u = t
  BY DEF LockInv, In
<1> QED
  BY <1>1 DEF holder, In

LEMMA HolderNoneNext ==
  ASSUME \A t \in Threads : ~In(t)'
  PROVE  holder' = NoThread
BY DEF holder, In

\* A step of t lets nobody else in or out, and t enters only with the lock.
LEMMA InStep ==
  ASSUME IInv, NEW t \in Threads, StepOf(t)
  PROVE  /\ \A u \in Threads \ {t} : In(u)' <=> In(u)
         /\ In(t)' => held[scheme] = t
<1> USE SysthreadsAssumption DEF IInv, TypeOK, ThreadTypeOK, Points, LockInv, In,
      locks, local, list
<1>1. CASE Acquiring(t) \/ LeaveBlockingSection(t) \/ RegisterCall(t) \/ UnregisterCall(t)
  BY <1>1 DEF Acquiring, LoadScheme, LockScheme, WrongScheme, GiveBack, YieldLock,
       YieldRetries, LeaveBlockingSection, RegisterCall, UnregisterCall, AcquireThen
<1>2. CASE Arriving(t)
  BY <1>2 DEF Arriving, Resume, Verified, YieldReturns, RestoreAndRun, Register,
       RegisterFails, Unregister, Gone, RemoveLastStopsTick, StopTickThen
<1>3. CASE PollInterrupt(t) \/ TickJoined(t) \/ ThreadStop(t)
  BY <1>3 DEF PollInterrupt, caml_thread_yield, TickJoined, Gone, ThreadStop,
       RemoveLastStopsTick, StopTickThen
<1>4. ASSUME NEW u \in OCamlThreads, ThreadNew(t, u)
      PROVE  (\A v \in Threads : In(v)' <=> In(v)) /\ In(t)
  BY <1>4 DEF ThreadNew, AcquireThen
<1>5. CASE EnterBlockingSection(t) \/ Yield(t) \/ \E new \in Schemes : SwitchScheme(t, new)
  BY <1>5 DEF EnterBlockingSection, Yield, caml_thread_yield, SwitchScheme
<1>6. CASE EnableTick(t) \/ DisableTick(t) \/ Fork(t)
  BY <1>6 DEF EnableTick, DisableTick, StopTickThen, Fork
<1> QED
  BY <1>1, <1>2, <1>3, <1>4, <1>5, <1>6 DEF StepOf, Running

\* The locking schemes together implement one abstract runtime lock.
THEOREM ImplementsRuntimeLock == Spec => RefinesRuntimeLock
<1>1. Init => Abstract!Init
  <2> SUFFICES ASSUME Init PROVE holder = Main /\ Main \in Threads
    BY DEF Abstract!Init
  <2>1. Main \in Threads /\ In(Main)
    BY DEF Init, In, Threads
  <2> QED
    BY <2>1, InitIInv, HolderIs DEF IInv
<1>2. IInv /\ IInv' /\ [Next]_vars => [Abstract!Next]_(Abstract!vars)
  <2> SUFFICES ASSUME IInv, IInv', [Next]_vars
               PROVE  Abstract!Next \/ UNCHANGED holder
    BY DEF Abstract!vars
  <2>1. CASE UNCHANGED pc
    BY <2>1 DEF holder
  <2>2. ASSUME NEW t \in Threads, StepOf(t)
        PROVE  Abstract!Acquire(t) \/ Abstract!Release(t) \/ UNCHANGED holder
    <3> USE InStep DEF IInv
    <3>1. CASE In(t) /\ In(t)'
      <4>1. holder = t /\ holder' = t
        BY <3>1, HolderIs, HolderIsNext
      <4> QED
        BY <4>1
    <3>2. CASE In(t) /\ ~In(t)'
      <4>1. holder = t
        BY <3>2, HolderIs
      <4>2. \A u \in Threads : ~In(u)'
        BY <2>2, <3>2 DEF LockInv, In
      <4>3. holder' = NoThread
        BY <4>2, HolderNoneNext
      <4> QED
        BY <4>1, <4>3 DEF Abstract!Release
    <3>3. CASE ~In(t) /\ In(t)'
      <4>1. \A u \in Threads : ~In(u)
        BY <2>2, <3>3 DEF LockInv, In
      <4>2. holder = NoThread
        BY <4>1, HolderNone
      <4>3. holder' = t
        BY <3>3, HolderIsNext
      <4> QED
        BY <4>2, <4>3 DEF Abstract!Acquire
    <3>4. CASE ~In(t) /\ ~In(t)'
      <4>1. CASE \E u \in Threads : In(u)
        <5>1. PICK u \in Threads : In(u)
          BY <4>1
        <5>2. In(u)'
          BY <2>2, <3>4, <5>1
        <5>3. holder = u /\ holder' = u
          BY <5>1, <5>2, HolderIs, HolderIsNext
        <5> QED
          BY <5>3
      <4>2. CASE \A u \in Threads : ~In(u)
        <5>1. \A u \in Threads : ~In(u)'
          BY <2>2, <3>4, <4>2
        <5>2. holder = NoThread /\ holder' = NoThread
          BY <4>2, <5>1, HolderNone, HolderNoneNext
        <5> QED
          BY <5>2
      <4> QED
        BY <4>1, <4>2
    <3> QED
      BY <3>1, <3>2, <3>3, <3>4
  <2> QED
    BY <2>1, <2>2, NextSteps DEF Abstract!Next, vars, TickTests, TickFires
<1> QED
  BY <1>1, <1>2, InvariantIInv, PTL DEF Spec, RefinesRuntimeLock, Abstract!Spec
--------------------------------------------------------------------------------
(***************************************************************************)
(* More, on the same inductive invariant: the info blocks form one ring,   *)
(* so that the scan of the roots meets all of them; and, as long as nobody *)
(* forks, the locks are accounted for and a tick thread is there when it   *)
(* is needed.                                                              *)
(***************************************************************************)

Reg == {t \in Threads : Registered(t)}

(***************************************************************************)
(* There is one ring: no part of the list can be closed under next but the *)
(* whole.  (In this form the statement needs no induction along the list.) *)
(***************************************************************************)
RingInv ==
  \A S \in SUBSET Reg : S # {} /\ (\A t \in S : next[t] \in S) => S = Reg

\* Active_thread is NULL only when the list is empty, or about to be: its last
\* thread waits for the tick thread, with the runtime lock.
EmptyInv == active = NoThread => \A t \in Reg : pc[t] = "tickjoin"

\* Every lock that is held will be released.  A fork leaves the locks of the
\* schemes that are not in force to threads that do not exist in the child.
HeldInv ==
  \A x \in Schemes : \A t \in Threads :
    held[x] = t =>
      \/ pc[t] \in {"verify", "yielded", "giveback"} /\ s[t] = x
      \/ pc[t] \in {"run", "tickjoin"} /\ x = scheme

Many == \E t, u \in Reg : t # u

\* The tick thread is there when Tick_thread_running says so, and exits only for
\* somebody that joins it.
TickInv ==
  /\ tick_stop <=> \E t \in Threads : pc[t] = "tickjoin"
  /\ tick = "exited" => tick_stop
  /\ tick_running <=> tick # "none"
  /\ Many /\ ~tick_disabled => tick_running

\* Without fork the main thread is always on the list: it never asks to leave.
MainInv == pc[Main] # "none" /\ k[Main] \notin {"register", "unregister", "stop"}

NoForkInv ==
  /\ ~CanFork => HeldInv /\ MainInv
  /\ ~CanFork /\ ~TickMayFail => TickInv

RInv == RingInv /\ EmptyInv /\ NoForkInv
--------------------------------------------------------------------------------
(***************************************************************************)
(* The ring.                                                               *)
(***************************************************************************)
LEMMA RingSame ==
  ASSUME RingInv, \A v \in Threads : Registered(v)' <=> Registered(v),
         \A v \in Threads : Registered(v) => next'[v] = next[v]
  PROVE  RingInv'
BY DEF RingInv, Reg

\* A thread that is its own successor is the only one.
LEMMA RingAlone ==
  ASSUME RingInv, NEW t \in Threads, Registered(t), next[t] = t
  PROVE  Reg = {t}
<1>1. {t} \in SUBSET Reg /\ \A u \in {t} : next[u] \in {t}
  BY DEF Reg
<1> QED
  BY <1>1 DEF RingInv

\* A part of the new list that is closed has a block from before, and with it
\* all of them.
LEMMA RingInsert ==
  ASSUME RingInv, ListInv, ThreadTypeOK, NEW u \in Threads, ~Registered(u),
         active \in Threads, Registered(active), InsertAfterActive(u),
         \A v \in Threads : Registered(v)' <=> Registered(v) \/ v = u
  PROVE  RingInv'
<1> USE DEF Reg
<1>1. Reg' = Reg \cup {u} /\ u \notin Reg /\ active \in Reg /\ next[active] \in Reg
  BY DEF ListInv
<1>2. /\ next'[active] = u
      /\ next'[u] = next[active]
      /\ \A v \in Reg \ {active} : next'[v] = next[v]
  BY DEF InsertAfterActive, ThreadTypeOK
<1> SUFFICES ASSUME NEW S \in SUBSET Reg', S # {}, \A v \in S : next'[v] \in S
             PROVE  S = Reg'
  BY DEF RingInv
<1>3. S \ {u} \in SUBSET Reg /\ S \ {u} # {}
  BY <1>1, <1>2
<1>4. ASSUME NEW v \in S \ {u} PROVE next[v] \in S \ {u}
  <2>1. v \in Reg /\ next[v] \in Reg
    BY <1>1, <1>4 DEF ListInv
  <2>2. CASE v = active
    BY <1>1, <1>2, <1>4, <2>2
  <2>3. CASE v # active
    BY <1>1, <1>2, <1>4, <2>1, <2>3
  <2> QED
    BY <2>2, <2>3
<1>5. S \ {u} = Reg
  BY <1>3, <1>4 DEF RingInv
<1>6. u \in S
  BY <1>1, <1>2, <1>5
<1> QED
  BY <1>1, <1>5, <1>6

\* A closed part of the list without t was closed before, or is so with t.
LEMMA RingUnlink ==
  ASSUME RingInv, ListInv, ThreadTypeOK, NEW t \in Threads, Registered(t), Unlink(t),
         \A v \in Threads : Registered(v)' <=> Registered(v) /\ v # t
  PROVE  RingInv'
<1> USE DEF Reg
<1>1. Reg' = Reg \ {t} /\ t \in Reg
  OBVIOUS
<1>2. CASE next[t] = t
  <2>1. Reg' = {}
    BY <1>1, <1>2, RingAlone
  <2> QED
    BY <2>1 DEF RingInv
<1>3. CASE next[t] # t
  <2>1. next[t] \in Reg /\ prev[t] \in Reg /\ next[prev[t]] = t /\ prev[t] # t
    BY <1>3 DEF ListInv
  <2>2. /\ next'[prev[t]] = next[t]
        /\ \A v \in Reg \ {t, prev[t]} : next'[v] = next[v]
    BY <2>1 DEF Unlink, ThreadTypeOK
  <2> SUFFICES ASSUME NEW S \in SUBSET Reg', S # {}, \A v \in S : next'[v] \in S
               PROVE  S = Reg'
    BY DEF RingInv
  <2>3. CASE prev[t] \in S
    <3>1. \A v \in S \cup {t} : next[v] \in S \cup {t}
      BY <1>1, <2>1, <2>2, <2>3
    <3>2. S \cup {t} = Reg
      <4>1. S \cup {t} \in SUBSET Reg /\ S \cup {t} # {}
        BY <1>1
      <4> HIDE DEF Reg
      <4> QED
        BY <3>1, <4>1 DEF RingInv
    <3> QED
      BY <1>1, <3>2
  <2>4. CASE prev[t] \notin S
    <3>1. \A v \in S : next[v] \in S
      BY <1>1, <2>2, <2>4
    <3>2. S = Reg
      BY <1>1, <3>1 DEF RingInv
    <3> QED
      BY <1>1, <3>2
  <2> QED
    BY <2>3, <2>4
<1> QED
  BY <1>2, <1>3

--------------------------------------------------------------------------------
(***************************************************************************)
(* What a step does to the list.                                           *)
(***************************************************************************)
Removal(t) ==
  \/ (ThreadStop(t) \/ Unregister(t)) /\ Gone(t)
  \/ TickJoined(t) /\ k[t] # "disable"

\* Only creation, registration, removal and fork change it.
LEMMA ListSame ==
  ASSUME IInv, NEW t \in Threads, StepOf(t), ~Register(t), ~Removal(t), ~Fork(t),
         ~\E u \in OCamlThreads : ThreadNew(t, u)
  PROVE  /\ \A v \in Threads : Registered(v)' <=> Registered(v)
         /\ next' = next
         /\ \A v \in Threads \ {t} : pc'[v] = pc[v]
         /\ active' = NoThread => \/ active = NoThread /\ (pc[t] = "tickjoin" => pc'[t] = "tickjoin")
                                  \/ next[t] = t /\ Registered(t) /\ pc'[t] = "tickjoin"
<1> USE SysthreadsAssumption DEF IInv, TypeOK, ThreadTypeOK, Points, Continuations,
      locks, local, list, Registered
<1>1. CASE Acquiring(t) \/ LeaveBlockingSection(t) \/ RegisterCall(t) \/ UnregisterCall(t)
  BY <1>1 DEF Acquiring, LoadScheme, LockScheme, WrongScheme, GiveBack, YieldLock,
       YieldRetries, LeaveBlockingSection, RegisterCall, UnregisterCall, AcquireThen
<1>2. CASE Resume(t) \/ YieldReturns(t)
  BY <1>2 DEF Resume, YieldReturns, Verified, RestoreAndRun, Forget
<1>3. CASE RegisterFails(t)
  BY <1>3 DEF RegisterFails, Verified, Gone, Forget
<1>4. ASSUME NEW c \in {"stop", "unregister"}, RemoveLastStopsTick(t, c), Registered(t)
      PROVE  /\ \A v \in Threads : Registered(v)' <=> Registered(v)
             /\ next' = next /\ next[t] = t /\ pc'[t] = "tickjoin"
             /\ \A v \in Threads \ {t} : pc'[v] = pc[v]
  BY <1>4 DEF RemoveLastStopsTick, StopTickThen
<1>5. CASE ThreadStop(t) \/ Unregister(t)
  <2>1. Registered(t)
    BY <1>5 DEF ThreadStop, Unregister, Verified
  <2>2. \E c \in {"stop", "unregister"} : RemoveLastStopsTick(t, c)
    BY <1>5 DEF ThreadStop, Unregister, Removal
  <2> QED
    BY <1>4, <2>1, <2>2
<1>6. CASE EnterBlockingSection(t) \/ Yield(t) \/ \E new \in Schemes : SwitchScheme(t, new)
  BY <1>6 DEF EnterBlockingSection, Yield, caml_thread_yield, SwitchScheme
<1>7. CASE PollInterrupt(t)
  BY <1>7 DEF PollInterrupt, caml_thread_yield
<1>8. CASE EnableTick(t)
  BY <1>8 DEF EnableTick
<1>9. CASE DisableTick(t)
  BY <1>9 DEF DisableTick, StopTickThen, ActiveInv, CamlStateSetUp
<1>10. CASE TickJoined(t)
  <2>1. k[t] = "disable" /\ active = t
    BY <1>10 DEF Removal, TickJoined, TickJoinInv
  <2> QED
    BY <1>10, <2>1 DEF TickJoined, Forget
<1> QED
  BY <1>1, <1>2, <1>3, <1>5, <1>6, <1>7, <1>8, <1>9, <1>10
     DEF StepOf, Arriving, Running

LEMMA ListRemoved ==
  ASSUME IInv, RingInv, NEW t \in Threads, Removal(t)
  PROVE  /\ \A v \in Threads : Registered(v)' <=> Registered(v) /\ v # t
         /\ Registered(t) /\ Unlink(t)
         /\ pc' = [pc EXCEPT ![t] = "none"]
         /\ active' = NoThread => active = NoThread \/ Reg = {t}
<1> USE SysthreadsAssumption DEF IInv, TypeOK, ThreadTypeOK
<1>1. Registered(t)
  BY DEF Removal, ThreadStop, Unregister, TickJoined, Registered, Verified
<1>2. Gone(t)
  BY DEF Removal, TickJoined
<1>3. \A v \in Threads : Registered(v)' <=> Registered(v) /\ v # t
  BY <1>2 DEF Gone, Forget, Registered
<1>4. Unlink(t) /\ (active' = NoThread => active = NoThread \/ next[t] = t)
  <2>1. CASE TickJoined(t) /\ k[t] # "disable"
    BY <2>1 DEF TickJoined
  <2>2. CASE (ThreadStop(t) \/ Unregister(t)) /\ Gone(t)
    <3>1. RemoveAndFree(t) \/ RemoveLast(t)
      <4>1. pc'[t] = "none"
        BY <2>2 DEF Gone
      <4> QED
        BY <2>2, <4>1 DEF ThreadStop, Unregister, RemoveLastStopsTick, StopTickThen
    <3>2. next[t] \in Threads
      BY <1>1 DEF ListInv
    <3> QED
      BY <3>1, <3>2 DEF RemoveAndFree, RemoveLast
  <2> QED
    BY <2>1, <2>2 DEF Removal
<1> QED
  BY <1>1, <1>2, <1>3, <1>4, RingAlone DEF Gone

LEMMA RingStep ==
  ASSUME IInv, RingInv, EmptyInv, NEW t \in Threads, StepOf(t)
  PROVE  RingInv' /\ EmptyInv'
<1> USE SysthreadsAssumption DEF IInv, TypeOK, ThreadTypeOK
<1>1. ASSUME NEW u \in OCamlThreads, ThreadNew(t, u)
      PROVE  RingInv' /\ EmptyInv'
  <2>1. u \in Threads /\ ~Registered(u) /\ pc[t] = "run"
    BY <1>1 DEF ThreadNew, Registered, Threads
  <2>2. active = t /\ Registered(t) /\ active' = t
    BY <1>1, <2>1 DEF ActiveInv, CamlStateSetUp, Registered, ThreadNew
  <2>3. \A v \in Threads : Registered(v)' <=> Registered(v) \/ v = u
    BY <1>1, <2>1 DEF ThreadNew, AcquireThen, Registered
  <2> QED
    BY <1>1, <2>1, <2>2, <2>3, RingInsert DEF ThreadNew, EmptyInv
<1>2. CASE Register(t)
  <2>1. ~Registered(t) /\ held[scheme] = t /\ active' = t
    BY <1>2 DEF Register, Registered, Verified, LockInv
  <2>2. \A u \in Threads : pc[u] \notin {"run", "tickjoin"}
    BY <1>2, <2>1 DEF Register, LockInv, Verified
  <2>3. \A v \in Threads : Registered(v)' <=> Registered(v) \/ v = t
    BY <1>2, <2>1 DEF Register, Forget, Registered
  <2>4. RingInv'
    <3>1. CASE active = NoThread
      <4>1. Reg' = {t}
        BY <2>2, <2>3, <3>1 DEF EmptyInv, Reg
      <4> QED
        BY <4>1 DEF RingInv
    <3>2. CASE active # NoThread
      BY <1>2, <2>1, <2>3, <3>2, RingInsert DEF Register, ActiveInv
    <3> QED
      BY <3>1, <3>2
  <2> QED
    BY <2>1, <2>4 DEF EmptyInv
<1>3. CASE Removal(t)
  <2>1. RingInv'
    BY <1>3, ListRemoved, RingUnlink
  <2>2. EmptyInv'
    BY <1>3, ListRemoved DEF EmptyInv, Reg
  <2> QED
    BY <2>1, <2>2
<1>4. CASE Fork(t)
  <2>1. active' = t
    BY <1>4 DEF Fork, ActiveInv, CamlStateSetUp
  <2>2. Reg' = {t}
    BY <1>4 DEF Fork, Registered, Reg
  <2> QED
    BY <2>1, <2>2 DEF RingInv, EmptyInv
<1>5. CASE ~Register(t) /\ ~Removal(t) /\ ~Fork(t) /\ ~\E u \in OCamlThreads : ThreadNew(t, u)
  <2>1. RingInv'
    BY <1>5, ListSame, RingSame
  <2>2. EmptyInv'
    <3> SUFFICES ASSUME active' = NoThread, NEW v \in Reg' PROVE pc'[v] = "tickjoin"
      BY DEF EmptyInv
    <3>1. v \in Reg
      BY <1>5, ListSame DEF Reg
    <3>2. CASE active = NoThread /\ (pc[t] = "tickjoin" => pc'[t] = "tickjoin")
      BY <1>5, <3>1, <3>2, ListSame DEF EmptyInv, Reg
    <3>3. CASE next[t] = t /\ Registered(t) /\ pc'[t] = "tickjoin"
      BY <3>1, <3>3, RingAlone
    <3> QED
      BY <1>5, <3>2, <3>3, ListSame
  <2> QED
    BY <2>1, <2>2
<1> QED
  BY <1>1, <1>2, <1>3, <1>4, <1>5

--------------------------------------------------------------------------------
(***************************************************************************)
(* The locks, the main thread and the tick thread, without fork.           *)
(***************************************************************************)
LEMMA HeldStep ==
  ASSUME ThreadTypeOK, LockInv, HeldInv, NEW t \in Threads, StepOf(t), ~CanFork
  PROVE  HeldInv'
<1> USE SysthreadsAssumption DEF ThreadTypeOK, Points, HeldInv, locks, local, list
<1>1. CASE Acquiring(t) \/ LeaveBlockingSection(t) \/ RegisterCall(t) \/ UnregisterCall(t)
  BY <1>1 DEF Acquiring, LoadScheme, LockScheme, WrongScheme, GiveBack, YieldLock,
       YieldRetries, LeaveBlockingSection, RegisterCall, UnregisterCall,
       AcquireThen, Unlock
<1>2. CASE Resume(t) \/ YieldReturns(t)
  BY <1>2 DEF Resume, Verified, YieldReturns, RestoreAndRun, Forget
<1>3. CASE EnterBlockingSection(t)
  BY <1>3 DEF EnterBlockingSection, thread_lock_release, Unlock
<1>4. ASSUME pc[t] = "run", caml_thread_yield(t) PROVE HeldInv'
  BY <1>4 DEF caml_thread_yield, thread_lock_release, Unlock
<1>5. CASE Yield(t) \/ PollInterrupt(t)
  BY <1>4, <1>5 DEF Yield, PollInterrupt
\* The lock of the old scheme stays with the thread that gives it back next, and
\* no other thread is in the runtime.
<1>6. ASSUME NEW new \in Schemes, SwitchScheme(t, new) PROVE HeldInv'
  BY <1>6 DEF SwitchScheme, LockInv
<1>7. ASSUME NEW u \in OCamlThreads, ThreadNew(t, u) PROVE HeldInv'
  BY <1>7 DEF ThreadNew, AcquireThen, Threads
<1>8. CASE EnableTick(t)
  BY <1>8 DEF EnableTick
<1>9. CASE DisableTick(t)
  BY <1>9 DEF DisableTick, StopTickThen
<1>10. ASSUME Verified(t) \/ pc[t] \in {"run", "tickjoin"}, Gone(t) PROVE HeldInv'
  BY <1>10 DEF Verified, Gone, thread_lock_release, Unlock, Forget
<1>11. ASSUME NEW c, Verified(t) \/ pc[t] = "run", RemoveLastStopsTick(t, c) PROVE HeldInv'
  BY <1>11 DEF Verified, RemoveLastStopsTick, StopTickThen
<1>12. CASE ThreadStop(t) \/ Unregister(t) \/ RegisterFails(t)
  BY <1>10, <1>11, <1>12 DEF ThreadStop, Unregister, RegisterFails
<1>13. CASE Register(t)
  BY <1>13 DEF Register, Verified, thread_lock_release, Unlock, Forget
<1>14. CASE TickJoined(t)
  <2>1. CASE k[t] = "disable"
    BY <1>14, <2>1 DEF TickJoined, Forget
  <2>2. CASE k[t] # "disable"
    BY <1>10, <1>14, <2>2 DEF TickJoined
  <2> QED
    BY <2>1, <2>2
<1> QED
  BY <1>1, <1>2, <1>3, <1>5, <1>6, <1>7, <1>8, <1>9, <1>12, <1>13, <1>14
     DEF StepOf, Arriving, Running, Fork

\* The main thread neither stops nor unregisters, and nobody else can stop it.
LEMMA MainStep ==
  ASSUME ThreadTypeOK, TickJoinInv, MainInv, Next, ~CanFork
  PROVE  MainInv'
<1> USE SysthreadsAssumption DEF ThreadTypeOK, MainInv, locks, local, list
<1>a. Main \in Threads
  BY DEF Threads
<1>1. ASSUME NEW t \in Threads, Acquiring(t) \/ LeaveBlockingSection(t)
      PROVE  MainInv'
  BY <1>a, <1>1 DEF Acquiring, LoadScheme, LockScheme, WrongScheme, GiveBack, YieldLock,
       YieldRetries, LeaveBlockingSection, AcquireThen
<1>2. ASSUME NEW t \in Threads, Arriving(t)
      PROVE  MainInv'
  BY <1>a, <1>2 DEF Arriving, Resume, YieldReturns, RestoreAndRun, Forget, Register,
       RegisterFails, Unregister, Gone, RemoveLastStopsTick, StopTickThen
<1>3. ASSUME NEW t \in Threads, Running(t)
      PROVE  MainInv'
  <2>1. ASSUME NEW u \in OCamlThreads, ThreadNew(t, u)
        PROVE  MainInv'
    BY <1>a, <2>1 DEF ThreadNew, AcquireThen
  <2> QED
    BY <1>a, <1>3, <2>1 DEF Running, EnterBlockingSection, Yield, caml_thread_yield,
         SwitchScheme, EnableTick, DisableTick, StopTickThen, Fork
<1>4. ASSUME NEW t \in Threads, PollInterrupt(t) \/ TickJoined(t)
      PROVE  MainInv'
  BY <1>a, <1>4 DEF PollInterrupt, caml_thread_yield, TickJoined, TickJoinInv, Gone, Forget
<1>5. ASSUME NEW t \in OCamlThreads, ThreadStop(t)
      PROVE  MainInv'
  BY <1>a, <1>5 DEF ThreadStop, Gone, Forget, RemoveLastStopsTick, StopTickThen
<1>6. ASSUME NEW t \in CThreads, RegisterCall(t) \/ UnregisterCall(t)
      PROVE  MainInv'
  BY <1>a, <1>6 DEF RegisterCall, UnregisterCall, AcquireThen
<1>7. CASE TickTests \/ TickFires
  BY <1>7 DEF TickTests, TickFires
<1> QED
  BY <1>1, <1>2, <1>3, <1>4, <1>5, <1>6, <1>7 DEF Next

\* The parts of TickInv: whether somebody joins the tick thread, what it does,
\* and whether it is needed.
Joining == \E t \in Threads : pc[t] = "tickjoin"

LEMMA TickSame ==
  ASSUME TickInv, UNCHANGED <<tick, tick_running, tick_stop, tick_disabled>>,
         Joining' <=> Joining, Reg' \subseteq Reg
  PROVE  TickInv'
BY DEF TickInv, Joining, Many

LEMMA TickStarts ==
  ASSUME TickInv, Joining' <=> Joining, StartTick(~tick_disabled)
  PROVE  TickInv'
BY DEF TickInv, Joining, StartTick

LEMMA TickStops ==
  ASSUME TickInv, tick_running, tick_stop' = TRUE, Joining',
         UNCHANGED <<tick, tick_running>>
  PROVE  TickInv'
BY DEF TickInv, Joining

LEMMA TickStep ==
  ASSUME IInv, RingInv, EmptyInv, TickInv, NEW t \in Threads, StepOf(t),
         ~CanFork, ~TickMayFail
  PROVE  TickInv'
<1> USE SysthreadsAssumption DEF IInv, TypeOK, ThreadTypeOK, locks, local, list, ticks
<1>1. ASSUME NEW u \in OCamlThreads, ThreadNew(t, u)
      PROVE  TickInv'
  <2>1. Joining' <=> Joining
    BY <1>1 DEF Joining, ThreadNew, AcquireThen
  <2> QED
    BY <1>1, <2>1, TickStarts DEF ThreadNew, TickNotCreated
<1>2. CASE Register(t)
  <2>1. Joining' <=> Joining
    BY <1>2 DEF Joining, Register, Verified
  <2> QED
    BY <1>2, <2>1, TickStarts DEF Register
<1>3. ASSUME NEW c, RemoveLastStopsTick(t, c)
      PROVE  TickInv'
  BY <1>3, TickStops DEF RemoveLastStopsTick, StopTickThen, Joining
<1>4. CASE (ThreadStop(t) \/ Unregister(t)) /\ Gone(t)
  <2>1. Reg' \subseteq Reg
    BY <1>4, ListRemoved DEF Removal, Reg
  <2>2. Joining' <=> Joining
    BY <1>4 DEF Joining, Gone, ThreadStop, Unregister, Verified
  <2>3. UNCHANGED ticks
    <3>1. pc'[t] = "none"
      BY <1>4 DEF Gone
    <3> QED
      BY <1>4, <3>1 DEF ThreadStop, Unregister, RemoveLastStopsTick, StopTickThen
  <2> QED
    BY <2>1, <2>2, <2>3, TickSame
<1>5. CASE TickJoined(t)
  <2>1. pc[t] = "tickjoin" /\ pc'[t] # "tickjoin"
    BY <1>5 DEF TickJoined, Gone
  <2>2. \A u \in Threads : u # t => pc[u] # "tickjoin" /\ pc'[u] = pc[u]
    BY <1>5, <2>1, Alone DEF TickJoined, Gone, InRuntime
  <2>3. ~Joining'
    BY <2>1, <2>2 DEF Joining
  <2>4. tick_disabled' = TRUE \/ ~Many'
    <3>1. CASE k[t] = "disable"
      BY <1>5, <3>1 DEF TickJoined
    <3>2. CASE k[t] # "disable"
      \* Whoever was on the list waited for the tick thread too.
      <4>1. Reg' \subseteq Reg \ {t}
        BY <1>5, <3>2, ListRemoved DEF Removal, Reg
      <4>2. active = NoThread
        BY <2>1, <3>2 DEF TickJoinInv
      <4>3. Reg \subseteq {t}
        BY <2>2, <4>2 DEF EmptyInv, Reg
      <4> QED
        BY <4>1, <4>3 DEF Many
    <3> QED
      BY <3>1, <3>2
  <2> QED
    BY <1>5, <2>3, <2>4 DEF TickJoined, TickInv, Joining
<1>6. CASE EnableTick(t)
  <2>1. Joining' <=> Joining
    BY <1>6 DEF EnableTick, Joining
  <2> QED
    BY <1>6, <2>1 DEF EnableTick, TickInv, Joining
<1>7. CASE DisableTick(t)
  <2>1. CASE StopTickThen(t, "disable")
    BY <1>7, <2>1, TickStops DEF DisableTick, StopTickThen, Joining
  <2>2. CASE tick_disabled' = TRUE /\ UNCHANGED <<k, pc, tick_stop>>
    <3>1. Joining' <=> Joining
      BY <2>2 DEF Joining
    <3> QED
      BY <1>7, <2>2, <3>1 DEF DisableTick, TickInv, Joining
  <2> QED
    BY <1>7, <2>1, <2>2 DEF DisableTick
<1>8. CASE \/ Acquiring(t) \/ LeaveBlockingSection(t) \/ RegisterCall(t) \/ UnregisterCall(t)
           \/ Resume(t) \/ YieldReturns(t) \/ RegisterFails(t) \/ PollInterrupt(t)
           \/ EnterBlockingSection(t) \/ Yield(t) \/ \E new \in Schemes : SwitchScheme(t, new)
  <2>1. UNCHANGED <<tick, tick_running, tick_stop, tick_disabled>>
    BY <1>8 DEF Acquiring, LoadScheme, LockScheme, WrongScheme, GiveBack, YieldLock,
         YieldRetries, LeaveBlockingSection, RegisterCall, UnregisterCall, Resume,
         YieldReturns, RegisterFails, PollInterrupt, EnterBlockingSection, Yield,
         SwitchScheme
  <2>2. Joining' <=> Joining
    BY <1>8 DEF Joining, Acquiring, LoadScheme, LockScheme, WrongScheme, GiveBack, YieldLock,
         YieldRetries, LeaveBlockingSection, RegisterCall, UnregisterCall, AcquireThen,
         Resume, Verified, YieldReturns, RestoreAndRun, RegisterFails, Gone, PollInterrupt,
         EnterBlockingSection, Yield, caml_thread_yield, SwitchScheme
  <2>3. Reg' = Reg
    BY <1>8 DEF Reg, Registered, Points, Acquiring, LoadScheme, LockScheme, WrongScheme,
         GiveBack, YieldLock, YieldRetries, LeaveBlockingSection, RegisterCall,
         UnregisterCall, AcquireThen, Resume, Verified, YieldReturns, RestoreAndRun, Forget,
         RegisterFails, Gone, PollInterrupt, EnterBlockingSection, Yield,
         caml_thread_yield, SwitchScheme
  <2> QED
    BY <2>1, <2>2, <2>3, TickSame
<1> QED
  BY <1>1, <1>2, <1>3, <1>4, <1>5, <1>6, <1>7, <1>8
     DEF StepOf, Arriving, Running, ThreadStop, Unregister, Fork

--------------------------------------------------------------------------------
(***************************************************************************)
(* The inductive invariant, and what follows from it.                      *)
(***************************************************************************)
LEMMA InitRInv == Init => RInv
<1> SUFFICES ASSUME Init PROVE RInv
  OBVIOUS
<1> USE SysthreadsAssumption DEF Init
<1>1. Main \in Threads
  BY DEF Threads
<1>2. Reg = {Main}
  BY <1>1 DEF Registered, Reg
<1>3. RingInv /\ EmptyInv
  BY <1>1, <1>2 DEF RingInv, EmptyInv
<1>4. HeldInv /\ MainInv
  BY <1>1 DEF HeldInv, MainInv
<1>5. TickInv
  BY <1>2 DEF TickInv, Many
<1> QED
  BY <1>3, <1>4, <1>5 DEF RInv, NoForkInv

LEMMA NextRInv == IInv /\ RInv /\ [Next]_vars => RInv'
<1> SUFFICES ASSUME IInv, RInv, [Next]_vars PROVE RInv'
  OBVIOUS
<1>1. ASSUME UNCHANGED <<locks, local, pc, list>>
      PROVE  RingInv' /\ EmptyInv' /\ (~CanFork => HeldInv') /\ Reg' = Reg
  BY <1>1 DEF locks, local, list, RInv, RingInv, EmptyInv, NoForkInv, HeldInv, Reg, Registered
<1>2. ~CanFork => MainInv'
  <2>1. CASE UNCHANGED vars
    BY <2>1 DEF vars, local, RInv, NoForkInv, MainInv
  <2> QED
    BY <2>1, MainStep DEF RInv, NoForkInv, IInv, TypeOK
<1>3. CASE UNCHANGED vars
  <2>1. TickInv => TickInv'
    BY <1>1, <1>3 DEF vars, ticks, TickInv, Many
  <2> QED
    BY <1>1, <1>2, <1>3, <2>1 DEF vars, RInv, NoForkInv
<1>4. CASE TickTests \/ TickFires
  <2>1. TickInv => TickInv'
    BY <1>1, <1>4 DEF TickTests, TickFires, TickInv, Many
  <2> QED
    BY <1>1, <1>2, <1>4, <2>1 DEF TickTests, TickFires, RInv, NoForkInv
<1>5. ASSUME NEW t \in Threads, StepOf(t) PROVE RInv'
  BY <1>2, <1>5, RingStep, HeldStep, TickStep DEF RInv, NoForkInv, IInv, TypeOK
<1> QED
  BY <1>3, <1>4, <1>5, NextSteps

LEMMA InvariantRInv == Spec => [](IInv /\ RInv)
BY InitIInv, InitRInv, NextIInv, NextRInv, PTL DEF Spec

\* caml_thread_scan_roots, which goes round the list from Active_thread, meets the
\* info block of every thread of the domain and no other, and finds in each but
\* the active one the current state of its thread, however threads were created,
\* registered, stopped, unregistered or left behind by a fork.
THEOREM RootsAreScanned == Spec => []ScanMeetsAll
<1>1. IInv /\ RInv => ScanMeetsAll
  <2> SUFFICES ASSUME IInv, RInv, active # NoThread
               PROVE  /\ Ahead(active) = Reg
                      /\ \A t \in Reg : prev[next[t]] = t
                      /\ \A t \in Reg \ {active} : saved[t] = t
    BY DEF ScanMeetsAll, Reg
  <2>1. active \in Reg
    BY DEF IInv, TypeOK, ThreadTypeOK, ActiveInv, Reg
  <2>2. \A t \in Reg : next[t] \in Reg /\ prev[next[t]] = t
    BY DEF IInv, ListInv, Reg
  <2>3. Ahead(active) \subseteq Reg
    <3>1. Reg \in SUBSET (Threads \cup {NoThread})
      BY DEF Reg
    <3> QED
      BY <2>1, <2>2, <3>1 DEF Ahead
  <2>4. ASSUME NEW u \in Reg, NEW S \in SUBSET (Threads \cup {NoThread}), active \in S,
               \A v \in S \ {NoThread} : next[v] \in S
        PROVE  u \in S
    <3>1. NoThread \notin Reg
      BY SysthreadsAssumption DEF Reg
    <3>2. /\ S \cap Reg \in SUBSET Reg
          /\ S \cap Reg # {}
          /\ \A v \in S \cap Reg : next[v] \in S \cap Reg
      BY <2>1, <2>2, <2>4, <3>1
    <3>3. S \cap Reg = Reg
      BY <3>2 DEF RInv, RingInv
    <3> QED
      BY <3>3
  <2>5. Reg \subseteq Ahead(active)
    BY <2>4 DEF Ahead, Reg
  <2>6. \A t \in Reg \ {active} : saved[t] = t
    BY DEF Reg, IInv, SavedInv, ActiveInv, CamlStateSetUp, TickJoinInv
  <2> QED
    BY <2>2, <2>3, <2>5, <2>6
<1> QED
  BY <1>1, InvariantRInv, PTL

\* As long as the program does not fork, a thread holds the lock of a scheme,
\* the one in force or an old one, only on its way to unlocking it or while it
\* runs: thread_lock_acquire, yields and switches leave no lock behind.
THEOREM LocksAreAccounted ==
  ASSUME ~CanFork
  PROVE  Spec => []LocksAccounted
<1>1. IInv /\ RInv => LocksAccounted
  BY DEF IInv, TypeOK, ThreadTypeOK, LockInv, RInv, NoForkInv, HeldInv, LocksAccounted
<1> QED
  BY <1>1, InvariantRInv, PTL

\* As long as the program does not fork and the tick thread can be created, two
\* registered threads have a tick thread that makes them share the runtime.
THEOREM TickThreadForMany ==
  ASSUME ~CanFork, ~TickMayFail
  PROVE  Spec => []TickForMany
<1>1. IInv /\ RInv => TickForMany
  <2> SUFFICES ASSUME IInv, RInv, Cardinality(Reg) > 1, ~tick_disabled,
                      \A t \in Threads : pc[t] # "tickjoin"
               PROVE  tick \in {"test", "sleep"}
    BY DEF TickForMany, Reg
  <2>1. Many
    <3>1. Reg # {}
      BY FS_EmptySet
    <3>2. PICK t \in Reg : TRUE
      BY <3>1
    <3>3. Reg # {t}
      <4>1. Cardinality({t}) = 1
        BY FS_Singleton
      <4> QED
        BY <4>1
    <3> QED
      BY <3>2, <3>3 DEF Many
  <2> QED
    BY <2>1 DEF IInv, TypeOK, TickTypeOK, RInv, NoForkInv, TickInv
<1> QED
  BY <1>1, InvariantRInv, PTL

\* The assertion of caml_thread_stop holds as long as the program does not fork:
\* the main thread is always on the list, and the list is one ring.
THEOREM StoppingHasCompany ==
  ASSUME ~CanFork
  PROVE  Spec => StopHasCompany
<1>1. IInv /\ RInv => \A t \in OCamlThreads : ThreadStop(t) => next[t] # t
  <2> SUFFICES ASSUME IInv, RInv, NEW t \in OCamlThreads, ThreadStop(t), next[t] = t
               PROVE  FALSE
    OBVIOUS
  <2>1. t \in Threads /\ Registered(t) /\ t # Main
    BY SysthreadsAssumption DEF Threads, ThreadStop, Registered
  <2>2. Main \in Reg
    BY DEF Threads, Reg, Registered, RInv, NoForkInv, MainInv
  <2> QED
    BY <2>1, <2>2, RingAlone DEF RInv
<1> QED
  BY <1>1, InvariantRInv, PTL DEF StopHasCompany
================================================================================
