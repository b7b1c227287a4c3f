------------------------------- MODULE Systhreads -------------------------------
(***************************************************************************)
(* The threads of one domain (otherlibs/systhreads/st_stubs.c): the        *)
(* runtime lock behind a locking scheme that its holder may replace, the   *)
(* circular list of thread info blocks, the runtime state that is saved    *)
(* and restored around every release of the lock, thread creation and      *)
(* termination, threads registered from C, the tick thread, and fork.      *)
(*                                                                         *)
(* A thread is identified with its info block (caml_thread_t).  Whatever   *)
(* a thread does while it holds the runtime lock is one step; the steps of *)
(* thread_lock_acquire, which runs without it, are separate.  The lock of  *)
(* a scheme is the abstract RuntimeLock, which Masterlock implements.      *)
(***************************************************************************)
EXTENDS Integers, FiniteSets

CONSTANTS
  Main,           \* the thread that initialises the library
  OCamlThreads,   \* threads made by Thread.create
  CThreads,       \* threads made by C, which register and unregister
  Schemes,        \* locking schemes
  Default,        \* the scheme of caml_get_default_locking_scheme
  NoThread,       \* NULL
  CanFork,        \* whether fork is called
  TickMayFail     \* whether the creation of the tick thread may fail

Threads == {Main} \cup OCamlThreads \cup CThreads

ASSUME SysthreadsAssumption ==
  /\ IsFiniteSet(Threads)
  /\ Main \notin OCamlThreads \cup CThreads
  /\ OCamlThreads \cap CThreads = {}
  /\ NoThread \notin Threads
  /\ Default \in Schemes
  /\ CanFork \in BOOLEAN
  /\ TickMayFail \in BOOLEAN

VARIABLES
  scheme,       \* Locking_scheme
  held,         \* for each scheme, the thread that holds its lock
  s,            \* the local variable [s] or [old] of each thread
  pc,           \* where each thread is
  k,            \* what it does once it has the runtime lock, or joined the tick
  active,       \* Active_thread
  next, prev,   \* the links of the info blocks
  caml_state,   \* the thread whose runtime state is in Caml_state
  saved,        \* for each info block, the thread whose current state it has
  tick,         \* the tick thread
  tick_running, \* Tick_thread_running
  tick_stop,    \* Tick_thread_stop
  tick_disabled,\* Tick_thread_disabled
  interrupt     \* requested_external_interrupt

locks == <<scheme, held>>
local == <<s, k>>
list == <<active, next, prev, caml_state, saved>>
ticks == <<tick, tick_running, tick_stop, tick_disabled, interrupt>>

vars == <<locks, local, pc, list, ticks>>

(***************************************************************************)
(* Control points.                                                         *)
(*   none       no such thread; for a C thread, not registered             *)
(*   run        holds the runtime lock, runs OCaml code                    *)
(*   out        in a blocking section                                      *)
(*   load, lock, verify   thread_lock_acquire, then [k]                    *)
(*   giveback   holds the lock of [s], which is not the runtime lock any   *)
(*              more: unlocks it and calls thread_lock_acquire             *)
(*   yield      in s->yield, without the lock                              *)
(*   yielded    s->yield has returned with the lock of [s]                 *)
(*   tickjoin   in stop_tick_thread, with the runtime lock, then [k]       *)
(***************************************************************************)
Points == {"none", "run", "out", "load", "lock", "verify", "giveback", "yield",
           "yielded", "tickjoin"}
Continuations == {"start", "leave", "switch", "yield", "register", "unregister",
                  "disable", "stop"}

ThreadTypeOK ==
  /\ scheme \in Schemes
  /\ held \in [Schemes -> Threads \cup {NoThread}]
  /\ s \in [Threads -> Schemes]
  /\ pc \in [Threads -> Points]
  /\ k \in [Threads -> Continuations]
  /\ active \in Threads \cup {NoThread}
  /\ next \in [Threads -> Threads \cup {NoThread}]
  /\ prev \in [Threads -> Threads \cup {NoThread}]
  /\ caml_state \in Threads \cup {NoThread}
  /\ saved \in [Threads -> Threads \cup {NoThread}]

TickTypeOK ==
  /\ tick \in {"none", "test", "sleep", "exited"}
  /\ tick_running \in BOOLEAN
  /\ tick_stop \in BOOLEAN
  /\ tick_disabled \in BOOLEAN
  /\ interrupt \in BOOLEAN
  /\ tick_stop => tick_running

\* The types of the variables; Tick_thread_stop is set only while a tick thread
\* is on record, so that a new one does not exit at once.
TypeOK == ThreadTypeOK /\ TickTypeOK

\* caml_thread_initialize, on the main thread, which holds the new lock.
Init ==
  /\ scheme = Default
  /\ held = [x \in Schemes |-> IF x = Default THEN Main ELSE NoThread]
  /\ s = [t \in Threads |-> Default]
  /\ pc = [t \in Threads |-> IF t = Main THEN "run" ELSE "none"]
  /\ k = [t \in Threads |-> "leave"]
  /\ active = Main
  /\ next = [t \in Threads |-> IF t = Main THEN Main ELSE NoThread]
  /\ prev = next
  /\ caml_state = Main
  /\ saved = [t \in Threads |-> NoThread]
  /\ tick = "none"
  /\ tick_running = FALSE
  /\ tick_stop = FALSE
  /\ tick_disabled = FALSE
  /\ interrupt = FALSE

(***************************************************************************)
(* The runtime state.  A thread that goes on to run OCaml code outruns the *)
(* copy it was restored from: its info block has nobody's state then.      *)
(***************************************************************************)
save_runtime_state == saved' = [saved EXCEPT ![active] = caml_state]

\* restore_runtime_state(t), then on to OCaml code.
RestoreAndRun(t) ==
  /\ active' = t
  /\ caml_state' = saved[t]
  /\ saved' = [saved EXCEPT ![t] = NoThread]
  /\ pc' = [pc EXCEPT ![t] = "run"]
  /\ UNCHANGED <<next, prev>>

\* A thread leaves the functions that use [s] and [k].
Forget(t) ==
  /\ s' = [s EXCEPT ![t] = Default]
  /\ k' = [k EXCEPT ![t] = "leave"]

Unlock(x) == held' = [held EXCEPT ![x] = NoThread]

thread_lock_release == Unlock(scheme) /\ UNCHANGED scheme

\* Call thread_lock_acquire, and go on with c.
AcquireThen(t, c) ==
  /\ pc' = [pc EXCEPT ![t] = "load"]
  /\ k' = [k EXCEPT ![t] = c]

(***************************************************************************)
(* thread_lock_acquire.  The holder may replace the scheme while others    *)
(* wait for the old one, so whoever gets a lock looks again.               *)
(***************************************************************************)
LoadScheme(t) ==
  /\ pc[t] = "load"
  /\ s' = [s EXCEPT ![t] = scheme]
  /\ pc' = [pc EXCEPT ![t] = "lock"]
  /\ UNCHANGED <<locks, k, list, ticks>>

LockScheme(t) ==
  /\ pc[t] = "lock"
  /\ held[s[t]] = NoThread
  /\ held' = [held EXCEPT ![s[t]] = t]
  /\ pc' = [pc EXCEPT ![t] = "verify"]
  /\ UNCHANGED <<scheme, local, list, ticks>>

\* Mutant: try again without unlocking.
WrongSchemeKeepsLock(t) ==
  /\ pc[t] = "verify"
  /\ scheme # s[t]
  /\ AcquireThen(t, k[t])
  /\ UNCHANGED <<locks, s, list, ticks>>

WrongScheme(t) ==
  /\ pc[t] = "verify"
  /\ scheme # s[t]
  /\ pc' = [pc EXCEPT ![t] = "giveback"]
  /\ UNCHANGED <<locks, local, list, ticks>>

\* Mutant: the retry label is after the load of the scheme.
GiveBackNoReload(t) ==
  /\ pc[t] = "giveback"
  /\ Unlock(s[t])
  /\ pc' = [pc EXCEPT ![t] = "lock"]
  /\ UNCHANGED <<scheme, local, list, ticks>>

\* Unlock a lock that is not the runtime lock, then thread_lock_acquire.
GiveBack(t) ==
  /\ pc[t] = "giveback"
  /\ Unlock(s[t])
  /\ s' = [s EXCEPT ![t] = Default]
  /\ AcquireThen(t, k[t])
  /\ UNCHANGED <<scheme, list, ticks>>

Verified(t) == pc[t] = "verify" /\ scheme = s[t]

\* The lock is the runtime lock: caml_thread_start, the end of a blocking
\* section, of a switch or of a yield.
Resume(t) ==
  /\ Verified(t)
  /\ k[t] \in {"start", "leave", "switch", "yield"}
  /\ RestoreAndRun(t)
  /\ Forget(t)
  /\ UNCHANGED <<locks, ticks>>

(***************************************************************************)
(* Blocking sections, yields and switches of the locking scheme.           *)
(***************************************************************************)
EnterBlockingSection(t) ==
  /\ pc[t] = "run"
  /\ save_runtime_state
  /\ thread_lock_release
  /\ pc' = [pc EXCEPT ![t] = "out"]
  /\ UNCHANGED <<local, active, next, prev, caml_state, ticks>>

LeaveBlockingSection(t) ==
  /\ pc[t] = "out"
  /\ AcquireThen(t, "leave")
  /\ UNCHANGED <<locks, s, list, ticks>>

\* The threads that wait for the lock of scheme x.
Queue(x) == {t \in Threads : pc[t] \in {"lock", "yield"} /\ s[t] = x}

\* The default scheme skips a yield when nobody waits; others have no
\* can_skip_yield.
CanSkipYield == scheme = Default /\ Queue(scheme) = {}

caml_thread_yield(t) ==
  /\ save_runtime_state
  /\ thread_lock_release
  /\ s' = [s EXCEPT ![t] = scheme]
  /\ pc' = [pc EXCEPT ![t] = "yield"]
  /\ UNCHANGED <<k, active, next, prev, caml_state>>

Yield(t) ==
  /\ pc[t] = "run"
  /\ ~CanSkipYield
  /\ caml_thread_yield(t)
  /\ UNCHANGED ticks

\* s->yield takes its lock back.
YieldLock(t) ==
  /\ pc[t] = "yield"
  /\ held[s[t]] = NoThread
  /\ held' = [held EXCEPT ![s[t]] = t]
  /\ pc' = [pc EXCEPT ![t] = "yielded"]
  /\ UNCHANGED <<scheme, local, list, ticks>>

\* Mutant: the yield does not look whether its lock is still the runtime lock.
YieldReturnsUnchecked(t) ==
  /\ pc[t] = "yielded"
  /\ RestoreAndRun(t)
  /\ Forget(t)
  /\ UNCHANGED <<locks, ticks>>

YieldReturns(t) ==
  /\ pc[t] = "yielded"
  /\ scheme = s[t]
  /\ RestoreAndRun(t)
  /\ Forget(t)
  /\ UNCHANGED <<locks, ticks>>

YieldRetries(t) ==
  /\ pc[t] = "yielded"
  /\ scheme # s[t]
  /\ pc' = [pc EXCEPT ![t] = "giveback"]
  /\ k' = [k EXCEPT ![t] = "yield"]
  /\ UNCHANGED <<locks, s, list, ticks>>

\* Mutant: the switch forgets that other threads may run before it returns.
SwitchSchemeUnsaved(t, new) ==
  /\ pc[t] = "run"
  /\ s' = [s EXCEPT ![t] = scheme]
  /\ scheme' = new
  /\ pc' = [pc EXCEPT ![t] = "giveback"]
  /\ k' = [k EXCEPT ![t] = "switch"]
  /\ UNCHANGED <<held, list, ticks>>

\* caml_switch_runtime_locking_scheme: the old lock is given up after the
\* exchange, when it is not the runtime lock any more.
SwitchScheme(t, new) ==
  /\ pc[t] = "run"
  /\ save_runtime_state
  /\ s' = [s EXCEPT ![t] = scheme]
  /\ scheme' = new
  /\ pc' = [pc EXCEPT ![t] = "giveback"]
  /\ k' = [k EXCEPT ![t] = "switch"]
  /\ UNCHANGED <<held, active, next, prev, caml_state, ticks>>

(***************************************************************************)
(* The list of info blocks.                                                *)
(***************************************************************************)
InsertAfterActive(t) ==
  /\ next' = [next EXCEPT ![t] = next[active], ![active] = t]
  /\ prev' = [prev EXCEPT ![t] = active, ![next[active]] = t]

\* Take t out of the list and free it.
Unlink(t) ==
  /\ next' = [next EXCEPT ![prev[t]] = next[t], ![t] = NoThread]
  /\ prev' = [prev EXCEPT ![next[t]] = prev[t], ![t] = NoThread]
  /\ saved' = [saved EXCEPT ![t] = NoThread]

\* Mutant: Active_thread stays with the freed block (PR#5295).
RemoveAndFreeActive(t) ==
  /\ next[t] # t
  /\ Unlink(t)
  /\ UNCHANGED <<active, caml_state>>

\* caml_thread_remove_and_free of a thread that is not alone: Caml_state must
\* not stay with a freed info block.
RemoveAndFree(t) ==
  /\ next[t] # t
  /\ active' = IF active = t THEN next[t] ELSE active
  /\ caml_state' = IF active = t THEN saved[next[t]] ELSE caml_state
  /\ Unlink(t)

\* The last thread: reset_active stops the tick thread first, if there is one.
RemoveLast(t) ==
  /\ next[t] = t
  /\ active' = NoThread
  /\ ~tick_running
  /\ Unlink(t)
  /\ UNCHANGED caml_state

StopTickThen(t, c) ==
  /\ tick_running
  /\ tick_stop' = TRUE
  /\ pc' = [pc EXCEPT ![t] = "tickjoin"]
  /\ k' = [k EXCEPT ![t] = c]

RemoveLastStopsTick(t, c) ==
  /\ next[t] = t
  /\ active' = NoThread
  /\ StopTickThen(t, c)
  /\ UNCHANGED <<locks, s, next, prev, caml_state, saved>>
  /\ UNCHANGED <<tick, tick_running, tick_disabled, interrupt>>

\* The end of caml_thread_stop and of caml_c_thread_unregister.
Gone(t) ==
  /\ thread_lock_release
  /\ pc' = [pc EXCEPT ![t] = "none"]
  /\ Forget(t)

(***************************************************************************)
(* start_tick_thread, where [may] says whether it is called at all.        *)
(***************************************************************************)
StartTick(may) ==
  /\ IF may /\ ~tick_running
     THEN tick' = "test" /\ tick_running' = TRUE
     ELSE UNCHANGED <<tick, tick_running>>
  /\ UNCHANGED <<tick_stop, tick_disabled, interrupt>>

TickNotCreated(may) == TickMayFail /\ may /\ ~tick_running /\ UNCHANGED ticks

(***************************************************************************)
(* Creation and termination of threads.                                    *)
(***************************************************************************)

\* caml_thread_new.  When the tick thread cannot be created the caller gets
\* an exception, but the new thread is there.
ThreadNew(t, u) ==
  /\ pc[t] = "run"
  /\ pc[u] = "none"
  /\ InsertAfterActive(u)
  /\ saved' = [saved EXCEPT ![u] = u]
  /\ AcquireThen(u, "start")
  /\ StartTick(~tick_disabled) \/ TickNotCreated(~tick_disabled)
  /\ UNCHANGED <<locks, s, active, caml_state>>

ThreadStop(t) ==
  /\ pc[t] = "run"
  /\ \/ (RemoveAndFree(t) \/ RemoveLast(t)) /\ Gone(t) /\ UNCHANGED ticks
     \/ RemoveLastStopsTick(t, "stop")

\* caml_c_thread_register and caml_c_thread_unregister.
RegisterCall(t) ==
  /\ pc[t] = "none"
  /\ AcquireThen(t, "register")
  /\ UNCHANGED <<locks, s, list, ticks>>

RegisterFails(t) ==
  /\ Verified(t)
  /\ k[t] = "register"
  /\ Gone(t)
  /\ UNCHANGED <<list, ticks>>

Register(t) ==
  /\ Verified(t)
  /\ k[t] = "register"
  /\ IF active = NoThread
     THEN next' = [next EXCEPT ![t] = t] /\ prev' = [prev EXCEPT ![t] = t]
     ELSE InsertAfterActive(t)
  /\ active' = t
  /\ caml_state' = t
  /\ saved' = [saved EXCEPT ![t] = t]
  /\ StartTick(~tick_disabled)
  /\ thread_lock_release
  /\ pc' = [pc EXCEPT ![t] = "out"]
  /\ Forget(t)

UnregisterCall(t) ==
  /\ pc[t] = "out"
  /\ AcquireThen(t, "unregister")
  /\ UNCHANGED <<locks, s, list, ticks>>

Unregister(t) ==
  /\ Verified(t)
  /\ k[t] = "unregister"
  /\ \/ (RemoveAndFree(t) \/ RemoveLast(t)) /\ Gone(t) /\ UNCHANGED ticks
     \/ RemoveLastStopsTick(t, "unregister")

(***************************************************************************)
(* The tick thread, and caml_enable_tick_thread.                           *)
(***************************************************************************)
TickTests ==
  /\ tick = "test"
  /\ tick' = IF tick_stop THEN "exited" ELSE "sleep"
  /\ UNCHANGED <<locks, local, pc, list>>
  /\ UNCHANGED <<tick_running, tick_stop, tick_disabled, interrupt>>

TickFires ==
  /\ tick = "sleep"
  /\ tick' = "test"
  /\ interrupt' = TRUE
  /\ UNCHANGED <<locks, local, pc, list, tick_running, tick_stop, tick_disabled>>

\* Mutant: the interrupt is taken and forgotten.
PollInterruptOnly(t) ==
  /\ pc[t] = "run"
  /\ interrupt
  /\ interrupt' = FALSE
  /\ UNCHANGED <<locks, local, pc, list, tick, tick_running, tick_stop, tick_disabled>>

\* caml_thread_interrupt_hook, at a poll point of the running thread.
PollInterrupt(t) ==
  /\ pc[t] = "run"
  /\ interrupt
  /\ interrupt' = FALSE
  /\ \/ CanSkipYield /\ UNCHANGED <<locks, local, pc, list>>
     \/ ~CanSkipYield /\ caml_thread_yield(t)
  /\ UNCHANGED <<tick, tick_running, tick_stop, tick_disabled>>

EnableTick(t) ==
  /\ pc[t] = "run"
  /\ tick_disabled' = FALSE
  /\ IF tick_running
     THEN UNCHANGED <<tick, tick_running>>
     ELSE tick' = "test" /\ tick_running' = TRUE
  /\ UNCHANGED <<locks, local, pc, list, tick_stop, interrupt>>

DisableTick(t) ==
  /\ pc[t] = "run"
  /\ \/ /\ ~tick_running
        /\ tick_disabled' = TRUE
        /\ UNCHANGED <<k, pc, tick_stop>>
     \/ StopTickThen(t, "disable") /\ UNCHANGED tick_disabled
  /\ UNCHANGED <<locks, s, list, tick, tick_running, interrupt>>

\* Mutant: caml_enable_tick_thread(false) does not record what it did.
TickJoinedUnrecorded(t) ==
  /\ pc[t] = "tickjoin"
  /\ tick \in {"exited", "none"}
  /\ tick' = "none"
  /\ tick_stop' = FALSE
  /\ tick_running' = FALSE
  /\ k[t] = "disable"
  /\ pc' = [pc EXCEPT ![t] = "run"]
  /\ Forget(t)
  /\ UNCHANGED <<locks, list, tick_disabled, interrupt>>

\* stop_tick_thread returns from pthread_join, whose errors are ignored, and
\* the caller goes on.
TickJoined(t) ==
  /\ pc[t] = "tickjoin"
  /\ tick \in {"exited", "none"}
  /\ tick' = "none"
  /\ tick_stop' = FALSE
  /\ tick_running' = FALSE
  /\ \/ /\ k[t] = "disable"
        /\ tick_disabled' = TRUE
        /\ pc' = [pc EXCEPT ![t] = "run"]
        /\ Forget(t)
        /\ UNCHANGED <<locks, list>>
     \/ /\ k[t] # "disable"
        /\ Unlink(t)
        /\ Gone(t)
        /\ UNCHANGED <<active, caml_state, tick_disabled>>
  /\ UNCHANGED interrupt

\* Mutant: the lock is free after its reinitialisation.
ForkUnlocked(t) ==
  /\ CanFork
  /\ pc[t] = "run"
  /\ pc' = [u \in Threads |-> IF u = t THEN "run" ELSE "none"]
  /\ next' = [u \in Threads |-> IF u = t THEN t ELSE NoThread]
  /\ prev' = next'
  /\ saved' = [u \in Threads |-> NoThread]
  /\ Unlock(scheme)
  /\ tick' = "none"
  /\ s' = [u \in Threads |-> Default]
  /\ k' = [u \in Threads |-> "leave"]
  /\ UNCHANGED <<scheme, active, caml_state>>
  /\ UNCHANGED <<tick_running, tick_stop, tick_disabled, interrupt>>

(***************************************************************************)
(* fork, seen from the child, in which the other threads do not exist      *)
(* (caml_thread_reinitialize); the parent is not affected.  Only the       *)
(* current scheme's lock is reinitialised, and Tick_thread_running stays.  *)
(***************************************************************************)
Fork(t) ==
  /\ CanFork
  /\ pc[t] = "run"
  /\ pc' = [u \in Threads |-> IF u = t THEN "run" ELSE "none"]
  /\ next' = [u \in Threads |-> IF u = t THEN t ELSE NoThread]
  /\ prev' = next'
  /\ saved' = [u \in Threads |-> NoThread]
  /\ held' = [held EXCEPT ![scheme] = t]
  /\ tick' = "none"
  /\ s' = [u \in Threads |-> Default]
  /\ k' = [u \in Threads |-> "leave"]
  /\ UNCHANGED <<scheme, active, caml_state>>
  /\ UNCHANGED <<tick_running, tick_stop, tick_disabled, interrupt>>

(***************************************************************************)
(* The specification.  A thread inside thread_lock_acquire or a yield goes *)
(* on by itself, and so does the tick thread; a running thread polls.      *)
(***************************************************************************)
Acquiring(t) ==
  \/ LoadScheme(t) \/ LockScheme(t) \/ WrongScheme(t) \/ GiveBack(t)
  \/ YieldLock(t) \/ YieldRetries(t)

Arriving(t) ==
  \/ Resume(t) \/ YieldReturns(t) \/ Register(t) \/ RegisterFails(t)
  \/ Unregister(t)

Running(t) ==
  \/ EnterBlockingSection(t) \/ Yield(t)
  \/ \E new \in Schemes : SwitchScheme(t, new)
  \/ \E u \in OCamlThreads : ThreadNew(t, u)
  \/ EnableTick(t) \/ DisableTick(t) \/ Fork(t)

Next ==
  \/ \E t \in Threads :
       \/ Acquiring(t) \/ Arriving(t) \/ Running(t) \/ LeaveBlockingSection(t)
       \/ PollInterrupt(t) \/ TickJoined(t)
  \/ \E t \in OCamlThreads : ThreadStop(t)
  \/ \E t \in CThreads : RegisterCall(t) \/ UnregisterCall(t)
  \/ TickTests \/ TickFires

Spec == Init /\ [][Next]_vars

Fairness ==
  /\ \A t \in Threads : WF_vars(Acquiring(t) \/ Arriving(t) \/ TickJoined(t))
  /\ \A t \in Threads : WF_vars(PollInterrupt(t))
  /\ WF_vars(TickTests \/ TickFires)

FairSpec == Spec /\ Fairness

--------------------------------------------------------------------------------
(***************************************************************************)
(* Properties.                                                             *)
(***************************************************************************)

\* The threads that act as if they had the runtime lock.
InRuntime(t) == pc[t] \in {"run", "tickjoin"} \/ Verified(t)

\* Whichever scheme is in force, and however it changed while threads waited,
\* one thread at a time is in the runtime, and it holds the scheme's lock.
RuntimeExcludes == \A t \in Threads : InRuntime(t) => held[scheme] = t

\* No thread ends up with the lock of a scheme and no intention to give it back
\* or to run: a lock is held exactly by the threads whose code will release it.
LocksAccounted ==
  \A x \in Schemes : \A t \in Threads :
    held[x] = t <=>
      \/ pc[t] \in {"verify", "yielded", "giveback"} /\ s[t] = x
      \/ pc[t] \in {"run", "tickjoin"} /\ x = scheme

\* The comment at Active_thread: "at every safe point, either Active_thread is
\* NULL, or Caml_state is setup for Active_thread"; and a thread that runs finds
\* its own latest state in Caml_state.
CamlStateSetUp ==
  /\ active # NoThread => caml_state = active
  /\ \A t \in Threads : pc[t] = "run" => active = t

\* The threads whose info block must exist: they run, wait or will come back.
Registered(t) ==
  pc[t] # "none" /\ ~(pc[t] \in {"load", "lock", "verify", "giveback"} /\ k[t] = "register")

\* The info blocks met from t along next: they are in every set with t in it
\* that next does not lead out of.
Ahead(t) ==
  LET Blocks == Threads \cup {NoThread}
      Closed(S) == \A u \in S \ {NoThread} : next[u] \in S
  IN  {u \in Blocks : \A S \in SUBSET Blocks : t \in S /\ Closed(S) => u \in S}

\* caml_thread_scan_roots, which walks from Active_thread along next until it
\* is back, meets every thread and no freed block; and the state that it scans
\* for a thread other than the active one is that thread's current state.
ScanMeetsAll ==
  active # NoThread =>
    /\ Ahead(active) = {t \in Threads : Registered(t)}
    /\ \A t \in Ahead(active) : prev[next[t]] = t
    /\ \A t \in Ahead(active) \ {active} : saved[t] = t

\* As soon as two threads are registered, a tick thread forces them to share the
\* runtime, unless ticking is disabled.
TickForMany ==
  Cardinality({t \in Threads : Registered(t)}) > 1 /\ ~tick_disabled
    /\ (\A t \in Threads : pc[t] # "tickjoin")
  => tick \in {"test", "sleep"}

\* A thread does not keep the runtime while others wait for it and the tick
\* thread is alive.
Preempted ==
  \A t \in Threads :
    pc[t] = "run" /\ Queue(scheme) # {} /\ tick # "none"
      ~> pc[t] # "run" \/ tick = "none"

\* A runtime nobody is in, with a thread on its way to it, is entered: the
\* retries of thread_lock_acquire come to an end.
RuntimeIsEntered ==
  (\E t \in Threads : pc[t] \in {"load", "lock", "verify", "giveback", "yield"})
    ~> (\E t \in Threads : InRuntime(t))

\* The runtime lock as its users see it, whatever the scheme.
holder ==
  IF \E t \in Threads : pc[t] \in {"run", "tickjoin"}
  THEN CHOOSE t \in Threads : pc[t] \in {"run", "tickjoin"}
  ELSE NoThread
Abstract == INSTANCE RuntimeLock

\* A lock made of several locking schemes, replaced while threads wait for them,
\* is still one runtime lock.
RefinesRuntimeLock == Abstract!Spec

\* The assertion of caml_thread_stop: "There is always one more thread in the
\* chain at this point in time."
StopHasCompany == [][\A t \in OCamlThreads : ThreadStop(t) => next[t] # t]_vars
================================================================================
