# Verification of flambda-backend: the runtime and the register allocator

flambda-backend is Jane Street's OCaml compiler: a fork of the OCaml
distribution (`ocaml/`, with its front end, standard library, libraries and two
runtimes) and a native back end of its own (`middle_end/flambda2`, `backend`).
Most of it is a sequential translator. What every OCaml program shares at run
time is concurrent or incremental, and most of this project is about that: the
threads of a domain and their locks, signals, the garbage collector that runs
between the steps of the program, the profiler and the tables that are updated
under running callbacks, the lock-free list and the ring buffers. The one part
of the translator that is modelled, the register allocator, is the one whose
work lists are the hardest to keep consistent.

The modules of the runtime describe `ocaml/runtime` (the runtime of OCaml 5) and
the libraries on top of it on Linux with glibc on amd64, where `sync_posix.h`
replaces condition variables by futex calls and stores become visible in program
order.

## 1. Inventory

| part | source | state | operations | interacts with |
|---|---|---|---|---|
| master lock | `systhreads/st_pthreads.h` | `lock`, `busy`, `waiters`, condition `is_free` | acquire, release, yield | every thread; `sync_posix.h` for the futex |
| threads of a domain | `systhreads/st_stubs.c` | `Locking_scheme`, `Active_thread`, circular list of info blocks, copies of `Caml_state`, tick thread flags | blocking sections, yield, change of scheme, create, stop, register and unregister from C, ticks, fork | master lock through the scheme's function pointers; GC through `scan_roots`; signals through the interrupt hook |
| Thread.join | `st_pthreads.h` 235-291, `st_stubs.c` 955-1019 | a termination event per thread | trigger, wait | mutex and condition |
| Mutex, Condition | `runtime/sync.c`, `sync_posix.h` | a pthread mutex of type ERRORCHECK, a counter per condition | lock, try_lock, unlock, wait, signal, broadcast | blocking sections: calls that block give up the runtime lock |
| Semaphore | `stdlib/semaphore.ml` | value, mutex, condition | acquire, try_acquire, release | Mutex, Condition |
| Event | `systhreads/event.ml` | one global mutex, a pair of queues per channel, `performed` and a condition per call | sync, poll, select | Mutex, Condition |
| runtime events | `runtime/runtime_events.c`, `runtime_events_consumer.c` | per domain a ring with `ring_head`, `ring_tail`; per cursor a position in each ring | write, pause, resume; read_poll | shared memory, no lock; callbacks into OCaml |
| signals | `runtime/signals.c`, parts of `domain.c`, `minor_gc.c`, `finalise.c`, `st_stubs.c` | pending signals, `action_pending`, `young_limit`, requests, masks, finalisers to run | record, scan, execute, poll, blocking sections, Sys.signal, Thread.sigmask | every poll point, the tick thread, finalisers |
| domains | `runtime/domain.c` | interruptors, stop-the-world request, barriers | spawn, interrupt, barrier | GC, backup thread (disabled here: `domain.c:978` is a fatal error) |
| garbage collectors | `major_gc.c`, `minor_gc.c`, `shared_heap.c`, `memory.c`, `weak.c`, `finalise.c`, `fiber.c` | phases, colours, mark stack, remembered sets, ephemeron lists and cursors, finaliser tables | slices, phase changes, barriers, promotion, ephemeron accesses, finaliser calls | mutator between any two steps |
| skip list | `lf_skiplist.c`, used by `codefrag.c` | cells with marked pointers on several levels, a garbage list | find, find_below, insert, remove, free_garbage | threads without a lock |
| memprof | `memprof.c` | entries tables of the domain, of threads, orphans; running callbacks | sample, callbacks, minor and major collections, start, stop, discard | GC, threads, OCaml callbacks |
| channels, roots | `io.c`, `globroots.c` | tables hung on the domain | table updates | GC, threads |
| register allocators | `backend/regalloc` | work lists, interference graph, colours, spills | build, simplify, coalesce, freeze, spill, assign, rewrite | CFG, liveness |
| CFG, Flambda 2, front end, drivers, tools | `backend/cfg`, `middle_end`, `ocaml/typing`, ... | terms | translation | files |
| OCaml 4 runtime | `ocaml/runtime4`, `systhreads4` | as above, one heap lock | as above | as above |

What is hard to test in the parts that are modelled:

* **interleavings**: a release that signals after it has unlocked; a locking
  scheme that changes while threads wait for its lock, and again while they give
  it back; a cursor that copies words while a domain overwrites them;
* **lost and stolen wakeups**: futex calls that return early, at once or never;
  a signal in two steps; a woken thread that finds the token gone;
* **circular waits**: a mutex and the runtime lock taken in two orders; a tick
  thread joined with the runtime lock held;
* **stale state**: `m->waiters` read without the mutex, a runtime state restored
  from an old copy, offers in queues of calls that are over;
* **failure in the middle**: a thread or the tick thread that cannot be created,
  a callback that raises during a poll, an overflowing semaphore;
* **fork**, which leaves one thread and whatever state the others were in;
* **one more step of the program in the middle of a phase**: a key read back, a
  value revived, a block written between two ephemerons of a marking pass;
* **callbacks** that move, discard or restart what their caller iterates over;
* **a flag read, then a lock given up, then the flag relied on**: pending actions
  against blocking sections, yields and `young_limit`;
* **bookkeeping in two places**: a register's field and the array of the list it
  is on, a degree and the neighbours it counts, over many merges and spills.

`PROJECT.json` lists the most important of them under `hazards`, at the line where
each bites, with the properties that watch it or the reason why none does.

## 2. Modules

```
RuntimeLock            abstract: one holder
  ^ implemented by       Masterlock   (busy, waiters, futex)      MasterlockProofs
  ^ implemented by       Systhreads   (schemes, list, tick, fork) SysthreadsProofs
Monitor                abstract: a mutex and its conditions
  ^ implemented by       Sync         (sync.c on futexes)         SyncProofs
  used by                Semaphore                                SemaphoreProofs
                         Event                                    EventProofs
LossyLog               abstract: a log that loses its oldest events
  ^ implemented by       RuntimeEvents (ring writer and cursor)   RuntimeEventsProofs
Dictionary             abstract: atomic operations on keys
  ^ implemented by       LfSkiplist   (marked pointers, levels, garbage)
                                                                  LfSkiplistProofs
Gc                     mutator, minor and major heap, ephemerons, finalisers
Signals                signals, pending actions, polls, masks     SignalsProofs
Memprof                tables of sampled blocks and their callbacks
Irc                    register allocation by iterated coalescing
MC*.tla, MC*.cfg       instances for TLC
```

Names follow the source where TLA+ allows. Definitions whose comment begins with
"Mutant" are the plausible mistakes with which each property is tested: replacing
the definition after it by the mutant makes TLC report the property violated.
Several invariants are conjunctions of named parts, so that a part can be given to
TLC or to the prover alone.

### Masterlock

A step is what other threads see at once: a stretch of code under `m->lock` up
to the next access outside it. Three accesses are outside: the increment of the
futex counter and the `FUTEX_WAKE` of a release, which come after its unlock;
the futex call of a waiter; the unprotected read of `m->waiters` that decides
whether a yield is skipped. The futex counter is only compared with an older
value of itself, so the model keeps the threads for which the comparison would
succeed (`fresh`); the 32 bit counter going once around during one call of wait
is excluded. `FutexInterrupted` is a wait that ends by itself.

| state | code | actions | code |
|---|---|---|---|
| `mutex`, `busy`, `waiters` | fields of `st_masterlock` | `Acquire*` | `st_masterlock_acquire` |
| `fresh`, `pc = asleep` | `custom_condvar` | `Release*`, `Bump` | `st_masterlock_release`, `custom_condvar_signal` |
| `tested` | the result of `default_can_skip_yield` | `Yield*` | `caml_thread_yield`, `st_thread_yield` |

### Systhreads

Threads of OCaml and of C over a set of locking schemes whose locks are abstract
(what `Masterlock` implements). Whatever a thread does with the runtime lock is
one step; `thread_lock_acquire` (`LoadScheme`, `LockScheme`, `WrongScheme`,
`GiveBack`, `Resume`) and `s->yield` are separate steps. `k` says what follows
when the lock has been obtained. The runtime state is abstracted to whose state
it is: `caml_state` for `Caml_state`, `saved[t]` for the copy in the info block
of `t`, where a running thread outruns its copy. `Fork` is the child's view. The
tick thread tests and sleeps (`TickTests`, `TickFires`); a running thread polls
(`PollInterrupt`).

### Monitor, Sync, Semaphore, Event

`Monitor` is what `mutex.mli` and `condition.mli` say. `Sync` has one mutex,
several conditions and threads that make any call in any order, rightly or
wrongly, each with the runtime lock except where the code has a blocking section.
`Semaphore` and `Event` are written on `Monitor`. `Semaphore` chooses counting or
binary, the initial value, and whether it is used as a lock. `Event` numbers the
calls of `sync` and `poll`; a call has a menu of basic events, and its offers
stay in the channels' queues when it is over, as in the code.

### RuntimeEvents and LossyLog

A domain and a cursor share `head`, `tail` and `data`; a step accesses one word.
A word carries the position, the event and the number of the word, so that a
torn copy is visible; read as a header where it is not one, it has any length.
`Writers` are the domains that run. `Padding`, the loop that gives up old events
(`AdvanceHead`), the two stores of `ring_tail` and the two reads of `ring_head`
are as in the code, and so are the five ways out of the loop of `read_poll`
(`EndBody`). Callbacks may fail. `LossyLog` says what a consumer may rely on:
events whole and in order, and a skip only over events that were dropped.

### Gc

One domain, and a program that allocates, reads, writes, drops, resumes a
continuation or uses an ephemeron between any two steps of the collector. A slice
does any amount of work, so a step is one block swept or marked, one ephemeron
examined, one finaliser table scanned; what a slice does whatever its budget
(leaving a phase) belongs to the step. A block keeps its identity when promoted;
`colour` is its status relative to the rotating colours. `Shapes` bounds the
blocks per kind, the young blocks and the finalisers. Two uses of the interface
that break the collector's own assertions are switched by constants (section 4).
`LateLast` is about `Gc.finalise_last`. `ReuseKeys` is about the keys of
ephemerons: `caml_ephe_set_key` and `caml_ephe_blit_key` are modelled with no
guard, as `weak.c` has none, and a program with `ReuseKeys = FALSE` takes these
steps except in the one situation named by `DataIsHidden`: during marking, on an
ephemeron whose data is reached through ephemerons only, to replace a key that the program has
lost, or to set a young one. Data first and key second, as
`Ephemeron` creates its entries, and every change of a key that the program still
holds, are in the run.

| state | code | actions | code |
|---|---|---|---|
| `phase`, `sweeping_done`, `marking_done`, mark stack | `caml_gc_phase`, domain state | `SweepOne`, `SweepDone`, `start_marking`, `MarkOne`, `MarkDone`, `try_complete_gc_phase`, `stw_cycle_all_domains` | `major_collection_slice`, `mark`, `caml_sweep` |
| ephemeron lists, cursor, cycle | `struct caml_ephe_info`, `ephe_cycle_info` | `EpheMark*`, `EpheSweepBegin`, `ephe_sweep`, accesses of the program | `ephe_mark`, `ephe_sweep`, `weak.c` |
| finaliser tables, `todo` | `struct caml_final_info` | registration, scans, calls | `finalise.c` |
| `major_ref`, `ephe_ref` | remembered sets | writes, minor collection | `caml_modify`, `caml_empty_minor_heap` |

### LfSkiplist and Dictionary

A step is one access to the shared list; `pc` and `loc` are a call's position and
variables. `Dictionary` lets an operation answer with any value its key had
during the call. Garbage is freed by one writer between calls, which is how
`codefrag.c` uses it; the run mixes that profile with two concurrent writers and
no freeing.

### Signals

POSIX handlers run in any thread at any moment, with or without the master lock.
The frames of a thread's stack are the C functions under way; a step of the
lock's owner is one access to what handlers and the tick thread write. The
`urgent` and `raises` switches of a program enable two behaviours under which
"noticed" has exceptions (section 4): the invariants on pending actions are
stated for programs without them, all others for every program.

### Memprof

Tables of entries move between threads, the domain and orphans while callbacks
run. Every place where memprof can lose the master lock (its callbacks and its
own allocations) ends a step. `failed` collects the assertions of the code that
have failed; `AssertionsHold` admits the three situations listed in section 4 and
nothing else. Which words are sampled is a free choice.

### Irc

`state` is `Regalloc_irc_state.t` with the fields of the registers and moves, and
operators map a state to the next; an iteration of the loop of `main` is an action,
and so is each phase around it. A register's list is kept twice, as in the code: in
its field and in the arrays. Blocks are straight lines; liveness, edges, moves,
destroyed registers, names of one hardware register at two types, and the loads
and stores of spilled registers are computed from the code. A block may be the body
of nested loops (`loop_depths`), which weighs its uses for
`IRC_SPILLING_HEURISTICS`: `Candidates` is the three heuristics, with
`weighted_cost` the cost per neighbour and the 10_000 that is added for registers
introduced for spilling, compared as fractions; equal costs leave the choice open. `Reads` executes code symbolically through the places the
allocation chose.

## 3. Runs

| run | instance | properties and what they show |
|---|---|---|
| `masterlock` | 3 threads, futex calls may be interrupted | `WaitersExact`, `NoLostWakeup`, `FreeLockIsTaken` (with fairness, a free lock that is waited for is taken), `RefinesRuntimeLock` (one holder) |
| `systhreads` | main thread and a created one, two schemes, fairness | `RefinesRuntimeLock` (one thread in the runtime whatever the schemes), `LocksAccounted` (no lock left behind), `CamlStateSetUp` (the right runtime state), `TickForMany`, `Preempted`, `RuntimeIsEntered` (`thread_lock_acquire` ends) |
| `systhreads_fork` | main, two created (interchangeable), one from C; fork; a tick thread that may fail to start | `ScanMeetsAll` (the list the GC walks has exactly the live threads with their current states), `RuntimeExcludes` |
| `sync` | 3 threads, 2 conditions | `LocksOrdered` (no circle of mutex and runtime lock), `SignalRestarts` (a proper signal or broadcast restarts whom it should), `RefinesMonitor` |
| `semaphore` | 4 threads, `max_int` 2 | `TokensAccounted`: no token stranded while a thread sleeps, none lost or invented |
| `event` | 3 threads, 2 channels, 7 menus, 4 calls | `NobodyLeftWaiting` (no missed rendez-vous, whoever is performed is woken), `RendezvousComplete` (one-to-one communication, results exist) |
| `runtime_events` | rings of 8 words, events of 2 and 3, positions up to 16, polls with and without a limit | `EventsInReach` (the ring stays parseable, a full poll reads or reports everything), `RefinesLossyLog` |
| `gc` | 3 addresses, 7 shapes of programs | `HeapIntact` (nothing reachable freed, every old-to-young pointer remembered, no freed block on a list), `MarkingIsOver`, `GarbageReclaimed`, `FinalisersExact` (once, and only for the unreachable), `CycleAdvances` (no step takes the cycle away from its end) |
| `lf_skiplist` | 2 threads, 2 keys, 2 levels, 3 or 4 calls | `CellsAccounted` (levels sorted, no freed cell reached, none leaked), `LookupAdvances` (lookups are wait-free), `RefinesDictionary` |
| `signals` | 2 threads, 2 signals, 4 profiles of calls and events | `SignalsKept` (none lost), `HandlersDue` (none run masked or early, masks restored), `EventsNoticed` (whatever is pending is noticed at a poll), `SignalHandled` (an unmasked signal is handled) |
| `memprof` | 2 threads, 6 programs | `AssertionsHold`, `TablesConsistent` (callbacks find their entries again, tables freed only when unused), `BlocksTracked` (no block lost or tracked twice, callbacks in order and by the right thread), `PendingNoticed` |
| `irc` | 2 hardware registers, one with 2 names; 696 functions of up to 3 of 16 blocks, each block outside loops or in 4, 3 heuristics | `ListsConsistent` (the debug-only `State.invariant`, lists by degree and moves, no move forgotten), `ConservativeCoalescing` (coalescing never causes a spill), `SameValues` (the result reads what the source reads), `AllocationEnds` (as long as the costs of the candidates are in reach of the constant 10_000) |

*Bounds and why they are enough.* Three threads give a holder, a waiter and a
third that comes in between, which is what every race of the lock and of a signal
needs; the proofs of section 5 remove the bounds for the safety properties they are
about. For the threads, two are enough to exercise fairness with two schemes and the list needs
four: the active one, its two neighbours and the one removed or inserted. A
semaphore needs four, so that two are asleep while two compete for a token;
`max_int = 2` makes overflow reachable. `Event` needs a pair that communicates, a
third thread that competes, and a fourth call that meets the stale offers of the
first three (`MaxSyncs`). A ring of eight words with events of three is the
smallest that satisfies the assumption on `Size`; positions up to 16 (`MaxPos`) go
around once with padding and overwrite events behind and under the cursor. Three
blocks give the collector an ephemeron, its key and its data, or a chain of two
behind a root, or a continuation with a young block in its stack; the number of
collections is not bounded. Two keys and two levels give the skip list a cell
between two others that is half removed. In `signals` a frame on a frame on a
frame (`nest` 3) is a handler that interrupts the scan that another one
interrupted. `memprof` bounds samples, profiles, calls and collections per program
so that each pair of them meets with a callback under way. Two colours are the
fewest for which coalescing can spoil a graph that could be coloured, and four rounds
(`MaxRounds`; the code stops at 50, and remarks that 4 seem to do) are what the
functions of `irc` need; a block outside loops and one in four nested loops have costs
on both sides of the constant 10_000. In `gc` the changes of keys are those of an
ephemeron with two blocks of the major heap or with another ephemeron; with a young key
the instance takes longer (`KeyShapes`, 582031 states, checked separately). Symmetry is used only in runs without liveness. The
deadlock check is off where the system may stop: `event` (syncs without a partner
wait forever), runs with bounded calls, and `irc`, which ends.

*Fairness.* Weak fairness of the steps a thread takes by itself once it is inside
a lock operation or in `custom_condvar_wait` (the kernel schedules threads and
`FUTEX_WAKE` returns), of the polls of a running thread (the compiler inserts
them) and of the tick thread. In `Signals`, weak fairness of the steps inside the C
functions, of the interrupt that a POSIX handler sends and of the polls, and strong
fairness of the end of a handler: handlers return or raise, although other
handlers interrupt them. In `Irc` the compiler computes until it has ended, which
is weak fairness of `Next` written without ENABLED. Never of a call: a thread may
compute or stay outside for ever. Which of several sleepers a wake picks, and who
gets a mutex, is left open: no property promises that a given thread gets on,
because neither futexes nor pthread mutexes do.

## 4. Where the code disagrees with its comments, or with itself

Each of these was met while modelling and can be reproduced with TLC by giving
the property named here to the configuration named here.

*Threads.* The comment at `st_pthreads.h:217` says that a yielding thread cannot
be woken by a signal sent before it waited; the release signals after its unlock,
so an earlier signal can arrive late and let the yielder take the lock back before
any waiter (`YieldHandsOver`, `MCMasterlock`). `caml_thread_reinitialize` (`st_stubs.c:482`) leaves
`Tick_thread_running` set, so a forked child gets no tick thread and its threads
are not preempted; the OCaml 4 version resets it (`TickForMany`,
`MCSysthreadsFork`). A thread that forks is alone in the child, and when it ends the
assertion of `caml_thread_stop` (`st_stubs.c:660`) that there is another thread
fails (`StopHasCompany`, `MCSysthreadsFork`).

*Runtime events.* `read_poll` takes its limit without `Int_val`
(`runtime_events_consumer.c:1182`, against `runtime_events.mli:299`), so that `Some n`
admits `2n + 1` events, and user events of type unit are not counted (line 556), their type
number being that of padding (`PollWithinMax`, `MCRuntimeEvents`).

*Collector.* `Gc.finalise_last` on a value already in the major heap puts an entry
where the assertion of `finalise.c:279` expects none (`FinalisersExact` with `LateLast =
TRUE` and `LastShapes`, `MCGc`). `caml_ephe_set_key` (`weak.c:216`) does not look
at the phase. When it replaces a lost key, or sets a young key, on an ephemeron that
`ephe_mark` has examined, or examines before the next minor collection, the data stays
unmarked under a live key: the comment at `weak.c:172-178` ("the mark phase must
have marked it") and its assertion fail, and the next cycle frees the data
(`CleanedIsMarked` with `ReuseKeys = TRUE` and `KeyShapes`, `MCGc`; 17 states). A `Gc.finalise`
function can be scheduled for a value that is reachable again through the data of
an ephemeron whose key was read back while the finalisers were scanned; the
properties state what does hold.

*Skip list.* The comment at `lf_skiplist.c:408-411` on when cells may be freed does
not hold with several writers (`CellsAccounted` with `FreeProfiles`,
`MCLfSkiplist`, and the last conjunct of `LfSkiplistAssumption` left out); an
insertion whose CAS fails on an upper level retries with the old successor; the header says that inserting a new
key returns 0 and the code returns 1; `find_below` answers with a key that was
there during the call, but not at one moment with the absence of larger ones.

*Signals.* The comment at `signals.c:318-323` says that a pending action is either
noted in `action_pending` or being executed. `caml_check_urgent_gc`
(`minor_gc.c:960`) resets `young_limit` without looking, and a handler that raises
inside the yield of `caml_poll_gc_work` leaves the others unnoticed until the next
event (`ActionPendingOrExecuting` with `UrgentPrograms`, `RaisingPrograms`).

*Memprof.* `AssertionsHold` admits three failures: a thread that left a callback
by ending (`memprof.c:2126`), an index that is stale after a callback raised
(1758-1768 against the assertion at 719-720), and an entry pointer kept across an
allocation that gives up the master lock (1797, 2241, against the comment at
127-133). `orphans_pending` may be clear although an orphan table has callbacks to
run (the comment at 585); deleting an entry drops a stashed call stack without
freeing it; the comment at 2091-2094 says that the other callbacks still run after
a discard, where 1840-1843 drop them.

*Register allocation.* The comment at `regalloc_irc.ml:282-284` says that the
constant 10_000 keeps the heuristics from favouring the registers introduced for
spilling. With `hierarchical-uses` a use counts ten times more per loop
(`regalloc_utils.ml:442-456`), and two uses in four nested loops already cost more
than that: an introduced register is chosen in their place
(`IntroducedLast`, `MCIrc`). When the two compete for a register at a point outside the
loops, each round introduces the same register again and the allocation ends with the
fatal error (`AllocationAlwaysEnds`, `MCIrc`; with the 50 rounds of the code as well,
for the second and the fourth block of `Parts` at depths 4 and 0). With the thirteen
registers of amd64 more must compete. `AllocationEnds` states what does hold.
(`regalloc_irc.ml:524`) A register that is never read and whose definition can
write to the stack stays in `spilled_nodes` while it goes through the first round:
harmless, but `State.invariant` would fail on it.

## 5. Proofs

TLAPS checks every theorem for all values of the constants that satisfy the named
assumption of the module (`ThreadsAssumption`, `SysthreadsAssumption`, ...): that
the null values are no threads, that the sets that are counted are finite, that the
bounds are numbers. Four say more. `RuntimeEventsAssumption` has rings of at least
twice the longest event: the code does not check it (section 6), and its default of
65536 words is far above the 1024 of the longest event;
`EventAssumption` has choices that are sequences of send, receive and always;
`SignalsAssumption` has room for the code of a thread and one handler on it (`nest`
at least 2), without which no handler could run; `LfSkiplistAssumption` has
at most one writer where garbage is freed between calls, as `codefrag.c` has it
(without freeing, any number): with two the claim is false (section 4).
`TypeOK` and `MutualExclusion` of the lock, and `TypeOK` of the threads, are proved
and no longer given to TLC: the refinements that the runs check imply exclusion,
and the types are the easy part. Every inductive invariant was given to TLC, on the
run of its module, before it was proved.

*MasterlockProofs*: `TypeCorrect`, `LockExcludes`, `WaitersCounted`,
`WakeupNotLost`, `ImplementsRuntimeLock`. `NoLostWakeup` is not inductive: a yield
that has signalled is about to sleep itself, and one needs to know that somebody
else is in the wait loop (`CompanyInv`), which follows from `waiters > 0` only
because `waiters` is exact (`WaitersExact`, by counting lemmas on cardinalities),
which in turn needs the mutex to protect what it should (`MutexInv`) and each
control point to belong to its operations (`OpInv`, `FreshInv`). `IInv` is their
conjunction, proved with one lemma per conjunct and one case per action. The
refinement follows: `holder` changes only at the steps that set `busy`.

*SysthreadsProofs*: `TypeCorrect`, `OneThreadInRuntime`, `StateIsSetUp`,
`ImplementsRuntimeLock`. That a thread in the runtime holds the lock of the scheme
in force needs that every lock a thread is going to release is its own
(`LockInv`). That `Caml_state` is set up for the active thread needs that
everyone who does not run has its own state in its info block (`SavedInv`), which
survives the removal of a thread because the doubly linked list is consistent
(`ListInv`: the successor that becomes active is registered) and because whoever
joins the tick thread has cleared `Active_thread` when it should (`TickJoinInv`,
`ContinuationInv`, `ActiveInv`).

The same module proves `RootsAreScanned`, `LocksAreAccounted`, `TickThreadForMany`
and `StoppingHasCompany`. That the scan of the roots meets every
thread is a statement about reachability, which would need an induction along the
list; instead `RingInv` says that no proper part of the list is closed under
`next`, which insertion and removal preserve, and the threads ahead of the scan are
defined as a closure as well. It holds with forks. The other three
are stated for `~CanFork`, and `TickThreadForMany` for `~TickMayFail`, because they are false
otherwise (section 4): a child inherits the locks of the other schemes, has no tick
thread, and its only thread may stop; and a tick thread that cannot be created is
reported and not tried again.

*SyncProofs*: `LocksAreOrdered`, `SignalsRestart`, `ImplementsMonitor`. `Monitor` wakes
atomically what sync.c wakes in two steps, the increment of the counter and
`FUTEX_WAKE`. `DueInv` says what holds in between: the signalling thread has both
locks, so nobody can begin to wait, and those asleep on the condition are among
those that were waiting when it began.

*SemaphoreProofs*: `TokensAreAccounted`. That no token is stranded is not
inductive, because a signal is sent only when the value was 0: `StrandedInv` counts
the threads woken up and the one inside `acquire`, and says that they are at least
as many as the tokens while somebody sleeps.

*EventProofs*: `NobodyIsLeftWaiting`, `RendezvousIsComplete`. `UnmatchedInv`: an
event for which a thread has looked for a partner does not fit one that another
suspended thread offers. A poll that fails keeps it because every offer that can
still be taken is in its queue (`QueueInv`), an offer keeps it because the thread
has had masterlock since it looked (`ThreadInv`). Offers of syncs that are over
stay in the queues (`OfferInv` says what they are) and are never taken; `cleanup_queue`
is written as a recursive function, and that it keeps exactly the live offers is
proved by induction on the length, with the numbers as a set (`NatInd`, from the
well-foundedness of `<`), which needs no operator parameter.

*RuntimeEventsProofs*: `EventsStayInReach`, `ImplementsLossyLog`. For a ring
(`RingOK`): the events between head and tail are laid out one after the other and
none crosses the end of the ring (`LogOK`, `HeadOK`), their words are in the ring
at their positions modulo its size (`DataOK`), also while the writer is between two
stores (`ProgressOK`). For a cursor: it is between two events (`PosInv`); what it
has loaded was in the ring, and still is unless the head has passed it (`LoadInv`);
a poll that ends has delivered or reported lost what was written before it began
(`DrainInv`). Two positions are the same word of the ring only when they are a
multiple of its size apart, which is where the lemmas on `%` come in.

*SignalsProofs*: `EventsAreNoticed`, `SignalsAreKept`, `HandlersAreDue`. None of the
three can be seen from one frame: that a handler restores the mask of the code it
interrupted is about the frames below it. `StacksInv` says which frame can be above
which (`Above`), and that a scan and a handler know the mask of the innermost code
below them. A scan that runs has a snapshot of
signals that are pending (`ScanInv`), a signal comes only when its handler is stored or
is about to be (`HandlerInv`), and whoever lacks the lock is where it is given up
(`HolderInv`), so that nobody meets the half-installed handler. `NoticedInv` and
`ReadyInv` sharpen `SignalsNoticed` and `FinalisersNoticed`: they count only the functions
that an exception or their own end does not make forget what is pending, which is not
so of the scan of `Sys.signal`. As in the run, these two are stated for programs
without the switches of section 4 (`raises`, and `urgent` for signals; `UrgentInv` ties a
frame to its switch); the rest holds for every program. `NestInv` says that a handler
always fits on a stack that is inside a C function. Every step
replaces the topmost frames of a stack, so that lemmas on pushing, popping and
replacing one frame (`PushOK`, `PopOK`, `PlaceOK`) serve all of them; an exception,
which leaves everything above the innermost code, is at most three pops.

*LfSkiplistProofs*: `CellsAreAccounted`, `ImplementsDictionary`, `LookupsAdvance`,
for any threads, cells, keys and levels. A step writes one word of the heap and
moves one call, so the argument is rely-guarantee: `Evolves` says what any step may
do to the heap (a mark is never taken back, the pointer of a marked cell never
changes, a cell leaves the lowest level only once it is marked there), `Learns` what
its history gains by it, and the lemma `Stable` that what one call knows survives
what the others do. Each kind of step
is then proved to evolve the heap and to keep its own call in order.

* `HeapInv`: the sentinels; pointers lead to cells that are tall enough; every level
  is sorted; cells are marked from the top down; an unmarked cell that has been linked
  is in the list (`LiveInv`); no cell of the list lies between another and its
  successor (`GapInv`), and what an upper level skips to is also ahead at the lowest
  one (`AheadInv`); a cell never leads back to itself.
* `SeenInv` and `CallsInv`: what each call relies on between its steps. The cell that
  a call stands on, and those ahead of it, were in the list during the call (`Visible`); the gap in
  which a search finds nothing was there during the call (`GapSeen`), and so was the
  value it answers with (`DataSeen`); predecessors and successors that a search leaves
  behind enclose the key (`SearchOK`); a cell not yet linked belongs to its inserter
  (`FreshOK`).
* `GarbageInv`: a claimed cell is on the garbage list or in the hands of the one
  thread that claimed it; a cell out of the lowest level is claimed or about to be;
  one that is marked has a remover that will take it out. None is lost or collected
  twice.
* `AloneInv`: with one writer, each level is a sorted list apart from the cells the
  writer is busy with. This is what makes freeing safe: when no call is under way,
  what is garbage is on no level.

Which cells a level leads to is a closure (`Reached`), so that what an insertion or
the removal of a cell changes is shown by naming closed sets and no induction is
needed. The refinement is step by step: an operation takes effect at the
compare-and-swap that links a cell, at the store that updates one, or at the mark of
the lowest level; an update of a cell that was marked in the meantime is the
abstract `InsertThenRemoved`; lookups and removals that find nothing answer from the history
(`seen`, `gone`). Lookups are wait-free because each step makes the triple of
level, key and number of cells ahead smaller (`LookupRank`); the last decreases because no cell
leads back to itself and the cells are finitely many.

*Only model-checked.* Liveness under fairness is out of the prover's reach
(`FreeLockIsTaken`, `Preempted`, `RuntimeIsEntered`, `SignalHandled`, `AllocationEnds`).
`Irc` is recursive over lists and functions, and what its folds compute would need
inductions with operators as parameters. `Gc` and `Memprof` are not proved:
their invariants are about reachability in the heap and about tables whose entries
move while callbacks run, which can be put in the closed form used above, but the
strengthenings are long.

## 6. What is not modelled

The `components` of `PROJECT.json` give the reason for each part. In the modelled
parts: pthread condition variables on systems other than Linux with glibc; the
order of stores on arm64 (a release store of `ring_head` does not order the
plain stores after it); rings too small for an event and its padding, which
nothing in the code excludes; the life of ring files and cursors; registration of
user events and the lock around a custom event's serializer; `wrap`, `guard` and
`wrap_abort` of events; `caml_thread_cleanup`; the pacing of the collector, its
mark stack when it overflows, compaction, custom blocks and local allocations; the
sequential skip list and the generational roots; the alternate signal stack; the
random choice of samples and the failure of memprof's allocations; terminators,
trap handlers, frame pointers, live range splitting and stack slot sharing in the
allocator, and the other two allocators; several domains, which this fork refuses
to run. Behaviour known to be outside the models: a callback of `read_poll` that
frees its own cursor (`runtime_events_consumer.c:336`); a custom event's serializer
that is preempted with `write_buffer_lock` held (`runtime_events.c:728`); the lock of
another scheme that a thread held at a fork, which nobody reinitialises
(`st_stubs.c:505`); `caml_ephe_blit_data`, which darkens with a NULL domain state
(`weak.c:493`), where the model does what the code means to do.

The map covers a small share of the repository by lines. Most of the rest is the
translator (parser, typer, Flambda 2, selection and emission), recursive over
unbounded terms, where finite instances say little and the interesting statement
is semantic preservation; the bytecode interpreter and the primitives, where a
model would repeat the code; and the OCaml 4 runtime, whose collector and threads
share their design with what is modelled.

## 7. Plan

1. Master lock, threads of a domain, their abstract specification and proofs. *Done.*
2. Mutex and Condition; `Monitor`; Semaphore and Event on it. *Done.*
3. Ring buffers of runtime events; `LossyLog`. *Done.*
4. The collector with ephemerons, finalisers and continuations. *Done, not proved.*
5. The lock-free skip list; `Dictionary`; proofs. *Done.*
6. Signals and pending actions, with proofs; memprof. *Done; memprof not proved.*
7. The register allocator. *Done; out of the prover's reach (folds).*
8. Left: `Thread.join` and `caml_thread_cleanup` inside `Systhreads`; the
   serializer lock of user events as a client of `Systhreads`' preemption.

Theorems to come: the tables of `Memprof`; the heap of `Gc`.
