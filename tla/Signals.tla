------------------------------ MODULE Signals ------------------------------
(***************************************************************************)
(* Signals and pending actions of one domain (runtime/signals.c, with the  *)
(* parts of domain.c, minor_gc.c, finalise.c and systhreads that raise and *)
(* examine them).                                                          *)
(*                                                                         *)
(* A signal is recorded by a POSIX handler that runs in any thread, with   *)
(* or without the master lock.  The thread that has the lock notices at    *)
(* its next poll, because the handler has set young_limit to its largest   *)
(* value, and runs the OCaml handler, whose code polls in turn.  The C     *)
(* functions under way in a thread are frames of its stack, the innermost  *)
(* first, and each step of the lock's owner is one access to what the      *)
(* signal handlers and the tick thread write.                              *)
(***************************************************************************)
EXTENDS Integers, Sequences, FiniteSets

CONSTANTS
    Thread,
    Sig,        \* the signals, numbered from 1
    None,
    Fin,        \* what a finaliser's frame has instead of a signal
    MaxFin,     \* bounds the finalisers ready to run
    Profiles    \* programs: the signals that have a handler at first, whether
                \* C code calls caml_check_urgent_gc, whether a handler that
                \* runs in a yield may raise, and bounds: the calls of OCaml
                \* code in a stack, with room for the code of the thread and
                \* a handler; Sys.signal, Thread.sigmask, blocking
                \* sections and allocations of C code; signals, ticks,
                \* requests and finalisers that get ready

ASSUME SignalsAssumption ==
    /\ Sig \subseteq Nat \ {0} /\ IsFiniteSet(Sig)
    /\ None \notin Sig \cup Thread /\ Fin \notin Sig \cup {None}
    /\ MaxFin \in Nat
    /\ Profiles \subseteq [handled : SUBSET Sig, urgent : BOOLEAN, raises : BOOLEAN,
                           nest : Nat \ {0, 1}, calls : Nat, events : Nat]

VARIABLES
    pending,        \* caml_pending_signals
    limit,          \* young_limit is UINTNAT_MAX
    action_pending,
    requested,      \* requested_minor_gc or requested_major_slice
    external,       \* requested_external_interrupt
    todo,           \* the finalisers that are ready
    finalising,     \* running_finalisation_function
    installed,      \* the signals whose POSIX handler is handle_signal
    handlers,       \* the signals with an OCaml handler
    mask,           \* the signal mask of each thread
    recording,      \* the signal each thread's POSIX handler has recorded
    ticking,        \* the tick thread has set external, and not yet limit
    holder,         \* the thread that has the master lock
    stack,          \* the frames of each thread, the innermost first
    profile, calls, events,
    fresh           \* history: the signals no thread has looked at since they
                    \* were recorded

async == <<installed, handlers, ticking, profile, calls>>
vars == <<pending, limit, action_pending, requested, external, todo, finalising,
          installed, handlers, mask, recording, ticking, holder, stack,
          profile, calls, events, fresh>>

-----------------------------------------------------------------------------
(* Frames.                                                                 *)

(* OCaml code: of the thread, of the handler of a signal or of a           *)
(* finaliser.  "saved" is the mask that caml_execute_signal_exn restores;  *)
(* "want" is the mask as this code has asked for it.                       *)
Code(sig, m) == [k |-> "code", sig |-> sig, saved |-> m,
                 want |-> IF sig \in Sig THEN m \cup {sig} ELSE m]

(* caml_handle_gc_interrupt, called by caml_do_pending_actions_exn, by an  *)
(* allocation of C code or by caml_check_urgent_gc.                        *)
Gc(by) == [k |-> "gc", by |-> by, at |-> "collect"]

(* caml_process_pending_signals_exn                                        *)
Scan(t) == [k |-> "scan", set |-> mask[t], curr |-> pending, pos |-> 1]

(* A blocking section; that of Thread.sigmask sets the mask to "new".      *)
Block(new) == [k |-> "block", at |-> "poll", new |-> new]
Install(s, act) == [k |-> "install", at |-> "sigaction", sig |-> s, act |-> act]

Top(t) == Head(stack[t])
Below(t) == Tail(stack[t])
Push(t, f) == stack' = [stack EXCEPT ![t] = <<f>> \o @]
Goto(t, label) == stack' = [stack EXCEPT ![t][1].at = label]
Pop(t) == stack' = [stack EXCEPT ![t] = Tail(@)]

Runs(t, k) == holder = t /\ recording[t] = None /\ Top(t).k = k
RunsAt(t, k, at) == Runs(t, k) /\ Top(t).at = at
Nest(t) == Cardinality({i \in DOMAIN stack[t] : stack[t][i].k = "code"})
CodeRuns(t) == Runs(t, "code") /\ Nest(t) < profile.nest
Event == events < profile.events /\ events' = events + 1
MayCall(t) == CodeRuns(t) /\ calls < profile.calls /\ calls' = calls + 1

-----------------------------------------------------------------------------

caml_interrupt_self == limit' = TRUE

(* handle_signal and caml_record_signal: the bit, then young_limit.        *)

caml_record_signal(t, s) ==
    /\ Event
    /\ recording[t] = None
    /\ s \in installed /\ s \notin mask[t]
    /\ pending' = pending \cup {s}
    /\ recording' = [recording EXCEPT ![t] = s]
    /\ fresh' = fresh \cup {s}
    /\ UNCHANGED <<limit, action_pending, requested, external, todo, finalising,
                   mask, holder, stack, async>>

caml_interrupt_all_for_signal(t) ==
    /\ recording[t] # None
    /\ recording' = [recording EXCEPT ![t] = None]
    /\ limit' = TRUE
    /\ UNCHANGED <<pending, action_pending, requested, external, todo, finalising,
                   mask, holder, stack, fresh, events, async>>

(* The tick thread asks for a yield: the request, then young_limit.        *)
TickRequest ==
    /\ Event
    /\ ~ticking
    /\ ticking' = TRUE
    /\ external' = TRUE
    /\ UNCHANGED <<pending, limit, action_pending, requested, todo, finalising,
                   installed, handlers, mask, recording, holder, stack, profile, calls,
                   fresh>>
TickInterrupt ==
    /\ ticking
    /\ ticking' = FALSE
    /\ caml_interrupt_self
    /\ UNCHANGED <<pending, action_pending, requested, external, todo, finalising,
                   installed, handlers, mask, recording, holder, stack, profile, calls,
                   events, fresh>>

-----------------------------------------------------------------------------
(* What OCaml and C code do.                                               *)

(* A poll or an allocation that young_limit stops, or for which the minor  *)
(* heap is full; a poll of C code.                                         *)
caml_do_pending_actions(t) ==
    /\ CodeRuns(t)
    /\ action_pending' = FALSE
    /\ Push(t, Gc("actions"))
    /\ UNCHANGED <<pending, limit, requested, external, todo, finalising, mask,
                   recording, holder, fresh, events, async>>

(* An allocation of C code, whose callers cannot run OCaml code.           *)
caml_alloc_small_dispatch(t) ==
    /\ MayCall(t)
    /\ Push(t, Gc("alloc"))
    /\ UNCHANGED <<pending, limit, action_pending, requested, external, todo,
                   finalising, installed, handlers, mask, recording, ticking,
                   holder, profile, events, fresh>>

caml_check_urgent_gc(t) ==
    /\ MayCall(t) /\ profile.urgent
    /\ Push(t, Gc("urgent"))
    /\ UNCHANGED <<pending, limit, action_pending, requested, external, todo,
                   finalising, installed, handlers, mask, recording, ticking,
                   holder, profile, events, fresh>>

caml_request_minor_gc(t) ==
    /\ Event
    /\ CodeRuns(t)
    /\ requested' = TRUE
    /\ caml_interrupt_self
    /\ UNCHANGED <<pending, action_pending, external, todo, finalising, mask,
                   recording, holder, stack, fresh, async>>

-----------------------------------------------------------------------------
(* caml_handle_gc_interrupt: caml_poll_gc_work                             *)

(* The collections, which may find finalisers that are ready.              *)
Collect(t) ==
    /\ RunsAt(t, "gc", "collect")
    /\ requested' = FALSE
    /\ \E ready \in BOOLEAN :
          /\ IF ready THEN Event /\ todo < MaxFin ELSE UNCHANGED events
          /\ todo' = IF ready THEN todo + 1 ELSE todo
          /\ action_pending' = (action_pending \/ ready)
          /\ limit' = (limit \/ ready)
    /\ Goto(t, "exchange")
    /\ UNCHANGED <<pending, external, finalising, mask, recording, holder, fresh, async>>

(* caml_reset_young_limit: what is still to do sets the limit again.       *)
ResetLimit(t) ==
    /\ RunsAt(t, "gc", "exchange")
    /\ limit' = FALSE
    /\ Goto(t, "check")
    /\ UNCHANGED <<pending, action_pending, requested, external, todo, finalising,
                   mask, recording, holder, fresh, events, async>>

StillToDo == requested \/ external \/ action_pending

CheckLimit(t) ==
    /\ RunsAt(t, "gc", "check")
    /\ limit' = (limit \/ StillToDo)
    /\ Goto(t, "hook")
    /\ UNCHANGED <<pending, action_pending, requested, external, todo, finalising,
                   mask, recording, holder, fresh, events, async>>

(* caml_thread_interrupt_hook: caml_thread_yield, unless nobody waits.     *)
Waits(t) == \/ Top(t).k = "gc" /\ Top(t).at = "wait"
            \/ Top(t).k = "block" /\ Top(t).at \in {"back", "leave"}
Hook(t) ==
    /\ RunsAt(t, "gc", "hook")
    /\ external' = FALSE
    /\ Goto(t, IF external /\ \E u \in Thread : Waits(u) THEN "signals before"
                                                          ELSE "end")
    /\ UNCHANGED <<pending, limit, action_pending, requested, todo, finalising,
                   mask, recording, holder, fresh, events, async>>

YieldLock(t) ==
    /\ RunsAt(t, "gc", "yield")
    /\ holder' = None
    /\ Goto(t, "wait")
    /\ UNCHANGED <<pending, limit, action_pending, requested, external, todo,
                   finalising, mask, recording, fresh, events, async>>

\* Mutant: an allocation of C code forgets why it was stopped.
RememberNothing == action_pending

RememberSignals == TRUE

(* The end of caml_poll_gc_work.  C code that has allocated must remember  *)
(* that signals may have been what stopped it.                             *)
GcEnd(t) ==
    /\ RunsAt(t, "gc", "end")
    /\ \/ Top(t).by = "actions" /\ Goto(t, "signals") /\ UNCHANGED action_pending
       \/ Top(t).by = "alloc" /\ Pop(t) /\ action_pending' = RememberSignals
       \/ Top(t).by = "urgent" /\ Pop(t) /\ UNCHANGED action_pending
    /\ UNCHANGED <<pending, limit, requested, external, todo, finalising, mask,
                   recording, holder, fresh, events, async>>

-----------------------------------------------------------------------------
(* caml_process_pending_signals_exn, called before and after a yield, by   *)
(* caml_do_pending_actions_exn and by caml_install_signal_handler.         *)

After == [x \in {"signals before", "signals after", "signals"} |->
            CASE x = "signals before" -> "yield"
              [] x = "signals after" -> "end"
              [] x = "signals" -> "final"]
Scans(t) == /\ Top(t).k \in {"gc", "install"}
            /\ Top(t).at \in DOMAIN After

ScanStart(t) ==
    /\ holder = t /\ recording[t] = None /\ Scans(t)
    /\ LET on == [Top(t) EXCEPT !.at = After[@]]
       IN  stack' = [stack EXCEPT ![t] =
                       (IF pending = {} THEN <<>> ELSE <<Scan(t)>>) \o <<on>> \o Tail(@)]
    /\ fresh' = fresh \ (pending \cap mask[t])
    /\ UNCHANGED <<pending, limit, action_pending, requested, external, todo,
                   finalising, mask, recording, holder, events, async>>

\* Mutant: the scan leaves out the lowest bit.
DueAbove(f) == {s \in f.curr : s > f.pos /\ s \notin f.set}

\* Mutant: every signal of the snapshot is run, masked or not.
DueAll(f) == {s \in f.curr : s >= f.pos}

\* The signals of the snapshot that are still to be run.
Due(f) == {s \in f.curr : s >= f.pos /\ s \notin f.set}

\* Mutant: the word is stored as it was read.
ClearedStore(f, s) == f.curr \ {s}

\* The loop of compare-and-swap clears one bit and keeps the others.
Cleared(f, s) == pending \ {s}

(* caml_execute_signal_exn: the handler runs with its signal blocked.      *)
ScanNext(t) ==
    LET f == Top(t) IN
    /\ Runs(t, "scan")
    /\ \/ /\ Due(f) = {}
          /\ Pop(t)
          /\ UNCHANGED <<pending, mask, fresh>>
       \/ \E s \in Due(f) :
             /\ \A r \in Due(f) : s <= r
             /\ pending' = Cleared(f, s)
             /\ fresh' = fresh \ {s}
             /\ mask' = [mask EXCEPT ![t] = @ \cup {s}]
             /\ stack' = [stack EXCEPT ![t] =
                            <<Code(s, mask[t]), [f EXCEPT !.pos = s + 1]>> \o Tail(@)]
    /\ UNCHANGED <<limit, action_pending, requested, external, todo, finalising,
                   recording, holder, events, async>>

NoFinaliser == finalising \/ todo = 0

(* caml_final_do_calls_exn                                                 *)
FinalCalls(t) ==
    /\ RunsAt(t, "gc", "final")
    /\ IF NoFinaliser
       THEN Pop(t) /\ UNCHANGED <<todo, finalising>>
       ELSE /\ todo' = todo - 1
            /\ finalising' = TRUE
            /\ Push(t, Code(Fin, mask[t]))
    /\ UNCHANGED <<pending, limit, action_pending, requested, external, mask,
                   recording, holder, fresh, events, async>>

-----------------------------------------------------------------------------
(* The end of a handler or of a finaliser.                                 *)

MaskAfter(t, raised) == IF Top(t).sig \in Sig THEN Top(t).saved ELSE mask[t]

(* A finaliser that changes the mask changes it for the code below.        *)
InnermostCode(st) ==
    CHOOSE i \in DOMAIN st : st[i].k = "code" /\ \A j \in 1 .. i - 1 : st[j].k # "code"
WithMask(st, m) == [st EXCEPT ![InnermostCode(st)].want = m]
Rest(t) == IF Top(t).sig = Fin THEN WithMask(Below(t), Top(t).want) ELSE Below(t)

CodeEnds(t, raised) ==
    /\ Runs(t, "code") /\ Top(t).sig # None
    /\ mask' = [mask EXCEPT ![t] = MaskAfter(t, raised)]
    /\ finalising' = (finalising /\ Top(t).sig # Fin)

Return(t) ==
    /\ CodeEnds(t, FALSE)
    /\ stack' = [stack EXCEPT ![t] =
                   LET r == Rest(t) IN
                   IF Top(t).sig = Fin THEN r
                   ELSE [r EXCEPT ![1].curr = pending]]
    /\ UNCHANGED <<pending, limit, action_pending, requested, external, todo,
                   recording, holder, fresh, events, async>>

(* An exception goes to the OCaml code below; caml_do_pending_actions_exn  *)
(* has the actions that are left examined again.                           *)
Reexamine(frames) ==
    \E f \in frames : f.k = "gc" /\ f.by = "actions" /\ f.at = "final"
InYield(frames) == \E f \in frames : f.k = "gc" /\ f.at # "final"

Raise(t) ==
    /\ CodeEnds(t, TRUE)
    /\ LET r == Rest(t)
           n == InnermostCode(r)
           frames == {r[i] : i \in 1 .. n - 1}
       IN  /\ profile.raises \/ ~InYield(frames)
           /\ stack' = [stack EXCEPT ![t] = SubSeq(r, n, Len(r))]
           /\ action_pending' = (action_pending \/ Reexamine(frames))
           /\ limit' = (limit \/ Reexamine(frames))
    /\ UNCHANGED <<pending, requested, external, todo, recording, holder, fresh, events, async>>

-----------------------------------------------------------------------------
(* Blocking sections, and Thread.sigmask, which changes the mask in one.   *)

EnterBlocking(t) ==
    /\ MayCall(t)
    /\ \E new \in (SUBSET Sig) \cup {None} : Push(t, Block(new))
    /\ UNCHANGED <<pending, limit, action_pending, requested, external, todo,
                   finalising, installed, handlers, mask, recording, ticking,
                   holder, profile, events, fresh>>

(* caml_process_pending_actions                                            *)
BlockPoll(t) ==
    /\ Runs(t, "block") /\ Top(t).at \in {"poll", "poll again"}
    /\ LET on == IF Top(t).at = "poll" THEN <<[Top(t) EXCEPT !.at = "release"]>>
                                        ELSE <<>>
       IN  \/ /\ limit \/ action_pending
              /\ action_pending' = FALSE
              /\ stack' = [stack EXCEPT ![t] = <<Gc("actions")>> \o on \o Tail(@)]
           \/ /\ ~limit /\ ~action_pending
              /\ stack' = [stack EXCEPT ![t] = on \o Tail(@)]
              /\ UNCHANGED action_pending
    /\ UNCHANGED <<pending, limit, requested, external, todo, finalising, mask,
                   recording, holder, fresh, events, async>>

BlockRelease(t) ==
    /\ RunsAt(t, "block", "release")
    /\ holder' = None
    /\ Goto(t, "test")
    /\ UNCHANGED <<pending, limit, action_pending, requested, external, todo,
                   finalising, mask, recording, fresh, events, async>>

(* Without the lock: the limit is tested, and the call made.               *)
Outside(t, at) == Top(t).k = "block" /\ Top(t).at = at /\ recording[t] = None
BlockTest(t) ==
    /\ Outside(t, "test")
    /\ Goto(t, IF limit THEN "back" ELSE "inside")
    /\ UNCHANGED <<pending, limit, action_pending, requested, external, todo,
                   finalising, mask, recording, holder, fresh, events, async>>

BlockCall(t) ==
    /\ Outside(t, "inside")
    /\ LET new == Top(t).new
           rest == <<[Top(t) EXCEPT !.at = "leave"]>> \o Below(t)
       IN  IF new = None
           THEN stack' = [stack EXCEPT ![t] = rest] /\ UNCHANGED mask
           ELSE /\ mask' = [mask EXCEPT ![t] = new]
                /\ stack' = [stack EXCEPT ![t] = WithMask(rest, new)]
    /\ UNCHANGED <<pending, limit, action_pending, requested, external, todo,
                   finalising, recording, holder, fresh, events, async>>

\* caml_leave_blocking_section: another thread may have looked at a signal
\* that it masks.
SignalsToExamine == action_pending \/ pending # {}

(* The lock is taken again: after a yield, to try again to enter a         *)
(* blocking section, or to leave it.                                       *)
Acquire(t) ==
    /\ holder = None /\ Waits(t) /\ recording[t] = None
    /\ holder' = t
    /\ \/ /\ Top(t).at = "wait" /\ Goto(t, "signals after")
          /\ UNCHANGED <<action_pending, limit>>
       \/ /\ Top(t).at = "back" /\ Goto(t, "poll")
          /\ UNCHANGED <<action_pending, limit>>
       \/ /\ Top(t).at = "leave"
          /\ IF Top(t).new = None THEN Pop(t) ELSE Goto(t, "poll again")
          /\ action_pending' = (action_pending \/ SignalsToExamine)
          /\ limit' = (limit \/ SignalsToExamine)
    /\ UNCHANGED <<pending, requested, external, todo, finalising, mask, recording,
                   fresh, events, async>>

-----------------------------------------------------------------------------
(* caml_install_signal_handler: sigaction, then the OCaml handler, then    *)
(* the signals that are pending.                                           *)

InstallCall(t) ==
    /\ MayCall(t)
    /\ \E s \in Sig, act \in {"default", "handle"} : Push(t, Install(s, act))
    /\ UNCHANGED <<pending, limit, action_pending, requested, external, todo,
                   finalising, installed, handlers, mask, recording, ticking,
                   holder, profile, events, fresh>>

(* The block for the old handler may be the one that fills the heap.       *)
caml_set_signal_action(t) ==
    LET s == Top(t).sig
        on == [Top(t) EXCEPT !.at = "store"]
    IN
    /\ RunsAt(t, "install", "sigaction")
    /\ installed' = IF Top(t).act = "handle" THEN installed \cup {s} ELSE installed \ {s}
    /\ \E stopped \in BOOLEAN :
          /\ stopped => s \in installed
          /\ s \in installed /\ limit => stopped
          /\ stack' = [stack EXCEPT ![t] =
                         (IF stopped THEN <<Gc("alloc"), on>> ELSE <<on>>) \o Tail(@)]
    /\ UNCHANGED <<pending, limit, action_pending, requested, external, todo,
                   finalising, handlers, mask, recording, ticking, holder, profile, calls,
                   events, fresh>>

InstallStore(t) ==
    /\ RunsAt(t, "install", "store")
    /\ handlers' = IF Top(t).act = "handle" THEN handlers \cup {Top(t).sig} ELSE handlers
    /\ Goto(t, "signals")
    /\ UNCHANGED <<pending, limit, action_pending, requested, external, todo,
                   finalising, installed, mask, recording, ticking, holder, profile, calls,
                   events, fresh>>

InstallEnd(t) ==
    /\ RunsAt(t, "install", "final")
    /\ Pop(t)
    /\ UNCHANGED <<pending, limit, action_pending, requested, external, todo,
                   finalising, mask, recording, holder, fresh, events, async>>

-----------------------------------------------------------------------------
Init ==
    /\ pending = {} /\ fresh = {}
    /\ limit = FALSE /\ action_pending = FALSE
    /\ requested = FALSE /\ external = FALSE /\ ticking = FALSE
    /\ todo = 0 /\ finalising = FALSE
    /\ profile \in Profiles
    /\ installed = profile.handled /\ handlers = installed
    /\ mask = [t \in Thread |-> {}]
    /\ recording = [t \in Thread |-> None]
    /\ holder \in Thread
    /\ stack = [t \in Thread |->
                  (IF t = holder THEN <<>> ELSE <<[Block(None) EXCEPT !.at = "inside"]>>)
                  \o <<Code(None, {})>>]
    /\ calls = 0 /\ events = 0

Step(t) ==
    \/ Collect(t) \/ ResetLimit(t) \/ CheckLimit(t) \/ Hook(t) \/ YieldLock(t) \/ GcEnd(t)
    \/ ScanStart(t) \/ ScanNext(t) \/ FinalCalls(t)
    \/ BlockPoll(t) \/ BlockRelease(t) \/ BlockTest(t) \/ BlockCall(t) \/ Acquire(t)
    \/ caml_set_signal_action(t) \/ InstallStore(t) \/ InstallEnd(t)

Program(t) ==
    \/ caml_do_pending_actions(t) \/ caml_alloc_small_dispatch(t)
    \/ caml_check_urgent_gc(t) \/ caml_request_minor_gc(t)
    \/ EnterBlocking(t) \/ InstallCall(t)
    \/ Return(t) \/ Raise(t)

Next ==
    \/ \E t \in Thread : Step(t) \/ Program(t) \/ caml_interrupt_all_for_signal(t)
    \/ \E t \in Thread, s \in Sig : caml_record_signal(t, s)
    \/ TickRequest \/ TickInterrupt

Spec == Init /\ [][Next]_vars

(* A thread that can run does, and a POSIX handler ends; OCaml code        *)
(* allocates, so that it polls at the latest when the minor heap is full;  *)
(* handlers and finalisers end, even if they poll.                         *)
Fairness ==
    \A t \in Thread :
        /\ WF_vars(Step(t) \/ caml_interrupt_all_for_signal(t))
        /\ WF_vars(caml_do_pending_actions(t))
        /\ SF_vars(Return(t) \/ Raise(t))
FairSpec == Spec /\ Fairness

-----------------------------------------------------------------------------
FrameOK(f) ==
    CASE f.k = "code" -> f.sig \in Sig \cup {None, Fin} /\ f.saved \cup f.want \subseteq Sig
      [] f.k = "gc" -> /\ f.by \in {"actions", "alloc", "urgent"}
                       /\ f.at \in DOMAIN After \cup {After[x] : x \in DOMAIN After}
                                   \cup {"collect", "exchange", "check", "hook", "wait"}
      [] f.k = "scan" -> f.set \cup f.curr \subseteq Sig /\ f.pos \in Nat
      [] f.k = "block" -> /\ f.new \in (SUBSET Sig) \cup {None}
                          /\ f.at \in {"poll", "release", "test", "back", "inside",
                                       "leave", "poll again"}
      [] f.k = "install" -> f.sig \in Sig /\ f.act \in {"default", "handle"}
TypeOK ==
    /\ pending \cup fresh \cup installed \cup handlers \subseteq Sig
    /\ {limit, action_pending, requested, external, finalising, ticking} \subseteq BOOLEAN
    /\ todo \in 0 .. MaxFin
    /\ mask \in [Thread -> SUBSET Sig]
    /\ recording \in [Thread -> Sig \cup {None}]
    /\ holder \in Thread \cup {None}
    /\ \A t \in Thread : /\ \A i \in DOMAIN stack[t] : FrameOK(stack[t][i])
                         /\ stack[t][Len(stack[t])].sig = None
                         /\ Nest(t) <= profile.nest
    /\ calls \in 0 .. profile.calls /\ events \in 0 .. profile.events

(* Handlers and finalisers leave the signal mask of the code they          *)
(* interrupt as that code has set it, however they end.                    *)
MaskAsAsked ==
    \A t \in Thread : mask[t] = stack[t][InnermostCode(stack[t])].want

(* A handler starts for a signal that is pending, that its thread does not *)
(* mask, and for which the program has given a handler: the mask that      *)
(* caml_process_pending_signals_exn has read once is still that of the     *)
(* thread after other handlers have run, and no signal that arrives while  *)
(* a handler is installed is run too early.                                *)
Starts(t, s) == /\ Len(stack'[t]) > Len(stack[t])
                /\ stack'[t][1].k = "code" /\ stack'[t][1].sig = s
HandlerDue ==
    \A t \in Thread, s \in Sig :
        Starts(t, s) => s \in pending \ mask[t] /\ s \in handlers

(* Handlers run when they may, and the code they interrupt keeps its mask. *)
HandlersDue == []MaskAsAsked /\ [][HandlerDue]_vars

(* No signal is lost: it stays pending until its handler starts.           *)
SignalsKept ==
    [][\A s \in pending \ pending' : \E t \in Thread : Starts(t, s)]_vars

(* A signal that nobody has looked at since it came will be looked at: the *)
(* next poll stops, or a function that examines the signals is under way,  *)
(* as the comment on action_pending claims.  Two things break this:        *)
(* caml_check_urgent_gc resets young_limit and looks at no signal, and an  *)
(* exception of a handler that runs in a yield leaves                      *)
(* caml_do_pending_actions_exn without having the rest examined again.     *)
Examines(f, s) ==
    \/ f.k = "gc" /\ f.by \in {"actions", "alloc"} /\ f.at # "final"
    \/ f.k = "scan" /\ s \in Due(f)
ActionPendingOrExecuting ==
    \A s \in fresh :
        \/ limit \/ action_pending
        \/ \E t \in Thread : \/ recording[t] = s
                            \/ \E i \in DOMAIN stack[t] : Examines(stack[t][i], s)
SignalsNoticed == ~profile.urgent /\ ~profile.raises => ActionPendingOrExecuting

(* A collection or a yield that is asked for stops the next poll: the      *)
(* reset of young_limit never hides a request made at the same time.       *)
RequestsNoticed ==
    LET GcAt(at) == holder # None /\ Top(holder).k = "gc" /\ Top(holder).at = at IN
    /\ requested => limit \/ GcAt("check")
    /\ external => limit \/ ticking \/ GcAt("check") \/ GcAt("hook")

(* Finalisers that are ready will be called: the next poll of C code sees  *)
(* them, or they are being called, or a function that calls them is under  *)
(* way.                                                                    *)
FinalisersNoticed ==
    todo > 0 /\ ~profile.raises =>
        \/ action_pending \/ finalising
        \/ \E t \in Thread : \E i \in DOMAIN stack[t] :
              stack[t][i].k = "gc" /\ stack[t][i].by = "actions"

(* Whatever asks for attention, a signal, a collection, a yield or a       *)
(* finaliser, gets it at the next poll or is getting it.                   *)
EventsNoticed == TypeOK /\ SignalsNoticed /\ RequestsNoticed /\ FinalisersNoticed

(* A signal that no code goes on masking is handled.                       *)
Masked(s) == \E t \in Thread : /\ s \in mask[t]
                               /\ \A i \in DOMAIN stack[t] :
                                     stack[t][i].k = "code" => stack[t][i].sig # s
SignalHandled ==
    \A s \in Sig : <>[]~Masked(s) => []<>(s \notin pending)
=============================================================================
