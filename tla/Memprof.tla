------------------------------ MODULE Memprof ------------------------------
(***************************************************************************)
(* The allocation profiler (runtime/memprof.c) in one domain with several  *)
(* threads.                                                                *)
(*                                                                         *)
(* Every sampled block has an entry, which moves from the table of the     *)
(* thread that allocated it to the table of the domain and, when another   *)
(* profile starts, to a table of orphans.  Callbacks are OCaml code: while *)
(* one runs, other threads collect, stop, discard and start profiles, and  *)
(* move its entry.  The master lock is also given up in the allocations    *)
(* that memprof makes itself.  A step goes from one such place to the next *)
(* or, inside a loop over a table, from one entry to the next.             *)
(***************************************************************************)
EXTENDS Integers, Sequences, SequencesExt

CONSTANTS
    Thread, Main,
    Dom,            \* the table of the domain
    Orphan,         \* names for the tables of orphans
    None,
    Programs        \* the heaps that C code of a program allocates in, and its
                    \* bounds: samples, those in one combined allocation,
                    \* profiles, other calls and collections

ASSUME MemprofAssumption ==
    /\ Main \in Thread
    /\ Dom \notin Thread \cup Orphan \cup {None}
    /\ None \notin Thread \cup Orphan /\ Thread \cap Orphan = {}
    /\ Programs \subseteq [heaps : SUBSET {"young", "major"}, samples : Nat,
                           comb : Nat, profiles : Nat, calls : Nat, gcs : Nat]

VARIABLES
    tabs,               \* the entries tables: of the domain, of threads, orphans
    run,                \* running_table and running_index of each thread
    failed,             \* the assertions that have failed
    orphans,            \* the domain's list of orphan tables
    orphans_pending, pending,
    suspended,
    threads,            \* the domain's list of threads
    current,
    status,             \* of the profiles started so far
    frame,              \* the memprof function each thread is in
    starting,           \* threads in caml_memprof_start, allocating the profile
    program, left,      \* the bounds, and what is left of them
    tracked,            \* history: the blocks the program has been told of, and
                        \* whose deallocation it expects to hear of
    exposed,            \* history: the hazards met so far.  "yield": a profile
                        \* was replaced or discarded while another thread
                        \* allocated inside memprof; "raise": a callback raised
                        \* in a profile found to be discarded; "left": one
                        \* returned to a table already known to be discarded
    unseen              \* history: a callback of an orphan has ended outside
                        \* caml_memprof_run_callbacks_exn

tables == <<tabs, run, failed>>
flags == <<orphans, orphans_pending, pending>>
history == <<tracked, exposed, unseen>>
vars == <<tables, flags, suspended, threads, current, status, frame, starting,
          program, left, history>>

-----------------------------------------------------------------------------
(* Entries and tables.  Positions count from 1; "world" is the tables, the *)
(* running callbacks and the failed assertions, as a value.                *)

Entry(id, t, p, blk, data) ==
    [id |-> id, own |-> t, prof |-> p, block |-> blk, user_data |-> data,
     runner |-> None, promoted |-> FALSE, deallocated |-> FALSE,
     deleted |-> FALSE, callbacks |-> {}]

entries_init(config) ==
    [t |-> <<>>, young |-> 1, evict |-> 1, active |-> 1, config |-> config]

Idle == [table |-> None, index |-> 0]
world == [tabs |-> tabs, run |-> run, failed |-> failed]
Becomes(w) == tabs' = w.tabs /\ run' = w.run /\ failed' = w.failed

Check(ok, name) == IF ok THEN {} ELSE {name}
Least(S) == CHOOSE i \in S : \A j \in S : i <= j

new_entry(w, T, e) == [w EXCEPT !.tabs[T].t = Append(@, e)]

Marked(es, I) ==
    [es EXCEPT !.t = [i \in DOMAIN es.t |->
                        IF i \in I
                        THEN [es.t[i] EXCEPT !.deleted = TRUE, !.block = "none",
                                             !.user_data = "unit"]
                        ELSE es.t[i]],
               !.evict = Least(I \cup {@})]

(* Past the end of the table this writes to a slot nothing reads.          *)
entry_delete(w, T, I) ==
    LET es == w.tabs[T]
        J == I \cap DOMAIN es.t
    IN  [w EXCEPT !.tabs[T] = Marked(es, J),
                  !.failed = @ \cup Check(\A i \in J : es.t[i].runner = None,
                                          "entry_delete")]

RunBy(es, u) == {i \in DOMAIN es.t : es.t[i].runner = u}
Shift(es, p) == p - Cardinality({i \in es.evict..(p - 1) : es.t[i].deleted})

Compacted(es) ==
    LET kept == SubSeq(es.t, 1, es.evict - 1)
                \o SelectSeq(SubSeq(es.t, es.evict, Len(es.t)), LAMBDA e : ~e.deleted)
    IN  [es EXCEPT !.t = kept, !.young = Shift(es, @), !.active = Shift(es, @),
                   !.evict = Len(kept) + 1]

Moved(es, u) == {i \in RunBy(es, u) : ~es.t[i].deleted /\ Shift(es, i) # i}

\* Mutant: compaction does not tell the threads that run callbacks.
NotTold(w, es) == w.run

Relocated(w, es) ==
    [u \in Thread |->
        IF Moved(es, u) = {} THEN w.run[u]
        ELSE [w.run[u] EXCEPT !.index = Shift(es, Least(Moved(es, u)))]]

entries_evict(w, T) ==
    LET es == w.tabs[T]
    IN  [tabs |-> [w.tabs EXCEPT ![T] = Compacted(es)],
         run |-> Relocated(w, es),
         failed |-> w.failed \cup
                    Check(\A u \in Thread : \A i \in Moved(es, u) :
                              w.run[u] = [table |-> T, index |-> i],
                          "entries_evict")]

\* Mutant: the entries of a cancelled allocation are all deleted.
NoneTold(es, I) == {i \in I : es.t[i].runner # None}

Told(es, I) == {i \in I : "alloc" \in es.t[i].callbacks}

entries_clear_offsets(w, T) ==
    LET es == w.tabs[T]
        Offset == {i \in DOMAIN es.t : es.t[i].block = "offset"}
        Dead == Told(es, Offset)
        v == [w EXCEPT
                !.tabs[T].t = [i \in DOMAIN es.t |->
                    IF i \in Dead
                    THEN [es.t[i] EXCEPT !.block = "none", !.deallocated = TRUE]
                    ELSE es.t[i]],
                !.tabs[T].active = Least(Dead \cup {@}),
                !.failed = @ \cup Check(\A i \in Offset :
                                          es.t[i].callbacks \subseteq {"alloc"},
                                        "entries_clear_offsets")]
    IN  entries_evict(entry_delete(v, T, Offset \ Dead), T)

\* Mutant: entries whose callback is running are removed too.
ClearsRunning(w, T) ==
    entries_evict(entry_delete(w, T, DOMAIN w.tabs[T].t), T)

entries_clear_inactive(w, T) ==
    entries_evict(entry_delete(w, T, RunBy(w.tabs[T], None)), T)

Discarded(es) == es.config # None /\ status[es.config] = "discarded"

validated_config(w, T) ==
    IF Discarded(w.tabs[T])
    THEN entries_clear_inactive([w EXCEPT !.tabs[T].config = None], T)
    ELSE w

Untold(es) == {i \in DOMAIN es.t : es.t[i].callbacks = {}}

entries_transfer(w, from, to) ==
    LET v == validated_config(validated_config(w, from), to)
        x == entry_delete(v, from, Untold(v.tabs[from]))
        f == x.tabs[from]
        g == x.tabs[to]
        delta == Len(g.t)
        Join(p, q) == IF p = delta + 1 THEN q + delta ELSE p
    IN  IF w.tabs[from].t = <<>> THEN w
        ELSE [tabs |-> [x.tabs EXCEPT
                 ![from] = entries_init(f.config),
                 ![to] = [g EXCEPT !.t = @ \o f.t, !.young = Join(@, f.young),
                                   !.evict = Join(@, f.evict),
                                   !.active = Join(@, f.active)]],
              run |-> [u \in Thread |->
                 IF RunBy(f, u) = {} THEN x.run[u]
                 ELSE [table |-> to, index |-> delta + Least(RunBy(f, u))]],
              failed |-> x.failed
                 \cup Check(f.config = g.config, "entries_transfer")
                 \cup Check(\A u \in Thread : \A i \in RunBy(f, u) :
                                x.run[u] = [table |-> from, index |-> i],
                            "entries_transfer")]

(* Entries that have no callback at all, and tables that are empty, are    *)
(* not orphaned.                                                           *)
orphans_create(w) ==
    LET clear == FoldLeft(entries_clear_offsets, w, threads)
        v == entries_evict(clear, Dom)
        sources == <<Dom>> \o threads
        ot == CHOOSE o \in Orphan : \A i \in DOMAIN orphans : orphans[i] # o
        init == [v EXCEPT !.tabs[ot] = entries_init(v.tabs[Dom].config)]
    IN  IF \A i \in DOMAIN sources : v.tabs[sources[i]].t = <<>>
        THEN [world |-> v, list |-> orphans]
        ELSE [world |-> FoldLeft(LAMBDA x, T : entries_transfer(x, T, ot), init, sources),
              list |-> <<ot>> \o orphans]

Active(es) == es.active <= Len(es.t)

Used(es) == es.t # <<>>

(* The tables, the list and the flag orphans_pending, when the list was    *)
(* the one given.                                                          *)
orphans_update_pending(w, list) ==
    LET Step(x, T) ==
            LET v == validated_config(x, T)
            IN  IF v.tabs[T].config = None THEN entries_clear_inactive(v, T) ELSE v
        v == FoldLeft(Step, w, list)
        rest == SelectSeq(list, LAMBDA T : Used(v.tabs[T]))
    IN  [world |-> [v EXCEPT !.tabs = [T \in DOMAIN @ |->
                        IF T \in Orphan /\ \A i \in DOMAIN rest : rest[i] # T
                        THEN entries_init(None) ELSE v.tabs[T]]],
         list |-> rest,
         pending |-> \E i \in DOMAIN rest : Active(v.tabs[rest[i]])]

Orphans(o) == orphans' = o.list /\ orphans_pending' = o.pending /\ unseen' = FALSE

\* Mutant: the table of the current thread is not looked at.
PendingElsewhere(w, t, s, op) ==
    pending' = IF s THEN pending ELSE Active(w.tabs[Dom]) \/ op

set_action_pending_as_needed(w, t, s, op) ==
    pending' = IF s THEN pending
               ELSE Active(w.tabs[Dom]) \/ w.tabs[t].t # <<>> \/ op

(* Setting the trigger asks whether the thread is sampling, and so looks   *)
(* at the status of its profile.                                           *)
update_suspended(w, t, s, op) ==
    /\ suspended' = [suspended EXCEPT ![t] = s]
    /\ set_action_pending_as_needed(w, t, s, op)
    /\ Becomes(IF s THEN w ELSE validated_config(w, t))

Sampling(w, t) == LET p == w.tabs[t].config IN p # None /\ status[p] = "sampling"

-----------------------------------------------------------------------------
(* What a thread is doing.  OCaml code runs in a thread that is in no      *)
(* function of memprof, or in a callback.                                  *)

NoFrame == [op |-> "none", at |-> "-", es |-> None, config |-> None,
            n |-> 0, id |-> 0, cb |-> "none"]

Runs(t) == current = t /\ failed = {} /\ t \notin starting
Free(t) == Runs(t) /\ frame[t].op = "none"
CodeRuns(t) == Runs(t) /\ frame[t].at \in {"-", "callback"}
At(t, at) == Runs(t) /\ frame[t].at = at
Yields(t) == /\ current = t /\ failed = {}
             /\ frame[t].at \in {"-", "capture", "info", "callback", "room"}
Leave(t) == frame' = [frame EXCEPT ![t] = NoFrame]
Spend(what, n) == left[what] >= n /\ left' = [left EXCEPT ![what] = @ - n]

(* Another thread allocates inside memprof, which holds on to a position   *)
(* in a table, to the profile or to the absence of one.                    *)
Exposes(t) ==
    exposed' = exposed \cup
        Check(\A u \in Thread \ {t} :
                  u \notin starting /\ frame[u].at \notin {"capture", "info"}, "yield")

-----------------------------------------------------------------------------
(* Sampling.                                                               *)

(* caml_memprof_sample_block, and caml_memprof_sample_young for C code.    *)
caml_memprof_sample_block(t, blk) ==
    /\ Free(t) /\ Sampling(world, t) /\ Spend("samples", 1)
    /\ LET w == new_entry(world, t, Entry(left.samples, t, tabs[t].config, blk, "stash"))
       IN  /\ Becomes(w)
           /\ set_action_pending_as_needed(w, t, FALSE, orphans_pending)
    /\ UNCHANGED <<orphans, orphans_pending, suspended, threads, current, status,
                   frame, starting, program, history>>

(* caml_memprof_sample_young for OCaml code: n blocks of a combined        *)
(* allocation are sampled.                                                 *)
caml_memprof_sample_young(t, n) ==
    /\ Free(t) /\ Sampling(world, t) /\ Spend("samples", n)
    /\ frame' = [frame EXCEPT ![t] =
          [NoFrame EXCEPT !.op = "young", !.at = "capture", !.es = t,
                          !.config = tabs[t].config, !.n = n, !.id = left.samples]]
    /\ update_suspended(world, t, TRUE, orphans_pending)
    /\ UNCHANGED <<orphans, orphans_pending, threads, current, status, starting,
                   program, history>>

(* The call stack of the next block has been allocated.                    *)
capture_callstack_GC(t) ==
    LET f == frame[t]
        w == new_entry(world, t, Entry(f.id, t, tabs[t].config, "offset", "young"))
    IN  /\ At(t, "capture")
        /\ Becomes([w EXCEPT !.failed =
                      Check(f.n = 1 \/ tabs[Dom].config # None, "capture_callstack_GC")])
        /\ frame' = [frame EXCEPT ![t].n = f.n - 1, ![t].id = f.id - 1,
                                  ![t].at = IF f.n = 1 THEN "loop" ELSE "capture"]
        /\ UNCHANGED <<flags, suspended, threads, current, status, starting,
                       program, left, history>>

(* The loop has run the callbacks, and there is room in the minor heap.    *)
Allocated(es) ==
    LET Offset == {i \in DOMAIN es.t : es.t[i].block = "offset"}
    IN  [es EXCEPT !.t = [i \in DOMAIN es.t |->
                            IF i \in Offset THEN [es.t[i] EXCEPT !.block = "young"]
                            ELSE es.t[i]],
                   !.young = Least(Offset \cup {@})]

sample_young_end(t) ==
    /\ At(t, "room")
    /\ LET w == [world EXCEPT
                   !.failed = Check(frame[t].es # None \/ tabs[t].t = <<>>,
                                    "caml_memprof_sample_young"),
                   !.tabs[t] = Allocated(@)]
       IN  update_suspended(entries_transfer(w, t, Dom), t, FALSE, orphans_pending)
    /\ Leave(t)
    /\ UNCHANGED <<orphans, orphans_pending, threads, current, status, starting,
                   program, left, history>>

-----------------------------------------------------------------------------
(* Callbacks.                                                              *)

caml_memprof_run_callbacks_exn(t) ==
    /\ Free(t) /\ pending
    /\ frame' = [frame EXCEPT ![t] =
                    [NoFrame EXCEPT !.op = "run", !.at = "loop", !.es = Dom]]
    /\ update_suspended(world, t, TRUE, orphans_pending)
    /\ UNCHANGED <<orphans, orphans_pending, threads, current, status, starting,
                   program, left, history>>

(* The next callback of an entry.                                          *)
Due(e) ==
    IF "alloc" \notin e.callbacks THEN "alloc"
    ELSE IF e.promoted /\ "promote" \notin e.callbacks THEN "promote"
    ELSE IF e.deallocated /\ "dealloc" \notin e.callbacks THEN "dealloc"
    ELSE "none"

Runnable(e) == ~e.deleted /\ e.runner = None /\ Due(e) # "none"

(* entries_run_callbacks_exn is at an entry of a table whose profile has   *)
(* not been discarded.                                                     *)
Config(T) == tabs[T].config
InLoop(t) ==
    LET T == frame[t].es
    IN  /\ At(t, "loop") /\ Active(tabs[T])
        /\ Config(T) # None /\ ~Discarded(tabs[T])
Candidate(t) == LET es == tabs[frame[t].es] IN es.t[es.active]

entries_skip(t) ==
    /\ InLoop(t) /\ ~Runnable(Candidate(t))
    /\ Becomes([world EXCEPT !.tabs[frame[t].es].active = @ + 1])
    /\ UNCHANGED <<flags, suspended, threads, current, status, frame, starting,
                   program, left, history>>

(* The profile has stopped.                                                *)
entries_drop(t) ==
    LET T == frame[t].es
    IN  /\ InLoop(t) /\ Runnable(Candidate(t)) /\ Due(Candidate(t)) = "alloc"
        /\ status[Config(T)] # "sampling"
        /\ Becomes(entry_delete(world, T, {tabs[T].active}))
        /\ UNCHANGED <<flags, suspended, threads, current, status, frame, starting,
                       program, left, history>>

(* run_alloc_callback_exn allocates the call stack and the sample's        *)
(* description before it calls run_callback_exn.                           *)
run_alloc_callback_exn(t) ==
    LET T == frame[t].es
    IN  /\ InLoop(t) /\ Runnable(Candidate(t)) /\ Due(Candidate(t)) = "alloc"
        /\ status[Config(T)] = "sampling"
        /\ frame' = [frame EXCEPT ![t].at = "info", ![t].n = tabs[T].active,
                                  ![t].id = Candidate(t).id]
        /\ UNCHANGED <<tables, flags, suspended, threads, current, status, starting,
                       program, left, history>>

(* The first half of run_callback_exn.                                     *)
Begin(t, T, i, cb) ==
    /\ Becomes([world EXCEPT
           !.run[t] = [table |-> T, index |-> i],
           !.tabs[T].t[i] = [@ EXCEPT !.runner = t, !.user_data = "unit",
                                      !.callbacks = @ \cup {cb}]])
    /\ frame' = [frame EXCEPT ![t].at = "callback", ![t].cb = cb]
    /\ tracked' = IF cb = "dealloc" THEN {b \in tracked : b.id # tabs[T].t[i].id}
                  ELSE tracked
    /\ UNCHANGED <<flags, suspended, threads, current, status, starting, program,
                   left, exposed, unseen>>

run_callback_exn(t) ==
    LET T == frame[t].es
    IN  /\ InLoop(t) /\ Runnable(Candidate(t)) /\ Due(Candidate(t)) # "alloc"
        /\ Begin(t, T, tabs[T].active, Due(Candidate(t)))

InPlace(t) ==
    LET es == tabs[frame[t].es]
        i == frame[t].n
    IN  i <= Len(es.t) /\ es.t[i].id = frame[t].id /\ ~es.t[i].deleted /\ es.config # None

run_alloc_callback_call(t) ==
    /\ At(t, "info") /\ InPlace(t)
    /\ Begin(t, frame[t].es, frame[t].n, "alloc")

(* The entry is no longer where it was: the code reads and writes          *)
(* whatever is there.                                                      *)
run_alloc_callback_stale(t) ==
    /\ At(t, "info") /\ ~InPlace(t)
    /\ failed' = {"run_alloc_callback_exn"}
    /\ UNCHANGED <<tabs, run, flags, suspended, threads, current, status, frame,
                   starting, program, left, history>>

ActiveAfter(es, i, cb) ==
    IF es.t[i].deallocated \/ (es.t[i].promoted /\ cb # "promote")
    THEN Least({i, es.active}) ELSE es.active

(* The second half: the callback has returned Some _, None (or unit, as    *)
(* deallocation callbacks do) or an exception.                             *)
CallbackEnd(t, res) ==
    LET T == run[t].table
        i == run[t].index
        cb == frame[t].cb
        e == tabs[T].t[i]
        v == validated_config([world EXCEPT !.run[t] = Idle,
                                            !.tabs[T].t[i].runner = None], T)
        es == v.tabs[T]
        kept == [v EXCEPT !.tabs[T].t[i].user_data = "young",
                          !.tabs[T].young = Least({@, i}),
                          !.tabs[T].active = ActiveAfter(es, i, cb)]
        others == {b \in tracked : b.id # e.id}
    IN  /\ At(t, "callback")
        /\ cb = "dealloc" => res # "some"
        /\ frame' = [frame EXCEPT ![t].at = IF res = "raise" THEN "raise" ELSE "loop",
                                  ![t].cb = "none"]
        /\ exposed' = exposed \cup Check(res # "raise" \/ Config(T) = es.config, "raise")
                              \cup Check(res = "raise" \/ Config(T) # None, "left")
        /\ \/ /\ es.config = None /\ res # "raise"
              /\ Becomes(v) /\ UNCHANGED <<tracked, unseen>>
           \/ /\ es.config # None \/ res = "raise"
              /\ res # "some"
              /\ Becomes(entry_delete(v, T, {i}))
              /\ tracked' = others /\ UNCHANGED unseen
           \/ /\ es.config # None /\ res = "some"
              /\ Becomes(kept)
              /\ tracked' = others \cup {[id |-> e.id, prof |-> es.config]}
              /\ unseen' = (unseen \/ (T \in Orphan /\ frame[t].op # "run"))
        /\ UNCHANGED <<flags, suspended, threads, current, status, starting,
                       program, left>>

-----------------------------------------------------------------------------
(* entries_run_callbacks_exn returns.                                      *)

LoopDone(t) ==
    LET es == tabs[frame[t].es]
    IN  At(t, "loop") /\ (~Active(es) \/ es.config = None \/ Discarded(es))

(* The loop looks at the profile only when there is an active entry.       *)
Evicted(t) ==
    LET T == frame[t].es
    IN  entries_evict(IF Active(tabs[T]) THEN validated_config(world, T) ELSE world, T)

(* The domain's callbacks, then the thread's, whose entries move to the    *)
(* domain, then the orphans'.                                              *)
run_callbacks_thread(t) ==
    /\ LoopDone(t) /\ frame[t].op = "run" /\ frame[t].es = Dom
    /\ Becomes(Evicted(t))
    /\ frame' = [frame EXCEPT ![t].es = t]
    /\ UNCHANGED <<flags, suspended, threads, current, status, starting, program,
                   left, history>>

run_callbacks_next(t) ==
    LET T == frame[t].es
    IN  /\ LoopDone(t) /\ frame[t].op = "run" /\ T # Dom
        /\ Becomes(IF T = t THEN entries_transfer(Evicted(t), t, Dom) ELSE Evicted(t))
        /\ frame' = [frame EXCEPT ![t].at = "next"]
        /\ UNCHANGED <<flags, suspended, threads, current, status, starting,
                       program, left, history>>

After(T) ==
    IF T \in Orphan THEN 1 + Least({Len(orphans)} \cup {i \in DOMAIN orphans : orphans[i] = T})
    ELSE 1

run_callbacks_orphan(t) ==
    LET k == After(frame[t].es)
        T == orphans[k]
        w == validated_config(world, T)
        due == w.tabs[T].config # None /\ Active(w.tabs[T])
    IN  /\ At(t, "next") /\ k <= Len(orphans)
        /\ Becomes(w)
        /\ frame' = [frame EXCEPT ![t].es = T, ![t].at = IF due THEN "loop" ELSE "next"]
        /\ UNCHANGED <<flags, suspended, threads, current, status, starting,
                       program, left, history>>

run_callbacks_end(t) ==
    /\ \/ At(t, "next") /\ After(frame[t].es) > Len(orphans)
       \/ At(t, "raise") /\ frame[t].op = "run"
    /\ LET w == IF frame[t].at = "raise" THEN entries_evict(world, frame[t].es) ELSE world
           o == orphans_update_pending(w, orphans)
       IN  Orphans(o) /\ update_suspended(o.world, t, FALSE, o.pending)
    /\ Leave(t)
    /\ UNCHANGED <<threads, current, status, starting, program, left, tracked, exposed>>

(* The callbacks of a combined allocation have run: es is None when the    *)
(* profile is no longer the one that sampled it.                           *)
sample_young_room(t) ==
    /\ LoopDone(t) /\ frame[t].op = "young"
    /\ LET w == Evicted(t)
       IN  /\ Becomes(w)
           /\ frame' = [frame EXCEPT ![t].at = "room",
                  ![t].es = IF w.tabs[t].config = frame[t].config THEN t ELSE None]
    /\ UNCHANGED <<flags, suspended, threads, current, status, starting, program,
                   left, history>>

(* A callback has raised, and nothing is allocated.                        *)
sample_young_cancelled(t) ==
    /\ At(t, "raise") /\ frame[t].op = "young"
    /\ LET w == entries_evict(world, t)
           v == [w EXCEPT !.failed = @ \cup Check(w.tabs[t].config = frame[t].config
                                                  \/ w.tabs[t].t = <<>>,
                                                  "caml_memprof_sample_young")]
       IN  update_suspended(entries_clear_offsets(v, t), t, FALSE, orphans_pending)
    /\ Leave(t)
    /\ UNCHANGED <<orphans, orphans_pending, threads, current, status, starting,
                   program, left, history>>

-----------------------------------------------------------------------------
(* Profiles.                                                               *)

Stopped(w, t) ==
    status' = IF Sampling(w, t) THEN [status EXCEPT ![w.tabs[t].config] = "stopped"]
              ELSE status

(* Outside a callback, the allocation callbacks of the thread run first.   *)
caml_memprof_stop(t) ==
    /\ CodeRuns(t) /\ Spend("calls", 1)
    /\ \/ /\ ~suspended[t]
          /\ frame' = [frame EXCEPT ![t] =
                          [NoFrame EXCEPT !.op = "stop", !.at = "loop", !.es = t]]
          /\ update_suspended(world, t, TRUE, orphans_pending)
          /\ UNCHANGED status
       \/ /\ suspended[t]
          /\ Stopped(world, t)
          /\ Becomes(validated_config(world, t))
          /\ UNCHANGED <<frame, suspended, pending>>
    /\ UNCHANGED <<orphans, orphans_pending, threads, current, starting, program,
                   history>>

stop_end(t) ==
    /\ \/ LoopDone(t) /\ frame[t].op = "stop" /\ Stopped(Evicted(t), t)
       \/ At(t, "raise") /\ frame[t].op = "stop" /\ UNCHANGED status
    /\ update_suspended(IF frame[t].at = "raise" THEN entries_evict(world, t)
                        ELSE Evicted(t), t, FALSE, orphans_pending)
    /\ Leave(t)
    /\ UNCHANGED <<orphans, orphans_pending, threads, current, starting, program,
                   left, history>>

caml_memprof_discard(t, p) ==
    /\ CodeRuns(t) /\ Spend("calls", 1)
    /\ status[p] = "stopped"
    /\ status' = [status EXCEPT ![p] = "discarded"]
    /\ tracked' = {b \in tracked : b.prof # p}
    /\ Exposes(t)
    /\ UNCHANGED <<tables, flags, suspended, threads, current, frame, starting,
                   program, unseen>>

(* caml_memprof_start, up to the allocation of the profile, and from it.   *)
caml_memprof_start(t) ==
    LET o == orphans_create(validated_config(world, t))
    IN  /\ CodeRuns(t) /\ Spend("profiles", 1)
        /\ ~Sampling(world, t)
        /\ Becomes(o.world) /\ orphans' = o.list
        /\ starting' = starting \cup {t}
        /\ Exposes(t)
        /\ UNCHANGED <<orphans_pending, pending, suspended, threads, current, status,
                       frame, program, tracked, unseen>>

start_end(t) ==
    LET p == Len(status) + 1
        In == {Dom} \cup {threads[i] : i \in DOMAIN threads}
        w == [world EXCEPT
                !.tabs = [T \in DOMAIN @ |->
                            IF T \in In THEN [tabs[T] EXCEPT !.config = p] ELSE tabs[T]],
                !.failed = Check(\A T \in In : tabs[T].t = <<>>, "caml_memprof_start")]
        o == orphans_update_pending(w, orphans)
    IN  /\ current = t /\ failed = {} /\ t \in starting
        /\ status' = Append(status, "sampling")
        /\ Becomes(o.world) /\ Orphans(o)
        /\ set_action_pending_as_needed(o.world, t, suspended[t], o.pending)
        /\ starting' = starting \ {t}
        /\ Exposes(t)
        /\ UNCHANGED <<suspended, threads, current, frame, program, left, tracked>>

-----------------------------------------------------------------------------
(* Collections, at any place where the current thread may allocate.        *)

Live == {Dom} \cup {threads[i] : i \in DOMAIN threads}
              \cup {orphans[i] : i \in DOMAIN orphans}

Blocks(heap) == {e.id : e \in {x \in UNION {Range(tabs[T].t) : T \in Live} :
                                 x.block = heap}}

(* The roots have been scanned: user data is in the major heap.  Dead is   *)
(* the set of blocks the collection has found dead.                        *)
AfterMinor(es, Dead) ==
    LET I == es.young..Len(es.t)
        Hit == {i \in I : es.t[i].block = "young"}
        Old(e) == [e EXCEPT !.user_data = IF @ = "young" THEN "old" ELSE @]
        Up(e) == IF e.id \in Dead THEN [e EXCEPT !.block = "none", !.deallocated = TRUE]
                 ELSE [e EXCEPT !.block = "major", !.promoted = TRUE]
    IN  [es EXCEPT !.t = [i \in DOMAIN es.t |->
                            IF i \in Hit THEN Up(Old(es.t[i]))
                            ELSE IF i \in I THEN Old(es.t[i]) ELSE es.t[i]],
                   !.young = Len(es.t) + 1,
                   !.active = Least(Hit \cup {@})]

AfterMajor(es, Dead) ==
    LET Hit == {i \in DOMAIN es.t : es.t[i].block = "major" /\ es.t[i].id \in Dead}
    IN  [es EXCEPT !.t = [i \in DOMAIN es.t |->
                            IF i \in Hit
                            THEN [es.t[i] EXCEPT !.block = "none", !.deallocated = TRUE]
                            ELSE es.t[i]],
                   !.active = Least(Hit \cup {@})]

Updated(heap, es, Dead) ==
    IF heap = "young" THEN AfterMinor(es, Dead) ELSE AfterMajor(es, Dead)

(* domain_apply_actions and what follows it; a table of a discarded        *)
(* profile is left alone.                                                  *)
domain_apply_actions(t, heap, Dead) ==
    LET v == FoldLeft(validated_config, world, <<Dom>> \o threads \o orphans)
        w == [v EXCEPT !.tabs = [T \in DOMAIN @ |->
                                   IF T \in Live /\ v.tabs[T].config # None
                                   THEN Updated(heap, v.tabs[T], Dead) ELSE v.tabs[T]],
                       !.failed = @ \cup
                          Check(\A T \in Live : v.tabs[T].config # None =>
                                   \A e \in Range(v.tabs[T].t) :
                                      e.block # "none" \/ e.deleted \/ e.deallocated,
                                "entry_update")]
        o == orphans_update_pending(w, orphans)
    IN  /\ Yields(t) /\ Spend("gcs", 1)
        /\ Becomes(o.world) /\ Orphans(o)
        /\ set_action_pending_as_needed(o.world, t, suspended[t], o.pending)
        /\ UNCHANGED <<suspended, threads, current, status, frame, starting, program,
                       tracked, exposed>>

caml_memprof_after_minor_gc(t, Dead) == domain_apply_actions(t, "young", Dead)
caml_memprof_after_major_gc(t, Dead) == domain_apply_actions(t, "major", Dead)

-----------------------------------------------------------------------------
(* Threads.                                                                *)

caml_memprof_new_thread(t, u) ==
    /\ CodeRuns(t) /\ Spend("calls", 1)
    /\ u \notin Range(threads)
    /\ tabs' = [tabs EXCEPT ![u] = entries_init(Config(Dom))]
    /\ threads' = <<u>> \o threads
    /\ UNCHANGED <<run, failed, flags, suspended, current, status, frame, starting,
                   program, history>>

caml_memprof_enter_thread(t, u) ==
    /\ Yields(t) /\ u \in Range(threads) \ {t}
    /\ current' = u
    /\ update_suspended(world, u, suspended[u], orphans_pending)
    /\ UNCHANGED <<orphans, orphans_pending, threads, status, frame, starting,
                   program, left, history>>

(* Only a thread that is in no callback ends; u is the next to run.        *)
caml_memprof_delete_thread(t, u) ==
    /\ Free(t) /\ t # Main /\ Spend("calls", 1)
    /\ u \in Range(threads) \ {t}
    /\ threads' = SelectSeq(threads, LAMBDA x : x # t)
    /\ current' = u
    /\ LET w == entries_transfer(world, t, Dom)
       IN  update_suspended([w EXCEPT !.tabs[t] = entries_init(None)],
                            u, suspended[u], orphans_pending)
    /\ UNCHANGED <<orphans, orphans_pending, status, frame, starting, program, history>>

-----------------------------------------------------------------------------
Init ==
    /\ tabs = [T \in {Dom} \cup Thread \cup Orphan |-> entries_init(None)]
    /\ run = [t \in Thread |-> Idle]
    /\ failed = {} /\ orphans = <<>> /\ orphans_pending = FALSE /\ pending = FALSE
    /\ suspended = [t \in Thread |-> FALSE]
    /\ threads = <<Main>> /\ current = Main
    /\ status = <<>>
    /\ frame = [t \in Thread |-> NoFrame]
    /\ starting = {}
    /\ program \in Programs /\ left = program
    /\ tracked = {} /\ exposed = {} /\ unseen = FALSE

Sample(t) ==
    \/ \E blk \in program.heaps : caml_memprof_sample_block(t, blk)
    \/ \E n \in 1..program.comb : caml_memprof_sample_young(t, n)
    \/ capture_callstack_GC(t) \/ sample_young_room(t)
    \/ sample_young_end(t) \/ sample_young_cancelled(t)

Loop(t) ==
    \/ entries_skip(t) \/ entries_drop(t)
    \/ run_alloc_callback_exn(t) \/ run_alloc_callback_call(t)
    \/ run_alloc_callback_stale(t)
    \/ run_callback_exn(t)
    \/ \E res \in {"some", "none", "raise"} : CallbackEnd(t, res)

RunCallbacks(t) ==
    \/ caml_memprof_run_callbacks_exn(t)
    \/ run_callbacks_thread(t) \/ run_callbacks_next(t)
    \/ run_callbacks_orphan(t) \/ run_callbacks_end(t)

Profile(t) ==
    \/ caml_memprof_stop(t) \/ stop_end(t)
    \/ \E p \in DOMAIN status : caml_memprof_discard(t, p)
    \/ caml_memprof_start(t) \/ start_end(t)

Collect(t) ==
    \/ \E Dead \in SUBSET Blocks("young") : caml_memprof_after_minor_gc(t, Dead)
    \/ \E Dead \in SUBSET Blocks("major") \ {{}} : caml_memprof_after_major_gc(t, Dead)

Threads(t) ==
    \E u \in Thread : \/ caml_memprof_new_thread(t, u)
                      \/ caml_memprof_enter_thread(t, u)
                      \/ caml_memprof_delete_thread(t, u)

Next == \E t \in Thread : \/ Sample(t) \/ Loop(t) \/ RunCallbacks(t)
                          \/ Profile(t) \/ Collect(t) \/ Threads(t)

Spec == Init /\ [][Next]_vars

-----------------------------------------------------------------------------
(* Properties.                                                             *)

Tables == {Dom} \cup Thread \cup Orphan
EntryType ==
    [id : Nat, own : Thread, prof : Nat \cup {None},
     block : {"none", "offset", "young", "major"},
     user_data : {"unit", "stash", "young", "old"},
     runner : Thread \cup {None}, promoted : BOOLEAN, deallocated : BOOLEAN,
     deleted : BOOLEAN, callbacks : SUBSET {"alloc", "promote", "dealloc"}]

(* The types of the tables, of their positions and of the frames.          *)
TypeOK ==
    /\ \A T \in Tables :
          LET es == tabs[T]
          IN  /\ es.t \in Seq(EntryType)
              /\ {es.young, es.evict, es.active} \subseteq 1..(Len(es.t) + 1)
              /\ es.config \in DOMAIN status \cup {None}
    /\ run \in [Thread -> [table : Tables \cup {None}, index : Nat]]
    /\ orphans \in Seq(Orphan) /\ threads \in Seq(Thread) /\ Main \in Range(threads)
    /\ {orphans_pending, pending, unseen} \subseteq BOOLEAN
    /\ exposed \subseteq {"yield", "raise", "left"}
    /\ suspended \in [Thread -> BOOLEAN]
    /\ current \in Range(threads) /\ starting \subseteq Thread
    /\ status \in Seq({"sampling", "stopped", "discarded"})
    /\ frame \in [Thread -> [op : {"none", "run", "young", "stop"},
                             at : {"-", "capture", "loop", "info", "callback",
                                   "raise", "next", "room"},
                             es : Tables \cup {None},
                             config : DOMAIN status \cup {None}, n : Nat, id : Nat,
                             cb : {"none", "alloc", "promote", "dealloc"}]]

(* The assertions of memprof.c hold, but for those that one of the known   *)
(* hazards explains.                                                       *)
Explains ==
    [entry_delete |-> {"raise"}, caml_memprof_sample_young |-> {"yield", "left"},
     run_alloc_callback_exn |-> {"yield"}, capture_callstack_GC |-> {"yield"},
     caml_memprof_start |-> {"yield"}]
AssertionsHold ==
    \A a \in failed : a \in DOMAIN Explains /\ Explains[a] \cap exposed # {}

(* However entries are compacted, orphaned or inherited under a running    *)
(* callback, the thread that runs it and its entry know of each other:     *)
(* run_callback_exn finds its entry again.                                 *)
RunnersMatch ==
    failed = {} =>
      /\ \A t \in Thread :
            /\ run[t] # Idle <=> frame[t].at = "callback"
            /\ run[t] # Idle =>
                  /\ run[t].table \in Live
                  /\ run[t].index \in DOMAIN tabs[run[t].table].t
                  /\ tabs[run[t].table].t[run[t].index].runner = t
      /\ \A T \in Live : \A i \in DOMAIN tabs[T].t :
            tabs[T].t[i].runner # None =>
               run[tabs[T].t[i].runner] = [table |-> T, index |-> i]

(* What struct entries_s says of its positions: before "young" there is no *)
(* pointer to the minor heap, which a minor collection would not update,   *)
(* before "evict" nothing deleted, and before "active" no callback to run, *)
(* unless the profile is discarded.                                        *)
PositionsHold ==
    failed = {} =>
      \A T \in Live :
        LET es == tabs[T]
        IN  \A i \in DOMAIN es.t :
              /\ i < es.young => es.t[i].block # "young" /\ es.t[i].user_data # "young"
              /\ i < es.evict => ~es.t[i].deleted
              /\ i < es.active /\ es.config # None /\ ~Discarded(es) =>
                    ~Runnable(es.t[i])

(* A callback the current thread could run is noticed: it need not wait    *)
(* for a collection.  (Except for an orphan whose callback ended in        *)
(* caml_memprof_sample_young or caml_memprof_stop, and while a profile is  *)
(* being started.)                                                         *)
HasWork(T) == /\ tabs[T].config # None /\ ~Discarded(tabs[T])
              /\ \E e \in Range(tabs[T].t) : Runnable(e)
PendingNoticed ==
    Free(current) /\ starting = {} =>
      /\ HasWork(Dom) \/ HasWork(current) => pending
      /\ (\E i \in DOMAIN orphans : HasWork(orphans[i])) => pending \/ unseen

(* A block whose allocation callback has returned Some _ stays tracked, by *)
(* one entry of its profile, until the program is told of its deallocation *)
(* or gives up: no cancelled allocation, new profile or exiting thread     *)
(* loses it or makes a second entry.                                       *)
TrackedOnce ==
    "yield" \in exposed \/ \A b \in tracked :
      Cardinality({<<T, i>> \in Live \X (1..program.samples) :
                     /\ i \in DOMAIN tabs[T].t /\ tabs[T].t[i].id = b.id
                     /\ ~tabs[T].t[i].deleted /\ tabs[T].config = b.prof}) = 1

(* An entry that only has an offset belongs to a thread that is making the *)
(* allocation: nothing else would ever give it a block.                    *)
OffsetsOwned ==
    "yield" \in exposed \/ \A T \in Live : \A e \in Range(tabs[T].t) :
      e.block = "offset" => T = e.own /\ frame[T].op = "young"

(* Gc.Memprof.start: an allocation callback is always run by the thread    *)
(* which allocated the block.                                              *)
AllocByOwner ==
    \A t \in Thread : frame[t].at = "callback" /\ frame[t].cb = "alloc" /\ failed = {} =>
      tabs[run[t].table].t[run[t].index].own = t

(* The data a callback gets has the type it expects: dealloc_major is      *)
(* called with what promote has returned, never with data of dealloc_minor.*)
CallbacksTyped ==
    \A T \in Live : \A e \in Range(tabs[T].t) :
      /\ "dealloc" \in e.callbacks /\ e.promoted => "promote" \in e.callbacks
      /\ "promote" \in e.callbacks => e.promoted /\ "alloc" \in e.callbacks

(* A loop over orphans goes on in a list that still has its table.         *)
TablesKept ==
    failed = {} => \A t \in Thread : frame[t].es # None => frame[t].es \in Live

(* The tables, their positions and the threads that run callbacks agree.   *)
TablesConsistent == TypeOK /\ RunnersMatch /\ PositionsHold /\ TablesKept

(* A sampled block is tracked from its allocation callback, in the thread  *)
(* that allocates it, to the callback of its deallocation, through one     *)
(* entry and with callbacks in their order.                                *)
BlocksTracked == TrackedOnce /\ OffsetsOwned /\ AllocByOwner /\ CallbacksTyped
====
