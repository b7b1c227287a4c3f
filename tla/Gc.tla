--------------------------------- MODULE Gc ---------------------------------
(***************************************************************************)
(* The garbage collector of one domain (runtime/major_gc.c, minor_gc.c,    *)
(* shared_heap.c, memory.c), with the two things that make its phases hard *)
(* to get right: ephemerons (weak.c) and finalisers (finalise.c), and the  *)
(* continuations whose stacks are marked as a whole (fiber.c).             *)
(*                                                                         *)
(* The mutator allocates, reads and writes between the slices of the       *)
(* collector.  A slice does any amount of work, so it is modelled as steps *)
(* that the mutator may separate: one block swept, one block marked, one   *)
(* ephemeron examined.  What a slice does whatever its budget (the change  *)
(* of phase at its end) belongs to each of its steps.                      *)
(*                                                                         *)
(* A block keeps its identity when it is promoted.  A cell has one field;  *)
(* an ephemeron has one key and its data; a continuation has a stack with  *)
(* one slot.                                                               *)
(***************************************************************************)
EXTENDS Naturals, Sequences, FiniteSets, SequencesExt

CONSTANTS
    Addr,       \* the blocks the two heaps have room for
    None,       \* an immediate value: no block; also caml_ephe_none
    Shapes,     \* bounds: the numbers of cells, ephemerons and continuations,
                \* of young blocks, and of finalisers in each table
    ReuseKeys,  \* may the program set a key where that hides the data?
    LateLast    \* may it call Gc.finalise_last on a value of the major heap?

ASSUME GcAssumption ==
    /\ IsFiniteSet(Addr)
    /\ None \notin Addr
    /\ Shapes \subseteq [cell : Nat, ephe : Nat, cont : Nat, young : Nat,
                         first : Nat, last : Nat]
    /\ ReuseKeys \in BOOLEAN /\ LateLast \in BOOLEAN

VARIABLES
    kind,           \* what each address holds: "free", "cell", "ephe", "cont"
    young,          \* the blocks in the minor heap
    colour,         \* the status of the blocks of the major heap
    fld,            \* the field of a cell, the slot of a stack, Ephe_data
    key,            \* the key of an ephemeron
    roots,          \* what the program holds: stacks, local and global roots
    major_ref,      \* the cells of the major heap whose field is remembered
    ephe_ref,       \* the remembered <<ephemeron, offset>> pairs
    phase,          \* caml_gc_phase
    sweeping_done,
    marking_done,
    mark_stack,     \* the marked blocks with a field still to scan
    ephe,           \* ephe_info: the lists, the cursor, must_sweep_ephe
    cycle_info,     \* ephe_cycle_info: the two counts of domains
    in_ephe_mark,   \* inside the loop over ephe_mark: the mutator is stopped
    first, last,    \* the finalisers: table and number of old entries
    updated_first, updated_last,
    todo,           \* the finalisers to call, in order: table and value
    owed,           \* history: the finalisers attached and not called yet
    doomed          \* history: the blocks out of reach since marking started

heap_vars == <<kind, young, colour, fld, key>>
mark_vars == <<colour, mark_stack, marking_done>>
minor_vars == <<young, major_ref, ephe_ref>>
ephe_vars == <<ephe, cycle_info, in_ephe_mark>>
final_vars == <<first, last, updated_first, updated_last, todo, owed>>
vars == <<kind, young, colour, fld, key, roots, major_ref, ephe_ref, phase,
          sweeping_done, marking_done, mark_stack, ephe, cycle_info,
          in_ephe_mark, first, last, updated_first, updated_last, todo,
          owed, doomed>>

Value == Addr \cup {None}
Allocated == {b \in Addr : kind[b] # "free"}
Major == Allocated \ young

Count(k) ==
    CASE k = "first" -> Len(first.table)
      [] k = "last" -> Len(last.table)
      [] k = "young" -> Cardinality(young)
      [] OTHER -> Cardinality({b \in Addr : kind[b] = k})
RoomFor(K) ==
    \E s \in Shapes :
       /\ \A k \in DOMAIN s : Count(k) + (IF k \in K THEN 1 ELSE 0) <= s[k]
       /\ owed + Cardinality(K \cap {"first", "last"}) <= s.first + s.last

caml_marking_started == phase # "sweep_main"
\* Mutant: blocks are allocated to be marked like the others.
AllocationUnmarked == "UNMARKED"

caml_allocation_status == IF caml_marking_started THEN "MARKED" ELSE "UNMARKED"
Unmarked(v) == v \in Major /\ colour[v] = "UNMARKED"

-----------------------------------------------------------------------------
(* S and the blocks that are found from it, when More(T) is what one step  *)
(* finds from the blocks T.                                                *)
Closure(S, More(_)) ==
    LET found[n \in 0 .. Cardinality(Addr)] ==
            IF n = 0 THEN S ELSE LET T == found[n - 1] IN T \cup More(T)
    IN  found[Cardinality(Addr)]

-----------------------------------------------------------------------------
(* Marking.                                                                *)

(* The blocks that caml_darken marks when it is given the values S: the    *)
(* unmarked ones of the major heap and, through the stack of a             *)
(* continuation, the ones its stack points to.                             *)
OnStacks(D) == {v \in {fld[b] : b \in {c \in D : kind[c] = "cont"}} : Unmarked(v)}
Darkened(S) == Closure({v \in S : Unmarked(v)}, OnStacks)

(* mark_stack_push_block pushes no block whose field needs no marking.     *)
Pushed(D) == {b \in D : kind[b] = "cell" /\ fld[b] \in Major}

SetMarked(D) == [b \in Addr |-> IF b \in D THEN "MARKED" ELSE colour[b]]

(* caml_darken on each of the values S.                                    *)
Darken(S) ==
    LET D == Darkened(S) IN
    /\ colour' = SetMarked(D)
    /\ mark_stack' = mark_stack \cup Pushed(D)
    /\ marking_done' = (marking_done /\ D = {})

DarkenIfMarking(S) ==
    IF caml_marking_started THEN Darken(S) ELSE UNCHANGED mark_vars

-----------------------------------------------------------------------------
(* The changes of phase.                                                   *)

EpheMarkingDone(info) == info.num_domains_todo = info.num_domains_done

(* The end of a slice: try_complete_gc_phase, with the state the slice has *)
(* reached.                                                                *)
PhaseAfter(mdone, info, ufirst) ==
    CASE phase = "sweep_and_mark_main" /\ mdone /\ EpheMarkingDone(info) -> "mark_final"
      [] phase = "mark_final" /\ ufirst /\ mdone /\ EpheMarkingDone(info)
           -> "sweep_ephe"
      [] OTHER -> phase

CompletePhase(mdone, eph, info, ufirst) ==
    LET next == PhaseAfter(mdone, info, ufirst) IN
    /\ phase' = next
    /\ ephe' = [eph EXCEPT !.must_sweep_ephe =
                               @ \/ (phase = "mark_final" /\ next = "sweep_ephe")]
    /\ cycle_info' = info

(* The number of an ephemeron cycle is only compared with the current one: *)
(* "cycle" and "cursor_cycle" say whether the domain has completed, and    *)
(* whether its cursor is of, the current cycle, and a new cycle makes both *)
(* FALSE.                                                                  *)
NewCycle(eph) == [eph EXCEPT !.cycle = FALSE, !.cursor_cycle = FALSE, !.cursor = 0]

\* Mutant: the domain still counts as done in the new cycle.
ephe_next_cycle_counted(info) == info

ephe_next_cycle(info) == [info EXCEPT !.num_domains_done = 0]

ephe_todo_list_emptied(info) ==
    [num_domains_done |-> 0, num_domains_todo |-> info.num_domains_todo - 1]

(* The domain reports its todo list when it finds it empty.                *)
TodoReported ==
    IF ephe.todo = <<>> THEN ephe_todo_list_emptied(cycle_info) ELSE cycle_info

(* is_complete_phase_sweep_ephe: the slice that reaches this state ends    *)
(* the cycle before the mutator runs again.                                *)
CycleDue ==
    /\ phase = "sweep_ephe"
    /\ ~ephe.must_sweep_ephe
    /\ ephe.todo = <<>>
    /\ updated_last

Running == ~in_ephe_mark /\ ~CycleDue

-----------------------------------------------------------------------------
(* A finaliser of the first table is called with its value, one of the     *)
(* last table with ().                                                     *)
TodoValues == {f[2] : f \in {g \in ToSet(todo) : g[1] = "first"}}
Items(table, s) == [i \in DOMAIN s |-> <<table, s[i]>>]

(* What the program can still reach: from its roots and the arguments of   *)
(* the finalisers to call, through fields and stacks, and to the data of   *)
(* an ephemeron it reaches when it reaches the key too.                    *)
FieldsOf(T) == {fld[b] : b \in T} \ {None}
Open(T) == {b \in T : kind[b] = "ephe" => key[b] \in T \cup {None}}
Reachable == Closure(roots \cup TodoValues, LAMBDA T : FieldsOf(Open(T)))

StrongReachable ==
    Closure(roots, LAMBDA T : FieldsOf({b \in T : kind[b] # "ephe"}))

(* The blocks that were out of reach when marking started and have been so *)
(* ever since.                                                             *)
Doom ==
    doomed' = IF phase = "sweep_main" /\ phase' = "sweep_and_mark_main"
              THEN Major' \ Reachable'
              ELSE IF doomed = {} THEN {}
              ELSE (doomed \cap Allocated') \ Reachable'

-----------------------------------------------------------------------------
(* The mutator: allocation, reads and writes.                              *)

(* caml_alloc_small: the field is initialised with a value the program     *)
(* holds.                                                                  *)
AllocSmall(a, v) ==
    /\ Running
    /\ kind[a] = "free"
    /\ v \in roots \cup {None}
    /\ \E k \in {"cell", "cont"} :
          \* a "cont" is the block caml_perform makes for the stack it captures
          /\ k = "cont" => v # None
          /\ RoomFor({k, "young"})
          /\ kind' = [kind EXCEPT ![a] = k]
    /\ young' = young \cup {a}
    /\ fld' = [fld EXCEPT ![a] = v]
    /\ roots' = roots \cup {a}
    /\ UNCHANGED <<colour, key, major_ref, ephe_ref, phase, sweeping_done,
                   marking_done, mark_stack>>
    /\ UNCHANGED <<ephe_vars, final_vars>>
    /\ Doom

(* caml_alloc_shr, and caml_initialize for its field.                      *)
AllocShr(a, v) ==
    /\ Running
    /\ kind[a] = "free" /\ RoomFor({"cell"})
    /\ v \in roots \cup {None}
    /\ kind' = [kind EXCEPT ![a] = "cell"]
    /\ colour' = [colour EXCEPT ![a] = caml_allocation_status]
    /\ fld' = [fld EXCEPT ![a] = v]
    /\ major_ref' = IF v \in young THEN major_ref \cup {a} ELSE major_ref
    /\ roots' = roots \cup {a}
    /\ UNCHANGED <<young, key, ephe_ref, phase, sweeping_done, marking_done,
                   mark_stack>>
    /\ UNCHANGED <<ephe_vars, final_vars>>
    /\ Doom

Drop(a) ==
    /\ Running
    /\ a \in roots
    /\ roots' = roots \ {a}
    /\ UNCHANGED <<heap_vars, major_ref, ephe_ref, phase, sweeping_done,
                   marking_done, mark_stack, ephe_vars, final_vars>>
    /\ Doom

Read(a) ==
    /\ Running
    /\ a \in roots /\ kind[a] = "cell" /\ fld[a] # None
    /\ roots' = roots \cup {fld[a]}
    /\ UNCHANGED <<heap_vars, major_ref, ephe_ref, phase, sweeping_done,
                   marking_done, mark_stack, ephe_vars, final_vars>>
    /\ Doom

\* Mutant: the old value is not darkened.
write_barrier_undarkened(a, old, new) ==
    /\ major_ref' = IF a \notin young /\ old \notin young /\ new \in young
                    THEN major_ref \cup {a} ELSE major_ref
    /\ UNCHANGED mark_vars

(* caml_modify: the write barrier, then the store.                         *)
write_barrier(a, old, new) ==
    IF a \in young \/ old \in young
    THEN UNCHANGED <<mark_vars, major_ref>>
    ELSE /\ DarkenIfMarking({old})
         /\ major_ref' = IF new \in young THEN major_ref \cup {a} ELSE major_ref

Modify(a, v) ==
    /\ Running
    /\ a \in roots /\ kind[a] = "cell"
    /\ v \in roots \cup {None}
    /\ write_barrier(a, fld[a], v)
    /\ fld' = [fld EXCEPT ![a] = v]
    /\ UNCHANGED <<kind, young, key, roots, ephe_ref, phase, sweeping_done>>
    /\ UNCHANGED <<ephe_vars, final_vars>>
    /\ Doom

(* caml_continuation_use: the stack leaves the continuation, and what it   *)
(* points to is in the hands of the program.                               *)
caml_continuation_use(k) ==
    /\ Running
    /\ k \in roots /\ kind[k] = "cont" /\ fld[k] # None
    /\ IF k \in young \/ ~caml_marking_started
       THEN UNCHANGED mark_vars
       ELSE LET D == Darkened({k}) IN
            /\ colour' = SetMarked(D)
            /\ mark_stack' = mark_stack \cup Pushed(D)
            /\ marking_done' = (marking_done /\ D \subseteq {k})
    /\ fld' = [fld EXCEPT ![k] = None]
    /\ roots' = roots \cup {fld[k]}
    /\ UNCHANGED <<kind, young, key, major_ref, ephe_ref, phase, sweeping_done>>
    /\ UNCHANGED <<ephe_vars, final_vars>>
    /\ Doom

-----------------------------------------------------------------------------
(* The mutator: ephemerons.                                                *)

caml_ephe_create(e) ==
    /\ Running
    /\ kind[e] = "free" /\ RoomFor({"ephe"})
    /\ kind' = [kind EXCEPT ![e] = "ephe"]
    /\ colour' = [colour EXCEPT ![e] = caml_allocation_status]
    /\ fld' = [fld EXCEPT ![e] = None]
    /\ key' = [key EXCEPT ![e] = None]
    /\ roots' = roots \cup {e}
    /\ ephe' = IF caml_marking_started
               THEN [ephe EXCEPT !.live = <<e>> \o @]
               ELSE [ephe EXCEPT !.todo = <<e>> \o @]
    /\ UNCHANGED <<young, major_ref, ephe_ref, phase, sweeping_done,
                   marking_done, mark_stack, cycle_info, in_ephe_mark>>
    /\ UNCHANGED final_vars
    /\ Doom

Held(e) == e \in roots /\ kind[e] = "ephe"

(* do_check_key_clean and caml_ephe_clean, which agree on an ephemeron     *)
(* with one key: what is left of the key and of the data.                  *)
KeyIsDead(e) == phase = "sweep_ephe" /\ Unmarked(key[e])
CleanKey(e) == IF KeyIsDead(e) THEN None ELSE key[e]
CleanData(e) == IF KeyIsDead(e) THEN None ELSE fld[e]

(* do_set                                                                  *)
EpheRemember(e, offset, old, new) ==
    IF new \in young /\ old \notin young THEN {<<e, offset>>} ELSE {}

caml_ephe_set_key(e, v) ==
    /\ Running
    /\ Held(e)
    /\ v \in roots \cup {None}
    /\ key' = [key EXCEPT ![e] = v]
    /\ fld' = [fld EXCEPT ![e] = CleanData(e)]
    /\ ephe_ref' = ephe_ref \cup EpheRemember(e, "key", CleanKey(e), v)
    /\ UNCHANGED <<kind, young, colour, roots, major_ref, phase, sweeping_done,
                   marking_done, mark_stack, ephe_vars, final_vars>>
    /\ Doom

caml_ephe_set_data(e, v) ==
    /\ Running
    /\ Held(e)
    /\ v \in roots \cup {None}
    /\ key' = [key EXCEPT ![e] = CleanKey(e)]
    /\ fld' = [fld EXCEPT ![e] = v]
    /\ ephe_ref' = ephe_ref \cup EpheRemember(e, "data", CleanData(e), v)
    /\ UNCHANGED <<kind, young, colour, roots, major_ref, phase, sweeping_done,
                   marking_done, mark_stack, ephe_vars, final_vars>>
    /\ Doom

(* ephe_get_field, on the key or on the data: clean, darken what is        *)
(* returned.                                                               *)
ephe_get_field(e, offset) ==
    LET v == IF offset = "key" THEN CleanKey(e) ELSE CleanData(e) IN
    /\ Running
    /\ Held(e)
    /\ key' = [key EXCEPT ![e] = CleanKey(e)]
    /\ fld' = [fld EXCEPT ![e] = CleanData(e)]
    /\ DarkenIfMarking({v})
    /\ roots' = roots \cup ({v} \ {None})
    /\ UNCHANGED <<kind, young, major_ref, ephe_ref, phase, sweeping_done>>
    /\ UNCHANGED <<ephe_vars, final_vars>>
    /\ Doom

(* ephe_get_field_copy, on a cell: a new block c, young unless it is too   *)
(* large, takes its field, which is darkened; the cell itself is not.      *)
ephe_get_field_copy(e, offset, c) ==
    LET v == IF offset = "key" THEN CleanKey(e) ELSE CleanData(e)
        D == IF caml_marking_started THEN Darkened({fld[v]}) ELSE {}
    IN
    /\ Running
    /\ Held(e)
    /\ v # None /\ kind[v] = "cell"
    /\ kind[c] = "free"
    /\ kind' = [kind EXCEPT ![c] = "cell"]
    /\ key' = [key EXCEPT ![e] = CleanKey(e)]
    /\ fld' = [fld EXCEPT ![e] = CleanData(e), ![c] = fld[v]]
    /\ \/ /\ RoomFor({"cell", "young"})
          /\ young' = young \cup {c}
          /\ colour' = SetMarked(D)
          /\ UNCHANGED major_ref
       \/ /\ RoomFor({"cell"})
          /\ colour' = [SetMarked(D) EXCEPT ![c] = caml_allocation_status]
          /\ major_ref' = IF fld[v] \in young THEN major_ref \cup {c} ELSE major_ref
          /\ UNCHANGED young
    /\ mark_stack' = mark_stack \cup Pushed(D)
    /\ marking_done' = (marking_done /\ D = {})
    /\ roots' = roots \cup {c}
    /\ UNCHANGED <<ephe_ref, phase, sweeping_done>>
    /\ UNCHANGED <<ephe_vars, final_vars>>
    /\ Doom

ephe_check_field(e) ==
    /\ Running
    /\ Held(e)
    /\ key' = [key EXCEPT ![e] = CleanKey(e)]
    /\ fld' = [fld EXCEPT ![e] = CleanData(e)]
    /\ UNCHANGED <<kind, young, colour, roots, major_ref, ephe_ref, phase,
                   sweeping_done, marking_done, mark_stack, ephe_vars, final_vars>>
    /\ Doom

(* caml_ephe_blit_key: both ephemerons are cleaned, then the key is copied *)
(* without being darkened.                                                 *)
caml_ephe_blit_key(es, ed) ==
    /\ Running
    /\ Held(es) /\ Held(ed) /\ es # ed
    /\ key' = [key EXCEPT ![es] = CleanKey(es), ![ed] = CleanKey(es)]
    /\ fld' = [fld EXCEPT ![es] = CleanData(es), ![ed] = CleanData(ed)]
    /\ ephe_ref' = ephe_ref \cup EpheRemember(ed, "key", CleanKey(ed), CleanKey(es))
    /\ UNCHANGED <<kind, young, colour, roots, major_ref, phase, sweeping_done,
                   marking_done, mark_stack, ephe_vars, final_vars>>
    /\ Doom

(* caml_ephe_blit_data darkens the copied data with no domain state: a     *)
(* program that gets there with unmarked data does not survive the call,   *)
(* so the step is there for the other calls only.                          *)
caml_ephe_blit_data(es, ed) ==
    /\ Running
    /\ Held(es) /\ Held(ed) /\ es # ed
    /\ ~(caml_marking_started /\ Unmarked(CleanData(es)))
    /\ key' = [key EXCEPT ![es] = CleanKey(es), ![ed] = CleanKey(ed)]
    /\ fld' = [fld EXCEPT ![es] = CleanData(es), ![ed] = CleanData(es)]
    /\ ephe_ref' = ephe_ref
         \cup EpheRemember(ed, "data", CleanData(ed), CleanData(es))
    /\ UNCHANGED <<kind, young, colour, roots, major_ref, phase, sweeping_done,
                   marking_done, mark_stack, ephe_vars, final_vars>>
    /\ Doom

-----------------------------------------------------------------------------
(* Finalisers.                                                             *)

(* caml_final_register (first) and caml_final_register_called_without_value *)
(* (last).                                                                 *)
Add(final, v) == [final EXCEPT !.table = Append(@, v)]

generic_final_register(v) ==
    /\ Running
    /\ v \in roots
    /\ \/ RoomFor({"first"}) /\ first' = Add(first, v) /\ last' = last
       \/ /\ RoomFor({"last"}) /\ last' = Add(last, v) /\ first' = first
          /\ LateLast \/ v \in young
    /\ owed' = owed + 1
    /\ UNCHANGED <<heap_vars, roots, major_ref, ephe_ref, phase, sweeping_done,
                   marking_done, mark_stack, ephe_vars, updated_first,
                   updated_last, todo>>
    /\ Doom

(* caml_final_do_calls_exn calls the next finaliser; a value comes back to *)
(* the program through the call.  (running_finalisation_function keeps the *)
(* calls from nesting, which the heap does not show.)                      *)
caml_final_do_calls ==
    /\ Running
    /\ todo # <<>>
    /\ todo' = Tail(todo)
    /\ roots' = IF Head(todo)[1] = "first" THEN roots \cup {Head(todo)[2]} ELSE roots
    /\ owed' = owed - 1
    /\ UNCHANGED <<heap_vars, major_ref, ephe_ref, phase, sweeping_done,
                   marking_done, mark_stack, ephe_vars, first, last,
                   updated_first, updated_last>>
    /\ Doom

(* generic_final_update: the old entries whose value is unmarked leave the *)
(* table, the batch is called last entry first.                            *)
Old(final) == SubSeq(final.table, 1, final.old)
Dead(final) == SelectSeq(Old(final), Unmarked)
Alive(v) == ~Unmarked(v)
Survivors(final) ==
    LET old == SelectSeq(Old(final), Alive) IN
    [table |-> old \o SubSeq(final.table, final.old + 1, Len(final.table)),
     old |-> Len(old)]

caml_final_update_first ==
    /\ Running
    /\ phase = "mark_final"
    /\ marking_done
    /\ ~updated_first
    /\ Darken(ToSet(Dead(first)))
    /\ todo' = todo \o Items("first", Reverse(Dead(first)))
    /\ first' = Survivors(first)
    /\ updated_first' = TRUE
    /\ CompletePhase(marking_done', ephe, cycle_info, TRUE)
    /\ UNCHANGED <<kind, young, fld, key, roots, major_ref, ephe_ref,
                   sweeping_done, in_ephe_mark, last, updated_last,
                   owed>>
    /\ Doom

(* The slice goes on to move the live ephemerons behind the todo ones,     *)
(* once per cycle.                                                         *)
MustSweepEphe(eph) ==
    IF eph.must_sweep_ephe
    THEN [eph EXCEPT !.must_sweep_ephe = FALSE, !.todo = @ \o eph.live,
                     !.live = <<>>]
    ELSE eph

caml_final_update_last ==
    /\ Running
    /\ phase = "sweep_ephe"
    /\ ~updated_last
    /\ todo' = todo \o Items("last", Reverse(Dead(last)))
    /\ last' = Survivors(last)
    /\ updated_last' = TRUE
    /\ ephe' = MustSweepEphe(ephe)
    /\ UNCHANGED <<heap_vars, roots, major_ref, ephe_ref, phase, sweeping_done,
                   marking_done, mark_stack, cycle_info, in_ephe_mark, first,
                   updated_first, owed>>
    /\ Doom

-----------------------------------------------------------------------------
(* The minor collection.                                                   *)

\* Mutant: ephemerons are not roots of a minor collection.
MinorRootsStrong ==
    roots \cup {fld[b] : b \in major_ref}
    \cup {first.table[i] : i \in first.old + 1 .. Len(first.table)}

(* What caml_empty_minor_heap_promote starts from ...                      *)
MinorRoots ==
    roots
    \cup {fld[b] : b \in major_ref}
    \cup {first.table[i] : i \in first.old + 1 .. Len(first.table)}
    \cup {IF r[2] = "key" THEN key[r[1]] ELSE fld[r[1]] : r \in ephe_ref}

(* ... and what it copies.                                                 *)
Promoted == Closure(MinorRoots \cap young, LAMBDA P : FieldsOf(P) \cap young)

(* generic_final_minor_update, on the entries that are not old.  It tests  *)
(* the age of the entry at the next free place of the table, j, and the    *)
(* header of the entry it looks at, i (zero when the value has been        *)
(* copied).                                                                *)
MinorStep(acc, v) ==
    IF acc.fresh[Len(acc.alive) + 1] \in young /\ v \notin Promoted
    THEN [acc EXCEPT !.dead = Append(@, v)]
    ELSE [acc EXCEPT !.alive = Append(@, v)]

(* The batch has the size that a first loop has counted.                   *)
MinorLast ==
    LET fresh == SubSeq(last.table, last.old + 1, Len(last.table))
        count == Cardinality({i \in DOMAIN fresh : fresh[i] \in young \ Promoted})
        loop == FoldLeft(MinorStep,
                         [fresh |-> fresh, alive |-> <<>>, dead |-> <<>>], fresh)
    IN  IF count = 0 THEN [table |-> last.table, batch |-> <<>>]
        ELSE [table |-> Old(last) \o loop.alive,
              batch |-> Reverse(SubSeq(loop.dead, 1, count))]

MinorHeapEmpty ==
    /\ young = {} /\ major_ref = {} /\ ephe_ref = {}
    /\ first.old = Len(first.table) /\ last.old = Len(last.table)

caml_empty_minor_heap ==
    LET P == Promoted
        dead == young \ P
        ml == MinorLast
    IN
    /\ ~in_ephe_mark
    /\ ~MinorHeapEmpty
    /\ kind' = [b \in Addr |-> IF b \in dead THEN "free" ELSE kind[b]]
    /\ fld' = [b \in Addr |-> IF b \in dead THEN None ELSE fld[b]]
    /\ colour' = [b \in Addr |-> IF b \in P THEN caml_allocation_status
                                            ELSE colour[b]]
    /\ young' = {}
    /\ major_ref' = {}
    /\ ephe_ref' = {}
    /\ first' = [first EXCEPT !.old = Len(first.table)]
    /\ last' = [table |-> ml.table, old |-> Len(ml.table)]
    /\ todo' = todo \o Items("last", ml.batch)
    /\ UNCHANGED <<key, roots, phase, sweeping_done, marking_done, mark_stack,
                   updated_first, updated_last, owed>>
    /\ UNCHANGED ephe_vars
    /\ Doom

-----------------------------------------------------------------------------
(* The slices of the major collection.                                     *)

(* caml_sweep: one block of the pools or of the large allocations.         *)
SweepOne(b) ==
    /\ Running
    /\ ~sweeping_done
    /\ b \in Major /\ colour[b] = "GARBAGE"
    /\ kind' = [kind EXCEPT ![b] = "free"]
    /\ colour' = [colour EXCEPT ![b] = "UNMARKED"]
    /\ fld' = [fld EXCEPT ![b] = None]
    /\ key' = [key EXCEPT ![b] = None]
    /\ UNCHANGED <<young, roots, major_ref, ephe_ref, phase, sweeping_done,
                   marking_done, mark_stack, ephe_vars, final_vars>>
    /\ Doom

SweepDone ==
    /\ Running
    /\ ~sweeping_done
    /\ \A b \in Major : colour[b] # "GARBAGE"
    /\ sweeping_done' = TRUE
    /\ UNCHANGED <<heap_vars, roots, major_ref, ephe_ref, phase, marking_done,
                   mark_stack, ephe_vars, final_vars>>
    /\ Doom

(* start_marking: the minor heap has just been emptied.                    *)
start_marking ==
    LET D == Darkened(roots \cup TodoValues) IN
    /\ Running
    /\ sweeping_done
    /\ phase = "sweep_main"
    /\ MinorHeapEmpty
    /\ phase' = "sweep_and_mark_main"
    /\ colour' = SetMarked(D)
    /\ mark_stack' = Pushed(D)
    /\ marking_done' = (Pushed(D) = {})
    /\ cycle_info' = TodoReported
    /\ UNCHANGED <<kind, young, fld, key, roots, major_ref, ephe_ref,
                   sweeping_done, ephe, in_ephe_mark>>
    /\ UNCHANGED final_vars
    /\ Doom

(* do_some_marking: one block of the mark stack.                           *)
MarkOne(b) ==
    LET D == Darkened({fld[b]}) IN
    /\ Running
    /\ caml_marking_started
    /\ ~marking_done
    /\ b \in mark_stack
    /\ colour' = SetMarked(D)
    /\ mark_stack' = (mark_stack \ {b}) \cup Pushed(D)
    /\ UNCHANGED <<kind, young, fld, key, roots, major_ref, ephe_ref, phase,
                   sweeping_done, marking_done, ephe_vars, final_vars>>
    /\ Doom

(* mark, when nothing is left.  An opportunistic slice stops there,        *)
(* another one looks whether the phase is complete.                        *)
MarkDone ==
    LET info == ephe_next_cycle(cycle_info) IN
    /\ Running
    /\ caml_marking_started
    /\ ~marking_done
    /\ mark_stack = {}
    /\ marking_done' = TRUE
    /\ \/ CompletePhase(TRUE, NewCycle(ephe), info, updated_first)
       \/ phase' = phase /\ ephe' = NewCycle(ephe) /\ cycle_info' = info
    /\ UNCHANGED <<heap_vars, roots, major_ref, ephe_ref, sweeping_done,
                   mark_stack, in_ephe_mark>>
    /\ UNCHANGED final_vars
    /\ Doom

(* A slice that finds no work, or has no budget, still ends the phase.     *)
try_complete_gc_phase ==
    /\ Running
    /\ PhaseAfter(marking_done, cycle_info, updated_first) # phase
    /\ CompletePhase(marking_done, ephe, cycle_info, updated_first)
    /\ UNCHANGED <<heap_vars, roots, major_ref, ephe_ref, sweeping_done,
                   marking_done, mark_stack, in_ephe_mark, final_vars>>
    /\ Doom

(* The slice enters the loop over ephe_mark, with the cursor of this cycle *)
(* if there is one.                                                        *)
EpheMarkBegin ==
    /\ Running
    /\ phase \in {"sweep_and_mark_main", "mark_final"}
    /\ marking_done
    /\ phase = "mark_final" => updated_first
    /\ ephe.todo # <<>>
    /\ ~ephe.cycle
    /\ in_ephe_mark' = TRUE
    /\ ephe' = IF ephe.cursor_cycle THEN ephe
               ELSE [ephe EXCEPT !.cursor_cycle = TRUE, !.cursor = 0]
    /\ UNCHANGED <<heap_vars, roots, major_ref, ephe_ref, phase, sweeping_done,
                   marking_done, mark_stack, cycle_info, final_vars>>
    /\ Doom

\* Mutant: the data is alive as soon as the ephemeron is.
DataIsHeld(e) == ~Unmarked(e)

DataIsAlive(e) == ~Unmarked(e) /\ ~Unmarked(key[e])

(* ephe_mark, for one ephemeron.  The header of a young key has the colour *)
(* 0, which is in turn MARKED, UNMARKED and GARBAGE: it is read as either. *)
EpheMarkOne ==
    LET e == ephe.todo[ephe.cursor + 1] IN
    /\ in_ephe_mark
    /\ ephe.cursor < Len(ephe.todo)
    /\ \/ /\ DataIsAlive(e)
          /\ Darken({fld[e]})
          /\ ephe' = [ephe EXCEPT !.todo = RemoveAt(@, ephe.cursor + 1),
                                  !.live = <<e>> \o @]
       \/ /\ ~DataIsAlive(e) \/ key[e] \in young
          /\ ephe' = [ephe EXCEPT !.cursor = @ + 1]
          /\ UNCHANGED mark_vars
    /\ UNCHANGED <<kind, young, fld, key, roots, major_ref, ephe_ref, phase,
                   sweeping_done, cycle_info, in_ephe_mark>>
    /\ UNCHANGED final_vars
    /\ Doom

(* The loop ends at the end of the list, or earlier when the budget does.  *)
EpheMarkEnd(completed) ==
    LET emptied == ephe.todo = <<>>
        record == completed /\ marking_done /\ ~emptied
    IN
    /\ in_ephe_mark
    /\ completed => ephe.cursor = Len(ephe.todo)
    /\ in_ephe_mark' = FALSE
    /\ CompletePhase(
         marking_done,
         IF emptied THEN NewCycle(ephe) ELSE [ephe EXCEPT !.cycle = record],
         IF record THEN [TodoReported EXCEPT !.num_domains_done = @ + 1]
                   ELSE TodoReported,
         updated_first)
    /\ UNCHANGED <<heap_vars, roots, major_ref, ephe_ref, sweeping_done,
                   marking_done, mark_stack, final_vars>>
    /\ Doom

(* A slice of the last phase with no budget still moves the live list.     *)
EpheSweepBegin ==
    /\ Running
    /\ phase = "sweep_ephe"
    /\ ephe.must_sweep_ephe
    /\ ephe' = MustSweepEphe(ephe)
    /\ UNCHANGED <<heap_vars, roots, major_ref, ephe_ref, phase, sweeping_done,
                   marking_done, mark_stack, cycle_info, in_ephe_mark,
                   final_vars>>
    /\ Doom

(* A dead ephemeron leaves the lists.                                      *)
KeepLive(e, eph) ==
    IF Unmarked(e) THEN [eph EXCEPT !.todo = Tail(@)]
                   ELSE [eph EXCEPT !.todo = Tail(@), !.live = <<e>> \o @]

ephe_sweep ==
    LET e == Head(ephe.todo) IN
    /\ Running
    /\ phase = "sweep_ephe"
    /\ ~ephe.must_sweep_ephe
    /\ updated_last
    /\ ephe.todo # <<>>
    /\ ephe' = KeepLive(e, ephe)
    /\ IF Unmarked(e) THEN UNCHANGED <<key, fld>>
       ELSE /\ key' = [key EXCEPT ![e] = CleanKey(e)]
            /\ fld' = [fld EXCEPT ![e] = CleanData(e)]
    /\ UNCHANGED <<kind, young, colour, roots, major_ref, ephe_ref, phase,
                   sweeping_done, marking_done, mark_stack, cycle_info,
                   in_ephe_mark, final_vars>>
    /\ Doom

Rotate(c) ==
    CASE c = "MARKED" -> "UNMARKED"
      [] c = "UNMARKED" -> "GARBAGE"
      [] c = "GARBAGE" -> "MARKED"

(* stw_cycle_all_domains: the minor heap has just been emptied.            *)
stw_cycle_all_domains ==
    /\ CycleDue
    /\ MinorHeapEmpty
    /\ colour' = [b \in Addr |-> IF b \in Major THEN Rotate(colour[b])
                                                ELSE colour[b]]
    /\ phase' = "sweep_main"
    /\ sweeping_done' = FALSE
    /\ marking_done' = FALSE
    /\ cycle_info' = [num_domains_todo |-> 1, num_domains_done |-> 0]
    /\ ephe' = [todo |-> ephe.live, live |-> <<>>, cycle |-> FALSE,
                cursor_cycle |-> FALSE, cursor |-> 0, must_sweep_ephe |-> FALSE]
    /\ updated_first' = FALSE
    /\ updated_last' = FALSE
    /\ UNCHANGED <<kind, young, fld, key, roots, major_ref, ephe_ref,
                   mark_stack, in_ephe_mark, first, last, todo, owed>>
    /\ Doom

-----------------------------------------------------------------------------
(* caml_init_gc and caml_init_major_gc: the program starts in the marking  *)
(* phase of a cycle with nothing to mark.                                  *)
Init ==
    /\ kind = [b \in Addr |-> "free"]
    /\ young = {}
    /\ colour = [b \in Addr |-> "UNMARKED"]
    /\ fld = [b \in Addr |-> None]
    /\ key = [b \in Addr |-> None]
    /\ roots = {}
    /\ major_ref = {}
    /\ ephe_ref = {}
    /\ phase = "sweep_and_mark_main"
    /\ sweeping_done = TRUE
    /\ marking_done = TRUE
    /\ mark_stack = {}
    /\ ephe = [todo |-> <<>>, live |-> <<>>, cycle |-> FALSE,
               cursor_cycle |-> FALSE, cursor |-> 0, must_sweep_ephe |-> FALSE]
    /\ cycle_info = [num_domains_todo |-> 0, num_domains_done |-> 0]
    /\ in_ephe_mark = FALSE
    /\ first = [table |-> <<>>, old |-> 0]
    /\ last = [table |-> <<>>, old |-> 0]
    /\ updated_first = FALSE
    /\ updated_last = FALSE
    /\ todo = <<>>
    /\ owed = 0
    /\ doomed = {}

(* Marking is under way, the program reaches the data of e through         *)
(* ephemerons only, and the key that v is to replace is lost, or v is a    *)
(* young block, which ephe_mark may take for unmarked: if e has been, or   *)
(* is, examined with such a key, nothing darkens the data.  Nothing in     *)
(* weak.c keeps a program from it; ReuseKeys says whether this one does it.*)
DataIsHidden(e, v) ==
    /\ phase \in {"sweep_and_mark_main", "mark_final"}
    /\ fld[e] \notin StrongReachable \cup {None}
    /\ key[e] \notin Reachable \cup {None} \/ v \in young

Mutator ==
    \/ \E a \in Addr, v \in Value :
          AllocSmall(a, v) \/ AllocShr(a, v) \/ Modify(a, v)
    \/ \E a \in Addr : Drop(a) \/ Read(a) \/ caml_continuation_use(a)
    \/ \E e \in Addr : caml_ephe_create(e)
    \/ \E e \in Addr, v \in Value :
          \/ (DataIsHidden(e, v) => ReuseKeys) /\ caml_ephe_set_key(e, v)
          \/ caml_ephe_set_data(e, v)
    \/ \E e \in Addr, offset \in {"key", "data"} :
          \/ ephe_get_field(e, offset)
          \/ \E c \in Addr : ephe_get_field_copy(e, offset, c)
    \/ \E e \in Addr : ephe_check_field(e)
    \/ \E es, ed \in Addr :
          \/ (DataIsHidden(ed, key[es]) => ReuseKeys) /\ caml_ephe_blit_key(es, ed)
          \/ caml_ephe_blit_data(es, ed)
    \/ \E v \in Addr : generic_final_register(v)
    \/ caml_final_do_calls

Slice ==
    \/ \E b \in Addr : SweepOne(b) \/ MarkOne(b)
    \/ SweepDone
    \/ start_marking
    \/ MarkDone
    \/ caml_final_update_first
    \/ EpheMarkBegin
    \/ EpheMarkOne
    \/ \E completed \in BOOLEAN : EpheMarkEnd(completed)
    \/ try_complete_gc_phase
    \/ caml_final_update_last
    \/ EpheSweepBegin
    \/ ephe_sweep
    \/ stw_cycle_all_domains

Next == Mutator \/ caml_empty_minor_heap \/ Slice

Spec == Init /\ [][Next]_vars

-----------------------------------------------------------------------------
Colour == {"MARKED", "UNMARKED", "GARBAGE"}

TypeOK ==
    /\ kind \in [Addr -> {"free", "cell", "ephe", "cont"}]
    /\ young \in SUBSET Addr
    /\ colour \in [Addr -> Colour]
    /\ fld \in [Addr -> Value]
    /\ key \in [Addr -> Value]
    /\ roots \in SUBSET Addr
    /\ major_ref \in SUBSET Addr
    /\ ephe_ref \in SUBSET (Addr \X {"key", "data"})
    /\ phase \in {"sweep_main", "sweep_and_mark_main", "mark_final", "sweep_ephe"}
    /\ sweeping_done \in BOOLEAN /\ marking_done \in BOOLEAN
    /\ mark_stack \in SUBSET Addr
    /\ ephe \in [todo : Seq(Addr), live : Seq(Addr), cycle : BOOLEAN,
                 cursor_cycle : BOOLEAN, cursor : Nat, must_sweep_ephe : BOOLEAN]
    /\ cycle_info \in [num_domains_todo : 0 .. 1, num_domains_done : 0 .. 1]
    /\ in_ephe_mark \in BOOLEAN
    /\ first \in [table : Seq(Addr), old : Nat]
    /\ last \in [table : Seq(Addr), old : Nat]
    /\ updated_first \in BOOLEAN /\ updated_last \in BOOLEAN
    /\ todo \in Seq({"first", "last"} \X Addr)
    /\ owed \in Nat
    /\ doomed \in SUBSET Addr

Intact(v) == v # None => v \in Allocated /\ (v \in Major => colour[v] # "GARBAGE")

(* Nothing the program can reach has been freed or is about to be swept,   *)
(* and no ephemeron it reaches holds a key or data that has: what the      *)
(* write barrier, the darkening of reads through ephemerons, the           *)
(* remembered sets and the order of the phases are for.                    *)
NoDangling ==
    \A b \in Reachable : Intact(b) /\ Intact(fld[b]) /\ Intact(key[b])

(* A pointer from the major heap to the minor heap is remembered, unless   *)
(* its block is garbage.                                                   *)
Remembered ==
    \A b \in {c \in Major : colour[c] # "GARBAGE"} :
       /\ kind[b] # "ephe" /\ fld[b] \in young => b \in major_ref
       /\ kind[b] = "ephe" /\ fld[b] \in young => <<b, "data">> \in ephe_ref
       /\ kind[b] = "ephe" /\ key[b] \in young => <<b, "key">> \in ephe_ref

(* The assertion of caml_ephe_clean, at weak.c:172-178: if the data field  *)
(* remains filled when all the keys have been scanned, then the mark phase *)
(* must have marked it.  It fails with ReuseKeys.                          *)
CleanedIsMarked ==
    phase = "sweep_ephe" =>
        \A e \in Addr : kind[e] = "ephe" /\ ~Unmarked(e) => ~Unmarked(CleanData(e))

(* When the collector starts to clear ephemerons, marking is over: all     *)
(* that the program can reach in the major heap is marked, and the data of *)
(* the ephemerons to clean, and nothing that the program does until the    *)
(* end of the cycle starts marking again.  The assertions of               *)
(* stw_cycle_all_domains and caml_ephe_clean say so.                       *)
MarkingIsOver ==
    /\ CleanedIsMarked
    /\ phase = "sweep_ephe" =>
           /\ marking_done /\ mark_stack = {}
           /\ \A b \in Reachable \cap Major : colour[b] = "MARKED"

(* The finalisers attached to values are those in the two tables and those *)
(* waiting to be called: none is lost and none is called twice.            *)
FinalisersKept == owed = Len(first.table) + Len(last.table) + Len(todo)

(* A finaliser of Gc.finalise is scheduled for a value that the program    *)
(* cannot reach through its roots, fields and stacks.                      *)
Scheduled(table) ==
    IF Len(todo') <= Len(todo) THEN {}
    ELSE {f[2] : f \in {g \in ToSet(todo') \ ToSet(todo) : g[1] = table}}
FirstUnreachable == \A v \in Scheduled("first") : v \notin StrongReachable

(* A finaliser of Gc.finalise_last is scheduled when its value is gone: no *)
(* root, field or ephemeron leads to it any more.                          *)
LastUnreachable == \A v \in Scheduled("last") : v \notin Reachable'

(* Each finaliser is called once, and only for a value that is out of      *)
(* reach, whichever collection finds it so.                                *)
FinalisersExact ==
    /\ []FinalisersKept
    /\ [][FirstUnreachable /\ LastUnreachable]_vars

(* What was out of reach when marking started, and stays so, has been      *)
(* swept when the next marking starts: a dead key keeps its data alive no  *)
(* longer than a dead cell keeps its field.                                *)
GarbageReclaimed == phase = "sweep_main" /\ sweeping_done => doomed = {}

(* The free blocks are on no list: a dead ephemeron has left the two lists *)
(* and a remembered field is in a block that is still there.               *)
ListsIntact ==
    /\ \A e \in ToSet(ephe.todo) \cup ToSet(ephe.live) :
          kind[e] = "ephe" /\ colour[e] # "GARBAGE"
    /\ \A b \in major_ref : b \in Major
    /\ \A r \in ephe_ref : kind[r[1]] = "ephe"
    /\ \A b \in mark_stack : b \in Major /\ colour[b] = "MARKED"

(* Between any two steps of the collector the program finds a heap it can  *)
(* use, and the collector finds what it will have to look at.              *)
HeapIntact == TypeOK /\ NoDangling /\ Remembered /\ ListsIntact

(* How far the cycle is from its end.  While it marks: the phase, the      *)
(* blocks still unmarked, the finalisers to look at, the blocks to scan,   *)
(* and the ephemerons to examine.                                          *)
Bit(b) == IF b THEN 1 ELSE 0
UnmarkedCount == Cardinality({b \in Addr : Unmarked(b)})
Rank ==
    CASE phase = "sweep_main" ->
           <<3, Cardinality({b \in Major : colour[b] = "GARBAGE"}),
             Bit(~sweeping_done), 0, 0, 0, 0, 0>>
      [] phase \in {"sweep_and_mark_main", "mark_final"} ->
           <<IF phase = "mark_final" THEN 1 ELSE 2, UnmarkedCount,
             Bit(~updated_first), Cardinality(mark_stack), Bit(~marking_done),
             cycle_info.num_domains_todo, Bit(~ephe.cycle),
             IF ephe.cursor_cycle THEN Len(ephe.todo) - ephe.cursor
                                  ELSE Len(ephe.todo) + 1>>
      [] phase = "sweep_ephe" ->
           <<0, Bit(~updated_last), Bit(ephe.must_sweep_ephe),
             Bit(~ephe.must_sweep_ephe) * Len(ephe.todo), 0, 0, 0, 0>>
Below(r, s) ==
    \E i \in DOMAIN r : r[i] < s[i] /\ \A j \in 1 .. i - 1 : r[j] = s[j]

(* Until a cycle ends, no step of the program or of the collector takes it *)
(* further from its end: marking restarts, and ephemerons are examined     *)
(* again, only when fewer blocks are left to mark.  So the slices finish   *)
(* the cycle, whatever the program does between them.                      *)
RankVars == <<kind, young, colour, phase, sweeping_done, marking_done, mark_stack,
              ephe, cycle_info, updated_first, updated_last>>
CycleAdvances ==
    [][CycleDue \/ Rank' = Rank \/ Below(Rank', Rank)]_RankVars
=============================================================================
