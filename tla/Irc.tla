--------------------------------- MODULE Irc ---------------------------------
(***************************************************************************)
(* The register allocator "irc" (backend/regalloc/regalloc_irc*.ml):       *)
(* iterated register coalescing, with the rewriting of the code that       *)
(* spills (regalloc_rewrite.ml), on functions whose blocks are straight    *)
(* lines.                                                                  *)
(*                                                                         *)
(* A register is named by its stamp.  A work list is kept as in the code:  *)
(* a field of the register says which list it is on, and an array per list *)
(* has the registers; operations update both, and not always one after the *)
(* other.  "state" is Regalloc_irc_state.t with the fields of Reg.t and of *)
(* the move instructions, and operators map a state to the next.           *)
(***************************************************************************)
EXTENDS Integers, SequencesExt

CONSTANTS
    Precolored,     \* the hardware registers: negative stamps
    Phys,           \* their numbers; one has a name per type of its contents
    K,              \* num_available_registers of the one class there is
    Infinite,       \* the degree of a precolored register
    MaxRounds,
    Programs,       \* the functions to compile: sequences of blocks
    Depths          \* the numbers of loops a block may be in

ASSUME IrcAssumption ==
    /\ K \in Nat \ {0} /\ Infinite \in Nat /\ MaxRounds \in Nat
    /\ Precolored \subseteq Int /\ \A r \in Precolored : r < 0
    /\ Phys \in [Precolored -> 0..(K - 1)]
    /\ Depths \subseteq Nat

VARIABLES
    source,         \* the function as it was
    code,           \* and as it is now
    heuristics,     \* Spilling_heuristics.value
    loop_depths,    \* of the blocks; 0 where the heuristics do not ask
    state, phase, round

input == <<source, heuristics, loop_depths>>
vars == <<input, code, state, phase, round>>

None == -100

-----------------------------------------------------------------------------
(* Code.  An instruction reads and writes operands: a register or the      *)
(* stack slot of one, in the place of the register "of" the source.        *)

Operand(r) == [of |-> r, reg |-> r, stack |-> FALSE]
Slot(r) == [of |-> r, reg |-> r, stack |-> TRUE]
Instruction(id, move, arg, res, destroyed, stack) ==
    [id |-> id, move |-> move, arg |-> arg, res |-> res, destroyed |-> destroyed,
     stack |-> stack]

Regs(ops) == {o.reg : o \in {x \in ops : ~x.stack}}
Instrs(c) == UNION {Range(c[b]) : b \in DOMAIN c}
Temporaries(c) == UNION {Regs(i.arg) \cup Regs(i.res) : i \in Instrs(c)} \ Precolored
Moves(c) == {i \in Instrs(c) : i.move /\ \A o \in i.arg \cup i.res : ~o.stack}
MoveNamed(m) == CHOOSE i \in Moves(code) : i.id = m
Src(m) == CHOOSE r \in Regs(MoveNamed(m).arg) : TRUE
Dst(m) == CHOOSE r \in Regs(MoveNamed(m).res) : TRUE

(* The registers live across each instruction of a block.                  *)
liveness(block) ==
    LET n == Len(block)
        before[i \in 1..(n + 1)] ==
            IF i > n THEN {}
            ELSE Regs(block[i].arg) \cup (before[i + 1] \ Regs(block[i].res))
    IN  [i \in 1..n |-> before[i + 1] \ Regs(block[i].res)]

-----------------------------------------------------------------------------
(* Regalloc_irc_state.                                                     *)

Fields(R, initial) ==
    [list |-> [r \in R |-> IF r \in Precolored THEN "Precolored"
                           ELSE IF r \in initial THEN "Initial" ELSE "Unknown_list"],
     color |-> [r \in R |-> IF r \in Precolored THEN Phys[r] ELSE None],
     alias |-> [r \in R |-> None],
     interf |-> [r \in R |-> {}],
     degree |-> [r \in R |-> IF r \in Precolored THEN Infinite ELSE 0],
     move_list |-> [r \in R |-> {}],
     moves |-> [m \in {i.id : i \in Moves(source)} |-> "Unknown_list"],
     initial |-> initial, simplify_work_list |-> {}, freeze_work_list |-> {},
     spill_work_list |-> {}, spilled_nodes |-> {}, coalesced_nodes |-> {},
     colored_nodes |-> {}, select_stack |-> <<>>, work_list_moves |-> {},
     active_moves |-> {}, adj_set |-> {}, introduced_temporaries |-> {}]

make(initial) == Fields(Precolored \cup initial, initial)

reset(s, new) ==
    [Fields(DOMAIN s.list \cup new, new \cup s.colored_nodes \cup s.coalesced_nodes)
        EXCEPT !.introduced_temporaries = s.introduced_temporaries \cup new]

is_precolored(s, r) == s.list[r] = "Precolored"

find_alias(s, r) ==
    LET root[x \in DOMAIN s.list] ==
            IF s.list[x] = "Coalesced" THEN root[s.alias[x]] ELSE x
    IN  root[r]

add_edge(s, u, v) ==
    LET Ends == {x \in {u, v} : ~is_precolored(s, x)}
    IN  IF u = v \/ {u, v} \in s.adj_set THEN s
        ELSE [s EXCEPT !.adj_set = @ \cup {{u, v}},
                       !.interf = [x \in Ends |-> @[x] \cup ({u, v} \ {x})] @@ @,
                       !.degree = [x \in Ends |-> @[x] + 1] @@ @]

adjacent(s, r) == {a \in s.interf[r] : s.list[a] \notin {"Select_stack", "Coalesced"}}
node_moves(s, r) == {m \in s.move_list[r] : s.moves[m] \in {"Active", "Work_list"}}
is_move_related(s, r) == node_moves(s, r) # {}

enable_moves_one(s, r) ==
    LET M == {m \in node_moves(s, r) : s.moves[m] = "Active"}
    IN  [s EXCEPT !.moves = [m \in M |-> "Work_list"] @@ @,
                  !.active_moves = @ \ M, !.work_list_moves = @ \cup M]

add_simplify_work_list(s, r) ==
    [s EXCEPT !.list[r] = "Simplify", !.simplify_work_list = @ \cup {r}]
add_freeze_work_list(s, r) ==
    [s EXCEPT !.list[r] = "Freeze", !.freeze_work_list = @ \cup {r}]
remove_freeze_work_list(s, r) ==
    [s EXCEPT !.list[r] = "Unknown_list", !.freeze_work_list = @ \ {r}]
add_spill_work_list(s, r) ==
    [s EXCEPT !.list[r] = "Spill", !.spill_work_list = @ \cup {r}]
remove_spill_work_list(s, r) ==
    [s EXCEPT !.list[r] = "Unknown_list", !.spill_work_list = @ \ {r}]

Each(op(_, _), s, S) == FoldSet(LAMBDA x, acc : op(acc, x), s, S)

(* Mutant: a register that becomes insignificant stays on the spill list.  *)
decr_degree_stays(s, r) ==
    LET d == s.degree[r]
        less == [s EXCEPT !.degree[r] = d - 1]
        enabled == Each(enable_moves_one, less, {r} \cup adjacent(less, r))
    IN  IF d = Infinite THEN s
        ELSE IF d # K THEN less
        ELSE IF is_move_related(enabled, r) THEN add_freeze_work_list(enabled, r)
        ELSE add_simplify_work_list(enabled, r)

(* A register that becomes insignificant leaves the spill work list, and   *)
(* the moves around it may be coalesced after all.                         *)
decr_degree(s, r) ==
    LET d == s.degree[r]
        less == [s EXCEPT !.degree[r] = d - 1]
        enabled == Each(enable_moves_one, less, {r} \cup adjacent(less, r))
        out == remove_spill_work_list(enabled, r)
    IN  IF d = Infinite THEN s
        ELSE IF d # K THEN less
        ELSE IF is_move_related(out, r) THEN add_freeze_work_list(out, r)
        ELSE add_simplify_work_list(out, r)

-----------------------------------------------------------------------------
(* Regalloc_irc: the steps of a round.                                     *)

InterferenceEdges(c) ==
    UNION {LET across == liveness(c[b])
           IN  UNION {LET i == c[b][n]
                      IN  IF i \in Moves(c) THEN (across[n] \ Regs(i.arg)) \X Regs(i.res)
                          ELSE across[n] \X (Regs(i.res) \cup i.destroyed)
                      : n \in DOMAIN c[b]}
           : b \in DOMAIN c}

build(s, c) ==
    LET edges == FoldSet(LAMBDA e, acc : add_edge(acc, e[1], e[2]), s,
                         InterferenceEdges(c))
        M == Moves(c)
        ids == {i.id : i \in M}
    IN  [edges EXCEPT
           !.move_list = [r \in DOMAIN @ |->
               {i.id : i \in {x \in M : r \in Regs(x.arg) \cup Regs(x.res)}}],
           !.moves = [m \in ids |-> "Work_list"] @@ @,
           !.work_list_moves = ids]

make_work_list(s) ==
    LET Add(acc, r) ==
            IF s.degree[r] >= K THEN add_spill_work_list(acc, r)
            ELSE IF is_move_related(s, r) THEN add_freeze_work_list(acc, r)
            ELSE add_simplify_work_list(acc, r)
    IN  Each(Add, [s EXCEPT !.initial = {}], s.initial)

(* ArraySet.choose_and_remove takes the last element.                      *)
choose(S) == CHOOSE x \in S : \A y \in S : y <= x

simplify(s) ==
    LET r == choose(s.simplify_work_list)
        pushed == [s EXCEPT !.simplify_work_list = @ \ {r}, !.list[r] = "Select_stack",
                            !.select_stack = <<r>> \o @]
    IN  Each(decr_degree, pushed, adjacent(pushed, r))

ok(s, t, r) == \/ is_precolored(s, t) \/ s.degree[t] < K
               \/ {t, r} \in s.adj_set

all_adjacent_are_ok(s, u, v) == \A t \in adjacent(s, v) : ok(s, t, u)

(* Mutant: K significant neighbours are thought to be harmless.            *)
conservative_off_by_one(s, u, v) ==
    Cardinality({r \in adjacent(s, u) \cup adjacent(s, v) : s.degree[r] >= K}) <= K

conservative(s, u, v) ==
    Cardinality({r \in adjacent(s, u) \cup adjacent(s, v) : s.degree[r] >= K}) < K

same_phys_reg(r, q) == r \in Precolored /\ q \in Precolored /\ Phys[r] = Phys[q]

(* Mutant: only the edges count, not the other names of a register.        *)
interferes_with_adj_by_name(s, v, u) == {v, u} \in s.adj_set

interferes_with_adj(s, v, u) ==
    {v, u} \in s.adj_set \/ \E a \in s.interf[v] : same_phys_reg(u, a)

add_work_list(s, r) ==
    IF s.degree[r] < K /\ ~is_move_related(s, r)
    THEN add_simplify_work_list(remove_freeze_work_list(s, r), r)
    ELSE s

combine(s, u, v) ==
    LET out == IF s.list[v] = "Freeze" THEN remove_freeze_work_list(s, v)
               ELSE remove_spill_work_list(s, v)
        joined == [out EXCEPT !.list[v] = "Coalesced", !.coalesced_nodes = @ \cup {v},
                              !.alias[v] = u,
                              !.move_list[u] = @ \cup out.move_list[v]]
        Take(acc, t) == decr_degree(add_edge(acc, t, u), t)
        enabled == enable_moves_one(joined, v)
        merged == Each(Take, enabled, adjacent(enabled, v))
    IN  IF merged.list[u] = "Freeze" /\ merged.degree[u] >= K
        THEN add_spill_work_list(remove_freeze_work_list(merged, u), u)
        ELSE merged

coalesce(s) ==
    LET m == choose(s.work_list_moves)
        x == find_alias(s, Dst(m))
        y == find_alias(s, Src(m))
        u == IF is_precolored(s, y) THEN y ELSE x
        v == IF is_precolored(s, y) THEN x ELSE y
        To(l) == [s EXCEPT !.work_list_moves = @ \ {m}, !.moves[m] = l]
        mayCombine == IF is_precolored(s, u) THEN all_adjacent_are_ok(s, u, v)
                      ELSE conservative(s, u, v)
    IN  IF u = v THEN add_work_list(To("Coalesced"), u)
        ELSE IF is_precolored(s, v) \/ interferes_with_adj(s, v, u)
        THEN add_work_list(add_work_list(To("Constrained"), u), v)
        ELSE IF mayCombine
        THEN add_work_list(combine(To("Coalesced"), u, v), u)
        ELSE [To("Active") EXCEPT !.active_moves = @ \cup {m}]

freeze_moves(s, u) ==
    LET Freeze(acc, m) ==
            LET y == find_alias(acc, Src(m))
                v == IF y = find_alias(acc, u) THEN find_alias(acc, Dst(m)) ELSE y
                frozen == [acc EXCEPT !.active_moves = @ \ {m}, !.moves[m] = "Frozen"]
            IN  IF frozen.degree[v] < K /\ node_moves(frozen, v) = {}
                THEN add_simplify_work_list(remove_freeze_work_list(frozen, v), v)
                ELSE frozen
    IN  Each(Freeze, s, node_moves(s, u))

freeze(s) ==
    LET r == choose(s.freeze_work_list)
    IN  freeze_moves(add_simplify_work_list(remove_freeze_work_list(s, r), r), r)

Occurrences(block, r) ==
    Cardinality({n \in DOMAIN block : r \in Regs(block[n].arg)})
    + Cardinality({n \in DOMAIN block : r \in Regs(block[n].res)})

(* update_spill_cost: a use counts ten times more in each loop around it.  *)
spill_cost(c, r) ==
    MapThenSumSet(LAMBDA b : 10 ^ loop_depths[b] * Occurrences(c[b], r), DOMAIN c)

\* Mutant: the registers introduced for spilling cost what they cost.
weighted_cost_plain(s, r) == <<spill_cost(code, r), s.degree[r]>>

(* weighted_cost, as a fraction: the cost of spilling the register per     *)
(* neighbour, and 10_000 more when it was itself introduced for spilling.  *)
weighted_cost(s, r) ==
    <<spill_cost(code, r)
        + (IF r \in s.introduced_temporaries THEN 10000 * s.degree[r] ELSE 0),
      s.degree[r]>>

(* The registers that the heuristics may choose: any candidate that was    *)
(* not introduced, if there is one, or any of those with the lowest cost.  *)
Candidates(s) ==
    LET cost == [r \in s.spill_work_list |-> weighted_cost(s, r)]
        others == s.spill_work_list \ s.introduced_temporaries
    IN  IF heuristics # "set_choose"
        THEN {r \in DOMAIN cost : \A q \in DOMAIN cost :
                 cost[r][1] * cost[q][2] <= cost[q][1] * cost[r][2]}
        ELSE IF others # {} THEN others ELSE s.spill_work_list

select_spill(s, r) ==
    freeze_moves(add_simplify_work_list(remove_spill_work_list(s, r), r), r)

assign_colors(s) ==
    LET Taken(acc, n) ==
            {acc.color[a] : a \in {x \in {find_alias(acc, i) : i \in acc.interf[n]} :
                                      acc.list[x] \in {"Precolored", "Colored"}}}
        Assign(acc, n) ==
            LET free == (0..(K - 1)) \ Taken(acc, n)
            IN  IF free = {}
                THEN [acc EXCEPT !.list[n] = "Spilled", !.spilled_nodes = @ \cup {n}]
                ELSE [acc EXCEPT !.list[n] = "Colored", !.colored_nodes = @ \cup {n},
                                 !.color[n] = CHOOSE c \in free : \A d \in free : c <= d]
        t == FoldLeft(Assign, s, s.select_stack)
    IN  [t EXCEPT !.select_stack = <<>>,
                  !.color = [r \in DOMAIN @ |->
                      IF r \in t.coalesced_nodes THEN t.color[find_alias(t, r)]
                      ELSE @[r]]]

-----------------------------------------------------------------------------
(* Regalloc_rewrite.rewrite_gen.  S is the set of spilled registers; acc   *)
(* has the code written so far and the next stamp.                         *)

OnStack(ops, S) == {IF o.reg \in S /\ ~o.stack THEN [o EXCEPT !.stack = TRUE] ELSE o : o \in ops}

rewrite_instruction(acc, i, S) ==
    LET arg == IF "arg" \in i.stack THEN OnStack(i.arg, S) ELSE i.arg
        res == IF "res" \in i.stack THEN OnStack(i.res, S) ELSE i.res
        Loaded == Regs(arg) \cap S
        Stored == Regs(res) \cap S
        order == SetToSeq(Loaded \cup Stored)
        temp == [r \in Loaded \cup Stored |->
                    acc.next + (CHOOSE n \in DOMAIN order : order[n] = r) - 1]
        Rename(ops) == {IF ~o.stack /\ o.reg \in S THEN [o EXCEPT !.reg = temp[o.reg]]
                        ELSE o : o \in ops}
        load(r) == Instruction(0, FALSE, {Slot(r)}, {Operand(temp[r])}, {}, {})
        store(r) == Instruction(0, FALSE, {Operand(temp[r])}, {Slot(r)}, {}, {})
    IN  [next |-> acc.next + Len(order),
         block |-> acc.block
             \o [n \in DOMAIN SetToSeq(Loaded) |-> load(SetToSeq(Loaded)[n])]
             \o <<[i EXCEPT !.arg = Rename(arg), !.res = Rename(res)]>>
             \o [n \in DOMAIN SetToSeq(Stored) |-> store(SetToSeq(Stored)[n])]]

rewrite_gen(c, S, next) ==
    LET Block(acc, block) ==
            LET b == FoldLeft(LAMBDA a, i : rewrite_instruction(a, i, S),
                              [block |-> <<>>, next |-> acc.next], block)
            IN  [code |-> Append(acc.code, b.block), next |-> b.next]
    IN  FoldLeft(Block, [code |-> <<>>, next |-> next], c)

NextStamp(s) == 1 + choose(DOMAIN s.list \cup {0})

-----------------------------------------------------------------------------
(* Regalloc_irc.run: registers that nothing reads are spilled at once.     *)
run ==
    LET all == Temporaries(code)
        unused == all \ UNION {Regs(i.arg) : i \in Instrs(code)}
        s == make(all)
        spilled == [s EXCEPT !.spilled_nodes = unused,
                             !.list = [r \in DOMAIN @ |->
                                 IF r \in unused THEN "Spilled" ELSE @[r]]]
        w == rewrite_gen(code, unused, NextStamp(s))
        new == NextStamp(s)..(w.next - 1)
        grown == [Fields(DOMAIN s.list \cup new, all \cup new)
                    EXCEPT !.introduced_temporaries = new,
                           !.list = [r \in DOMAIN @ |->
                               IF r \in unused THEN "Unknown_list" ELSE @[r]]]
    IN  /\ phase = "run"
        /\ code' = w.code
        /\ state' = IF new = {} THEN spilled ELSE grown
        /\ phase' = "main" /\ round' = 1
        /\ UNCHANGED input

(* One more round, or a fatal error.                                       *)
Build ==
    /\ phase = "main"
    /\ state' = IF round > MaxRounds THEN state ELSE make_work_list(build(state, code))
    /\ phase' = IF round > MaxRounds THEN "fatal" ELSE "loop"
    /\ UNCHANGED <<input, code, round>>

Loop(s) == phase = "loop" /\ state' = s /\ UNCHANGED <<input, code, phase, round>>

Simplify == state.simplify_work_list # {} /\ Loop(simplify(state))

Coalesce ==
    /\ state.simplify_work_list = {}
    /\ state.work_list_moves # {} /\ Loop(coalesce(state))

Freeze ==
    /\ state.simplify_work_list = {} /\ state.work_list_moves = {}
    /\ state.freeze_work_list # {} /\ Loop(freeze(state))

SelectSpill ==
    /\ state.simplify_work_list = {} /\ state.work_list_moves = {}
    /\ state.freeze_work_list = {} /\ state.spill_work_list # {}
    /\ \E r \in Candidates(state) : Loop(select_spill(state, r))

AssignColors ==
    /\ phase = "loop"
    /\ state.simplify_work_list = {} /\ state.work_list_moves = {}
    /\ state.freeze_work_list = {} /\ state.spill_work_list = {}
    /\ state' = assign_colors(state)
    /\ phase' = "rewrite"
    /\ UNCHANGED <<input, code, round>>

End ==
    /\ phase = "rewrite" /\ state.spilled_nodes = {}
    /\ phase' = "done"
    /\ UNCHANGED <<input, code, state, round>>

(* Without a new register the allocation is over; otherwise it starts      *)
(* again.                                                                  *)
Rewrite ==
    LET w == rewrite_gen(code, {r \in state.spilled_nodes : state.list[r] = "Spilled"},
                         NextStamp(state))
        new == NextStamp(state)..(w.next - 1)
    IN  /\ phase = "rewrite" /\ state.spilled_nodes # {}
        /\ code' = w.code
        /\ \/ /\ new = {}
              /\ phase' = "done" /\ UNCHANGED <<state, round>>
           \/ /\ new # {}
              /\ state' = reset(state, new)
              /\ phase' = "main" /\ round' = round + 1
        /\ UNCHANGED input

Init ==
    /\ source \in Programs /\ code = source
    /\ heuristics \in {"set_choose", "flat_uses", "hierarchical_uses"}
    /\ loop_depths \in [DOMAIN source ->
                           IF heuristics = "hierarchical_uses" THEN Depths ELSE {0}]
    /\ state = make({}) /\ phase = "run" /\ round = 0

Next == \/ run \/ Build
        \/ Simplify \/ Coalesce \/ Freeze \/ SelectSpill
        \/ AssignColors \/ End \/ Rewrite

Spec == Init /\ [][Next]_vars

(* The compiler keeps computing until it is done.                          *)
FairSpec == Spec /\ ([]<><<TRUE>>_vars \/ <>[](phase \in {"done", "fatal"}))

-----------------------------------------------------------------------------
(* What a sequence of blocks reads: every operand of every instruction of  *)
(* the source with the value found in its place.  An instruction makes a   *)
(* value of its own for each result; a move, a load and a store copy one.  *)

Reads(c, Place(_)) ==
    LET Step(acc, i) ==
            LET value(o) == acc.env[Place(o)]
                made(o) == IF i.move \/ i.id = 0
                           THEN value(CHOOSE a \in i.arg : TRUE)
                           ELSE <<"made", i.id, o.of>>
                lost == {<<"reg", Phys[r]>> : r \in i.destroyed}
                written == {Place(o) : o \in i.res}
            IN  [env |-> [p \in DOMAIN acc.env |->
                             IF p \in written
                             THEN made(CHOOSE o \in i.res : Place(o) = p)
                             ELSE IF p \in lost THEN <<"lost", i.id, 0>> ELSE acc.env[p]],
                 read |-> acc.read \cup (IF i.id = 0 THEN {}
                              ELSE {<<i.id, o.of, value(o)>> : o \in i.arg})]
        places == {<<"reg", Phys[r]>> : r \in Precolored}
                  \cup UNION {{Place(o) : o \in i.arg \cup i.res} : i \in Instrs(c)}
    IN  FoldLeft(Step, [env |-> [p \in places |-> <<"entry", 0, p[2]>>], read |-> {}],
                 FlattenSeq(c)).read

PlaceInSource(o) == IF o.reg \in Precolored THEN <<"reg", Phys[o.reg]>>
                    ELSE <<"temporary", o.reg>>
PlaceInCode(o) == IF o.stack THEN <<"slot", o.reg>> ELSE <<"reg", state.color[o.reg]>>

(* Nothing but its neighbours keeps a register from a colour: the graph of *)
(* the code loses all its registers when those with fewer than K           *)
(* neighbours left are taken out one after the other.                      *)
Colorable(c) ==
    LET edges == {{e[1], e[2]} : e \in {x \in InterferenceEdges(c) : x[1] # x[2]}}
        T == Temporaries(c)
        Low(R) == {r \in R : Cardinality({e \in edges : r \in e
                                             /\ e \subseteq R \cup Precolored}) < K}
        left[n \in 0..Cardinality(T)] ==
            IF n = 0 THEN T ELSE left[n - 1] \ Low(left[n - 1])
    IN  left[Cardinality(T)] = {}

-----------------------------------------------------------------------------
(* Properties.                                                             *)

WorkLists == {<<"Initial", state.initial>>, <<"Simplify", state.simplify_work_list>>,
              <<"Freeze", state.freeze_work_list>>, <<"Spill", state.spill_work_list>>,
              <<"Spilled", state.spilled_nodes>>, <<"Coalesced", state.coalesced_nodes>>,
              <<"Colored", state.colored_nodes>>,
              <<"Select_stack", Range(state.select_stack)>>}

(* The fields have values of their types; a colour is that of an available *)
(* hardware register.                                                      *)
TypeOK ==
    /\ phase \in {"run", "main", "loop", "rewrite", "done", "fatal"}
    /\ round \in 0..(MaxRounds + 1)
    /\ Range(state.color) \subseteq {None} \cup 0..(K - 1)
    /\ \A r \in DOMAIN state.degree : state.degree[r] \in Nat
    /\ state.introduced_temporaries \subseteq DOMAIN state.list

(* State.invariant where main calls it, which is only when debugging: the  *)
(* list a register's field names is the one array that has it, the same    *)
(* goes for moves, and the degree of a register still in the graph counts  *)
(* its neighbours in the graph, through coalescing too.                    *)
WorkListsConsistent ==
    LET inGraph == state.simplify_work_list \cup state.freeze_work_list
                   \cup state.spill_work_list
        Of(l) == {m \in DOMAIN state.moves : state.moves[m] = l}
    IN  phase \in {"loop", "rewrite"} \/ round > 1 =>
            /\ \A r \in DOMAIN state.list, w \in WorkLists :
                   r \in w[2] <=> state.list[r] = w[1]
            /\ state.work_list_moves = Of("Work_list") /\ state.active_moves = Of("Active")
            /\ \A r \in inGraph : state.degree[r]
                   = Cardinality(state.interf[r] \cap (inGraph \cup Precolored))

(* At every turn of the loop the registers wait where their degree and     *)
(* their moves say: none with K neighbours is about to be simplified or    *)
(* frozen, unless it was chosen for spilling, and none is left behind on   *)
(* the freeze or the spill list by a move that was settled or a neighbour  *)
(* that went away.                                                         *)
Classified ==
    phase = "loop" =>
        /\ \A r \in state.simplify_work_list : ~is_move_related(state, r)
        /\ \A r \in state.freeze_work_list :
               state.degree[r] < K /\ is_move_related(state, r)
        /\ \A r \in state.spill_work_list : state.degree[r] >= K
        /\ Cardinality({r \in state.simplify_work_list : state.degree[r] >= K}) <= 1

(* When the loop ends every move of the code has been coalesced, found     *)
(* constrained or given up: no move is forgotten with a register that was  *)
(* merged into another.                                                    *)
MovesSettled ==
    phase = "rewrite" =>
        \A i \in Moves(code) : state.moves[i.id] \in {"Coalesced", "Constrained", "Frozen"}

(* The work lists of the allocator are consistent throughout.              *)
ListsConsistent == TypeOK /\ WorkListsConsistent /\ Classified /\ MovesSettled

(* A register that was merged with others is never spilled: assign_colors  *)
(* finds a colour for the alias of every coalesced register, and for those *)
(* that were merged into the alias.                                        *)
CoalescedAreColored ==
    phase = "rewrite" => \A r \in state.coalesced_nodes : state.color[r] # None

(* The allocation keeps the meaning of the code: in the registers and      *)
(* slots it chose, every instruction of the source reads the values that   *)
(* it read before, whatever was coalesced, spilled, reloaded or destroyed, *)
(* and update_register_locations finds a colour for all that the code      *)
(* still names.                                                            *)
SameValues ==
    phase = "done" =>
        /\ \A r \in Temporaries(code) : state.color[r] # None
        /\ Reads(code, PlaceInCode) = Reads(source, PlaceInSource)

(* Coalescing is conservative: it never makes a register spill when the    *)
(* code could be coloured by simplifying alone.                            *)
NoNeedlessSpill ==
    phase = "rewrite" /\ Colorable(code) => state.spilled_nodes = {}

(* Coalescing costs no register: neither the merged ones nor others.       *)
ConservativeCoalescing == NoNeedlessSpill /\ CoalescedAreColored

(* The heuristics do not favour the registers that were introduced for     *)
(* spilling: none is chosen while there is another candidate.              *)
IntroducedLast ==
    [][SelectSpill =>
          \/ state.spill_work_list \ state'.spill_work_list
                 \subseteq state.spill_work_list \ state.introduced_temporaries
          \/ state.spill_work_list \subseteq state.introduced_temporaries]_vars

(* The costs of the candidates, whenever one is to be chosen, are in the   *)
(* reach of the constant of weighted_cost.                                 *)
CostsInReach ==
    /\ phase = "loop" /\ state.simplify_work_list = {}
    /\ state.work_list_moves = {} /\ state.freeze_work_list = {}
    => \A r \in state.spill_work_list \ state.introduced_temporaries :
           spill_cost(code, r) <= 10000 * state.degree[r]

(* As long as they are, the rounds end, well before there are too many of  *)
(* them: what is spilled for good makes room for what was introduced to    *)
(* spill it.                                                               *)
AllocationEnds == []CostsInReach => <>(phase = "done")

(* With loops deep enough the costs are out of reach: this fails, and so   *)
(* does IntroducedLast.                                                    *)
AllocationAlwaysEnds == <>(phase = "done")
====
