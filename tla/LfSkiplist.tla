----------------------------- MODULE LfSkiplist -----------------------------
(***************************************************************************)
(* The lock-free skip list (runtime/lf_skiplist.c), which finds the code   *)
(* fragment a program counter or a number belongs to (codefrag.c).  Every  *)
(* step makes one access to the shared list.  Lists of cells, one for each *)
(* level, are sorted by key; a cell is removed by marking its own forward  *)
(* pointers, the lowest one last, and whoever meets a marked cell takes it *)
(* out of the list and puts it on the garbage list.                        *)
(***************************************************************************)
EXTENDS Naturals, FiniteSets

CONSTANTS
    Proc,       \* the threads
    Cell,       \* the cells that can be allocated
    Head, Tail, \* the sentinels
    None,       \* NULL
    One,        \* the bogus pointer 1 that claims a garbage_next field
    MaxKey,     \* keys are 1 .. MaxKey: bounds UINTNAT_MAX
    Data,
    Absent,     \* no data
    TopLevel,   \* NUM_LEVELS - 1
    Profiles    \* bounds: who inserts and removes, whether garbage is freed,
                \* and how many calls are made

ASSUME LfSkiplistAssumption ==
    /\ MaxKey \in Nat \ {0} /\ TopLevel \in Nat
    /\ IsFiniteSet(Cell) /\ {Head, Tail, None, One} \cap Cell = {}
    /\ Head \notin {Tail, None, One} /\ Tail \notin {None, One} /\ None # One
    /\ Absent \notin Data
    /\ \A f \in Profiles :
          /\ f.writers \subseteq Proc /\ f.collect \in BOOLEAN /\ f.calls \in Nat
          /\ f.collect => \A p, q \in f.writers : p = q

VARIABLES
    used,           \* the cells that are allocated
    key, data, top_level,
    forward,        \* the pointers of a cell at each level: <<cell, marked>>
    garbage_next,
    search_level,
    garbage_head,
    pc,             \* where each thread is
    loc,            \* and its variables
    profile, calls, \* the bounds of this behaviour
    seen, gone      \* history: the data the keys have had during the call, and
                    \* whether its key has been removed

cells == <<used, key, top_level>>
history == <<seen, gone>>
vars == <<used, key, data, top_level, forward, garbage_next, search_level,
          garbage_head, pc, loc, profile, calls, seen, gone>>

Key == 1 .. MaxKey
Level == 0 .. TopLevel
AnyCell == Cell \cup {Head, Tail}

Idle == [op |-> "idle"]
Locals(op, k, d) ==
    [op |-> op, key |-> k, data |-> d, pred |-> Head, curr |-> Head,
     succ |-> Head, level |-> 0, preds |-> [l \in Level |-> Head],
     succs |-> [l \in Level |-> Head], cell |-> None, up |-> 0, res |-> Absent]

Ptr(c, l) == forward[c][l][1]
Marked(c, l) == forward[c][l][2]
Goto(p, label) == pc' = [pc EXCEPT ![p] = label]
Set(p, new) == loc' = [loc EXCEPT ![p] = new]

(* atomic_compare_exchange_strong on a forward pointer.                    *)
Holds(c, l, old) == forward[c][l] = <<old, FALSE>>
Store(c, l, new, mark) == forward' = [forward EXCEPT ![c][l] = <<new, mark>>]

(* caml_stat_free: nothing is left in the cells.                           *)
Freed(S, init, f) == [c \in AnyCell |-> IF c \in S THEN init[c] ELSE f[c]]
Blank == [key |-> [c \in AnyCell |-> IF c = Tail THEN MaxKey + 1 ELSE 0],
          data |-> [c \in AnyCell |-> Absent],
          top_level |-> [c \in AnyCell |-> TopLevel],
          forward |-> [c \in AnyCell |-> [l \in Level |->
                         <<IF c = Tail THEN None ELSE Tail, FALSE>>]],
          garbage_next |-> [c \in AnyCell |-> None]]
Free(S) ==
    /\ used' = used \ S
    /\ key' = Freed(S, Blank.key, key)
    /\ data' = Freed(S, Blank.data, data)
    /\ top_level' = Freed(S, Blank.top_level, top_level)
    /\ forward' = Freed(S, Blank.forward, forward)
    /\ garbage_next' = Freed(S, Blank.garbage_next, garbage_next)

-----------------------------------------------------------------------------
(* What the list contains: the unmarked cells of the lowest level.         *)

(* The cells to which the pointers n lead from c.                          *)
Closed(n, S) == \A c \in S : n[c] \in Cell => n[c] \in S
Reached(n, c) ==
    LET closed == {S \in SUBSET Cell : Closed(n, S) /\ (n[c] \in Cell => n[c] \in S)}
    IN  {d \in Cell : \A S \in closed : d \in S}

Links(l) == [c \in AnyCell |-> Ptr(c, l)]
From(c, l) == Reached(Links(l), c)
Linked(l) == From(Head, l)
Present(k) == {c \in Linked(0) : key[c] = k /\ ~Marked(c, 0)}
Dict == [k \in Key |->
           LET cs == Present(k)
           IN  IF cs = {} THEN Absent ELSE data[CHOOSE c \in cs : TRUE]]

(* What the calls under way learn from a step that changes the contents.   *)
Learn ==
    LET old == Dict
        new == Dict'
    IN
    /\ seen' = [p \in Proc |-> [k \in Key |->
                  IF pc[p] = "idle" THEN {} ELSE seen[p][k] \cup {new[k]}]]
    /\ gone' = [p \in Proc |->
                  /\ pc[p] # "idle"
                  /\ \/ gone[p]
                     \/ old[loc[p].key] # Absent /\ new[loc[p].key] = Absent]

-----------------------------------------------------------------------------
(* skiplist_find: the cells before and after a key at each level.          *)

FindStart(p) ==
    /\ pc[p] = "find"
    /\ Set(p, [loc[p] EXCEPT !.pred = Head, !.level = TopLevel])
    /\ Goto(p, "load")
    /\ UNCHANGED <<cells, data, forward, garbage_next, search_level, garbage_head,
                   profile, calls, history>>

FindLoad(p) ==
    /\ pc[p] = "load"
    /\ Set(p, [loc[p] EXCEPT !.curr = Ptr(loc[p].pred, loc[p].level)])
    /\ Goto(p, "next")
    /\ UNCHANGED <<cells, data, forward, garbage_next, search_level, garbage_head,
                   profile, calls, history>>

(* The caller goes on: caml_lf_skiplist_insert looks for the place of its  *)
(* key, or finds it again for a higher level; caml_lf_skiplist_remove      *)
(* looks for the cell, or has it taken out of the lists.  Variables that   *)
(* are dead from here on are reset.                                        *)
Forget(v) == [v EXCEPT !.pred = Head, !.curr = Head, !.succ = Head, !.level = 0]
ForgetAll(v) == [Forget(v) EXCEPT !.preds = [l \in Level |-> Head],
                                  !.succs = [l \in Level |-> Head]]
\* Mutant: only the lowest level is marked.
FirstMarkedLowest(c) == 0

FirstMarked(c) == top_level[c]

FindReturn(p, v, found) ==
    \/ /\ v.op = "insert"
       /\ Set(p, Forget(v))
       /\ Goto(p, IF v.cell # None THEN "link" ELSE IF found THEN "update" ELSE "alloc")
    \/ /\ v.op = "remove" /\ v.cell = None /\ found
       /\ Set(p, [ForgetAll(v) EXCEPT !.cell = v.succs[0], !.up = FirstMarked(v.succs[0])])
       /\ Goto(p, "extract")
    \/ /\ v.op = "remove" /\ (v.cell # None \/ ~found)
       /\ Set(p, [ForgetAll(v) EXCEPT !.res = IF v.cell # None THEN 1 ELSE 0,
                                      !.cell = None])
       /\ Goto(p, "return")

Before(c, k) == key[c] < k

FindNext(p) ==
    LET v == loc[p]
        succ == Ptr(v.curr, v.level)
        here == [v EXCEPT !.preds[v.level] = v.pred, !.succs[v.level] = v.curr]
    IN
    /\ pc[p] = "next"
    /\ \/ /\ Marked(v.curr, v.level)
          /\ Set(p, [v EXCEPT !.succ = succ])
          /\ Goto(p, "snip")
       \/ /\ ~Marked(v.curr, v.level) /\ Before(v.curr, v.key)
          /\ Set(p, [v EXCEPT !.pred = v.curr, !.curr = succ])
          /\ UNCHANGED pc
       \/ /\ ~Marked(v.curr, v.level) /\ ~Before(v.curr, v.key)
          /\ \/ /\ v.level > 0
                /\ Set(p, [here EXCEPT !.level = @ - 1])
                /\ Goto(p, "load")
             \/ v.level = 0 /\ FindReturn(p, here, key[v.curr] = v.key)
    /\ UNCHANGED <<cells, data, forward, garbage_next, search_level, garbage_head,
                   profile, calls, history>>

SnipSucceeds(p) == Holds(loc[p].pred, loc[p].level, loc[p].curr)

FindSnip(p) ==
    LET v == loc[p] IN
    /\ pc[p] = "snip"
    /\ IF SnipSucceeds(p)
       THEN Store(v.pred, v.level, v.succ, FALSE) /\ Goto(p, "claim")
       ELSE UNCHANGED forward /\ Goto(p, "find")
    /\ UNCHANGED <<cells, data, garbage_next, search_level, garbage_head, loc,
                   profile, calls>>
    /\ Learn

(* One thread only puts the cell on the garbage list.                      *)
ClaimSucceeds(c) == garbage_next[c] = None

FindClaim(p) ==
    LET c == loc[p].curr IN
    /\ pc[p] = "claim"
    /\ IF ClaimSucceeds(c)
       THEN garbage_next' = [garbage_next EXCEPT ![c] = One] /\ Goto(p, "push")
       ELSE UNCHANGED garbage_next /\ Goto(p, "load")
    /\ UNCHANGED <<cells, data, forward, search_level, garbage_head, loc, profile,
                   calls, history>>

(* The load of garbage_head, and the store to a field only its owner uses. *)
FindPush(p) ==
    /\ pc[p] = "push"
    /\ garbage_next' = [garbage_next EXCEPT ![loc[p].curr] = garbage_head]
    /\ Goto(p, "publish")
    /\ UNCHANGED <<cells, data, forward, search_level, garbage_head, loc, profile,
                   calls, history>>

FindPublish(p) ==
    LET c == loc[p].curr IN
    /\ pc[p] = "publish"
    /\ IF garbage_head = garbage_next[c]
       THEN garbage_head' = c /\ Goto(p, "load")
       ELSE UNCHANGED garbage_head /\ Goto(p, "push")
    /\ UNCHANGED <<cells, data, forward, garbage_next, search_level, loc, profile,
                   calls, history>>

-----------------------------------------------------------------------------
(* lf_skiplist_lookup, for caml_lf_skiplist_find and _find_below: it walks *)
(* over marked cells.                                                      *)

LookupStart(p) ==
    /\ pc[p] = "lookup"
    /\ Set(p, [loc[p] EXCEPT !.level = search_level])
    /\ Goto(p, "enter")
    /\ UNCHANGED <<cells, data, forward, garbage_next, search_level, garbage_head,
                   profile, calls, history>>

LookupEnter(p) ==
    /\ pc[p] = "enter"
    /\ Set(p, [loc[p] EXCEPT !.curr = Ptr(loc[p].pred, loc[p].level)])
    /\ Goto(p, "walk")
    /\ UNCHANGED <<cells, data, forward, garbage_next, search_level, garbage_head,
                   profile, calls, history>>

(* The cell found, whose data is read next, or the answer 0.               *)
LookupReturn(p, v) ==
    LET hit == key[v.curr] = v.key
        c == IF hit THEN v.curr ELSE v.pred
    IN  IF hit \/ (v.op = "find_below" /\ v.pred # Head)
        THEN Set(p, [Forget(v) EXCEPT !.cell = c]) /\ Goto(p, "read")
        ELSE Set(p, Forget(v)) /\ Goto(p, "return")

\* Mutant: marked cells are walked over like the others.
SkipMarkedNever(c, l) == FALSE

SkipMarked(c, l) == Marked(c, l)

\* Mutant: the walk starts again at the head.
SkipToHead(v) == Head

SkipTo(v) == Ptr(v.curr, v.level)

LookupWalk(p) ==
    LET v == loc[p]
        succ == Ptr(v.curr, v.level)
    IN
    /\ pc[p] = "walk"
    /\ \/ /\ SkipMarked(v.curr, v.level)
          /\ Set(p, [v EXCEPT !.curr = SkipTo(v)])
          /\ UNCHANGED pc
       \/ /\ ~SkipMarked(v.curr, v.level) /\ Before(v.curr, v.key)
          /\ Set(p, [v EXCEPT !.pred = v.curr, !.curr = succ])
          /\ UNCHANGED pc
       \/ /\ ~SkipMarked(v.curr, v.level) /\ ~Before(v.curr, v.key)
          /\ \/ /\ v.level > 0
                /\ Set(p, [v EXCEPT !.level = @ - 1])
                /\ Goto(p, "enter")
             \/ v.level = 0 /\ LookupReturn(p, v)
    /\ UNCHANGED <<cells, data, forward, garbage_next, search_level, garbage_head,
                   profile, calls, history>>

ReadData(p) ==
    LET v == loc[p]
        d == data[v.cell]
    IN
    /\ pc[p] = "read"
    /\ Set(p, [v EXCEPT !.cell = None,
                        !.res = IF v.op = "find" THEN d ELSE <<key[v.cell], d>>])
    /\ Goto(p, "return")
    /\ UNCHANGED <<cells, data, forward, garbage_next, search_level, garbage_head,
                   profile, calls, history>>

-----------------------------------------------------------------------------
(* caml_lf_skiplist_insert                                                 *)

(* The key is there: change its data.                                      *)
InsertUpdate(p) ==
    LET v == loc[p]
        c == v.succs[0]
    IN
    /\ pc[p] = "update"
    /\ data' = [data EXCEPT ![c] = v.data]
    /\ Set(p, [ForgetAll(v) EXCEPT !.res = 1])
    /\ Goto(p, "return")
    /\ UNCHANGED <<cells, forward, garbage_next, search_level, garbage_head,
                   profile, calls>>
    /\ IF c \in Present(v.key) THEN Learn
       ELSE \* the cell is no longer there: whoever still holds it may read it
            /\ seen' = [q \in Proc |->
                          IF q # p /\ pc[q] # "idle" /\ Absent \in seen[q][v.key]
                          THEN [seen[q] EXCEPT ![v.key] = @ \cup {v.data}]
                          ELSE seen[q]]
            /\ UNCHANGED gone

(* A new cell, of a random level, that points to what comes after it.      *)
InsertAlloc(p) ==
    LET v == loc[p] IN
    /\ pc[p] = "alloc"
    /\ \E c \in Cell \ used, t \in Level :
          /\ used' = used \cup {c}
          /\ key' = [key EXCEPT ![c] = v.key]
          /\ data' = [data EXCEPT ![c] = v.data]
          /\ top_level' = [top_level EXCEPT ![c] = t]
          /\ garbage_next' = [garbage_next EXCEPT ![c] = None]
          /\ forward' = [forward EXCEPT ![c] =
                           [l \in Level |-> <<IF l <= t THEN v.succs[l] ELSE Tail, FALSE>>]]
          /\ Set(p, [v EXCEPT !.cell = c, !.up = 0])
    /\ Goto(p, "link")
    /\ UNCHANGED <<search_level, garbage_head, profile, calls, history>>

(* The cell is linked at its levels from the lowest up.  When the lowest   *)
(* link fails the insertion starts again; when a higher one does, only the *)
(* place is looked for again.                                              *)
InsertLink(p) ==
    LET v == loc[p]
        l == v.up
        last == l = top_level[v.cell]
    IN
    /\ pc[p] = "link"
    /\ \/ /\ Holds(v.preds[l], l, v.succs[l])
          /\ Store(v.preds[l], l, v.cell, FALSE)
          /\ Goto(p, IF last THEN "bump" ELSE "link")
          /\ Set(p, IF last THEN ForgetAll(v) ELSE [v EXCEPT !.up = l + 1])
          /\ UNCHANGED <<cells, data, garbage_next>>
       \/ /\ ~Holds(v.preds[l], l, v.succs[l])
          /\ Goto(p, "find")
          /\ Set(p, IF l = 0 THEN [v EXCEPT !.cell = None] ELSE v)
          /\ Free(IF l = 0 THEN {v.cell} ELSE {})
    /\ UNCHANGED <<search_level, garbage_head, profile, calls>>
    /\ Learn

(* The level at which searches start, tested and set without care for      *)
(* races.                                                                  *)
InsertBump(p) ==
    LET v == loc[p]
        higher == top_level[v.cell] > search_level
    IN
    /\ pc[p] = "bump"
    /\ Goto(p, IF higher THEN "raise" ELSE "return")
    /\ Set(p, IF higher THEN v ELSE [v EXCEPT !.res = 1, !.cell = None, !.up = 0])
    /\ UNCHANGED <<cells, data, forward, garbage_next, search_level, garbage_head,
                   profile, calls, history>>

NewSearchLevel(c) == top_level[c]

InsertRaise(p) ==
    LET v == loc[p] IN
    /\ pc[p] = "raise"
    /\ search_level' = NewSearchLevel(v.cell)
    /\ Set(p, [v EXCEPT !.res = 1, !.cell = None, !.up = 0])
    /\ Goto(p, "return")
    /\ UNCHANGED <<cells, data, forward, garbage_next, garbage_head, profile,
                   calls, history>>

-----------------------------------------------------------------------------
(* caml_lf_skiplist_remove: the cell is marked from its top level down.    *)

RemoveExtract(p) ==
    LET v == loc[p]
        l == v.up
    IN
    /\ pc[p] = "extract"
    /\ IF l > 0 /\ Marked(v.cell, l)
       THEN Set(p, [v EXCEPT !.up = l - 1]) /\ UNCHANGED pc
       ELSE Set(p, [v EXCEPT !.succ = Ptr(v.cell, l)]) /\ Goto(p, "mark")
    /\ UNCHANGED <<cells, data, forward, garbage_next, search_level, garbage_head,
                   profile, calls, history>>

(* Whoever marks the lowest level has removed the cell, and has it taken   *)
(* out of the lists.                                                       *)
RemoveMark(p) ==
    LET v == loc[p]
        l == v.up
        won == Holds(v.cell, l, v.succ)
    IN
    /\ pc[p] = "mark"
    /\ IF won THEN Store(v.cell, l, v.succ, TRUE) ELSE UNCHANGED forward
    /\ Goto(p, IF l > 0 THEN "extract" ELSE IF won THEN "find" ELSE "lost")
    /\ Set(p, [v EXCEPT !.succ = Head])
    /\ UNCHANGED <<cells, data, garbage_next, search_level, garbage_head, profile,
                   calls>>
    /\ Learn

(* Another thread has removed the cell, or has inserted one behind it.     *)
RemoveLost(p) ==
    LET v == loc[p] IN
    /\ pc[p] = "lost"
    /\ IF Marked(v.cell, 0)
       THEN Set(p, [v EXCEPT !.res = 0, !.cell = None]) /\ Goto(p, "return")
       ELSE Set(p, [v EXCEPT !.succ = Ptr(v.cell, 0)]) /\ Goto(p, "mark")
    /\ UNCHANGED <<cells, data, forward, garbage_next, search_level, garbage_head,
                   profile, calls, history>>

-----------------------------------------------------------------------------
(* caml_lf_skiplist_free_garbage, when no thread uses the list.            *)
Garbage == Reached(garbage_next, garbage_head) \cup ({garbage_head} \ {Head})

caml_lf_skiplist_free_garbage ==
    /\ profile.collect
    /\ \A p \in Proc : pc[p] = "idle"
    /\ garbage_head # Head
    /\ Free(Garbage)
    /\ garbage_head' = Head
    /\ UNCHANGED <<search_level, pc, loc, profile, calls, history>>

-----------------------------------------------------------------------------
(* caml_lf_skiplist_init                                                   *)
Init ==
    /\ used = {}
    /\ key = Blank.key
    /\ data = Blank.data
    /\ top_level = Blank.top_level
    /\ forward = Blank.forward
    /\ garbage_next = Blank.garbage_next
    /\ search_level = 0
    /\ garbage_head = Head
    /\ pc = [p \in Proc |-> "idle"]
    /\ loc = [p \in Proc |-> Idle]
    /\ profile \in Profiles
    /\ calls = 0
    /\ seen = [p \in Proc |-> [k \in Key |-> {}]]
    /\ gone = [p \in Proc |-> FALSE]

Writing(p) == pc[p] # "idle" /\ loc[p].op = "insert"

(* A thread calls one of the four operations; there is a cell left for     *)
(* every insertion.                                                        *)
Call(p) ==
    /\ pc[p] = "idle"
    /\ calls < profile.calls
    /\ calls' = calls + 1
    /\ \E op \in {"insert", "remove", "find", "find_below"}, k \in Key,
          d \in Data \cup {Absent} :
          /\ op = "insert" <=> d # Absent
          /\ op \in {"insert", "remove"} => p \in profile.writers
          /\ op = "insert" => Cardinality({q \in Proc : Writing(q) /\ loc[q].cell = None})
                                < Cardinality(Cell \ used)
          /\ Set(p, Locals(op, k, d))
          /\ Goto(p, IF op \in {"insert", "remove"} THEN "find" ELSE "lookup")
    /\ seen' = [seen EXCEPT ![p] = [k \in Key |-> {Dict[k]}]]
    /\ UNCHANGED <<cells, data, forward, garbage_next, search_level, garbage_head,
                   profile, gone>>

Return(p) ==
    /\ pc[p] = "return"
    /\ Goto(p, "idle")
    /\ Set(p, Idle)
    /\ seen' = [seen EXCEPT ![p] = [k \in Key |-> {}]]
    /\ gone' = [gone EXCEPT ![p] = FALSE]
    /\ UNCHANGED <<cells, data, forward, garbage_next, search_level, garbage_head,
                   profile, calls>>

Step(p) ==
    \/ Call(p) \/ Return(p)
    \/ FindStart(p) \/ FindLoad(p) \/ FindNext(p) \/ FindSnip(p)
    \/ FindClaim(p) \/ FindPush(p) \/ FindPublish(p)
    \/ LookupStart(p) \/ LookupEnter(p) \/ LookupWalk(p) \/ ReadData(p)
    \/ InsertUpdate(p) \/ InsertAlloc(p) \/ InsertLink(p) \/ InsertBump(p)
    \/ InsertRaise(p)
    \/ RemoveExtract(p) \/ RemoveMark(p) \/ RemoveLost(p)

Next == (\E p \in Proc : Step(p)) \/ caml_lf_skiplist_free_garbage

Spec == Init /\ [][Next]_vars

-----------------------------------------------------------------------------
Results(op) == CASE op \in {"insert", "remove"} -> {Absent, 0, 1}
                 [] op = "find" -> {Absent} \cup Data
                 [] op = "find_below" -> {Absent} \cup (Key \X Data)
LocalsOf(op) ==
    [op : {op}, key : Key, data : Data \cup {Absent}, pred : AnyCell, curr : AnyCell, succ : AnyCell,
     level : Level, preds : [Level -> AnyCell], succs : [Level -> AnyCell],
     cell : AnyCell \cup {None}, up : Level, res : Results(op)]
TypeOK ==
    /\ used \in SUBSET Cell
    /\ key \in [AnyCell -> 0 .. MaxKey + 1]
    /\ data \in [AnyCell -> Data \cup {Absent}]
    /\ top_level \in [AnyCell -> Level]
    /\ forward \in [AnyCell -> [Level -> (AnyCell \cup {None}) \X BOOLEAN]]
    /\ garbage_next \in [AnyCell -> AnyCell \cup {None, One}]
    /\ search_level \in Level
    /\ garbage_head \in AnyCell
    /\ \A p \in Proc : IF pc[p] = "idle" THEN loc[p] = Idle ELSE loc[p] \in LocalsOf(loc[p].op)

AllIdle == \A p \in Proc : pc[p] = "idle"

(* Every pointer of a cell, marked or not, leads to a larger key, or above *)
(* the lowest level to an older cell of the same key; no walk returns to   *)
(* where it was; and a key has one cell that counts.                       *)
LevelsSorted ==
    /\ \A c \in used \cup {Head} : \A l \in 0 .. top_level[c] :
          \/ key[Ptr(c, l)] > key[c]
          \/ l > 0 /\ key[Ptr(c, l)] = key[c] /\ Marked(Ptr(c, l), l)
    /\ \A c \in used, l \in Level : c \notin From(c, l)
    /\ \A k \in Key : Cardinality(Present(k)) <= 1

(* The lists lead to no cell that has been freed: what has left the        *)
(* lowest level has left the others when its memory goes.                  *)
NoFreedCell ==
    \A l \in Level : Linked(l) \subseteq used

(* No cell is lost: when no call is under way, a cell is in the dictionary *)
(* or on the garbage list.                                                 *)
NoLeak ==
    AllIdle => used = Garbage \cup UNION {Present(k) : k \in Key}

(* Whatever insertions, removals and searches do to each other, each cell  *)
(* is where its key and its marks say, and none is freed early or lost.    *)
CellsAccounted == TypeOK /\ LevelsSorted /\ NoFreedCell /\ NoLeak

(* A lookup is wait-free: each of its steps takes it to a lower level, to  *)
(* a larger key, or over one of the removed cells that share a key.        *)
LookupRank(p) ==
    CASE pc[p] = "lookup" -> <<TopLevel + 2, 0, 0>>
      [] pc[p] = "enter" -> <<loc[p].level + 1, MaxKey + 1, Cardinality(Cell) + 2>>
      [] pc[p] = "walk" -> <<loc[p].level + 1, MaxKey + 1 - key[loc[p].curr],
                             Cardinality(From(loc[p].curr, loc[p].level))>>
      [] pc[p] = "read" -> <<0, 1, 0>>
      [] pc[p] = "return" -> <<0, 0, 0>>
LookupAdvances ==
    [][\A p \in Proc :
          pc[p] # "idle" /\ loc[p].op \in {"find", "find_below"} /\ loc'[p] # loc[p]
          => \/ pc'[p] = "idle"
             \/ \E i \in 1 .. 3 : /\ LookupRank(p)'[i] < LookupRank(p)[i]
                                  /\ \A j \in 1 .. i - 1 :
                                        LookupRank(p)'[j] = LookupRank(p)[j]]_vars

(* The four operations are atomic: the list implements the dictionary.     *)
Done(p) ==
    \/ pc[p] = "return"
    \/ loc[p].op = "insert" /\ loc[p].cell # None /\ loc[p].up > 0
    \/ pc[p] \in {"bump", "raise"}
    \/ loc[p].op = "remove" /\ loc[p].cell # None
       /\ pc[p] \notin {"extract", "mark", "lost"}
AbsCall(p) ==
    IF pc[p] = "idle" THEN Idle
    ELSE [op |-> loc[p].op, key |-> loc[p].key, data |-> loc[p].data,
          gone |-> gone[p], seen |-> seen[p], done |-> Done(p),
          res |-> IF pc[p] = "return" THEN loc[p].res
                  ELSE IF Done(p) THEN 1 ELSE Absent]
AbsCalls == [p \in Proc |-> AbsCall(p)]
D == INSTANCE Dictionary WITH dict <- Dict, call <- AbsCalls
RefinesDictionary == D!Spec
=============================================================================
