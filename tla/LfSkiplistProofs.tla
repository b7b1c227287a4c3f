--------------------------- MODULE LfSkiplistProofs ---------------------------
(***************************************************************************)
(* Proofs about the lock-free skip list, for any number of threads, cells, *)
(* keys and levels: its cells are accounted for, it implements the atomic  *)
(* dictionary, and its lookups are wait-free.                              *)
(*                                                                         *)
(* The invariant says what the heap looks like (HeapInv), what each call   *)
(* knows of it (CallsInv), who takes care of the cells that are out of the *)
(* lists (GarbageInv), and, when one thread writes, that every level is a  *)
(* sorted list (AloneInv).  A step changes the heap and one call.  What it *)
(* may do to the heap is said once (Evolves); what a call knows survives   *)
(* every such change (Stable), so that each step is proved to evolve the   *)
(* heap and to keep its own call in order, and the others follow.          *)
(***************************************************************************)
EXTENDS LfSkiplist, FiniteSetTheorems, TLAPS

(* The inductive invariant. *)
PcOf(op) ==
    IF op = "insert"
    THEN {"find", "load", "next", "snip", "claim", "push", "publish",
          "update", "alloc", "link", "bump", "raise", "return"}
    ELSE IF op = "remove"
    THEN {"find", "load", "next", "snip", "claim", "push", "publish",
          "extract", "mark", "lost", "return"}
    ELSE {"lookup", "enter", "walk", "read", "return"}
Labels == {"idle"} \cup PcOf("insert") \cup PcOf("remove") \cup PcOf("find")
Op == {"insert", "remove", "find", "find_below"}
Res == {Absent, 0, 1} \cup Data \cup (Key \X Data)
Locs ==
    [op : Op, key : Key, data : Data \cup {Absent}, pred : AnyCell, curr : AnyCell,
     succ : AnyCell, level : Level, preds : [Level -> AnyCell],
     succs : [Level -> AnyCell], cell : AnyCell \cup {None}, up : Level, res : Res]

HeapTypes ==
    /\ used \in SUBSET Cell
    /\ key \in [AnyCell -> 0 .. MaxKey + 1]
    /\ data \in [AnyCell -> Data \cup {Absent}]
    /\ top_level \in [AnyCell -> Level]
    /\ forward \in [AnyCell -> [Level -> (AnyCell \cup {None}) \X BOOLEAN]]
GarbageTypes ==
    /\ garbage_next \in [AnyCell -> AnyCell \cup {None, One}]
    /\ garbage_head \in AnyCell
    /\ search_level \in Level
CallType(p) ==
    IF pc[p] = "idle" THEN loc[p] = Idle
    ELSE /\ loc[p] \in Locs
         /\ pc[p] \in PcOf(loc[p].op)
         /\ loc[p].res \in Results(loc[p].op)
         /\ loc[p].op = "insert" => loc[p].data \in Data
         /\ loc[p].op \in {"insert", "remove"} => p \in profile.writers
CallTypes ==
    /\ profile \in Profiles
    /\ seen \in [Proc -> [Key -> SUBSET (Data \cup {Absent})]]
    /\ gone \in [Proc -> BOOLEAN]
    /\ pc \in [Proc -> Labels]
    /\ loc \in [Proc -> Locs \cup {Idle}]
    /\ \A p \in Proc : CallType(p)

\* The cells that are linked at the lowest level, or have been.
Fresh(p, c) == pc[p] = "link" /\ loc[p].up = 0 /\ loc[p].cell = c
Listed == {c \in used : \A p \in Proc : ~Fresh(p, c)}
Nodes == Listed \cup {Head}
Targets == Listed \cup {Tail}
Linked0 == Linked(0)

SentinelInv ==
    /\ key[Head] = 0 /\ top_level[Head] = TopLevel
    /\ key[Tail] = MaxKey + 1 /\ top_level[Tail] = TopLevel
    /\ \A l \in Level : ~Marked(Head, l) /\ ~Marked(Tail, l) /\ Ptr(Tail, l) = None
    /\ \A c \in used : key[c] \in Key /\ data[c] \in Data

PointerInv ==
    \A c \in used \cup {Head}, l \in Level :
        /\ l <= top_level[c] => Ptr(c, l) \in Targets /\ l <= top_level[Ptr(c, l)]
        /\ l > top_level[c] => Ptr(c, l) = Tail

SortedInv ==
    \A c \in used \cup {Head}, l \in Level :
        l <= top_level[c] =>
            \/ key[Ptr(c, l)] > key[c]
            \/ l > 0 /\ key[Ptr(c, l)] = key[c] /\ Marked(Ptr(c, l), l)

\* Marks are set from the top down, and for good.
MarksInv ==
    \A c \in used : \A l, m \in Level :
        Marked(c, l) /\ l <= m /\ m <= top_level[c] => Marked(c, m) /\ c \in Listed

\* An unmarked cell is in the list.
LiveInv == \A c \in Listed : ~Marked(c, 0) => c \in Linked0

\* The list is sorted: no cell of it lies between another one and its successor.
GapInv ==
    \A c \in Linked0 \cup {Head}, d \in Linked0 :
        /\ key[c] < key[d] => key[Ptr(c, 0)] <= key[d]
        /\ key[c] = key[d] => c = d

\* A cell to which an upper level leads is also ahead at the lowest level.
AheadInv ==
    \A c \in Nodes, l \in Level :
        l <= top_level[c] /\ Ptr(c, l) \in Linked0 /\ key[c] < key[Ptr(c, l)]
            => Ptr(c, l) \in From(c, 0)

AcyclicInv == \A c \in used, l \in Level : c \notin From(c, l)

HeapInv == /\ SentinelInv /\ PointerInv /\ SortedInv /\ MarksInv
           /\ LiveInv /\ GapInv /\ AheadInv /\ AcyclicInv

-----------------------------------------------------------------------------
\* What a call knows.
GapSeen(p, a, b) == \A k \in Key : a < k /\ k < b => Absent \in seen[p][k]
WasGone(p, c) == /\ Absent \in seen[p][key[c]]
                 /\ GapSeen(p, key[c], key[Ptr(c, 0)])
\* From c on there are cells that were in the list during the call.
Visible(p, c) == \A d \in ({c} \cap Cell) \cup From(c, 0) : d \in Linked0 \/ WasGone(p, d)
\* The data of c is a value that its key had during the call.
DataSeen(p, c) == /\ data[c] \in seen[p][key[c]]
                  /\ Marked(c, 0) => Absent \in seen[p][key[c]]

SeenOK(p) ==
    IF pc[p] = "idle" THEN ~gone[p] /\ \A k \in Key : seen[p][k] = {}
    ELSE \A k \in Key : Dict[k] \in seen[p][k]
SeenInv == \A p \in Proc : SeenOK(p)

Searching == {"load", "next", "snip", "claim", "push", "publish"}
\* A search has a place at a level ...
PlaceOK(p, at, v) ==
    /\ v.pred \in Nodes /\ key[v.pred] < v.key /\ v.level <= top_level[v.pred]
    /\ Visible(p, v.pred)
    /\ at # "load" => v.curr \in Targets /\ v.level <= top_level[v.curr]
    /\ at = "next" /\ v.level = 0 => GapSeen(p, key[v.pred], key[v.curr])
    /\ at \notin {"load", "next"} => Marked(v.curr, v.level)
    /\ at = "snip" => v.succ = Ptr(v.curr, v.level)
\* ... and has passed the levels above.
Passed(v, m) ==
    /\ v.preds[m] \in Nodes /\ key[v.preds[m]] < v.key /\ m <= top_level[v.preds[m]]
    /\ v.succs[m] \in Targets /\ v.key <= key[v.succs[m]] /\ m <= top_level[v.succs[m]]
\* The cells that it will find at the lowest level if they are still in the list.
Watched(v) ==
    {d \in Linked0 :
        /\ key[d] = v.key
        /\ \/ v.op = "remove" /\ d = v.cell
           \/ v.op = "insert" /\ \E m \in Level : m > v.level /\ d = v.succs[m]}
FollowOK(at, v) ==
    /\ \A d \in Watched(v) :
          /\ d \in From(v.pred, 0)
          /\ at = "next" /\ v.level = 0 => d = v.curr \/ d \in From(v.curr, 0)
    /\ at = "next" /\ v.curr \in Linked0 /\ key[v.pred] < key[v.curr] =>
          v.curr \in From(v.pred, 0)
SearchOK(p, at, v) == /\ PlaceOK(p, at, v) /\ FollowOK(at, v)
                      /\ \A m \in Level : m > v.level => Passed(v, m)

\* The cell that a call works on.
OwnOK(v) ==
    /\ v.cell \in Listed /\ key[v.cell] = v.key
    /\ v.op = "insert" => 0 < v.up /\ v.up <= top_level[v.cell]
    /\ v.op = "remove" => Marked(v.cell, 0)
FindOK(v) == v.cell # None => OwnOK(v)

Beyond(v, m) == v.key < key[v.succs[m]] \/ (m > 0 /\ Marked(v.succs[m], m))
UpdateOK(p, v) ==
    /\ v.cell = None /\ v.succs[0] \in Listed /\ key[v.succs[0]] = v.key
    /\ Marked(v.succs[0], 0) => gone[p] /\ Absent \in seen[p][v.key]
AllocOK(v) == v.cell = None /\ \A m \in Level : Passed(v, m) /\ Beyond(v, m)
FreshOK(p, v) ==
    /\ v.cell \in used /\ key[v.cell] = v.key /\ data[v.cell] = v.data
    /\ garbage_next[v.cell] = None
    /\ \A m \in Level : /\ Passed(v, m) /\ Beyond(v, m)
                        /\ m <= top_level[v.cell] =>
                              forward[v.cell][m] = <<v.succs[m], FALSE>>
    /\ \A q \in Proc : Fresh(q, v.cell) => q = p
LinkOK(p, v) ==
    IF v.up = 0 THEN FreshOK(p, v)
    ELSE OwnOK(v) /\ \A m \in Level : Passed(v, m)
ExtractOK(p, at, v) ==
    /\ v.cell \in Listed /\ key[v.cell] = v.key /\ v.up <= top_level[v.cell]
    /\ Marked(v.cell, 0) => Absent \in seen[p][v.key]
    /\ \A m \in Level : v.up < m /\ m <= top_level[v.cell] => Marked(v.cell, m)
    /\ at = "lost" => v.up = 0

LookupOK(p, at, v) ==
    /\ v.res = Absent
    /\ v.pred \in Nodes /\ key[v.pred] < v.key /\ v.level <= top_level[v.pred]
    /\ Visible(p, v.pred)
    /\ v.pred # Head => DataSeen(p, v.pred)
    /\ at = "walk" =>
          /\ v.curr \in Targets /\ v.level <= top_level[v.curr]
          /\ v.level = 0 => GapSeen(p, key[v.pred], key[v.curr]) /\ Visible(p, v.curr)
ReadOK(p, v) ==
    /\ v.cell \in Listed /\ DataSeen(p, v.cell)
    /\ IF v.op = "find" THEN key[v.cell] = v.key
       ELSE key[v.cell] <= v.key /\ GapSeen(p, key[v.cell], v.key + 1)

CallAt(p, at, v) ==
    /\ at \in Searching => SearchOK(p, at, v)
    /\ at \in Searching \cup {"find"} => FindOK(v)
    /\ at = "update" => UpdateOK(p, v)
    /\ at = "alloc" => AllocOK(v)
    /\ at = "link" => LinkOK(p, v)
    /\ at \in {"bump", "raise"} => v.cell \in Listed
    /\ at \in {"extract", "mark", "lost"} => ExtractOK(p, at, v)
    /\ at = "lookup" => v.pred = Head /\ v.cell = None /\ v.res = Absent
    /\ at \in {"enter", "walk"} => LookupOK(p, at, v)
    /\ at = "read" => ReadOK(p, v)
CallOK(p) == CallAt(p, pc[p], loc[p])
CallsInv == \A p \in Proc : CallOK(p)

-----------------------------------------------------------------------------
\* Cells that have been taken out of a list are claimed, and those that have been
\* claimed get to the garbage list.
Claims(p, c) == pc[p] \in {"push", "publish"} /\ loc[p].curr = c
Trash == {c \in used : garbage_next[c] # None /\ \A p \in Proc : ~Claims(p, c)}
TrashInv ==
    /\ \A c \in used : garbage_next[c] # None =>
          c \in Listed /\ \E l \in Level : l <= top_level[c] /\ Marked(c, l)
    /\ garbage_head \in Trash \cup {Head} /\ garbage_next[Head] = None
    /\ \A c \in Trash : garbage_next[c] \in Trash \cup {Head}
    /\ Trash \subseteq Garbage
ClaimInv ==
    \A p \in Proc :
        /\ pc[p] = "push" => garbage_next[loc[p].curr] # None
        /\ pc[p] = "publish" => garbage_next[loc[p].curr] \in Trash \cup {Head}
        /\ \A q \in Proc, c \in used : Claims(p, c) /\ Claims(q, c) => p = q
\* Who removes the cells that are marked, and who will claim those that are out.
Removes(p, c) == loc[p].op = "remove" /\ loc[p].cell = c
RemovedInv ==
    \A c \in Listed :
        /\ \A l \in Level : l <= top_level[c] /\ Marked(c, l) /\ ~Marked(c, 0) =>
              \E p \in Proc : pc[p] \in {"extract", "mark", "lost"} /\ Removes(p, c)
        /\ Marked(c, 0) /\ c \in Linked0 =>
              \E p \in Proc : pc[p] \in Searching \cup {"find"} /\ Removes(p, c)
        /\ c \notin Linked0 /\ garbage_next[c] = None =>
              \E p \in Proc : pc[p] = "claim" /\ loc[p].curr = c
GarbageInv == TrashInv /\ ClaimInv /\ RemovedInv

-----------------------------------------------------------------------------
\* With one writer every level is a sorted list, and nothing changes under a search.
Entering(at, v, c, l) == at = "link" /\ v.cell = c => v.up > l
Still(v, m) == forward[v.preds[m]][m] = <<v.succs[m], FALSE>>
AloneAt(at, v) ==
    /\ at \in Searching =>
          /\ ~Marked(v.pred, v.level)
          /\ at \in {"next", "snip"} => Ptr(v.pred, v.level) = v.curr
          /\ \A m \in Level : m > v.level => Still(v, m)
    /\ at \in Searching \cup {"find"} /\ v.op = "insert" => v.cell = None
    /\ at = "alloc" => \A m \in Level : Still(v, m)
    /\ at = "link" =>
          \A m \in Level : m >= v.up /\ m <= top_level[v.cell] =>
              Still(v, m) /\ forward[v.cell][m] = <<v.succs[m], FALSE>>
    /\ at \in {"extract", "mark", "lost"} => ~Marked(v.cell, 0)
Removing(at, v, c, l) ==
    /\ v.op = "remove" /\ v.cell = c
    /\ at \in {"extract", "mark", "lost", "find"} \/ (at \in Searching /\ v.level >= l)

Entered(c, l) == \A p \in Proc : Entering(pc[p], loc[p], c, l)
AloneLive == \A c \in Listed, l \in Level :
    l <= top_level[c] /\ ~Marked(c, l) /\ Entered(c, l) => c \in Linked(l)
AloneEntered == \A c \in Listed, l \in Level : c \in Linked(l) => Entered(c, l)
AloneGap == \A l \in Level : \A c \in Linked(l) \cup {Head}, d \in Linked(l) :
    /\ key[c] < key[d] => key[Ptr(c, l)] <= key[d]
    /\ key[c] = key[d] => c = d
AloneCalls == \A p \in Proc : AloneAt(pc[p], loc[p])
AloneMarked == \A l \in Level : \A c \in Linked(l) :
    Marked(c, l) => \E p \in Proc : Removing(pc[p], loc[p], c, l)
Alone == AloneLive /\ AloneEntered /\ AloneGap /\ AloneCalls /\ AloneMarked
AloneInv == profile.collect => Alone

-----------------------------------------------------------------------------
(* Where pointers lead. *)
LEMMA ReachedSub ==
    ASSUME NEW n, NEW c
    PROVE  Reached(n, c) \subseteq Cell
BY DEF Reached

LEMMA ReachedIn ==
    ASSUME NEW n, NEW c, NEW S \in SUBSET Cell, Closed(n, S), n[c] \in Cell => n[c] \in S
    PROVE  Reached(n, c) \subseteq S
BY DEF Reached

LEMMA ReachedClosed ==
    ASSUME NEW n, NEW c
    PROVE  /\ Closed(n, Reached(n, c))
           /\ n[c] \in Cell => n[c] \in Reached(n, c)
BY DEF Reached, Closed

LEMMA ReachedAll ==
    ASSUME NEW n, NEW c, NEW d \in Cell,
           ASSUME NEW S \in SUBSET Cell, Closed(n, S), n[c] \in Cell => n[c] \in S
           PROVE  d \in S
    PROVE  d \in Reached(n, c)
BY DEF Reached

LEMMA ReachedTrans ==
    ASSUME NEW n, NEW c, NEW d \in Reached(n, c)
    PROVE  Reached(n, d) \subseteq Reached(n, c)
BY ReachedClosed, ReachedSub, ReachedIn DEF Closed

LEMMA ReachedStep ==
    ASSUME NEW n, NEW c
    PROVE  /\ n[c] \in Cell => Reached(n, c) = {n[c]} \cup Reached(n, n[c])
           /\ n[c] \notin Cell => Reached(n, c) = {}
<1>1. ASSUME n[c] \in Cell PROVE Reached(n, c) = {n[c]} \cup Reached(n, n[c])
  <2> DEFINE S == {n[c]} \cup Reached(n, n[c])
  <2>1. S \in SUBSET Cell /\ Closed(n, S) /\ n[c] \in S
    BY <1>1, ReachedSub, ReachedClosed DEF Closed
  <2>2. Reached(n, c) \subseteq S
    BY <2>1, ReachedIn
  <2>3. n[c] \in Reached(n, c)
    BY <1>1, ReachedClosed
  <2>4. Reached(n, n[c]) \subseteq Reached(n, c)
    BY <2>3, ReachedTrans
  <2> QED
    BY <2>2, <2>3, <2>4
<1>2. ASSUME n[c] \notin Cell PROVE Reached(n, c) = {}
  <2>1. Closed(n, {})
    BY DEF Closed
  <2> QED
    BY <1>2, <2>1, ReachedIn
<1> QED
  BY <1>1, <1>2

\* Pointers that are not met do not matter.
LEMMA ReachedSame ==
    ASSUME NEW n, NEW m, NEW c, m[c] = n[c], \A x \in Reached(n, c) : m[x] = n[x]
    PROVE  Reached(m, c) = Reached(n, c)
<1>1. Reached(m, c) \subseteq Reached(n, c)
  BY ReachedClosed, ReachedIn, ReachedSub DEF Closed
<1>2. ASSUME NEW d \in Reached(n, c) PROVE d \in Reached(m, c)
  <2>1. ASSUME NEW S \in SUBSET Cell, Closed(m, S), m[c] \in Cell => m[c] \in S
        PROVE  d \in S
    <3> DEFINE T == S \cap Reached(n, c)
    <3>1. T \in SUBSET Cell /\ Closed(n, T) /\ (n[c] \in Cell => n[c] \in T)
      BY <2>1, ReachedClosed DEF Closed
    <3>2. Reached(n, c) \subseteq T
      BY <3>1, ReachedIn
    <3> QED
      BY <1>2, <3>2
  <2>2. d \in Cell
    BY ReachedSub
  <2> QED
    BY <2>1, <2>2, ReachedAll
<1> QED
  BY <1>1, <1>2

\* Taking d out behind q.
LEMMA ReachedSnip ==
    ASSUME NEW n, NEW m, NEW q \in AnyCell, NEW d \in Cell, NEW c \in AnyCell, d # q,
           n[q] = d, m[q] = n[d], \A x \in AnyCell : x # q => m[x] = n[x]
    PROVE  /\ Reached(m, c) \subseteq Reached(n, c)
           /\ Reached(n, c) \subseteq Reached(m, c) \cup {d}
<1>0. Cell \subseteq AnyCell
  BY DEF AnyCell
<1>1. Reached(m, c) \subseteq Reached(n, c)
  BY <1>0, ReachedClosed, ReachedSub, ReachedIn DEF Closed
<1>2. ASSUME NEW e \in Reached(n, c), e # d PROVE e \in Reached(m, c)
  <2>1. ASSUME NEW S \in SUBSET Cell, Closed(m, S), m[c] \in Cell => m[c] \in S
        PROVE  e \in S
    <3>1. CASE q \in S \/ q = c
      <4> DEFINE T == S \cup {d}
      <4>1. n[d] \in Cell => n[d] \in S
        BY <1>0, <2>1, <3>1 DEF Closed
      <4>2. T \in SUBSET Cell /\ Closed(n, T)
        BY <1>0, <2>1, <4>1 DEF Closed
      <4>3. n[c] \in Cell => n[c] \in T
        BY <2>1
      <4>4. Reached(n, c) \subseteq T
        BY <4>2, <4>3, ReachedIn
      <4> QED
        BY <1>2, <4>4
    <3>2. CASE q \notin S /\ q # c
      BY <1>0, <1>2, <2>1, <3>2, ReachedIn DEF Closed
    <3> QED
      BY <3>1, <3>2
  <2>2. e \in Cell
    BY ReachedSub
  <2> QED
    BY <2>1, <2>2, ReachedAll
<1> QED
  BY <1>1, <1>2

\* Linking e behind q.
LEMMA ReachedLink ==
    ASSUME NEW n, NEW m, NEW q \in AnyCell, NEW e \in Cell, NEW c \in AnyCell, e # q,
           m[q] = e, \A x \in AnyCell : x # q => m[x] = n[x]
    PROVE  /\ Reached(m, c) \subseteq Reached(n, c) \cup {e} \cup Reached(n, e)
           /\ n[e] = n[q] => /\ Reached(n, c) \subseteq Reached(m, c)
                             /\ Reached(m, c) \subseteq Reached(n, c) \cup {e}
           /\ q # c /\ q \notin Reached(n, c) => Reached(m, c) = Reached(n, c)
           /\ q = c \/ q \in Reached(n, c) => e \in Reached(m, c)
<1>0. Cell \subseteq AnyCell
  BY DEF AnyCell
<1>1. Closed(n, Reached(n, c)) /\ (n[c] \in Cell => n[c] \in Reached(n, c))
  BY ReachedClosed
<1>2. Closed(n, Reached(n, e)) /\ (n[e] \in Cell => n[e] \in Reached(n, e))
  BY ReachedClosed
<1>3. Reached(n, c) \subseteq Cell /\ Reached(n, e) \subseteq Cell
  BY ReachedSub
<1>4. Reached(m, c) \subseteq Reached(n, c) \cup {e} \cup Reached(n, e)
  <2> DEFINE S == Reached(n, c) \cup {e} \cup Reached(n, e)
  <2>1. S \in SUBSET Cell /\ Closed(m, S) /\ (m[c] \in Cell => m[c] \in S)
    BY <1>0, <1>1, <1>2, <1>3 DEF Closed
  <2> QED
    BY <2>1, ReachedIn
<1>5. ASSUME q # c, q \notin Reached(n, c) PROVE Reached(m, c) = Reached(n, c)
  BY <1>0, <1>3, <1>5, ReachedSame
<1>6. ASSUME n[e] = n[q] PROVE Reached(m, c) \subseteq Reached(n, c) \cup {e}
  <2> DEFINE S == Reached(n, c) \cup {e}
  <2>1. CASE q = c \/ q \in Reached(n, c)
    <3>1. n[q] \in Cell => n[q] \in Reached(n, c)
      BY <1>1, <2>1 DEF Closed
    <3>2. S \in SUBSET Cell /\ Closed(m, S) /\ (m[c] \in Cell => m[c] \in S)
      BY <1>0, <1>1, <1>3, <1>6, <3>1 DEF Closed
    <3> QED
      BY <3>2, ReachedIn
  <2>2. CASE q # c /\ q \notin Reached(n, c)
    BY <1>5, <2>2
  <2> QED
    BY <2>1, <2>2
<1>7. ASSUME n[e] = n[q], NEW d \in Reached(n, c) PROVE d \in Reached(m, c)
  <2>1. ASSUME NEW S \in SUBSET Cell, Closed(m, S), m[c] \in Cell => m[c] \in S
        PROVE  d \in S
    BY <1>0, <1>7, <2>1, ReachedIn DEF Closed
  <2>2. d \in Cell
    BY <1>3, <1>7
  <2> QED
    BY <2>1, <2>2, ReachedAll
<1>8. ASSUME q = c \/ q \in Reached(n, c) PROVE e \in Reached(m, c)
  BY <1>0, <1>8, ReachedIn, ReachedAll DEF Closed
<1> QED
  BY <1>4, <1>5, <1>6, <1>7, <1>8

-----------------------------------------------------------------------------
(* The shape of the lists. *)
Heap == HeapTypes /\ HeapInv

LEMMA Constants ==
    /\ MaxKey \in Nat /\ MaxKey >= 1 /\ TopLevel \in Nat
    /\ 0 \in Level /\ TopLevel \in Level
    /\ \A l \in Level : l \in Nat /\ 0 <= l /\ l <= TopLevel
    /\ \A k \in Key : k \in Nat /\ 1 <= k /\ k <= MaxKey
    /\ Head \in AnyCell /\ Tail \in AnyCell /\ Cell \subseteq AnyCell
    /\ Head \notin Cell /\ Tail \notin Cell /\ None \notin Cell /\ One \notin Cell
    /\ Head # Tail /\ Head # None /\ Head # One /\ Tail # None /\ Tail # One /\ None # One
    /\ Absent \notin Data
BY LfSkiplistAssumption DEF Level, Key, AnyCell

LEMMA LinksAre ==
    /\ \A l : \A c \in AnyCell : Links(l)[c] = Ptr(c, l)
    /\ \A l : \A c : From(c, l) = Reached(Links(l), c)
    /\ \A l : \A c : From(c, l) \subseteq Cell
    /\ Linked0 = From(Head, 0)
BY ReachedSub DEF Links, From, Linked0, Linked

\* Everything is a number or a cell.
LEMMA HeapNumbers ==
    ASSUME HeapTypes
    PROVE  /\ used \subseteq Cell /\ Listed \subseteq used
           /\ \A c \in AnyCell : /\ key[c] \in Nat /\ key[c] <= MaxKey + 1
                                 /\ top_level[c] \in Nat /\ top_level[c] \in Level
                                 /\ data[c] \in Data \cup {Absent}
           /\ \A c \in AnyCell, l \in Level :
                 /\ forward[c][l] = <<Ptr(c, l), Marked(c, l)>>
                 /\ Ptr(c, l) \in AnyCell \cup {None} /\ Marked(c, l) \in BOOLEAN
<1>1. used \subseteq Cell /\ Listed \subseteq used
  BY DEF HeapTypes, Listed
<1>2. \A c \in AnyCell : /\ key[c] \in Nat /\ key[c] <= MaxKey + 1
                         /\ top_level[c] \in Nat /\ top_level[c] \in Level
                         /\ data[c] \in Data \cup {Absent}
  <2>1. ASSUME NEW c \in AnyCell PROVE /\ key[c] \in Nat /\ key[c] <= MaxKey + 1
    BY Constants DEF HeapTypes
  <2>2. ASSUME NEW c \in AnyCell PROVE top_level[c] \in Level /\ data[c] \in Data \cup {Absent}
    BY DEF HeapTypes
  <2> QED
    BY <2>1, <2>2, Constants
<1>3. ASSUME NEW c \in AnyCell, NEW l \in Level
      PROVE  /\ forward[c][l] = <<Ptr(c, l), Marked(c, l)>>
             /\ Ptr(c, l) \in AnyCell \cup {None} /\ Marked(c, l) \in BOOLEAN
  BY DEF HeapTypes, Ptr, Marked
<1> QED
  BY <1>1, <1>2, <1>3

LEMMA HeapCells ==
    ASSUME Heap
    PROVE  /\ Listed \subseteq used /\ Listed \subseteq Cell /\ used \subseteq Cell
           /\ Nodes \subseteq AnyCell /\ Targets \subseteq AnyCell /\ Listed \subseteq AnyCell
           /\ Nodes \subseteq used \cup {Head}
           /\ \A c \in used : key[c] \in Key /\ key[c] \in Nat /\ data[c] \in Data
           /\ key[Head] = 0 /\ key[Tail] = MaxKey + 1
           /\ top_level[Head] = TopLevel /\ top_level[Tail] = TopLevel
           /\ \A c \in AnyCell : 0 <= top_level[c]
BY HeapNumbers, Constants DEF Heap, HeapInv, SentinelInv, Nodes, Targets

\* What is behind a cell is listed, at the level, and not smaller.
LEMMA FromListed ==
    ASSUME Heap, NEW c \in used \cup {Head}, NEW l \in Level, l <= top_level[c],
           NEW d \in From(c, l)
    PROVE  d \in Listed /\ l <= top_level[d] /\ key[c] <= key[d]
<1> USE HeapNumbers, HeapCells, Constants
<1> DEFINE S == {x \in Listed : l <= top_level[x] /\ key[c] <= key[x]}
<1>0. c \in AnyCell
  BY DEF Heap
<1>1. ASSUME NEW x \in used \cup {Head}, l <= top_level[x], key[c] <= key[x], Links(l)[x] \in Cell
      PROVE  Links(l)[x] \in S
  <2>1. x \in AnyCell /\ Links(l)[x] = Ptr(x, l)
    BY LinksAre
  <2>2. Ptr(x, l) \in Listed /\ l <= top_level[Ptr(x, l)]
    BY <1>1, <2>1 DEF Heap, HeapInv, PointerInv, Targets
  <2>a. key[x] \in Nat /\ key[Ptr(x, l)] \in Nat
    BY <2>1, <2>2 DEF Heap
  <2>b. key[Ptr(x, l)] > key[x] \/ key[Ptr(x, l)] = key[x]
    BY <1>1 DEF Heap, HeapInv, SortedInv
  <2>3. key[x] <= key[Ptr(x, l)]
    BY <2>a, <2>b
  <2>4. key[c] <= key[Ptr(x, l)]
    BY <1>0, <1>1, <2>1, <2>2, <2>3 DEF Heap
  <2> QED
    BY <2>1, <2>2, <2>4
<1>2. Closed(Links(l), S)
  BY <1>1 DEF Closed
<1>3. Links(l)[c] \in Cell => Links(l)[c] \in S
  BY <1>0, <1>1 DEF Heap
<1>4. From(c, l) \subseteq S
  BY <1>2, <1>3, ReachedIn, LinksAre
<1> QED
  BY <1>4

LEMMA FromLarger ==
    ASSUME Heap, NEW c \in used \cup {Head}, NEW d \in From(c, 0)
    PROVE  d \in Listed /\ key[c] < key[d]
<1> USE HeapNumbers, HeapCells, Constants
<1>0. c \in AnyCell /\ 0 <= top_level[c]
  OBVIOUS
<1>1. Links(0)[c] = Ptr(c, 0)
  BY <1>0, LinksAre
<1>2. Ptr(c, 0) \in Cell
  BY <1>1, ReachedStep, LinksAre
<1>3. d = Ptr(c, 0) \/ d \in From(Ptr(c, 0), 0)
  BY <1>1, <1>2, ReachedStep, LinksAre
<1>4. Ptr(c, 0) \in Listed
  BY <1>0, <1>2 DEF Heap, HeapInv, PointerInv, Targets
<1>5. key[c] < key[Ptr(c, 0)]
  BY <1>0, <1>4 DEF Heap, HeapInv, SortedInv
<1>6. d \in Listed /\ key[Ptr(c, 0)] <= key[d]
  BY <1>3, <1>4, FromListed DEF Heap
<1> QED
  BY <1>0, <1>4, <1>5, <1>6 DEF Heap

\* The lowest level.
LEMMA LinkedListed ==
    ASSUME Heap
    PROVE  /\ Linked0 \subseteq Listed
           /\ \A c \in Linked0 \cup {Head} : Ptr(c, 0) \in Linked0 \cup {Tail}
           /\ \A c \in Linked0 \cup {Head} : key[c] < key[Ptr(c, 0)]
           /\ \A c \in Linked0 : From(c, 0) \subseteq Linked0
<1> USE HeapNumbers, HeapCells, Constants
<1>1. Linked0 \subseteq Listed
  BY FromListed, LinksAre DEF Heap
<1>2. ASSUME NEW c \in Linked0 \cup {Head} PROVE Ptr(c, 0) \in Linked0 \cup {Tail}
  BY <1>1, LinksAre, ReachedClosed DEF Nodes, Heap, HeapInv, PointerInv, Closed, Targets
<1>3. ASSUME NEW c \in Linked0 \cup {Head} PROVE key[c] < key[Ptr(c, 0)]
  BY <1>1 DEF Heap, HeapInv, SortedInv
<1>4. ASSUME NEW c \in Linked0 PROVE From(c, 0) \subseteq Linked0
  BY ReachedTrans, LinksAre
<1> QED
  BY <1>1, <1>2, <1>3, <1>4

LEMMA LinkedAhead ==
    ASSUME Heap, NEW c \in Linked0 \cup {Head}, NEW d \in Linked0, key[c] < key[d]
    PROVE  d \in From(c, 0)
<1> USE HeapNumbers, HeapCells, Constants, LinkedListed
<1>0. c \in AnyCell /\ d \in AnyCell
  BY DEF Heap
<1> DEFINE S == {x \in Linked0 : key[x] <= key[c]} \cup From(c, 0)
<1>1. S \in SUBSET Cell
  BY LinksAre DEF Heap
<1>2. ASSUME NEW x \in Linked0 \cup {Head}, key[x] <= key[c], Links(0)[x] \in Cell
      PROVE  Links(0)[x] \in S
  <2>0. x \in AnyCell /\ Links(0)[x] = Ptr(x, 0)
    BY LinksAre DEF Heap
  <2>1. CASE x = c
    BY <1>2, <2>1, ReachedClosed, LinksAre
  <2>2. CASE x # c
    <3>1. c \in Linked0
      <4>1. SUFFICES ASSUME c = Head PROVE FALSE
        OBVIOUS
      <4>2. x \in Linked0 /\ key[x] >= 1
        BY <2>2, <4>1 DEF Heap
      <4> QED
        BY <1>2, <4>1, <4>2 DEF Heap
    <3>2. key[x] # key[c]
      BY <2>2, <3>1 DEF Heap, HeapInv, GapInv
    <3>a. key[x] \in Nat /\ key[c] \in Nat
      BY <1>0, <2>0 DEF Heap
    <3>3. key[x] < key[c]
      BY <1>2, <3>a, <3>2
    <3>4. key[Ptr(x, 0)] <= key[c]
      BY <3>1, <3>3 DEF Heap, HeapInv, GapInv
    <3>5. Ptr(x, 0) \in Linked0
      BY <1>2, <2>0
    <3> QED
      BY <2>0, <3>4, <3>5
  <2> QED
    BY <2>1, <2>2
<1>3. Closed(Links(0), S)
  BY <1>2, ReachedClosed, LinksAre DEF Closed
<1>4. Links(0)[Head] \in Cell => Links(0)[Head] \in S
  BY <1>0, <1>2 DEF Heap
<1>5. Linked0 \subseteq S
  BY <1>1, <1>3, <1>4, ReachedIn, LinksAre
<1>6. ~(key[d] <= key[c])
  BY <1>0 DEF Heap
<1> QED
  BY <1>5, <1>6

\* A cell that is not marked at one of its levels is in the list.
LEMMA Unmarked ==
    ASSUME Heap, NEW c \in Listed, NEW l \in Level, l <= top_level[c], ~Marked(c, l)
    PROVE  ~Marked(c, 0) /\ c \in Linked0
BY HeapCells, Constants DEF Heap, HeapInv, MarksInv, LiveInv

LEMMA UnmarkedNode ==
    ASSUME Heap, NEW c \in Nodes, NEW l \in Level, l <= top_level[c], ~Marked(c, l)
    PROVE  ~Marked(c, 0) /\ c \in Linked0 \cup {Head}
BY Constants, Unmarked DEF Heap, HeapInv, SentinelInv, Nodes

\* The dictionary: the cells that are not marked.
LEMMA PresentAre ==
    ASSUME Heap, NEW k \in Key
    PROVE  /\ Present(k) = {c \in Listed : key[c] = k /\ ~Marked(c, 0)}
           /\ \A c, d \in Present(k) : c = d
BY LinkedListed DEF Present, Heap, HeapInv, LiveInv, Linked0, GapInv

LEMMA DictOf ==
    ASSUME NEW k \in Key
    PROVE  /\ Present(k) = {} => Dict[k] = Absent
           /\ Present(k) # {} => \E c \in Present(k) : Dict[k] = data[c]
BY DEF Dict

LEMMA DictIs ==
    ASSUME Heap, NEW k \in Key
    PROVE  /\ \A c \in Listed : key[c] = k /\ ~Marked(c, 0) => Dict[k] = data[c]
           /\ (\A c \in Listed : key[c] = k => Marked(c, 0)) => Dict[k] = Absent
           /\ Dict[k] \in Data \cup {Absent}
           /\ Dict[k] # Absent => \E c \in Listed : key[c] = k /\ ~Marked(c, 0)
BY PresentAre, HeapCells, DictOf

\* What is marked but in the list, and what would be in a gap of it, is absent.
LEMMA DictAbsent ==
    ASSUME Heap
    PROVE  /\ \A c \in Linked0 : Marked(c, 0) => Dict[key[c]] = Absent
           /\ \A c \in Linked0 \cup {Head}, k \in Key :
                 key[c] < k /\ k < key[Ptr(c, 0)] => Dict[k] = Absent
<1> USE HeapNumbers, HeapCells, LinkedListed, Constants
<1>1. ASSUME NEW c \in Linked0, Marked(c, 0) PROVE Dict[key[c]] = Absent
  BY <1>1, DictIs DEF Heap, HeapInv, LiveInv, GapInv
<1>2. ASSUME NEW c \in Linked0 \cup {Head}, NEW k \in Key, key[c] < k, k < key[Ptr(c, 0)]
      PROVE  Dict[k] = Absent
  BY <1>2, DictIs DEF Heap, HeapInv, LiveInv, GapInv
<1> QED
  BY <1>1, <1>2

\* All of this, as one formula that also holds of the next state.
HeapFacts ==
    /\ Listed \subseteq used /\ Listed \subseteq Cell /\ used \subseteq Cell
    /\ Nodes \subseteq AnyCell /\ Targets \subseteq AnyCell /\ Listed \subseteq AnyCell
    /\ Nodes \subseteq used \cup {Head}
    /\ \A c \in AnyCell : key[c] \in Nat /\ top_level[c] \in Nat /\ top_level[c] \in Level
    /\ \A c \in used : key[c] \in Key /\ data[c] \in Data
    /\ key[Head] = 0 /\ key[Tail] = MaxKey + 1
    /\ top_level[Head] = TopLevel /\ top_level[Tail] = TopLevel
    /\ \A c \in AnyCell, l \in Level :
          /\ forward[c][l] = <<Ptr(c, l), Marked(c, l)>>
          /\ Marked(c, l) \in BOOLEAN
ListFacts ==
    /\ \A c \in used \cup {Head}, l \in Level : l <= top_level[c] =>
          \A d \in From(c, l) : d \in Listed /\ l <= top_level[d] /\ key[c] <= key[d]
    /\ \A c \in used \cup {Head} : \A d \in From(c, 0) : key[c] < key[d]
    /\ Linked0 \subseteq Listed
    /\ \A c \in Linked0 \cup {Head} : Ptr(c, 0) \in Linked0 \cup {Tail}
    /\ \A c \in Linked0 \cup {Head} : key[c] < key[Ptr(c, 0)]
    /\ \A c \in Linked0 : From(c, 0) \subseteq Linked0
    /\ \A c \in Linked0 \cup {Head}, d \in Linked0 : key[c] < key[d] => d \in From(c, 0)
    /\ \A c \in Nodes, l \in Level : l <= top_level[c] /\ ~Marked(c, l) =>
          ~Marked(c, 0) /\ c \in Linked0 \cup {Head}
DictFacts ==
    \A k \in Key :
        /\ \A c \in Listed : key[c] = k /\ ~Marked(c, 0) => Dict[k] = data[c]
        /\ (\A c \in Listed : key[c] = k => Marked(c, 0)) => Dict[k] = Absent
        /\ Dict[k] \in Data \cup {Absent}
        /\ Dict[k] # Absent => \E c \in Listed : key[c] = k /\ ~Marked(c, 0)

LEMMA Facts == Heap => HeapFacts /\ ListFacts /\ DictFacts
<1> SUFFICES ASSUME Heap PROVE HeapFacts /\ ListFacts /\ DictFacts
  OBVIOUS
<1>1. HeapFacts
  BY HeapCells, HeapNumbers DEF HeapFacts, Heap
<1>2. ListFacts
  BY FromListed, FromLarger, LinkedListed, LinkedAhead, UnmarkedNode DEF ListFacts
<1>3. DictFacts
  BY DictIs DEF DictFacts
<1> QED
  BY <1>1, <1>2, <1>3

LEMMA FactsNext == Heap' => HeapFacts' /\ ListFacts' /\ DictFacts'
BY Facts, PTL

-----------------------------------------------------------------------------
(* What the steps of one thread do not take from another. *)
Evolves ==
    /\ Listed \subseteq Listed'
    /\ \A c \in Listed \cup {Head, Tail} : key'[c] = key[c] /\ top_level'[c] = top_level[c]
    /\ \A c \in Listed, l \in Level : Marked(c, l) => Marked(c, l)' /\ Ptr(c, l)' = Ptr(c, l)
    /\ \A d \in Listed : d \in Linked0' => d \in Linked0
    /\ \A d \in Linked0 : d \in Linked0' \/ Marked(d, 0)
    /\ \A c \in Nodes : \A d \in From(c, 0) : d \in Linked0' => d \in From(c, 0)'
    /\ \A c \in Nodes \cup Targets : From(c, 0)' \subseteq From(c, 0) \cup Linked0'

Learns(q) ==
    /\ \A k \in Key : seen[q][k] \subseteq seen'[q][k]
    /\ gone[q] => gone'[q]
    /\ \A c \in Listed : ~Marked(c, 0) /\ Marked(c, 0)' =>
          /\ Absent \in seen'[q][key[c]]
          /\ key[c] = loc[q].key => gone'[q]
Rereads(q) == \A c \in Listed : DataSeen(q, c) => DataSeen(q, c)'

Waits(q) == q \in Proc /\ pc[q] # "idle" /\ loc[q] \in Locs
Spares(q) ==
    \A c \in used : Fresh(q, c) =>
        /\ c \in used' /\ key'[c] = key[c] /\ data'[c] = data[c]
        /\ top_level'[c] = top_level[c] /\ forward'[c] = forward[c]
        /\ garbage_next'[c] = garbage_next[c]
        /\ \A r \in Proc : Fresh(r, c)' => r = q

LEMMA LocsOf ==
    ASSUME NEW v \in Locs
    PROVE  /\ v.op \in Op /\ v.key \in Key /\ v.key \in Nat /\ v.data \in Data \cup {Absent}
           /\ v.pred \in AnyCell /\ v.curr \in AnyCell /\ v.succ \in AnyCell
           /\ v.level \in Level /\ v.level \in Nat /\ v.up \in Level /\ v.up \in Nat
           /\ \A m \in Level : v.preds[m] \in AnyCell /\ v.succs[m] \in AnyCell
           /\ v.cell \in AnyCell \cup {None}
BY Constants DEF Locs

LEMMA GoneWhenUnlinked ==
    ASSUME Heap, SeenInv, NEW q \in Proc, pc[q] # "idle", NEW d \in Linked0, Marked(d, 0)
    PROVE  WasGone(q, d)
BY LinkedListed, HeapCells, DictAbsent DEF SeenInv, SeenOK, WasGone, GapSeen

LEMMA GapNow ==
    ASSUME Heap, SeenInv, NEW q \in Proc, pc[q] # "idle", NEW c \in Linked0 \cup {Head}
    PROVE  GapSeen(q, key[c], key[Ptr(c, 0)])
BY DictAbsent DEF GapSeen, SeenInv, SeenOK

LEMMA StableGone ==
    ASSUME Heap, Evolves, NEW q, Learns(q), NEW d \in Listed, d \notin Linked0 \/ Marked(d, 0),
           WasGone(q, d)
    PROVE  WasGone(q, d)'
<1>1. Marked(d, 0)
  BY DEF Heap, HeapInv, LiveInv
<1>2. Ptr(d, 0) \in Targets
  BY HeapCells, Constants DEF Heap, HeapInv, PointerInv
<1>3. Ptr(d, 0)' = Ptr(d, 0) /\ key'[d] = key[d]
  BY <1>1, Constants DEF Evolves
<1>4. key'[Ptr(d, 0)] = key[Ptr(d, 0)]
  BY <1>2 DEF Evolves, Targets
<1>5. key[d] \in Key
  BY HeapCells
<1> QED
  BY <1>3, <1>4, <1>5 DEF WasGone, GapSeen, Learns

LEMMA StableVisible ==
    ASSUME Heap, SeenInv, Evolves, NEW q \in Proc, pc[q] # "idle", Learns(q),
           NEW c \in Nodes \cup Targets, Visible(q, c)
    PROVE  Visible(q, c)'
<1> SUFFICES ASSUME NEW d \in ({c} \cap Cell) \cup From(c, 0)', d \notin Linked0'
             PROVE  WasGone(q, d)'
  BY DEF Visible
<1>1. d \in ({c} \cap Cell) \cup From(c, 0)
  BY DEF Evolves
<1>2. d \in Listed
  <2>1. CASE d = c /\ c \in Cell
    BY <2>1, Constants DEF Nodes, Targets
  <2>2. CASE d \in From(c, 0)
    BY <2>2, LinksAre, Constants, ReachedStep, HeapCells, FromLarger DEF Heap, HeapInv,
       SentinelInv, Nodes, Targets
  <2> QED
    BY <1>1, <2>1, <2>2
<1>3. d \notin Linked0 \/ Marked(d, 0)
  BY DEF Evolves
<1>4. WasGone(q, d)
  BY <1>1, <1>3, GoneWhenUnlinked DEF Visible
<1> QED
  BY <1>2, <1>3, <1>4, StableGone

Rely(q) == Heap /\ SeenInv /\ Evolves /\ Waits(q) /\ Learns(q) /\ Rereads(q) /\ Spares(q)

LEMMA StableCells ==
    ASSUME Heap, Evolves
    PROVE  /\ \A c \in Nodes : c \in Nodes' /\ key'[c] = key[c] /\ top_level'[c] = top_level[c]
           /\ \A c \in Targets : c \in Targets' /\ key'[c] = key[c] /\ top_level'[c] = top_level[c]
           /\ \A c \in Targets, l \in Level : Marked(c, l) =>
                 /\ c \in Listed /\ c \in Listed'
                 /\ Marked(c, l)' /\ Ptr(c, l)' = Ptr(c, l)
           /\ \A c \in Targets \cap Linked0' : c \in Listed /\ c \in Linked0
<1>1. \A l \in Level : ~Marked(Tail, l)
  BY DEF Heap, HeapInv, SentinelInv
<1>2. Tail \notin Linked0'
  BY Constants, ReachedSub DEF Linked0, Linked, From
<1> QED
  BY <1>1, <1>2 DEF Evolves, Nodes, Targets

LEMMA StablePlace ==
    ASSUME NEW q, Rely(q), NEW at, NEW v \in Locs, PlaceOK(q, at, v)
    PROVE  PlaceOK(q, at, v)'
<1> USE StableCells DEF Rely
<1>1. q \in Proc /\ pc[q] # "idle"
  BY DEF Waits
<1>2. /\ v.pred \in Nodes' /\ key'[v.pred] < v.key /\ v.level <= top_level'[v.pred]
      /\ key'[v.pred] = key[v.pred]
  BY DEF PlaceOK
<1>3. Visible(q, v.pred)'
  BY <1>1, StableVisible DEF PlaceOK
<1>4. at # "load" => /\ v.curr \in Targets' /\ v.level <= top_level'[v.curr]
                     /\ key'[v.curr] = key[v.curr]
  BY DEF PlaceOK
<1>5. at = "next" /\ v.level = 0 => GapSeen(q, key[v.pred], key[v.curr])'
  BY <1>2, <1>4 DEF PlaceOK, GapSeen, Learns
<1>6. at \notin {"load", "next"} => Marked(v.curr, v.level)' /\ Ptr(v.curr, v.level)' = Ptr(v.curr, v.level)
  BY LocsOf DEF PlaceOK
<1> QED
  BY <1>2, <1>3, <1>4, <1>5, <1>6 DEF PlaceOK

LEMMA StablePassed ==
    ASSUME NEW q, Rely(q), NEW v, NEW m \in Level, Passed(v, m)
    PROVE  Passed(v, m)' /\ (Beyond(v, m) => Beyond(v, m)')
<1> USE StableCells DEF Rely
<1>1. Passed(v, m)'
  BY DEF Passed
<1>2. ASSUME Beyond(v, m) PROVE Beyond(v, m)'
  BY <1>2 DEF Passed, Beyond
<1> QED
  BY <1>1, <1>2

LEMMA StableOwn ==
    ASSUME NEW q, Rely(q), NEW v, OwnOK(v)
    PROVE  OwnOK(v)'
BY Constants DEF Rely, Evolves, OwnOK

LEMMA TailEnd ==
    ASSUME Heap, NEW l \in Level
    PROVE  From(Tail, l) = {}
BY LinksAre, Constants, ReachedStep DEF Heap, HeapInv, SentinelInv

LEMMA StableFollow ==
    ASSUME NEW q, Rely(q), NEW at, NEW v \in Locs, SearchOK(q, at, v), FindOK(v)
    PROVE  FollowOK(at, v)'
<1> USE StableCells DEF Rely
<1>2. PlaceOK(q, at, v) /\ FollowOK(at, v) /\ \A m \in Level : m > v.level => Passed(v, m)
  BY DEF SearchOK
<1>3. ASSUME NEW d \in Watched(v)'
      PROVE  d \in Watched(v)
  <2>1. d \in Linked0' /\ d \in Cell
    BY ReachedSub DEF Watched, Linked0, Linked, From
  <2>2. CASE v.op = "remove" /\ d = v.cell
    BY <1>3, <2>1, <2>2, Constants DEF FindOK, OwnOK, Watched, Evolves
  <2>3. CASE v.op = "insert" /\ \E m \in Level : m > v.level /\ d = v.succs[m]
    <3>1. PICK m \in Level : m > v.level /\ d = v.succs[m]
      BY <2>3
    <3>2. d \in Targets
      BY <1>2, <3>1 DEF Passed
    <3>3. d \in Linked0 /\ key'[d] = key[d]
      BY <2>1, <3>2
    <3> QED
      BY <1>3, <2>3, <3>3 DEF Watched
  <2> QED
    BY <1>3, <2>2, <2>3 DEF Watched
<1>4. ASSUME NEW d \in Watched(v)'
      PROVE  d \in From(v.pred, 0)'
  BY <1>2, <1>3, <1>4 DEF FollowOK, Watched, Evolves, PlaceOK
<1>5. ASSUME NEW d \in Watched(v)', at = "next", v.level = 0
      PROVE  d = v.curr \/ d \in From(v.curr, 0)'
  BY <1>2, <1>3, <1>5, TailEnd, Constants DEF FollowOK, Watched, PlaceOK, Targets, Nodes,
     Evolves
<1>6. ASSUME at = "next", v.curr \in Linked0', key'[v.pred] < key'[v.curr]
      PROVE  v.curr \in From(v.pred, 0)'
  BY <1>2, <1>6 DEF PlaceOK, FollowOK, Evolves
<1> QED
  BY <1>4, <1>5, <1>6 DEF FollowOK

LEMMA StableLookup ==
    ASSUME NEW q, Rely(q), NEW at, NEW v \in Locs, LookupOK(q, at, v)
    PROVE  LookupOK(q, at, v)'
<1> USE StableCells DEF Rely
<1>1. q \in Proc /\ pc[q] # "idle"
  BY DEF Waits
<1>2. /\ v.pred \in Nodes' /\ key'[v.pred] < v.key /\ v.level <= top_level'[v.pred]
      /\ key'[v.pred] = key[v.pred]
  BY DEF LookupOK
<1>3. Visible(q, v.pred)'
  BY <1>1, StableVisible DEF LookupOK
<1>4. v.pred # Head => DataSeen(q, v.pred)'
  BY DEF LookupOK, Nodes, Rereads
<1>5. ASSUME at = "walk"
      PROVE  /\ v.curr \in Targets' /\ v.level <= top_level'[v.curr]
             /\ key'[v.curr] = key[v.curr]
             /\ v.level = 0 => /\ Visible(q, v.curr)'
                               /\ \A k \in Key : key'[v.pred] < k /\ k < key'[v.curr] => Absent \in seen'[q][k]
  BY <1>1, <1>2, <1>5, StableVisible DEF LookupOK, GapSeen, Learns
<1> QED
  BY <1>2, <1>3, <1>4, <1>5 DEF LookupOK, GapSeen

LEMMA StableRead ==
    ASSUME NEW q, Rely(q), NEW v, ReadOK(q, v)
    PROVE  ReadOK(q, v)'
BY DEF Rely, ReadOK, Evolves, Rereads, Learns, GapSeen

LEMMA StableFresh ==
    ASSUME NEW q, Rely(q), NEW v, Fresh(q, v.cell), FreshOK(q, v)
    PROVE  FreshOK(q, v)'
BY StablePassed DEF FreshOK, Rely, Spares

LEMMA StableExtract ==
    ASSUME NEW q, Rely(q), NEW at, NEW v \in Locs, v.key = loc[q].key, ExtractOK(q, at, v)
    PROVE  ExtractOK(q, at, v)'
BY LocsOf DEF Rely, ExtractOK, Evolves, Learns

LEMMA StableUpdate ==
    ASSUME NEW q, Rely(q), NEW v \in Locs, v.key = loc[q].key, UpdateOK(q, v)
    PROVE  UpdateOK(q, v)'
BY LocsOf DEF Rely, UpdateOK, Evolves, Learns

\* What a call relies on stays while the others respect the rely condition.
LEMMA StableAt ==
    ASSUME NEW q, Rely(q), NEW at, NEW v, v = loc[q], CallAt(q, at, v),
           at = "link" /\ v.up = 0 => Fresh(q, v.cell)
    PROVE  CallAt(q, at, v)'
<1>1. v \in Locs /\ v.key = loc[q].key
  BY DEF Rely, Waits
<1>2. at \in Searching \cup {"find"} => FindOK(v)'
  BY <1>1, StableOwn DEF CallAt, FindOK
<1>3. at \in Searching => SearchOK(q, at, v)'
  <2> SUFFICES ASSUME at \in Searching PROVE SearchOK(q, at, v)'
    OBVIOUS
  <2>1. SearchOK(q, at, v) /\ FindOK(v) /\ PlaceOK(q, at, v)
    BY <1>1 DEF CallAt, SearchOK
  <2>2. PlaceOK(q, at, v)' /\ FollowOK(at, v)'
    BY <1>1, <2>1, StablePlace, StableFollow
  <2>3. \A m \in Level : m > v.level => Passed(v, m)'
    BY <2>1, StablePassed DEF SearchOK
  <2> QED
    BY <2>2, <2>3 DEF SearchOK
<1>4. at = "update" => UpdateOK(q, v)'
  BY <1>1, StableUpdate DEF CallAt
<1>5. at = "alloc" => AllocOK(v)'
  BY <1>1, StablePassed DEF CallAt, AllocOK
<1>6. at = "link" => LinkOK(q, v)'
  BY <1>1, StablePassed, StableFresh, StableOwn DEF CallAt, LinkOK
<1>7. at \in {"bump", "raise"} => v.cell \in Listed'
  BY <1>1 DEF CallAt, Rely, Evolves
<1>8. at \in {"extract", "mark", "lost"} => ExtractOK(q, at, v)'
  BY <1>1, StableExtract DEF CallAt
<1>9. at \in {"enter", "walk"} => LookupOK(q, at, v)'
  BY <1>1, StableLookup DEF CallAt
<1>10. at = "read" => ReadOK(q, v)'
  BY <1>1, StableRead DEF CallAt
<1>11. at = "lookup" => v.pred = Head /\ v.cell = None /\ v.res = Absent
  BY <1>1 DEF CallAt
<1> QED
  BY <1>2, <1>3, <1>4, <1>5, <1>6, <1>7, <1>8, <1>9, <1>10, <1>11 DEF CallAt

LEMMA Stable ==
    ASSUME NEW q, Rely(q), CallOK(q), pc'[q] = pc[q], loc'[q] = loc[q]
    PROVE  CallOK(q)'
<1>1. PICK at, v : at = pc[q] /\ v = loc[q]
  OBVIOUS
<1>2. CallAt(q, at, v)'
  BY <1>1, StableAt DEF CallOK, Fresh
<1> QED
  BY <1>1, <1>2 DEF CallOK

-----------------------------------------------------------------------------
(* Steps that leave the cells as they are. *)
Core == /\ HeapTypes /\ GarbageTypes /\ CallTypes
        /\ HeapInv /\ SeenInv /\ CallsInv

SameHeap == /\ UNCHANGED <<used, key, top_level, data, forward>>
            /\ \A q \in Proc, c \in used : Fresh(q, c)' <=> Fresh(q, c)

LEMMA Same ==
    ASSUME SameHeap
    PROVE  /\ Listed' = Listed /\ Nodes' = Nodes /\ Targets' = Targets
           /\ \A c, l : From(c, l)' = From(c, l) /\ Ptr(c, l)' = Ptr(c, l)
                        /\ Marked(c, l)' = Marked(c, l)
           /\ \A l : Linked(l)' = Linked(l)
           /\ Linked0' = Linked0 /\ Dict' = Dict
           /\ \A k : Present(k)' = Present(k)
<1>1. Listed' = Listed
  BY DEF SameHeap, Listed
<1>2. Nodes' = Nodes /\ Targets' = Targets
  BY <1>1 DEF Nodes, Targets
<1>3. \A c, l : Ptr(c, l)' = Ptr(c, l) /\ Marked(c, l)' = Marked(c, l)
  BY DEF SameHeap, Ptr, Marked
<1>4. \A c, l : From(c, l)' = From(c, l)
  BY DEF SameHeap, From, Links, Ptr
<1>5. \A l : Linked(l)' = Linked(l)
  BY <1>4 DEF Linked
<1>6. \A k : Present(k)' = Present(k)
  BY <1>5, <1>3 DEF Present, SameHeap
<1>7. Dict' = Dict
  BY DEF Dict, Present, Linked, From, Links, Marked, Ptr, SameHeap
<1> QED
  BY <1>1, <1>2, <1>3, <1>4, <1>5, <1>6, <1>7 DEF Linked0

LEMMA SameHeapInv ==
    ASSUME Heap, SameHeap
    PROVE  Heap' /\ Evolves
<1> USE Same DEF SameHeap, Heap, HeapInv
<1>1. HeapTypes'
  BY DEF HeapTypes
<1>2. SentinelInv'
  BY DEF SentinelInv
<1>3. PointerInv'
  BY DEF PointerInv
<1>4. SortedInv'
  BY DEF SortedInv
<1>5. MarksInv'
  BY DEF MarksInv
<1>6. LiveInv'
  BY DEF LiveInv
<1>7. GapInv'
  BY DEF GapInv
<1>8. AheadInv'
  BY DEF AheadInv
<1>9. AcyclicInv'
  BY DEF AcyclicInv
<1>10. Evolves
  BY DEF Evolves
<1> QED
  BY <1>1, <1>2, <1>3, <1>4, <1>5, <1>6, <1>7, <1>8, <1>9, <1>10

LEMMA CoreHeap ==
    ASSUME Core
    PROVE  Heap /\ HeapFacts /\ ListFacts /\ DictFacts
BY Facts DEF Core, Heap

Others(p) == \A q \in Proc : q # p => pc'[q] = pc[q] /\ loc'[q] = loc[q]
FreshStart(p) == pc[p] = "link" /\ loc[p].up = 0

\* A step that only moves a call on.
Quiet(p) ==
    /\ UNCHANGED <<used, key, top_level, data, forward>> /\ profile' = profile
    /\ UNCHANGED <<seen, gone>>
    /\ pc' \in [Proc -> Labels] /\ loc' \in [Proc -> Locs \cup {Idle}] /\ Others(p)
    /\ pc[p] # "idle" /\ pc'[p] # "idle" /\ CallType(p)'
    /\ ~FreshStart(p) /\ ~FreshStart(p)'
    /\ GarbageTypes'
    /\ \A c \in used \ Listed : garbage_next'[c] = garbage_next[c]

LEMMA MovedSame ==
    ASSUME NEW p \in Proc, UNCHANGED <<used, key, top_level, data, forward>>, Others(p),
           ~FreshStart(p), ~FreshStart(p)'
    PROVE  SameHeap
BY DEF Others, FreshStart, Fresh, SameHeap

LEMMA FreshIn ==
    ASSUME Core, NEW q \in Proc, NEW c \in used, Fresh(q, c)
    PROVE  c \notin Listed /\ pc[q] = "link" /\ FreshOK(q, loc[q]) /\ \A r \in Proc : Fresh(r, c) => r = q
BY DEF Fresh, Core, CallsInv, CallOK, CallAt, LinkOK, FreshOK, Listed

\* The others keep what they rely on.
LEMMA SameRely ==
    ASSUME Core, NEW p \in Proc, SameHeap, Others(p), NEW q \in Proc, q # p, pc[q] # "idle",
           seen'[q] = seen[q], gone'[q] = gone[q],
           \A c \in used \ Listed : garbage_next'[c] = garbage_next[c]
    PROVE  Rely(q)
<1>1. Heap /\ Evolves
  BY CoreHeap, SameHeapInv
<1>2. Waits(q)
  BY DEF Waits, Others, Core, CallTypes, CallType
<1>3. Learns(q)
  BY Same DEF Learns
<1>4. Rereads(q)
  BY Same DEF Rereads, DataSeen, SameHeap
<1>5. Spares(q)
  <2> SUFFICES ASSUME NEW c \in used, Fresh(q, c)
               PROVE  /\ c \in used' /\ key'[c] = key[c] /\ data'[c] = data[c]
                      /\ top_level'[c] = top_level[c] /\ forward'[c] = forward[c]
                      /\ garbage_next'[c] = garbage_next[c]
                      /\ \A r \in Proc : Fresh(r, c)' => r = q
    BY DEF Spares
  <2> QED
    BY FreshIn DEF SameHeap
<1> QED
  BY <1>1, <1>2, <1>3, <1>4, <1>5 DEF Rely, Core

LEMMA IdleOK ==
    ASSUME NEW q, pc[q] = "idle"
    PROVE  CallOK(q)
BY DEF CallOK, CallAt, Searching

LEMMA IdleOKNext ==
    ASSUME NEW q, pc'[q] = "idle"
    PROVE  CallOK(q)'
BY DEF CallOK, CallAt, Searching

LEMMA QuietCore ==
    ASSUME Core, NEW p \in Proc, Quiet(p), CallOK(p)'
    PROVE  Core' /\ SameHeap
<1>1. SameHeap
  BY MovedSame DEF Quiet
<1>2. Heap'
  BY <1>1, CoreHeap, SameHeapInv
<1>3. CallTypes'
  BY DEF Quiet, Others, Core, CallTypes, CallType
<1>4. SeenInv'
  BY <1>1, Same DEF Quiet, Others, Core, SeenInv, SeenOK
<1>5. CallsInv'
  <2> SUFFICES ASSUME NEW q \in Proc, q # p PROVE CallOK(q)'
    BY DEF CallsInv
  <2>1. CASE pc[q] = "idle"
    BY <2>1, IdleOKNext DEF Quiet, Others
  <2>2. CASE pc[q] # "idle"
    BY <1>1, <2>2, SameRely, Stable DEF Quiet, Core, CallsInv, Others
  <2> QED
    BY <2>1, <2>2
<1> QED
  BY <1>1, <1>2, <1>3, <1>4, <1>5 DEF Core, Heap, Quiet

LEMMA Move ==
    ASSUME CallTypes, NEW p \in Proc, NEW label \in Labels, NEW v \in Locs,
           pc' = [pc EXCEPT ![p] = label], loc' = [loc EXCEPT ![p] = v]
    PROVE  /\ pc' \in [Proc -> Labels] /\ loc' \in [Proc -> Locs \cup {Idle}] /\ Others(p)
           /\ pc'[p] = label /\ loc'[p] = v
BY DEF CallTypes, Others

LEMMA SameSeen ==
    ASSUME SameHeap, NEW p, seen'[p] = seen[p], gone'[p] = gone[p]
    PROVE  /\ \A c : Visible(p, c)' <=> Visible(p, c)
           /\ \A c : DataSeen(p, c)' <=> DataSeen(p, c)
           /\ \A a, b : GapSeen(p, a, b)' <=> GapSeen(p, a, b)
BY Same DEF GapSeen, WasGone, SameHeap, Visible, DataSeen

LEMMA SameAt ==
    ASSUME SameHeap, NEW p, seen'[p] = seen[p], gone'[p] = gone[p], NEW at, NEW v,
           CallAt(p, at, v), ~(at = "link" /\ v.up = 0)
    PROVE  CallAt(p, at, v)'
<1> USE Same, SameSeen DEF SameHeap
<1>1. \A m \in Level : (Passed(v, m) => Passed(v, m)') /\ (Beyond(v, m) => Beyond(v, m)')
  BY DEF Passed, Beyond
<1>2. Watched(v)' = Watched(v)
  BY DEF Watched
<1>3. FollowOK(at, v) => FollowOK(at, v)'
  BY <1>2 DEF FollowOK
<1>4. PlaceOK(p, at, v) => PlaceOK(p, at, v)'
  BY DEF PlaceOK
<1>5. SearchOK(p, at, v) => SearchOK(p, at, v)'
  BY <1>1, <1>3, <1>4 DEF SearchOK
<1>6. OwnOK(v) => OwnOK(v)'
  BY DEF OwnOK
<1>7. UpdateOK(p, v) => UpdateOK(p, v)'
  BY DEF UpdateOK
<1>8. ExtractOK(p, at, v) => ExtractOK(p, at, v)'
  BY DEF ExtractOK
<1>9. LookupOK(p, at, v) => LookupOK(p, at, v)'
  BY DEF LookupOK
<1>10. ReadOK(p, v) => ReadOK(p, v)'
  BY DEF ReadOK
<1> QED
  BY <1>1, <1>5, <1>6, <1>7, <1>8, <1>9, <1>10 DEF CallAt, FindOK, AllocOK, LinkOK

LEMMA PcIs ==
    ASSUME NEW op \in Op, NEW at \in PcOf(op)
    PROVE  /\ at # "idle" /\ at \in Labels
           /\ at \in Searching \cup {"find"} =>
                 op \in {"insert", "remove"} /\ Searching \cup {"find", "return"} \subseteq PcOf(op)
           /\ at \in {"update", "alloc", "link", "bump", "raise"} => op = "insert"
           /\ at \in {"extract", "mark", "lost"} => op = "remove"
           /\ at \in {"lookup", "enter", "walk", "read"} =>
                 op \in {"find", "find_below"} /\ {"enter", "walk", "read", "return"} \subseteq PcOf(op)
           /\ op = "insert" => {"find", "update", "alloc", "link", "bump", "raise", "return"} \subseteq PcOf(op)
           /\ op = "remove" => {"find", "extract", "mark", "lost", "return"} \subseteq PcOf(op)
           /\ "return" \in PcOf(op)
BY DEF PcOf, Labels, Searching, Op

LEMMA QuietStep ==
    ASSUME Core, NEW p \in Proc, NEW at, NEW w \in Locs,
           pc[p] # "idle", ~FreshStart(p), ~(at = "link" /\ w.up = 0),
           pc' = [pc EXCEPT ![p] = at], loc' = [loc EXCEPT ![p] = w],
           UNCHANGED <<used, key, top_level, data, forward>>, profile' = profile,
           UNCHANGED <<seen, gone>>, GarbageTypes',
           \A c \in used \ Listed : garbage_next'[c] = garbage_next[c],
           w.op = loc[p].op, w.data = loc[p].data, w.res \in Results(w.op),
           at \in PcOf(w.op), CallAt(p, at, w)
    PROVE  Quiet(p) /\ Core' /\ SameHeap /\ Others(p) /\ pc'[p] = at /\ loc'[p] = w
<1>2. w.op \in Op /\ at # "idle" /\ at \in Labels
  BY LocsOf, PcIs
<1>1. /\ pc' \in [Proc -> Labels] /\ loc' \in [Proc -> Locs \cup {Idle}] /\ Others(p)
      /\ pc'[p] = at /\ loc'[p] = w
  BY <1>2, Move DEF Core
<1>3. CallType(p)'
  BY <1>1, <1>2 DEF CallType, Core, CallTypes
<1>4. Quiet(p)
  BY <1>1, <1>2, <1>3 DEF Quiet, FreshStart
<1>5. SameHeap
  BY <1>4, MovedSame DEF Quiet
<1>6. CallAt(p, at, w)'
  BY <1>5, SameAt
<1>7. CallOK(p)'
  BY <1>1, <1>6 DEF CallOK
<1> QED
  BY <1>1, <1>4, <1>5, <1>7, QuietCore

Keeps == /\ UNCHANGED <<used, key, top_level, data, forward, profile, seen, gone>>
         /\ UNCHANGED <<garbage_next, garbage_head, search_level>>

LEMMA QuietMove ==
    ASSUME Core, NEW p \in Proc, NEW at, NEW w \in Locs, pc[p] # "idle", Keeps,
           ~FreshStart(p), ~(at = "link" /\ w.up = 0),
           pc' = [pc EXCEPT ![p] = at], loc' = [loc EXCEPT ![p] = w],
           w.op = loc[p].op, w.data = loc[p].data, w.res \in Results(w.op),
           at \in PcOf(w.op), CallAt(p, at, w)
    PROVE  Quiet(p) /\ Core' /\ SameHeap /\ Others(p) /\ pc'[p] = at /\ loc'[p] = w
BY QuietStep DEF Keeps, Core, GarbageTypes

LEMMA Unmoved ==
    ASSUME CallTypes, NEW p \in Proc, pc' = pc
    PROVE  pc' = [pc EXCEPT ![p] = pc[p]]
BY DEF CallTypes

\* What the calls know of the cells at hand.
LEMMA SearchFacts ==
    ASSUME Core, NEW p \in Proc, pc[p] # "idle"
    PROVE  /\ loc[p] \in Locs /\ pc[p] \in PcOf(loc[p].op) /\ pc[p] \in Labels
           /\ CallOK(p) /\ CallType(p)
BY DEF Core, CallTypes, CallType, CallsInv

LEMMA VisibleLinked ==
    ASSUME Heap, NEW p, NEW c \in Linked0 \cup {Head, Tail}
    PROVE  Visible(p, c)
BY TailEnd, Constants, LinksAre, LinkedListed DEF Visible

\* Past a cell that was in the list there is a gap and then a cell that was.
LEMMA VisibleNext ==
    ASSUME Heap, SeenInv, NEW p \in Proc, pc[p] # "idle", NEW c \in Nodes, Visible(p, c)
    PROVE  GapSeen(p, key[c], key[Ptr(c, 0)]) /\ Visible(p, Ptr(c, 0))
<1>0. c \in AnyCell /\ c \in used \cup {Head}
  BY HeapCells
<1>1. GapSeen(p, key[c], key[Ptr(c, 0)])
  BY GapNow, HeapCells DEF Nodes, Visible, WasGone
<1>2. Visible(p, Ptr(c, 0))
  BY <1>0, LinksAre, ReachedStep, Constants, HeapCells, VisibleLinked DEF Visible, Heap,
     HeapInv, PointerInv, Targets
<1> QED
  BY <1>1, <1>2

LEMMA FromNext ==
    ASSUME Heap, NEW c \in AnyCell, NEW d \in From(c, 0)
    PROVE  d = Ptr(c, 0) \/ d \in From(Ptr(c, 0), 0)
BY LinksAre, ReachedStep

-----------------------------------------------------------------------------
(* skiplist_find *)
\* What the lemmas say of a step of p.
Moved(p) == Quiet(p) /\ Core' /\ SameHeap

LEMMA FindStartOK ==
    ASSUME Core, NEW p \in Proc, FindStart(p)
    PROVE  Moved(p)
<1> USE Constants
<1>1. PICK v : v = loc[p]
  OBVIOUS
<1>2. PICK w : w = [v EXCEPT !.pred = Head, !.level = TopLevel]
  OBVIOUS
<1>3. /\ pc[p] = "find" /\ v \in Locs /\ CallAt(p, "find", v) /\ CallType(p)
      /\ pc' = [pc EXCEPT ![p] = "load"] /\ loc' = [loc EXCEPT ![p] = w]
  BY <1>1, <1>2, SearchFacts DEF FindStart, Goto, Set, CallOK
<1>4. /\ w \in Locs /\ w.pred = Head /\ w.level = TopLevel /\ w.op = v.op /\ w.key = v.key
      /\ w.cell = v.cell /\ w.up = v.up /\ w.res = v.res /\ w.data = v.data
  BY <1>2, <1>3 DEF Locs
<1>5. Heap /\ HeapFacts
  BY CoreHeap
<1>6. PlaceOK(p, "load", w)
  BY <1>4, <1>5, VisibleLinked, LocsOf DEF PlaceOK, HeapFacts, Nodes
<1>7. FollowOK("load", w)
  BY <1>4, LinksAre DEF FollowOK, Watched
<1>8. CallAt(p, "load", w)
  BY <1>3, <1>4, <1>6, <1>7 DEF CallAt, Searching, SearchOK, FindOK, OwnOK
<1> QED
  <2>1. w.res \in Results(w.op) /\ "load" \in PcOf(w.op)
    BY <1>1, <1>3, <1>4, PcIs, LocsOf DEF CallType, Searching
  <2>2. Keeps /\ ~FreshStart(p)
    BY <1>3 DEF FindStart, cells, history, Keeps, FreshStart
  <2> QED
    BY <1>1, <1>3, <1>4, <1>8, <2>1, <2>2, QuietMove DEF Moved

LEMMA FindLoadOK ==
    ASSUME Core, NEW p \in Proc, FindLoad(p)
    PROVE  Moved(p)
<1> USE Constants
<1>1. PICK v, c : v = loc[p] /\ c = Ptr(v.pred, v.level)
  OBVIOUS
<1>2. PICK w : w = [v EXCEPT !.curr = c]
  OBVIOUS
<1>3. /\ pc[p] = "load" /\ v \in Locs /\ CallAt(p, "load", v) /\ CallType(p)
      /\ pc' = [pc EXCEPT ![p] = "next"] /\ loc' = [loc EXCEPT ![p] = w]
  BY <1>1, <1>2, SearchFacts DEF FindLoad, Goto, Set, CallOK
<1>4. Heap /\ HeapFacts
  BY CoreHeap
<1>5. /\ PlaceOK(p, "load", v) /\ FollowOK("load", v) /\ FindOK(v)
      /\ \A m \in Level : m > v.level => Passed(v, m)
  BY <1>3 DEF CallAt, SearchOK, Searching
<1>6. c \in Targets /\ v.level <= top_level[c] /\ c \in AnyCell
  BY <1>1, <1>3, <1>4, <1>5, LocsOf DEF PlaceOK, Heap, HeapInv, PointerInv, HeapFacts
<1>7. /\ w \in Locs /\ w.curr = c /\ w.pred = v.pred /\ w.level = v.level /\ w.op = v.op
      /\ w.key = v.key /\ w.preds = v.preds /\ w.succs = v.succs
      /\ w.cell = v.cell /\ w.up = v.up /\ w.res = v.res /\ w.data = v.data
  BY <1>2, <1>3, <1>6 DEF Locs
<1>8. PlaceOK(p, "next", w)
  BY <1>1, <1>3, <1>4, <1>5, <1>6, <1>7, VisibleNext DEF PlaceOK, Core
<1>9. FollowOK("next", w)
  BY <1>1, <1>3, <1>4, <1>5, <1>7, FromNext, LocsOf DEF Watched, FollowOK, Heap, HeapInv,
     AheadInv, PlaceOK
<1>10. CallAt(p, "next", w)
  BY <1>5, <1>7, <1>8, <1>9 DEF CallAt, Searching, SearchOK, FindOK, OwnOK, Passed
<1> QED
  <2>1. w.res \in Results(w.op) /\ "next" \in PcOf(w.op)
    BY <1>1, <1>3, <1>7, PcIs, LocsOf DEF CallType, Searching
  <2>2. Keeps /\ ~FreshStart(p)
    BY <1>3 DEF FindLoad, cells, history, Keeps, FreshStart
  <2> QED
    BY <1>1, <1>3, <1>7, <1>10, <2>1, <2>2, QuietMove DEF Moved

\* The cell at hand.
LEMMA HereFacts ==
    ASSUME Heap, NEW c \in Targets, NEW l \in Level, l <= top_level[c]
    PROVE  /\ c \in AnyCell
           /\ c = Tail => ~Marked(c, l) /\ key[c] = MaxKey + 1
           /\ c # Tail => /\ c \in Listed /\ c \in Nodes /\ key[c] \in Key
                         /\ Ptr(c, l) \in Targets /\ Ptr(c, l) \in AnyCell
                         /\ l <= top_level[Ptr(c, l)]
           /\ c # Tail /\ ~Marked(c, l) => c \in Linked0 /\ ~Marked(c, 0)
BY Facts, Unmarked DEF Heap, HeapInv, SentinelInv, Targets, Nodes, HeapFacts, PointerInv

NextFacts(p, v) ==
    /\ pc[p] = "next" /\ v = loc[p] /\ v \in Locs /\ CallType(p) /\ Keeps
    /\ PlaceOK(p, "next", v) /\ FollowOK("next", v) /\ FindOK(v)
    /\ \A m \in Level : m > v.level => Passed(v, m)

LEMMA FindNextMarked ==
    ASSUME Core, NEW p \in Proc, NEW v, NextFacts(p, v), Marked(v.curr, v.level),
           pc' = [pc EXCEPT ![p] = "snip"],
           loc' = [loc EXCEPT ![p] = [v EXCEPT !.succ = Ptr(v.curr, v.level)]]
    PROVE  Moved(p)
<1> USE Constants DEF NextFacts
<1>1. PICK w : w = [v EXCEPT !.succ = Ptr(v.curr, v.level)]
  OBVIOUS
<1>2. Heap /\ v.level \in Level
  BY CoreHeap, LocsOf
<1>3. v.curr # Tail /\ Ptr(v.curr, v.level) \in AnyCell
  BY <1>2, HereFacts DEF PlaceOK
<1>4. /\ w \in Locs /\ w.curr = v.curr /\ w.pred = v.pred /\ w.level = v.level /\ w.op = v.op
      /\ w.key = v.key /\ w.preds = v.preds /\ w.succs = v.succs /\ w.succ = Ptr(v.curr, v.level)
      /\ w.cell = v.cell /\ w.up = v.up /\ w.res = v.res /\ w.data = v.data
  BY <1>1, <1>3 DEF Locs
<1>5. PlaceOK(p, "snip", w)
  BY <1>4 DEF PlaceOK
<1>6. FollowOK("snip", w)
  BY <1>4 DEF FollowOK, Watched
<1>7. CallAt(p, "snip", w)
  BY <1>4, <1>5, <1>6 DEF CallAt, Searching, SearchOK, FindOK, OwnOK, Passed
<1>8. w.res \in Results(w.op) /\ "snip" \in PcOf(w.op)
  BY <1>4, PcIs, LocsOf DEF CallType, Searching
<1>9. loc' = [loc EXCEPT ![p] = w] /\ pc[p] # "idle" /\ ~FreshStart(p)
  BY <1>1 DEF FreshStart
<1> QED
  BY <1>4, <1>7, <1>8, <1>9, QuietMove DEF Moved

LEMMA FindNextAdvance ==
    ASSUME Core, NEW p \in Proc, NEW v, NextFacts(p, v), ~Marked(v.curr, v.level),
           key[v.curr] < v.key, pc' = pc,
           loc' = [loc EXCEPT ![p] = [v EXCEPT !.pred = v.curr, !.curr = Ptr(v.curr, v.level)]]
    PROVE  Moved(p)
<1> USE Constants DEF NextFacts
<1>1. PICK w, c, d : c = v.curr /\ d = Ptr(c, v.level) /\ w = [v EXCEPT !.pred = c, !.curr = d]
  OBVIOUS
<1>2. Heap /\ v.level \in Level /\ v.key \in Key /\ HeapFacts /\ ListFacts /\ SeenInv
  BY CoreHeap, LocsOf DEF Core
<1>3. /\ c # Tail /\ d \in AnyCell /\ c \in Linked0 /\ c \in Nodes /\ d \in Targets
      /\ v.level <= top_level[c] /\ v.level <= top_level[d] /\ c \in AnyCell
  BY <1>1, <1>2, HereFacts DEF PlaceOK, HeapFacts
<1>4. /\ w \in Locs /\ w.curr = d /\ w.pred = c /\ w.level = v.level /\ w.op = v.op
      /\ w.key = v.key /\ w.preds = v.preds /\ w.succs = v.succs
      /\ w.cell = v.cell /\ w.up = v.up /\ w.res = v.res /\ w.data = v.data
  BY <1>1, <1>3 DEF Locs
<1>5. PlaceOK(p, "next", w)
  BY <1>1, <1>2, <1>3, <1>4, VisibleLinked, GapNow DEF PlaceOK
<1>6. FollowOK("next", w)
  BY <1>1, <1>2, <1>3, <1>4, LinkedAhead, FromNext DEF Watched, Heap, HeapInv, AheadInv,
     FollowOK
<1>7. CallAt(p, "next", w)
  BY <1>4, <1>5, <1>6 DEF CallAt, Searching, SearchOK, FindOK, OwnOK, Passed
<1>8. w.res \in Results(w.op) /\ "next" \in PcOf(w.op)
  BY <1>4, PcIs, LocsOf DEF CallType, Searching
<1>9. loc' = [loc EXCEPT ![p] = w] /\ pc[p] # "idle" /\ ~FreshStart(p)
      /\ pc' = [pc EXCEPT ![p] = "next"]
  BY <1>1, Unmoved DEF FreshStart, Core
<1> QED
  BY <1>4, <1>7, <1>8, <1>9, QuietMove DEF Moved

HereAt(v) == [v EXCEPT !.preds[v.level] = v.pred, !.succs[v.level] = v.curr]

LEMMA HereIs ==
    ASSUME NEW v \in Locs
    PROVE  /\ HereAt(v) \in Locs
           /\ HereAt(v).preds[v.level] = v.pred /\ HereAt(v).succs[v.level] = v.curr
           /\ \A m \in Level : m # v.level =>
                 HereAt(v).preds[m] = v.preds[m] /\ HereAt(v).succs[m] = v.succs[m]
           /\ HereAt(v).curr = v.curr /\ HereAt(v).pred = v.pred /\ HereAt(v).level = v.level
           /\ HereAt(v).op = v.op /\ HereAt(v).key = v.key /\ HereAt(v).cell = v.cell
           /\ HereAt(v).up = v.up /\ HereAt(v).res = v.res /\ HereAt(v).data = v.data
BY LocsOf DEF Locs, HereAt

\* At every level that has been passed, and now at this one.
LEMMA HerePassed ==
    ASSUME Core, NEW p \in Proc, NEW v, NextFacts(p, v), ~(key[v.curr] < v.key)
    PROVE  \A m \in Level : m >= v.level => Passed(HereAt(v), m)
<1> USE Constants DEF NextFacts
<1>1. PICK h : h = HereAt(v)
  OBVIOUS
<1>2. /\ h.preds[v.level] = v.pred /\ h.succs[v.level] = v.curr /\ h.key = v.key
      /\ \A m \in Level : m # v.level => h.preds[m] = v.preds[m] /\ h.succs[m] = v.succs[m]
  BY <1>1, HereIs
<1>3. /\ v.level \in Level /\ v.level \in Nat /\ v.key \in Nat /\ v.curr \in AnyCell
      /\ key[v.curr] \in Nat
  BY LocsOf, CoreHeap DEF HeapFacts
<1>4. Passed(h, v.level)
  BY <1>2, <1>3 DEF Passed, PlaceOK
<1>5. ASSUME NEW m \in Level, m > v.level PROVE Passed(h, m)
  BY <1>2, <1>3, <1>5 DEF Passed
<1> QED
  BY <1>1, <1>3, <1>4, <1>5

LEMMA FindNextDown ==
    ASSUME Core, NEW p \in Proc, NEW v, NextFacts(p, v), ~Marked(v.curr, v.level),
           ~(key[v.curr] < v.key), v.level > 0, pc' = [pc EXCEPT ![p] = "load"],
           loc' = [loc EXCEPT ![p] = [HereAt(v) EXCEPT !.level = @ - 1]]
    PROVE  Moved(p)
<1> USE Constants DEF NextFacts
<1>1. PICK h, w : h = HereAt(v) /\ w = [h EXCEPT !.level = h.level - 1]
  OBVIOUS
<1>2. /\ Heap /\ v.level \in Level /\ v.level \in Nat /\ v.key \in Key /\ HeapFacts /\ ListFacts
      /\ v.level - 1 \in Level
  BY CoreHeap, LocsOf DEF Level
<1>3. /\ h \in Locs /\ h.preds[v.level] = v.pred /\ h.succs[v.level] = v.curr
      /\ \A m \in Level : m # v.level => h.preds[m] = v.preds[m] /\ h.succs[m] = v.succs[m]
      /\ h.curr = v.curr /\ h.pred = v.pred /\ h.level = v.level
      /\ h.op = v.op /\ h.key = v.key /\ h.cell = v.cell
      /\ h.up = v.up /\ h.res = v.res /\ h.data = v.data
  BY <1>1, HereIs
<1>4. /\ w \in Locs /\ w.curr = v.curr /\ w.pred = v.pred /\ w.level = v.level - 1 /\ w.op = v.op
      /\ w.key = v.key /\ w.preds = h.preds /\ w.succs = h.succs
      /\ w.cell = v.cell /\ w.up = v.up /\ w.res = v.res /\ w.data = v.data
  BY <1>1, <1>2, <1>3 DEF Locs
<1>5. \A m \in Level : m > w.level => Passed(w, m)
  BY <1>1, <1>2, <1>3, <1>4, HerePassed DEF Passed
<1>6. PlaceOK(p, "load", w)
  BY <1>2, <1>4, LocsOf DEF HeapFacts, PlaceOK
<1>7. FollowOK("load", w)
  <2> SUFFICES ASSUME NEW d \in Watched(w) PROVE d \in From(v.pred, 0)
    BY <1>4 DEF FollowOK
  <2>1. CASE d \in Watched(v)
    BY <2>1 DEF FollowOK
  <2>2. CASE d \notin Watched(v)
    BY <1>2, <1>3, <1>4, <2>2 DEF Watched, FollowOK, PlaceOK
  <2> QED
    BY <2>1, <2>2
<1>8. CallAt(p, "load", w)
  BY <1>4, <1>5, <1>6, <1>7 DEF CallAt, Searching, SearchOK, FindOK, OwnOK
<1>9. w.res \in Results(w.op) /\ "load" \in PcOf(w.op)
  BY <1>4, PcIs, LocsOf DEF CallType, Searching
<1>10. loc' = [loc EXCEPT ![p] = w] /\ pc[p] # "idle" /\ ~FreshStart(p)
  BY <1>1 DEF FreshStart
<1> QED
  BY <1>4, <1>8, <1>9, <1>10, QuietMove DEF Moved

\* The search is over, at the lowest level.
FoundFacts(p, v, h) ==
    /\ NextFacts(p, v) /\ v.level = 0 /\ ~Marked(v.curr, 0) /\ ~(key[v.curr] < v.key)
    /\ h = HereAt(v)

LEMMA FoundIs ==
    ASSUME Core, NEW p \in Proc, NEW v, NEW h, FoundFacts(p, v, h)
    PROVE  /\ h \in Locs /\ h.op = v.op /\ h.key = v.key /\ h.cell = v.cell /\ h.up = v.up
           /\ h.res = v.res /\ h.data = v.data /\ h.succs[0] = v.curr
           /\ \A m \in Level : Passed(h, m)
           /\ FindOK(v) /\ v \in Locs /\ h.level = 0
           /\ key[v.curr] # v.key => Absent \in seen[p][v.key]
           /\ key[v.curr] # v.key /\ v.op = "insert" => \A m \in Level : Beyond(h, m)
           /\ key[v.curr] = v.key => v.curr \in Listed
           /\ v.curr \in AnyCell
<1> USE Constants DEF FoundFacts, NextFacts
<1>1. /\ Heap /\ v.key \in Key /\ v.key \in Nat /\ HeapFacts /\ ListFacts /\ v.curr \in AnyCell
      /\ key[v.curr] \in Nat /\ v.curr \in Targets /\ v.pred \in AnyCell /\ key[v.pred] \in Nat
  BY CoreHeap, LocsOf DEF PlaceOK, HeapFacts
<1>2. /\ h \in Locs /\ h.op = v.op /\ h.key = v.key /\ h.cell = v.cell /\ h.up = v.up
      /\ h.res = v.res /\ h.data = v.data /\ h.succs[0] = v.curr /\ h.level = 0
      /\ \A m \in Level : m # 0 => h.preds[m] = v.preds[m] /\ h.succs[m] = v.succs[m]
  BY HereIs
<1>3. \A m \in Level : Passed(h, m)
  BY HerePassed
<1>4. key[v.curr] = v.key => v.curr \in Listed
  BY <1>1 DEF HeapFacts, Targets
<1>5. ASSUME key[v.curr] # v.key
      PROVE  Absent \in seen[p][v.key] /\ (v.op = "insert" => \A m \in Level : Beyond(h, m))
  <2>1. v.key < key[v.curr] /\ key[v.pred] < v.key
    BY <1>1, <1>5 DEF PlaceOK
  <2>2. Absent \in seen[p][v.key]
    BY <1>1, <2>1 DEF PlaceOK, GapSeen
  <2>3. ASSUME v.op = "insert", NEW m \in Level, m > 0, ~(v.key < key[h.succs[m]]) PROVE Marked(h.succs[m], m)
    <3>1. PICK d : d = h.succs[m]
      OBVIOUS
    <3>2. d \in Targets /\ v.key <= key[d] /\ m <= top_level[d] /\ d \in AnyCell
      BY <1>1, <1>2, <1>3, <3>1 DEF Passed, HeapFacts
    <3>3. key[d] = v.key /\ d \in Listed /\ d \in used
      <4>1. key[d] \in Nat /\ ~(v.key < key[d])
        BY <1>1, <2>3, <3>1, <3>2 DEF HeapFacts
      <4>2. key[d] = v.key
        BY <1>1, <3>2, <4>1
      <4> QED
        BY <1>1, <3>2, <4>2 DEF HeapFacts, Targets
    <3>4. d \notin Linked0
      <4> SUFFICES ASSUME d \in Linked0 PROVE FALSE
        OBVIOUS
      <4>1. d \in Watched(v)
        BY <1>2, <2>3, <3>1, <3>3 DEF Watched
      <4>2. d = v.curr \/ d \in From(v.curr, 0)
        BY <4>1 DEF FollowOK
      <4>3. v.curr = Tail \/ v.curr \in used
        BY <1>1 DEF Targets, HeapFacts
      <4>4. d \in From(v.curr, 0) => key[v.curr] < key[d]
        BY <1>1, <4>3, TailEnd DEF ListFacts
      <4> QED
        BY <1>1, <2>1, <3>3, <4>2, <4>4
    <3>5. Marked(d, 0)
      BY <1>1, <3>3, <3>4 DEF Heap, HeapInv, LiveInv
    <3> QED
      BY <1>1, <2>3, <3>1, <3>2, <3>3, <3>5 DEF Heap, HeapInv, MarksInv
  <2>4. v.op = "insert" => \A m \in Level : Beyond(h, m)
    BY <1>2, <2>1, <2>3 DEF Beyond
  <2> QED
    BY <2>2, <2>4
<1> QED
  BY <1>1, <1>2, <1>3, <1>4, <1>5

ReturnFacts(p, v, at, w) ==
    /\ w \in Locs /\ w.op = v.op /\ w.data = v.data /\ w.res \in Results(w.op)
    /\ at \in PcOf(w.op) /\ ~(at = "link" /\ w.up = 0) /\ CallAt(p, at, w)
    /\ pc' = [pc EXCEPT ![p] = at] /\ loc' = [loc EXCEPT ![p] = w]

LEMMA ForgetIs ==
    ASSUME NEW v \in Locs
    PROVE  /\ Forget(v) \in Locs /\ ForgetAll(v) \in Locs
           /\ Forget(v).op = v.op /\ Forget(v).key = v.key /\ Forget(v).data = v.data
           /\ Forget(v).preds = v.preds /\ Forget(v).succs = v.succs /\ Forget(v).cell = v.cell
           /\ Forget(v).up = v.up /\ Forget(v).res = v.res
           /\ ForgetAll(v).op = v.op /\ ForgetAll(v).key = v.key /\ ForgetAll(v).data = v.data
           /\ ForgetAll(v).cell = v.cell /\ ForgetAll(v).up = v.up /\ ForgetAll(v).res = v.res
<1>1. /\ Forget(v) \in Locs /\ Forget(v).op = v.op /\ Forget(v).key = v.key
      /\ Forget(v).data = v.data
      /\ Forget(v).preds = v.preds /\ Forget(v).succs = v.succs /\ Forget(v).cell = v.cell
      /\ Forget(v).up = v.up /\ Forget(v).res = v.res
  BY Constants DEF Locs, Forget
<1>2. PICK f : f = Forget(v)
  OBVIOUS
<1>3. ForgetAll(v) = [f EXCEPT !.preds = [l \in Level |-> Head], !.succs = [l \in Level |-> Head]]
  BY <1>2 DEF ForgetAll
<1>4. [l \in Level |-> Head] \in [Level -> AnyCell]
  BY Constants
<1>5. f \in Locs
  BY <1>1, <1>2
<1>6. /\ ForgetAll(v) \in Locs
      /\ ForgetAll(v).op = f.op /\ ForgetAll(v).key = f.key /\ ForgetAll(v).data = f.data
      /\ ForgetAll(v).cell = f.cell /\ ForgetAll(v).up = f.up /\ ForgetAll(v).res = f.res
  BY <1>3, <1>4, <1>5 DEF Locs
<1> QED
  BY <1>1, <1>2, <1>6

LEMMA FindReturnInsert ==
    ASSUME Core, NEW p \in Proc, NEW v, NEW h, FoundFacts(p, v, h), h.op = "insert",
           Set(p, Forget(h)),
           Goto(p, IF h.cell # None THEN "link" ELSE IF key[v.curr] = v.key THEN "update" ELSE "alloc")
    PROVE  \E at, w : ReturnFacts(p, v, at, w)
<1>1. PICK w, at : /\ w = Forget(h)
                   /\ at = IF h.cell # None THEN "link"
                           ELSE IF key[v.curr] = v.key THEN "update" ELSE "alloc"
  OBVIOUS
<1>2. /\ h \in Locs /\ h.op = v.op /\ h.key = v.key /\ h.cell = v.cell /\ h.up = v.up
      /\ h.res = v.res /\ h.data = v.data /\ h.succs[0] = v.curr
      /\ \A m \in Level : Passed(h, m)
      /\ FindOK(v) /\ v \in Locs
      /\ key[v.curr] # v.key => \A m \in Level : Beyond(h, m)
      /\ key[v.curr] = v.key => v.curr \in Listed
  BY FoundIs
<1>3. /\ w \in Locs /\ w.op = v.op /\ w.key = v.key /\ w.data = v.data
      /\ w.preds = h.preds /\ w.succs = h.succs /\ w.cell = v.cell
      /\ w.up = v.up /\ w.res = v.res
  BY <1>1, <1>2, ForgetIs
<1>4. w.res \in Results(w.op) /\ at \in PcOf(w.op)
  BY <1>1, <1>2, <1>3 DEF FoundFacts, NextFacts, CallType, PcOf
<1>5. \A m \in Level : Passed(w, m) /\ (Beyond(h, m) => Beyond(w, m))
  BY <1>2, <1>3 DEF Passed, Beyond
<1>6. CASE at = "link"
  <2>1. OwnOK(w) /\ w.up # 0
    BY <1>1, <1>2, <1>3, <1>6 DEF FindOK, OwnOK
  <2>2. CallAt(p, "link", w)
    BY <1>5, <2>1 DEF CallAt, LinkOK, Searching
  <2> QED
    BY <1>1, <1>3, <1>4, <1>6, <2>1, <2>2 DEF ReturnFacts, Set, Goto
<1>7. CASE at = "update"
  BY <1>1, <1>2, <1>3, <1>4, <1>7 DEF UpdateOK, FoundFacts, CallAt, Searching,
     ReturnFacts, Set, Goto
<1>8. CASE at = "alloc"
  BY <1>1, <1>2, <1>3, <1>4, <1>5, <1>8 DEF AllocOK, CallAt, Searching, ReturnFacts, Set,
     Goto
<1> QED
  BY <1>1, <1>6, <1>7, <1>8

LEMMA FindReturnCell ==
    ASSUME Core, NEW p \in Proc, NEW v, NEW h, FoundFacts(p, v, h), h.op = "remove",
           h.cell = None, key[v.curr] = v.key, Goto(p, "extract"),
           Set(p, [ForgetAll(h) EXCEPT !.cell = h.succs[0], !.up = FirstMarked(h.succs[0])])
    PROVE  \E at, w : ReturnFacts(p, v, at, w)
<1>1. PICK w, f, c : /\ f = ForgetAll(h) /\ c = v.curr
                     /\ w = [f EXCEPT !.cell = c, !.up = top_level[c]]
  OBVIOUS
<1>2. /\ h \in Locs /\ h.op = v.op /\ h.key = v.key
      /\ h.res = v.res /\ h.data = v.data /\ h.succs[0] = c
      /\ v \in Locs /\ c \in Listed /\ c \in AnyCell
  BY <1>1, FoundIs
<1>3. /\ f \in Locs /\ f.op = v.op /\ f.key = v.key /\ f.data = v.data /\ f.res = v.res
  BY <1>1, <1>2, ForgetIs
<1>4. top_level[c] \in Level /\ top_level[c] \in Nat
  BY <1>2, CoreHeap DEF HeapFacts
<1>5. /\ w \in Locs /\ w.op = v.op /\ w.key = v.key /\ w.data = v.data /\ w.res = v.res
      /\ w.cell = c /\ w.up = top_level[c]
  BY <1>1, <1>2, <1>3, <1>4 DEF Locs
<1>6. w.res \in Results(w.op) /\ "extract" \in PcOf(w.op)
  BY <1>2, <1>5 DEF FoundFacts, NextFacts, CallType, PcOf
<1>7. ExtractOK(p, "extract", w)
  BY <1>1, <1>2, <1>4, <1>5, Constants DEF ExtractOK, FoundFacts
<1>8. CallAt(p, "extract", w)
  BY <1>7 DEF CallAt, Searching
<1>9. loc' = [loc EXCEPT ![p] = w] /\ pc' = [pc EXCEPT ![p] = "extract"]
  BY <1>1, <1>2 DEF Set, Goto, FirstMarked
<1> QED
  BY <1>5, <1>6, <1>8, <1>9 DEF ReturnFacts

LEMMA FindReturnDone ==
    ASSUME Core, NEW p \in Proc, NEW v, NEW h, FoundFacts(p, v, h), h.op = "remove",
           Goto(p, "return"),
           Set(p, [ForgetAll(h) EXCEPT !.res = IF h.cell # None THEN 1 ELSE 0, !.cell = None])
    PROVE  \E at, w : ReturnFacts(p, v, at, w)
<1>1. PICK w, f, r : /\ f = ForgetAll(h) /\ r = IF h.cell # None THEN 1 ELSE 0
                     /\ w = [f EXCEPT !.res = r, !.cell = None]
  OBVIOUS
<1>2. h \in Locs /\ h.op = v.op /\ h.data = v.data
  BY FoundIs
<1>3. f \in Locs /\ f.op = v.op /\ f.data = v.data
  BY <1>1, <1>2, ForgetIs
<1>5. w \in Locs /\ w.op = v.op /\ w.data = v.data /\ w.res \in {0, 1}
  BY <1>1, <1>3 DEF Res, Locs
<1>6. w.res \in Results(w.op) /\ "return" \in PcOf(w.op)
  BY <1>2, <1>5 DEF Results, PcOf
<1>8. CallAt(p, "return", w)
  BY DEF CallAt, Searching
<1>9. loc' = [loc EXCEPT ![p] = w] /\ pc' = [pc EXCEPT ![p] = "return"]
  BY <1>1, <1>2 DEF Set, Goto
<1> QED
  BY <1>5, <1>6, <1>8, <1>9 DEF ReturnFacts

LEMMA FindNextOK ==
    ASSUME Core, NEW p \in Proc, FindNext(p)
    PROVE  Moved(p)
<1>1. PICK v : v = loc[p]
  OBVIOUS
<1>2. NextFacts(p, v)
  <2>1. Keeps /\ pc[p] = "next"
    BY DEF FindNext, Keeps, cells, history
  <2> QED
    BY <1>1, <2>1, SearchFacts DEF NextFacts, CallOK, CallAt, Searching, SearchOK
<1>3. CASE Marked(v.curr, v.level)
  BY <1>1, <1>2, <1>3, FindNextMarked DEF FindNext, Set, Goto
<1>4. CASE ~Marked(v.curr, v.level) /\ key[v.curr] < v.key
  BY <1>1, <1>2, <1>4, FindNextAdvance DEF FindNext, Before, Set
<1>5. CASE ~Marked(v.curr, v.level) /\ ~(key[v.curr] < v.key)
  <2>1. \/ v.level > 0 /\ Set(p, [HereAt(v) EXCEPT !.level = @ - 1]) /\ Goto(p, "load")
        \/ v.level = 0 /\ FindReturn(p, HereAt(v), key[v.curr] = v.key)
    BY <1>1, <1>5 DEF FindNext, Before, HereAt
  <2>2. CASE v.level > 0 /\ Set(p, [HereAt(v) EXCEPT !.level = @ - 1]) /\ Goto(p, "load")
    BY <1>2, <1>5, <2>2, FindNextDown DEF Set, Goto
  <2>3. CASE v.level = 0 /\ FindReturn(p, HereAt(v), key[v.curr] = v.key)
    <3>1. PICK h : h = HereAt(v)
      OBVIOUS
    <3>2. FoundFacts(p, v, h)
      BY <1>2, <1>5, <2>3, <3>1 DEF FoundFacts
    <3>4. \E at, w : ReturnFacts(p, v, at, w)
      BY <2>3, <3>1, <3>2, FindReturnInsert, FindReturnCell, FindReturnDone DEF FindReturn
    <3>5. PICK at, w : ReturnFacts(p, v, at, w)
      BY <3>4
    <3>6. pc[p] # "idle" /\ Keeps /\ ~FreshStart(p)
      BY <1>2 DEF NextFacts, FreshStart
    <3> QED
      BY <1>1, <3>5, <3>6, QuietMove DEF ReturnFacts, Moved
  <2> QED
    BY <2>1, <2>2, <2>3
<1> QED
  BY <1>3, <1>4, <1>5

\* A search that has met a marked cell.
LEMMA MetFacts ==
    ASSUME Core, NEW p \in Proc, pc[p] \in {"snip", "claim", "push", "publish"}
    PROVE  /\ loc[p] \in Locs /\ loc[p].curr \in Listed /\ loc[p].curr \in used
           /\ loc[p].curr \in Cell /\ loc[p].curr \in AnyCell
           /\ loc[p].level \in Level /\ loc[p].level <= top_level[loc[p].curr]
           /\ Marked(loc[p].curr, loc[p].level)
           /\ SearchOK(p, pc[p], loc[p]) /\ FindOK(loc[p]) /\ CallType(p)
BY SearchFacts, LocsOf, CoreHeap, HereFacts DEF Searching, CallOK, CallAt, SearchOK,
   PlaceOK, Targets, HeapFacts

\* It goes on at the same place.
LEMMA MetStep ==
    ASSUME Core, NEW p \in Proc, pc[p] \in {"claim", "push", "publish"},
           NEW at \in {"claim", "push", "publish", "load"},
           pc' = [pc EXCEPT ![p] = at], loc' = loc, GarbageTypes',
           UNCHANGED <<used, key, top_level, data, forward, profile, seen, gone>>,
           \A c \in used : c # loc[p].curr => garbage_next'[c] = garbage_next[c]
    PROVE  Moved(p)
<1>1. PICK v : v = loc[p]
  OBVIOUS
<1>2. /\ v \in Locs /\ SearchOK(p, pc[p], v) /\ FindOK(v) /\ CallType(p) /\ v.curr \in Listed
  BY <1>1, MetFacts
<1>3. PlaceOK(p, at, v) /\ FollowOK(at, v)
  BY <1>2 DEF SearchOK, PlaceOK, FollowOK
<1>4. CallAt(p, at, v)
  BY <1>2, <1>3 DEF CallAt, Searching, SearchOK
<1>5. v.res \in Results(v.op) /\ at \in PcOf(v.op)
  BY <1>1, <1>2, PcIs, LocsOf DEF CallType, Searching
<1>6. loc' = [loc EXCEPT ![p] = v]
  BY <1>1 DEF Core, CallTypes
<1>7. pc[p] # "idle" /\ ~FreshStart(p) /\ profile' = profile
      /\ UNCHANGED <<used, key, top_level, data, forward>> /\ UNCHANGED <<seen, gone>>
  BY DEF FreshStart
<1>8. \A c \in used \ Listed : garbage_next'[c] = garbage_next[c]
  BY <1>1, <1>2
<1>9. v.op = loc[p].op /\ v.data = loc[p].data /\ ~(at = "link" /\ v.up = 0)
  BY <1>1
<1> QED
  BY <1>2, <1>4, <1>5, <1>6, <1>7, <1>8, <1>9, QuietStep DEF Moved

LEMMA FindClaimOK ==
    ASSUME Core, NEW p \in Proc, FindClaim(p)
    PROVE  Moved(p)
<1>1. pc[p] = "claim" /\ loc' = loc
  BY DEF FindClaim
<1>2. loc[p].curr \in AnyCell /\ garbage_next \in [AnyCell -> AnyCell \cup {None, One}]
  BY <1>1, MetFacts DEF Core, GarbageTypes
<1>3. GarbageTypes' /\ \A c \in used : c # loc[p].curr => garbage_next'[c] = garbage_next[c]
  BY <1>2, CoreHeap, Constants DEF HeapFacts, FindClaim, GarbageTypes, Core
<1>4. PICK at \in {"push", "load"} : pc' = [pc EXCEPT ![p] = at]
  BY DEF FindClaim, Goto
<1> QED
  BY <1>1, <1>3, <1>4, MetStep DEF FindClaim, cells, history

LEMMA FindPushOK ==
    ASSUME Core, NEW p \in Proc, FindPush(p)
    PROVE  Moved(p)
BY MetFacts, CoreHeap, Constants, MetStep DEF FindPush, Goto, Core, GarbageTypes,
   HeapFacts, cells, history

LEMMA FindPublishOK ==
    ASSUME Core, NEW p \in Proc, FindPublish(p)
    PROVE  Moved(p)
<1>1. pc[p] = "publish" /\ loc' = loc
  BY DEF FindPublish
<1>2. loc[p].curr \in AnyCell
  BY <1>1, MetFacts
<1>3. GarbageTypes' /\ \A c \in used : c # loc[p].curr => garbage_next'[c] = garbage_next[c]
  BY <1>2 DEF GarbageTypes, Core, FindPublish
<1>4. PICK at \in {"push", "load"} : pc' = [pc EXCEPT ![p] = at]
  BY DEF FindPublish, Goto
<1> QED
  BY <1>1, <1>3, <1>4, MetStep DEF FindPublish, cells, history

-----------------------------------------------------------------------------
(* lf_skiplist_lookup *)
LEMMA LookupStartOK ==
    ASSUME Core, NEW p \in Proc, LookupStart(p)
    PROVE  Moved(p)
<1> USE Constants
<1>1. PICK v : v = loc[p]
  OBVIOUS
<1>2. PICK w : w = [v EXCEPT !.level = search_level]
  OBVIOUS
<1>3. /\ pc[p] = "lookup" /\ v \in Locs /\ CallAt(p, "lookup", v) /\ CallType(p)
      /\ pc' = [pc EXCEPT ![p] = "enter"] /\ loc' = [loc EXCEPT ![p] = w]
  BY <1>1, <1>2, SearchFacts DEF LookupStart, Goto, Set, CallOK
<1>4. /\ w \in Locs /\ w.pred = v.pred /\ w.level = search_level /\ w.op = v.op /\ w.key = v.key
      /\ w.res = v.res /\ w.data = v.data /\ search_level \in Level
  BY <1>2, <1>3 DEF Locs, Core, GarbageTypes
<1>5. Heap /\ HeapFacts
  BY CoreHeap
<1>6. LookupOK(p, "enter", w)
  BY <1>3, <1>4, <1>5, VisibleLinked, LocsOf DEF LookupOK, HeapFacts, Nodes, CallAt
<1>8. CallAt(p, "enter", w)
  BY <1>6 DEF CallAt, Searching
<1> QED
  <2>1. w.res \in Results(w.op) /\ "enter" \in PcOf(w.op)
    BY <1>1, <1>3, <1>4, PcIs, LocsOf DEF CallType
  <2>2. Keeps /\ ~FreshStart(p)
    BY <1>3 DEF LookupStart, cells, history, Keeps, FreshStart
  <2> QED
    BY <1>1, <1>3, <1>4, <1>8, <2>1, <2>2, QuietMove DEF Moved

LEMMA LookupEnterOK ==
    ASSUME Core, NEW p \in Proc, LookupEnter(p)
    PROVE  Moved(p)
<1> USE Constants
<1>1. PICK v, c : v = loc[p] /\ c = Ptr(v.pred, v.level)
  OBVIOUS
<1>2. PICK w : w = [v EXCEPT !.curr = c]
  OBVIOUS
<1>3. /\ pc[p] = "enter" /\ v \in Locs /\ CallAt(p, "enter", v) /\ CallType(p)
      /\ pc' = [pc EXCEPT ![p] = "walk"] /\ loc' = [loc EXCEPT ![p] = w]
  BY <1>1, <1>2, SearchFacts DEF LookupEnter, Goto, Set, CallOK
<1>4. Heap /\ HeapFacts
  BY CoreHeap
<1>5. LookupOK(p, "enter", v)
  BY <1>3 DEF CallAt
<1>6. c \in Targets /\ v.level <= top_level[c] /\ c \in AnyCell
  BY <1>1, <1>3, <1>4, <1>5, LocsOf DEF LookupOK, Heap, HeapInv, PointerInv, HeapFacts
<1>7. /\ w \in Locs /\ w.curr = c /\ w.pred = v.pred /\ w.level = v.level /\ w.op = v.op
      /\ w.key = v.key /\ w.res = v.res /\ w.data = v.data
  BY <1>2, <1>3, <1>6 DEF Locs
<1>8. LookupOK(p, "walk", w)
  BY <1>1, <1>3, <1>4, <1>5, <1>6, <1>7, VisibleNext DEF LookupOK, Core
<1>10. CallAt(p, "walk", w)
  BY <1>8 DEF CallAt, Searching
<1> QED
  <2>1. w.res \in Results(w.op) /\ "walk" \in PcOf(w.op)
    BY <1>1, <1>3, <1>7, PcIs, LocsOf DEF CallType
  <2>2. Keeps /\ ~FreshStart(p)
    BY <1>3 DEF LookupEnter, cells, history, Keeps, FreshStart
  <2> QED
    BY <1>1, <1>3, <1>7, <1>10, <2>1, <2>2, QuietMove DEF Moved

WalkFacts(p, v) ==
    /\ pc[p] = "walk" /\ v = loc[p] /\ v \in Locs /\ CallType(p) /\ Keeps
    /\ LookupOK(p, "walk", v)

LEMMA WalkStep ==
    ASSUME Core, NEW p \in Proc, NEW v, WalkFacts(p, v), NEW at \in {"walk", "enter", "read", "return"},
           NEW w \in Locs, w.op = v.op, w.data = v.data, w.res = v.res, CallAt(p, at, w),
           pc' = [pc EXCEPT ![p] = at], loc' = [loc EXCEPT ![p] = w]
    PROVE  Moved(p)
<1>1. w.res \in Results(w.op) /\ at \in PcOf(w.op)
  BY PcIs, LocsOf DEF CallType, WalkFacts
<1>2. pc[p] # "idle" /\ Keeps /\ ~FreshStart(p) /\ ~(at = "link" /\ w.up = 0)
  BY DEF WalkFacts, FreshStart
<1> QED
  BY <1>1, <1>2, QuietMove DEF Moved, WalkFacts

LEMMA LookupWalkMarked ==
    ASSUME Core, NEW p \in Proc, NEW v, WalkFacts(p, v), Marked(v.curr, v.level), pc' = pc,
           loc' = [loc EXCEPT ![p] = [v EXCEPT !.curr = Ptr(v.curr, v.level)]]
    PROVE  Moved(p)
<1> USE Constants DEF WalkFacts
<1>1. PICK w, c, d : c = v.curr /\ d = Ptr(c, v.level) /\ w = [v EXCEPT !.curr = d]
  OBVIOUS
<1>2. /\ Heap /\ v.level \in Level /\ v.key \in Key /\ HeapFacts /\ SeenInv /\ pc[p] # "idle"
      /\ c \in Targets /\ v.level <= top_level[c] /\ v.pred \in Nodes
  BY <1>1, CoreHeap, LocsOf DEF Core, LookupOK
<1>3. /\ c \in Listed /\ c \in Nodes /\ d \in Targets /\ d \in AnyCell
      /\ v.level <= top_level[d] /\ key[c] \in Key /\ c \in Cell
  BY <1>1, <1>2, HereFacts DEF HeapFacts
<1>4. /\ w \in Locs /\ w.curr = d /\ w.pred = v.pred /\ w.level = v.level /\ w.op = v.op
      /\ w.key = v.key /\ w.res = v.res /\ w.data = v.data
  BY <1>1, <1>3 DEF Locs
<1>5. ASSUME v.level = 0
      PROVE  GapSeen(p, key[v.pred], key[d]) /\ Visible(p, d)
  BY <1>1, <1>2, <1>3, <1>5, VisibleNext, GoneWhenUnlinked DEF LookupOK, Visible,
     WasGone, GapSeen
<1>6. LookupOK(p, "walk", w)
  BY <1>3, <1>4, <1>5 DEF LookupOK
<1>7. CallAt(p, "walk", w)
  BY <1>6 DEF CallAt, Searching
<1>8. loc' = [loc EXCEPT ![p] = w] /\ pc' = [pc EXCEPT ![p] = "walk"]
  BY <1>1, Unmoved DEF Core
<1> QED
  BY <1>4, <1>7, <1>8, WalkStep

\* The data of a cell that is in the dictionary.
LEMMA DataNow ==
    ASSUME Core, NEW p \in Proc, pc[p] # "idle", NEW c \in Listed, ~Marked(c, 0)
    PROVE  DataSeen(p, c)
BY CoreHeap DEF HeapFacts, DictFacts, DataSeen, Core, SeenInv, SeenOK

LEMMA LookupWalkAdvance ==
    ASSUME Core, NEW p \in Proc, NEW v, WalkFacts(p, v), ~Marked(v.curr, v.level),
           key[v.curr] < v.key, pc' = pc,
           loc' = [loc EXCEPT ![p] = [v EXCEPT !.pred = v.curr, !.curr = Ptr(v.curr, v.level)]]
    PROVE  Moved(p)
<1> USE Constants DEF WalkFacts
<1>1. PICK w, c, d : c = v.curr /\ d = Ptr(c, v.level) /\ w = [v EXCEPT !.pred = c, !.curr = d]
  OBVIOUS
<1>2. /\ Heap /\ v.level \in Level /\ v.key \in Key /\ HeapFacts /\ SeenInv /\ pc[p] # "idle"
      /\ c \in Targets /\ v.level <= top_level[c]
  BY <1>1, CoreHeap, LocsOf DEF Core, LookupOK
<1>3. /\ c \in Linked0 /\ c \in Nodes /\ c \in Listed /\ d \in Targets /\ ~Marked(c, 0)
      /\ v.level <= top_level[d] /\ c \in AnyCell /\ d \in AnyCell
  BY <1>1, <1>2, HereFacts DEF HeapFacts
<1>4. /\ w \in Locs /\ w.curr = d /\ w.pred = c /\ w.level = v.level /\ w.op = v.op
      /\ w.key = v.key /\ w.res = v.res /\ w.data = v.data
  BY <1>1, <1>3 DEF Locs
<1>5. Visible(p, c) /\ DataSeen(p, c)
  BY <1>2, <1>3, VisibleLinked, DataNow
<1>6. v.level = 0 => GapSeen(p, key[c], key[d]) /\ Visible(p, d)
  BY <1>1, <1>2, <1>3, <1>5, VisibleNext
<1>7. LookupOK(p, "walk", w)
  BY <1>1, <1>2, <1>3, <1>4, <1>5, <1>6 DEF LookupOK
<1>8. CallAt(p, "walk", w)
  BY <1>7 DEF CallAt, Searching
<1>9. loc' = [loc EXCEPT ![p] = w] /\ pc' = [pc EXCEPT ![p] = "walk"]
  BY <1>1, Unmoved DEF Core
<1> QED
  BY <1>4, <1>8, <1>9, WalkStep

LEMMA LookupWalkDown ==
    ASSUME Core, NEW p \in Proc, NEW v, WalkFacts(p, v), v.level > 0,
           pc' = [pc EXCEPT ![p] = "enter"],
           loc' = [loc EXCEPT ![p] = [v EXCEPT !.level = @ - 1]]
    PROVE  Moved(p)
<1> USE Constants DEF WalkFacts
<1>1. PICK w : w = [v EXCEPT !.level = v.level - 1]
  OBVIOUS
<1>2. HeapFacts /\ v.level \in Level /\ v.level \in Nat /\ v.pred \in AnyCell
  BY CoreHeap, LocsOf
<1>3. v.level - 1 \in Level /\ top_level[v.pred] \in Nat
  BY <1>2 DEF Level, HeapFacts
<1>4. /\ w \in Locs /\ w.pred = v.pred /\ w.level = v.level - 1 /\ w.op = v.op
      /\ w.key = v.key /\ w.res = v.res /\ w.data = v.data
  BY <1>1, <1>3 DEF Locs
<1>5. v.level - 1 <= top_level[v.pred]
  BY <1>2, <1>3 DEF LookupOK
<1>6. LookupOK(p, "enter", w)
  BY <1>4, <1>5 DEF LookupOK
<1>7. CallAt(p, "enter", w)
  BY <1>6 DEF CallAt, Searching
<1> QED
  BY <1>1, <1>4, <1>7, WalkStep

\* What the walk has found when it ends.
LEMMA WalkEnd ==
    ASSUME Core, NEW p \in Proc, NEW v, WalkFacts(p, v), v.level = 0, ~Marked(v.curr, 0),
           ~(key[v.curr] < v.key)
    PROVE  /\ v.key \in Key /\ v.key \in Nat
           /\ key[v.curr] = v.key =>
                 /\ v.curr \in Listed /\ DataSeen(p, v.curr)
                 /\ GapSeen(p, key[v.curr], v.key + 1)
           /\ key[v.curr] # v.key =>
                 /\ Absent \in seen[p][v.key]
                 /\ GapSeen(p, key[v.pred], v.key + 1)
           /\ key[v.pred] < v.key
           /\ v.pred # Head => v.pred \in Listed /\ DataSeen(p, v.pred)
<1> USE Constants DEF WalkFacts
<1>1. /\ HeapFacts /\ v.key \in Key /\ v.key \in Nat /\ v.curr \in Targets /\ v.curr \in AnyCell
      /\ v.pred \in Nodes /\ v.pred \in AnyCell /\ key[v.pred] < v.key
      /\ GapSeen(p, key[v.pred], key[v.curr])
  BY CoreHeap, LocsOf DEF LookupOK
<1>2. key[v.curr] \in Nat /\ key[v.pred] \in Nat
  BY <1>1 DEF HeapFacts
<1>3. ASSUME key[v.curr] = v.key
      PROVE  /\ v.curr \in Listed /\ DataSeen(p, v.curr)
             /\ GapSeen(p, key[v.curr], v.key + 1)
  BY <1>1, <1>3, DataNow DEF HeapFacts, Targets, GapSeen
<1>4. ASSUME key[v.curr] # v.key
      PROVE  /\ Absent \in seen[p][v.key]
             /\ GapSeen(p, key[v.pred], v.key + 1)
  BY <1>1, <1>2, <1>4 DEF GapSeen
<1> QED
  BY <1>1, <1>3, <1>4 DEF LookupOK, Nodes

LEMMA LookupWalkReturn ==
    ASSUME Core, NEW p \in Proc, NEW v, WalkFacts(p, v), v.level = 0, ~Marked(v.curr, 0),
           ~(key[v.curr] < v.key), LookupReturn(p, v)
    PROVE  Moved(p)
<1> USE Constants DEF WalkFacts
<1>1. /\ v.key \in Key /\ v.key \in Nat
      /\ key[v.curr] = v.key =>
            /\ v.curr \in Listed /\ DataSeen(p, v.curr)
            /\ GapSeen(p, key[v.curr], v.key + 1)
      /\ key[v.curr] # v.key => GapSeen(p, key[v.pred], v.key + 1)
      /\ key[v.pred] < v.key
      /\ v.pred # Head => v.pred \in Listed /\ DataSeen(p, v.pred)
      /\ HeapFacts
  BY WalkEnd, CoreHeap
<1>2. PICK f : f = Forget(v)
  OBVIOUS
<1>3. /\ f \in Locs /\ f.op = v.op /\ f.key = v.key /\ f.data = v.data /\ f.res = v.res
  BY <1>2, ForgetIs
<1>4. CASE key[v.curr] = v.key \/ (v.op = "find_below" /\ v.pred # Head)
  <2>1. PICK c, w : /\ c = IF key[v.curr] = v.key THEN v.curr ELSE v.pred
                    /\ w = [f EXCEPT !.cell = c]
    OBVIOUS
  <2>2. /\ c \in Listed /\ DataSeen(p, c) /\ GapSeen(p, key[c], v.key + 1)
        /\ IF v.op = "find" THEN key[c] = v.key ELSE key[c] <= v.key
    BY <1>1, <1>4, <2>1 DEF HeapFacts
  <2>3. c \in AnyCell
    BY <1>1, <2>2 DEF HeapFacts
  <2>4. w \in Locs /\ w.op = v.op /\ w.key = v.key /\ w.data = v.data /\ w.res = v.res /\ w.cell = c
    BY <1>3, <2>1, <2>3 DEF Locs
  <2>5. ReadOK(p, w)
    BY <2>2, <2>4 DEF ReadOK
  <2>6. CallAt(p, "read", w)
    BY <2>5 DEF CallAt, Searching
  <2>7. loc' = [loc EXCEPT ![p] = w] /\ pc' = [pc EXCEPT ![p] = "read"]
    BY <1>2, <1>4, <2>1 DEF LookupReturn, Set, Goto
  <2> QED
    BY <2>4, <2>6, <2>7, WalkStep
<1>5. CASE ~(key[v.curr] = v.key \/ (v.op = "find_below" /\ v.pred # Head))
  BY <1>2, <1>3, <1>5, WalkStep DEF CallAt, Searching, LookupReturn, Set, Goto
<1> QED
  BY <1>4, <1>5

LEMMA LookupWalkOK ==
    ASSUME Core, NEW p \in Proc, LookupWalk(p)
    PROVE  Moved(p)
<1>1. PICK v : v = loc[p]
  OBVIOUS
<1>2. WalkFacts(p, v)
  BY <1>1, SearchFacts DEF LookupWalk, Keeps, cells, history, WalkFacts, CallOK, CallAt
<1>3. CASE Marked(v.curr, v.level)
  BY <1>1, <1>2, <1>3, LookupWalkMarked DEF LookupWalk, SkipMarked, SkipTo, Set
<1>4. CASE ~Marked(v.curr, v.level) /\ key[v.curr] < v.key
  BY <1>1, <1>2, <1>4, LookupWalkAdvance DEF LookupWalk, Before, SkipMarked, Set
<1>5. CASE ~Marked(v.curr, v.level) /\ ~(key[v.curr] < v.key)
  BY <1>1, <1>2, <1>5, LookupWalkDown, LookupWalkReturn DEF LookupWalk, Before,
     SkipMarked, Set, Goto
<1> QED
  BY <1>3, <1>4, <1>5

LEMMA ReadDataOK ==
    ASSUME Core, NEW p \in Proc, ReadData(p)
    PROVE  Moved(p)
<1>1. PICK v, d, r : /\ v = loc[p] /\ d = data[v.cell]
                     /\ r = IF v.op = "find" THEN d ELSE <<key[v.cell], d>>
  OBVIOUS
<1>2. PICK w : w = [v EXCEPT !.cell = None, !.res = r]
  OBVIOUS
<1>3. /\ pc[p] = "read" /\ v \in Locs /\ CallAt(p, "read", v) /\ CallType(p)
      /\ pc' = [pc EXCEPT ![p] = "return"] /\ loc' = [loc EXCEPT ![p] = w]
  BY <1>1, <1>2, SearchFacts DEF ReadData, Goto, Set, CallOK
<1>4. d \in Data /\ key[v.cell] \in Key /\ v.op \in {"find", "find_below"}
  BY <1>1, <1>3, CoreHeap, LocsOf, PcIs DEF CallAt, ReadOK, HeapFacts, CallType
<1>5. r \in Res /\ r \in Results(v.op)
  BY <1>1, <1>4 DEF Res, Results
<1>6. w \in Locs /\ w.op = v.op /\ w.data = v.data /\ w.res = r
  BY <1>2, <1>3, <1>5 DEF Locs
<1>7. CallAt(p, "return", w)
  BY DEF CallAt, Searching
<1>8. w.res \in Results(w.op) /\ "return" \in PcOf(w.op)
  BY <1>5, <1>6 DEF PcOf
<1>9. Keeps /\ ~FreshStart(p)
  BY <1>3 DEF ReadData, cells, history, Keeps, FreshStart
<1> QED
  BY <1>1, <1>3, <1>6, <1>7, <1>8, <1>9, QuietMove DEF Moved

-----------------------------------------------------------------------------
(* The quiet steps of caml_lf_skiplist_insert and _remove. *)
LEMMA InsertBumpOK ==
    ASSUME Core, NEW p \in Proc, InsertBump(p)
    PROVE  Moved(p)
<1>1. PICK v, w, at :
        /\ v = loc[p]
        /\ \/ at = "raise" /\ w = v
           \/ at = "return" /\ w = [v EXCEPT !.res = 1, !.cell = None, !.up = 0]
        /\ pc' = [pc EXCEPT ![p] = at] /\ loc' = [loc EXCEPT ![p] = w]
  BY DEF InsertBump, Goto, Set
<1>3. pc[p] = "bump" /\ v \in Locs /\ CallAt(p, "bump", v) /\ CallType(p)
  BY <1>1, SearchFacts DEF InsertBump, CallOK
<1>4. v.op = "insert" /\ v.res \in Results("insert")
  BY <1>1, <1>3, LocsOf, PcIs DEF CallType
<1>5. /\ w \in Locs /\ w.op = v.op /\ w.data = v.data /\ w.res \in Results("insert")
      /\ at = "raise" => w.cell = v.cell
  BY <1>1, <1>3, <1>4, Constants, ZenonT(60) DEF Locs, Res, Results
<1>6. CallAt(p, at, w)
  BY <1>1, <1>3, <1>5 DEF CallAt, Searching
<1>7. at \in PcOf(w.op)
  BY <1>1, <1>4, <1>5 DEF PcOf
<1>8. Keeps /\ ~FreshStart(p) /\ pc[p] # "idle" /\ ~(at = "link" /\ w.up = 0)
  BY <1>1, <1>3 DEF InsertBump, cells, history, Keeps, FreshStart
<1> QED
  BY <1>1, <1>4, <1>5, <1>6, <1>7, <1>8, QuietMove DEF Moved

LEMMA InsertRaiseOK ==
    ASSUME Core, NEW p \in Proc, InsertRaise(p)
    PROVE  Moved(p)
<1>1. PICK v, w : v = loc[p] /\ w = [v EXCEPT !.res = 1, !.cell = None, !.up = 0]
  OBVIOUS
<1>2. pc' = [pc EXCEPT ![p] = "return"] /\ loc' = [loc EXCEPT ![p] = w]
  BY <1>1 DEF InsertRaise, Goto, Set
<1>3. pc[p] = "raise" /\ v \in Locs /\ CallAt(p, "raise", v) /\ CallType(p)
  BY <1>1, SearchFacts DEF InsertRaise, CallOK
<1>4. v.op = "insert"
  BY <1>1, <1>3, LocsOf, PcIs DEF CallType
<1>5. w \in Locs /\ w.op = v.op /\ w.data = v.data /\ w.res \in Results("insert")
  BY <1>1, <1>3, <1>4, Constants DEF Locs, Res, Results
<1>6. CallAt(p, "return", w)
  BY DEF CallAt, Searching
<1>7. "return" \in PcOf(w.op)
  BY DEF PcOf
<1>8. ~FreshStart(p) /\ pc[p] # "idle"
  BY <1>3 DEF FreshStart
<1>9. GarbageTypes'
  BY <1>1, <1>3, CoreHeap DEF CallAt, HeapFacts, InsertRaise, NewSearchLevel, Core,
     GarbageTypes
<1>10. /\ UNCHANGED <<used, key, top_level, data, forward>> /\ profile' = profile
       /\ UNCHANGED <<seen, gone>> /\ garbage_next' = garbage_next
  BY DEF InsertRaise, cells, history
<1> QED
  BY <1>1, <1>2, <1>4, <1>5, <1>6, <1>7, <1>8, <1>9, <1>10, QuietStep DEF Moved

\* The cell that is being removed.
LEMMA ExtractFacts ==
    ASSUME Core, NEW p \in Proc, pc[p] \in {"extract", "mark", "lost"}
    PROVE  /\ loc[p] \in Locs /\ CallType(p) /\ loc[p].op = "remove"
           /\ ExtractOK(p, pc[p], loc[p]) /\ loc[p].cell \in Listed
           /\ loc[p].cell \in used /\ loc[p].cell \in Cell /\ loc[p].cell \in AnyCell
           /\ loc[p].cell \in Nodes
           /\ loc[p].up \in Level /\ loc[p].up \in Nat /\ loc[p].up <= top_level[loc[p].cell]
           /\ Ptr(loc[p].cell, loc[p].up) \in Targets /\ Ptr(loc[p].cell, loc[p].up) \in AnyCell
           /\ loc[p].up <= top_level[Ptr(loc[p].cell, loc[p].up)]
BY SearchFacts, LocsOf, PcIs, CoreHeap DEF CallOK, CallAt, ExtractOK, HeapFacts, Nodes,
   Heap, HeapInv, PointerInv

LEMMA RemoveExtractOK ==
    ASSUME Core, NEW p \in Proc, RemoveExtract(p)
    PROVE  Moved(p)
<1>1. PICK v, w, at :
        /\ v = loc[p]
        /\ \/ /\ at = "extract" /\ w = [v EXCEPT !.up = v.up - 1]
              /\ v.up > 0 /\ Marked(v.cell, v.up)
           \/ /\ at = "mark" /\ w = [v EXCEPT !.succ = Ptr(v.cell, v.up)]
        /\ pc' = [pc EXCEPT ![p] = at] /\ loc' = [loc EXCEPT ![p] = w]
  BY Unmoved DEF RemoveExtract, Set, Core, Goto
<1>3. /\ pc[p] = "extract" /\ v \in Locs /\ ExtractOK(p, "extract", v) /\ CallType(p)
      /\ v.op = "remove" /\ v.up \in Level /\ v.up \in Nat /\ v.up <= top_level[v.cell]
      /\ Ptr(v.cell, v.up) \in AnyCell /\ v.cell \in AnyCell
  BY <1>1, ExtractFacts DEF RemoveExtract
<1>4. CASE at = "extract"
  <2>1. v.up - 1 \in Level /\ v.up - 1 \in Nat
    BY <1>1, <1>3, <1>4, Constants DEF Level
  <2>2. /\ w \in Locs /\ w.op = v.op /\ w.data = v.data /\ w.res = v.res /\ w.up = v.up - 1
        /\ w.cell = v.cell /\ w.key = v.key
    BY <1>1, <1>3, <1>4, <2>1 DEF Locs
  <2>3. top_level[v.cell] \in Nat
    BY <1>3, CoreHeap DEF HeapFacts
  <2>4. v.up - 1 <= top_level[v.cell]
    BY <1>3, <2>1, <2>3
  <2>5. \A m \in Level : v.up - 1 < m => m = v.up \/ v.up < m
    BY <1>3, Constants
  <2>6. ExtractOK(p, at, w)
    BY <1>1, <1>3, <1>4, <2>2, <2>4, <2>5 DEF ExtractOK
  <2> QED
    <3>1. CallAt(p, at, w)
      BY <1>4, <2>6 DEF CallAt, Searching
    <3>2. w.res \in Results(w.op) /\ at \in PcOf(w.op)
      BY <1>1, <1>3, <1>4, <2>2 DEF CallType, PcOf
    <3>3. Keeps /\ ~FreshStart(p) /\ pc[p] # "idle" /\ ~(at = "link" /\ w.up = 0)
      BY <1>3, <1>4 DEF RemoveExtract, cells, history, Keeps, FreshStart
    <3> QED
      BY <1>1, <2>2, <3>1, <3>2, <3>3, QuietMove DEF Moved
<1>5. CASE at = "mark"
  <2>2. /\ w \in Locs /\ w.op = v.op /\ w.data = v.data /\ w.res = v.res /\ w.up = v.up
        /\ w.cell = v.cell /\ w.key = v.key
    BY <1>1, <1>3, <1>5 DEF Locs
  <2>6. ExtractOK(p, at, w)
    BY <1>3, <1>5, <2>2 DEF ExtractOK
  <2> QED
    <3>1. CallAt(p, at, w)
      BY <1>5, <2>6 DEF CallAt, Searching
    <3>2. w.res \in Results(w.op) /\ at \in PcOf(w.op)
      BY <1>1, <1>3, <1>5, <2>2 DEF CallType, PcOf
    <3>3. Keeps /\ ~FreshStart(p) /\ pc[p] # "idle" /\ ~(at = "link" /\ w.up = 0)
      BY <1>3, <1>5 DEF RemoveExtract, cells, history, Keeps, FreshStart
    <3> QED
      BY <1>1, <2>2, <3>1, <3>2, <3>3, QuietMove DEF Moved
<1> QED
  BY <1>1, <1>4, <1>5

LEMMA RemoveLostOK ==
    ASSUME Core, NEW p \in Proc, RemoveLost(p)
    PROVE  Moved(p)
<1>1. PICK v, w, at :
        /\ v = loc[p]
        /\ \/ /\ at = "return" /\ w = [v EXCEPT !.res = 0, !.cell = None]
           \/ /\ at = "mark" /\ w = [v EXCEPT !.succ = Ptr(v.cell, 0)]
        /\ pc' = [pc EXCEPT ![p] = at] /\ loc' = [loc EXCEPT ![p] = w]
  BY DEF RemoveLost, Goto, Set
<1>3. /\ pc[p] = "lost" /\ v \in Locs /\ ExtractOK(p, "lost", v) /\ CallType(p)
      /\ v.op = "remove" /\ v.up = 0 /\ Ptr(v.cell, 0) \in AnyCell
  BY <1>1, ExtractFacts DEF RemoveLost, ExtractOK
<1>4. CASE at = "return"
  <2>2. w \in Locs /\ w.op = v.op /\ w.data = v.data /\ w.res = 0
    BY <1>1, <1>3, <1>4 DEF Locs, Res
  <2>3. CallAt(p, at, w)
    BY <1>4 DEF CallAt, Searching
  <2>4. w.res \in Results(w.op) /\ at \in PcOf(w.op)
    BY <1>3, <1>4, <2>2 DEF Results, PcOf
  <2>5. Keeps /\ ~FreshStart(p) /\ pc[p] # "idle" /\ ~(at = "link" /\ w.up = 0)
    BY <1>3, <1>4 DEF RemoveLost, cells, history, Keeps, FreshStart
  <2> QED
    BY <1>1, <2>2, <2>3, <2>4, <2>5, QuietMove DEF Moved
<1>5. CASE at = "mark"
  <2>2. /\ w \in Locs /\ w.op = v.op /\ w.data = v.data /\ w.res = v.res /\ w.up = v.up
        /\ w.cell = v.cell /\ w.key = v.key
    BY <1>1, <1>3, <1>5 DEF Locs
  <2>3. ExtractOK(p, at, w)
    BY <1>3, <1>5, <2>2 DEF ExtractOK
  <2>4. CallAt(p, at, w)
    BY <1>5, <2>3 DEF CallAt, Searching
  <2>5. w.res \in Results(w.op) /\ at \in PcOf(w.op)
    BY <1>1, <1>3, <1>5, <2>2 DEF CallType, PcOf
  <2>6. Keeps /\ ~FreshStart(p) /\ pc[p] # "idle" /\ ~(at = "link" /\ w.up = 0)
    BY <1>3, <1>5 DEF RemoveLost, cells, history, Keeps, FreshStart
  <2> QED
    BY <1>1, <2>2, <2>4, <2>5, <2>6, QuietMove DEF Moved
<1> QED
  BY <1>1, <1>4, <1>5

-----------------------------------------------------------------------------
(* A call begins and ends. *)
LEMMA BorderCore ==
    ASSUME Core, NEW p \in Proc, SameHeap, Others(p), pc' \in [Proc -> Labels],
           loc' \in [Proc -> Locs \cup {Idle}], profile' = profile, CallType(p)',
           UNCHANGED <<garbage_next, garbage_head, search_level>>,
           seen' \in [Proc -> [Key -> SUBSET (Data \cup {Absent})]], gone' \in [Proc -> BOOLEAN],
           \A q \in Proc : q # p => seen'[q] = seen[q] /\ gone'[q] = gone[q],
           SeenOK(p)', CallOK(p)'
    PROVE  Core'
<1>2. Heap'
  BY CoreHeap, SameHeapInv
<1>3. CallTypes'
  BY DEF Others, Core, CallTypes, CallType
<1>4. SeenInv'
  <2> SUFFICES ASSUME NEW q \in Proc, q # p PROVE SeenOK(q)'
    BY DEF SeenInv
  <2> QED
    BY Same DEF Others, Core, SeenInv, SeenOK
<1>5. CallsInv'
  <2> SUFFICES ASSUME NEW q \in Proc, q # p PROVE CallOK(q)'
    BY DEF CallsInv
  <2>1. CASE pc[q] = "idle"
    BY <2>1, IdleOKNext DEF Others
  <2>2. CASE pc[q] # "idle"
    BY <2>2, SameRely, Stable DEF Core, CallsInv, Others
  <2> QED
    BY <2>1, <2>2
<1>6. GarbageTypes'
  BY DEF Core, GarbageTypes
<1> QED
  BY <1>2, <1>3, <1>4, <1>5, <1>6 DEF Core, Heap

LEMMA LocalsIn ==
    ASSUME NEW op \in Op, NEW k \in Key, NEW d \in Data \cup {Absent}
    PROVE  /\ Locals(op, k, d) \in Locs
           /\ Locals(op, k, d).op = op /\ Locals(op, k, d).key = k /\ Locals(op, k, d).data = d
           /\ Locals(op, k, d).pred = Head /\ Locals(op, k, d).cell = None
           /\ Locals(op, k, d).up = 0 /\ Locals(op, k, d).res = Absent
BY Constants DEF Res, Locals, Locs

LEMMA CallStepOK ==
    ASSUME Core, NEW p \in Proc, Call(p)
    PROVE  Core' /\ SameHeap /\ Others(p)
<1>1. PICK op \in {"insert", "remove", "find", "find_below"}, k \in Key, d \in Data \cup {Absent} :
        /\ op = "insert" <=> d # Absent
        /\ op \in {"insert", "remove"} => p \in profile.writers
        /\ Set(p, Locals(op, k, d))
        /\ Goto(p, IF op \in {"insert", "remove"} THEN "find" ELSE "lookup")
  BY DEF Call
<1>2. PICK w, at : w = Locals(op, k, d) /\ at = IF op \in {"insert", "remove"} THEN "find" ELSE "lookup"
  OBVIOUS
<1>3. /\ w \in Locs /\ w.op = op /\ w.data = d /\ w.pred = Head /\ w.cell = None
      /\ w.up = 0 /\ w.res = Absent
  BY <1>1, <1>2, LocalsIn DEF Op
<1>4. at \in PcOf(op) /\ Absent \in Results(op) /\ at \in Labels /\ at # "idle" /\ at # "link"
  BY <1>1, <1>2 DEF PcOf, Results, Labels
<1>5. /\ pc' \in [Proc -> Labels] /\ loc' \in [Proc -> Locs \cup {Idle}] /\ Others(p)
      /\ pc'[p] = at /\ loc'[p] = w
  BY <1>1, <1>2, <1>3, <1>4, Move DEF Set, Goto, Core
<1>6. SameHeap
  BY <1>4, <1>5, MovedSame DEF FreshStart, Call, cells
<1>7. CallType(p)'
  BY <1>1, <1>3, <1>4, <1>5 DEF Call, CallType
<1>8. /\ seen' \in [Proc -> [Key -> SUBSET (Data \cup {Absent})]] /\ gone' \in [Proc -> BOOLEAN]
      /\ \A q \in Proc : q # p => seen'[q] = seen[q] /\ gone'[q] = gone[q]
      /\ \A j \in Key : seen'[p][j] = {Dict[j]}
  <2>1. \A j \in Key : Dict[j] \in Data \cup {Absent}
    BY CoreHeap DEF DictFacts
  <2>2. [j \in Key |-> {Dict[j]}] \in [Key -> SUBSET (Data \cup {Absent})]
    BY <2>1
  <2>3. seen' = [seen EXCEPT ![p] = [j \in Key |-> {Dict[j]}]] /\ gone' = gone
    BY DEF Call
  <2>4. seen \in [Proc -> [Key -> SUBSET (Data \cup {Absent})]] /\ gone \in [Proc -> BOOLEAN]
    BY DEF Core, CallTypes
  <2>5. PICK e : e = [j \in Key |-> {Dict[j]}]
    OBVIOUS
  <2>6. seen'[p] = e
    BY <2>3, <2>4, <2>5
  <2>7. \A j \in Key : e[j] = {Dict[j]}
    BY <2>5
  <2> QED
    BY <2>2, <2>3, <2>4, <2>6, <2>7
<1>9. SeenOK(p)'
  BY <1>4, <1>5, <1>6, <1>8, Same DEF SeenOK
<1>10. CallOK(p)'
  BY <1>2, <1>3, <1>5 DEF CallAt, Searching, FindOK, CallOK
<1>11. profile' = profile /\ UNCHANGED <<garbage_next, garbage_head, search_level>>
  BY DEF Call
<1> QED
  BY <1>5, <1>6, <1>7, <1>8, <1>9, <1>10, <1>11, BorderCore

LEMMA ReturnOK ==
    ASSUME Core, NEW p \in Proc, Return(p)
    PROVE  Core' /\ SameHeap /\ Others(p)
<1>1. /\ pc[p] = "return" /\ pc' = [pc EXCEPT ![p] = "idle"] /\ loc' = [loc EXCEPT ![p] = Idle]
      /\ seen' = [seen EXCEPT ![p] = [j \in Key |-> {}]] /\ gone' = [gone EXCEPT ![p] = FALSE]
      /\ profile' = profile /\ UNCHANGED <<garbage_next, garbage_head, search_level>>
      /\ UNCHANGED <<used, key, top_level, data, forward>>
  BY DEF Return, Goto, Set, cells
<1>2. /\ seen \in [Proc -> [Key -> SUBSET (Data \cup {Absent})]] /\ gone \in [Proc -> BOOLEAN]
      /\ pc \in [Proc -> Labels] /\ loc \in [Proc -> Locs \cup {Idle}] /\ "idle" \in Labels
  BY DEF Core, CallTypes, Labels
<1>3. /\ pc' \in [Proc -> Labels] /\ loc' \in [Proc -> Locs \cup {Idle}] /\ Others(p)
      /\ pc'[p] = "idle" /\ loc'[p] = Idle
  BY <1>1, <1>2 DEF Others
<1>4. /\ seen' \in [Proc -> [Key -> SUBSET (Data \cup {Absent})]] /\ gone' \in [Proc -> BOOLEAN]
      /\ \A q \in Proc : q # p => seen'[q] = seen[q] /\ gone'[q] = gone[q]
      /\ ~gone'[p] /\ \A j \in Key : seen'[p][j] = {}
  <2>1. PICK e : e = [j \in Key |-> {}]
    OBVIOUS
  <2>2. e \in [Key -> SUBSET (Data \cup {Absent})] /\ \A j \in Key : e[j] = {}
    BY <2>1
  <2> QED
    BY <1>1, <1>2, <2>1, <2>2
<1>5. SameHeap
  BY <1>1, <1>3, MovedSame DEF FreshStart
<1>6. CallType(p)' /\ SeenOK(p)' /\ CallOK(p)'
  BY <1>3, <1>4, IdleOKNext DEF CallType, SeenOK
<1> QED
  BY <1>1, <1>3, <1>4, <1>5, <1>6, BorderCore

-----------------------------------------------------------------------------
(* Steps that change the list. *)
\* What the calls learn.
LEMMA LearnIs ==
    ASSUME CallTypes, SeenInv, DictFacts', Learn
    PROVE  /\ seen' \in [Proc -> [Key -> SUBSET (Data \cup {Absent})]]
           /\ gone' \in [Proc -> BOOLEAN]
           /\ \A q \in Proc : pc[q] = "idle" => seen'[q] = seen[q] /\ gone'[q] = gone[q]
           /\ \A q \in Proc : pc[q] # "idle" =>
                 /\ \A k \in Key : seen'[q][k] = seen[q][k] \cup {Dict'[k]}
                 /\ gone'[q] <=> (gone[q] \/ (Dict[loc[q].key] # Absent /\ Dict'[loc[q].key] = Absent))
<1>1. /\ seen' = [q \in Proc |-> [k \in Key |-> IF pc[q] = "idle" THEN {} ELSE seen[q][k] \cup {Dict'[k]}]]
      /\ gone' = [q \in Proc |-> /\ pc[q] # "idle"
                                 /\ \/ gone[q]
                                    \/ Dict[loc[q].key] # Absent /\ Dict'[loc[q].key] = Absent]
  BY DEF Learn
<1>2. \A k \in Key : Dict'[k] \in Data \cup {Absent}
  BY DEF DictFacts
<1>3. seen \in [Proc -> [Key -> SUBSET (Data \cup {Absent})]] /\ gone \in [Proc -> BOOLEAN]
  BY DEF CallTypes
<1>4. seen' \in [Proc -> [Key -> SUBSET (Data \cup {Absent})]]
  BY <1>1, <1>2, <1>3
<1>5. gone' \in [Proc -> BOOLEAN]
  BY <1>1
<1>6. ASSUME NEW q \in Proc, pc[q] = "idle" PROVE seen'[q] = seen[q] /\ gone'[q] = gone[q]
  <2>1. ~gone[q] /\ \A k \in Key : seen[q][k] = {}
    BY <1>6 DEF SeenInv, SeenOK
  <2>2. seen'[q] = [k \in Key |-> {}]
    BY <1>1, <1>6
  <2>3. seen[q] \in [Key -> SUBSET (Data \cup {Absent})]
    BY <1>3
  <2>4. seen'[q] = seen[q]
    BY <2>1, <2>2, <2>3
  <2>5. gone'[q] = FALSE
    BY <1>1, <1>6
  <2>6. gone[q] = FALSE
    BY <1>3, <2>1
  <2> QED
    BY <2>4, <2>5, <2>6
<1>7. ASSUME NEW q \in Proc, pc[q] # "idle"
      PROVE  /\ \A k \in Key : seen'[q][k] = seen[q][k] \cup {Dict'[k]}
             /\ gone'[q] <=> (gone[q] \/ (Dict[loc[q].key] # Absent /\ Dict'[loc[q].key] = Absent))
  BY <1>1, <1>7
<1> QED
  BY <1>4, <1>5, <1>6, <1>7

LEMMA LearnSame ==
    ASSUME CallTypes, SeenInv, DictFacts', Dict' = Dict, Learn
    PROVE  seen' = seen /\ gone' = gone
<1>1. /\ seen' \in [Proc -> [Key -> SUBSET (Data \cup {Absent})]]
      /\ gone' \in [Proc -> BOOLEAN]
      /\ \A q \in Proc : pc[q] = "idle" => seen'[q] = seen[q] /\ gone'[q] = gone[q]
      /\ \A q \in Proc : pc[q] # "idle" =>
            /\ \A k \in Key : seen'[q][k] = seen[q][k] \cup {Dict'[k]}
            /\ gone'[q] <=> (gone[q] \/ (Dict[loc[q].key] # Absent /\ Dict'[loc[q].key] = Absent))
  BY LearnIs
<1>2. seen \in [Proc -> [Key -> SUBSET (Data \cup {Absent})]] /\ gone \in [Proc -> BOOLEAN]
  BY DEF CallTypes
<1>3. ASSUME NEW q \in Proc PROVE seen'[q] = seen[q] /\ gone'[q] = gone[q]
  <2>1. CASE pc[q] = "idle"
    BY <1>1, <2>1
  <2>2. CASE pc[q] # "idle"
    <3>1. \A k \in Key : Dict[k] \in seen[q][k]
      BY <2>2 DEF SeenInv, SeenOK
    <3>2. ASSUME NEW k \in Key PROVE seen'[q][k] = seen[q][k]
      <4>1. seen'[q][k] = seen[q][k] \cup {Dict'[k]} /\ Dict[k] \in seen[q][k]
        BY <1>1, <2>2, <3>1
      <4>2. Dict'[k] = Dict[k]
        OBVIOUS
      <4> QED
        BY <4>1, <4>2
    <3>3. seen'[q] = seen[q]
      BY <1>1, <1>2, <3>2
    <3>4. gone'[q] <=> gone[q]
      BY <1>1, <2>2
    <3> QED
      BY <1>1, <1>2, <3>3, <3>4
  <2> QED
    BY <2>1, <2>2
<1> QED
  BY <1>1, <1>2, <1>3

\* The dictionary changes only with the cells that are listed and not marked.
LEMMA DictSame ==
    ASSUME DictFacts, DictFacts', HeapFacts, Listed' = Listed, NEW k \in Key,
           \A c \in Listed : key'[c] = key[c] /\ (key[c] = k => data'[c] = data[c]
                                                                /\ (Marked(c, 0)' <=> Marked(c, 0)))
    PROVE  Dict'[k] = Dict[k]
BY DEF DictFacts

LEMMA DictFun ==
    ASSUME \A k \in Key : Dict'[k] = Dict[k]
    PROVE  Dict' = Dict
BY DEF Dict

\* A step after which the list is in order and the others have what they rely on.
LEMMA LoudCore ==
    ASSUME Core, NEW p \in Proc, Heap', Evolves, Others(p), pc' \in [Proc -> Labels],
           loc' \in [Proc -> Locs \cup {Idle}], profile' = profile, CallType(p)', GarbageTypes',
           seen' \in [Proc -> [Key -> SUBSET (Data \cup {Absent})]], gone' \in [Proc -> BOOLEAN],
           pc[p] # "idle", pc'[p] # "idle",
           \A q \in Proc : pc[q] = "idle" => seen'[q] = seen[q] /\ gone'[q] = gone[q],
           \A q \in Proc : pc[q] # "idle" => \A k \in Key : Dict'[k] \in seen'[q][k],
           \A q \in Proc : q # p /\ pc[q] # "idle" => Learns(q) /\ Rereads(q) /\ Spares(q),
           CallOK(p)'
    PROVE  Core'
<1>3. CallTypes'
  BY DEF Others, Core, CallTypes, CallType
<1>4. SeenInv'
  BY DEF Others, Core, SeenInv, SeenOK
<1>5. CallsInv'
  <2> SUFFICES ASSUME NEW q \in Proc, q # p PROVE CallOK(q)'
    BY DEF CallsInv
  <2>1. CASE pc[q] = "idle"
    BY <2>1, IdleOKNext DEF Others
  <2>2. CASE pc[q] # "idle"
    BY <2>2, CoreHeap, Stable DEF Rely, Core, Waits, CallTypes, CallType, CallsInv,
       Others
  <2> QED
    BY <2>1, <2>2
<1> QED
  BY <1>3, <1>4, <1>5 DEF Core, Heap

\* A pointer is changed, and no cell comes or goes.
Stored(q, l, s, b) ==
    /\ Ptr(q, l)' = s /\ (Marked(q, l)' <=> b)
    /\ \A c \in AnyCell, m \in Level : (c # q \/ m # l) =>
          Ptr(c, m)' = Ptr(c, m) /\ Marked(c, m)' = Marked(c, m) /\ forward'[c][m] = forward[c][m]
    /\ forward' \in [AnyCell -> [Level -> (AnyCell \cup {None}) \X BOOLEAN]]
    /\ \A m : Links(m)' = [x \in AnyCell |-> Ptr(x, m)']
    /\ \A m \in Level : m # l => \A c : From(c, m)' = From(c, m)
    /\ \A c, m : From(c, m)' = Reached(Links(m)', c)
LEMMA StoreIs ==
    ASSUME Heap, NEW q \in AnyCell, NEW l \in Level, NEW s \in AnyCell, NEW b \in BOOLEAN,
           forward' = [forward EXCEPT ![q][l] = <<s, b>>]
    PROVE  Stored(q, l, s, b)
BY DEF Heap, HeapTypes, Ptr, Marked, Links, From, Stored

\* One cell only of the list leads to a cell.
LEMMA OnlyPred ==
    ASSUME Heap, NEW c \in Linked0 \cup {Head}, NEW x \in Linked0 \cup {Head},
           Ptr(x, 0) = Ptr(c, 0), Ptr(c, 0) \in Linked0
    PROVE  x = c
<1> USE Facts DEF HeapFacts, ListFacts
<1>0. /\ Linked0 \subseteq AnyCell /\ c \in AnyCell /\ x \in AnyCell
      /\ key[c] \in Nat /\ key[x] \in Nat /\ key[Ptr(c, 0)] \in Nat
  BY Constants
<1>1. key[c] < key[Ptr(c, 0)] /\ key[x] < key[Ptr(c, 0)]
  OBVIOUS
<1>2. ASSUME key[x] < key[c] PROVE FALSE
  BY <1>0, <1>1, <1>2 DEF Heap, HeapInv, GapInv
<1>3. ASSUME key[c] < key[x] PROVE FALSE
  BY <1>0, <1>1, <1>3 DEF Heap, HeapInv, GapInv
<1>4. key[c] = key[x]
  <2>1. PICK a, b : a = key[c] /\ b = key[x]
    OBVIOUS
  <2>2. a \in Nat /\ b \in Nat /\ ~(a < b) /\ ~(b < a)
    BY <1>0, <1>2, <1>3, <2>1
  <2>3. a = b
    BY <2>2
  <2> QED
    BY <2>1, <2>3
<1>5. CASE x \in Linked0
  BY <1>4, <1>5 DEF Heap, HeapInv, GapInv
<1>6. CASE c \in Linked0
  BY <1>4, <1>6 DEF Heap, HeapInv, GapInv
<1> QED
  BY <1>5, <1>6

SnipStep(q, d, l) ==
    /\ q \in Nodes /\ l \in Level /\ l <= top_level[q] /\ ~Marked(q, l) /\ Ptr(q, l) = d
    /\ d \in Listed /\ l <= top_level[d] /\ Marked(d, l)
    /\ forward' = [forward EXCEPT ![q][l] = <<Ptr(d, l), FALSE>>]
    /\ UNCHANGED <<used, key, data, top_level>> /\ Listed' = Listed

LEMMA SnipFrom ==
    ASSUME Heap, NEW q, NEW d, NEW l, SnipStep(q, d, l)
    PROVE  /\ d # q /\ q \in AnyCell /\ q \in used \cup {Head} /\ d \in Cell
           /\ Ptr(d, l) \in Targets /\ Ptr(d, l) \in AnyCell /\ l <= top_level[Ptr(d, l)]
           /\ q \in Linked0 \cup {Head}
           /\ \A c \in AnyCell, m \in Level : /\ Marked(c, m)' <=> Marked(c, m)
                                              /\ c # q \/ m # l => Ptr(c, m)' = Ptr(c, m)
           /\ Ptr(q, l)' = Ptr(d, l)
           /\ \A c \in AnyCell, m \in Level : From(c, m)' \subseteq From(c, m)
           /\ \A c \in AnyCell : From(c, 0) \subseteq From(c, 0)' \cup {d}
           /\ l # 0 => \A c \in AnyCell : From(c, 0)' = From(c, 0)
           /\ HeapTypes'
<1> USE Constants DEF SnipStep
<1>1. HeapFacts /\ ListFacts /\ q \in AnyCell /\ q \in used \cup {Head} /\ d \in Cell /\ d \in AnyCell
      /\ d \in used
  BY Facts DEF HeapFacts
<1>2. Ptr(d, l) \in Targets /\ Ptr(d, l) \in AnyCell /\ l <= top_level[Ptr(d, l)]
  BY <1>1 DEF HeapFacts, Heap, HeapInv, PointerInv
<1>3. d # q
  OBVIOUS
<1>4. q \in Linked0 \cup {Head}
  BY <1>1 DEF ListFacts
<1>0. PICK s, b : s = Ptr(d, l) /\ b = FALSE
  OBVIOUS
<1>13. forward' = [forward EXCEPT ![q][l] = <<s, b>>] /\ s \in AnyCell /\ b \in BOOLEAN
       /\ q \in AnyCell /\ l \in Level
  BY <1>0, <1>1, <1>2
<1>14. /\ Ptr(q, l)' = s /\ (Marked(q, l)' <=> b)
       /\ \A c \in AnyCell, m \in Level : (c # q \/ m # l) =>
             Ptr(c, m)' = Ptr(c, m) /\ Marked(c, m)' = Marked(c, m) /\ forward'[c][m] = forward[c][m]
       /\ forward' \in [AnyCell -> [Level -> (AnyCell \cup {None}) \X BOOLEAN]]
       /\ \A m : Links(m)' = [x \in AnyCell |-> Ptr(x, m)']
       /\ \A m \in Level : m # l => \A c : From(c, m)' = From(c, m)
       /\ \A c, m : From(c, m)' = Reached(Links(m)', c)
  <2> HIDE DEF SnipStep
  <2>1. Stored(q, l, s, b)
    BY <1>13, StoreIs
  <2> QED
    BY <2>1 DEF Stored
<1>5. /\ Ptr(q, l)' = s /\ ~Marked(q, l)'
      /\ \A c \in AnyCell, m \in Level : (c # q \/ m # l) =>
            Ptr(c, m)' = Ptr(c, m) /\ Marked(c, m)' = Marked(c, m)
      /\ forward' \in [AnyCell -> [Level -> (AnyCell \cup {None}) \X BOOLEAN]]
      /\ \A m : Links(m)' = [x \in AnyCell |-> Ptr(x, m)']
      /\ \A m \in Level : m # l => \A c : From(c, m)' = From(c, m)
      /\ \A c, m : From(c, m)' = Reached(Links(m)', c)
  BY <1>0, <1>14
<1>6. PICK n, k : n = Links(l) /\ k = Links(l)'
  OBVIOUS
<1>7. \A c \in AnyCell : From(c, l)' \subseteq From(c, l) /\ From(c, l) \subseteq From(c, l)' \cup {d}
  <2>1. n[q] = d /\ k[q] = n[d] /\ \A x \in AnyCell : x # q => k[x] = n[x]
    BY <1>0, <1>1, <1>5, <1>6, LinksAre
  <2>2. \A c : From(c, l)' = Reached(k, c) /\ From(c, l) = Reached(n, c)
    BY <1>5, <1>6, LinksAre
  <2>3. \A c \in AnyCell : Reached(k, c) \subseteq Reached(n, c) /\ Reached(n, c) \subseteq Reached(k, c) \cup {d}
    BY <1>1, <1>3, <2>1, ReachedSnip
  <2> QED
    BY <2>2, <2>3
<1>8. \A c \in AnyCell, m \in Level : From(c, m)' \subseteq From(c, m)
  BY <1>5, <1>7
<1>9. \A c \in AnyCell : From(c, 0) \subseteq From(c, 0)' \cup {d}
  BY <1>5, <1>7
<1>10. l # 0 => \A c \in AnyCell : From(c, 0)' = From(c, 0)
  BY <1>5
<1>11. HeapTypes'
  BY <1>5 DEF Heap, HeapTypes
<1>12. \A c \in AnyCell, m \in Level : Marked(c, m)' <=> Marked(c, m)
  BY <1>5
<1> QED
  BY <1>0, <1>1, <1>2, <1>3, <1>4, <1>5, <1>8, <1>9, <1>10, <1>11, <1>12

\* What has been taken out of the lowest level does not lead back to it.
LEMMA SnipLinked ==
    ASSUME Heap, NEW q, NEW d, NEW l, SnipStep(q, d, l)
    PROVE  /\ Linked0' \subseteq Linked0
           /\ l = 0 => d \notin Linked0' /\ Linked0 \subseteq Linked0' \cup {d} /\ d \in Linked0
           /\ l # 0 => Linked0' = Linked0
<1> USE SnipFrom, Facts, LinksAre, Constants DEF HeapFacts, ListFacts
<1>1. Linked0' = From(Head, 0)'
  BY DEF Linked0, Linked
<1>2. Linked0' \subseteq Linked0 /\ Linked0 \subseteq Linked0' \cup {d} /\ (l # 0 => Linked0' = Linked0)
  BY <1>1
<1>3. ASSUME l = 0 PROVE d \notin Linked0' /\ d \in Linked0
  <2>1. q \in Linked0 \cup {Head} /\ Ptr(q, 0) = d /\ d \in Listed /\ d \in Cell
    BY <1>3 DEF SnipStep
  <2>2. d \in Linked0
    BY <2>1
  <2> DEFINE S == Linked0 \ {d}
  <2>3. ASSUME NEW x \in S \cup {Head}, Ptr(x, 0)' \in Cell PROVE Ptr(x, 0)' \in S
    BY <1>3, <2>1, <2>2, <2>3, OnlyPred
  <2>4. PICK m : m = Links(0)'
    OBVIOUS
  <2>5. \A x \in S \cup {Head} : m[x] = Ptr(x, 0)'
    BY <2>4 DEF Links
  <2>6. From(Head, 0)' = Reached(m, Head)
    BY <2>4 DEF From
  <2>7. Reached(m, Head) \subseteq S
    <3>1. S \in SUBSET Cell
      OBVIOUS
    <3>2. Closed(m, S) /\ (m[Head] \in Cell => m[Head] \in S)
      BY <2>3, <2>5 DEF Closed
    <3> HIDE DEF S
    <3> QED
      BY <3>1, <3>2, ReachedIn
  <2> QED
    BY <1>1, <2>2, <2>6, <2>7
<1> QED
  BY <1>2, <1>3

LEMMA SnipHeap ==
    ASSUME Heap, NEW q, NEW d, NEW l, SnipStep(q, d, l)
    PROVE  Heap' /\ Evolves
<1>1. /\ q \in Nodes /\ l \in Level /\ l <= top_level[q] /\ ~Marked(q, l) /\ Ptr(q, l) = d
      /\ d \in Listed /\ l <= top_level[d] /\ Marked(d, l)
      /\ used' = used /\ key' = key /\ data' = data /\ top_level' = top_level /\ Listed' = Listed
  BY DEF SnipStep
<1>2. /\ d # q /\ q \in AnyCell /\ q \in used \cup {Head} /\ d \in Cell
      /\ Ptr(d, l) \in Targets /\ Ptr(d, l) \in AnyCell /\ l <= top_level[Ptr(d, l)]
      /\ q \in Linked0 \cup {Head}
      /\ \A c \in AnyCell, m \in Level : /\ Marked(c, m)' <=> Marked(c, m)
                                         /\ c # q \/ m # l => Ptr(c, m)' = Ptr(c, m)
      /\ Ptr(q, l)' = Ptr(d, l)
      /\ \A c \in AnyCell, m \in Level : From(c, m)' \subseteq From(c, m)
      /\ \A c \in AnyCell : From(c, 0) \subseteq From(c, 0)' \cup {d}
      /\ l # 0 => \A c \in AnyCell : From(c, 0)' = From(c, 0)
      /\ HeapTypes'
  BY SnipFrom
<1>3. /\ Linked0' \subseteq Linked0
      /\ l = 0 => d \notin Linked0' /\ Linked0 \subseteq Linked0' \cup {d} /\ d \in Linked0
      /\ l # 0 => Linked0' = Linked0
  BY SnipLinked
<1>4. HeapFacts /\ ListFacts
  BY Facts
<1>5. Nodes' = Nodes /\ Targets' = Targets
  BY <1>1 DEF Nodes, Targets
<1> USE Constants
<1>6. SentinelInv'
  BY <1>1, <1>2, <1>4 DEF Nodes, HeapFacts, Heap, HeapInv, SentinelInv
<1>7. PointerInv'
  <2> SUFFICES ASSUME NEW c \in used \cup {Head}, NEW m \in Level
               PROVE  /\ m <= top_level[c] => Ptr(c, m)' \in Targets /\ m <= top_level[Ptr(c, m)']
                      /\ m > top_level[c] => Ptr(c, m)' = Tail
    BY <1>1, <1>5 DEF PointerInv
  <2>1. CASE c = q /\ m = l
    <3>1. top_level[q] \in Nat /\ l \in Nat
      BY <1>1, <1>2, <1>4 DEF HeapFacts
    <3>2. ~(l > top_level[q])
      BY <1>1, <3>1
    <3> QED
      BY <1>2, <2>1, <3>2
  <2>2. CASE c # q \/ m # l
    <3>1. c \in AnyCell
      BY <1>4 DEF HeapFacts
    <3>2. Ptr(c, m)' = Ptr(c, m)
      BY <1>2, <2>2, <3>1
    <3> QED
      BY <3>2 DEF Heap, HeapInv, PointerInv
  <2> QED
    BY <2>1, <2>2
<1>8. SortedInv'
  <2>1. /\ \/ key[d] > key[q]
           \/ l > 0 /\ key[d] = key[q]
        /\ \/ key[Ptr(d, l)] > key[d]
           \/ l > 0 /\ key[Ptr(d, l)] = key[d] /\ Marked(Ptr(d, l), l)
    BY <1>1, <1>2, <1>4 DEF Heap, HeapInv, SortedInv, HeapFacts
  <2>2. key[q] \in Nat /\ key[d] \in Nat /\ key[Ptr(d, l)] \in Nat
    BY <1>1, <1>2, <1>4 DEF HeapFacts
  <2>3. \/ key[Ptr(d, l)] > key[q]
        \/ l > 0 /\ key[Ptr(d, l)] = key[q] /\ Marked(Ptr(d, l), l)
    BY <2>1, <2>2
  <2> SUFFICES ASSUME NEW c \in used \cup {Head}, NEW m \in Level, m <= top_level[c]
               PROVE  \/ key[Ptr(c, m)'] > key[c]
                      \/ m > 0 /\ key[Ptr(c, m)'] = key[c] /\ Marked(Ptr(c, m), m)'
    BY <1>1 DEF SortedInv
  <2>4. CASE c = q /\ m = l
    BY <1>1, <1>2, <2>3, <2>4
  <2>5. CASE c # q \/ m # l
    BY <1>2, <1>4, <2>5 DEF HeapFacts, Heap, HeapInv, PointerInv, SortedInv
  <2> QED
    BY <2>4, <2>5
<1>9. MarksInv'
  BY <1>1, <1>2, <1>4 DEF Heap, HeapInv, MarksInv, HeapFacts
<1>10. LiveInv'
  BY <1>1, <1>2, <1>3, <1>4 DEF Heap, HeapInv, LiveInv, HeapFacts
<1>11. GapInv'
  <2> SUFFICES ASSUME NEW c \in Linked0' \cup {Head}, NEW e \in Linked0'
               PROVE  /\ key[c] < key[e] => key[Ptr(c, 0)'] <= key[e]
                      /\ key[c] = key[e] => c = e
    BY <1>1 DEF GapInv
  <2>0. c \in Linked0 \cup {Head} /\ e \in Linked0 /\ c \in AnyCell /\ e \in AnyCell
    BY <1>3, <1>4 DEF HeapFacts, ListFacts
  <2>1. key[c] = key[e] => c = e
    BY <2>0 DEF Heap, HeapInv, GapInv
  <2>2. CASE c = q /\ l = 0
    <3>1. e # d /\ d \in Linked0
      BY <1>3, <2>2
    <3>2. key[d] # key[e]
      BY <2>0, <3>1 DEF Heap, HeapInv, GapInv
    <3>3. key[d] \in Nat /\ key[e] \in Nat
      BY <1>1, <1>4, <2>0 DEF HeapFacts
    <3>4. key[c] < key[e] => key[d] <= key[e]
      BY <1>1, <2>0, <2>2 DEF Heap, HeapInv, GapInv
    <3>5. key[c] < key[e] => key[d] < key[e]
      BY <3>2, <3>3, <3>4
    <3>6. key[d] < key[e] => key[Ptr(d, 0)] <= key[e]
      BY <2>0, <3>1 DEF Heap, HeapInv, GapInv
    <3> QED
      BY <1>2, <2>1, <2>2, <3>5, <3>6
  <2>3. CASE c # q \/ l # 0
    BY <1>2, <2>0, <2>3 DEF Heap, HeapInv, GapInv
  <2> QED
    BY <2>2, <2>3
<1>12. \A c \in AnyCell : \A e \in From(c, 0) : e \in Linked0' => e \in From(c, 0)'
  BY <1>1, <1>2, <1>3
<1>13. AheadInv'
  <2> SUFFICES ASSUME NEW c \in Nodes, NEW m \in Level, m <= top_level[c],
                      Ptr(c, m)' \in Linked0', key[c] < key[Ptr(c, m)']
               PROVE  Ptr(c, m)' \in From(c, 0)'
    BY <1>1, <1>5 DEF AheadInv
  <2>0. c \in AnyCell /\ Ptr(c, m)' \in Linked0
    BY <1>3, <1>4 DEF HeapFacts
  <2>1. CASE c = q /\ m = l
    BY <1>2, <1>4, <1>12, <2>0, <2>1 DEF ListFacts
  <2>2. CASE c # q \/ m # l
    BY <1>2, <1>12, <2>0, <2>2 DEF Heap, HeapInv, AheadInv
  <2> QED
    BY <2>1, <2>2
<1>14. AcyclicInv'
  BY <1>1, <1>2, <1>4 DEF Heap, HeapInv, AcyclicInv, HeapFacts
<1>15. Evolves
  BY <1>1, <1>2, <1>3, <1>4, <1>12 DEF HeapFacts, Evolves
<1> QED
  BY <1>2, <1>6, <1>7, <1>8, <1>9, <1>10, <1>11, <1>13, <1>14, <1>15 DEF Heap, HeapInv

LEMMA ListedStays ==
    ASSUME NEW p \in Proc, used' = used, Others(p), ~FreshStart(p), ~FreshStart(p)'
    PROVE  Listed' = Listed /\ Nodes' = Nodes /\ Targets' = Targets
           /\ \A q \in Proc : \A c : Fresh(q, c)' <=> Fresh(q, c)
BY DEF Others, FreshStart, Fresh, Listed, Nodes, Targets

\* New cells are spared by a step that changes listed ones.
LEMMA SparedNew ==
    ASSUME Core, \A q \in Proc : \A c : Fresh(q, c)' <=> Fresh(q, c), used' = used,
           \A c \in used \ Listed : /\ key'[c] = key[c] /\ data'[c] = data[c]
                                    /\ top_level'[c] = top_level[c] /\ forward'[c] = forward[c]
                                    /\ garbage_next'[c] = garbage_next[c]
    PROVE  \A q \in Proc : Spares(q)
<1> SUFFICES ASSUME NEW q \in Proc, NEW c \in used, Fresh(q, c)
             PROVE  /\ c \in used' /\ key'[c] = key[c] /\ data'[c] = data[c]
                    /\ top_level'[c] = top_level[c] /\ forward'[c] = forward[c]
                    /\ garbage_next'[c] = garbage_next[c]
                    /\ \A r \in Proc : Fresh(r, c)' => r = q
  BY DEF Spares
<1> QED
  BY FreshIn

LEMMA SnipStay ==
    ASSUME NEW p \in Proc, Core, FindSnip(p), ~SnipSucceeds(p)
    PROVE  Moved(p)
<1>1. PICK v : v = loc[p]
  OBVIOUS
<1>2. /\ pc[p] = "snip" /\ pc' = [pc EXCEPT ![p] = "find"] /\ loc' = loc /\ Learn
      /\ UNCHANGED <<used, key, top_level, data, forward, profile>>
      /\ UNCHANGED <<garbage_next, garbage_head, search_level>>
  BY DEF FindSnip, cells, Goto
<1>3. loc' = [loc EXCEPT ![p] = v]
  BY <1>1, <1>2 DEF Core, CallTypes
<1>4. v \in Locs /\ FindOK(v) /\ v.res \in Results(v.op) /\ v.op \in Op /\ pc[p] \in PcOf(v.op)
  BY <1>1, <1>2, MetFacts, LocsOf DEF CallType
<1>5. "find" \in PcOf(v.op)
  BY <1>2, <1>4, PcIs DEF Searching
<1>6. SameHeap
  BY <1>2, MovedSame DEF Others, FreshStart, Core, CallTypes
<1>7. seen' = seen /\ gone' = gone
  BY <1>2, <1>6, CoreHeap, SameHeapInv, FactsNext, Same, LearnSame DEF Core
<1>8. CallAt(p, "find", v)
  BY <1>4 DEF CallAt, Searching
<1>9. Keeps /\ pc[p] # "idle" /\ ~FreshStart(p)
  BY <1>2, <1>7 DEF Keeps, FreshStart
<1>10. Quiet(p) /\ Core' /\ SameHeap
  BY <1>1, <1>2, <1>3, <1>4, <1>5, <1>8, <1>9, QuietMove
<1> QED
  BY <1>10 DEF Moved

\* The cell is taken out of the list, which the dictionary does not notice.
LEMMA SnipOK ==
    ASSUME NEW p \in Proc, Core, FindSnip(p), SnipSucceeds(p)
    PROVE  /\ Core' /\ Evolves /\ Others(p) /\ loc'[p] = loc[p] /\ pc'[p] = "claim"
           /\ Dict' = Dict /\ seen' = seen /\ gone' = gone
           /\ SnipStep(loc[p].pred, loc[p].curr, loc[p].level)
<1>1. PICK v : v = loc[p]
  OBVIOUS
<1>2. /\ pc[p] = "snip" /\ pc' = [pc EXCEPT ![p] = "claim"] /\ loc' = loc /\ Learn
      /\ UNCHANGED <<used, key, top_level, data, profile>>
      /\ UNCHANGED <<garbage_next, garbage_head, search_level>>
      /\ forward' = [forward EXCEPT ![v.pred][v.level] = <<v.succ, FALSE>>]
      /\ forward[v.pred][v.level] = <<v.curr, FALSE>>
  BY <1>1 DEF FindSnip, SnipSucceeds, Store, Holds, Goto, cells
<1>3. /\ v \in Locs /\ v.curr \in Listed /\ v.level \in Level /\ v.level <= top_level[v.curr]
      /\ Marked(v.curr, v.level) /\ SearchOK(p, "snip", v) /\ FindOK(v)
      /\ v.res \in Results(v.op) /\ v.op \in Op /\ pc[p] \in PcOf(v.op) /\ CallType(p)
  BY <1>1, <1>2, MetFacts, LocsOf DEF CallType
<1>4. v.pred \in Nodes /\ v.level <= top_level[v.pred] /\ v.succ = Ptr(v.curr, v.level)
  BY <1>3 DEF SearchOK, PlaceOK
<1>5. Heap /\ HeapFacts /\ DictFacts /\ CallTypes /\ SeenInv
  BY CoreHeap DEF Core
<1>6. /\ pc' \in [Proc -> Labels] /\ loc' \in [Proc -> Locs \cup {Idle}] /\ Others(p)
      /\ pc'[p] = "claim" /\ loc'[p] = v /\ pc'[p] # "idle" /\ pc[p] # "idle"
      /\ ~FreshStart(p) /\ ~FreshStart(p)'
  BY <1>1, <1>2, <1>5 DEF CallTypes, Others, FreshStart, Labels, PcOf
<1>7. Listed' = Listed /\ \A q \in Proc : \A c : Fresh(q, c)' <=> Fresh(q, c)
  BY <1>2, <1>6, ListedStays
<1>8. SnipStep(v.pred, v.curr, v.level)
  BY <1>2, <1>3, <1>4, <1>7 DEF Ptr, Marked, SnipStep
<1>9. Heap' /\ Evolves
  BY <1>5, <1>8, SnipHeap
<1>10. \A c \in AnyCell, m \in Level : Marked(c, m)' <=> Marked(c, m)
  BY <1>5, <1>8, SnipFrom
<1>11. Dict' = Dict
  <2>1. HeapFacts' /\ DictFacts'
    BY <1>9, FactsNext
  <2>2. \A c \in Listed : Marked(c, 0)' <=> Marked(c, 0)
    BY <1>5, <1>10, Constants DEF HeapFacts
  <2>3. \A k \in Key : Dict'[k] = Dict[k]
    BY <1>2, <1>5, <1>7, <2>1, <2>2, DictSame
  <2> QED
    BY <2>3, DictFun
<1>12. seen' = seen /\ gone' = gone
  BY <1>2, <1>5, <1>9, <1>11, FactsNext, LearnSame
<1>13. \A q \in Proc : Learns(q) /\ Rereads(q) /\ Spares(q)
  BY <1>2, <1>4, <1>5, <1>7, <1>10, <1>12, Constants, SparedNew DEF HeapFacts, Learns,
     Rereads, DataSeen, Nodes, Heap, HeapTypes
<1>14. CallType(p)'
  BY <1>1, <1>2, <1>3, <1>6, PcIs DEF Searching, CallType
<1>15. CallOK(p)'
  BY <1>1, <1>3, <1>5, <1>6, <1>9, <1>13, StableAt DEF CallAt, Searching, SearchOK,
     PlaceOK, FollowOK, Rely, Waits, CallOK
<1>16. Core'
  <2>1. GarbageTypes'
    BY <1>2 DEF Core, GarbageTypes
  <2>2. \A q \in Proc : pc[q] # "idle" => \A k \in Key : Dict'[k] \in seen'[q][k]
    BY <1>11, <1>12 DEF Core, SeenInv, SeenOK
  <2>3. seen' \in [Proc -> [Key -> SUBSET (Data \cup {Absent})]] /\ gone' \in [Proc -> BOOLEAN]
    BY <1>5, <1>12 DEF CallTypes
  <2> QED
    BY <1>2, <1>6, <1>9, <1>12, <1>13, <1>14, <1>15, <2>1, <2>2, <2>3, LoudCore
<1> QED
  BY <1>1, <1>6, <1>8, <1>9, <1>11, <1>12, <1>16

-----------------------------------------------------------------------------
\* A cell that is not in the list yet, with pointers into it.
Plain(c) ==
    /\ key[c] \in Key /\ data[c] \in Data
    /\ \A l \in Level :
          /\ l > top_level[c] => Ptr(c, l) = Tail
          /\ l <= top_level[c] =>
                /\ ~Marked(c, l) /\ Ptr(c, l) \in Targets /\ l <= top_level[Ptr(c, l)]
                /\ \/ key[Ptr(c, l)] > key[c]
                   \/ l > 0 /\ key[Ptr(c, l)] = key[c] /\ Marked(Ptr(c, l), l)
Aside ==
    /\ HeapTypes' /\ Listed' = Listed
    /\ \A c \in Listed \cup {Head, Tail} :
          /\ key'[c] = key[c] /\ data'[c] = data[c]
          /\ top_level'[c] = top_level[c] /\ forward'[c] = forward[c]
    /\ \A c \in used' \ Listed : Plain(c)'

LEMMA NewIsPlain ==
    ASSUME Heap, NEW c \in used \ Listed
    PROVE  Plain(c)
BY Facts, Constants DEF Heap, HeapInv, SentinelInv, MarksInv, HeapFacts, PointerInv,
   SortedInv, Plain

LEMMA AsideFrom ==
    ASSUME Heap, Aside
    PROVE  /\ \A c \in Listed \cup {Head, Tail}, l \in Level :
                 /\ Ptr(c, l)' = Ptr(c, l) /\ Marked(c, l)' = Marked(c, l)
                 /\ From(c, l)' = From(c, l)
           /\ \A c \in used' \ Listed, l \in Level : c \notin From(c, l)'
           /\ Linked0' = Linked0
<1>1. HeapFacts /\ ListFacts
  BY Facts
<1>2. ASSUME NEW c \in Listed \cup {Head, Tail}, NEW l \in Level
      PROVE  Ptr(c, l)' = Ptr(c, l) /\ Marked(c, l)' = Marked(c, l)
  BY DEF Aside, Ptr, Marked
<1>3. ASSUME NEW c \in Listed \cup {Head, Tail}, NEW l \in Level
      PROVE  From(c, l)' = From(c, l)
  <2>1. From(c, l) \subseteq Listed
    <3>1. CASE c = Tail
      BY <3>1, TailEnd
    <3>2. CASE c # Tail /\ l <= top_level[c]
      BY <1>1, <3>2 DEF ListFacts, HeapFacts
    <3>3. CASE c # Tail /\ ~(l <= top_level[c])
      <4>1. PICK t, m : t = top_level[c] /\ m = l
        OBVIOUS
      <4>2. t \in Nat /\ m \in Nat /\ ~(m <= t)
        BY <1>1, <3>3, <4>1, Constants DEF HeapFacts
      <4>3. m > t
        BY <4>2
      <4>4. c \in AnyCell /\ Ptr(c, l) = Tail
        BY <1>1, <3>3, <4>1, <4>3, Constants DEF Heap, HeapInv, PointerInv, HeapFacts
      <4> QED
        BY <4>4, LinksAre, ReachedStep, Constants
    <3> QED
      BY <3>1, <3>2, <3>3
  <2>2. PICK n, m : n = Links(l) /\ m = Links(l)'
    OBVIOUS
  <2>3. \A x \in Listed \cup {Head, Tail} : m[x] = n[x]
    BY <1>1, <1>2, <2>2, Constants DEF Links, HeapFacts
  <2>4. From(c, l) = Reached(n, c) /\ From(c, l)' = Reached(m, c)
    BY <2>2 DEF From
  <2> QED
    BY <2>1, <2>3, <2>4, ReachedSame
<1>4. ASSUME NEW c \in used' \ Listed, NEW l \in Level
      PROVE  c \notin From(c, l)'
  <2>1. Plain(c)' /\ Targets' = Targets
    BY DEF Aside, Targets
  <2>2. PICK s, m : s = Ptr(c, l)' /\ m = Links(l)'
    OBVIOUS
  <2>0. top_level'[c] \in Nat /\ c \in AnyCell /\ l \in Nat
    BY HeapNumbers, Constants, <1>4 DEF Aside, HeapTypes
  <2>3. s = Tail \/ (s \in Listed /\ l <= top_level[s])
    BY <1>1, <2>0, <2>1, <2>2 DEF Plain, Targets, Aside
  <2>4. m[c] = s /\ From(c, l)' = Reached(m, c) /\ From(s, l)' = Reached(m, s)
    BY <2>0, <2>2 DEF Links, From
  <2>5. CASE s = Tail
    BY <2>4, <2>5, ReachedStep, Constants
  <2>6. CASE s \in Listed /\ l <= top_level[s]
    BY <1>1, <1>3, <1>4, <2>4, <2>6, ReachedStep DEF HeapFacts, ListFacts
  <2> QED
    BY <2>3, <2>5, <2>6
<1>5. Linked0' = Linked0
  BY <1>3, Constants DEF Linked0, Linked
<1> QED
  BY <1>2, <1>3, <1>4, <1>5

LEMMA AsideHeap ==
    ASSUME Heap, Aside
    PROVE  Heap' /\ Evolves
<1>1. HeapFacts /\ ListFacts
  BY Facts
<1>2. /\ \A c \in Listed \cup {Head, Tail}, l \in Level :
            /\ Ptr(c, l)' = Ptr(c, l) /\ Marked(c, l)' = Marked(c, l)
            /\ From(c, l)' = From(c, l)
      /\ \A c \in used' \ Listed, l \in Level : c \notin From(c, l)'
      /\ Linked0' = Linked0
  BY AsideFrom
<1>3. /\ HeapTypes' /\ Listed' = Listed /\ Targets' = Targets /\ Nodes' = Nodes
      /\ \A c \in Listed \cup {Head, Tail} :
            /\ key'[c] = key[c] /\ data'[c] = data[c] /\ top_level'[c] = top_level[c]
      /\ \A c \in used' \ Listed : Plain(c)'
      /\ \A c \in used' \cup {Head} : c \in Listed \cup {Head} \/ c \in used' \ Listed
      /\ Nodes \subseteq Listed \cup {Head, Tail} /\ Targets \subseteq Listed \cup {Head, Tail}
  BY DEF Aside, Targets, Nodes
<1>4. SentinelInv'
  BY <1>1, <1>2, <1>3 DEF Plain, HeapFacts, Heap, HeapInv, SentinelInv
<1>5. PointerInv'
  <2> SUFFICES ASSUME NEW c \in used' \cup {Head}, NEW l \in Level
               PROVE  /\ l <= top_level'[c] => Ptr(c, l)' \in Targets' /\ l <= top_level'[Ptr(c, l)']
                      /\ l > top_level'[c] => Ptr(c, l)' = Tail
    BY DEF PointerInv
  <2>1. CASE c \in Listed \cup {Head}
    BY <1>1, <1>2, <1>3, <2>1 DEF Heap, HeapInv, PointerInv, HeapFacts
  <2>2. CASE c \in used' \ Listed
    BY <1>3, <2>2 DEF Plain
  <2> QED
    BY <1>3, <2>1, <2>2
<1>6. SortedInv'
  <2> SUFFICES ASSUME NEW c \in used' \cup {Head}, NEW l \in Level, l <= top_level'[c]
               PROVE  \/ key'[Ptr(c, l)'] > key'[c]
                      \/ l > 0 /\ key'[Ptr(c, l)'] = key'[c] /\ Marked(Ptr(c, l), l)'
    BY DEF SortedInv
  <2>1. CASE c \in Listed \cup {Head}
    <3>1. PICK s : s = Ptr(c, l)
      OBVIOUS
    <3>2. Ptr(c, l)' = s /\ s \in Targets /\ key[s] = key'[s] /\ key'[c] = key[c]
      BY <1>1, <1>2, <1>3, <2>1, <3>1 DEF Heap, HeapInv, PointerInv, HeapFacts
    <3>3. \/ key[s] > key[c]
          \/ l > 0 /\ key[s] = key[c] /\ Marked(s, l)
      BY <1>1, <1>3, <2>1, <3>1 DEF Heap, HeapInv, SortedInv, HeapFacts
    <3>4. Marked(s, l) => Marked(s, l)'
      BY <1>2, <1>3, <3>2
    <3>5. Marked(s, l)' => Marked(Ptr(c, l), l)'
      BY <3>2 DEF Marked
    <3> QED
      BY <3>2, <3>3, <3>4, <3>5
  <2>2. CASE c \in used' \ Listed
    BY <1>3, <2>2 DEF Plain
  <2> QED
    BY <1>3, <2>1, <2>2
<1>7. MarksInv'
  <2> SUFFICES ASSUME NEW c \in used', NEW l \in Level, NEW m \in Level,
                      Marked(c, l)', l <= m, m <= top_level'[c]
               PROVE  Marked(c, m)' /\ c \in Listed'
    BY DEF MarksInv
  <2>1. CASE c \in Listed
    BY <1>1, <1>2, <1>3, <2>1 DEF Heap, HeapInv, MarksInv, HeapFacts
  <2>2. CASE c \notin Listed
    <3>1. top_level'[c] \in Nat
      BY HeapNumbers, Constants, <1>3 DEF HeapTypes
    <3>2. l <= top_level'[c]
      BY <3>1, Constants
    <3> QED
      BY <1>3, <2>2, <3>2 DEF Plain
  <2> QED
    BY <2>1, <2>2
<1>8. LiveInv'
  BY <1>2, <1>3, Constants DEF Heap, HeapInv, LiveInv
<1>9. GapInv'
  <2> SUFFICES ASSUME NEW c \in Linked0 \cup {Head}, NEW d \in Linked0
               PROVE  /\ key'[c] < key'[d] => key'[Ptr(c, 0)'] <= key'[d]
                      /\ key'[c] = key'[d] => c = d
    BY <1>2 DEF GapInv
  <2>1. c \in Listed \cup {Head, Tail} /\ d \in Listed \cup {Head, Tail} /\ Ptr(c, 0) \in Listed \cup {Head, Tail}
    BY <1>1 DEF ListFacts
  <2> QED
    BY <1>2, <1>3, <2>1, Constants DEF Heap, HeapInv, GapInv
<1>10. AheadInv'
  <2> SUFFICES ASSUME NEW c \in Nodes, NEW l \in Level, l <= top_level[c],
                      Ptr(c, l) \in Linked0, key[c] < key'[Ptr(c, l)]
               PROVE  Ptr(c, l) \in From(c, 0)
    BY <1>2, <1>3, Constants DEF AheadInv
  <2>1. key'[Ptr(c, l)] = key[Ptr(c, l)]
    BY <1>1, <1>3 DEF ListFacts
  <2> QED
    BY <2>1 DEF Heap, HeapInv, AheadInv
<1>11. AcyclicInv'
  BY <1>1, <1>2 DEF Heap, HeapInv, AcyclicInv, HeapFacts
<1>12. Evolves
  BY <1>2, <1>3, Constants DEF Evolves
<1> QED
  BY <1>3, <1>4, <1>5, <1>6, <1>7, <1>8, <1>9, <1>10, <1>11, <1>12 DEF Heap, HeapInv

LEMMA AsideDict ==
    ASSUME Core, Aside
    PROVE  /\ Heap' /\ Evolves /\ Dict' = Dict /\ DictFacts'
           /\ \A c \in Listed : Marked(c, 0)' <=> Marked(c, 0)
BY CoreHeap, AsideHeap, AsideFrom, Constants, FactsNext, DictSame, DictFun DEF Aside

LEMMA AsideRely ==
    ASSUME Core, Aside, seen' = seen, gone' = gone, NEW q \in Proc, pc[q] # "idle", Spares(q)
    PROVE  Rely(q) /\ Learns(q) /\ Rereads(q)
<1>1. /\ Heap' /\ Evolves /\ Dict' = Dict /\ DictFacts'
      /\ \A c \in Listed : Marked(c, 0)' <=> Marked(c, 0)
  BY AsideDict
<1>2. Learns(q) /\ Rereads(q)
  BY <1>1 DEF Learns, Rereads, DataSeen, Aside
<1>3. Waits(q)
  BY DEF Waits, Core, CallTypes, CallType
<1> QED
  BY <1>1, <1>2, <1>3, CoreHeap DEF Rely, Core

LEMMA AsideCore ==
    ASSUME Core, NEW p \in Proc, Aside, Others(p), pc' \in [Proc -> Labels],
           loc' \in [Proc -> Locs \cup {Idle}], profile' = profile, CallType(p)', GarbageTypes',
           seen' = seen, gone' = gone, pc[p] # "idle", pc'[p] # "idle",
           \A q \in Proc : q # p => Spares(q), CallOK(p)'
    PROVE  Core' /\ Evolves /\ Dict' = Dict
BY AsideDict, AsideRely, LoudCore DEF Core, SeenInv, SeenOK, CallTypes

-----------------------------------------------------------------------------
(* A new cell. *)
AllocStep(p, v, c, t) ==
    /\ pc[p] = "alloc" /\ v = loc[p] /\ c \in Cell \ used /\ t \in Level
    /\ used' = used \cup {c}
    /\ key' = [key EXCEPT ![c] = v.key] /\ data' = [data EXCEPT ![c] = v.data]
    /\ top_level' = [top_level EXCEPT ![c] = t]
    /\ garbage_next' = [garbage_next EXCEPT ![c] = None]
    /\ forward' = [forward EXCEPT ![c] =
                     [l \in Level |-> <<IF l <= t THEN v.succs[l] ELSE Tail, FALSE>>]]
    /\ loc' = [loc EXCEPT ![p] = [v EXCEPT !.cell = c, !.up = 0]]
    /\ pc' = [pc EXCEPT ![p] = "link"]
    /\ UNCHANGED <<search_level, garbage_head, profile, seen, gone>>

AllocMade(p, v, c, t) ==
    /\ Aside /\ \A q \in Proc : Spares(q)
    /\ \A q \in Proc : Fresh(q, c)' => q = p
    /\ Others(p) /\ pc' \in [Proc -> Labels] /\ loc' \in [Proc -> Locs \cup {Idle}]
    /\ pc'[p] = "link" /\ loc'[p] = [v EXCEPT !.cell = c, !.up = 0]
    /\ key'[c] = v.key /\ data'[c] = v.data /\ top_level'[c] = t /\ garbage_next'[c] = None
    /\ \A l \in Level : l <= t => forward'[c][l] = <<v.succs[l], FALSE>>

LEMMA AllocAside ==
    ASSUME Core, NEW p \in Proc, NEW v, NEW c, NEW t, AllocStep(p, v, c, t)
    PROVE  AllocMade(p, v, c, t)
<1> USE Constants
<1>1. /\ pc[p] = "alloc" /\ v = loc[p] /\ c \in Cell \ used /\ t \in Level /\ c \in AnyCell
      /\ used' = used \cup {c} /\ c # Head /\ c # Tail
  BY DEF AllocStep
<1>2. v \in Locs /\ AllocOK(v) /\ CallType(p) /\ v.op \in Op
  BY <1>1, SearchFacts, LocsOf DEF CallOK, CallAt
<1>3. v.data \in Data /\ v.key \in Key /\ v.op = "insert"
  BY <1>1, <1>2, LocsOf, PcIs DEF CallType
<1>4. Heap /\ HeapFacts /\ HeapTypes
  BY CoreHeap DEF Core
<1>5. PICK w : w = [v EXCEPT !.cell = c, !.up = 0]
  OBVIOUS
<1>6. w \in Locs /\ w.cell = c /\ w.up = 0 /\ "link" \in Labels
  BY <1>1, <1>2, <1>5 DEF Locs, Labels, PcOf
<1>7. /\ Others(p) /\ pc' \in [Proc -> Labels] /\ loc' \in [Proc -> Locs \cup {Idle}]
      /\ pc'[p] = "link" /\ loc'[p] = w
  BY <1>5, <1>6, Move DEF AllocStep, Core
<1>8. PICK g : g = [l \in Level |-> <<IF l <= t THEN v.succs[l] ELSE Tail, FALSE>>]
  OBVIOUS
<1>9. /\ \A l \in Level : g[l] = <<IF l <= t THEN v.succs[l] ELSE Tail, FALSE>>
      /\ g \in [Level -> (AnyCell \cup {None}) \X BOOLEAN]
  BY <1>2, <1>8, LocsOf
<1>10. /\ \A x \in AnyCell : x # c => /\ key'[x] = key[x] /\ data'[x] = data[x]
                                      /\ top_level'[x] = top_level[x] /\ forward'[x] = forward[x]
       /\ key'[c] = v.key /\ data'[c] = v.data /\ top_level'[c] = t /\ forward'[c] = g
       /\ HeapTypes'
  <2>1. /\ key' = [key EXCEPT ![c] = v.key] /\ data' = [data EXCEPT ![c] = v.data]
        /\ top_level' = [top_level EXCEPT ![c] = t] /\ forward' = [forward EXCEPT ![c] = g]
    BY <1>8 DEF AllocStep
  <2>2. v.key \in 0 .. MaxKey + 1
    BY <1>3
  <2> QED
    BY <1>1, <1>3, <1>4, <1>9, <2>1, <2>2 DEF HeapTypes
<1>11. garbage_next'[c] = None /\ \A x \in AnyCell : x # c => garbage_next'[x] = garbage_next[x]
  BY <1>1 DEF AllocStep, Core, GarbageTypes
<1>12. \A q \in Proc : ~Fresh(q, c)
  BY <1>1, SearchFacts DEF Fresh, CallOK, CallAt, LinkOK, FreshOK
<1>13. Fresh(p, c)' /\ \A q \in Proc : \A x : q # p \/ x # c => (Fresh(q, x)' <=> Fresh(q, x))
  BY <1>1, <1>6, <1>7 DEF Fresh, Others
<1>14. Listed' = Listed
  BY <1>1, <1>4, <1>13 DEF Listed
<1>15. /\ Targets' = Targets /\ Listed \subseteq AnyCell /\ c \notin Targets
       /\ \A x \in Targets \cup {Head} : x \in AnyCell /\ x # c
  BY <1>1, <1>4, <1>14 DEF Targets, HeapFacts
<1>16. Plain(c)'
  <2>1. key'[c] \in Key /\ data'[c] \in Data
    BY <1>3, <1>10
  <2>2. ASSUME NEW l \in Level, l > t PROVE Ptr(c, l)' = Tail
    <3>1. l \in Nat /\ t \in Nat
      BY <1>1
    <3>2. ~(l <= t)
      BY <2>2, <3>1
    <3>3. g[l] = <<Tail, FALSE>>
      BY <1>9, <3>2
    <3>4. forward'[c][l] = <<Tail, FALSE>>
      BY <1>10, <3>3
    <3> QED
      BY <3>4 DEF Ptr
  <2>3. ASSUME NEW l \in Level, l <= t
        PROVE  /\ ~Marked(c, l)' /\ Ptr(c, l)' \in Targets' /\ l <= top_level'[Ptr(c, l)']
               /\ \/ key'[Ptr(c, l)'] > key'[c]
                  \/ l > 0 /\ key'[Ptr(c, l)'] = key'[c] /\ Marked(Ptr(c, l), l)'
    <3>1. PICK s : s = v.succs[l]
      OBVIOUS
    <3>2. Ptr(c, l)' = s /\ ~Marked(c, l)'
      <4>1. g[l] = <<s, FALSE>>
        BY <1>9, <2>3, <3>1
      <4>2. forward'[c][l] = <<s, FALSE>>
        BY <1>10, <4>1
      <4> QED
        BY <4>2 DEF Ptr, Marked
    <3>3. /\ s \in Targets /\ v.key <= key[s] /\ l <= top_level[s]
          /\ v.key < key[s] \/ (l > 0 /\ Marked(s, l))
      BY <1>2, <3>1 DEF AllocOK, Passed, Beyond
    <3>4. s \in AnyCell /\ s # c /\ key[s] \in Nat /\ v.key \in Nat
      BY <1>3, <1>4, <1>15, <3>3 DEF HeapFacts
    <3>5. v.key < key[s] \/ (l > 0 /\ Marked(s, l) /\ key[s] = v.key)
      BY <3>3, <3>4
    <3>6. key'[s] = key[s] /\ top_level'[s] = top_level[s] /\ (Marked(s, l) => Marked(Ptr(c, l), l)')
      BY <1>10, <3>2, <3>4 DEF Marked
    <3> QED
      BY <1>10, <1>15, <3>2, <3>3, <3>5, <3>6
  <2> QED
    BY <1>10, <2>1, <2>2, <2>3 DEF Plain
<1>17. ASSUME NEW x \in used' \ Listed, x # c PROVE Plain(x)'
  <2>1. x \in used \ Listed /\ x \in AnyCell
    BY <1>1, <1>4, <1>17 DEF HeapFacts
  <2>2. Plain(x)
    BY <1>4, <2>1, NewIsPlain
  <2>3. \A l \in Level : Ptr(x, l)' = Ptr(x, l) /\ Marked(x, l)' = Marked(x, l)
    BY <1>10, <1>17, <2>1 DEF Ptr, Marked
  <2>4. /\ key'[x] = key[x] /\ data'[x] = data[x] /\ top_level'[x] = top_level[x]
    BY <1>10, <1>17, <2>1
  <2>5. ASSUME NEW l \in Level, l <= top_level[x]
        PROVE  /\ ~Marked(x, l)' /\ Ptr(x, l)' \in Targets' /\ l <= top_level'[Ptr(x, l)']
               /\ \/ key'[Ptr(x, l)'] > key'[x]
                  \/ l > 0 /\ key'[Ptr(x, l)'] = key'[x] /\ Marked(Ptr(x, l), l)'
    <3>1. PICK s : s = Ptr(x, l)
      OBVIOUS
    <3>2. /\ s \in Targets /\ l <= top_level[s] /\ ~Marked(x, l)
          /\ \/ key[s] > key[x]
             \/ l > 0 /\ key[s] = key[x] /\ Marked(s, l)
      BY <2>2, <2>5, <3>1 DEF Plain
    <3>3. s \in AnyCell /\ s # c
      BY <1>15, <3>2
    <3>4. key'[s] = key[s] /\ top_level'[s] = top_level[s] /\ Ptr(x, l)' = s
          /\ (Marked(s, l) => Marked(Ptr(x, l), l)')
      BY <1>10, <2>3, <3>1, <3>3 DEF Marked
    <3> QED
      BY <1>15, <2>3, <2>4, <3>2, <3>4
  <2>6. \A l \in Level : l > top_level[x] => Ptr(x, l)' = Tail
    BY <2>2, <2>3 DEF Plain
  <2> QED
    BY <2>2, <2>4, <2>5, <2>6 DEF Plain
<1>18. Aside
  BY <1>1, <1>4, <1>10, <1>14, <1>16, <1>17 DEF HeapFacts, Aside
<1>19. ASSUME NEW q \in Proc PROVE Spares(q)
  <2> SUFFICES ASSUME NEW x \in used, Fresh(q, x)
               PROVE  /\ x \in used' /\ key'[x] = key[x] /\ data'[x] = data[x]
                      /\ top_level'[x] = top_level[x] /\ forward'[x] = forward[x]
                      /\ garbage_next'[x] = garbage_next[x]
                      /\ \A r \in Proc : Fresh(r, x)' => r = q
    BY DEF Spares
  <2>1. x # c /\ x \in AnyCell
    BY <1>1, <1>4 DEF HeapFacts
  <2> QED
    BY <1>1, <1>10, <1>11, <1>13, <2>1, FreshIn
<1>20. ASSUME NEW l \in Level, l <= t PROVE forward'[c][l] = <<v.succs[l], FALSE>>
  BY <1>9, <1>10, <1>20
<1>21. \A q \in Proc : Fresh(q, c)' => q = p
  BY <1>12, <1>13
<1>22. loc'[p] = [v EXCEPT !.cell = c, !.up = 0]
  BY <1>5, <1>7
<1>23. \A l \in Level : l <= t => forward'[c][l] = <<v.succs[l], FALSE>>
  BY <1>20
<1>24. key'[c] = v.key /\ data'[c] = v.data /\ top_level'[c] = t /\ garbage_next'[c] = None
  BY <1>10, <1>11
<1>25. Aside /\ \A q \in Proc : Spares(q)
  BY <1>18, <1>19
<1> QED
  BY <1>7, <1>21, <1>22, <1>23, <1>24, <1>25 DEF AllocMade

LEMMA InsertAllocOK ==
    ASSUME Core, NEW p \in Proc, InsertAlloc(p)
    PROVE  /\ Core' /\ Evolves /\ Others(p) /\ Dict' = Dict /\ seen' = seen /\ gone' = gone
           /\ \E c \in Cell \ used, t \in Level : AllocStep(p, loc[p], c, t)
<1>1. PICK v : v = loc[p]
  OBVIOUS
<1>2. PICK c \in Cell \ used, t \in Level : AllocStep(p, v, c, t)
  BY <1>1, ZenonT(60) DEF InsertAlloc, Goto, Set, AllocStep, history
<1>3. /\ Aside /\ \A q \in Proc : Spares(q)
      /\ \A q \in Proc : Fresh(q, c)' => q = p
      /\ Others(p) /\ pc' \in [Proc -> Labels] /\ loc' \in [Proc -> Locs \cup {Idle}]
      /\ pc'[p] = "link" /\ loc'[p] = [v EXCEPT !.cell = c, !.up = 0]
      /\ key'[c] = v.key /\ data'[c] = v.data /\ top_level'[c] = t /\ garbage_next'[c] = None
      /\ \A l \in Level : l <= t => forward'[c][l] = <<v.succs[l], FALSE>>
  <2>1. AllocMade(p, v, c, t)
    BY <1>2, AllocAside
  <2> QED
    BY <2>1 DEF AllocMade
<1>4. /\ pc[p] = "alloc" /\ used' = used \cup {c} /\ search_level' = search_level
      /\ garbage_head' = garbage_head /\ profile' = profile /\ seen' = seen /\ gone' = gone
      /\ garbage_next' = [garbage_next EXCEPT ![c] = None]
  BY <1>2 DEF AllocStep
<1>5. v \in Locs /\ AllocOK(v) /\ CallType(p) /\ v.op \in Op /\ v.op = "insert"
  BY <1>1, <1>4, SearchFacts, LocsOf, PcIs DEF CallOK, CallAt
<1>6. PICK w : w = [v EXCEPT !.cell = c, !.up = 0]
  OBVIOUS
<1>7. /\ w \in Locs /\ w.cell = c /\ w.up = 0 /\ w.op = v.op /\ w.key = v.key /\ w.data = v.data
      /\ w.res = v.res /\ w.preds = v.preds /\ w.succs = v.succs
  BY <1>5, <1>6, Constants DEF Locs
<1>8. CallType(p)'
  BY <1>1, <1>3, <1>4, <1>5, <1>6, <1>7 DEF PcOf, CallType
<1>9. CallOK(p)'
  <2>1. Rely(p)
    BY <1>3, <1>4, AsideRely
  <2>2. \A m \in Level : Passed(v, m)' /\ Beyond(v, m)'
    BY <1>5, <2>1, StablePassed DEF AllocOK
  <2>3. \A m \in Level : Passed(w, m)' /\ Beyond(w, m)'
    BY <1>7, <2>2 DEF Passed, Beyond
  <2>4. FreshOK(p, w)'
    BY <1>3, <1>4, <1>7, <2>3 DEF FreshOK
  <2>5. CallAt(p, "link", w)'
    BY <1>7, <2>4 DEF CallAt, LinkOK, Searching
  <2> QED
    BY <1>3, <1>6, <2>5 DEF CallOK
<1>10. GarbageTypes'
  BY <1>4 DEF GarbageTypes, Core
<1>11. Core' /\ Evolves /\ Dict' = Dict
  BY <1>3, <1>4, <1>8, <1>9, <1>10, AsideCore
<1> QED
  BY <1>1, <1>2, <1>3, <1>4, <1>11

-----------------------------------------------------------------------------
\* Memory that is freed.
LEMMA FreeIs ==
    ASSUME HeapTypes, GarbageTypes, NEW S, Free(S)
    PROVE  /\ HeapTypes' /\ garbage_next' \in [AnyCell -> AnyCell \cup {None, One}]
           /\ used' = used \ S
           /\ \A c \in AnyCell \ S :
                 /\ key'[c] = key[c] /\ data'[c] = data[c] /\ top_level'[c] = top_level[c]
                 /\ forward'[c] = forward[c] /\ garbage_next'[c] = garbage_next[c]
<1> USE Constants
<1>1. PICK k, d, t, f, g :
        /\ k = Blank.key /\ d = Blank.data /\ t = Blank.top_level /\ f = Blank.forward
        /\ g = Blank.garbage_next
  OBVIOUS
<1>2. \A c \in AnyCell :
        /\ k[c] \in 0 .. MaxKey + 1 /\ d[c] \in Data \cup {Absent} /\ t[c] \in Level
        /\ f[c] \in [Level -> (AnyCell \cup {None}) \X BOOLEAN]
        /\ g[c] \in AnyCell \cup {None, One}
  <2>1. /\ k = [c \in AnyCell |-> IF c = Tail THEN MaxKey + 1 ELSE 0]
        /\ d = [c \in AnyCell |-> Absent] /\ t = [c \in AnyCell |-> TopLevel]
        /\ f = [c \in AnyCell |-> [l \in Level |-> <<IF c = Tail THEN None ELSE Tail, FALSE>>]]
        /\ g = [c \in AnyCell |-> None]
    BY <1>1 DEF Blank
  <2>2. 0 \in 0 .. MaxKey + 1 /\ MaxKey + 1 \in 0 .. MaxKey + 1
    OBVIOUS
  <2> QED
    BY <2>1, <2>2
<1>3. /\ key' = [c \in AnyCell |-> IF c \in S THEN k[c] ELSE key[c]]
      /\ data' = [c \in AnyCell |-> IF c \in S THEN d[c] ELSE data[c]]
      /\ top_level' = [c \in AnyCell |-> IF c \in S THEN t[c] ELSE top_level[c]]
      /\ forward' = [c \in AnyCell |-> IF c \in S THEN f[c] ELSE forward[c]]
      /\ garbage_next' = [c \in AnyCell |-> IF c \in S THEN g[c] ELSE garbage_next[c]]
      /\ used' = used \ S
  BY <1>1 DEF Free, Freed
<1>4. /\ key \in [AnyCell -> 0 .. MaxKey + 1] /\ data \in [AnyCell -> Data \cup {Absent}]
      /\ top_level \in [AnyCell -> Level]
      /\ forward \in [AnyCell -> [Level -> (AnyCell \cup {None}) \X BOOLEAN]]
      /\ garbage_next \in [AnyCell -> AnyCell \cup {None, One}]
      /\ used \in SUBSET Cell
  BY DEF HeapTypes, GarbageTypes
<1>5. /\ key' \in [AnyCell -> 0 .. MaxKey + 1] /\ data' \in [AnyCell -> Data \cup {Absent}]
      /\ top_level' \in [AnyCell -> Level]
  BY <1>2, <1>3, <1>4
<1>6. forward' \in [AnyCell -> [Level -> (AnyCell \cup {None}) \X BOOLEAN]]
  BY <1>2, <1>3, <1>4
<1>7. garbage_next' \in [AnyCell -> AnyCell \cup {None, One}] /\ used' \in SUBSET Cell
  BY <1>2, <1>3, <1>4
<1>8. \A c \in AnyCell \ S :
         /\ key'[c] = key[c] /\ data'[c] = data[c] /\ top_level'[c] = top_level[c]
         /\ forward'[c] = forward[c] /\ garbage_next'[c] = garbage_next[c]
  BY <1>3
<1> QED
  BY <1>3, <1>5, <1>6, <1>7, <1>8 DEF HeapTypes

LEMMA FreeNone ==
    ASSUME HeapTypes, GarbageTypes, Free({})
    PROVE  UNCHANGED <<used, key, data, top_level, forward, garbage_next>>
<1>1. /\ HeapTypes' /\ garbage_next' \in [AnyCell -> AnyCell \cup {None, One}]
      /\ used' = used \ {}
      /\ \A c \in AnyCell \ {} :
            /\ key'[c] = key[c] /\ data'[c] = data[c] /\ top_level'[c] = top_level[c]
            /\ forward'[c] = forward[c] /\ garbage_next'[c] = garbage_next[c]
  BY FreeIs
<1>2. key' = key /\ data' = data /\ top_level' = top_level
  BY <1>1 DEF HeapTypes
<1>3. forward' = forward
  BY <1>1 DEF HeapTypes
<1>4. garbage_next' = garbage_next
  BY <1>1 DEF GarbageTypes
<1> QED
  BY <1>1, <1>2, <1>3, <1>4

\* The insertion starts again, without its cell.
LEMMA LinkLostAside ==
    ASSUME Core, NEW p \in Proc, NEW c, Fresh(p, c), Free({c}), Others(p), pc'[p] = "find"
    PROVE  Aside /\ (\A q \in Proc : q # p => Spares(q)) /\ c \in used \ Listed
<1> USE Constants
<1>1. Heap /\ HeapFacts /\ HeapTypes /\ GarbageTypes
  BY CoreHeap DEF Core
<1>2. /\ HeapTypes' /\ used' = used \ {c}
      /\ \A x \in AnyCell \ {c} :
            /\ key'[x] = key[x] /\ data'[x] = data[x] /\ top_level'[x] = top_level[x]
            /\ forward'[x] = forward[x] /\ garbage_next'[x] = garbage_next[x]
  BY <1>1, FreeIs
<1>3. c \in used
  BY SearchFacts DEF Fresh, CallOK, CallAt, LinkOK, FreshOK
<1>4. c \notin Listed /\ \A r \in Proc : Fresh(r, c) => r = p
  BY <1>3, FreshIn
<1>5. \A q \in Proc : \A x : q # p \/ x # c => (Fresh(q, x)' <=> Fresh(q, x))
  BY DEF Fresh, Others
<1>6. Listed' = Listed
  BY <1>2, <1>4, <1>5 DEF Listed
<1>7. /\ Targets' = Targets /\ Listed \subseteq AnyCell /\ c \notin Targets
      /\ \A x \in Targets \cup {Head} : x \in AnyCell /\ x # c
  BY <1>1, <1>3, <1>4, <1>6 DEF Targets, HeapFacts
<1>8. ASSUME NEW x \in used' \ Listed PROVE Plain(x)'
  <2>1. x \in used \ Listed /\ x \in AnyCell /\ x # c
    BY <1>1, <1>2, <1>8 DEF HeapFacts
  <2>2. Plain(x)
    BY <1>1, <2>1, NewIsPlain
  <2>3. \A l \in Level : Ptr(x, l)' = Ptr(x, l) /\ Marked(x, l)' = Marked(x, l)
    BY <1>2, <2>1 DEF Ptr, Marked
  <2>4. /\ key'[x] = key[x] /\ data'[x] = data[x] /\ top_level'[x] = top_level[x]
    BY <1>2, <2>1
  <2>5. ASSUME NEW l \in Level, l <= top_level[x]
        PROVE  /\ ~Marked(x, l)' /\ Ptr(x, l)' \in Targets' /\ l <= top_level'[Ptr(x, l)']
               /\ \/ key'[Ptr(x, l)'] > key'[x]
                  \/ l > 0 /\ key'[Ptr(x, l)'] = key'[x] /\ Marked(Ptr(x, l), l)'
    <3>1. PICK s : s = Ptr(x, l)
      OBVIOUS
    <3>2. /\ s \in Targets /\ l <= top_level[s] /\ ~Marked(x, l)
          /\ \/ key[s] > key[x]
             \/ l > 0 /\ key[s] = key[x] /\ Marked(s, l)
      BY <2>2, <2>5, <3>1 DEF Plain
    <3>3. s \in AnyCell /\ s # c
      BY <1>7, <3>2
    <3>4. key'[s] = key[s] /\ top_level'[s] = top_level[s] /\ Ptr(x, l)' = s
          /\ (Marked(s, l) => Marked(Ptr(x, l), l)')
      BY <1>2, <2>3, <3>1, <3>3 DEF Marked
    <3> QED
      BY <1>7, <2>3, <2>4, <3>2, <3>4
  <2>6. \A l \in Level : l > top_level[x] => Ptr(x, l)' = Tail
    BY <2>2, <2>3 DEF Plain
  <2> QED
    BY <2>2, <2>4, <2>5, <2>6 DEF Plain
<1>9. Aside
  BY <1>1, <1>2, <1>3, <1>4, <1>6, <1>8 DEF HeapFacts, Aside
<1>10. ASSUME NEW q \in Proc, q # p PROVE Spares(q)
  <2> SUFFICES ASSUME NEW x \in used, Fresh(q, x)
               PROVE  /\ x \in used' /\ key'[x] = key[x] /\ data'[x] = data[x]
                      /\ top_level'[x] = top_level[x] /\ forward'[x] = forward[x]
                      /\ garbage_next'[x] = garbage_next[x]
                      /\ \A r \in Proc : Fresh(r, x)' => r = q
    BY DEF Spares
  <2>1. x # c /\ x \in AnyCell
    BY <1>1, <1>4, <1>10 DEF HeapFacts
  <2> QED
    BY <1>2, <1>5, <2>1, FreshIn
<1> QED
  BY <1>3, <1>4, <1>9, <1>10

LinkLost(p) == InsertLink(p) /\ ~Holds(loc[p].preds[loc[p].up], loc[p].up, loc[p].succs[loc[p].up])

LEMMA InsertLinkLost ==
    ASSUME Core, NEW p \in Proc, LinkLost(p)
    PROVE  /\ Core' /\ Evolves /\ Others(p) /\ Dict' = Dict /\ seen' = seen /\ gone' = gone
           /\ pc[p] = "link" /\ pc'[p] = "find" /\ loc[p].op = "insert"
           /\ loc'[p] = IF loc[p].up = 0 THEN [loc[p] EXCEPT !.cell = None] ELSE loc[p]
<1> USE Constants
<1>1. PICK v : v = loc[p]
  OBVIOUS
<1>2. PICK w : w = IF v.up = 0 THEN [v EXCEPT !.cell = None] ELSE v
  OBVIOUS
<1>3. /\ pc[p] = "link" /\ pc' = [pc EXCEPT ![p] = "find"] /\ loc' = [loc EXCEPT ![p] = w]
      /\ Free(IF v.up = 0 THEN {v.cell} ELSE {}) /\ Learn
      /\ UNCHANGED <<search_level, garbage_head, profile>>
  BY <1>1, <1>2 DEF LinkLost, InsertLink, Goto, Set
<1>4. /\ v \in Locs /\ CallType(p) /\ LinkOK(p, v) /\ v.op \in Op /\ v.op = "insert"
      /\ v.cell \in AnyCell \cup {None} /\ v.up \in Nat
  BY <1>1, <1>3, SearchFacts, LocsOf, PcIs DEF CallOK, CallAt
<1>5. /\ w \in Locs /\ w.op = v.op /\ w.data = v.data /\ w.res = v.res /\ w.key = v.key
      /\ v.up = 0 => w.cell = None
      /\ v.up # 0 => w = v
  BY <1>2, <1>4 DEF Locs
<1>6. /\ pc' \in [Proc -> Labels] /\ loc' \in [Proc -> Locs \cup {Idle}] /\ Others(p)
      /\ pc'[p] = "find" /\ loc'[p] = w
  BY <1>3, <1>5, Move DEF Labels, PcOf, Core
<1>7. CallType(p)'
  BY <1>1, <1>3, <1>4, <1>5, <1>6 DEF PcOf, CallType
<1>8. Heap /\ HeapTypes /\ GarbageTypes /\ CallTypes /\ SeenInv
  BY CoreHeap DEF Core
<1>9. CASE v.up = 0
  <2>1. Free({v.cell}) /\ Fresh(p, v.cell) /\ w.cell = None
    BY <1>1, <1>3, <1>5, <1>9 DEF Fresh
  <2>2. Aside /\ \A q \in Proc : q # p => Spares(q)
    BY <1>6, <2>1, LinkLostAside
  <2>3. Dict' = Dict /\ DictFacts'
    BY <2>2, AsideDict
  <2>4. seen' = seen /\ gone' = gone
    BY <1>3, <1>8, <2>3, LearnSame
  <2>5. GarbageTypes'
    BY <1>3, <1>8, <2>1, FreeIs DEF GarbageTypes
  <2>6. CallOK(p)'
    BY <1>6, <2>1 DEF CallAt, FindOK, Searching, CallOK
  <2>7. Core' /\ Evolves
    BY <1>3, <1>6, <1>7, <2>2, <2>4, <2>5, <2>6, AsideCore
  <2> QED
    BY <1>1, <1>2, <1>3, <1>4, <1>6, <2>3, <2>4, <2>7
<1>10. CASE v.up # 0
  <2>1. UNCHANGED <<used, key, data, top_level, forward, garbage_next>> /\ w = v
    BY <1>3, <1>5, <1>8, <1>10, FreeNone
  <2>2. ~FreshStart(p) /\ ~FreshStart(p)'
    BY <1>1, <1>6, <1>10 DEF FreshStart
  <2>3. SameHeap
    BY <1>6, <2>1, <2>2, MovedSame
  <2>4. Dict' = Dict /\ DictFacts'
    BY <1>8, <2>3, SameHeapInv, FactsNext, Same
  <2>5. seen' = seen /\ gone' = gone
    BY <1>3, <1>8, <2>4, LearnSame
  <2>6. CallAt(p, "find", w)
    BY <1>4, <1>10, <2>1 DEF CallAt, FindOK, Searching, LinkOK
  <2>7. Keeps /\ pc[p] # "idle"
    BY <1>3, <2>1, <2>5 DEF Keeps
  <2>8. w.res \in Results(w.op) /\ "find" \in PcOf(w.op)
    BY <1>1, <1>3, <1>4, <1>5 DEF CallType, PcOf
  <2>9. w.op = loc[p].op /\ w.data = loc[p].data
    BY <1>1, <1>5
  <2>10. Core' /\ SameHeap
    BY <1>3, <1>5, <2>2, <2>6, <2>7, <2>8, <2>9, QuietMove
  <2> QED
    BY <1>1, <1>2, <1>3, <1>4, <1>6, <1>8, <2>3, <2>4, <2>5, <2>10, SameHeapInv
<1> QED
  BY <1>9, <1>10

-----------------------------------------------------------------------------
(* A cell is linked behind another one. *)
LinkStep(q, e, l) ==
    /\ q \in Nodes /\ l \in Level /\ l <= top_level[q] /\ ~Marked(q, l)
    /\ e \in used /\ l <= top_level[e] /\ key[q] < key[e]
    /\ forward' = [forward EXCEPT ![q][l] = <<e, FALSE>>]
    /\ UNCHANGED <<used, key, data, top_level>> /\ Listed' = Listed \cup {e}

LEMMA LinkPtr ==
    ASSUME Heap, NEW q, NEW e, NEW l, LinkStep(q, e, l)
    PROVE  /\ q \in AnyCell /\ q \in used \cup {Head} /\ e \in Cell /\ e \in AnyCell /\ e # q
           /\ q # Tail /\ q \in Linked0 \cup {Head} /\ Targets' = Targets \cup {e}
           /\ Nodes' = Nodes \cup {e}
           /\ \A c \in AnyCell, m \in Level : /\ Marked(c, m)' <=> Marked(c, m)
                                              /\ c # q \/ m # l => Ptr(c, m)' = Ptr(c, m)
           /\ Ptr(q, l)' = e
           /\ \A m \in Level : m # l => \A c : From(c, m)' = From(c, m)
           /\ \A c : From(c, l)' = Reached(Links(l)', c)
           /\ Links(l)'[q] = e
           /\ \A x \in AnyCell : x # q => Links(l)'[x] = Links(l)[x]
           /\ HeapTypes'
<1> USE Constants
<1>1. HeapFacts /\ ListFacts
  BY Facts
<1>2. /\ q \in AnyCell /\ q \in used \cup {Head} /\ e \in Cell /\ e \in AnyCell /\ l \in Level
      /\ q \in Nodes /\ l <= top_level[q] /\ ~Marked(q, l) /\ e \in used /\ key[q] < key[e]
      /\ key[q] \in Nat /\ key[e] \in Nat /\ used' = used
  BY <1>1 DEF HeapFacts, LinkStep
<1>3. e # q /\ q # Tail
  BY <1>1, <1>2 DEF Nodes, HeapFacts
<1>4. q \in Linked0 \cup {Head}
  BY <1>1, <1>2 DEF ListFacts, LinkStep
<1>5. Targets' = Targets \cup {e} /\ Nodes' = Nodes \cup {e}
  BY DEF LinkStep, Targets, Nodes
<1>6. PICK s, b : s = e /\ b = FALSE
  OBVIOUS
<1>7. forward' = [forward EXCEPT ![q][l] = <<s, b>>] /\ s \in AnyCell /\ b \in BOOLEAN
       /\ q \in AnyCell /\ l \in Level
  BY <1>2, <1>6 DEF LinkStep
<1>8. /\ Ptr(q, l)' = s /\ (Marked(q, l)' <=> b)
      /\ \A c \in AnyCell, m \in Level : (c # q \/ m # l) =>
            Ptr(c, m)' = Ptr(c, m) /\ Marked(c, m)' = Marked(c, m) /\ forward'[c][m] = forward[c][m]
      /\ forward' \in [AnyCell -> [Level -> (AnyCell \cup {None}) \X BOOLEAN]]
      /\ \A m : Links(m)' = [x \in AnyCell |-> Ptr(x, m)']
      /\ \A m \in Level : m # l => \A c : From(c, m)' = From(c, m)
      /\ \A c, m : From(c, m)' = Reached(Links(m)', c)
  <2>1. Stored(q, l, s, b)
    BY <1>7, StoreIs
  <2> QED
    BY <2>1 DEF Stored
<1>9. \A c \in AnyCell, m \in Level : Marked(c, m)' <=> Marked(c, m)
  BY <1>2, <1>6, <1>8
<1>10. \A c \in AnyCell, m \in Level : c # q \/ m # l => Ptr(c, m)' = Ptr(c, m)
  BY <1>8
<1>11. HeapTypes'
  BY <1>8 DEF Heap, HeapTypes, LinkStep
<1>12. Links(l)'[q] = e /\ \A x \in AnyCell : x # q => Links(l)'[x] = Links(l)[x]
  <2>1. PICK n, m : n = Links(l) /\ m = Links(l)'
    OBVIOUS
  <2>2. m = [x \in AnyCell |-> Ptr(x, l)'] /\ \A x \in AnyCell : n[x] = Ptr(x, l)
    BY <1>8, <2>1, LinksAre
  <2>3. \A x \in AnyCell : m[x] = Ptr(x, l)'
    BY <2>2
  <2>4. m[q] = e
    BY <1>2, <1>6, <1>8, <2>3
  <2>5. \A x \in AnyCell : x # q => m[x] = n[x]
    BY <1>10, <1>2, <2>2, <2>3
  <2> QED
    BY <2>1, <2>4, <2>5
<1> QED
  BY <1>2, <1>3, <1>4, <1>5, <1>6, <1>8, <1>9, <1>10, <1>11, <1>12

\* What both cases have in common.
LEMMA LinkSorted ==
    ASSUME Heap, NEW q, NEW e, NEW l, LinkStep(q, e, l)
    PROVE  SentinelInv' /\ PointerInv' /\ SortedInv' /\ MarksInv'
<1> USE Constants
<1>0. /\ q \in Nodes /\ l \in Level /\ l <= top_level[q] /\ ~Marked(q, l)
      /\ e \in used /\ l <= top_level[e] /\ key[q] < key[e]
      /\ used' = used /\ key' = key /\ data' = data /\ top_level' = top_level
      /\ Listed' = Listed \cup {e}
  BY DEF LinkStep
<1>1. /\ q \in AnyCell /\ q \in used \cup {Head} /\ e \in Cell /\ e \in AnyCell /\ e # q
      /\ q # Tail /\ Targets' = Targets \cup {e}
      /\ \A c \in AnyCell, m \in Level : /\ Marked(c, m)' <=> Marked(c, m)
                                         /\ c # q \/ m # l => Ptr(c, m)' = Ptr(c, m)
      /\ Ptr(q, l)' = e
  BY LinkPtr
<1>2. HeapFacts
  BY Facts
<1>3. SentinelInv'
  BY <1>0, <1>1 DEF Heap, HeapInv, SentinelInv
<1>4. PointerInv'
  BY <1>0, <1>1, <1>2 DEF Heap, HeapInv, PointerInv, HeapFacts
<1>5. SortedInv'
  <2> SUFFICES ASSUME NEW c \in used \cup {Head}, NEW m \in Level, m <= top_level[c]
               PROVE  \/ key[Ptr(c, m)'] > key[c]
                      \/ m > 0 /\ key[Ptr(c, m)'] = key[c] /\ Marked(Ptr(c, m), m)'
    BY <1>0 DEF SortedInv
  <2>1. CASE c = q /\ m = l
    BY <1>0, <1>1, <2>1
  <2>2. CASE c # q \/ m # l
    <3>1. PICK s : s = Ptr(c, m)
      OBVIOUS
    <3>2. Ptr(c, m)' = s /\ s \in AnyCell
      BY <1>1, <1>2, <2>2, <3>1 DEF HeapFacts, Heap, HeapInv, PointerInv
    <3>3. Marked(s, m) => Marked(Ptr(c, m), m)'
      BY <1>1, <3>2 DEF Marked
    <3> QED
      BY <3>1, <3>2, <3>3 DEF Heap, HeapInv, SortedInv
  <2> QED
    BY <2>1, <2>2
<1>6. MarksInv'
  BY <1>0, <1>1, <1>2 DEF Heap, HeapInv, MarksInv, HeapFacts
<1> QED
  BY <1>3, <1>4, <1>5, <1>6

LEMMA LinkUpHeap ==
    ASSUME Heap, NEW q, NEW e, NEW l, LinkStep(q, e, l), l > 0, e \in Listed
    PROVE  Heap' /\ Evolves /\ Listed' = Listed
<1> USE Constants
<1>0. /\ q \in Nodes /\ l \in Level /\ l # 0 /\ l <= top_level[q] /\ ~Marked(q, l)
      /\ e \in used /\ l <= top_level[e] /\ key[q] < key[e]
      /\ used' = used /\ key' = key /\ data' = data /\ top_level' = top_level
      /\ Listed' = Listed
  BY DEF LinkStep
<1>1. /\ q \in AnyCell /\ q \in used \cup {Head} /\ e \in Cell /\ e \in AnyCell /\ e # q
      /\ q # Tail /\ q \in Linked0 \cup {Head} /\ Targets' = Targets /\ Nodes' = Nodes
      /\ \A c \in AnyCell, m \in Level : /\ Marked(c, m)' <=> Marked(c, m)
                                         /\ c # q \/ m # l => Ptr(c, m)' = Ptr(c, m)
      /\ Ptr(q, l)' = e
      /\ \A m \in Level : m # l => \A c : From(c, m)' = From(c, m)
      /\ \A c : From(c, l)' = Reached(Links(l)', c)
      /\ Links(l)'[q] = e
      /\ \A x \in AnyCell : x # q => Links(l)'[x] = Links(l)[x]
      /\ HeapTypes'
  BY <1>0, LinkPtr DEF Targets, Nodes
<1>2. HeapFacts /\ ListFacts
  BY Facts
<1>3. SentinelInv' /\ PointerInv' /\ SortedInv' /\ MarksInv'
  BY LinkSorted
<1>4. Linked0' = Linked0 /\ \A c : From(c, 0)' = From(c, 0)
  BY <1>0, <1>1 DEF Linked0, Linked
<1>5. \A c \in AnyCell : Ptr(c, 0)' = Ptr(c, 0)
  BY <1>0, <1>1
<1>6. LiveInv' /\ GapInv'
  BY <1>0, <1>1, <1>2, <1>4, <1>5 DEF Heap, HeapInv, LiveInv, HeapFacts, ListFacts, GapInv
<1>7. AheadInv'
  <2> SUFFICES ASSUME NEW c \in Nodes, NEW m \in Level, m <= top_level[c],
                      Ptr(c, m)' \in Linked0, key[c] < key[Ptr(c, m)']
               PROVE  Ptr(c, m)' \in From(c, 0)
    BY <1>0, <1>1, <1>4 DEF AheadInv
  <2>1. CASE c = q /\ m = l
    BY <1>0, <1>1, <1>2, <2>1 DEF ListFacts
  <2>2. CASE c # q \/ m # l
    <3>1. Ptr(c, m)' = Ptr(c, m)
      BY <1>1, <1>2, <2>2 DEF HeapFacts
    <3> QED
      BY <3>1 DEF Heap, HeapInv, AheadInv
  <2> QED
    BY <2>1, <2>2
<1>8. AcyclicInv'
  <2> SUFFICES ASSUME NEW c \in used, c \in From(c, l)' PROVE FALSE
    BY <1>0, <1>1 DEF Heap, HeapInv, AcyclicInv
  <2>1. c \in AnyCell /\ c \notin From(c, l)
    BY <1>0, <1>2 DEF Heap, HeapInv, AcyclicInv, HeapFacts
  <2>2. PICK n, m : n = Links(l) /\ m = Links(l)'
    OBVIOUS
  <2>3. /\ From(c, l) = Reached(n, c) /\ From(e, l) = Reached(n, e) /\ From(c, l)' = Reached(m, c)
        /\ m[q] = e /\ \A x \in AnyCell : x # q => m[x] = n[x]
    BY <1>1, <2>2 DEF From
  <2>4. /\ From(c, l)' \subseteq From(c, l) \cup {e} \cup From(e, l)
        /\ q # c /\ q \notin From(c, l) => From(c, l)' = From(c, l)
    BY <1>1, <2>1, <2>3, ReachedLink
  <2>5. q = c \/ q \in From(c, l)
    BY <2>1, <2>4
  <2>6. l <= top_level[c]
    <3>1. CASE q = c
      BY <1>0, <3>1
    <3>2. CASE q \in From(c, l)
      <4>1. SUFFICES ASSUME ~(l <= top_level[c]) PROVE FALSE
        OBVIOUS
      <4>a. top_level[c] \in Nat /\ l \in Nat
        BY <1>0, <1>2, <2>1 DEF HeapFacts
      <4>2. l > top_level[c]
        BY <4>1, <4>a
      <4>3. Ptr(c, l) = Tail
        BY <1>0, <4>2 DEF Heap, HeapInv, PointerInv
      <4>4. From(c, l) = {}
        BY <2>1, <4>3, LinksAre, ReachedStep
      <4> QED
        BY <3>2, <4>4
    <3> QED
      BY <2>5, <3>1, <3>2
  <2>7. key[c] <= key[q]
    <3>1. key[c] \in Nat
      BY <1>2, <2>1 DEF HeapFacts
    <3>2. CASE q = c
      BY <3>1, <3>2
    <3>3. CASE q \in From(c, l)
      BY <1>0, <1>2, <2>6, <3>3 DEF ListFacts
    <3> QED
      BY <2>5, <3>2, <3>3
  <2>8. c = e \/ c \in From(e, l)
    BY <2>1, <2>4
  <2>9. key[e] <= key[c]
    BY <1>0, <1>2, <2>1, <2>8 DEF ListFacts, HeapFacts
  <2>10. key[q] \in Nat /\ key[e] \in Nat /\ key[c] \in Nat
    BY <1>1, <1>2, <2>1 DEF HeapFacts
  <2> QED
    BY <1>0, <2>7, <2>9, <2>10
<1>9. Evolves
  BY <1>0, <1>1, <1>2, <1>4 DEF HeapFacts, Evolves
<1> QED
  BY <1>0, <1>1, <1>3, <1>6, <1>7, <1>8, <1>9 DEF Heap, HeapInv

\* The new cell comes into the list, after q.
LinkNew(q, e) == /\ LinkStep(q, e, 0) /\ e \notin Listed /\ Ptr(e, 0) = Ptr(q, 0)
                 /\ key[e] < key[Ptr(q, 0)]

LEMMA LinkNewFrom ==
    ASSUME Heap, NEW q, NEW e, LinkNew(q, e)
    PROVE  /\ \A c \in AnyCell : From(c, 0) \subseteq From(c, 0)'
           /\ \A c \in AnyCell : From(c, 0)' \subseteq From(c, 0) \cup {e}
           /\ e \in From(q, 0)' /\ From(q, 0) = From(e, 0) /\ e \notin From(e, 0)'
           /\ Linked0' = Linked0 \cup {e}
<1> USE Constants
<1>0. /\ LinkStep(q, e, 0) /\ e \notin Listed /\ Ptr(e, 0) = Ptr(q, 0)
      /\ key[e] < key[Ptr(q, 0)] /\ e \in used /\ key[q] < key[e]
  BY DEF LinkNew, LinkStep
<1>1. /\ q \in AnyCell /\ e \in Cell /\ e \in AnyCell /\ e # q
      /\ q \in Linked0 \cup {Head}
      /\ \A c : From(c, 0)' = Reached(Links(0)', c)
      /\ Links(0)'[q] = e
      /\ \A x \in AnyCell : x # q => Links(0)'[x] = Links(0)[x]
  BY <1>0, LinkPtr
<1>2. PICK n, m : n = Links(0) /\ m = Links(0)'
  OBVIOUS
<1>3. /\ m[q] = e /\ \A x \in AnyCell : x # q => m[x] = n[x]
      /\ \A c : From(c, 0)' = Reached(m, c)
      /\ \A c : From(c, 0) = Reached(n, c)
  BY <1>1, <1>2 DEF From
<1>4. n[e] = n[q]
  BY <1>0, <1>1, <1>2, LinksAre
<1>5. \A c \in AnyCell :
         /\ Reached(n, c) \subseteq Reached(m, c)
         /\ Reached(m, c) \subseteq Reached(n, c) \cup {e}
         /\ q # c /\ q \notin Reached(n, c) => Reached(m, c) = Reached(n, c)
         /\ q = c \/ q \in Reached(n, c) => e \in Reached(m, c)
  BY <1>1, <1>3, <1>4, ReachedLink
<1>6. Reached(n, q) = Reached(n, e)
  <2>1. /\ n[q] \in Cell => Reached(n, q) = {n[q]} \cup Reached(n, n[q])
        /\ n[q] \notin Cell => Reached(n, q) = {}
    BY ReachedStep
  <2>2. /\ n[e] \in Cell => Reached(n, e) = {n[e]} \cup Reached(n, n[e])
        /\ n[e] \notin Cell => Reached(n, e) = {}
    BY ReachedStep
  <2>3. PICK s : s = n[q]
    OBVIOUS
  <2>4. n[e] = s
    BY <1>4, <2>3
  <2> QED
    BY <2>1, <2>2, <2>3, <2>4
<1>7. e \notin Reached(m, e)
  <2>1. HeapFacts /\ ListFacts
    BY Facts
  <2>2. q \notin From(e, 0)
    <3>1. SUFFICES ASSUME q \in From(e, 0) PROVE FALSE
      OBVIOUS
    <3>2. key[e] < key[q] /\ key[e] \in Nat /\ key[q] \in Nat
      BY <1>0, <1>1, <2>1, <3>1 DEF ListFacts, HeapFacts
    <3> QED
      BY <1>0, <3>2
  <2>3. e \notin From(e, 0)
    BY <1>0 DEF Heap, HeapInv, AcyclicInv
  <2> QED
    BY <1>1, <1>3, <1>5, <2>2, <2>3
<1>8. Linked0' = Linked0 \cup {e}
  BY <1>1, <1>3, <1>5 DEF Linked0, Linked
<1> QED
  BY <1>1, <1>3, <1>5, <1>6, <1>7, <1>8

LEMMA LinkNewGap ==
    ASSUME Heap, NEW q, NEW e, LinkNew(q, e)
    PROVE  GapInv'
<1> USE Constants
<1>0. /\ LinkStep(q, e, 0) /\ e \notin Listed /\ Ptr(e, 0) = Ptr(q, 0)
      /\ key[e] < key[Ptr(q, 0)] /\ e \in used /\ key[q] < key[e] /\ key' = key
  BY DEF LinkNew, LinkStep
<1>1. /\ q \in AnyCell /\ e \in Cell /\ e \in AnyCell /\ e # q
      /\ q \in Linked0 \cup {Head} /\ Ptr(q, 0)' = e
      /\ \A c \in AnyCell : c # q => Ptr(c, 0)' = Ptr(c, 0)
  BY <1>0, LinkPtr
<1>2. Linked0' = Linked0 \cup {e}
  BY LinkNewFrom
<1>3. HeapFacts /\ ListFacts
  BY Facts
<1>4. PICK s : s = Ptr(q, 0)
  OBVIOUS
<1>5. s \in Linked0 \cup {Tail} /\ s \in AnyCell /\ key[s] \in Nat /\ key[q] \in Nat /\ key[e] \in Nat
      /\ key[e] \in Key /\ key[e] < key[s] /\ key[Head] = 0
  BY <1>0, <1>1, <1>3, <1>4 DEF HeapFacts, ListFacts
\* Nothing of the list is between q and its successor.
<1>6. ASSUME NEW d \in Linked0, key[q] < key[d] PROVE key[s] <= key[d] /\ key[d] \in Nat /\ key[e] < key[d]
  BY <1>1, <1>3, <1>4, <1>5, <1>6 DEF Heap, HeapInv, GapInv, HeapFacts, ListFacts
\* Before q the list is as it was.
<1>7. ASSUME NEW c \in Linked0 \cup {Head}, c # q, key[c] < key[e]
      PROVE  key[Ptr(c, 0)] <= key[e]
  <2>1. c \in AnyCell /\ key[c] \in Nat /\ Ptr(c, 0) \in AnyCell /\ key[Ptr(c, 0)] \in Nat
    BY <1>3 DEF HeapFacts, ListFacts
  <2>2. CASE key[q] < key[c]
    BY <1>5, <1>6, <1>7, <2>1, <2>2
  <2>3. CASE key[c] < key[q]
    BY <1>0, <1>1, <1>5, <2>1, <2>3 DEF Heap, HeapInv, GapInv
  <2>4. CASE key[c] = key[q]
    BY <1>1, <1>7, <2>4 DEF Heap, HeapInv, GapInv
  <2> QED
    BY <1>5, <2>1, <2>2, <2>3, <2>4
<1>8. ASSUME NEW d \in Linked0 \cup {Head} PROVE key[d] # key[e]
  BY <1>0, <1>3, <1>5, <1>6 DEF HeapFacts, ListFacts
<1> SUFFICES ASSUME NEW c \in Linked0 \cup {e} \cup {Head}, NEW d \in Linked0 \cup {e}
             PROVE  /\ key[c] < key[d] => key[Ptr(c, 0)'] <= key[d]
                    /\ key[c] = key[d] => c = d
  BY <1>0, <1>2 DEF GapInv
<1>9. key[c] = key[d] => c = d
  BY <1>8 DEF Heap, HeapInv, GapInv
<1>10. ASSUME key[c] < key[d] PROVE key[Ptr(c, 0)'] <= key[d]
  BY <1>0, <1>1, <1>3, <1>4, <1>5, <1>6, <1>7, <1>10 DEF HeapFacts, ListFacts, Heap,
     HeapInv, GapInv
<1> QED
  BY <1>9, <1>10

LEMMA LinkNewHeap ==
    ASSUME Heap, NEW q, NEW e, LinkNew(q, e)
    PROVE  Heap' /\ Evolves
<1> USE Constants
<1>0. /\ LinkStep(q, e, 0) /\ e \notin Listed /\ Ptr(e, 0) = Ptr(q, 0) /\ ~Marked(q, 0)
      /\ key[e] < key[Ptr(q, 0)] /\ e \in used /\ key[q] < key[e] /\ key' = key
      /\ used' = used /\ key' = key /\ data' = data /\ top_level' = top_level
      /\ Listed' = Listed \cup {e} /\ q \in Nodes
  BY DEF LinkNew, LinkStep
<1>1. /\ q \in AnyCell /\ q \in used \cup {Head} /\ e \in Cell /\ e \in AnyCell /\ e # q
      /\ q # Tail /\ q \in Linked0 \cup {Head} /\ Nodes' = Nodes \cup {e}
      /\ \A c \in AnyCell, m \in Level : /\ Marked(c, m)' <=> Marked(c, m)
                                         /\ c # q \/ m # 0 => Ptr(c, m)' = Ptr(c, m)
      /\ Ptr(q, 0)' = e
      /\ \A m \in Level : m # 0 => \A c : From(c, m)' = From(c, m)
      /\ HeapTypes'
  BY <1>0, LinkPtr
<1>2. HeapFacts /\ ListFacts
  BY Facts
<1>3. SentinelInv' /\ PointerInv' /\ SortedInv' /\ MarksInv'
  BY <1>0, LinkSorted
<1>4. /\ \A c \in AnyCell : From(c, 0) \subseteq From(c, 0)'
      /\ \A c \in AnyCell : From(c, 0)' \subseteq From(c, 0) \cup {e}
      /\ e \in From(q, 0)' /\ From(q, 0) = From(e, 0) /\ e \notin From(e, 0)'
      /\ Linked0' = Linked0 \cup {e}
  BY LinkNewFrom
<1>5. LiveInv'
  BY <1>0, <1>1, <1>2, <1>4 DEF Heap, HeapInv, LiveInv, HeapFacts
<1>6. GapInv'
  BY LinkNewGap
<1>7. AheadInv'
  <2> SUFFICES ASSUME NEW c \in Nodes \cup {e}, NEW m \in Level, m <= top_level[c],
                      Ptr(c, m)' \in Linked0 \cup {e}, key[c] < key[Ptr(c, m)']
               PROVE  Ptr(c, m)' \in From(c, 0)'
    BY <1>0, <1>1, <1>4 DEF AheadInv
  <2>0. c \in AnyCell /\ c \in used \cup {Head}
    BY <1>0, <1>1, <1>2 DEF HeapFacts
  <2>1. CASE c = q /\ m = 0
    BY <1>1, <1>4, <2>1
  <2>2. CASE c # q \/ m # 0
    <3>1. PICK t : t = Ptr(c, m)
      OBVIOUS
    <3>2. Ptr(c, m)' = t
      BY <1>1, <2>0, <2>2, <3>1
    <3>3. t \in Targets
      BY <2>0, <3>1 DEF Heap, HeapInv, PointerInv
    <3>4. t # e
      BY <1>0, <1>1, <3>3 DEF Targets
    <3>5. t \in Linked0 /\ key[c] < key[t]
      BY <3>2, <3>4
    <3>6. CASE c # e
      BY <1>4, <2>0, <3>1, <3>2, <3>5, <3>6 DEF Heap, HeapInv, AheadInv
    <3>7. CASE c = e
      BY <1>0, <1>1, <1>2, <1>4, <3>2, <3>5, <3>7 DEF HeapFacts, ListFacts
    <3> QED
      BY <3>6, <3>7
  <2> QED
    BY <2>1, <2>2
<1>8. AcyclicInv'
  BY <1>0, <1>1, <1>2, <1>4 DEF Heap, HeapInv, AcyclicInv, HeapFacts
<1>9. Evolves
  BY <1>0, <1>1, <1>2, <1>4 DEF HeapFacts, Evolves
<1> QED
  BY <1>1, <1>3, <1>5, <1>6, <1>7, <1>8, <1>9 DEF Heap, HeapInv

LEMMA DictGrows ==
    ASSUME DictFacts, DictFacts', HeapFacts, NEW e, Listed' = Listed \cup {e}, e \notin Listed,
           NEW k \in Key, key'[e] # k,
           \A c \in Listed : key'[c] = key[c] /\ data'[c] = data[c] /\ (Marked(c, 0)' <=> Marked(c, 0))
    PROVE  Dict'[k] = Dict[k]
BY DEF DictFacts

\* The step, with what the call knows of it.
LinkWon(p) == InsertLink(p) /\ Holds(loc[p].preds[loc[p].up], loc[p].up, loc[p].succs[loc[p].up])
WonAt(v) == IF v.up = top_level[v.cell] THEN "bump" ELSE "link"
WonLoc(v) == IF v.up = top_level[v.cell] THEN ForgetAll(v) ELSE [v EXCEPT !.up = v.up + 1]

LEMMA WonFacts ==
    ASSUME Core, NEW p \in Proc, LinkWon(p), NEW v, v = loc[p]
    PROVE  /\ pc[p] = "link" /\ v \in Locs /\ CallType(p) /\ v.op = "insert" /\ LinkOK(p, v)
           /\ v.cell \in used /\ v.up <= top_level[v.cell] /\ key[v.cell] = v.key
           /\ \A m \in Level : Passed(v, m)
           /\ v.up = 0 => FreshOK(p, v) /\ Fresh(p, v.cell) /\ v.cell \notin Listed
           /\ v.up # 0 => v.cell \in Listed
           /\ LinkStep(v.preds[v.up], v.cell, v.up)
           /\ Ptr(v.preds[v.up], v.up) = v.succs[v.up]
           /\ Others(p) /\ pc' \in [Proc -> Labels] /\ loc' \in [Proc -> Locs \cup {Idle}]
           /\ pc'[p] = WonAt(v) /\ loc'[p] = WonLoc(v) /\ WonLoc(v) \in Locs
           /\ WonLoc(v).op = v.op /\ WonLoc(v).key = v.key /\ WonLoc(v).data = v.data
           /\ WonLoc(v).res = v.res /\ WonLoc(v).cell = v.cell
           /\ v.up # top_level[v.cell] => /\ WonLoc(v).preds = v.preds /\ WonLoc(v).succs = v.succs
                                          /\ WonLoc(v).up = v.up + 1
           /\ Learn /\ profile' = profile /\ UNCHANGED <<garbage_next, garbage_head, search_level>>
<1> USE Constants
<1>1. /\ pc[p] = "link" /\ pc' = [pc EXCEPT ![p] = WonAt(v)] /\ loc' = [loc EXCEPT ![p] = WonLoc(v)]
      /\ forward[v.preds[v.up]][v.up] = <<v.succs[v.up], FALSE>>
      /\ forward' = [forward EXCEPT ![v.preds[v.up]][v.up] = <<v.cell, FALSE>>]
      /\ UNCHANGED <<used, key, top_level, data, garbage_next, garbage_head, search_level, profile>>
      /\ Learn
  BY DEF LinkWon, InsertLink, Goto, Set, Holds, Store, WonAt, WonLoc, cells
<1>2. /\ v \in Locs /\ CallType(p) /\ LinkOK(p, v) /\ v.op \in Op /\ v.op = "insert"
      /\ v.up \in Level /\ v.up \in Nat /\ v.key \in Nat /\ v.key \in Key
  BY <1>1, SearchFacts, LocsOf, PcIs, ZenonT(60) DEF CallOK, CallAt
<1>3. Heap /\ HeapFacts
  BY CoreHeap
<1>4. /\ v.cell \in used /\ key[v.cell] = v.key /\ \A m \in Level : Passed(v, m)
  BY <1>2, <1>3 DEF LinkOK, FreshOK, OwnOK, HeapFacts
<1>5. v.up = 0 => FreshOK(p, v) /\ Fresh(p, v.cell) /\ v.cell \notin Listed
  BY <1>1, <1>2, <1>4, FreshIn DEF LinkOK, Fresh
<1>6. v.up # 0 => v.cell \in Listed
  BY <1>2 DEF LinkOK, OwnOK
<1>7. v.cell \in AnyCell /\ top_level[v.cell] \in Nat /\ top_level[v.cell] \in Level
  BY <1>3, <1>4 DEF HeapFacts
<1>8. v.up <= top_level[v.cell]
  BY <1>2, <1>7 DEF LinkOK, OwnOK
<1>9. PICK w, at : w = WonLoc(v) /\ at = WonAt(v)
  OBVIOUS
<1>10. /\ w \in Locs /\ w.op = v.op /\ w.key = v.key /\ w.data = v.data /\ w.res = v.res /\ w.cell = v.cell
       /\ v.up # top_level[v.cell] => w.preds = v.preds /\ w.succs = v.succs /\ w.up = v.up + 1
  <2>1. CASE v.up = top_level[v.cell]
    BY <1>2, <1>9, <2>1, ForgetIs DEF WonLoc
  <2>2. CASE v.up # top_level[v.cell]
    <3>1. w = [v EXCEPT !.up = v.up + 1]
      BY <1>9, <2>2 DEF WonLoc
    <3>2. v.up + 1 \in Level
      <4>1. PICK t : t = top_level[v.cell]
        OBVIOUS
      <4>2. t \in Nat /\ t <= TopLevel /\ v.up <= t /\ v.up # t
        BY <1>7, <1>8, <2>2, <4>1
      <4> QED
        BY <1>2, <4>2 DEF Level
    <3> QED
      BY <1>2, <3>1, <3>2 DEF Locs
  <2> QED
    BY <2>1, <2>2
<1>11. at \in Labels /\ (at = "bump" \/ at = "link")
  BY <1>9 DEF WonAt, Labels, PcOf
<1>12. /\ pc' \in [Proc -> Labels] /\ loc' \in [Proc -> Locs \cup {Idle}] /\ Others(p)
       /\ pc'[p] = at /\ loc'[p] = w
  BY <1>1, <1>9, <1>10, <1>11, Move DEF Core
<1>13. Ptr(v.preds[v.up], v.up) = v.succs[v.up] /\ ~Marked(v.preds[v.up], v.up)
  <2>1. forward[v.preds[v.up]][v.up] = <<v.succs[v.up], FALSE>>
    BY <1>1
  <2> QED
    BY <2>1 DEF Ptr, Marked
<1>14. Listed' = Listed \cup {v.cell}
  <2>1. ~FreshStart(p)'
    BY <1>2, <1>9, <1>10, <1>12 DEF FreshStart, WonAt
  <2>2. \A c : ~Fresh(p, c)' /\ (Fresh(p, c) => c = v.cell)
    BY <2>1 DEF Fresh, FreshStart
  <2>3. \A r \in Proc : \A c : r # p => (Fresh(r, c)' <=> Fresh(r, c))
    BY <1>12 DEF Others, Fresh
  <2>4. \A r \in Proc : Fresh(r, v.cell) => r = p
    BY <1>5, <1>6 DEF FreshOK, Listed
  <2>5. used' = used
    BY <1>1
  <2>6. ASSUME NEW c \in Listed' PROVE c \in Listed \cup {v.cell}
    BY <2>2, <2>3, <2>5 DEF Listed
  <2>7. ASSUME NEW c \in Listed PROVE c \in Listed'
    BY <2>2, <2>3, <2>5 DEF Listed
  <2>8. v.cell \in Listed'
    BY <1>4, <2>2, <2>3, <2>4, <2>5 DEF Listed
  <2> QED
    BY <2>6, <2>7, <2>8
<1>15. LinkStep(v.preds[v.up], v.cell, v.up)
  BY <1>1, <1>2, <1>4, <1>8, <1>13, <1>14 DEF Passed, LinkStep
<1> QED
  BY <1>1, <1>2, <1>4, <1>5, <1>6, <1>8, <1>9, <1>10, <1>12, <1>13, <1>15

LEMMA WonHeap ==
    ASSUME Core, NEW p \in Proc, LinkWon(p), NEW v, v = loc[p]
    PROVE  /\ Heap' /\ Evolves
           /\ v.up = 0 => /\ LinkNew(v.preds[0], v.cell)
                          /\ \A m \in Level : m <= top_level[v.cell] => ~Marked(v.cell, m)
<1>1. /\ v \in Locs /\ LinkOK(p, v) /\ v.cell \in used /\ key[v.cell] = v.key
      /\ v.up = 0 => FreshOK(p, v) /\ Fresh(p, v.cell) /\ v.cell \notin Listed
      /\ v.up # 0 => v.cell \in Listed
      /\ LinkStep(v.preds[v.up], v.cell, v.up)
      /\ Ptr(v.preds[v.up], v.up) = v.succs[v.up]
  BY WonFacts
<1>2. Heap /\ v.up \in Nat /\ v.up \in Level
  BY <1>1, CoreHeap, LocsOf
<1>3. CASE v.up = 0
  <2>1. FreshOK(p, v) /\ Ptr(v.preds[0], 0) = v.succs[0] /\ LinkStep(v.preds[0], v.cell, 0)
    BY <1>1, <1>3
  <2>2. 0 <= top_level[v.cell] /\ 0 \in Level
    BY <1>1, <1>2, Constants, Facts DEF HeapFacts
  <2>3. forward[v.cell][0] = <<v.succs[0], FALSE>> /\ Beyond(v, 0)
    BY <2>1, <2>2 DEF FreshOK
  <2>4. Ptr(v.cell, 0) = v.succs[0]
    BY <2>3 DEF Ptr
  <2>5. v.key < key[v.succs[0]]
    BY <2>3 DEF Beyond
  <2>6. LinkNew(v.preds[0], v.cell)
    BY <1>1, <1>3, <2>1, <2>4, <2>5 DEF LinkNew
  <2>7. ASSUME NEW m \in Level, m <= top_level[v.cell] PROVE ~Marked(v.cell, m)
    <3>1. forward[v.cell][m] = <<v.succs[m], FALSE>>
      BY <2>1, <2>7 DEF FreshOK
    <3> QED
      BY <3>1 DEF Marked
  <2> QED
    BY <1>2, <2>6, <2>7, LinkNewHeap
<1>4. CASE v.up # 0
  BY <1>1, <1>2, <1>4, LinkUpHeap
<1> QED
  BY <1>3, <1>4

\* At the lowest level the key comes into the dictionary, at another one nothing changes.
LEMMA WonDict ==
    ASSUME Core, NEW p \in Proc, LinkWon(p), NEW v, v = loc[p]
    PROVE  /\ v.up # 0 => Dict' = Dict
           /\ v.up = 0 => /\ Dict[v.key] = Absent /\ Dict'[v.key] = v.data
                          /\ \A k \in Key : k # v.key => Dict'[k] = Dict[k]
<1> USE Constants
<1>1. /\ v \in Locs /\ v.cell \in used /\ key[v.cell] = v.key /\ \A m \in Level : Passed(v, m)
      /\ v.up = 0 => FreshOK(p, v) /\ Fresh(p, v.cell) /\ v.cell \notin Listed
      /\ v.up # 0 => v.cell \in Listed
      /\ LinkStep(v.preds[v.up], v.cell, v.up)
  BY WonFacts
<1>2. /\ Heap' /\ Heap
      /\ v.up = 0 => /\ LinkNew(v.preds[0], v.cell)
                     /\ \A m \in Level : m <= top_level[v.cell] => ~Marked(v.cell, m)
  BY WonHeap, CoreHeap
<1>3. HeapFacts /\ ListFacts /\ DictFacts /\ HeapFacts' /\ DictFacts'
  BY <1>2, Facts, FactsNext
<1>4. /\ key' = key /\ data' = data /\ Listed' = Listed \cup {v.cell}
  BY <1>1 DEF LinkStep
<1>5. \A c \in AnyCell : Marked(c, 0)' <=> Marked(c, 0)
  BY <1>1, <1>2, LinkPtr
<1>6. Listed \subseteq AnyCell /\ v.key \in Key /\ v.cell \in AnyCell
  BY <1>1, <1>3, LocsOf DEF HeapFacts
<1>7. CASE v.up # 0
  BY <1>1, <1>3, <1>4, <1>5, <1>6, <1>7, DictSame, DictFun
<1>8. CASE v.up = 0
  <2>1. /\ FreshOK(p, v) /\ v.cell \notin Listed /\ LinkNew(v.preds[0], v.cell)
        /\ ~Marked(v.cell, 0)
    BY <1>1, <1>2, <1>3, <1>6, <1>8 DEF HeapFacts
  <2>2. Dict'[v.key] = v.data
    BY <1>1, <1>3, <1>4, <1>5, <1>6, <2>1 DEF FreshOK, DictFacts
  <2>3. ASSUME NEW k \in Key, k # v.key PROVE Dict'[k] = Dict[k]
    BY <1>1, <1>3, <1>4, <1>5, <1>6, <2>1, <2>3, DictGrows
  <2>4. Dict[v.key] = Absent
    <3>1. PICK q : q = v.preds[0]
      OBVIOUS
    <3>2. LinkStep(q, v.cell, 0) /\ key[v.cell] < key[Ptr(q, 0)]
      BY <2>1, <3>1 DEF LinkNew
    <3>3. q \in Linked0 \cup {Head} /\ key[q] < v.key
      BY <1>1, <1>2, <3>2, LinkPtr DEF LinkStep
    <3> QED
      BY <1>1, <1>2, <1>6, <3>2, <3>3, DictAbsent
  <2> QED
    BY <1>8, <2>2, <2>3, <2>4
<1> QED
  BY <1>7, <1>8

LEMMA InsertLinkWon ==
    ASSUME Core, NEW p \in Proc, LinkWon(p), NEW v, v = loc[p]
    PROVE  /\ Core' /\ Evolves
           /\ v.up # 0 => seen' = seen /\ gone' = gone
           /\ \A q \in Proc : pc[q] = "idle" => seen'[q] = seen[q] /\ gone'[q] = gone[q]
           /\ \A q \in Proc : pc[q] # "idle" =>
                 /\ \A k \in Key : seen'[q][k] = seen[q][k] \cup {Dict'[k]}
                 /\ gone'[q] <=> (gone[q] \/ (Dict[loc[q].key] # Absent /\ Dict'[loc[q].key] = Absent))
<1> USE Constants
<1>1. /\ pc[p] = "link" /\ v \in Locs /\ CallType(p) /\ v.op = "insert" /\ LinkOK(p, v)
      /\ v.cell \in used /\ v.up <= top_level[v.cell] /\ key[v.cell] = v.key
      /\ \A m \in Level : Passed(v, m)
      /\ v.up = 0 => FreshOK(p, v) /\ Fresh(p, v.cell) /\ v.cell \notin Listed
      /\ v.up # 0 => v.cell \in Listed
      /\ LinkStep(v.preds[v.up], v.cell, v.up)
      /\ Others(p) /\ pc' \in [Proc -> Labels] /\ loc' \in [Proc -> Locs \cup {Idle}]
      /\ pc'[p] = WonAt(v) /\ loc'[p] = WonLoc(v) /\ WonLoc(v) \in Locs
      /\ WonLoc(v).op = v.op /\ WonLoc(v).key = v.key /\ WonLoc(v).data = v.data
      /\ WonLoc(v).res = v.res /\ WonLoc(v).cell = v.cell
      /\ v.up # top_level[v.cell] => /\ WonLoc(v).preds = v.preds /\ WonLoc(v).succs = v.succs
                                     /\ WonLoc(v).up = v.up + 1
      /\ Learn /\ profile' = profile /\ UNCHANGED <<garbage_next, garbage_head, search_level>>
  BY WonFacts
<1>2. Heap /\ HeapFacts /\ CallTypes /\ SeenInv /\ GarbageTypes
  BY CoreHeap DEF Core
<1>3. Heap' /\ Evolves /\ DictFacts' /\ HeapFacts'
  BY WonHeap, FactsNext
<1>4. /\ seen' \in [Proc -> [Key -> SUBSET (Data \cup {Absent})]]
      /\ gone' \in [Proc -> BOOLEAN]
      /\ \A q \in Proc : pc[q] = "idle" => seen'[q] = seen[q] /\ gone'[q] = gone[q]
      /\ \A q \in Proc : pc[q] # "idle" =>
            /\ \A k \in Key : seen'[q][k] = seen[q][k] \cup {Dict'[k]}
            /\ gone'[q] <=> (gone[q] \/ (Dict[loc[q].key] # Absent /\ Dict'[loc[q].key] = Absent))
  BY <1>1, <1>2, <1>3, LearnIs
<1>5. v.up # 0 => seen' = seen /\ gone' = gone
  BY <1>1, <1>2, <1>3, WonDict, LearnSame
<1>6. PICK w, at : w = WonLoc(v) /\ at = WonAt(v)
  OBVIOUS
<1>7. /\ used' = used /\ key' = key /\ data' = data /\ top_level' = top_level
      /\ Listed' = Listed \cup {v.cell}
  BY <1>1 DEF LinkStep
<1>8. \A c \in AnyCell : Marked(c, 0)' <=> Marked(c, 0)
  BY <1>1, <1>2, LinkPtr
<1>9. ASSUME NEW q \in Proc, pc[q] # "idle" PROVE Learns(q) /\ Rereads(q)
  BY <1>2, <1>4, <1>7, <1>8, <1>9 DEF HeapFacts, Learns, Rereads, DataSeen
<1>10. ASSUME NEW q \in Proc PROVE Spares(q)
  <2> SUFFICES ASSUME NEW c \in used, Fresh(q, c)
               PROVE  /\ c \in used' /\ key'[c] = key[c] /\ data'[c] = data[c]
                      /\ top_level'[c] = top_level[c] /\ forward'[c] = forward[c]
                      /\ garbage_next'[c] = garbage_next[c]
                      /\ \A r \in Proc : Fresh(r, c)' => r = q
    BY DEF Spares
  <2>1. c \notin Listed /\ c \in AnyCell /\ \A r \in Proc : Fresh(r, c) => r = q
    BY <1>2, FreshIn DEF HeapFacts
  <2>2. PICK x : x = v.preds[v.up]
    OBVIOUS
  <2>3. c # x /\ x \in AnyCell
    BY <1>1, <1>2, <2>1, <2>2 DEF LinkStep, Nodes, HeapFacts
  <2>4. forward'[c] = forward[c]
    BY <1>1, <1>2, <2>1, <2>2, <2>3 DEF LinkStep, Heap, HeapTypes
  <2>5. \A r \in Proc : Fresh(r, c)' => Fresh(r, c)
    <3>1. \A r \in Proc : r # p => (Fresh(r, c)' => Fresh(r, c))
      BY <1>1 DEF Others, Fresh
    <3>2. ~Fresh(p, c)'
      <4>1. SUFFICES ASSUME Fresh(p, c)' PROVE FALSE
        OBVIOUS
      <4>2. at = "link" /\ w.up = 0
        BY <1>1, <1>6, <4>1 DEF Fresh
      <4>3. v.up # top_level[v.cell] /\ w.up = v.up + 1
        BY <1>1, <1>6, <4>2 DEF WonAt
      <4> QED
        BY <1>1, <4>2, <4>3, LocsOf
    <3> QED
      BY <3>1, <3>2
  <2> QED
    BY <1>1, <1>7, <2>1, <2>4, <2>5
<1>11. CallType(p)'
  BY <1>1, <1>6 DEF WonAt, PcOf, CallType
<1>12. CallOK(p)'
  <2>1. Rely(p)
    BY <1>1, <1>2, <1>3, <1>9, <1>10 DEF Rely, Waits
  <2>2. w.cell \in Listed' /\ w.cell = v.cell /\ w.op = v.op
    BY <1>1, <1>6, <1>7
  <2>3. CASE v.up = top_level[v.cell]
    BY <1>1, <1>6, <2>2, <2>3 DEF WonAt, CallAt, Searching, CallOK
  <2>4. CASE v.up # top_level[v.cell]
    <3>1. at = "link" /\ w.up = v.up + 1 /\ w.preds = v.preds /\ w.succs = v.succs /\ w.key = v.key
      BY <1>1, <1>6, <2>4 DEF WonAt
    <3>2. \A m \in Level : Passed(w, m)'
      BY <1>1, <2>1, <3>1, StablePassed DEF Passed
    <3>3. 0 < w.up /\ w.up <= top_level'[w.cell] /\ w.up # 0
      <4>1. PICK t, u : t = top_level[v.cell] /\ u = v.up
        OBVIOUS
      <4>2. t \in Nat /\ u \in Nat /\ u <= t /\ u # t
        BY <1>1, <1>2, <2>4, <4>1, LocsOf DEF HeapFacts
      <4>3. 0 < u + 1 /\ u + 1 <= t /\ u + 1 # 0
        BY <4>2
      <4> QED
        BY <1>7, <2>2, <3>1, <4>1, <4>3
    <3>4. OwnOK(w)'
      BY <1>1, <1>7, <2>2, <3>1, <3>3 DEF OwnOK
    <3>5. CallAt(p, at, w)'
      BY <3>1, <3>2, <3>3, <3>4 DEF CallAt, Searching, LinkOK
    <3> QED
      BY <1>1, <1>6, <3>5 DEF CallOK
  <2> QED
    BY <2>3, <2>4
<1>13. Core'
  <2>1. GarbageTypes'
    BY <1>1, <1>2 DEF GarbageTypes
  <2>2. \A q \in Proc : pc[q] # "idle" => \A k \in Key : Dict'[k] \in seen'[q][k]
    BY <1>4
  <2>3. pc'[p] # "idle" /\ pc[p] # "idle"
    BY <1>1 DEF WonAt
  <2> QED
    BY <1>1, <1>3, <1>4, <1>9, <1>10, <1>11, <1>12, <2>1, <2>2, <2>3, LoudCore
<1> QED
  BY <1>3, <1>4, <1>5, <1>13

-----------------------------------------------------------------------------
(* A cell is marked. *)
MarkStep(c, l) ==
    /\ c \in Listed /\ l \in Level /\ l <= top_level[c] /\ ~Marked(c, l)
    /\ \A m \in Level : l < m /\ m <= top_level[c] => Marked(c, m)
    /\ forward' = [forward EXCEPT ![c][l] = <<Ptr(c, l), TRUE>>]
    /\ UNCHANGED <<used, key, data, top_level>> /\ Listed' = Listed

LEMMA MarkFrom ==
    ASSUME Heap, NEW c, NEW l, MarkStep(c, l)
    PROVE  /\ \A x \in AnyCell, m \in Level :
                 Ptr(x, m)' = Ptr(x, m) /\ (Marked(x, m)' <=> Marked(x, m) \/ (x = c /\ m = l))
           /\ \A x : \A m \in Level : From(x, m)' = From(x, m)
           /\ Linked0' = Linked0 /\ Targets' = Targets /\ Nodes' = Nodes
           /\ HeapTypes'
<1> USE Constants
<1>1. HeapFacts
  BY Facts
<1>2. c \in AnyCell /\ l \in Level /\ ~Marked(c, l) /\ l <= top_level[c] /\ c \in used
  BY <1>1 DEF MarkStep, HeapFacts
<1>3. PICK s, b : s = Ptr(c, l) /\ b = TRUE
  OBVIOUS
<1>4. forward' = [forward EXCEPT ![c][l] = <<s, b>>] /\ s \in AnyCell /\ b \in BOOLEAN
  BY <1>1, <1>2, <1>3 DEF Heap, HeapInv, PointerInv, MarkStep, HeapFacts
<1>5. /\ Ptr(c, l)' = s /\ (Marked(c, l)' <=> b)
      /\ \A x \in AnyCell, m \in Level : (x # c \/ m # l) =>
            Ptr(x, m)' = Ptr(x, m) /\ Marked(x, m)' = Marked(x, m) /\ forward'[x][m] = forward[x][m]
      /\ forward' \in [AnyCell -> [Level -> (AnyCell \cup {None}) \X BOOLEAN]]
      /\ \A m : Links(m)' = [x \in AnyCell |-> Ptr(x, m)']
      /\ \A m \in Level : m # l => \A x : From(x, m)' = From(x, m)
      /\ \A x, m : From(x, m)' = Reached(Links(m)', x)
  <2>1. Stored(c, l, s, b)
    BY <1>2, <1>4, StoreIs
  <2> QED
    BY <2>1 DEF Stored
<1>6. \A x \in AnyCell, m \in Level :
        Ptr(x, m)' = Ptr(x, m) /\ (Marked(x, m)' <=> Marked(x, m) \/ (x = c /\ m = l))
  BY <1>2, <1>3, <1>5
<1>7. \A x : \A m \in Level : From(x, m)' = From(x, m)
  BY <1>2, <1>5, <1>6 DEF Links, From
<1>8. Linked0' = Linked0
  BY <1>7 DEF Linked0, Linked
<1>9. HeapTypes' /\ Targets' = Targets /\ Nodes' = Nodes
  BY <1>5 DEF Heap, HeapTypes, MarkStep, Targets, Nodes
<1> QED
  BY <1>6, <1>7, <1>8, <1>9

LEMMA MarkHeap ==
    ASSUME Heap, NEW c, NEW l, MarkStep(c, l)
    PROVE  Heap' /\ Evolves
<1> USE Constants
<1>0. /\ c \in Listed /\ l \in Level /\ l <= top_level[c] /\ ~Marked(c, l)
      /\ \A m \in Level : l < m /\ m <= top_level[c] => Marked(c, m)
      /\ used' = used /\ key' = key /\ data' = data /\ top_level' = top_level /\ Listed' = Listed
  BY DEF MarkStep
<1>1. /\ \A x \in AnyCell, m \in Level :
            Ptr(x, m)' = Ptr(x, m) /\ (Marked(x, m)' <=> Marked(x, m) \/ (x = c /\ m = l))
      /\ \A x : \A m \in Level : From(x, m)' = From(x, m)
      /\ Linked0' = Linked0 /\ Targets' = Targets /\ Nodes' = Nodes
      /\ HeapTypes'
  BY MarkFrom
<1>2. HeapFacts /\ ListFacts
  BY Facts
<1>3. /\ \A x \in used \cup {Head} : x \in AnyCell
      /\ c # Head /\ c # Tail /\ Listed \subseteq AnyCell /\ Nodes \subseteq AnyCell
      /\ Targets \subseteq AnyCell /\ Linked0 \subseteq AnyCell
  BY <1>0, <1>2 DEF HeapFacts, ListFacts
<1>4. SentinelInv'
  BY <1>0, <1>1, <1>3 DEF Heap, HeapInv, SentinelInv
<1>5. PointerInv'
  BY <1>0, <1>1, <1>3 DEF Heap, HeapInv, PointerInv
<1>6. SortedInv'
  <2> SUFFICES ASSUME NEW x \in used \cup {Head}, NEW m \in Level, m <= top_level[x]
               PROVE  \/ key[Ptr(x, m)'] > key[x]
                      \/ m > 0 /\ key[Ptr(x, m)'] = key[x] /\ Marked(Ptr(x, m), m)'
    BY <1>0 DEF SortedInv
  <2>1. PICK s : s = Ptr(x, m)
    OBVIOUS
  <2>2. Ptr(x, m)' = s /\ s \in AnyCell
    BY <1>1, <1>3, <2>1 DEF Heap, HeapInv, PointerInv
  <2>3. Marked(s, m) => Marked(Ptr(x, m), m)'
    BY <1>1, <2>2 DEF Marked
  <2>4. \/ key[s] > key[x]
        \/ m > 0 /\ key[s] = key[x] /\ Marked(s, m)
    BY <2>1 DEF Heap, HeapInv, SortedInv
  <2> QED
    BY <2>2, <2>3, <2>4
<1>7. MarksInv'
  <2> SUFFICES ASSUME NEW x \in used, NEW i \in Level, NEW m \in Level,
                      Marked(x, i)', i <= m, m <= top_level[x]
               PROVE  Marked(x, m)' /\ x \in Listed
    BY <1>0 DEF MarksInv
  <2>1. CASE Marked(x, i)
    BY <1>1, <1>3, <2>1 DEF Heap, HeapInv, MarksInv
  <2>2. CASE ~Marked(x, i)
    BY <1>0, <1>1, <1>3, <2>2
  <2> QED
    BY <2>1, <2>2
<1>8. LiveInv'
  BY <1>0, <1>1, <1>3 DEF Heap, HeapInv, LiveInv
<1>9. GapInv'
  BY <1>0, <1>1, <1>3 DEF Heap, HeapInv, GapInv
<1>10. AheadInv'
  BY <1>0, <1>1, <1>3 DEF Heap, HeapInv, AheadInv
<1>11. AcyclicInv'
  BY <1>0, <1>1 DEF Heap, HeapInv, AcyclicInv
<1>12. Evolves
  BY <1>0, <1>1, <1>3 DEF Evolves
<1> QED
  BY <1>1, <1>4, <1>5, <1>6, <1>7, <1>8, <1>9, <1>10, <1>11, <1>12 DEF Heap, HeapInv

LEMMA MarkDict ==
    ASSUME Heap, NEW c, NEW l, MarkStep(c, l)
    PROVE  /\ l # 0 => Dict' = Dict
           /\ l = 0 => /\ Dict[key[c]] # Absent /\ Dict'[key[c]] = Absent /\ key[c] \in Key
                       /\ \A k \in Key : k # key[c] => Dict'[k] = Dict[k]
<1> USE Constants
<1>1. /\ \A x \in AnyCell, m \in Level :
            (Marked(x, m)' <=> Marked(x, m) \/ (x = c /\ m = l))
      /\ c \in Listed /\ l \in Level /\ ~Marked(c, l) /\ Listed' = Listed
      /\ key' = key /\ data' = data
  BY MarkFrom DEF MarkStep
<1>2. HeapFacts /\ DictFacts /\ HeapFacts' /\ DictFacts'
  BY MarkHeap, Facts, FactsNext
<1>3. Listed \subseteq AnyCell /\ \A x \in Listed : key[x] \in Key /\ data[x] \in Data
  BY <1>2 DEF HeapFacts
<1>4. CASE l # 0
  BY <1>1, <1>2, <1>3, <1>4, DictSame, DictFun
<1>5. CASE l = 0
  <2>1. ASSUME NEW k \in Key, k # key[c] PROVE Dict'[k] = Dict[k]
    BY <1>1, <1>2, <1>3, <2>1, DictSame
  <2>2. Dict[key[c]] = data[c] /\ data[c] \in Data
    BY <1>1, <1>2, <1>3, <1>5 DEF DictFacts
  <2>3. ASSUME NEW x \in Listed, key[x] = key[c] PROVE Marked(x, 0)'
    BY <1>1, <1>3, <1>5, <2>3 DEF Heap, HeapInv, LiveInv, GapInv
  <2>4. Dict'[key[c]] = Absent
    BY <1>1, <1>2, <1>3, <2>3 DEF DictFacts
  <2> QED
    BY <1>1, <1>3, <1>5, <2>1, <2>2, <2>4
<1> QED
  BY <1>4, <1>5

MarkWins(p) == Holds(loc[p].cell, loc[p].up, loc[p].succ)

LEMMA MarkFacts ==
    ASSUME Core, NEW p \in Proc, RemoveMark(p), NEW v, v = loc[p], NEW w, w = [v EXCEPT !.succ = Head]
    PROVE  /\ pc[p] = "mark" /\ v \in Locs /\ w \in Locs /\ CallType(p) /\ v.op = "remove"
           /\ ExtractOK(p, "mark", v) /\ v.cell \in Listed /\ v.up \in Level /\ v.up \in Nat
           /\ v.up <= top_level[v.cell] /\ v.key \in Key /\ key[v.cell] = v.key
           /\ w.op = v.op /\ w.key = v.key /\ w.data = v.data /\ w.res = v.res /\ w.cell = v.cell
           /\ w.up = v.up /\ w.res \in Results("remove")
           /\ loc' = [loc EXCEPT ![p] = w] /\ Learn /\ Others(p)
           /\ loc' \in [Proc -> Locs \cup {Idle}] /\ pc' \in [Proc -> Labels]
           /\ UNCHANGED <<used, key, top_level, data, profile>>
           /\ UNCHANGED <<garbage_next, garbage_head, search_level>>
           /\ ~FreshStart(p) /\ ~FreshStart(p)'
           /\ pc'[p] = (IF v.up > 0 THEN "extract" ELSE IF MarkWins(p) THEN "find" ELSE "lost")
           /\ pc' = [pc EXCEPT ![p] = (IF v.up > 0 THEN "extract" ELSE IF MarkWins(p) THEN "find" ELSE "lost")]
<1>1. /\ pc[p] = "mark" /\ v \in Locs /\ CallType(p) /\ v.op = "remove"
      /\ ExtractOK(p, "mark", v) /\ v.cell \in Listed /\ v.up \in Level /\ v.up \in Nat
      /\ v.up <= top_level[v.cell]
  BY ExtractFacts DEF RemoveMark
<1>2. PICK at : at = (IF v.up > 0 THEN "extract" ELSE IF MarkWins(p) THEN "find" ELSE "lost")
  OBVIOUS
<1>3. pc' = [pc EXCEPT ![p] = at] /\ loc' = [loc EXCEPT ![p] = w]
  BY <1>2 DEF RemoveMark, Goto, Set, MarkWins
<1>4. /\ w \in Locs /\ w.op = v.op /\ w.key = v.key /\ w.data = v.data /\ w.res = v.res
      /\ w.cell = v.cell /\ w.up = v.up
  BY <1>1, Constants DEF Locs
<1>5. at \in Labels /\ at # "link"
  BY <1>2 DEF Labels, PcOf
<1>6. /\ pc' \in [Proc -> Labels] /\ loc' \in [Proc -> Locs \cup {Idle}] /\ Others(p) /\ pc'[p] = at
  BY <1>3, <1>4, <1>5, Move DEF Core
<1>7. v.key \in Key /\ key[v.cell] = v.key
  BY <1>1, LocsOf DEF ExtractOK
<1>8. w.res \in Results("remove")
  BY <1>1, <1>4 DEF CallType
<1>9. Learn /\ UNCHANGED <<used, key, top_level, data, profile>>
      /\ UNCHANGED <<garbage_next, garbage_head, search_level>>
  BY DEF RemoveMark, cells
<1>10. ~FreshStart(p) /\ ~FreshStart(p)'
  BY <1>1, <1>5, <1>6 DEF FreshStart
<1> QED
  BY <1>1, <1>2, <1>3, <1>4, <1>6, <1>7, <1>8, <1>9, <1>10

LEMMA MarkStay ==
    ASSUME Core, NEW p \in Proc, RemoveMark(p), ~MarkWins(p)
    PROVE  Moved(p)
<1>0. PICK v : v = loc[p]
  OBVIOUS
<1>a. PICK w : w = [v EXCEPT !.succ = Head]
  OBVIOUS
<1>b. PICK at : at = IF v.up > 0 THEN "extract" ELSE "lost"
  OBVIOUS
<1>1. /\ pc[p] = "mark" /\ v \in Locs /\ w \in Locs /\ CallType(p) /\ v.op = "remove"
      /\ ExtractOK(p, "mark", v) /\ v.up \in Nat
      /\ w.op = v.op /\ w.key = v.key /\ w.data = v.data /\ w.res = v.res /\ w.cell = v.cell
      /\ w.up = v.up /\ w.res \in Results("remove")
      /\ loc' = [loc EXCEPT ![p] = w] /\ Learn /\ Others(p)
      /\ UNCHANGED <<used, key, top_level, data, profile>>
      /\ UNCHANGED <<garbage_next, garbage_head, search_level>>
      /\ ~FreshStart(p) /\ ~FreshStart(p)'
      /\ pc' = [pc EXCEPT ![p] = at]
  BY <1>0, <1>a, <1>b, MarkFacts
<1>2. forward' = forward
  BY DEF RemoveMark, MarkWins
<1>3. SameHeap
  BY <1>1, <1>2, MovedSame
<1>4. seen' = seen /\ gone' = gone
  BY <1>1, <1>3, CoreHeap, SameHeapInv, FactsNext, Same, LearnSame DEF Core
<1>5. ExtractOK(p, at, w)
  <2>1. at = "lost" => w.up = 0
    BY <1>b, <1>1
  <2> QED
    BY <1>1, <2>1 DEF ExtractOK
<1>6. CallAt(p, at, w)
  BY <1>b, <1>5 DEF CallAt, Searching
<1>7. at \in PcOf(w.op)
  BY <1>b, <1>1 DEF PcOf
<1>8. Keeps /\ pc[p] # "idle" /\ at # "link"
  BY <1>b, <1>1, <1>2, <1>4 DEF Keeps
<1> QED
  BY <1>0, <1>1, <1>5, <1>6, <1>7, <1>8, QuietMove DEF Moved

\* A mark at the lowest level removes the cell.
LEMMA MarkOK ==
    ASSUME Core, NEW p \in Proc, RemoveMark(p), MarkWins(p)
    PROVE  /\ Core' /\ Evolves /\ Others(p) /\ MarkStep(loc[p].cell, loc[p].up)
           /\ loc'[p] = [loc[p] EXCEPT !.succ = Head]
           /\ pc'[p] = IF loc[p].up > 0 THEN "extract" ELSE "find"
           /\ loc[p].up # 0 => seen' = seen /\ gone' = gone
           /\ \A q \in Proc : pc[q] = "idle" => seen'[q] = seen[q] /\ gone'[q] = gone[q]
           /\ \A q \in Proc : pc[q] # "idle" =>
                 /\ \A k \in Key : seen'[q][k] = seen[q][k] \cup {Dict'[k]}
                 /\ gone'[q] <=> (gone[q] \/ (Dict[loc[q].key] # Absent /\ Dict'[loc[q].key] = Absent))
<1> USE Constants
<1>0. PICK v : v = loc[p]
  OBVIOUS
<1>a. PICK w : w = [v EXCEPT !.succ = Head]
  OBVIOUS
<1>b. PICK at : at = IF v.up > 0 THEN "extract" ELSE "find"
  OBVIOUS
<1>1. /\ pc[p] = "mark" /\ v \in Locs /\ w \in Locs /\ CallType(p) /\ v.op = "remove"
      /\ ExtractOK(p, "mark", v) /\ v.cell \in Listed /\ v.up \in Level /\ v.up \in Nat
      /\ v.up <= top_level[v.cell] /\ v.key \in Key /\ key[v.cell] = v.key
      /\ w.op = v.op /\ w.key = v.key /\ w.data = v.data /\ w.res = v.res /\ w.cell = v.cell
      /\ w.up = v.up /\ w.res \in Results("remove")
      /\ loc' = [loc EXCEPT ![p] = w] /\ Learn /\ Others(p)
      /\ loc' \in [Proc -> Locs \cup {Idle}] /\ pc' \in [Proc -> Labels]
      /\ UNCHANGED <<used, key, top_level, data, profile>>
      /\ UNCHANGED <<garbage_next, garbage_head, search_level>>
      /\ ~FreshStart(p) /\ ~FreshStart(p)'
      /\ pc'[p] = at
  BY <1>0, <1>a, <1>b, MarkFacts
<1>2. loc'[p] = w /\ at # "idle" /\ at \in PcOf("remove")
  BY <1>b, <1>1 DEF Core, CallTypes, PcOf
<1>3. Heap /\ HeapFacts /\ CallTypes /\ SeenInv /\ GarbageTypes
  BY CoreHeap DEF Core
<1>4. forward[v.cell][v.up] = <<v.succ, FALSE>> /\ forward' = [forward EXCEPT ![v.cell][v.up] = <<v.succ, TRUE>>]
  BY <1>0 DEF RemoveMark, MarkWins, Holds, Store
<1>5. Listed' = Listed /\ \A q \in Proc : \A c : Fresh(q, c)' <=> Fresh(q, c)
  BY <1>1, ListedStays
<1>6. MarkStep(v.cell, v.up)
  BY <1>1, <1>4, <1>5 DEF Ptr, Marked, MarkStep, ExtractOK
<1>7. Heap' /\ Evolves /\ DictFacts'
  BY <1>3, <1>6, MarkHeap, FactsNext
<1>8. /\ v.up # 0 => Dict' = Dict
      /\ v.up = 0 => Dict[v.key] # Absent /\ Dict'[v.key] = Absent
  BY <1>1, <1>3, <1>6, MarkDict
<1>9. \A x \in AnyCell, m \in Level : Marked(x, m)' <=> Marked(x, m) \/ (x = v.cell /\ m = v.up)
  BY <1>3, <1>6, MarkFrom
<1>10. /\ seen' \in [Proc -> [Key -> SUBSET (Data \cup {Absent})]]
       /\ gone' \in [Proc -> BOOLEAN]
       /\ \A q \in Proc : pc[q] = "idle" => seen'[q] = seen[q] /\ gone'[q] = gone[q]
       /\ \A q \in Proc : pc[q] # "idle" =>
             /\ \A k \in Key : seen'[q][k] = seen[q][k] \cup {Dict'[k]}
             /\ gone'[q] <=> (gone[q] \/ (Dict[loc[q].key] # Absent /\ Dict'[loc[q].key] = Absent))
  BY <1>1, <1>3, <1>7, LearnIs
<1>11. v.up # 0 => seen' = seen /\ gone' = gone
  BY <1>1, <1>3, <1>7, <1>8, LearnSame
<1>12. ASSUME NEW q \in Proc, pc[q] # "idle" PROVE Learns(q) /\ Rereads(q)
  BY <1>1, <1>3, <1>8, <1>9, <1>10, <1>12 DEF HeapFacts, Learns, DataSeen, Rereads
<1>13. \A q \in Proc : Spares(q)
  BY <1>1, <1>3, <1>4, <1>5, SparedNew DEF HeapFacts, Heap, HeapTypes
<1>14. CallType(p)'
  BY <1>0, <1>1, <1>2 DEF CallType
<1>15. CallOK(p)'
  <2>1. Rely(p)
    BY <1>0, <1>1, <1>3, <1>7, <1>12, <1>13 DEF Rely, Waits
  <2>2. ExtractOK(p, "mark", v)'
    BY <1>0, <1>1, <2>1, StableExtract
  <2>3. CASE v.up > 0
    <3>1. at = "extract"
      BY <1>b, <2>3
    <3>2. ExtractOK(p, at, w)'
      BY <1>1, <2>2, <3>1 DEF ExtractOK
    <3>3. CallAt(p, at, w)'
      BY <3>1, <3>2 DEF CallAt, Searching
    <3> QED
      BY <1>1, <1>2, <3>3 DEF CallOK
  <2>4. CASE v.up = 0
    <3>1. at = "find"
      BY <1>b, <2>4
    <3>2. Marked(v.cell, 0)'
      BY <1>1, <1>3, <1>9, <2>4 DEF HeapFacts
    <3>3. OwnOK(w)'
      BY <1>1, <1>5, <3>2 DEF OwnOK
    <3>4. CallAt(p, at, w)'
      BY <3>1, <3>3 DEF CallAt, Searching, FindOK
    <3> QED
      BY <1>1, <1>2, <3>4 DEF CallOK
  <2> QED
    BY <1>1, <2>3, <2>4
<1>16. Core'
  <2>1. GarbageTypes'
    BY <1>1, <1>3 DEF GarbageTypes
  <2>2. \A q \in Proc : pc[q] # "idle" => \A k \in Key : Dict'[k] \in seen'[q][k]
    BY <1>10
  <2>3. pc'[p] # "idle" /\ pc[p] # "idle"
    BY <1>1, <1>2
  <2> QED
    BY <1>1, <1>7, <1>10, <1>12, <1>13, <1>14, <1>15, <2>1, <2>2, <2>3, LoudCore
<1> QED
  BY <1>0, <1>a, <1>b, <1>1, <1>2, <1>6, <1>7, <1>10, <1>11, <1>16

-----------------------------------------------------------------------------
(* The data of a cell is changed. *)
LEMMA DataHeap ==
    ASSUME Heap, UNCHANGED <<used, key, top_level, forward>>, Listed' = Listed,
           data' \in [AnyCell -> Data \cup {Absent}], \A x \in used : data'[x] \in Data
    PROVE  /\ Heap' /\ Evolves /\ \A x, m : Marked(x, m)' = Marked(x, m)
           /\ \A x, m : Ptr(x, m)' = Ptr(x, m)
           /\ \A x, m : From(x, m)' = From(x, m)
           /\ Linked0' = Linked0
<1>0. /\ used' = used /\ key' = key /\ top_level' = top_level /\ forward' = forward
      /\ Listed' = Listed
  OBVIOUS
<1>1. /\ \A x, m : Ptr(x, m)' = Ptr(x, m) /\ Marked(x, m)' = Marked(x, m)
      /\ \A x, m : From(x, m)' = From(x, m)
      /\ Nodes' = Nodes /\ Targets' = Targets
  BY <1>0 DEF Ptr, Marked, From, Links, Nodes, Targets
<1>2. Linked0' = Linked0
  BY <1>1 DEF Linked0, Linked
<1> USE <1>0, <1>1, <1>2 DEF Heap, HeapInv
<1>3. HeapTypes'
  BY DEF HeapTypes
<1>4. SentinelInv'
  BY DEF SentinelInv
<1>5. PointerInv'
  BY DEF PointerInv
<1>6. SortedInv'
  BY DEF SortedInv
<1>7. MarksInv'
  BY DEF MarksInv
<1>8. LiveInv'
  BY DEF LiveInv
<1>9. GapInv'
  BY DEF GapInv
<1>10. AheadInv'
  BY DEF AheadInv
<1>11. AcyclicInv'
  BY DEF AcyclicInv
<1>12. Evolves
  BY DEF Evolves
<1> QED
  BY <1>3, <1>4, <1>5, <1>6, <1>7, <1>8, <1>9, <1>10, <1>11, <1>12

UpdateLoc(v) == [ForgetAll(v) EXCEPT !.res = 1]
UpdateSeen(p, v) ==
    /\ seen' = [q \in Proc |->
                   IF q # p /\ pc[q] # "idle" /\ Absent \in seen[q][v.key]
                   THEN [seen[q] EXCEPT ![v.key] = @ \cup {v.data}]
                   ELSE seen[q]]
    /\ gone' = gone

LEMMA UpdateFacts ==
    ASSUME Core, NEW p \in Proc, InsertUpdate(p), NEW v, v = loc[p], NEW c, c = v.succs[0],
           NEW w, w = UpdateLoc(v)
    PROVE  /\ pc[p] = "update" /\ v \in Locs /\ w \in Locs /\ CallType(p) /\ v.op = "insert"
           /\ c \in Listed /\ c \in AnyCell /\ key[c] = v.key /\ v.key \in Key /\ v.data \in Data
           /\ Marked(c, 0) => gone[p] /\ Absent \in seen[p][v.key]
           /\ w.op = v.op /\ w.key = v.key /\ w.data = v.data /\ w.res = 1
           /\ Others(p) /\ pc'[p] = "return" /\ loc'[p] = w
           /\ pc' \in [Proc -> Labels] /\ loc' \in [Proc -> Locs \cup {Idle}]
           /\ UNCHANGED <<used, key, top_level, forward, profile>>
           /\ UNCHANGED <<garbage_next, garbage_head, search_level>>
           /\ ~FreshStart(p) /\ ~FreshStart(p)'
           /\ data' = [data EXCEPT ![c] = v.data]
           /\ c \in Present(v.key) <=> ~Marked(c, 0)
           /\ c \in Present(v.key) => Learn
           /\ c \notin Present(v.key) =>
                UpdateSeen(p, v)
<1>1. /\ pc[p] = "update" /\ v \in Locs /\ CallAt(p, "update", v) /\ CallType(p)
  BY SearchFacts DEF InsertUpdate, CallOK
<1>2. v.op = "insert" /\ v.data \in Data /\ v.key \in Key
  BY <1>1, LocsOf, PcIs DEF CallType
<1>3. UpdateOK(p, v)
  BY <1>1 DEF CallAt
<1>4. HeapFacts /\ Heap
  BY CoreHeap
<1>5. c \in Listed /\ c \in AnyCell /\ key[c] = v.key
  BY <1>3, <1>4 DEF UpdateOK, HeapFacts
<1>6. w \in Locs /\ w.op = v.op /\ w.key = v.key /\ w.data = v.data /\ w.res = 1
  BY <1>1, Constants DEF Locs, Res, UpdateLoc, ForgetAll, Forget
<1>7. pc' = [pc EXCEPT ![p] = "return"] /\ loc' = [loc EXCEPT ![p] = w]
  BY DEF InsertUpdate, Goto, Set, UpdateLoc
<1>8. "return" \in Labels
  BY DEF Labels, PcOf
<1>9. /\ pc' \in [Proc -> Labels] /\ loc' \in [Proc -> Locs \cup {Idle}] /\ Others(p)
      /\ pc'[p] = "return" /\ loc'[p] = w
  BY <1>6, <1>7, <1>8, Move DEF Core
<1>10. c \in Present(v.key) <=> ~Marked(c, 0)
  BY <1>2, <1>4, <1>5, PresentAre
<1>11. /\ c \in Present(v.key) => Learn
       /\ c \notin Present(v.key) => UpdateSeen(p, v)
       /\ data' = [data EXCEPT ![c] = v.data]
       /\ UNCHANGED <<used, key, top_level, forward, profile>>
       /\ UNCHANGED <<garbage_next, garbage_head, search_level>>
  BY DEF InsertUpdate, UpdateSeen, cells
<1>12. ~FreshStart(p) /\ ~FreshStart(p)'
  BY <1>1, <1>9 DEF FreshStart
<1>13. Marked(c, 0) => gone[p] /\ Absent \in seen[p][v.key]
  BY <1>3 DEF UpdateOK
<1> QED
  BY <1>1, <1>2, <1>5, <1>6, <1>9, <1>10, <1>11, <1>12, <1>13

LEMMA InsertUpdateOK ==
    ASSUME Core, NEW p \in Proc, InsertUpdate(p), NEW v, v = loc[p], NEW c, c = v.succs[0]
    PROVE  /\ Core' /\ Evolves
           /\ ~Marked(c, 0) =>
                /\ Dict[v.key] # Absent /\ Dict'[v.key] = v.data /\ \A k \in Key : k # v.key => Dict'[k] = Dict[k]
                /\ \A q \in Proc : pc[q] = "idle" => seen'[q] = seen[q] /\ gone'[q] = gone[q]
                /\ \A q \in Proc : pc[q] # "idle" =>
                      /\ \A k \in Key : seen'[q][k] = seen[q][k] \cup {Dict'[k]}
                      /\ gone'[q] <=> (gone[q] \/ (Dict[loc[q].key] # Absent /\ Dict'[loc[q].key] = Absent))
           /\ Marked(c, 0) => Dict' = Dict
           /\ Listed' = Listed /\ Linked0' = Linked0
           /\ \A x, m : Marked(x, m)' = Marked(x, m) /\ Ptr(x, m)' = Ptr(x, m)
                        /\ From(x, m)' = From(x, m)
<1> USE Constants
<1>0. PICK w : w = UpdateLoc(v)
  OBVIOUS
<1>1. /\ pc[p] = "update" /\ v \in Locs /\ w \in Locs /\ CallType(p) /\ v.op = "insert"
      /\ c \in Listed /\ c \in AnyCell /\ key[c] = v.key /\ v.key \in Key /\ v.data \in Data
      /\ w.op = v.op /\ w.key = v.key /\ w.data = v.data /\ w.res = 1
      /\ Others(p) /\ pc'[p] = "return" /\ loc'[p] = w
      /\ pc' \in [Proc -> Labels] /\ loc' \in [Proc -> Locs \cup {Idle}]
      /\ UNCHANGED <<used, key, top_level, forward, profile>>
      /\ UNCHANGED <<garbage_next, garbage_head, search_level>>
      /\ ~FreshStart(p) /\ ~FreshStart(p)'
      /\ data' = [data EXCEPT ![c] = v.data]
      /\ c \in Present(v.key) <=> ~Marked(c, 0)
      /\ c \in Present(v.key) => Learn
      /\ c \notin Present(v.key) => UpdateSeen(p, v)
  BY <1>0, UpdateFacts
<1>2. Heap /\ HeapFacts /\ DictFacts /\ CallTypes /\ SeenInv /\ GarbageTypes
  BY CoreHeap DEF Core
<1>3. Listed' = Listed /\ \A q \in Proc : \A x : Fresh(q, x)' <=> Fresh(q, x)
  BY <1>1, ListedStays
<1>4. /\ data' \in [AnyCell -> Data \cup {Absent}] /\ \A x \in used : data'[x] \in Data
      /\ \A x \in AnyCell : x # c => data'[x] = data[x]
      /\ data'[c] = v.data
  BY <1>1, <1>2 DEF Heap, HeapTypes, HeapFacts
<1>5. /\ Heap' /\ Evolves /\ Linked0' = Linked0
      /\ \A x, m : Marked(x, m)' = Marked(x, m) /\ Ptr(x, m)' = Ptr(x, m)
                   /\ From(x, m)' = From(x, m)
  BY <1>1, <1>2, <1>3, <1>4, DataHeap
<1>6. DictFacts' /\ HeapFacts' /\ Listed \subseteq AnyCell /\ \A x \in Listed : key[x] \in Key /\ data[x] \in Data
  BY <1>2, <1>5, FactsNext DEF HeapFacts
<1>7. ASSUME NEW k \in Key, k # v.key PROVE Dict'[k] = Dict[k]
  BY <1>1, <1>2, <1>3, <1>4, <1>5, <1>6, <1>7, DictSame
<1>8. ~Marked(c, 0) => Dict[v.key] # Absent /\ Dict'[v.key] = v.data
  BY <1>1, <1>2, <1>3, <1>4, <1>5, <1>6 DEF DictFacts
<1>9. ASSUME Marked(c, 0) PROVE Dict' = Dict
  <2>1. Dict'[v.key] = Dict[v.key]
    <3>1. CASE \E x \in Listed : key[x] = v.key /\ ~Marked(x, 0)
      <4>1. PICK x \in Listed : key[x] = v.key /\ ~Marked(x, 0)
        BY <3>1
      <4>2. x # c /\ data'[x] = data[x]
        BY <1>4, <1>6, <1>9, <4>1
      <4>3. Dict[v.key] = data[x]
        BY <1>1, <1>2, <4>1 DEF DictFacts
      <4>4. x \in Listed' /\ key'[x] = v.key /\ ~Marked(x, 0)'
        BY <1>1, <1>3, <1>5, <4>1
      <4>5. Dict'[v.key] = data'[x]
        BY <1>1, <1>6, <4>4 DEF DictFacts
      <4> QED
        BY <4>2, <4>3, <4>5
    <3>2. CASE \A x \in Listed : key[x] = v.key => Marked(x, 0)
      BY <1>1, <1>2, <1>3, <1>5, <1>6, <3>2 DEF DictFacts
    <3> QED
      BY <3>1, <3>2
  <2> QED
    BY <1>7, <2>1, DictFun
<1>10. ASSUME ~Marked(c, 0)
       PROVE  /\ seen' \in [Proc -> [Key -> SUBSET (Data \cup {Absent})]]
              /\ gone' \in [Proc -> BOOLEAN]
              /\ \A q \in Proc : pc[q] = "idle" => seen'[q] = seen[q] /\ gone'[q] = gone[q]
              /\ \A q \in Proc : pc[q] # "idle" =>
                    /\ \A k \in Key : seen'[q][k] = seen[q][k] \cup {Dict'[k]}
                    /\ gone'[q] <=> (gone[q] \/ (Dict[loc[q].key] # Absent /\ Dict'[loc[q].key] = Absent))
  BY <1>1, <1>2, <1>6, <1>10, LearnIs
<1>11. /\ seen' \in [Proc -> [Key -> SUBSET (Data \cup {Absent})]]
       /\ gone' \in [Proc -> BOOLEAN]
       /\ \A q \in Proc : pc[q] = "idle" => seen'[q] = seen[q] /\ gone'[q] = gone[q]
       /\ \A q \in Proc : pc[q] # "idle" =>
             /\ \A k \in Key : seen[q][k] \subseteq seen'[q][k] /\ Dict'[k] \in seen'[q][k]
             /\ gone[q] => gone'[q]
             /\ q # p /\ (Marked(c, 0) => Absent \in seen[q][v.key]) => v.data \in seen'[q][v.key]
  <2>1. CASE ~Marked(c, 0)
    BY <1>1, <1>8, <1>10, <2>1
  <2>2. CASE Marked(c, 0)
    <3>0. seen \in [Proc -> [Key -> SUBSET (Data \cup {Absent})]] /\ gone \in [Proc -> BOOLEAN]
      BY <1>2 DEF CallTypes
    <3>1. ASSUME NEW q \in Proc
          PROVE  /\ seen'[q] \in [Key -> SUBSET (Data \cup {Absent})]
                 /\ \A k \in Key : seen[q][k] \subseteq seen'[q][k]
                 /\ pc[q] = "idle" => seen'[q] = seen[q]
                 /\ q # p /\ pc[q] # "idle" /\ Absent \in seen[q][v.key] => v.data \in seen'[q][v.key]
      <4>1. CASE q # p /\ pc[q] # "idle" /\ Absent \in seen[q][v.key]
        <5>1. seen'[q] = [seen[q] EXCEPT ![v.key] = @ \cup {v.data}]
          BY <1>1, <2>2, <4>1 DEF UpdateSeen
        <5>2. seen[q] \in [Key -> SUBSET (Data \cup {Absent})]
          BY <3>0
        <5> QED
          BY <1>1, <4>1, <5>1, <5>2
      <4>2. CASE ~(q # p /\ pc[q] # "idle" /\ Absent \in seen[q][v.key])
        BY <1>1, <2>2, <3>0, <4>2 DEF UpdateSeen
      <4> QED
        BY <4>1, <4>2
    <3>2. seen' \in [Proc -> [Key -> SUBSET (Data \cup {Absent})]]
      BY <1>1, <2>2, <3>1 DEF UpdateSeen
    <3>3. \A q \in Proc : pc[q] # "idle" => \A k \in Key : Dict[k] \in seen[q][k]
      BY <1>2 DEF SeenInv, SeenOK
    <3>4. Dict' = Dict /\ gone' = gone
      BY <1>1, <1>9, <2>2 DEF UpdateSeen
    <3> QED
      BY <2>2, <3>0, <3>1, <3>2, <3>3, <3>4
  <2> QED
    BY <2>1, <2>2
<1>12. ASSUME NEW q \in Proc, q # p, pc[q] # "idle" PROVE Learns(q) /\ Rereads(q)
  BY <1>1, <1>4, <1>5, <1>6, <1>11, <1>12 DEF Learns, DataSeen, Rereads
<1>13. \A q \in Proc : Spares(q)
  BY <1>1, <1>2, <1>3, <1>4, SparedNew DEF HeapFacts
<1>14. CallType(p)'
  BY <1>1 DEF CallType, PcOf, Results
<1>15. CallOK(p)'
  BY <1>1 DEF CallOK, CallAt, Searching
<1>16. Core'
  <2>1. GarbageTypes'
    BY <1>1, <1>2 DEF GarbageTypes
  <2>2. pc'[p] # "idle" /\ pc[p] # "idle" /\ profile' = profile
    BY <1>1
  <2> QED
    BY <1>1, <1>5, <1>11, <1>12, <1>13, <1>14, <1>15, <2>1, <2>2, LoudCore
<1> QED
  BY <1>3, <1>5, <1>7, <1>8, <1>9, <1>10, <1>16

-----------------------------------------------------------------------------
(* The garbage list. *)
LEMMA GarbageIs ==
    ASSUME Core, TrashInv
    PROVE  /\ Garbage = Trash /\ Reached(garbage_next, garbage_head) \subseteq Trash
           /\ Trash \subseteq Listed /\ Trash \subseteq Cell
           /\ \A c \in used : garbage_next[c] # None => c \in Listed
           /\ garbage_next[Head] = None /\ Listed \subseteq Cell /\ Listed \subseteq used
<1>1. HeapFacts
  BY CoreHeap
<1>2. Trash \subseteq Listed /\ Trash \subseteq Cell
  BY <1>1 DEF TrashInv, Trash, HeapFacts
<1>3. Reached(garbage_next, garbage_head) \subseteq Trash
  BY <1>2, Constants, ReachedIn DEF Closed, TrashInv
<1>4. Garbage \subseteq Trash
  BY <1>3 DEF Garbage, TrashInv
<1> QED
  BY <1>1, <1>2, <1>3, <1>4 DEF TrashInv, HeapFacts

\* The same chain of cells.
LEMMA GarbageSame ==
    ASSUME Core, TrashInv, garbage_head' = garbage_head,
           \A c \in Trash \cup {Head} : garbage_next'[c] = garbage_next[c]
    PROVE  Garbage' = Garbage
<1>1. PICK n, m, h : n = garbage_next /\ m = garbage_next' /\ h = garbage_head
  OBVIOUS
<1>2. m[h] = n[h] /\ \A x \in Reached(n, h) : m[x] = n[x]
  BY <1>1, GarbageIs DEF TrashInv
<1>3. Reached(m, h) = Reached(n, h)
  BY <1>2, ReachedSame
<1> QED
  BY <1>1, <1>3 DEF Garbage

LEMMA OthersClaim ==
    ASSUME NEW p, Others(p)
    PROVE  \A q \in Proc : \A c : q # p => (Claims(q, c)' <=> Claims(q, c))
BY DEF Others, Claims

\* Steps that leave the garbage alone.
NoGarbage(p) ==
    /\ garbage_head' = garbage_head
    /\ \A c \in Listed \cup {Head} : garbage_next'[c] = garbage_next[c]
    /\ \A c \in used' \ Listed : garbage_next'[c] = None
    /\ pc[p] \notin {"push", "publish"} /\ pc'[p] \notin {"push", "publish"}

LEMMA StillMarked ==
    ASSUME Core, Evolves, NEW c \in Listed, \E l \in Level : l <= top_level[c] /\ Marked(c, l)
    PROVE  c \in Listed' /\ \E l \in Level : l <= top_level'[c] /\ Marked(c, l)'
<1>1. PICK l \in Level : l <= top_level[c] /\ Marked(c, l)
  OBVIOUS
<1>2. c \in Listed' /\ top_level'[c] = top_level[c] /\ Marked(c, l)'
  BY <1>1 DEF Evolves
<1> QED
  BY <1>1, <1>2

LEMMA TrashKeeps ==
    ASSUME Core, Core', Evolves, NEW p \in Proc, Others(p), TrashInv, ClaimInv, NoGarbage(p)
    PROVE  TrashInv' /\ ClaimInv'
<1>1. /\ Garbage = Trash /\ Trash \subseteq Listed /\ Trash \subseteq Cell
      /\ \A c \in used : garbage_next[c] # None => c \in Listed
      /\ garbage_next[Head] = None /\ Listed \subseteq used
  BY GarbageIs
<1>2. Listed \subseteq Listed' /\ Listed' \subseteq used'
  BY DEF Evolves, Listed
<1>3. \A q \in Proc : \A c : Claims(q, c)' <=> Claims(q, c)
  BY OthersClaim DEF NoGarbage, Claims
<1>4. Trash' = Trash
  BY <1>1, <1>2, <1>3 DEF Trash, NoGarbage
<1>5. Garbage' = Garbage
  BY <1>1, GarbageSame DEF NoGarbage
<1>6. ASSUME NEW c \in used', garbage_next'[c] # None
      PROVE  c \in Listed' /\ \E l \in Level : l <= top_level'[c] /\ Marked(c, l)'
  BY <1>1, <1>6, StillMarked DEF NoGarbage, TrashInv
<1>7. /\ garbage_head' \in Trash' \cup {Head} /\ garbage_next'[Head] = None
      /\ \A c \in Trash' : garbage_next'[c] \in Trash' \cup {Head}
      /\ Trash' \subseteq Garbage'
  BY <1>1, <1>4, <1>5 DEF TrashInv, NoGarbage
<1>8. TrashInv'
  BY <1>6, <1>7 DEF TrashInv
<1>9. ASSUME NEW q \in Proc, NEW c, Claims(q, c)
      PROVE  c \in Listed
  BY <1>9, MetFacts DEF Claims
<1>10. ClaimInv'
  <2> SUFFICES ASSUME NEW q \in Proc
               PROVE  /\ pc'[q] = "push" => garbage_next'[loc'[q].curr] # None
                      /\ pc'[q] = "publish" => garbage_next'[loc'[q].curr] \in Trash' \cup {Head}
                      /\ \A r \in Proc, c \in used' : Claims(q, c)' /\ Claims(r, c)' => q = r
    BY DEF ClaimInv
  <2>1. \A r \in Proc, c \in used' : Claims(q, c)' /\ Claims(r, c)' => q = r
    BY <1>1, <1>3, <1>9 DEF ClaimInv
  <2>2. CASE q = p
    BY <2>1, <2>2 DEF NoGarbage
  <2>3. CASE q # p
    BY <1>4, <2>1, <2>3, MetFacts DEF Others, NoGarbage, ClaimInv
  <2> QED
    BY <2>2, <2>3
<1> QED
  BY <1>8, <1>10

\* A step of p that works on the cell it takes to the garbage list.
LEMMA ClaimsAre ==
    ASSUME Core, TrashInv, ClaimInv, NEW p \in Proc, pc[p] \in {"push", "publish"}
    PROVE  /\ loc[p].curr \in Listed /\ loc[p].curr \in used /\ garbage_next[loc[p].curr] # None
           /\ loc[p].curr \notin Trash /\ loc[p].curr # Head /\ Claims(p, loc[p].curr)
           /\ \A q \in Proc : Claims(q, loc[p].curr) => q = p
BY MetFacts, Constants, GarbageIs DEF Claims, ClaimInv, Trash

LEMMA ClaimGarbage ==
    ASSUME Core, NEW p \in Proc, FindClaim(p), ClaimSucceeds(loc[p].curr), TrashInv, ClaimInv
    PROVE  TrashInv' /\ ClaimInv'
<1>1. PICK c : c = loc[p].curr
  OBVIOUS
<1>2. Core' /\ SameHeap /\ Others(p) /\ Evolves
  BY FindClaimOK, CoreHeap, SameHeapInv DEF Moved, Quiet
<1>3. /\ pc[p] = "claim" /\ pc' = [pc EXCEPT ![p] = "push"] /\ loc' = loc /\ used' = used
      /\ garbage_next[c] = None /\ garbage_next' = [garbage_next EXCEPT ![c] = One]
      /\ garbage_head' = garbage_head
  BY <1>1 DEF FindClaim, ClaimSucceeds, Goto, cells
<1>4. /\ c \in Listed /\ c \in used /\ c \in AnyCell /\ c # Head
      /\ \E l \in Level : l <= top_level[c] /\ Marked(c, l)
  BY <1>1, <1>3, MetFacts, Constants
<1>5. /\ pc'[p] = "push" /\ garbage_next'[c] = One
      /\ \A x \in AnyCell : x # c => garbage_next'[x] = garbage_next[x]
  BY <1>3, <1>4 DEF Core, CallTypes, GarbageTypes
<1>6. /\ Garbage = Trash /\ Trash \subseteq Listed /\ garbage_next[Head] = None
      /\ \A x \in used : garbage_next[x] # None => x \in Listed
      /\ used \subseteq AnyCell /\ Listed \subseteq Listed'
  BY <1>2, GarbageIs, CoreHeap, Constants DEF HeapFacts, Evolves
<1>7. \A q \in Proc : Claims(q, c) => FALSE
  BY <1>1, <1>3, ClaimsAre DEF Claims
<1>8. \A q \in Proc : \A x : Claims(q, x)' <=> (Claims(q, x) \/ (q = p /\ x = c))
  BY <1>1, <1>2, <1>3, <1>5 DEF Claims, Others
<1>9. Trash' = Trash
  BY <1>3, <1>5, <1>6, <1>8 DEF Trash
<1>10. Garbage' = Garbage
  BY <1>3, <1>4, <1>5, <1>6, Constants, GarbageSame DEF Trash
<1>11. TrashInv'
  <2>1. ASSUME NEW x \in used', garbage_next'[x] # None
        PROVE  x \in Listed' /\ \E l \in Level : l <= top_level'[x] /\ Marked(x, l)'
    BY <1>2, <1>3, <1>4, <1>5, <1>6, <2>1, StillMarked DEF TrashInv
  <2>2. /\ garbage_head' \in Trash' \cup {Head} /\ garbage_next'[Head] = None
        /\ Trash' \subseteq Garbage'
    BY <1>3, <1>4, <1>5, <1>6, <1>9, <1>10, Constants DEF TrashInv
  <2>3. \A x \in Trash' : garbage_next'[x] \in Trash' \cup {Head}
    BY <1>3, <1>5, <1>6, <1>9 DEF Trash, TrashInv
  <2> QED
    BY <2>1, <2>2, <2>3 DEF TrashInv
<1>12. ClaimInv'
  <2> SUFFICES ASSUME NEW q \in Proc
               PROVE  /\ pc'[q] = "push" => garbage_next'[loc'[q].curr] # None
                      /\ pc'[q] = "publish" => garbage_next'[loc'[q].curr] \in Trash' \cup {Head}
                      /\ \A r \in Proc, x \in used' : Claims(q, x)' /\ Claims(r, x)' => q = r
    BY DEF ClaimInv
  <2>1. \A r \in Proc, x \in used' : Claims(q, x)' /\ Claims(r, x)' => q = r
    BY <1>3, <1>7, <1>8 DEF ClaimInv
  <2>2. CASE q = p
    BY <1>1, <1>3, <1>5, <2>1, <2>2, Constants
  <2>3. CASE q # p
    BY <1>2, <1>5, <1>7, <1>9, <2>1, <2>3, MetFacts DEF Others, Claims, ClaimInv
  <2> QED
    BY <2>2, <2>3
<1> QED
  BY <1>11, <1>12

LEMMA PushGarbage ==
    ASSUME Core, NEW p \in Proc, FindPush(p), TrashInv, ClaimInv
    PROVE  TrashInv' /\ ClaimInv'
<1>1. PICK c : c = loc[p].curr
  OBVIOUS
<1>2. Core' /\ SameHeap /\ Others(p) /\ Evolves
  BY FindPushOK, CoreHeap, SameHeapInv DEF Moved, Quiet
<1>3. /\ pc[p] = "push" /\ pc' = [pc EXCEPT ![p] = "publish"] /\ loc' = loc /\ used' = used
      /\ garbage_next' = [garbage_next EXCEPT ![c] = garbage_head]
      /\ garbage_head' = garbage_head
  BY <1>1 DEF FindPush, Goto, cells
<1>4. /\ c \in Listed /\ c \in used /\ c # Head /\ garbage_next[c] # None /\ c \notin Trash
      /\ \A q \in Proc : Claims(q, c) <=> q = p
  BY <1>1, <1>3, ClaimsAre
<1>6. /\ Garbage = Trash /\ Trash \subseteq Listed /\ garbage_next[Head] = None
      /\ \A x \in used : garbage_next[x] # None => x \in Listed
      /\ used \subseteq AnyCell /\ Listed \subseteq Listed' /\ Listed \subseteq used
  BY <1>2, GarbageIs, CoreHeap, Constants DEF HeapFacts, Evolves
<1>5. /\ pc'[p] = "publish" /\ garbage_next'[c] = garbage_head
      /\ \A x \in AnyCell : x # c => garbage_next'[x] = garbage_next[x]
  BY <1>3, <1>4, <1>6 DEF Core, CallTypes, GarbageTypes
<1>a. garbage_head \in Trash \cup {Head} /\ garbage_head # None
  BY GarbageIs, Constants DEF TrashInv
<1>8. \A q \in Proc : \A x : Claims(q, x)' <=> Claims(q, x)
  BY <1>1, <1>2, <1>3, <1>5 DEF Claims, Others
<1>9. Trash' = Trash
  BY <1>3, <1>4, <1>5, <1>6, <1>8, <1>a DEF Trash
<1>10. Garbage' = Garbage
  BY <1>3, <1>4, <1>5, <1>6, Constants, GarbageSame
<1>11. TrashInv'
  <2>1. ASSUME NEW x \in used', garbage_next'[x] # None
        PROVE  x \in Listed' /\ \E l \in Level : l <= top_level'[x] /\ Marked(x, l)'
    BY <1>2, <1>3, <1>4, <1>5, <1>6, <2>1, StillMarked DEF TrashInv
  <2>2. /\ garbage_head' \in Trash' \cup {Head} /\ garbage_next'[Head] = None
        /\ Trash' \subseteq Garbage'
    BY <1>3, <1>4, <1>5, <1>6, <1>9, <1>10, Constants DEF TrashInv
  <2>3. \A x \in Trash' : garbage_next'[x] \in Trash' \cup {Head}
    BY <1>4, <1>5, <1>6, <1>9 DEF TrashInv
  <2> QED
    BY <2>1, <2>2, <2>3 DEF TrashInv
<1>12. ClaimInv'
  <2> SUFFICES ASSUME NEW q \in Proc
               PROVE  /\ pc'[q] = "push" => garbage_next'[loc'[q].curr] # None
                      /\ pc'[q] = "publish" => garbage_next'[loc'[q].curr] \in Trash' \cup {Head}
                      /\ \A r \in Proc, x \in used' : Claims(q, x)' /\ Claims(r, x)' => q = r
    BY DEF ClaimInv
  <2>1. \A r \in Proc, x \in used' : Claims(q, x)' /\ Claims(r, x)' => q = r
    BY <1>3, <1>8 DEF ClaimInv
  <2>2. CASE q = p
    BY <1>1, <1>3, <1>5, <1>9, <1>a, <2>1, <2>2
  <2>3. CASE q # p
    BY <1>2, <1>4, <1>5, <1>9, <2>1, <2>3, MetFacts DEF Others, Claims, ClaimInv
  <2> QED
    BY <2>2, <2>3
<1> QED
  BY <1>11, <1>12

LEMMA PublishGarbage ==
    ASSUME Core, NEW p \in Proc, FindPublish(p), TrashInv, ClaimInv
    PROVE  TrashInv' /\ ClaimInv'
<1>1. PICK c : c = loc[p].curr
  OBVIOUS
<1>2. Core' /\ SameHeap /\ Others(p) /\ Evolves
  BY FindPublishOK, CoreHeap, SameHeapInv DEF Moved, Quiet
<1>3. /\ pc[p] = "publish" /\ loc' = loc /\ used' = used /\ garbage_next' = garbage_next
      /\ \/ garbage_head = garbage_next[c] /\ garbage_head' = c /\ pc'[p] = "load"
         \/ garbage_head' = garbage_head /\ pc'[p] = "push"
  BY <1>1 DEF FindPublish, Goto, cells, Core, CallTypes
<1>4. /\ c \in Listed /\ c \in used /\ c # Head /\ garbage_next[c] # None /\ c \notin Trash
      /\ \A q \in Proc : Claims(q, c) <=> q = p
  BY <1>1, <1>3, ClaimsAre
<1>6. /\ Garbage = Trash /\ Trash \subseteq Listed /\ garbage_next[Head] = None
      /\ used \subseteq AnyCell /\ Listed \subseteq Listed' /\ Listed \subseteq used
      /\ Listed \subseteq Cell /\ Trash \subseteq Cell
  BY <1>2, GarbageIs, CoreHeap, Constants DEF HeapFacts, Evolves
<1>7. ASSUME NEW x \in used', garbage_next'[x] # None
      PROVE  x \in Listed' /\ \E l \in Level : l <= top_level'[x] /\ Marked(x, l)'
  BY <1>2, <1>3, <1>7, StillMarked DEF TrashInv
<1>8. CASE garbage_head' = garbage_head /\ pc'[p] = "push"
  <2>1. \A q \in Proc : \A x : Claims(q, x)' <=> Claims(q, x)
    BY <1>1, <1>2, <1>3, <1>8 DEF Claims, Others
  <2>2. Trash' = Trash /\ Garbage' = Garbage
    BY <1>3, <1>8, <2>1 DEF Trash, Garbage
  <2>3. TrashInv'
    BY <1>3, <1>7, <1>8, <2>2 DEF TrashInv
  <2>4. ClaimInv'
    <3> SUFFICES ASSUME NEW q \in Proc
                 PROVE  /\ pc'[q] = "push" => garbage_next'[loc'[q].curr] # None
                        /\ pc'[q] = "publish" => garbage_next'[loc'[q].curr] \in Trash' \cup {Head}
                        /\ \A r \in Proc, x \in used' : Claims(q, x)' /\ Claims(r, x)' => q = r
      BY DEF ClaimInv
    <3>1. \A r \in Proc, x \in used' : Claims(q, x)' /\ Claims(r, x)' => q = r
      BY <1>3, <2>1 DEF ClaimInv
    <3>2. CASE q = p
      BY <1>1, <1>3, <1>4, <1>8, <3>1, <3>2
    <3>3. CASE q # p
      BY <1>2, <1>3, <2>2, <3>1, <3>3 DEF ClaimInv, Others
    <3> QED
      BY <3>2, <3>3
  <2> QED
    BY <2>3, <2>4
<1>9. CASE garbage_head = garbage_next[c] /\ garbage_head' = c /\ pc'[p] = "load"
  <2>1. \A q \in Proc : \A x : Claims(q, x)' <=> (q # p /\ Claims(q, x))
    BY <1>1, <1>2, <1>3, <1>9 DEF Claims, Others
  <2>2. \A q \in Proc : \A x : Claims(q, x) /\ q = p => x = c
    BY <1>1 DEF Claims
  <2>3. Trash' = Trash \cup {c}
    BY <1>3, <1>4, <2>1, <2>2 DEF Trash
  <2>4. Trash \cup {c} \subseteq Garbage'
    <3>1. PICK n, h : n = garbage_next /\ h = garbage_head
      OBVIOUS
    <3>2. Garbage' = Reached(n, c) \cup {c}
      BY <1>3, <1>4, <1>9, <3>1 DEF Garbage
    <3>3. n[c] = h /\ h \in Trash \cup {Head}
      BY <1>9, <3>1 DEF TrashInv
    <3>4. CASE h = Head
      BY <1>6, <3>1, <3>2, <3>4, ReachedStep, Constants DEF Garbage
    <3>5. CASE h \in Trash
      BY <1>6, <3>1, <3>2, <3>3, <3>5, ReachedStep DEF Garbage
    <3> QED
      BY <3>3, <3>4, <3>5
  <2>5. TrashInv'
    BY <1>3, <1>6, <1>7, <1>9, <2>3, <2>4 DEF TrashInv
  <2>6. ClaimInv'
    <3> SUFFICES ASSUME NEW q \in Proc
                 PROVE  /\ pc'[q] = "push" => garbage_next'[loc'[q].curr] # None
                        /\ pc'[q] = "publish" => garbage_next'[loc'[q].curr] \in Trash' \cup {Head}
                        /\ \A r \in Proc, x \in used' : Claims(q, x)' /\ Claims(r, x)' => q = r
      BY DEF ClaimInv
    <3>1. \A r \in Proc, x \in used' : Claims(q, x)' /\ Claims(r, x)' => q = r
      BY <1>3, <2>1 DEF ClaimInv
    <3>2. CASE q = p
      BY <1>9, <3>1, <3>2
    <3>3. CASE q # p
      BY <1>2, <1>3, <2>3, <3>1, <3>3 DEF ClaimInv, Others
    <3> QED
      BY <3>2, <3>3
  <2> QED
    BY <2>5, <2>6
<1> QED
  BY <1>3, <1>8, <1>9

-----------------------------------------------------------------------------
(* All the steps of a thread. *)
LEMMA InsertLinkIs ==
    ASSUME NEW p, InsertLink(p)
    PROVE  LinkWon(p) \/ LinkLost(p)
BY DEF LinkWon, LinkLost

LEMMA StepCore ==
    ASSUME Core, NEW p \in Proc, Step(p)
    PROVE  Core' /\ Evolves /\ Others(p)
<1> USE CoreHeap
<1>1. CASE Moved(p)
  BY <1>1, SameHeapInv DEF Moved, Quiet
<1>2. CASE Call(p)
  BY <1>2, CallStepOK, SameHeapInv
<1>3. CASE Return(p)
  BY <1>3, ReturnOK, SameHeapInv
<1>4. CASE FindSnip(p) /\ SnipSucceeds(p)
  BY <1>4, SnipOK
<1>5. CASE InsertUpdate(p)
  BY <1>5, InsertUpdateOK, UpdateFacts
<1>6. CASE InsertAlloc(p)
  BY <1>6, InsertAllocOK
<1>7. CASE LinkLost(p)
  BY <1>7, InsertLinkLost
<1>8. CASE LinkWon(p)
  BY <1>8, InsertLinkWon, WonFacts
<1>9. CASE RemoveMark(p) /\ MarkWins(p)
  BY <1>9, MarkOK
<1>10. FindStart(p) \/ FindLoad(p) \/ FindNext(p) => Moved(p)
  BY FindStartOK, FindLoadOK, FindNextOK
<1>11. FindClaim(p) \/ FindPush(p) \/ FindPublish(p) => Moved(p)
  BY FindClaimOK, FindPushOK, FindPublishOK
<1>12. LookupStart(p) \/ LookupEnter(p) \/ LookupWalk(p) \/ ReadData(p) => Moved(p)
  BY LookupStartOK, LookupEnterOK, LookupWalkOK, ReadDataOK
<1>13. InsertBump(p) \/ InsertRaise(p) \/ RemoveExtract(p) \/ RemoveLost(p) => Moved(p)
  BY InsertBumpOK, InsertRaiseOK, RemoveExtractOK, RemoveLostOK
<1>14. FindSnip(p) /\ ~SnipSucceeds(p) => Moved(p)
  BY SnipStay
<1>15. RemoveMark(p) /\ ~MarkWins(p) => Moved(p)
  BY MarkStay
<1> QED
  BY <1>1, <1>2, <1>3, <1>4, <1>5, <1>6, <1>7, <1>8, <1>9, <1>10, <1>11, <1>12, <1>13, <1>14,
     <1>15, InsertLinkIs DEF Step

LEMMA QuietGarbage ==
    ASSUME Core, TrashInv, NEW p \in Proc, UNCHANGED <<used, garbage_next, garbage_head>>,
           pc[p] \notin {"push", "publish"}, pc'[p] \notin {"push", "publish"}
    PROVE  NoGarbage(p)
BY GarbageIs DEF NoGarbage

LEMMA PcNext ==
    ASSUME CallTypes, NEW p \in Proc, NEW at, pc' = [pc EXCEPT ![p] = at]
    PROVE  pc'[p] = at
BY DEF CallTypes

LEMMA FindNextPc ==
    ASSUME CallTypes, NEW p \in Proc, FindNext(p)
    PROVE  pc[p] = "next" /\ pc'[p] \in {"next", "snip", "load", "link", "update", "alloc",
                                         "extract", "return"}
<1> DEFINE h == [loc[p] EXCEPT !.preds[loc[p].level] = loc[p].pred, !.succs[loc[p].level] = loc[p].curr]
<1>1. CASE pc' = pc
  BY <1>1 DEF FindNext
<1>2. CASE Goto(p, "snip") \/ Goto(p, "load")
  BY <1>2, PcNext DEF FindNext, Goto
<1>3. CASE FindReturn(p, h, key[loc[p].curr] = loc[p].key)
  <2>1. PICK at \in {"link", "update", "alloc", "extract", "return"} : pc' = [pc EXCEPT ![p] = at]
    BY <1>3 DEF FindReturn, Goto
  <2> QED
    BY <2>1, PcNext DEF FindNext
<1> QED
  BY <1>1, <1>2, <1>3 DEF FindNext

LEMMA LookupWalkPc ==
    ASSUME CallTypes, NEW p \in Proc, LookupWalk(p)
    PROVE  pc[p] = "walk" /\ pc'[p] \in {"walk", "enter", "read", "return"}
<1>1. CASE pc' = pc
  BY <1>1 DEF LookupWalk
<1>2. CASE Goto(p, "enter")
  BY <1>2, PcNext DEF LookupWalk, Goto
<1>3. CASE LookupReturn(p, loc[p])
  <2>1. PICK at \in {"read", "return"} : pc' = [pc EXCEPT ![p] = at]
    BY <1>3 DEF LookupReturn, Goto
  <2> QED
    BY <2>1, PcNext DEF LookupWalk
<1> QED
  BY <1>1, <1>2, <1>3 DEF LookupWalk

LEMMA StepNoGarbage ==
    ASSUME Core, TrashInv, ClaimInv, NEW p \in Proc, Step(p),
           ~(FindClaim(p) /\ ClaimSucceeds(loc[p].curr)), ~FindPush(p), ~FindPublish(p)
    PROVE  NoGarbage(p)
<1> USE PcNext DEF Goto, cells
<1>0. CallTypes
  BY DEF Core
<1>1. CASE Call(p)
  <2>1. PICK at \in {"find", "lookup"} : pc' = [pc EXCEPT ![p] = at]
    BY <1>1 DEF Call
  <2>2. pc'[p] = at
    BY <1>0, <2>1
  <2> QED
    BY <1>1, <2>2, QuietGarbage DEF Call
<1>2. CASE Return(p)
  BY <1>0, <1>2, QuietGarbage DEF Return
<1>3. CASE FindStart(p) \/ FindLoad(p)
  BY <1>0, <1>3, QuietGarbage DEF FindStart, FindLoad
<1>4. CASE FindNext(p)
  BY <1>0, <1>4, FindNextPc, QuietGarbage DEF FindNext
<1>5. CASE FindSnip(p)
  BY <1>0, <1>5, QuietGarbage DEF FindSnip
<1>6. CASE FindClaim(p)
  BY <1>0, <1>6, QuietGarbage DEF FindClaim
<1>7. CASE LookupStart(p) \/ LookupEnter(p)
  BY <1>0, <1>7, QuietGarbage DEF LookupStart, LookupEnter
<1>8. CASE LookupWalk(p)
  BY <1>0, <1>8, LookupWalkPc, QuietGarbage DEF LookupWalk
<1>9. CASE ReadData(p)
  BY <1>0, <1>9, QuietGarbage DEF ReadData
<1>10. CASE InsertUpdate(p)
  BY <1>0, <1>10, QuietGarbage DEF InsertUpdate
<1>11. CASE InsertAlloc(p)
  <2>1. PICK c \in Cell \ used, t \in Level : AllocStep(p, loc[p], c, t)
    BY <1>11, InsertAllocOK
  <2>2. /\ pc[p] = "alloc" /\ pc'[p] = "link" /\ garbage_head' = garbage_head
        /\ garbage_next' = [garbage_next EXCEPT ![c] = None] /\ used' = used \cup {c}
    BY <1>0, <2>1 DEF AllocStep
  <2>3. /\ garbage_next \in [AnyCell -> AnyCell \cup {None, One}]
        /\ Listed \subseteq used /\ used \subseteq AnyCell /\ Head # c /\ c \in AnyCell
        /\ \A x \in used : garbage_next[x] # None => x \in Listed
    BY CoreHeap, GarbageIs, Constants DEF Core, GarbageTypes, HeapFacts
  <2>4. garbage_next'[c] = None /\ \A x \in AnyCell : x # c => garbage_next'[x] = garbage_next[x]
    BY <2>2, <2>3
  <2>5. \A x \in Listed \cup {Head} : x \in AnyCell /\ x # c
    BY <2>3, Constants
  <2> QED
    BY <2>2, <2>3, <2>4, <2>5 DEF NoGarbage
<1>12. CASE LinkWon(p)
  BY <1>12, WonFacts, QuietGarbage DEF WonAt, LinkStep
<1>13. CASE LinkLost(p)
  <2>1. /\ pc[p] = "link" /\ pc'[p] = "find" /\ garbage_head' = garbage_head
        /\ Free(IF loc[p].up = 0 THEN {loc[p].cell} ELSE {})
    BY <1>13, InsertLinkLost DEF LinkLost, InsertLink
  <2>2. CASE loc[p].up # 0
    BY <2>1, <2>2, FreeNone, QuietGarbage DEF Core
  <2>3. CASE loc[p].up = 0
    <3>1. PICK c : c = loc[p].cell
      OBVIOUS
    <3>2. c \in used /\ Fresh(p, c)
      BY <2>1, <2>3, <3>1, SearchFacts DEF CallOK, CallAt, LinkOK, FreshOK, Fresh
    <3>3. c \notin Listed
      BY <3>2, FreshIn
    <3>4. Free({c})
      BY <2>1, <2>3, <3>1
    <3>5. used' = used \ {c} /\ \A x \in AnyCell \ {c} : garbage_next'[x] = garbage_next[x]
      BY <3>4, FreeIs DEF Core
    <3>6. /\ Listed \subseteq used /\ used \subseteq AnyCell /\ Head # c
          /\ \A x \in used : garbage_next[x] # None => x \in Listed
      BY <3>2, CoreHeap, GarbageIs, Constants DEF HeapFacts
    <3>7. \A x \in Listed \cup {Head} : x \in AnyCell \ {c}
      BY <3>3, <3>6, Constants
    <3> QED
      BY <2>1, <3>5, <3>6, <3>7 DEF NoGarbage
  <2> QED
    BY <2>2, <2>3
<1>14. CASE InsertBump(p)
  BY <1>0, <1>14, QuietGarbage DEF InsertBump
<1>15. CASE InsertRaise(p)
  BY <1>0, <1>15, QuietGarbage DEF InsertRaise
<1>16. CASE RemoveExtract(p)
  BY <1>0, <1>16, QuietGarbage DEF RemoveExtract
<1>17. CASE RemoveMark(p)
  BY <1>0, <1>17, QuietGarbage DEF RemoveMark
<1>18. CASE RemoveLost(p)
  BY <1>0, <1>18, QuietGarbage DEF RemoveLost
<1> QED
  BY <1>1, <1>2, <1>3, <1>4, <1>5, <1>6, <1>7, <1>8, <1>9, <1>10, <1>11, <1>12, <1>13, <1>14,
     <1>15, <1>16, <1>17, <1>18, InsertLinkIs DEF Step

LEMMA StepTrash ==
    ASSUME Core, TrashInv, ClaimInv, NEW p \in Proc, Step(p)
    PROVE  TrashInv' /\ ClaimInv'
BY ClaimGarbage, PushGarbage, PublishGarbage, StepCore, StepNoGarbage, TrashKeeps

-----------------------------------------------------------------------------
(* Who takes a marked cell out, and puts it on the garbage list. *)
RemoveLabels == {"extract", "mark", "lost"}
FindLabels == Searching \cup {"find"}

\* Nothing is marked or taken out of the lowest level.
NoRemoval ==
    /\ \A c \in Listed' \ Listed, l \in Level : l <= top_level'[c] => ~Marked(c, l)'
    /\ \A c \in Listed, l \in Level : Marked(c, l)' => Marked(c, l)
    /\ Linked0 \subseteq Linked0'
\* The thread keeps its task, or has done it.
StaysOn(p, labels) ==
    /\ pc'[p] \in labels
    /\ loc'[p].op = loc[p].op /\ loc'[p].cell = loc[p].cell
Mover(p) ==
    /\ pc[p] \in RemoveLabels => Marked(loc[p].cell, 0) \/ StaysOn(p, RemoveLabels)
    /\ pc[p] \in FindLabels /\ loc[p].op = "remove" /\ loc[p].cell \in Listed =>
          loc[p].cell \notin Linked0 \/ StaysOn(p, FindLabels)
Unclaimed(p) ==
    /\ \A c \in Listed : garbage_next'[c] = None => garbage_next[c] = None
    /\ pc[p] = "claim" => garbage_next'[loc[p].curr] # None

LEMMA RemovedKeeps ==
    ASSUME Core, Core', Evolves, NEW p \in Proc, Others(p), RemovedInv, NoRemoval, Mover(p),
           Unclaimed(p)
    PROVE  RemovedInv'
<1> USE Constants
<1>1. HeapFacts /\ HeapFacts' /\ Heap' /\ ListFacts
  BY CoreHeap, FactsNext DEF Core, Heap
<1>2. ASSUME NEW c \in Listed' \ Listed
      PROVE  /\ \A l \in Level : l <= top_level'[c] => ~Marked(c, l)'
             /\ ~Marked(c, 0)' /\ c \in Linked0'
  BY <1>1, <1>2 DEF NoRemoval, HeapFacts, Heap, HeapInv, LiveInv
<1>3. ASSUME NEW c \in Listed
      PROVE  /\ top_level'[c] = top_level[c]
             /\ \A l \in Level : Marked(c, l)' <=> Marked(c, l)
             /\ c \in Linked0' <=> c \in Linked0
  BY <1>1, <1>3 DEF HeapFacts, Evolves, NoRemoval
<1>4. ASSUME NEW c \in Listed', NEW l \in Level, l <= top_level'[c], Marked(c, l)', ~Marked(c, 0)'
      PROVE  \E q \in Proc : pc'[q] \in RemoveLabels /\ Removes(q, c)'
  <2>1. c \in Listed /\ l <= top_level[c] /\ Marked(c, l) /\ ~Marked(c, 0)
    BY <1>2, <1>3, <1>4
  <2>2. PICK q \in Proc : pc[q] \in RemoveLabels /\ Removes(q, c)
    BY <2>1 DEF RemovedInv, RemoveLabels
  <2>3. CASE q = p
    BY <2>1, <2>2, <2>3 DEF Mover, StaysOn, Removes
  <2>4. CASE q # p
    BY <2>2, <2>4 DEF Others, Removes
  <2> QED
    BY <2>3, <2>4
<1>5. ASSUME NEW c \in Listed', Marked(c, 0)', c \in Linked0'
      PROVE  \E q \in Proc : pc'[q] \in FindLabels /\ Removes(q, c)'
  <2>1. c \in Listed /\ Marked(c, 0) /\ c \in Linked0
    BY <1>2, <1>3, <1>5
  <2>2. PICK q \in Proc : pc[q] \in FindLabels /\ Removes(q, c)
    BY <2>1 DEF RemovedInv, FindLabels
  <2>3. CASE q = p
    BY <2>1, <2>2, <2>3 DEF Mover, StaysOn, Removes
  <2>4. CASE q # p
    BY <2>2, <2>4 DEF Others, Removes
  <2> QED
    BY <2>3, <2>4
<1>6. ASSUME NEW c \in Listed', c \notin Linked0', garbage_next'[c] = None
      PROVE  \E q \in Proc : pc'[q] = "claim" /\ loc'[q].curr = c
  <2>1. c \in Listed /\ c \notin Linked0 /\ garbage_next[c] = None
    BY <1>2, <1>3, <1>6 DEF Unclaimed
  <2>2. PICK q \in Proc : pc[q] = "claim" /\ loc[q].curr = c
    BY <2>1 DEF RemovedInv
  <2>3. q # p
    BY <1>6, <2>2 DEF Unclaimed
  <2> QED
    BY <2>2, <2>3 DEF Others
<1> QED
  BY <1>4, <1>5, <1>6 DEF RemovedInv, RemoveLabels, FindLabels

LEMMA SameNoRemoval ==
    ASSUME SameHeap
    PROVE  NoRemoval
BY Same DEF NoRemoval

LEMMA StepNoRemoval ==
    ASSUME Core, NEW p \in Proc, Step(p), ~(FindSnip(p) /\ SnipSucceeds(p)),
           ~(RemoveMark(p) /\ MarkWins(p))
    PROVE  NoRemoval
<1> USE CoreHeap
<1>1. CASE Moved(p)
  BY <1>1, SameNoRemoval DEF Moved
<1>2. CASE Call(p)
  BY <1>2, CallStepOK, SameNoRemoval
<1>3. CASE Return(p)
  BY <1>3, ReturnOK, SameNoRemoval
<1>5. CASE InsertUpdate(p)
  BY <1>5, InsertUpdateOK DEF NoRemoval
<1>6. ASSUME Aside PROVE NoRemoval
  BY <1>6, AsideFrom DEF NoRemoval, Aside
<1>7. CASE InsertAlloc(p)
  <2>1. PICK c \in Cell \ used, t \in Level : AllocStep(p, loc[p], c, t)
    BY <1>7, InsertAllocOK
  <2>2. AllocMade(p, loc[p], c, t)
    BY <2>1, AllocAside
  <2> QED
    BY <1>6, <2>2 DEF AllocMade
<1>8. CASE LinkLost(p)
  <2>1. /\ pc[p] = "link" /\ pc'[p] = "find" /\ Others(p)
        /\ Free(IF loc[p].up = 0 THEN {loc[p].cell} ELSE {})
        /\ loc[p].up # 0 => forward' = forward
    BY <1>8, InsertLinkLost, FreeNone DEF LinkLost, InsertLink, Core
  <2>2. CASE loc[p].up # 0
    BY <2>1, <2>2, FreeNone, MovedSame, SameNoRemoval DEF Core, FreshStart
  <2>3. CASE loc[p].up = 0
    <3>1. PICK c : c = loc[p].cell
      OBVIOUS
    <3>2. Free({c}) /\ Fresh(p, c)
      BY <2>1, <2>3, <3>1 DEF Fresh
    <3> QED
      BY <1>6, <2>1, <3>2, LinkLostAside
  <2> QED
    BY <2>2, <2>3
<1>9. CASE LinkWon(p)
  <2>1. PICK v : v = loc[p]
    OBVIOUS
  <2>2. /\ v.up \in Level /\ v.cell \in used
        /\ v.up # 0 => v.cell \in Listed
        /\ LinkStep(v.preds[v.up], v.cell, v.up)
    BY <1>9, <2>1, WonFacts, LocsOf
  <2>3. v.up = 0 => /\ LinkNew(v.preds[0], v.cell)
                    /\ \A m \in Level : m <= top_level[v.cell] => ~Marked(v.cell, m)
    BY <1>9, <2>1, WonHeap
  <2>4. PICK q, e, l : q = v.preds[v.up] /\ e = v.cell /\ l = v.up
    OBVIOUS
  <2>5. /\ \A c \in AnyCell, m \in Level : Marked(c, m)' <=> Marked(c, m)
        /\ \A m \in Level : m # l => \A c : From(c, m)' = From(c, m)
    BY <2>2, <2>4, LinkPtr
  <2>6. Linked0 \subseteq Linked0'
    BY <2>3, <2>4, <2>5, LinkNewFrom, Constants DEF Linked0, Linked
  <2>7. Listed' = Listed \cup {e} /\ top_level' = top_level /\ Listed \subseteq AnyCell /\ e \in AnyCell
    BY <2>2, <2>4, Constants DEF LinkStep, HeapFacts
  <2> QED
    BY <2>2, <2>3, <2>4, <2>5, <2>6, <2>7 DEF NoRemoval
<1>10. FindStart(p) \/ FindLoad(p) \/ FindNext(p) => Moved(p)
  BY FindStartOK, FindLoadOK, FindNextOK
<1>11. FindClaim(p) \/ FindPush(p) \/ FindPublish(p) => Moved(p)
  BY FindClaimOK, FindPushOK, FindPublishOK
<1>12. LookupStart(p) \/ LookupEnter(p) \/ LookupWalk(p) \/ ReadData(p) => Moved(p)
  BY LookupStartOK, LookupEnterOK, LookupWalkOK, ReadDataOK
<1>13. InsertBump(p) \/ InsertRaise(p) \/ RemoveExtract(p) \/ RemoveLost(p) => Moved(p)
  BY InsertBumpOK, InsertRaiseOK, RemoveExtractOK, RemoveLostOK
<1>14. FindSnip(p) /\ ~SnipSucceeds(p) => Moved(p)
  BY SnipStay
<1>15. RemoveMark(p) /\ ~MarkWins(p) => Moved(p)
  BY MarkStay
<1> QED
  BY <1>1, <1>2, <1>3, <1>5, <1>7, <1>8, <1>9, <1>10, <1>11, <1>12, <1>13, <1>14,
     <1>15, InsertLinkIs DEF Step

-----------------------------------------------------------------------------
(* What FindNext does, case by case. *)
NextSnip(p, v) ==
    /\ Marked(v.curr, v.level) /\ pc'[p] = "snip"
    /\ loc'[p] = [v EXCEPT !.succ = Ptr(v.curr, v.level)]
NextOn(p, v) ==
    /\ ~Marked(v.curr, v.level) /\ key[v.curr] < v.key /\ pc'[p] = "next"
    /\ loc'[p] = [v EXCEPT !.pred = v.curr, !.curr = Ptr(v.curr, v.level)]
NextDown(p, v) ==
    /\ ~Marked(v.curr, v.level) /\ ~(key[v.curr] < v.key) /\ v.level > 0 /\ pc'[p] = "load"
    /\ loc'[p] = [HereAt(v) EXCEPT !.level = v.level - 1]
NextFound(p, v, h) ==
    /\ FoundFacts(p, v, h)
    /\ \/ /\ v.op = "insert" /\ loc'[p] = Forget(h)
          /\ pc'[p] = IF v.cell # None THEN "link" ELSE IF key[v.curr] = v.key THEN "update" ELSE "alloc"
       \/ /\ v.op = "remove" /\ v.cell = None /\ key[v.curr] = v.key /\ pc'[p] = "extract"
          /\ loc'[p] = [ForgetAll(h) EXCEPT !.cell = v.curr, !.up = FirstMarked(v.curr)]
       \/ /\ v.op = "remove" /\ (v.cell # None \/ key[v.curr] # v.key) /\ pc'[p] = "return"
          /\ loc'[p] = [ForgetAll(h) EXCEPT !.res = IF v.cell # None THEN 1 ELSE 0, !.cell = None]
NextIs(p, v) ==
    /\ NextFacts(p, v) /\ Moved(p)
    /\ \/ NextSnip(p, v) \/ NextOn(p, v) \/ NextDown(p, v)
       \/ NextFound(p, v, HereAt(v))

LEMMA LocNext ==
    ASSUME CallTypes, NEW p \in Proc, NEW w, loc' = [loc EXCEPT ![p] = w]
    PROVE  loc'[p] = w
BY DEF CallTypes

LEMMA FindNextIs ==
    ASSUME Core, NEW p \in Proc, FindNext(p), NEW v, v = loc[p]
    PROVE  NextIs(p, v)
<1>1. CallTypes /\ pc[p] = "next"
  BY DEF Core, FindNext
<1>2. NextFacts(p, v)
  <2>1. Keeps /\ pc[p] = "next"
    BY DEF FindNext, Keeps, cells, history
  <2> QED
    BY <2>1, SearchFacts DEF NextFacts, CallOK, CallAt, Searching, SearchOK
<1>3. CASE Marked(v.curr, v.level)
  BY <1>1, <1>2, <1>3, PcNext, LocNext, FindNextOK DEF FindNext, Set, Goto, NextSnip,
     NextIs
<1>4. CASE ~Marked(v.curr, v.level) /\ key[v.curr] < v.key
  BY <1>1, <1>2, <1>4, LocNext, FindNextOK DEF FindNext, Before, Set, NextOn, NextIs
<1>5. CASE ~Marked(v.curr, v.level) /\ ~(key[v.curr] < v.key)
  <2>0. HereAt(v) \in Locs /\ HereAt(v).level = v.level /\ HereAt(v).cell = v.cell
        /\ HereAt(v).op = v.op
    BY <1>2, HereIs DEF NextFacts
  <2>1. \/ v.level > 0 /\ Set(p, [HereAt(v) EXCEPT !.level = @ - 1]) /\ Goto(p, "load")
        \/ v.level = 0 /\ FindReturn(p, HereAt(v), key[v.curr] = v.key)
    BY <1>5 DEF FindNext, Before, HereAt
  <2>2. CASE v.level > 0 /\ Set(p, [HereAt(v) EXCEPT !.level = @ - 1]) /\ Goto(p, "load")
    <3>1. pc'[p] = "load" /\ loc'[p] = [HereAt(v) EXCEPT !.level = v.level - 1]
      BY <1>1, <2>0, <2>2, PcNext, LocNext, ZenonT(60) DEF Set, Goto
    <3>2. NextDown(p, v)
      BY <1>5, <2>2, <3>1 DEF NextDown
    <3> QED
      BY <1>2, <3>2, FindNextOK DEF NextIs
  <2>3. CASE v.level = 0 /\ FindReturn(p, HereAt(v), key[v.curr] = v.key)
    <3>1. PICK h : h = HereAt(v)
      OBVIOUS
    <3>2. FoundFacts(p, v, h)
      BY <1>2, <1>5, <2>3, <3>1 DEF FoundFacts
    <3>3. h.key = v.key /\ h.cell = v.cell /\ h.op = v.op /\ h.succs[0] = v.curr
      BY <3>2, FoundIs
    <3>4. FindReturn(p, h, key[v.curr] = v.key)
      BY <2>3, <3>1
    <3>5. ASSUME h.op = "insert", Set(p, Forget(h)),
                 Goto(p, IF h.cell # None THEN "link"
                         ELSE IF key[v.curr] = v.key THEN "update" ELSE "alloc")
          PROVE  NextFound(p, v, h)
      <4>0. PICK at : at = (IF h.cell # None THEN "link"
                            ELSE IF key[v.curr] = v.key THEN "update" ELSE "alloc")
        OBVIOUS
      <4>1. loc'[p] = Forget(h)
        BY <1>1, <3>5, LocNext DEF Set
      <4>2. pc' = [pc EXCEPT ![p] = at]
        BY <3>5, <4>0 DEF Goto
      <4>3. pc'[p] = at
        BY <1>1, <4>2, PcNext
      <4> QED
        BY <3>2, <3>3, <3>5, <4>0, <4>1, <4>3 DEF NextFound
    <3>6. ASSUME h.op = "remove", h.cell = None, key[v.curr] = v.key,
                 Set(p, [ForgetAll(h) EXCEPT !.cell = h.succs[0], !.up = FirstMarked(h.succs[0])]),
                 Goto(p, "extract")
          PROVE  NextFound(p, v, h)
      <4>1. loc'[p] = [ForgetAll(h) EXCEPT !.cell = v.curr, !.up = FirstMarked(v.curr)]
        BY <1>1, <3>3, <3>6, LocNext DEF Set
      <4>2. pc'[p] = "extract"
        BY <1>1, <3>6, PcNext DEF Goto
      <4> QED
        BY <3>2, <3>3, <3>6, <4>1, <4>2 DEF NextFound
    <3>7. ASSUME h.op = "remove", h.cell # None \/ ~(key[v.curr] = v.key),
                 Set(p, [ForgetAll(h) EXCEPT !.res = IF h.cell # None THEN 1 ELSE 0, !.cell = None]),
                 Goto(p, "return")
          PROVE  NextFound(p, v, h)
      <4>1. loc'[p] = [ForgetAll(h) EXCEPT !.res = IF v.cell # None THEN 1 ELSE 0, !.cell = None]
        BY <1>1, <3>3, <3>7, LocNext, ZenonT(60) DEF Set
      <4>2. pc'[p] = "return"
        BY <1>1, <3>7, PcNext DEF Goto
      <4> QED
        BY <3>2, <3>3, <3>7, <4>1, <4>2 DEF NextFound
    <3>8. NextFound(p, v, h)
      BY <3>4, <3>5, <3>6, <3>7 DEF FindReturn
    <3> QED
      BY <1>2, <3>1, <3>8, FindNextOK DEF NextIs
  <2> QED
    BY <2>1, <2>2, <2>3
<1> QED
  BY <1>3, <1>4, <1>5

\* The variables of the call after it.
LEMMA NextLoc ==
    ASSUME Core, NEW p \in Proc, NEW v, NextIs(p, v)
    PROVE  /\ v = loc[p] /\ v \in Locs /\ pc[p] = "next"
           /\ NextSnip(p, v) => /\ loc'[p].op = v.op /\ loc'[p].cell = v.cell /\ loc'[p].key = v.key
                                /\ loc'[p].pred = v.pred /\ loc'[p].curr = v.curr
                                /\ loc'[p].level = v.level /\ loc'[p].preds = v.preds
                                /\ loc'[p].succs = v.succs /\ loc'[p].data = v.data
           /\ NextOn(p, v) => /\ loc'[p].op = v.op /\ loc'[p].cell = v.cell /\ loc'[p].key = v.key
                              /\ loc'[p].pred = v.curr /\ loc'[p].curr = Ptr(v.curr, v.level)
                              /\ loc'[p].level = v.level /\ loc'[p].preds = v.preds
                              /\ loc'[p].succs = v.succs /\ loc'[p].data = v.data
           /\ NextDown(p, v) => /\ loc'[p].op = v.op /\ loc'[p].cell = v.cell /\ loc'[p].key = v.key
                                /\ loc'[p].pred = v.pred /\ loc'[p].level = v.level - 1
                                /\ loc'[p].preds[v.level] = v.pred /\ loc'[p].succs[v.level] = v.curr
                                /\ \A m \in Level : m # v.level => loc'[p].preds[m] = v.preds[m]
                                                                   /\ loc'[p].succs[m] = v.succs[m]
                                /\ loc'[p].data = v.data
<1>1. v = loc[p] /\ v \in Locs /\ pc[p] = "next"
  BY DEF NextIs, NextFacts
<1>2. ASSUME NextSnip(p, v)
      PROVE  /\ loc'[p].op = v.op /\ loc'[p].cell = v.cell /\ loc'[p].key = v.key
             /\ loc'[p].pred = v.pred /\ loc'[p].curr = v.curr
             /\ loc'[p].level = v.level /\ loc'[p].preds = v.preds
             /\ loc'[p].succs = v.succs /\ loc'[p].data = v.data
  BY <1>1, <1>2 DEF NextSnip, Locs
<1>3. ASSUME NextOn(p, v)
      PROVE  /\ loc'[p].op = v.op /\ loc'[p].cell = v.cell /\ loc'[p].key = v.key
             /\ loc'[p].pred = v.curr /\ loc'[p].curr = Ptr(v.curr, v.level)
             /\ loc'[p].level = v.level /\ loc'[p].preds = v.preds
             /\ loc'[p].succs = v.succs /\ loc'[p].data = v.data
  BY <1>1, <1>3 DEF NextOn, Locs
<1>4. ASSUME NextDown(p, v)
      PROVE  /\ loc'[p].op = v.op /\ loc'[p].cell = v.cell /\ loc'[p].key = v.key
             /\ loc'[p].pred = v.pred /\ loc'[p].level = v.level - 1
             /\ loc'[p].preds[v.level] = v.pred /\ loc'[p].succs[v.level] = v.curr
             /\ \A m \in Level : m # v.level => loc'[p].preds[m] = v.preds[m]
                                                /\ loc'[p].succs[m] = v.succs[m]
             /\ loc'[p].data = v.data
  <2>1. PICK h : h = HereAt(v)
    OBVIOUS
  <2>2. /\ h \in Locs /\ h.preds[v.level] = v.pred /\ h.succs[v.level] = v.curr
        /\ \A m \in Level : m # v.level => h.preds[m] = v.preds[m] /\ h.succs[m] = v.succs[m]
        /\ h.pred = v.pred /\ h.op = v.op /\ h.key = v.key /\ h.cell = v.cell /\ h.data = v.data
    BY <1>1, <2>1, HereIs
  <2>3. loc'[p] = [h EXCEPT !.level = v.level - 1]
    BY <1>4, <2>1 DEF NextDown
  <2>4. /\ loc'[p].op = h.op /\ loc'[p].cell = h.cell /\ loc'[p].key = h.key
        /\ loc'[p].pred = h.pred /\ loc'[p].level = v.level - 1
        /\ loc'[p].preds = h.preds /\ loc'[p].succs = h.succs /\ loc'[p].data = h.data
    BY <2>2, <2>3 DEF Locs
  <2> QED
    BY <2>2, <2>4
<1> QED
  BY <1>1, <1>2, <1>3, <1>4
-----------------------------------------------------------------------------
LEMMA StepAt ==
    ASSUME NEW p, Step(p)
    PROVE  /\ pc[p] \in RemoveLabels => RemoveExtract(p) \/ RemoveMark(p) \/ RemoveLost(p)
           /\ pc[p] = "find" => FindStart(p)
           /\ pc[p] = "load" => FindLoad(p)
           /\ pc[p] = "next" => FindNext(p)
           /\ pc[p] = "snip" => FindSnip(p)
           /\ pc[p] = "claim" => FindClaim(p)
           /\ pc[p] = "push" => FindPush(p)
           /\ pc[p] = "publish" => FindPublish(p)
           /\ pc[p] = "link" => InsertLink(p)
           /\ pc[p] = "alloc" => InsertAlloc(p)
           /\ pc[p] = "lost" => RemoveLost(p)
<1>1. (Call(p) => pc[p] = "idle") /\ (Return(p) => pc[p] = "return")
  BY DEF Call, Return
<1>2. (FindStart(p) => pc[p] = "find") /\ (FindLoad(p) => pc[p] = "load")
  BY DEF FindStart, FindLoad
<1>3. (FindNext(p) => pc[p] = "next") /\ (FindSnip(p) => pc[p] = "snip")
  BY DEF FindNext, FindSnip
<1>4. (FindClaim(p) => pc[p] = "claim") /\ (FindPush(p) => pc[p] = "push")
      /\ (FindPublish(p) => pc[p] = "publish")
  BY DEF FindClaim, FindPush, FindPublish
<1>5. (LookupStart(p) => pc[p] = "lookup") /\ (LookupEnter(p) => pc[p] = "enter")
  BY DEF LookupStart, LookupEnter
<1>6. (LookupWalk(p) => pc[p] = "walk") /\ (ReadData(p) => pc[p] = "read")
  BY DEF LookupWalk, ReadData
<1>7. (InsertUpdate(p) => pc[p] = "update") /\ (InsertAlloc(p) => pc[p] = "alloc")
      /\ (InsertLink(p) => pc[p] = "link")
  BY DEF InsertUpdate, InsertAlloc, InsertLink
<1>8. (InsertBump(p) => pc[p] = "bump") /\ (InsertRaise(p) => pc[p] = "raise")
  BY DEF InsertBump, InsertRaise
<1>9. (RemoveExtract(p) => pc[p] = "extract") /\ (RemoveMark(p) => pc[p] = "mark")
      /\ (RemoveLost(p) => pc[p] = "lost")
  BY DEF RemoveExtract, RemoveMark, RemoveLost
<1> QED
  BY <1>1, <1>2, <1>3, <1>4, <1>5, <1>6, <1>7, <1>8, <1>9 DEF Step, RemoveLabels

LEMMA StepUnclaimed ==
    ASSUME Core, TrashInv, ClaimInv, NEW p \in Proc, Step(p)
    PROVE  Unclaimed(p)
<1>1. CallTypes /\ GarbageTypes /\ Listed \subseteq AnyCell
  BY CoreHeap DEF Core, HeapFacts
<1>2. CASE FindClaim(p) /\ ClaimSucceeds(loc[p].curr)
  BY <1>1, <1>2, MetFacts, Constants DEF FindClaim, Unclaimed, GarbageTypes
<1>3. CASE FindPush(p)
  BY <1>1, <1>3, Constants, GarbageIs DEF FindPush, GarbageTypes, AnyCell, Unclaimed
<1>4. CASE FindPublish(p)
  BY <1>4 DEF FindPublish, Unclaimed
<1>5. CASE ~(FindClaim(p) /\ ClaimSucceeds(loc[p].curr)) /\ ~FindPush(p) /\ ~FindPublish(p)
  BY <1>5, StepNoGarbage, StepAt, MetFacts DEF NoGarbage, ClaimSucceeds, Unclaimed
<1> QED
  BY <1>2, <1>3, <1>4, <1>5

\* A search that comes to its end does not find the cell in the list any more.
LEMMA FoundGone ==
    ASSUME Core, NEW p \in Proc, NEW v, NextFacts(p, v), v.level = 0, ~Marked(v.curr, 0),
           ~(key[v.curr] < v.key), v.op = "remove", v.cell \in Listed
    PROVE  v.cell \notin Linked0
<1> SUFFICES ASSUME v.cell \in Linked0 PROVE FALSE
  OBVIOUS
<1>1. Heap /\ HeapFacts /\ ListFacts /\ v \in Locs /\ v.cell # None
  BY CoreHeap, Constants DEF NextFacts, HeapFacts
<1>2. key[v.cell] = v.key /\ Marked(v.cell, 0)
  BY <1>1 DEF NextFacts, FindOK, OwnOK
<1>3. v.cell \in Watched(v)
  BY <1>2 DEF Watched
<1>4. v.cell = v.curr \/ v.cell \in From(v.curr, 0)
  BY <1>3 DEF NextFacts, FollowOK
<1>5. v.curr \in Targets /\ v.curr # v.cell
  BY <1>2 DEF NextFacts, PlaceOK
<1>6. v.curr \in used \cup {Head}
  BY <1>1, <1>4, <1>5, TailEnd, Constants DEF Targets, HeapFacts
<1>7. key[v.curr] < key[v.cell]
  BY <1>1, <1>4, <1>5, <1>6 DEF ListFacts
<1> QED
  BY <1>2, <1>7

LEMMA StepMover ==
    ASSUME Core, NEW p \in Proc, Step(p), ~(RemoveMark(p) /\ MarkWins(p))
    PROVE  Mover(p)
<1>1. CallTypes /\ None \notin Listed
  BY CoreHeap, Constants DEF Core, HeapFacts
<1>2. ASSUME pc[p] \in RemoveLabels PROVE Marked(loc[p].cell, 0) \/ StaysOn(p, RemoveLabels)
  <2>1. RemoveExtract(p) \/ RemoveMark(p) \/ RemoveLost(p)
    BY <1>2, StepAt
  <2>2. loc[p] \in Locs
    BY <1>2, ExtractFacts DEF RemoveLabels
  <2>3. CASE RemoveExtract(p)
    <3>1. CASE Set(p, [loc[p] EXCEPT !.up = loc[p].up - 1]) /\ UNCHANGED pc
      BY <1>1, <1>2, <2>2, <3>1, LocNext DEF Set, Locs, StaysOn
    <3>2. CASE Set(p, [loc[p] EXCEPT !.succ = Ptr(loc[p].cell, loc[p].up)]) /\ Goto(p, "mark")
      <4>1. loc'[p] = [loc[p] EXCEPT !.succ = Ptr(loc[p].cell, loc[p].up)]
        BY <1>1, <3>2, LocNext DEF Set
      <4>2. loc'[p].op = loc[p].op /\ loc'[p].cell = loc[p].cell
        BY <2>2, <4>1 DEF Locs
      <4>3. pc'[p] = "mark"
        BY <1>1, <3>2, PcNext DEF Goto
      <4> QED
        BY <4>2, <4>3 DEF StaysOn, RemoveLabels
    <3> QED
      BY <2>3, <3>1, <3>2 DEF RemoveExtract
  <2>4. CASE RemoveMark(p)
    <3>1. PICK v, w : v = loc[p] /\ w = [v EXCEPT !.succ = Head]
      OBVIOUS
    <3>2. /\ w.op = v.op /\ w.cell = v.cell /\ loc' = [loc EXCEPT ![p] = w]
          /\ pc'[p] = (IF v.up > 0 THEN "extract" ELSE IF MarkWins(p) THEN "find" ELSE "lost")
      BY <2>4, <3>1, MarkFacts
    <3>3. loc'[p] = w
      BY <1>1, <3>2, LocNext
    <3> QED
      BY <2>4, <3>1, <3>2, <3>3 DEF StaysOn, RemoveLabels
  <2>5. CASE RemoveLost(p)
    <3>1. CASE ~Marked(loc[p].cell, 0)
      BY <1>1, <2>2, <2>5, <3>1, LocNext, PcNext DEF RemoveLost, Set, Locs, Goto,
         StaysOn, RemoveLabels
    <3> QED
      BY <3>1
  <2> QED
    BY <2>1, <2>3, <2>4, <2>5
<1>3. ASSUME pc[p] \in FindLabels, loc[p].op = "remove", loc[p].cell \in Listed
      PROVE  loc[p].cell \notin Linked0 \/ StaysOn(p, FindLabels)
  <2>0. loc[p] \in Locs
    BY <1>3, SearchFacts DEF FindLabels, Searching
  <2>1. \/ FindStart(p) \/ FindLoad(p) \/ FindNext(p) \/ FindSnip(p)
        \/ FindClaim(p) \/ FindPush(p) \/ FindPublish(p)
    BY <1>3, StepAt DEF FindLabels, Searching
  <2>2. CASE FindStart(p)
    BY <1>1, <2>0, <2>2, LocNext, PcNext DEF FindStart, Set, Locs, Goto, StaysOn,
       FindLabels, Searching
  <2>3. CASE FindLoad(p)
    BY <1>1, <2>0, <2>3, LocNext, PcNext DEF FindLoad, Set, Locs, Goto, StaysOn,
       FindLabels, Searching
  <2>4. CASE FindNext(p)
    <3>1. PICK v : v = loc[p]
      OBVIOUS
    <3>2. NextIs(p, v)
      BY <2>4, <3>1, FindNextIs
    <3>3. CASE NextSnip(p, v) \/ NextOn(p, v) \/ NextDown(p, v)
      <4>1. loc'[p].op = v.op /\ loc'[p].cell = v.cell
        BY <3>2, <3>3, NextLoc
      <4>2. pc'[p] \in FindLabels
        BY <3>3 DEF NextSnip, NextOn, NextDown, FindLabels, Searching
      <4> QED
        BY <3>1, <4>1, <4>2 DEF StaysOn
    <3>4. CASE NextFound(p, v, HereAt(v))
      BY <1>3, <3>1, <3>4, FoundGone DEF NextFound, FoundFacts
    <3> QED
      BY <3>2, <3>3, <3>4 DEF NextIs
  <2>5. CASE FindSnip(p) \/ FindClaim(p) \/ FindPush(p) \/ FindPublish(p)
    BY <1>1, <2>5, PcNext DEF FindSnip, FindClaim, FindPush, FindPublish, Goto,
       StaysOn, FindLabels, Searching
  <2> QED
    BY <2>1, <2>2, <2>3, <2>4, <2>5
<1> QED
  BY <1>2, <1>3 DEF Mover

\* A cell that is taken out has somebody who will claim it.
LEMMA SnipRemoved ==
    ASSUME Core, NEW p \in Proc, FindSnip(p), SnipSucceeds(p), TrashInv, ClaimInv, RemovedInv
    PROVE  RemovedInv'
<1>1. PICK v : v = loc[p]
  OBVIOUS
<1>2. /\ Core' /\ Evolves /\ Others(p) /\ loc'[p] = v /\ pc'[p] = "claim" /\ pc[p] = "snip"
      /\ SnipStep(v.pred, v.curr, v.level)
  BY <1>1, SnipOK DEF FindSnip
<1>3. /\ Heap /\ HeapFacts /\ Listed' = Listed /\ top_level' = top_level
      /\ garbage_next' = garbage_next
  BY <1>2, CoreHeap DEF SnipStep, FindSnip
<1>4. \A c \in Listed : \A l \in Level : Marked(c, l)' <=> Marked(c, l)
  BY <1>2, <1>3, SnipFrom DEF HeapFacts
<1>5. Linked0' \subseteq Linked0 /\ Linked0 \subseteq Linked0' \cup {v.curr}
  BY <1>2, <1>3, SnipLinked DEF SnipStep
<1>6. \A q \in Proc : loc'[q] = loc[q] /\ (q # p => pc'[q] = pc[q])
  BY <1>1, <1>2 DEF Others
<1>7. ASSUME NEW c \in Listed
      PROVE  /\ \A l \in Level : l <= top_level'[c] /\ Marked(c, l)' /\ ~Marked(c, 0)' =>
                    \E q \in Proc : pc'[q] \in {"extract", "mark", "lost"} /\ Removes(q, c)'
             /\ Marked(c, 0)' /\ c \in Linked0' =>
                    \E q \in Proc : pc'[q] \in Searching \cup {"find"} /\ Removes(q, c)'
             /\ c \notin Linked0' /\ garbage_next'[c] = None =>
                    \E q \in Proc : pc'[q] = "claim" /\ loc'[q].curr = c
  <2>1. \A q \in Proc : Removes(q, c)' <=> Removes(q, c)
    BY <1>6 DEF Removes
  <2>2. \A l \in Level : l <= top_level'[c] /\ Marked(c, l)' /\ ~Marked(c, 0)' =>
                  \E q \in Proc : pc'[q] \in {"extract", "mark", "lost"} /\ Removes(q, c)'
    <3> SUFFICES ASSUME NEW l \in Level, l <= top_level[c], Marked(c, l), ~Marked(c, 0)
                 PROVE  \E q \in Proc : pc'[q] \in {"extract", "mark", "lost"} /\ Removes(q, c)'
      BY <1>3, <1>4, <1>7, Constants
    <3>1. PICK q \in Proc : pc[q] \in {"extract", "mark", "lost"} /\ Removes(q, c)
      BY <1>7 DEF RemovedInv
    <3>2. q # p
      BY <1>2, <3>1
    <3> QED
      BY <1>6, <2>1, <3>1, <3>2
  <2>3. ASSUME Marked(c, 0)', c \in Linked0'
        PROVE  \E q \in Proc : pc'[q] \in Searching \cup {"find"} /\ Removes(q, c)'
    <3>1. PICK q \in Proc : pc[q] \in Searching \cup {"find"} /\ Removes(q, c)
      BY <1>4, <1>5, <1>7, <2>3, Constants DEF RemovedInv
    <3>2. pc'[q] \in Searching \cup {"find"}
      BY <1>2, <1>6, <3>1 DEF Searching
    <3> QED
      BY <2>1, <3>1, <3>2
  <2>4. ASSUME c \notin Linked0', garbage_next'[c] = None
        PROVE  \E q \in Proc : pc'[q] = "claim" /\ loc'[q].curr = c
    <3>1. CASE c = v.curr
      BY <1>2, <3>1
    <3>2. CASE c # v.curr
      <4>1. c \notin Linked0 /\ garbage_next[c] = None
        BY <1>3, <1>5, <2>4, <3>2
      <4>2. PICK q \in Proc : pc[q] = "claim" /\ loc[q].curr = c
        BY <1>7, <4>1 DEF RemovedInv
      <4>3. q # p
        BY <1>2, <4>2
      <4> QED
        BY <1>6, <4>2, <4>3
    <3> QED
      BY <3>1, <3>2
  <2> QED
    BY <2>2, <2>3, <2>4
<1> QED
  BY <1>3, <1>7 DEF RemovedInv

\* A cell that is marked is in the hands of the thread that marks it.
LEMMA MarkRemoved ==
    ASSUME Core, NEW p \in Proc, RemoveMark(p), MarkWins(p), TrashInv, ClaimInv, RemovedInv
    PROVE  RemovedInv'
<1>1. PICK v : v = loc[p]
  OBVIOUS
<1>2. /\ Core' /\ Evolves /\ Others(p) /\ MarkStep(v.cell, v.up)
      /\ loc'[p] = [v EXCEPT !.succ = Head]
      /\ pc'[p] = (IF v.up > 0 THEN "extract" ELSE "find") /\ pc[p] = "mark"
  BY <1>1, MarkOK DEF RemoveMark
<1>3. /\ v \in Locs /\ v.op = "remove" /\ v.up \in Nat
  BY <1>1, <1>2, ExtractFacts
<1>4. loc'[p].op = v.op /\ loc'[p].cell = v.cell
  BY <1>2, <1>3 DEF Locs
<1>5. /\ Heap /\ HeapFacts /\ Listed' = Listed /\ top_level' = top_level
      /\ garbage_next' = garbage_next
  BY <1>2, CoreHeap DEF MarkStep, RemoveMark
<1>6. /\ \A x \in AnyCell, m \in Level : Marked(x, m)' <=> Marked(x, m) \/ (x = v.cell /\ m = v.up)
      /\ Linked0' = Linked0
  BY <1>2, <1>5, MarkFrom DEF MarkStep
<1>7. \A q \in Proc : q # p => loc'[q] = loc[q] /\ pc'[q] = pc[q]
  BY <1>2 DEF Others
<1>8. ASSUME NEW c \in Listed
      PROVE  /\ \A l \in Level : l <= top_level'[c] /\ Marked(c, l)' /\ ~Marked(c, 0)' =>
                    \E q \in Proc : pc'[q] \in {"extract", "mark", "lost"} /\ Removes(q, c)'
             /\ Marked(c, 0)' /\ c \in Linked0' =>
                    \E q \in Proc : pc'[q] \in Searching \cup {"find"} /\ Removes(q, c)'
             /\ c \notin Linked0' /\ garbage_next'[c] = None =>
                    \E q \in Proc : pc'[q] = "claim" /\ loc'[q].curr = c
  <2>0. c \in AnyCell /\ 0 \in Level
    BY <1>5, Constants DEF HeapFacts
  <2>1. \A q \in Proc : Removes(q, c)' <=> Removes(q, c)
    BY <1>1, <1>3, <1>4, <1>7 DEF Removes
  <2>2. ASSUME NEW l \in Level, l <= top_level'[c], Marked(c, l)', ~Marked(c, 0)'
        PROVE  \E q \in Proc : pc'[q] \in {"extract", "mark", "lost"} /\ Removes(q, c)'
    <3>0. ~Marked(c, 0) /\ (c = v.cell => v.up # 0)
      BY <1>6, <2>0, <2>2
    <3>1. CASE c = v.cell
      BY <1>1, <1>2, <1>3, <2>1, <3>0, <3>1 DEF Removes
    <3>2. CASE c # v.cell
      <4>1. Marked(c, l)
        BY <1>6, <2>0, <2>2, <3>2
      <4>2. PICK q \in Proc : pc[q] \in {"extract", "mark", "lost"} /\ Removes(q, c)
        BY <1>5, <1>8, <2>2, <3>0, <4>1 DEF RemovedInv
      <4>3. q # p
        BY <1>1, <3>2, <4>2 DEF Removes
      <4> QED
        BY <1>7, <2>1, <4>2, <4>3
    <3> QED
      BY <3>1, <3>2
  <2>3. ASSUME Marked(c, 0)', c \in Linked0'
        PROVE  \E q \in Proc : pc'[q] \in Searching \cup {"find"} /\ Removes(q, c)'
    <3>1. CASE c = v.cell /\ v.up = 0
      BY <1>1, <1>2, <1>3, <2>1, <3>1 DEF Removes
    <3>2. CASE ~(c = v.cell /\ v.up = 0)
      <4>1. PICK q \in Proc : pc[q] \in Searching \cup {"find"} /\ Removes(q, c)
        BY <1>6, <1>8, <2>0, <2>3, <3>2 DEF RemovedInv
      <4>2. q # p
        BY <1>2, <4>1 DEF Searching
      <4> QED
        BY <1>7, <2>1, <4>1, <4>2
    <3> QED
      BY <3>1, <3>2
  <2>4. ASSUME c \notin Linked0', garbage_next'[c] = None
        PROVE  \E q \in Proc : pc'[q] = "claim" /\ loc'[q].curr = c
    <3>1. PICK q \in Proc : pc[q] = "claim" /\ loc[q].curr = c
      BY <1>5, <1>6, <1>8, <2>4 DEF RemovedInv
    <3>2. q # p
      BY <1>2, <3>1
    <3> QED
      BY <1>7, <3>1, <3>2
  <2> QED
    BY <2>2, <2>3, <2>4
<1> QED
  BY <1>5, <1>8 DEF RemovedInv

LEMMA StepGarbage ==
    ASSUME Core, GarbageInv, NEW p \in Proc, Step(p)
    PROVE  GarbageInv'
BY StepTrash, StepCore, StepUnclaimed, SnipRemoved, MarkRemoved, StepMover, StepNoRemoval,
   RemovedKeeps DEF GarbageInv
-----------------------------------------------------------------------------
(* One writer: the lists of every level. *)
LevelFacts(l) ==
    /\ Linked(l) \subseteq Listed /\ Linked(l) \subseteq Cell
    /\ \A c \in Linked(l) : l <= top_level[c]
    /\ \A c \in Linked(l) \cup {Head} : Ptr(c, l) \in Linked(l) \cup {Tail}
    /\ \A c \in Linked(l) \cup {Head} : key[c] < key[Ptr(c, l)]

LEMMA LevelList ==
    ASSUME Heap, AloneGap, NEW l \in Level
    PROVE  LevelFacts(l)
<1> USE Constants
<1>1. HeapFacts /\ ListFacts
  BY Facts
<1>2. Head \in used \cup {Head} /\ l <= top_level[Head] /\ Linked(l) = From(Head, l)
  BY <1>1 DEF HeapFacts, Linked
<1>3. Linked(l) \subseteq Listed /\ Linked(l) \subseteq Cell /\ \A c \in Linked(l) : l <= top_level[c]
  BY <1>1, <1>2 DEF HeapFacts, ListFacts
<1>4. ASSUME NEW c \in Linked(l) \cup {Head}
      PROVE  Ptr(c, l) \in Linked(l) \cup {Tail} /\ key[c] < key[Ptr(c, l)]
  <2>1. c \in used \cup {Head} /\ l <= top_level[c] /\ c \in AnyCell
    BY <1>1, <1>2, <1>3 DEF HeapFacts
  <2>2. Ptr(c, l) \in Targets /\ Ptr(c, l) \in AnyCell
    BY <1>1, <2>1 DEF Heap, HeapInv, PointerInv, HeapFacts
  <2>3. Ptr(c, l) \in Cell => Ptr(c, l) \in Linked(l)
    BY <1>2, <2>1, LinksAre, ReachedClosed DEF Closed
  <2>4. Ptr(c, l) \in Linked(l) \cup {Tail}
    BY <1>1, <2>2, <2>3 DEF Targets, HeapFacts
  <2>5. /\ key[c] \in Nat /\ key[Ptr(c, l)] \in Nat
        /\ key[Ptr(c, l)] > key[c] \/ key[Ptr(c, l)] = key[c]
    BY <1>1, <2>1, <2>2 DEF Heap, HeapInv, SortedInv, HeapFacts
  <2>6. ASSUME key[Ptr(c, l)] = key[c] PROVE FALSE
    BY <1>1, <1>4, <2>1, <2>2, <2>4, <2>6, LinksAre, ReachedClosed DEF HeapFacts,
       Targets, Key, AloneGap, Heap, HeapInv, AcyclicInv
  <2> QED
    BY <2>4, <2>5, <2>6
<1> QED
  BY <1>3, <1>4 DEF LevelFacts

LevelGap(l) ==
    \A c \in Linked(l) \cup {Head}, d \in Linked(l) :
        /\ key[c] < key[d] => key[Ptr(c, l)] <= key[d]
        /\ key[c] = key[d] => c = d

LEMMA LevelNumbers ==
    ASSUME Heap, NEW l \in Level, LevelFacts(l), NEW c \in Linked(l) \cup {Head}
    PROVE  /\ c \in AnyCell /\ key[c] \in Nat /\ Ptr(c, l) \in AnyCell /\ key[Ptr(c, l)] \in Nat
           /\ c # Head => c \in Listed /\ c \in used /\ c \in Cell /\ key[Head] < key[c]
           /\ c # Tail /\ l <= top_level[c]
BY Facts, Constants DEF HeapFacts, LevelFacts

\* Taking d out behind q.
LEMMA LevelSnip ==
    ASSUME Heap, NEW q, NEW d, NEW l, SnipStep(q, d, l), AloneGap, q \in Linked(l) \cup {Head}
    PROVE  /\ Linked(l)' = Linked(l) \ {d} /\ LevelGap(l)' /\ d \in Linked(l)
           /\ \A m \in Level : m # l => Linked(m)' = Linked(m) /\ LevelGap(m)'
<1> USE Constants
<1>0. /\ l \in Level /\ LevelFacts(l) /\ d = Ptr(q, l) /\ HeapFacts /\ UNCHANGED key
      /\ q \in AnyCell /\ d \in Cell /\ d # q /\ d # Tail
  BY LevelList, SnipFrom, Facts, ZenonT(60) DEF SnipStep
<1>1. /\ \A c \in AnyCell, m \in Level : c # q \/ m # l => Ptr(c, m)' = Ptr(c, m)
      /\ Ptr(q, l)' = Ptr(d, l)
  BY SnipFrom
<1>2. d \in Linked(l) /\ key[q] < key[d] /\ Ptr(d, l) \in Linked(l) \cup {Tail} /\ key[d] < key[Ptr(d, l)]
  BY <1>0 DEF LevelFacts
<1>3. \A m \in Level : \A c : From(c, m)' = Reached(Links(m)', c)
  BY DEF From
<1>4. PICK n, k : n = Links(l) /\ k = Links(l)'
  OBVIOUS
<1>5. n[q] = d /\ k[q] = n[d] /\ \A x \in AnyCell : x # q => k[x] = n[x]
  BY <1>0, <1>1, <1>4, LinksAre DEF Links
<1>6. Reached(k, Head) \subseteq Reached(n, Head) /\ Reached(n, Head) \subseteq Reached(k, Head) \cup {d}
  BY <1>0, <1>5, ReachedSnip
<1>7. Linked(l) = Reached(n, Head) /\ Linked(l)' = Reached(k, Head)
  BY <1>0, <1>3, <1>4 DEF Linked, From
<1>8. d \notin Linked(l)'
  <2> DEFINE S == Linked(l) \ {d}
  <2>1. S \in SUBSET Cell
    BY <1>0 DEF LevelFacts
  <2>2. ASSUME NEW x \in S \cup {Head}, k[x] \in Cell PROVE k[x] \in S
    <3>0. x \in AnyCell /\ key[x] \in Nat /\ key[q] \in Nat /\ key[d] \in Nat /\ key[Ptr(x, l)] \in Nat
          /\ key[Ptr(d, l)] \in Nat /\ x \in Linked(l) \cup {Head}
      BY <1>0, <1>2, LevelNumbers
    <3>1. CASE x = q
      BY <1>0, <1>2, <1>4, <1>5, <2>2, <3>0, <3>1, LinksAre
    <3>2. CASE x # q
      <4>1. k[x] = Ptr(x, l) /\ Ptr(x, l) \in Linked(l)
        BY <1>0, <1>4, <1>5, <2>2, <3>0, <3>2, LinksAre DEF LevelFacts
      <4>2. key[x] # key[q]
        BY <1>0, <3>0, <3>2, LevelNumbers DEF AloneGap
      <4>3. ASSUME Ptr(x, l) = d PROVE FALSE
        BY <1>0, <1>2, <3>0, <4>2, <4>3, LevelNumbers DEF LevelFacts, AloneGap
      <4> QED
        BY <4>1, <4>3
    <3> QED
      BY <3>1, <3>2
  <2>3. Closed(k, S) /\ (k[Head] \in Cell => k[Head] \in S)
    BY <2>2 DEF Closed
  <2>4. Reached(k, Head) \subseteq S
    BY <2>1, <2>3, ReachedIn
  <2> QED
    BY <1>7, <2>4
<1>9. Linked(l)' = Linked(l) \ {d}
  BY <1>6, <1>7, <1>8
<1>10. LevelGap(l)'
  <2> SUFFICES ASSUME NEW c \in Linked(l) \cup {Head}, NEW x \in Linked(l), c # d, x # d
               PROVE  /\ key[c] < key[x] => key[Ptr(c, l)'] <= key[x]
                      /\ key[c] = key[x] => c = x
    BY <1>0, <1>9 DEF LevelGap
  <2>0. /\ c \in AnyCell /\ key[c] \in Nat /\ key[x] \in Nat /\ key[d] \in Nat
        /\ key[c] < key[x] => key[Ptr(c, l)] <= key[x]
        /\ key[c] = key[x] => c = x
    BY <1>0, <1>2, LevelNumbers DEF AloneGap
  <2>1. CASE c = q
    BY <1>0, <1>1, <1>2, <2>0, <2>1 DEF AloneGap
  <2>2. CASE c # q
    BY <1>0, <1>1, <2>0, <2>2
  <2> QED
    BY <2>1, <2>2
<1>11. ASSUME NEW m \in Level, m # l PROVE Linked(m)' = Linked(m) /\ LevelGap(m)'
  <2>1. \A x \in AnyCell : Ptr(x, m)' = Ptr(x, m)
    BY <1>0, <1>1, <1>11
  <2>2. Links(m)' = Links(m)
    BY <2>1 DEF Links
  <2>3. Linked(m)' = Linked(m)
    BY <2>2 DEF Linked, From
  <2>4. Linked(m) \cup {Head} \subseteq AnyCell
    BY LevelList DEF LevelFacts
  <2> QED
    BY <1>0, <1>11, <2>1, <2>3, <2>4 DEF LevelGap, AloneGap
<1> QED
  BY <1>2, <1>9, <1>10, <1>11

\* Linking e behind q.
LEMMA LevelLink ==
    ASSUME Heap, NEW q, NEW e, NEW l, LinkStep(q, e, l), AloneGap, q \in Linked(l) \cup {Head},
           Ptr(e, l) = Ptr(q, l), key[e] < key[Ptr(q, l)], e \notin Linked(l)
    PROVE  /\ Linked(l)' = Linked(l) \cup {e} /\ LevelGap(l)'
           /\ \A m \in Level : m # l => Linked(m)' = Linked(m) /\ LevelGap(m)'
<1> USE Constants
<1>0. /\ l \in Level /\ LevelFacts(l) /\ HeapFacts /\ UNCHANGED key
      /\ q \in AnyCell /\ e \in Cell /\ e # q /\ e \in AnyCell /\ key[q] < key[e]
      /\ key[q] \in Nat /\ key[e] \in Nat /\ key[Ptr(q, l)] \in Nat /\ 0 < key[e]
  BY LevelList, LinkPtr, Facts, LevelNumbers DEF LinkStep, HeapFacts
<1>1. /\ \A c \in AnyCell, m \in Level : c # q \/ m # l => Ptr(c, m)' = Ptr(c, m)
      /\ Ptr(q, l)' = e
  <2>1. ASSUME NEW c \in AnyCell, NEW m \in Level, c # q \/ m # l
        PROVE  Ptr(c, m)' = Ptr(c, m)
    BY <2>1, LinkPtr
  <2>2. Ptr(q, l)' = e
    BY LinkPtr
  <2> QED
    BY <2>1, <2>2
<1>4. PICK n, k : n = Links(l) /\ k = Links(l)'
  OBVIOUS
<1>5. k[q] = e /\ n[e] = n[q] /\ \A x \in AnyCell : x # q => k[x] = n[x]
  BY <1>0, <1>1, <1>4, LinksAre DEF Links
<1>6. /\ Reached(n, Head) \subseteq Reached(k, Head) /\ Reached(k, Head) \subseteq Reached(n, Head) \cup {e}
      /\ q = Head \/ q \in Reached(n, Head) => e \in Reached(k, Head)
  BY <1>0, <1>5, ReachedLink
<1>7. Linked(l) = Reached(n, Head) /\ Linked(l)' = Reached(k, Head)
  BY <1>0, <1>4 DEF Linked, From
<1>9. Linked(l)' = Linked(l) \cup {e}
  BY <1>6, <1>7
<1>10. LevelGap(l)'
  <2> SUFFICES ASSUME NEW c \in Linked(l) \cup {Head, e}, NEW x \in Linked(l) \cup {e}
               PROVE  /\ key[c] < key[x] => key[Ptr(c, l)'] <= key[x]
                      /\ key[c] = key[x] => c = x
    BY <1>0, <1>9 DEF LevelGap
  <2>1. ASSUME NEW y \in Linked(l) \cup {Head}
        PROVE  /\ y \in AnyCell /\ key[y] \in Nat /\ key[Ptr(y, l)] \in Nat
               /\ y # Head => key[Head] < key[y]
    BY <1>0, <2>1, LevelNumbers
  <2>2. /\ c \in AnyCell /\ x \in AnyCell /\ key[c] \in Nat /\ key[x] \in Nat
    BY <1>0, <2>1
  <2>3. ASSUME NEW y \in Linked(l) \cup {Head}, key[y] <= key[e], y # q
        PROVE  key[y] < key[e] /\ key[Ptr(y, l)] <= key[e]
    BY <1>0, <2>1, <2>3 DEF AloneGap
  <2>4. CASE c = e
    BY <1>0, <1>1, <2>2, <2>3, <2>4 DEF AloneGap
  <2>5. CASE c # e /\ x = e
    BY <1>0, <1>1, <2>2, <2>3, <2>5
  <2>6. CASE c # e /\ x # e
    BY <1>0, <1>1, <2>2, <2>6 DEF AloneGap
  <2> QED
    BY <2>4, <2>5, <2>6
<1>11. ASSUME NEW m \in Level, m # l PROVE Linked(m)' = Linked(m) /\ LevelGap(m)'
  <2>1. \A x \in AnyCell : Ptr(x, m)' = Ptr(x, m)
    BY <1>0, <1>1, <1>11
  <2>2. Links(m)' = Links(m)
    BY <2>1 DEF Links
  <2>3. Linked(m)' = Linked(m)
    BY <2>2 DEF Linked, From
  <2>4. Linked(m) \cup {Head} \subseteq AnyCell
    BY LevelList DEF LevelFacts
  <2> QED
    BY <1>0, <1>11, <2>1, <2>3, <2>4 DEF LevelGap, AloneGap
<1> QED
  BY <1>9, <1>10, <1>11
-----------------------------------------------------------------------------
\* The calls that work on the lists: with one writer there is one at most.
WorkLabels == FindLabels \cup RemoveLabels \cup {"alloc", "link"}

LEMMA OneWriter ==
    ASSUME CallTypes, profile.collect, NEW p \in Proc, NEW q \in Proc,
           pc[p] \in WorkLabels, pc[q] \in WorkLabels
    PROVE  p = q
BY PcIs, LocsOf, LfSkiplistAssumption DEF CallTypes, WorkLabels, FindLabels, RemoveLabels,
   Searching, CallType

Single == \A p, q \in Proc : pc[p] \in WorkLabels /\ pc[q] \in WorkLabels => p = q
LEMMA SingleIs == CallTypes /\ profile.collect => Single
BY OneWriter DEF Single
LEMMA SingleNext == CallTypes' /\ profile.collect' => Single'
BY SingleIs, PTL

\* What this call, the only one that works on the lists, knows of them.
AloneIs(at, v) ==
    /\ \A c \in Listed, l \in Level :
          l <= top_level[c] /\ ~Marked(c, l) /\ Entering(at, v, c, l) => c \in Linked(l)
    /\ \A c \in Listed, l \in Level : c \in Linked(l) => Entering(at, v, c, l)
    /\ AloneGap
    /\ AloneAt(at, v)
    /\ \A l \in Level : \A c \in Linked(l) : Marked(c, l) => Removing(at, v, c, l)
Solo(p) == \A q \in Proc : q # p => pc[q] \notin WorkLabels

LEMMA Lazy ==
    ASSUME NEW at, NEW v, at \notin WorkLabels
    PROVE  /\ AloneAt(at, v)
           /\ \A c, l : Entering(at, v, c, l) /\ ~Removing(at, v, c, l)
BY DEF WorkLabels, FindLabels, RemoveLabels, Searching, AloneAt, Entering, Removing

LEMMA SoloIs ==
    ASSUME NEW p \in Proc, Solo(p), NEW at, NEW v, at = pc[p], v = loc[p]
    PROVE  Alone <=> AloneIs(at, v)
<1>1. ASSUME NEW q \in Proc, q # p
      PROVE  /\ AloneAt(pc[q], loc[q])
             /\ \A c, l : Entering(pc[q], loc[q], c, l) /\ ~Removing(pc[q], loc[q], c, l)
  <2>1. PICK a, w : a = pc[q] /\ w = loc[q]
    OBVIOUS
  <2>2. a \notin WorkLabels
    BY <1>1, <2>1 DEF Solo
  <2> QED
    BY <2>1, <2>2, Lazy
<1>2. \A c, l : Entered(c, l) <=> Entering(at, v, c, l)
  BY <1>1 DEF Entered
<1>3. AloneCalls <=> AloneAt(at, v)
  BY <1>1 DEF AloneCalls
<1>4. \A c, l : (\E q \in Proc : Removing(pc[q], loc[q], c, l)) <=> Removing(at, v, c, l)
  BY <1>1
<1>5. AloneMarked <=> \A l \in Level : \A c \in Linked(l) : Marked(c, l) => Removing(at, v, c, l)
  BY <1>4 DEF AloneMarked
<1>6. AloneLive <=> \A c \in Listed, l \in Level :
          l <= top_level[c] /\ ~Marked(c, l) /\ Entering(at, v, c, l) => c \in Linked(l)
  BY <1>2 DEF AloneLive
<1>7. AloneEntered <=> \A c \in Listed, l \in Level : c \in Linked(l) => Entering(at, v, c, l)
  BY <1>2 DEF AloneEntered
<1> QED
  BY <1>3, <1>5, <1>6, <1>7 DEF Alone, AloneIs

LEMMA SoloNext ==
    ASSUME NEW p \in Proc, Solo(p)', NEW at, NEW v, at = pc'[p], v = loc'[p], AloneIs(at, v)'
    PROVE  Alone'
<1>1. ASSUME NEW q \in Proc, q # p
      PROVE  /\ AloneAt(pc[q], loc[q])'
             /\ \A c, l : Entering(pc'[q], loc'[q], c, l) /\ ~Removing(pc'[q], loc'[q], c, l)
  <2>1. PICK a, w : a = pc'[q] /\ w = loc'[q]
    OBVIOUS
  <2>2. a \notin WorkLabels
    BY <1>1, <2>1 DEF Solo
  <2>3. AloneAt(a, w)' /\ \A c, l : Entering(a, w, c, l) /\ ~Removing(a, w, c, l)
    BY <2>2, Lazy DEF WorkLabels, FindLabels, RemoveLabels, Searching, AloneAt
  <2> QED
    BY <2>1, <2>3 DEF AloneAt, Still, Ptr, Marked
<1>2. \A c, l : Entered(c, l)' <=> Entering(at, v, c, l)
  BY <1>1 DEF Entered, Entering
<1>3. AloneCalls' <=> AloneAt(at, v)'
  BY <1>1 DEF AloneCalls
<1>5. AloneMarked' <=> \A l \in Level : \A c \in Linked(l)' : Marked(c, l)' => Removing(at, v, c, l)
  BY <1>1 DEF AloneMarked, Removing
<1>6. AloneLive' <=> \A c \in Listed', l \in Level :
          l <= top_level'[c] /\ ~Marked(c, l)' /\ Entering(at, v, c, l) => c \in Linked(l)'
  BY <1>2 DEF AloneLive
<1>7. AloneEntered' <=> \A c \in Listed', l \in Level : c \in Linked(l)' => Entering(at, v, c, l)
  BY <1>2 DEF AloneEntered
<1> QED
  BY <1>3, <1>5, <1>6, <1>7 DEF Alone, AloneIs, Entering, Removing

\* A step of the call that works, or that begins or ends to work.
LEMMA SoloStep ==
    ASSUME CallTypes, CallTypes', profile' = profile, profile.collect, NEW p \in Proc, Others(p),
           pc[p] \in WorkLabels \/ pc'[p] \in WorkLabels
    PROVE  Solo(p) /\ Solo(p)'
BY OneWriter, SingleNext DEF Others, Solo, Single
-----------------------------------------------------------------------------
LEMMA LinkedSame ==
    ASSUME forward' = forward
    PROVE  /\ \A l : Linked(l)' = Linked(l)
           /\ \A c, l : Ptr(c, l)' = Ptr(c, l) /\ Marked(c, l)' = Marked(c, l)
BY DEF Ptr, Marked, Links, Linked, From

\* Steps of the other calls.
LEMMA AloneQuiet ==
    ASSUME Alone, NEW p \in Proc, UNCHANGED <<key, top_level, forward>>, Listed' = Listed,
           Others(p), pc[p] \notin WorkLabels, pc'[p] \notin WorkLabels
    PROVE  Alone'
<1>1. /\ \A l : Linked(l)' = Linked(l)
      /\ \A c, l : Ptr(c, l)' = Ptr(c, l) /\ Marked(c, l)' = Marked(c, l)
  BY LinkedSame
<1>2. PICK a, v, b, w : a = pc[p] /\ v = loc[p] /\ b = pc'[p] /\ w = loc'[p]
  OBVIOUS
<1>3. /\ \A c, l : Entering(a, v, c, l) /\ ~Removing(a, v, c, l)
      /\ \A c, l : Entering(b, w, c, l) /\ ~Removing(b, w, c, l)
  BY <1>2, Lazy
<1>4. \A q \in Proc : q # p => pc'[q] = pc[q] /\ loc'[q] = loc[q]
  BY DEF Others
<1>5. \A c, l : Entered(c, l)' <=> Entered(c, l)
  BY <1>2, <1>3, <1>4 DEF Entered, Entering
<1>6. AloneLive' /\ AloneEntered' /\ AloneGap'
  BY <1>1, <1>5 DEF Alone, AloneLive, AloneEntered, AloneGap
<1>7. AloneMarked'
  <2> SUFFICES ASSUME NEW l \in Level, NEW c \in Linked(l), Marked(c, l)
               PROVE  \E q \in Proc : Removing(pc'[q], loc'[q], c, l)
    BY <1>1 DEF AloneMarked, Removing
  <2>1. PICK q \in Proc : Removing(pc[q], loc[q], c, l)
    BY DEF Alone, AloneMarked
  <2>2. q # p
    BY <1>2, <1>3, <2>1
  <2> QED
    BY <1>4, <2>1, <2>2
<1>8. AloneCalls'
  <2>1. ASSUME NEW q \in Proc PROVE AloneAt(pc[q], loc[q])'
    <3>1. CASE q = p
      BY <1>2, <3>1 DEF AloneAt, WorkLabels, FindLabels, RemoveLabels, Searching
    <3>2. CASE q # p
      <4>1. PICK x, y : x = pc[q] /\ y = loc[q]
        OBVIOUS
      <4>2. AloneAt(x, y)
        BY <4>1 DEF Alone, AloneCalls
      <4>3. AloneAt(x, y)'
        BY <1>1, <4>2 DEF AloneAt, Still
      <4> QED
        BY <1>4, <3>2, <4>1, <4>3 DEF AloneAt, Still, Ptr, Marked
    <3> QED
      BY <3>1, <3>2
  <2> QED
    BY <2>1 DEF AloneCalls
<1> QED
  BY <1>6, <1>7, <1>8 DEF Alone

\* Steps of the working call that leave the lists as they are.
LEMMA SoloSame ==
    ASSUME NEW at, NEW v, NEW to, NEW w, AloneIs(at, v),
           UNCHANGED <<key, top_level, forward>>, Listed' = Listed,
           \A c \in Listed, l \in Level : Entering(to, w, c, l) <=> Entering(at, v, c, l),
           \A l \in Level : \A c \in Linked(l) :
               Marked(c, l) /\ Removing(at, v, c, l) => Removing(to, w, c, l),
           AloneAt(to, w)
    PROVE  AloneIs(to, w)'
<1>1. /\ \A l : Linked(l)' = Linked(l)
      /\ \A c, l : Ptr(c, l)' = Ptr(c, l) /\ Marked(c, l)' = Marked(c, l)
  BY LinkedSame
<1>2. AloneGap'
  BY <1>1 DEF AloneIs, AloneGap
<1>3. AloneAt(to, w)'
  BY <1>1 DEF AloneAt, Still
<1>4. /\ \A c \in Listed', l \in Level :
            l <= top_level'[c] /\ ~Marked(c, l)' /\ Entering(to, w, c, l) => c \in Linked(l)'
      /\ \A c \in Listed', l \in Level : c \in Linked(l)' => Entering(to, w, c, l)
      /\ \A l \in Level : \A c \in Linked(l)' : Marked(c, l)' => Removing(to, w, c, l)
  BY <1>1 DEF AloneIs
<1> QED
  BY <1>2, <1>3, <1>4 DEF AloneIs, Entering, Removing

SoloMoves(p, at, v, to, w) ==
    /\ at = pc[p] /\ v = loc[p] /\ to = pc'[p] /\ w = loc'[p]
    /\ UNCHANGED <<key, top_level, forward>> /\ Listed' = Listed
    /\ at \in WorkLabels \/ to \in WorkLabels
    /\ at # "link" /\ to # "link"
LEMMA SoloMove ==
    ASSUME Core, Core', Alone, profile.collect, profile' = profile, NEW p \in Proc, Others(p),
           NEW at, NEW v, NEW to, NEW w, SoloMoves(p, at, v, to, w),
           AloneIs(at, v) => AloneAt(to, w),
           AloneIs(at, v) => \A l \in Level : \A c \in Linked(l) :
               Marked(c, l) /\ Removing(at, v, c, l) => Removing(to, w, c, l)
    PROVE  Alone'
BY SoloStep, SoloIs, SoloSame, SoloNext DEF Core, SoloMoves, Entering
-----------------------------------------------------------------------------
LEMMA MovedAlone ==
    ASSUME Core, Alone, profile.collect, NEW p \in Proc, Moved(p),
           NEW at, NEW v, NEW to, NEW w, at = pc[p], v = loc[p], to = pc'[p], w = loc'[p],
           at \in WorkLabels, at # "link", to # "link",
           AloneIs(at, v) => AloneAt(to, w),
           AloneIs(at, v) => \A l \in Level : \A c \in Linked(l) :
               Marked(c, l) /\ Removing(at, v, c, l) => Removing(to, w, c, l)
    PROVE  Alone'
BY Same, SoloMove DEF Moved, Quiet, SameHeap, SoloMoves

\* The place of a search.
LEMMA AlonePlace ==
    ASSUME Core, NEW p \in Proc, NEW at, NEW v, pc[p] = at, v = loc[p], at \in Searching, AloneIs(at, v)
    PROVE  /\ Heap /\ v \in Locs /\ v.level \in Level /\ v.level \in Nat /\ v.level <= TopLevel
           /\ v.pred \in Nodes /\ v.pred \in AnyCell /\ key[v.pred] < v.key
           /\ v.level <= top_level[v.pred] /\ v.pred \in Linked(v.level) \cup {Head}
           /\ \A m \in Level : m <= v.level => ~Marked(v.pred, m)
           /\ LevelFacts(v.level) /\ SearchOK(p, at, v)
           /\ at \in {"next", "snip"} => forward[v.pred][v.level] = <<v.curr, FALSE>>
<1> USE Constants
<1>1. Heap /\ HeapFacts /\ v \in Locs /\ SearchOK(p, at, v)
  BY CoreHeap, SearchFacts DEF Searching, CallOK, CallAt
<1>2. /\ v.level \in Level /\ v.level \in Nat /\ v.level <= TopLevel
      /\ v.pred \in Nodes /\ v.pred \in AnyCell /\ key[v.pred] < v.key
      /\ v.level <= top_level[v.pred]
  BY <1>1, LocsOf DEF SearchOK, PlaceOK, HeapFacts
<1>3. ~Marked(v.pred, v.level)
  BY DEF AloneIs, AloneAt
<1>4. v.pred \in Linked(v.level) \cup {Head}
  BY <1>2, <1>3 DEF Entering, Searching, AloneIs, Nodes
<1>5. ASSUME NEW m \in Level, m <= v.level PROVE ~Marked(v.pred, m)
  BY <1>1, <1>2, <1>3, <1>5 DEF Heap, HeapInv, SentinelInv, HeapFacts, MarksInv
<1>6. LevelFacts(v.level)
  BY <1>1, <1>2, LevelList DEF AloneIs
<1>7. at \in {"next", "snip"} => forward[v.pred][v.level] = <<v.curr, FALSE>>
  <2>1. forward[v.pred][v.level] = <<Ptr(v.pred, v.level), Marked(v.pred, v.level)>>
        /\ Marked(v.pred, v.level) \in BOOLEAN
    BY <1>1, <1>2 DEF HeapFacts
  <2>2. at \in {"next", "snip"} => Ptr(v.pred, v.level) = v.curr
    BY DEF AloneIs, AloneAt
  <2> QED
    BY <1>3, <2>1, <2>2
<1> QED
  BY <1>1, <1>2, <1>4, <1>5, <1>6, <1>7

\* Behind a search there is no marked cell of its key.
LEMMA AlonePassed ==
    ASSUME Core, NEW p \in Proc, NEW v, NextFacts(p, v), AloneIs("next", v),
           ~Marked(v.curr, v.level), ~(key[v.curr] < v.key),
           NEW c \in Linked(v.level), Marked(c, v.level), Removing("next", v, c, v.level)
    PROVE  FALSE
<1> USE Constants
<1>1. pc[p] = "next" /\ v = loc[p] /\ FindOK(v)
  BY DEF NextFacts
<1>2. /\ Heap /\ v \in Locs /\ v.level \in Level /\ v.pred \in Linked(v.level) \cup {Head}
      /\ LevelFacts(v.level) /\ key[v.pred] < v.key
      /\ forward[v.pred][v.level] = <<v.curr, FALSE>>
  BY <1>1, AlonePlace DEF Searching
<1>3. c = v.cell /\ key[c] = v.key /\ c \in Listed /\ c # Tail
  BY <1>1, <1>2 DEF Removing, LevelFacts, FindOK, OwnOK
<1>4. Ptr(v.pred, v.level) = v.curr
  BY <1>2 DEF Ptr
<1>5. key[v.curr] <= key[c] /\ v.curr \in Linked(v.level) \cup {Tail}
  <2>1. c \in Linked(v.level) /\ key[v.pred] < key[c]
    BY <1>2, <1>3
  <2>2. AloneGap
    BY DEF AloneIs
  <2>3. key[Ptr(v.pred, v.level)] <= key[c]
    BY <1>2, <2>1, <2>2 DEF AloneGap
  <2>4. Ptr(v.pred, v.level) \in Linked(v.level) \cup {Tail}
    BY <1>2 DEF LevelFacts
  <2> QED
    BY <1>4, <2>3, <2>4
<1>6. v.key \in Nat /\ v.key <= MaxKey /\ key[v.curr] \in Nat /\ key[Tail] = MaxKey + 1
  BY <1>2, <1>4, LocsOf, LevelNumbers, Facts DEF HeapFacts
<1>7. key[v.curr] = key[c] /\ v.curr # Tail
  BY <1>3, <1>5, <1>6
<1>8. v.curr = c
  BY <1>2, <1>5, <1>7 DEF AloneIs, AloneGap
<1> QED
  BY <1>8

LEMMA AloneFindStart ==
    ASSUME Core, Alone, profile.collect, NEW p \in Proc, FindStart(p)
    PROVE  Alone'
<1> USE Constants
<1>1. PICK v, w : v = loc[p] /\ w = [v EXCEPT !.pred = Head, !.level = TopLevel]
  OBVIOUS
<1>2. Moved(p) /\ pc[p] = "find" /\ v \in Locs /\ CallTypes /\ Heap
  BY <1>1, FindStartOK, SearchFacts, CoreHeap DEF FindStart, Core
<1>3. pc'[p] = "load" /\ loc'[p] = w
  BY <1>1, <1>2, PcNext, LocNext DEF FindStart, Set, Goto
<1>4. w.pred = Head /\ w.level = TopLevel /\ w.op = v.op /\ w.cell = v.cell
  BY <1>1, <1>2 DEF Locs
<1>5. ASSUME AloneIs("find", v) PROVE AloneAt("load", w)
  BY <1>2, <1>4, <1>5 DEF Heap, HeapInv, SentinelInv, AloneIs, AloneAt, Searching
<1>6. \A l \in Level : \A c : Removing("find", v, c, l) => Removing("load", w, c, l)
  BY <1>4 DEF Removing, Searching
<1> QED
  BY <1>1, <1>2, <1>3, <1>5, <1>6, MovedAlone DEF WorkLabels, FindLabels

LEMMA AloneFindLoad ==
    ASSUME Core, Alone, profile.collect, NEW p \in Proc, FindLoad(p)
    PROVE  Alone'
<1> USE Constants
<1>1. PICK v, c : v = loc[p] /\ c = Ptr(v.pred, v.level)
  OBVIOUS
<1>2. PICK w : w = [v EXCEPT !.curr = c]
  OBVIOUS
<1>3. Moved(p) /\ pc[p] = "load" /\ v \in Locs /\ CallTypes
  BY <1>1, FindLoadOK, SearchFacts DEF FindLoad, Core
<1>4. pc'[p] = "next" /\ loc'[p] = w
  BY <1>1, <1>2, <1>3, PcNext, LocNext DEF FindLoad, Set, Goto
<1>5. /\ w.pred = v.pred /\ w.level = v.level /\ w.op = v.op /\ w.cell = v.cell
      /\ w.curr = c /\ w.preds = v.preds /\ w.succs = v.succs
  BY <1>2, <1>3 DEF Locs
<1>6. ASSUME AloneIs("load", v) PROVE AloneAt("next", w)
  <2>1. /\ ~Marked(v.pred, v.level) /\ \A m \in Level : m > v.level => Still(v, m)
        /\ v.op = "insert" => v.cell = None
    BY <1>6 DEF AloneIs, AloneAt, Searching
  <2>2. \A m \in Level : m > w.level => Still(w, m)
    BY <1>5, <2>1 DEF Still
  <2> QED
    BY <1>1, <1>5, <2>1, <2>2 DEF AloneAt, Searching
<1>7. \A l \in Level : \A d : Removing("load", v, d, l) => Removing("next", w, d, l)
  BY <1>5 DEF Removing, Searching
<1> QED
  BY <1>1, <1>3, <1>4, <1>6, <1>7, MovedAlone DEF WorkLabels, FindLabels, Searching

LEMMA AloneNextSnip ==
    ASSUME Core, Alone, profile.collect, NEW p \in Proc, NEW v, NextIs(p, v), NextSnip(p, v)
    PROVE  Alone'
<1>1. PICK w : w = loc'[p]
  OBVIOUS
<1>2. /\ Moved(p) /\ v = loc[p] /\ pc[p] = "next" /\ pc'[p] = "snip"
      /\ w.op = v.op /\ w.cell = v.cell /\ w.pred = v.pred /\ w.curr = v.curr
      /\ w.level = v.level /\ w.preds = v.preds /\ w.succs = v.succs
  <2>1. Moved(p) /\ NextFacts(p, v)
    BY DEF NextIs
  <2>2. pc'[p] = "snip" /\ Marked(v.curr, v.level)
    BY DEF NextSnip
  <2> QED
    BY <1>1, <2>1, <2>2, NextLoc
<1>3. AloneIs("next", v) => AloneAt("snip", w)
  BY <1>2 DEF AloneIs, AloneAt, Still, Searching
<1>4. \A l \in Level : \A c : Removing("next", v, c, l) => Removing("snip", w, c, l)
  BY <1>2 DEF Removing, Searching
<1> QED
  BY <1>1, <1>2, <1>3, <1>4, MovedAlone DEF WorkLabels, FindLabels, Searching

LEMMA AloneNextOn ==
    ASSUME Core, Alone, profile.collect, NEW p \in Proc, NEW v, NextIs(p, v), NextOn(p, v)
    PROVE  Alone'
<1>1. PICK w, d : w = loc'[p] /\ d = Ptr(v.curr, v.level)
  OBVIOUS
<1>2. /\ Moved(p) /\ v = loc[p] /\ pc[p] = "next" /\ pc'[p] = "next" /\ ~Marked(v.curr, v.level)
      /\ w.op = v.op /\ w.cell = v.cell /\ w.pred = v.curr /\ w.curr = d
      /\ w.level = v.level /\ w.preds = v.preds /\ w.succs = v.succs
  <2>1. Moved(p) /\ NextFacts(p, v)
    BY DEF NextIs
  <2>2. pc'[p] = "next" /\ ~Marked(v.curr, v.level)
    BY DEF NextOn
  <2> QED
    BY <1>1, <2>1, <2>2, NextLoc
<1>3. AloneIs("next", v) => AloneAt("next", w)
  BY <1>1, <1>2 DEF AloneIs, AloneAt, Still, Searching
<1>4. \A l \in Level : \A c : Removing("next", v, c, l) => Removing("next", w, c, l)
  BY <1>2 DEF Removing, Searching
<1> QED
  BY <1>1, <1>2, <1>3, <1>4, MovedAlone DEF WorkLabels, FindLabels, Searching

LEMMA AloneNextDown ==
    ASSUME Core, Alone, profile.collect, NEW p \in Proc, NEW v, NextIs(p, v), NextDown(p, v)
    PROVE  Alone'
<1> USE Constants
<1>1. PICK w : w = loc'[p]
  OBVIOUS
<1>2. /\ Moved(p) /\ v = loc[p] /\ pc[p] = "next" /\ pc'[p] = "load" /\ NextFacts(p, v)
      /\ ~Marked(v.curr, v.level) /\ ~(key[v.curr] < v.key) /\ v.level > 0
      /\ w.op = v.op /\ w.cell = v.cell /\ w.pred = v.pred /\ w.level = v.level - 1
      /\ w.preds[v.level] = v.pred /\ w.succs[v.level] = v.curr
      /\ \A m \in Level : m # v.level => w.preds[m] = v.preds[m] /\ w.succs[m] = v.succs[m]
  <2>1. Moved(p) /\ NextFacts(p, v)
    BY DEF NextIs
  <2>2. pc'[p] = "load" /\ ~Marked(v.curr, v.level) /\ ~(key[v.curr] < v.key) /\ v.level > 0
    BY DEF NextDown
  <2> QED
    BY <1>1, <2>1, <2>2, NextLoc
<1>3. ASSUME AloneIs("next", v) PROVE AloneAt("load", w)
  <2>1. /\ v.level \in Level /\ v.level \in Nat /\ v.level <= TopLevel
        /\ \A m \in Level : m <= v.level => ~Marked(v.pred, m)
        /\ forward[v.pred][v.level] = <<v.curr, FALSE>>
    BY <1>2, <1>3, AlonePlace DEF Searching
  <2>2. v.level - 1 \in Level /\ v.level - 1 <= v.level
    BY <1>2, <2>1 DEF Level
  <2>3. ~Marked(w.pred, w.level)
    BY <1>2, <2>1, <2>2
  <2>4. w.op = "insert" => w.cell = None
    BY <1>2, <1>3 DEF AloneIs, AloneAt, Searching
  <2>5. ASSUME NEW m \in Level, m > w.level PROVE Still(w, m)
    <3>1. CASE m = v.level
      BY <1>2, <2>1, <3>1 DEF Still
    <3>2. CASE m # v.level
      <4>1. m > v.level
        BY <1>2, <2>1, <2>5, <3>2
      <4>2. Still(v, m)
        BY <1>3, <4>1 DEF AloneIs, AloneAt, Searching
      <4> QED
        BY <1>2, <3>2, <4>2 DEF Still
    <3> QED
      BY <3>1, <3>2
  <2> QED
    BY <2>3, <2>4, <2>5 DEF AloneAt, Searching
<1>4. ASSUME AloneIs("next", v), NEW l \in Level, NEW c \in Linked(l), Marked(c, l),
             Removing("next", v, c, l)
      PROVE  Removing("load", w, c, l)
  <2>1. v.level \in Level /\ v.level \in Nat /\ l \in Nat
    BY <1>2, <1>4, AlonePlace DEF Searching
  <2>2. v.level >= l
    BY <1>4 DEF Removing, Searching, RemoveLabels
  <2>3. v.level # l
    BY <1>2, <1>4, AlonePassed
  <2>4. w.level >= l
    BY <1>2, <2>1, <2>2, <2>3
  <2> QED
    BY <1>2, <1>4, <2>4 DEF Removing, Searching
<1> QED
  BY <1>1, <1>2, <1>3, <1>4, MovedAlone DEF WorkLabels, FindLabels, Searching

LEMMA AloneNextFound ==
    ASSUME Core, Alone, profile.collect, NEW p \in Proc, NEW v, NextIs(p, v), NEW h, h = HereAt(v),
           NextFound(p, v, h)
    PROVE  Alone'
<1> USE Constants
<1>1. PICK w, to : w = loc'[p] /\ to = pc'[p]
  OBVIOUS
<1>2. /\ Moved(p) /\ v = loc[p] /\ pc[p] = "next" /\ NextFacts(p, v) /\ FoundFacts(p, v, h)
      /\ ~Marked(v.curr, 0) /\ ~(key[v.curr] < v.key) /\ v.level = 0 /\ v \in Locs
  BY NextLoc, ZenonT(60) DEF NextIs, NextFound, FoundFacts
<1>3. /\ h \in Locs /\ h.preds[0] = v.pred /\ h.succs[0] = v.curr
      /\ \A m \in Level : m # 0 => h.preds[m] = v.preds[m] /\ h.succs[m] = v.succs[m]
      /\ v.curr \in AnyCell
  BY <1>2, HereIs, FoundIs
<1>4. ASSUME AloneIs("next", v), NEW l \in Level, NEW c \in Linked(l), Marked(c, l),
             Removing("next", v, c, l)
      PROVE  v.cell # None /\ FALSE
  <2>1. l = 0
    <3>1. v.level >= l /\ l \in Nat
      BY <1>4 DEF Removing, Searching, RemoveLabels
    <3> QED
      BY <1>2, <3>1
  <2> QED
    BY <1>2, <1>4, <2>1, AlonePassed
<1>5. CASE v.op = "insert"
  <2>1. v.cell = None
    BY <1>2, <1>5 DEF Alone, AloneCalls, AloneAt, Searching
  <2>2. w = Forget(h) /\ to \in {"update", "alloc"}
    BY <1>1, <1>5, <2>1 DEF NextFound
  <2>3. w.preds = h.preds /\ w.succs = h.succs
    BY <1>3, <2>2, ForgetIs
  <2>4. ASSUME AloneIs("next", v) PROVE AloneAt(to, w)
    <3>1. forward[v.pred][0] = <<v.curr, FALSE>>
      BY <1>2, <2>4, AlonePlace DEF Searching
    <3>2. ASSUME NEW m \in Level PROVE Still(w, m)
      <4>1. CASE m = 0
        BY <1>3, <2>3, <3>1, <4>1 DEF Still
      <4>2. CASE m # 0
        <5>0. m \in Nat
          OBVIOUS
        <5>1. m > v.level
          BY <1>2, <4>2, <5>0
        <5>2. Still(v, m)
          BY <2>4, <5>1 DEF AloneIs, AloneAt, Searching
        <5> QED
          BY <1>3, <2>3, <4>2, <5>2 DEF Still
      <4> QED
        BY <4>1, <4>2
    <3> QED
      BY <2>2, <3>2 DEF AloneAt, Searching
  <2>5. Core /\ to # "link" /\ "next" \in WorkLabels
    BY <2>2 DEF WorkLabels, FindLabels, Searching
  <2> QED
    BY <1>1, <1>2, <1>4, <2>4, <2>5, MovedAlone
<1>6. CASE v.op = "remove" /\ v.cell = None /\ to = "extract"
           /\ w = [ForgetAll(h) EXCEPT !.cell = v.curr, !.up = FirstMarked(v.curr)]
  <2>1. w.cell = v.curr
    BY <1>3, <1>6, ForgetIs DEF Locs
  <2>2. AloneAt(to, w)
    BY <1>2, <1>6, <2>1 DEF AloneAt, Searching
  <2>5. "next" \in WorkLabels
    BY DEF WorkLabels, FindLabels, Searching
  <2> QED
    BY <1>1, <1>2, <1>4, <1>6, <2>2, <2>5, MovedAlone
<1>7. CASE to = "return"
  <2>1. AloneAt(to, w)
    BY <1>7, Lazy DEF WorkLabels, FindLabels, RemoveLabels, Searching
  <2>5. "next" \in WorkLabels
    BY DEF WorkLabels, FindLabels, Searching
  <2> QED
    BY <1>1, <1>2, <1>4, <1>7, <2>1, <2>5, MovedAlone
<1> QED
  BY <1>1, <1>5, <1>6, <1>7 DEF NextFound

LEMMA AloneFindNext ==
    ASSUME Core, Alone, profile.collect, NEW p \in Proc, FindNext(p)
    PROVE  Alone'
<1>1. PICK v, h : v = loc[p] /\ h = HereAt(v)
  OBVIOUS
<1>2. NextIs(p, v)
  BY <1>1, FindNextIs
<1> QED
  BY <1>1, <1>2, AloneNextSnip, AloneNextOn, AloneNextDown, AloneNextFound DEF NextIs
-----------------------------------------------------------------------------
\* Steps that leave the lists as they are.
LEMMA AloneLazy ==
    ASSUME Core, Alone, NEW p \in Proc, Moved(p), pc[p] \notin WorkLabels, pc'[p] \notin WorkLabels
    PROVE  Alone'
BY Same, AloneQuiet DEF Moved, Quiet, SameHeap

LEMMA AloneLookup ==
    ASSUME Core, Alone, NEW p \in Proc,
           LookupStart(p) \/ LookupEnter(p) \/ LookupWalk(p) \/ ReadData(p)
    PROVE  Alone'
<1>1. CallTypes
  BY DEF Core
<1>2. pc[p] \in {"lookup", "enter", "walk", "read"}
  BY DEF LookupStart, LookupEnter, LookupWalk, ReadData
<1>3. pc'[p] \in {"walk", "enter", "read", "return"}
  BY <1>1, PcNext, LookupWalkPc DEF LookupStart, Goto, LookupEnter, ReadData
<1>4. Moved(p)
  BY LookupStartOK, LookupEnterOK, LookupWalkOK, ReadDataOK
<1> QED
  BY <1>2, <1>3, <1>4, AloneLazy DEF WorkLabels, FindLabels, RemoveLabels, Searching

LEMMA AloneInserted ==
    ASSUME Core, Alone, NEW p \in Proc, InsertUpdate(p) \/ InsertBump(p) \/ InsertRaise(p)
    PROVE  Alone'
<1>1. CallTypes
  BY DEF Core
<1>2. CASE InsertUpdate(p)
  <2>1. PICK v, c : v = loc[p] /\ c = v.succs[0]
    OBVIOUS
  <2>2. PICK w : w = UpdateLoc(v)
    OBVIOUS
  <2>3. /\ pc[p] = "update" /\ pc'[p] = "return" /\ Others(p)
        /\ UNCHANGED <<key, top_level, forward>>
    BY <1>2, <2>1, <2>2, UpdateFacts
  <2>4. Listed' = Listed
    BY <1>2, <2>1, InsertUpdateOK
  <2> QED
    BY <2>3, <2>4, AloneQuiet DEF WorkLabels, FindLabels, RemoveLabels, Searching
<1>3. CASE InsertBump(p)
  <2>1. PICK at : at = (IF top_level[loc[p].cell] > search_level THEN "raise" ELSE "return")
    OBVIOUS
  <2>2. pc[p] = "bump" /\ pc' = [pc EXCEPT ![p] = at]
    BY <1>3, <2>1 DEF InsertBump, Goto
  <2>3. pc'[p] \in {"raise", "return"}
    BY <1>1, <2>1, <2>2, PcNext
  <2>4. Moved(p)
    BY <1>3, InsertBumpOK
  <2> QED
    BY <2>2, <2>3, <2>4, AloneLazy DEF WorkLabels, FindLabels, RemoveLabels, Searching
<1>4. CASE InsertRaise(p)
  BY <1>1, <1>4, PcNext, InsertRaiseOK, AloneLazy DEF InsertRaise, Goto, WorkLabels,
     FindLabels, RemoveLabels, Searching
<1> QED
  BY <1>2, <1>3, <1>4

LEMMA AloneReturn ==
    ASSUME Core, Alone, NEW p \in Proc, Return(p)
    PROVE  Alone'
BY PcNext, ReturnOK, Same, AloneQuiet DEF Core, Return, Goto, SameHeap, WorkLabels,
   FindLabels, RemoveLabels, Searching

LEMMA AloneCall ==
    ASSUME Core, Alone, profile.collect, NEW p \in Proc, Call(p)
    PROVE  Alone'
<1>1. CallTypes /\ Core' /\ SameHeap /\ Others(p) /\ profile' = profile
  BY CallStepOK DEF Core, Call
<1>2. UNCHANGED <<key, top_level, forward>> /\ Listed' = Listed
  BY <1>1, Same DEF SameHeap
<1>3. PICK op \in {"insert", "remove", "find", "find_below"}, k \in Key, d \in Data \cup {Absent} :
          /\ Set(p, Locals(op, k, d))
          /\ Goto(p, IF op \in {"insert", "remove"} THEN "find" ELSE "lookup")
  BY DEF Call
<1>4. PICK w, to : w = Locals(op, k, d)
                   /\ to = IF op \in {"insert", "remove"} THEN "find" ELSE "lookup"
  OBVIOUS
<1>5. pc' = [pc EXCEPT ![p] = to] /\ loc' = [loc EXCEPT ![p] = w]
  BY <1>3, <1>4 DEF Set, Goto
<1>6. pc[p] = "idle" /\ pc'[p] = to /\ loc'[p] = w
  BY <1>1, <1>5, PcNext, LocNext DEF Call
<1>7. CASE to = "find"
  <2>1. w.cell = None
    BY <1>4, LocalsIn DEF Op
  <2>2. AloneAt(to, w)
    BY <1>7, <2>1 DEF AloneAt, Searching
  <2>3. \A l, c : ~Removing("idle", loc[p], c, l)
    BY DEF Removing, Searching
  <2>4. PICK v : v = loc[p]
    OBVIOUS
  <2>5. SoloMoves(p, "idle", v, to, w)
    BY <1>2, <1>6, <1>7, <2>4 DEF SoloMoves, WorkLabels, FindLabels
  <2> QED
    BY <1>1, <2>2, <2>3, <2>4, <2>5, SoloMove
<1>8. CASE to = "lookup"
  BY <1>1, <1>2, <1>6, <1>8, AloneQuiet DEF WorkLabels, FindLabels, RemoveLabels, Searching
<1> QED
  BY <1>4, <1>7, <1>8

LEMMA AloneClaim ==
    ASSUME Core, Alone, profile.collect, NEW p \in Proc,
           FindClaim(p) \/ FindPush(p) \/ FindPublish(p)
    PROVE  Alone'
<1>1. CallTypes /\ Moved(p) /\ Others(p)
  BY FindClaimOK, FindPushOK, FindPublishOK DEF Core, Moved, Quiet
<1>2. pc[p] \in {"claim", "push", "publish"} /\ loc' = loc
  BY DEF FindClaim, FindPush, FindPublish
<1>3. pc'[p] \in {"claim", "push", "publish", "load"}
  BY <1>1, PcNext DEF FindClaim, Goto, FindPush, FindPublish
<1>4. PICK at, v, to : at = pc[p] /\ v = loc[p] /\ to = pc'[p]
  OBVIOUS
<1>5. AloneIs(at, v) => AloneAt(to, v)
  BY <1>2, <1>3, <1>4 DEF AloneIs, AloneAt, Searching
<1>6. \A l \in Level : \A c : Removing(at, v, c, l) => Removing(to, v, c, l)
  BY <1>2, <1>3, <1>4 DEF Removing, Searching
<1>7. at \in WorkLabels /\ at # "link" /\ to # "link"
  BY <1>2, <1>3, <1>4 DEF WorkLabels, FindLabels, Searching
<1> QED
  BY <1>1, <1>2, <1>4, <1>5, <1>6, <1>7, MovedAlone

\* The cell that is being removed is not marked by another call.
LEMMA AloneRemove ==
    ASSUME Core, Alone, profile.collect, NEW p \in Proc, Moved(p), pc[p] \in RemoveLabels,
           ~Marked(loc[p].cell, 0) => pc'[p] \in RemoveLabels,
           loc'[p].cell = loc[p].cell, loc'[p].op = loc[p].op
    PROVE  Alone'
<1>1. PICK at, v, to, w : at = pc[p] /\ v = loc[p] /\ to = pc'[p] /\ w = loc'[p]
  OBVIOUS
<1>2. AloneAt(at, v)
  BY <1>1 DEF Alone, AloneCalls
<1>3. ~Marked(v.cell, 0) /\ to \in RemoveLabels
  BY <1>1, <1>2 DEF AloneAt, RemoveLabels
<1>4. AloneAt(to, w)
  BY <1>1, <1>3 DEF AloneAt, RemoveLabels, Searching
<1>5. \A l \in Level : \A c : Removing(at, v, c, l) => Removing(to, w, c, l)
  BY <1>1, <1>3 DEF Removing, RemoveLabels
<1>6. at \in WorkLabels /\ at # "link" /\ to # "link"
  BY <1>1, <1>3 DEF WorkLabels, RemoveLabels
<1> QED
  BY <1>1, <1>4, <1>5, <1>6, MovedAlone

LEMMA AloneExtract ==
    ASSUME Core, Alone, profile.collect, NEW p \in Proc, RemoveExtract(p)
    PROVE  Alone'
<1>1. CallTypes /\ pc[p] = "extract" /\ Moved(p) /\ loc[p] \in Locs
  BY RemoveExtractOK, ExtractFacts DEF RemoveExtract, Core
<1>2. PICK v, s : v = loc[p] /\ s = Ptr(v.cell, v.up)
  OBVIOUS
<1>3. CASE v.up > 0 /\ Marked(v.cell, v.up)
  <2>1. loc' = [loc EXCEPT ![p] = [v EXCEPT !.up = v.up - 1]] /\ pc' = pc
    BY <1>2, <1>3 DEF RemoveExtract, Set
  <2>2. loc'[p] = [v EXCEPT !.up = v.up - 1]
    BY <1>1, <2>1, LocNext
  <2>3. loc'[p].cell = v.cell /\ loc'[p].op = v.op
    BY <1>1, <1>2, <2>2 DEF Locs
  <2> QED
    BY <1>1, <1>2, <2>1, <2>3, AloneRemove DEF RemoveLabels
<1>4. CASE ~(v.up > 0 /\ Marked(v.cell, v.up))
  <2>1. loc' = [loc EXCEPT ![p] = [v EXCEPT !.succ = s]] /\ pc' = [pc EXCEPT ![p] = "mark"]
    BY <1>2, <1>4 DEF RemoveExtract, Set, Goto
  <2>2. loc'[p] = [v EXCEPT !.succ = s] /\ pc'[p] = "mark"
    BY <1>1, <2>1, LocNext, PcNext
  <2>3. loc'[p].cell = v.cell /\ loc'[p].op = v.op
    BY <1>1, <1>2, <2>2 DEF Locs
  <2> QED
    BY <1>1, <1>2, <2>2, <2>3, AloneRemove DEF RemoveLabels
<1> QED
  BY <1>3, <1>4

LEMMA AloneLost ==
    ASSUME Core, Alone, profile.collect, NEW p \in Proc, RemoveLost(p)
    PROVE  Alone'
<1>1. CallTypes /\ pc[p] = "lost" /\ Moved(p) /\ loc[p] \in Locs
  BY RemoveLostOK, ExtractFacts DEF RemoveLost, Core
<1>2. PICK v, s : v = loc[p] /\ s = Ptr(v.cell, 0)
  OBVIOUS
<1>3. ~Marked(v.cell, 0)
  BY <1>1, <1>2 DEF Alone, AloneCalls, AloneAt
<1>4. loc' = [loc EXCEPT ![p] = [v EXCEPT !.succ = s]] /\ pc' = [pc EXCEPT ![p] = "mark"]
  BY <1>2, <1>3 DEF RemoveLost, Set, Goto
<1>5. loc'[p] = [v EXCEPT !.succ = s] /\ pc'[p] = "mark"
  BY <1>1, <1>4, LocNext, PcNext
<1>6. loc'[p].cell = v.cell /\ loc'[p].op = v.op
  BY <1>1, <1>2, <1>5 DEF Locs
<1> QED
  BY <1>1, <1>2, <1>5, <1>6, AloneRemove DEF RemoveLabels

LEMMA AloneMarkStay ==
    ASSUME Core, Alone, profile.collect, NEW p \in Proc, RemoveMark(p), ~MarkWins(p)
    PROVE  Alone'
<1>1. PICK v, w : v = loc[p] /\ w = [v EXCEPT !.succ = Head]
  OBVIOUS
<1>2. /\ pc[p] = "mark" /\ v \in Locs /\ w.op = v.op /\ w.cell = v.cell
      /\ loc' = [loc EXCEPT ![p] = w]
      /\ pc'[p] = (IF v.up > 0 THEN "extract" ELSE IF MarkWins(p) THEN "find" ELSE "lost")
  BY <1>1, MarkFacts
<1>3. CallTypes /\ Moved(p)
  BY MarkStay DEF Core
<1>4. loc'[p] = w
  BY <1>2, <1>3, LocNext
<1> QED
  BY <1>1, <1>2, <1>3, <1>4, AloneRemove DEF RemoveLabels
-----------------------------------------------------------------------------
\* A search takes a cell out.
LEMMA AloneSnip ==
    ASSUME Core, Alone, profile.collect, NEW p \in Proc, FindSnip(p)
    PROVE  Alone'
<1> USE Constants
<1>1. PICK v : v = loc[p]
  OBVIOUS
<1>2. pc[p] = "snip" /\ CallTypes
  BY DEF FindSnip, Core
<1>3. Solo(p)
  BY <1>2, OneWriter DEF Solo, WorkLabels, FindLabels, Searching
<1>4. AloneIs("snip", v)
  BY <1>1, <1>2, <1>3, SoloIs
<1>5. /\ Heap /\ v \in Locs /\ v.level \in Level
      /\ v.pred \in Linked(v.level) \cup {Head} /\ v.pred \in AnyCell
      /\ forward[v.pred][v.level] = <<v.curr, FALSE>>
  BY <1>1, <1>2, <1>4, AlonePlace, ZenonT(60) DEF Searching
<1>6. SnipSucceeds(p)
  BY <1>1, <1>5 DEF SnipSucceeds, Holds
<1>7. PICK q, d, l : q = v.pred /\ d = v.curr /\ l = v.level
  OBVIOUS
<1>8. /\ Core' /\ Others(p) /\ loc'[p] = v /\ pc'[p] = "claim" /\ SnipStep(q, d, l)
  BY <1>1, <1>6, <1>7, SnipOK
<1>9. /\ Linked(l)' = Linked(l) \ {d} /\ LevelGap(l)'
      /\ \A m \in Level : m # l => Linked(m)' = Linked(m) /\ LevelGap(m)'
  BY <1>4, <1>5, <1>7, <1>8, LevelSnip DEF AloneIs
<1>10. /\ Listed' = Listed /\ top_level' = top_level /\ Marked(d, l) /\ l \in Level
       /\ \A c \in AnyCell, m \in Level : Marked(c, m)' <=> Marked(c, m)
       /\ Listed \subseteq AnyCell
  BY <1>5, <1>8, SnipFrom, Facts DEF SnipStep, HeapFacts
<1>11. Solo(p)'
  BY <1>3, <1>8 DEF Others, Solo
<1>12. AloneGap'
  BY <1>9 DEF AloneGap, LevelGap
<1>13. AloneAt("claim", v)'
  <2>1. PICK s : s = Ptr(d, l)
    OBVIOUS
  <2>2. forward' = [forward EXCEPT ![q][l] = <<s, FALSE>>] /\ s \in AnyCell /\ q \in AnyCell
    BY <1>5, <1>8, <2>1, SnipFrom DEF SnipStep
  <2>3. Stored(q, l, s, FALSE)
    BY <1>5, <1>10, <2>2, StoreIs
  <2>4. ASSUME NEW m \in Level, m > v.level PROVE Still(v, m)'
    <3>1. Still(v, m)
      BY <1>4, <2>4 DEF AloneIs, AloneAt, Searching
    <3>2. m # l /\ v.preds[m] \in AnyCell
      <4>1. m \in Nat /\ v.level \in Nat /\ v.preds[m] \in AnyCell
        BY <1>5, LocsOf
      <4> QED
        BY <1>7, <2>4, <4>1
    <3>3. forward'[v.preds[m]][m] = forward[v.preds[m]][m]
      BY <2>3, <3>2 DEF Stored
    <3> QED
      BY <3>1, <3>3 DEF Still
  <2>5. ~Marked(v.pred, v.level)'
    BY <1>7, <2>3 DEF Stored
  <2>6. v.op = "insert" => v.cell = None
    BY <1>4 DEF AloneIs, AloneAt, Searching
  <2> QED
    BY <2>4, <2>5, <2>6 DEF AloneAt, Searching
<1>14. AloneIs("claim", v)'
  BY <1>4, <1>9, <1>10, <1>12, <1>13 DEF AloneIs, Entering, Linked, From, Reached,
     AnyCell, Removing, Searching
<1> QED
  BY <1>8, <1>11, <1>14, SoloNext

LEMMA AloneMark ==
    ASSUME Core, Alone, profile.collect, NEW p \in Proc, RemoveMark(p), MarkWins(p)
    PROVE  Alone'
<1> USE Constants
<1>1. PICK v, w : v = loc[p] /\ w = [v EXCEPT !.succ = Head]
  OBVIOUS
<1>2. /\ pc[p] = "mark" /\ CallTypes /\ v \in Locs /\ v.op = "remove" /\ w.op = v.op
      /\ w.cell = v.cell /\ v.up \in Nat
  BY <1>1, MarkFacts DEF Core
<1>3. Solo(p)
  BY <1>2, OneWriter DEF Solo, WorkLabels, RemoveLabels
<1>4. AloneIs("mark", v)
  BY <1>1, <1>2, <1>3, SoloIs
<1>5. PICK to : to = IF v.up > 0 THEN "extract" ELSE "find"
  OBVIOUS
<1>6. /\ Core' /\ Others(p) /\ loc'[p] = w /\ pc'[p] = to /\ MarkStep(v.cell, v.up)
  BY <1>1, <1>5, MarkOK
<1>7. /\ Heap /\ HeapFacts
      /\ \A x \in AnyCell, m \in Level :
            Ptr(x, m)' = Ptr(x, m) /\ (Marked(x, m)' <=> Marked(x, m) \/ (x = v.cell /\ m = v.up))
      /\ \A m \in Level : Linked(m)' = Linked(m) /\ Linked(m) \subseteq Cell
      /\ Listed' = Listed /\ top_level' = top_level /\ key' = key /\ Listed \subseteq AnyCell
  <2>0. \A x : \A m \in Level : From(x, m)' = From(x, m)
    BY <1>6, CoreHeap, MarkFrom
  <2>1. \A m \in Level : From(Head, m)' = From(Head, m)
    BY <2>0
  <2>2. \A m \in Level : Linked(m) \subseteq Cell
    BY LinksAre DEF Linked
  <2>3. Heap /\ HeapFacts /\ Listed \subseteq AnyCell
    BY CoreHeap DEF HeapFacts
  <2>4. \A x \in AnyCell, m \in Level :
            Ptr(x, m)' = Ptr(x, m) /\ (Marked(x, m)' <=> Marked(x, m) \/ (x = v.cell /\ m = v.up))
    BY <1>6, <2>3, MarkFrom
  <2>5. \A m \in Level : Linked(m)' = Linked(m)
    BY <2>1 DEF Linked
  <2>6. Listed' = Listed /\ top_level' = top_level /\ key' = key
    BY <1>6 DEF MarkStep
  <2> QED
    BY <2>2, <2>3, <2>4, <2>5, <2>6
<1>8. Solo(p)'
  BY <1>3, <1>6 DEF Others, Solo
<1>9. AloneGap'
  BY <1>4, <1>7 DEF AloneIs, AnyCell, AloneGap
<1>10. AloneAt(to, w)'
  BY <1>2, <1>4, <1>5, <1>6, <1>7 DEF AloneIs, AloneAt, MarkStep, Searching
<1>11. AloneIs(to, w)'
  <2>1. ASSUME NEW c \in Listed, NEW m \in Level, m <= top_level[c], ~Marked(c, m)'
        PROVE  c \in Linked(m)'
    BY <1>4, <1>7, <2>1 DEF AloneIs, Entering
  <2>2. ASSUME NEW m \in Level, NEW c \in Linked(m)', Marked(c, m)'
        PROVE  Removing(to, w, c, m)
    BY <1>2, <1>4, <1>5, <1>7, <2>2 DEF AloneIs, Removing
  <2>3. \A c, m : Entering(to, w, c, m)
    BY <1>5 DEF Entering
  <2> QED
    BY <1>7, <1>9, <1>10, <2>1, <2>2, <2>3 DEF AloneIs, Entering, Removing
<1> QED
  BY <1>6, <1>8, <1>11, SoloNext
-----------------------------------------------------------------------------
\* A cell is made.
LEMMA AloneAlloc ==
    ASSUME Core, Alone, profile.collect, NEW p \in Proc, InsertAlloc(p)
    PROVE  Alone'
<1> USE Constants
<1>1. PICK v : v = loc[p]
  OBVIOUS
<1>2. pc[p] = "alloc" /\ CallTypes /\ v \in Locs /\ AllocOK(v)
  BY <1>1, SearchFacts DEF InsertAlloc, Core, CallOK, CallAt
<1>3. Solo(p)
  BY <1>2, OneWriter DEF Solo, WorkLabels
<1>4. AloneIs("alloc", v)
  BY <1>1, <1>2, <1>3, SoloIs
<1>5. PICK c \in Cell \ used, t \in Level : AllocStep(p, v, c, t)
  BY <1>1, InsertAllocOK
<1>6. AllocMade(p, v, c, t)
  BY <1>5, AllocAside
<1>7. PICK w : w = [v EXCEPT !.cell = c, !.up = 0]
  OBVIOUS
<1>8. /\ Aside /\ Others(p) /\ pc'[p] = "link" /\ loc'[p] = w /\ top_level'[c] = t
      /\ \A l \in Level : l <= t => forward'[c][l] = <<v.succs[l], FALSE>>
  BY <1>6, <1>7 DEF AllocMade
<1>9. w.cell = c /\ w.up = 0 /\ w.op = v.op /\ w.preds = v.preds /\ w.succs = v.succs
  BY <1>2, <1>7 DEF Locs
<1>10. /\ Heap /\ HeapFacts /\ AloneGap /\ Listed' = Listed
       /\ \A x \in Listed \cup {Head, Tail} :
             key'[x] = key[x] /\ top_level'[x] = top_level[x] /\ forward'[x] = forward[x]
       /\ \A x \in Listed \cup {Head, Tail}, l \in Level :
             Ptr(x, l)' = Ptr(x, l) /\ Marked(x, l)' = Marked(x, l)
  BY <1>4, <1>8, CoreHeap, AsideFrom DEF Aside, AloneIs
<1>11. \A l \in Level : Linked(l)' = Linked(l)
  BY <1>8, <1>10, AsideFrom DEF Linked
<1>12. \A l \in Level : LevelFacts(l)
  BY <1>10, LevelList
<1>13. Solo(p)'
  BY <1>3, <1>8 DEF Others, Solo
<1>14. AloneGap'
  <2> SUFFICES ASSUME NEW l \in Level, NEW x \in Linked(l) \cup {Head}, NEW d \in Linked(l)
               PROVE  /\ key'[x] < key'[d] => key'[Ptr(x, l)'] <= key'[d]
                      /\ key'[x] = key'[d] => x = d
    BY <1>11 DEF AloneGap
  <2>1. /\ x \in Listed \cup {Head, Tail} /\ d \in Listed \cup {Head, Tail}
        /\ Ptr(x, l) \in Listed \cup {Head, Tail}
    BY <1>12 DEF LevelFacts
  <2>2. key'[x] = key[x] /\ key'[d] = key[d] /\ Ptr(x, l)' = Ptr(x, l) /\ key'[Ptr(x, l)] = key[Ptr(x, l)]
    BY <1>10, <2>1
  <2>3. key'[Ptr(x, l)'] = key[Ptr(x, l)]
    BY <2>2
  <2>4. /\ key[x] < key[d] => key[Ptr(x, l)] <= key[d]
        /\ key[x] = key[d] => x = d
    BY <1>10 DEF AloneGap
  <2> QED
    BY <2>2, <2>3, <2>4
<1>15. AloneAt("link", w)'
  <2>1. ASSUME NEW m \in Level, m <= t PROVE Still(w, m)'
    <3>1. Still(v, m)
      BY <1>4, <2>1 DEF AloneIs, AloneAt
    <3>2. v.preds[m] \in Listed \cup {Head, Tail}
      BY <1>2 DEF AllocOK, Passed, Nodes
    <3>3. forward'[v.preds[m]] = forward[v.preds[m]]
      BY <1>10, <3>2
    <3> QED
      BY <1>9, <3>1, <3>3 DEF Still
  <2> QED
    BY <1>8, <1>9, <2>1 DEF AloneAt, Searching
<1>16. AloneIs("link", w)'
  BY <1>4, <1>5, <1>9, <1>10, <1>11, <1>12, <1>14, <1>15 DEF HeapFacts, Entering,
     AloneIs, LevelFacts, Removing, Searching
<1> QED
  BY <1>8, <1>13, <1>16, SoloNext

\* A cell is linked at a level: nothing of its key is there.
LinkHere(v, q, e, l) ==
    /\ q = v.preds[l] /\ e = v.cell /\ l = v.up
    /\ Heap /\ AloneIs("link", v) /\ LinkStep(q, e, l)
    /\ q \in Linked(l) \cup {Head} /\ Ptr(e, l) = Ptr(q, l) /\ key[e] < key[Ptr(q, l)]
    /\ e \notin Linked(l) /\ ~Marked(e, l) /\ l \in Nat /\ (l # 0 => e \in Listed)
LEMMA AloneLinkHere ==
    ASSUME Core, Alone, profile.collect, NEW p \in Proc, InsertLink(p), NEW v, v = loc[p]
    PROVE  Solo(p) /\ LinkWon(p) /\ LinkHere(v, v.preds[v.up], v.cell, v.up)
<1> USE Constants
<1>2. /\ pc[p] = "link" /\ CallTypes /\ v \in Locs /\ LinkOK(p, v) /\ Heap /\ HeapFacts
      /\ CallType(p) /\ v.op = "insert"
  BY SearchFacts, LocsOf, CoreHeap, PcIs DEF InsertLink, Core, CallOK, CallAt
<1>3. Solo(p)
  BY <1>2, OneWriter DEF Solo, WorkLabels
<1>4. AloneIs("link", v)
  BY <1>2, <1>3, SoloIs
<1>5. v.up \in Level /\ v.up \in Nat /\ v.up <= top_level[v.cell]
  BY <1>2, LocsOf DEF LinkOK, FreshOK, OwnOK, HeapFacts
<1>6. Still(v, v.up) /\ forward[v.cell][v.up] = <<v.succs[v.up], FALSE>>
  <2>1. v.up >= v.up
    BY <1>5
  <2> QED
    BY <1>4, <1>5, <2>1 DEF AloneIs, AloneAt
<1>7. LinkWon(p)
  BY <1>6 DEF LinkWon, Holds, Still
<1>8. PICK q, e, l, s : q = v.preds[v.up] /\ e = v.cell /\ l = v.up /\ s = v.succs[v.up]
  OBVIOUS
<1>9. /\ LinkStep(q, e, l) /\ Passed(v, l) /\ key[e] = v.key
      /\ v.up = 0 => FreshOK(p, v) /\ e \notin Listed
      /\ v.up # 0 => e \in Listed
  BY <1>5, <1>7, <1>8, WonFacts
<1>10. Ptr(q, l) = s /\ Ptr(e, l) = s /\ ~Marked(e, l)
  <2>1. forward[q][l] = <<s, FALSE>> /\ forward[e][l] = <<s, FALSE>>
    BY <1>6, <1>8 DEF Still
  <2> QED
    BY <2>1 DEF Ptr, Marked
<1>11. q \in Linked(l) \cup {Head}
  BY <1>2, <1>4, <1>8, <1>9 DEF LinkStep, HeapFacts, Entering, AloneIs, Nodes
<1>12. LevelFacts(l) /\ AloneGap
  BY <1>2, <1>4, <1>5, <1>8, LevelList DEF AloneIs
<1>13. e \notin Linked(l)
  BY <1>4, <1>5, <1>8, <1>9, <1>12 DEF LevelFacts, Entering, AloneIs
<1>14. s \in Linked(l) \cup {Tail} /\ key[s] \in Nat /\ v.key \in Nat /\ v.key <= MaxKey /\ v.key <= key[s]
  <2>1. s \in Linked(l) \cup {Tail}
    BY <1>10, <1>11, <1>12 DEF LevelFacts
  <2>2. key[s] \in Nat
    BY <1>2, <1>5, <1>8, <1>10, <1>11, <1>12, LevelNumbers
  <2>3. v.key \in Nat /\ v.key <= MaxKey
    BY <1>2, LocsOf
  <2> QED
    BY <1>8, <1>9, <2>1, <2>2, <2>3 DEF Passed
<1>15. v.key # key[s]
  <2>1. CASE v.up = 0
    <3>1. v.key < key[s]
      <4>1. Beyond(v, 0)
        BY <1>9, <2>1 DEF FreshOK
      <4>2. ~(0 > 0) /\ s = v.succs[0]
        BY <1>8, <2>1
      <4> QED
        BY <4>1, <4>2 DEF Beyond
    <3> QED
      BY <1>14, <3>1
  <2>2. ASSUME v.up # 0, v.key = key[s] PROVE FALSE
    <3>1. s \in Linked(l) /\ s \in Listed /\ l <= top_level[s]
      BY <1>2, <1>12, <1>14, <2>2 DEF HeapFacts, LevelFacts
    <3>2. ~Marked(s, l)
      BY <1>4, <1>5, <1>8, <3>1 DEF AloneIs, Removing, Searching
    <3>3. s \in Linked0
      BY <1>2, <1>5, <1>8, <3>1, <3>2, Unmarked
    <3>4. e \in Linked0
      BY <1>2, <1>5, <1>8, <1>9, <1>10, <2>2, Unmarked
    <3>5. e = s
      BY <1>2, <1>9, <2>2, <3>3, <3>4 DEF Heap, HeapInv, GapInv
    <3> QED
      BY <1>13, <3>1, <3>5
  <2> QED
    BY <2>1, <2>2
<1>16. key[e] < key[s]
  BY <1>9, <1>14, <1>15
<1> QED
  BY <1>2, <1>3, <1>4, <1>5, <1>7, <1>8, <1>9, <1>10, <1>11, <1>13, <1>16 DEF LinkHere

\* The lists with the cell linked at the level, for what the call does next.
LEMMA AloneLinkIs ==
    ASSUME NEW v, NEW q, NEW e, NEW l, LinkHere(v, q, e, l), v.op = "insert", v \in Locs,
           NEW to, NEW w, to \notin {"extract", "mark", "lost", "find"} \cup Searching, to # "alloc",
           w.cell = e, l = top_level[e] => to # "link",
           l # top_level[e] => to = "link" /\ w.up = l + 1 /\ w.preds = v.preds /\ w.succs = v.succs
    PROVE  AloneIs(to, w)'
<1> USE Constants
<1>1. /\ q = v.preds[l] /\ e = v.cell /\ l = v.up
      /\ Heap /\ AloneIs("link", v) /\ LinkStep(q, e, l) /\ q \in Linked(l) \cup {Head}
      /\ Ptr(e, l) = Ptr(q, l) /\ key[e] < key[Ptr(q, l)] /\ e \notin Linked(l)
      /\ ~Marked(e, l) /\ l \in Nat /\ (l # 0 => e \in Listed)
  BY DEF LinkHere
<1>2. /\ HeapFacts /\ AloneGap /\ l \in Level /\ e \in used /\ e \in AnyCell
      /\ l <= top_level[e] /\ top_level[e] \in Nat
      /\ top_level' = top_level /\ Listed' = Listed \cup {e} /\ q \in AnyCell
      /\ forward' = [forward EXCEPT ![q][l] = <<e, FALSE>>]
  BY <1>1, Facts, LinkPtr DEF LinkStep, HeapFacts, AloneIs
<1>3. /\ Linked(l)' = Linked(l) \cup {e} /\ LevelGap(l)'
      /\ \A m \in Level : m # l => Linked(m)' = Linked(m) /\ LevelGap(m)'
  BY <1>1, <1>2, LevelLink
<1>4. \A c \in AnyCell, m \in Level : Marked(c, m)' <=> Marked(c, m)
  BY <1>1, LinkPtr
<1>5. Stored(q, l, e, FALSE)
  BY <1>1, <1>2, StoreIs
<1>6. \A m \in Level : Linked(m) \subseteq Listed /\ Linked(m) \subseteq AnyCell
  BY <1>1, <1>2, LevelList DEF LevelFacts, AnyCell
<1>7. AloneGap'
  BY <1>3 DEF AloneGap, LevelGap
<1>9. AloneAt(to, w)'
  <2>1. ASSUME to = "link", NEW m \in Level, m >= w.up, m <= top_level'[w.cell]
        PROVE  Still(w, m)' /\ forward'[w.cell][m] = <<w.succs[m], FALSE>>
    <3>1. w.up = l + 1 /\ w.preds = v.preds /\ w.succs = v.succs /\ m \in Nat
      BY <2>1
    <3>2. m # l /\ m >= v.up /\ m <= top_level[v.cell]
      BY <1>1, <1>2, <2>1, <3>1
    <3>3. Still(v, m) /\ forward[v.cell][m] = <<v.succs[m], FALSE>>
      BY <1>1, <3>2 DEF AloneIs, AloneAt
    <3>4. v.preds[m] \in AnyCell
      BY LocsOf
    <3>5. forward'[v.preds[m]][m] = forward[v.preds[m]][m] /\ forward'[e][m] = forward[e][m]
      BY <1>2, <1>5, <3>2, <3>4 DEF Stored
    <3> QED
      BY <1>1, <3>1, <3>3, <3>5 DEF Still
  <2> QED
    BY <2>1 DEF AloneAt
<1>10. ASSUME NEW c \in Listed', NEW m \in Level, m <= top_level[c], ~Marked(c, m)', Entering(to, w, c, m)
       PROVE  c \in Linked(m)'
  <2>1. CASE c = e
    <3>1. m \in Nat /\ (l # top_level[e] => m < l + 1)
      BY <1>10, <2>1 DEF Entering
    <3>2. m <= l
      BY <1>1, <1>2, <1>10, <2>1, <3>1
    <3>3. CASE m = l
      BY <1>3, <2>1, <3>3
    <3>4. CASE m # l
      <4>1. m < l
        BY <1>1, <3>1, <3>2, <3>4
      <4>2. e \in Linked(m) \/ e \notin Listed
        BY <1>1, <1>2, <1>4, <1>10, <2>1, <4>1 DEF AloneIs, Entering
      <4>3. e \in Listed
        BY <1>1, <3>1, <4>1
      <4> QED
        BY <1>3, <2>1, <3>4, <4>2, <4>3
    <3> QED
      BY <3>3, <3>4
  <2>2. CASE c # e
    BY <1>1, <1>2, <1>3, <1>4, <1>10, <2>2 DEF HeapFacts, Entering, AloneIs
  <2> QED
    BY <2>1, <2>2
<1>11. ASSUME NEW m \in Level, NEW c \in Linked(m)' PROVE Entering(to, w, c, m)
  <2>1. CASE c = e
    BY <1>1, <1>3, <1>6, <1>11, <2>1 DEF AloneIs, Entering
  <2>2. CASE c # e
    BY <2>2 DEF Entering
  <2> QED
    BY <2>1, <2>2
<1>12. ASSUME NEW m \in Level, NEW c \in Linked(m)' PROVE ~Marked(c, m)'
  BY <1>1, <1>2, <1>3, <1>4, <1>6, <1>12 DEF AloneIs, Removing
<1> QED
  BY <1>2, <1>7, <1>9, <1>10, <1>11, <1>12 DEF AloneIs, Entering, Removing

LEMMA AloneLink ==
    ASSUME Core, Alone, profile.collect, NEW p \in Proc, InsertLink(p)
    PROVE  Alone'
<1>1. PICK v, to, w : v = loc[p] /\ to = WonAt(v) /\ w = WonLoc(v)
  OBVIOUS
<1>2. Solo(p) /\ LinkWon(p) /\ LinkHere(v, v.preds[v.up], v.cell, v.up)
  BY <1>1, AloneLinkHere
<1>3. /\ v \in Locs /\ v.op = "insert" /\ Others(p) /\ pc'[p] = to /\ loc'[p] = w
      /\ w.cell = v.cell
      /\ v.up # top_level[v.cell] => w.preds = v.preds /\ w.succs = v.succs /\ w.up = v.up + 1
  BY <1>1, <1>2, WonFacts
<1>4. to = IF v.up = top_level[v.cell] THEN "bump" ELSE "link"
  BY <1>1 DEF WonAt
<1>5. AloneIs(to, w)'
  BY <1>2, <1>3, <1>4, AloneLinkIs DEF Searching
<1>6. Solo(p)'
  BY <1>2, <1>3 DEF Others, Solo
<1> QED
  BY <1>3, <1>5, <1>6, SoloNext

LEMMA StepAlone ==
    ASSUME Core, AloneInv, NEW p \in Proc, Step(p)
    PROVE  AloneInv'
<1>1. profile' = profile
  BY DEF Step, Call, Return, FindStart, FindLoad, FindNext, FindSnip, FindClaim, FindPush,
         FindPublish, LookupStart, LookupEnter, LookupWalk, ReadData, InsertUpdate, InsertAlloc,
         InsertLink, InsertBump, InsertRaise, RemoveExtract, RemoveMark, RemoveLost
<1>2. ASSUME profile.collect PROVE Alone'
  <2>1. Alone
    BY <1>2 DEF AloneInv
  <2>2. CASE Call(p) \/ Return(p)
    BY <1>2, <2>1, <2>2, AloneCall, AloneReturn
  <2>3. CASE FindStart(p) \/ FindLoad(p) \/ FindNext(p) \/ FindSnip(p) \/ FindClaim(p)
             \/ FindPush(p) \/ FindPublish(p)
    BY <1>2, <2>1, <2>3, AloneFindStart, AloneFindLoad, AloneFindNext, AloneSnip, AloneClaim
  <2>4. CASE LookupStart(p) \/ LookupEnter(p) \/ LookupWalk(p) \/ ReadData(p)
    BY <1>2, <2>1, <2>4, AloneLookup
  <2>5. CASE InsertUpdate(p) \/ InsertAlloc(p) \/ InsertLink(p) \/ InsertBump(p) \/ InsertRaise(p)
    BY <1>2, <2>1, <2>5, AloneInserted, AloneAlloc, AloneLink
  <2>6. CASE RemoveExtract(p) \/ RemoveMark(p) \/ RemoveLost(p)
    BY <1>2, <2>1, <2>6, AloneExtract, AloneMark, AloneMarkStay, AloneLost
  <2> QED
    BY <2>2, <2>3, <2>4, <2>5, <2>6 DEF Step
<1> QED
  BY <1>1, <1>2 DEF AloneInv
-----------------------------------------------------------------------------
(* The garbage is freed, when no call is under way. *)
Invs == Core /\ GarbageInv /\ AloneInv
Rest == Linked0
\* Without calls, what is not garbage is in the lists of all its levels.
RestFacts ==
    /\ Listed = used /\ Garbage = used \ Rest /\ Rest \subseteq used /\ Rest \subseteq Cell
    /\ \A c \in used : garbage_next[c] # None <=> c \notin Rest
    /\ \A c \in Rest, l \in Level : l <= top_level[c] => ~Marked(c, l)
    /\ \A l \in Level : Linked(l) = {c \in Rest : l <= top_level[c]}
    /\ \A l \in Level : LevelFacts(l)
LEMMA RestIs ==
    ASSUME Invs, profile.collect, AllIdle
    PROVE  RestFacts
<1> USE Constants
<1>1. Core /\ Heap /\ HeapFacts /\ ListFacts /\ TrashInv /\ RemovedInv /\ Alone
  BY CoreHeap DEF Invs, GarbageInv, AloneInv
<1>2. Listed = used
  BY DEF Listed, Fresh, AllIdle
<1>3. Garbage = Trash /\ Trash = {c \in used : garbage_next[c] # None}
  BY <1>1, GarbageIs DEF Trash, Claims, AllIdle
<1>4. /\ \A c \in used, l \in Level : l <= top_level[c] /\ Marked(c, l) => Marked(c, 0)
      /\ \A c \in used : Marked(c, 0) => c \notin Rest
      /\ \A c \in used : c \notin Rest => garbage_next[c] # None
  BY <1>1, <1>2 DEF RemovedInv, AllIdle, Rest, Searching
<1>5. \A c \in used : garbage_next[c] # None => Marked(c, 0)
  BY <1>1, <1>4 DEF TrashInv
<1>6. Rest \subseteq used /\ Rest \subseteq Cell
  BY <1>1, <1>2 DEF ListFacts, HeapFacts, Rest
<1>7. \A l \in Level : LevelFacts(l)
  BY <1>1, LevelList DEF Alone
<1>8. ASSUME NEW c \in used, NEW l \in Level
      PROVE  c \in Linked(l) <=> c \in Rest /\ l <= top_level[c]
  <2>1. ASSUME c \in Linked(l) PROVE c \in Rest /\ l <= top_level[c]
    BY <1>1, <1>2, <1>7, <2>1, Unmarked DEF LevelFacts, Alone, AloneMarked, Removing,
       AllIdle, Searching, Rest
  <2>2. ASSUME c \in Rest, l <= top_level[c] PROVE c \in Linked(l)
    BY <1>1, <1>2, <1>4, <2>2 DEF Entered, Entering, AllIdle, Alone, AloneLive
  <2> QED
    BY <2>1, <2>2
<1>9. ASSUME NEW l \in Level PROVE Linked(l) = {c \in Rest : l <= top_level[c]}
  BY <1>2, <1>6, <1>7, <1>8 DEF LevelFacts
<1>10. Garbage = used \ Rest
  BY <1>3, <1>4, <1>5, <1>6
<1>11. \A c \in used : garbage_next[c] # None <=> c \notin Rest
  BY <1>4, <1>5
<1>12. \A c \in Rest, l \in Level : l <= top_level[c] => ~Marked(c, l)
  BY <1>4, <1>6
<1> QED
  BY <1>2, <1>6, <1>7, <1>9, <1>10, <1>11, <1>12 DEF RestFacts

Freeing ==
    /\ Invs /\ profile.collect /\ AllIdle /\ RestFacts
    /\ HeapTypes' /\ GarbageTypes' /\ used' = Rest
    /\ \A c \in Rest \cup {Head, Tail} :
          /\ key'[c] = key[c] /\ data'[c] = data[c] /\ top_level'[c] = top_level[c]
          /\ forward'[c] = forward[c] /\ garbage_next'[c] = garbage_next[c]
    /\ garbage_head' = Head
    /\ UNCHANGED <<search_level, pc, loc, profile, calls, seen, gone>>
LEMMA FreeingIs ==
    ASSUME Invs, caml_lf_skiplist_free_garbage
    PROVE  Freeing
<1> USE Constants
<1>1. AllIdle /\ profile.collect
  BY DEF caml_lf_skiplist_free_garbage, AllIdle
<1>2. RestFacts
  BY <1>1, RestIs
<1>3. HeapTypes /\ GarbageTypes
  BY DEF Invs, Core
<1>4. Free(Garbage)
  BY DEF caml_lf_skiplist_free_garbage
<1>5. PICK S : S = Garbage
  OBVIOUS
<1>6. /\ HeapTypes' /\ garbage_next' \in [AnyCell -> AnyCell \cup {None, One}]
      /\ used' = used \ S
      /\ \A c \in AnyCell \ S :
            /\ key'[c] = key[c] /\ data'[c] = data[c] /\ top_level'[c] = top_level[c]
            /\ forward'[c] = forward[c] /\ garbage_next'[c] = garbage_next[c]
  BY <1>3, <1>4, <1>5, FreeIs
<1>7. S = used \ Rest /\ Rest \subseteq used /\ used \subseteq Cell
  BY <1>2, <1>3, <1>5 DEF RestFacts, HeapTypes
<1>8. used' = Rest /\ Rest \cup {Head, Tail} \subseteq AnyCell \ S
  BY <1>6, <1>7
<1>9. garbage_head' = Head /\ UNCHANGED <<search_level, pc, loc, profile, calls, seen, gone>>
  BY DEF caml_lf_skiplist_free_garbage, history
<1>10. GarbageTypes'
  BY <1>3, <1>6, <1>9 DEF GarbageTypes
<1> QED
  BY <1>1, <1>2, <1>6, <1>8, <1>9, <1>10 DEF Freeing

LEMMA FreeingFrom ==
    ASSUME Freeing
    PROVE  /\ \A c \in Rest \cup {Head, Tail} : \A l :
                 Ptr(c, l)' = Ptr(c, l) /\ (Marked(c, l)' <=> Marked(c, l))
           /\ \A c \in Rest \cup {Head}, l \in Level :
                 /\ l <= top_level[c] => c \in Linked(l) \cup {Head} /\ Ptr(c, l) \in Linked(l) \cup {Tail}
                 /\ From(c, l)' = From(c, l)
           /\ \A l \in Level : Linked(l)' = Linked(l) /\ Linked(l) \subseteq Rest
           /\ Linked0' = Linked0 /\ Listed' = Rest
<1> USE Constants
<1>1. Heap /\ HeapFacts /\ RestFacts /\ Core
  BY CoreHeap DEF Freeing, Invs
<1>2. \A c \in Rest \cup {Head, Tail} : forward'[c] = forward[c]
  BY DEF Freeing
<1>3. ASSUME NEW c \in Rest \cup {Head, Tail}, NEW l
      PROVE  Ptr(c, l)' = Ptr(c, l) /\ (Marked(c, l)' <=> Marked(c, l))
  BY <1>2, <1>3 DEF Ptr, Marked
<1>4. ASSUME NEW c \in Rest \cup {Head}, NEW l \in Level, l <= top_level[c]
      PROVE  c \in Linked(l) \cup {Head} /\ Ptr(c, l) \in Linked(l) \cup {Tail}
  BY <1>1, <1>4 DEF RestFacts, LevelFacts
<1>5. \A l \in Level : Linked(l) \subseteq Rest
  BY <1>1 DEF RestFacts
<1>6. ASSUME NEW c \in Rest \cup {Head}, NEW l \in Level PROVE From(c, l)' = From(c, l)
  <2>1. PICK n, m : n = Links(l) /\ m = Links(l)'
    OBVIOUS
  <2>2. \A x \in AnyCell : m[x] = Ptr(x, l)' /\ n[x] = Ptr(x, l)
    BY <2>1, LinksAre DEF Links
  <2>3. \A x : From(x, l) = Reached(n, x) /\ From(x, l)' = Reached(m, x)
    BY <2>1 DEF From
  <2>4. Rest \cup {Head} \subseteq AnyCell /\ c \in AnyCell
    BY <1>1 DEF RestFacts
  <2>5. \A x \in Rest \cup {Head} : m[x] = n[x]
    BY <1>3, <2>2, <2>4
  <2>6. From(c, l) \subseteq Rest
    <3>1. CASE l <= top_level[c]
      BY <1>4, <1>5, <2>3, <3>1, ReachedTrans DEF Linked
    <3>2. CASE ~(l <= top_level[c])
      <4>1. c \in used \cup {Head} /\ l > top_level[c]
        BY <1>1, <2>4, <3>2 DEF RestFacts, HeapFacts
      <4>2. Ptr(c, l) = Tail
        BY <1>1, <4>1 DEF Heap, HeapInv, PointerInv
      <4>3. n[c] \notin Cell
        BY <2>2, <2>4, <4>2
      <4>4. Reached(n, c) = {}
        BY <4>3, ReachedStep
      <4> QED
        BY <2>3, <4>4
    <3> QED
      BY <3>1, <3>2
  <2>7. Reached(m, c) = Reached(n, c)
    BY <2>3, <2>5, <2>6, ReachedSame
  <2> QED
    BY <2>3, <2>7
<1>7. \A l \in Level : Linked(l)' = Linked(l)
  BY <1>6 DEF Linked
<1>8. Linked0' = Linked0
  BY <1>7 DEF Linked0
<1>9. Listed' = Rest
  BY DEF Freeing, Listed, Fresh, AllIdle
<1> QED
  BY <1>3, <1>4, <1>5, <1>6, <1>7, <1>8, <1>9

LEMMA FreeingHeap ==
    ASSUME Freeing
    PROVE  Heap' /\ Dict' = Dict
<1> USE Constants
<1>1. Heap /\ HeapFacts /\ ListFacts /\ DictFacts /\ RestFacts
  BY CoreHeap DEF Freeing, Invs
<1>2. /\ HeapTypes' /\ used' = Rest /\ Rest \subseteq used /\ Rest \subseteq Cell /\ Listed = used
      /\ \A c \in Rest \cup {Head, Tail} :
            key'[c] = key[c] /\ data'[c] = data[c] /\ top_level'[c] = top_level[c]
      /\ \A c \in Rest, l \in Level : l <= top_level[c] => ~Marked(c, l)
      /\ \A l \in Level : LevelFacts(l)
  BY <1>1 DEF Freeing, RestFacts
<1>3. /\ \A c \in Rest \cup {Head, Tail} : \A l :
            Ptr(c, l)' = Ptr(c, l) /\ (Marked(c, l)' <=> Marked(c, l))
      /\ \A c \in Rest \cup {Head}, l \in Level :
            /\ l <= top_level[c] => c \in Linked(l) \cup {Head} /\ Ptr(c, l) \in Linked(l) \cup {Tail}
            /\ From(c, l)' = From(c, l)
      /\ \A l \in Level : Linked(l)' = Linked(l) /\ Linked(l) \subseteq Rest
      /\ Linked0' = Linked0 /\ Listed' = Rest
  BY FreeingFrom
<1>4. Nodes' = Rest \cup {Head} /\ Targets' = Rest \cup {Tail} /\ Rest = Linked0
  BY <1>3 DEF Nodes, Targets, Rest
<1>5. SentinelInv'
  BY <1>1, <1>2, <1>3 DEF Heap, HeapInv, SentinelInv
\* A pointer and where it leads.
<1>6. ASSUME NEW c \in Rest \cup {Head}, NEW l \in Level
      PROVE  /\ Ptr(c, l)' = Ptr(c, l) /\ key'[c] = key[c] /\ top_level'[c] = top_level[c]
             /\ top_level[c] \in Nat /\ l \in Nat
             /\ l > top_level[c] => Ptr(c, l) = Tail
             /\ l <= top_level[c] =>
                   /\ Ptr(c, l) \in Rest \cup {Tail} /\ l <= top_level[Ptr(c, l)]
                   /\ key[Ptr(c, l)] > key[c]
                   /\ key'[Ptr(c, l)] = key[Ptr(c, l)]
                   /\ top_level'[Ptr(c, l)] = top_level[Ptr(c, l)]
  BY <1>1, <1>2, <1>3 DEF HeapFacts, Heap, HeapInv, PointerInv, LevelFacts
<1>7. PointerInv'
  <2> SUFFICES ASSUME NEW c \in Rest \cup {Head}, NEW l \in Level
               PROVE  /\ l <= top_level'[c] => Ptr(c, l)' \in Targets' /\ l <= top_level'[Ptr(c, l)']
                      /\ l > top_level'[c] => Ptr(c, l)' = Tail
    BY <1>2 DEF PointerInv
  <2>1. PICK e : e = Ptr(c, l)
    OBVIOUS
  <2>2. Ptr(c, l)' = e
    BY <1>6, <2>1
  <2> QED
    BY <1>4, <1>6, <2>1, <2>2
<1>8. SortedInv'
  <2> SUFFICES ASSUME NEW c \in Rest \cup {Head}, NEW l \in Level, l <= top_level'[c]
               PROVE  key'[Ptr(c, l)'] > key'[c]
    BY <1>2 DEF SortedInv
  <2>1. PICK e : e = Ptr(c, l)
    OBVIOUS
  <2>2. Ptr(c, l)' = e
    BY <1>6, <2>1
  <2> QED
    BY <1>6, <2>1, <2>2
<1>9. \A c \in Rest, l \in Level : l <= top_level'[c] => ~Marked(c, l)'
  BY <1>2, <1>3
<1>10. MarksInv'
  <2> SUFFICES ASSUME NEW c \in Rest, NEW l \in Level, NEW m \in Level, Marked(c, l)',
                      l <= m, m <= top_level'[c]
               PROVE  FALSE
    BY <1>2 DEF MarksInv
  <2>1. l \in Nat /\ m \in Nat /\ top_level'[c] \in Nat
    BY <1>6
  <2>2. l <= top_level'[c]
    BY <2>1
  <2> QED
    BY <1>9, <2>2
<1>11. LiveInv'
  BY <1>3, <1>4 DEF LiveInv
<1>12. GapInv'
  <2> SUFFICES ASSUME NEW c \in Linked0 \cup {Head}, NEW d \in Linked0
               PROVE  /\ key'[c] < key'[d] => key'[Ptr(c, 0)'] <= key'[d]
                      /\ key'[c] = key'[d] => c = d
    BY <1>3 DEF GapInv
  <2>0. c \in Rest \cup {Head} /\ d \in Rest
    BY <1>4
  <2>1. PICK e : e = Ptr(c, 0)
    OBVIOUS
  <2>2. Ptr(c, 0)' = e
    BY <1>6, <2>0, <2>1
  <2>3. 0 <= top_level[c]
    BY <1>6, <2>0
  <2>4. key'[e] = key[e] /\ key'[c] = key[c] /\ key'[d] = key[d]
    BY <1>6, <2>0, <2>1, <2>3
  <2>5. /\ key[c] < key[d] => key[e] <= key[d]
        /\ key[c] = key[d] => c = d
    BY <1>1, <2>1 DEF Heap, HeapInv, GapInv
  <2> QED
    BY <2>2, <2>4, <2>5
<1>13. AheadInv'
  <2> SUFFICES ASSUME NEW c \in Rest \cup {Head}, NEW l \in Level, l <= top_level'[c],
                      Ptr(c, l)' \in Linked0', key'[c] < key'[Ptr(c, l)']
               PROVE  Ptr(c, l)' \in From(c, 0)'
    BY <1>4 DEF AheadInv
  <2>1. PICK e : e = Ptr(c, l)
    OBVIOUS
  <2>2. Ptr(c, l)' = e /\ e \in Linked0 /\ l <= top_level[c] /\ key[c] < key[e]
    BY <1>3, <1>6, <2>1
  <2>3. c \in Nodes
    BY <1>2 DEF Nodes
  <2>4. e \in From(c, 0)
    BY <1>1, <2>1, <2>2, <2>3 DEF Heap, HeapInv, AheadInv
  <2> QED
    BY <1>3, <2>2, <2>4
<1>14. AcyclicInv'
  <2> SUFFICES ASSUME NEW c \in Rest, NEW l \in Level PROVE c \notin From(c, l)'
    BY <1>2 DEF AcyclicInv
  <2>1. From(c, l)' = From(c, l)
    BY <1>3
  <2> QED
    BY <1>1, <1>2, <2>1 DEF Heap, HeapInv, AcyclicInv
<1>15. Heap'
  BY <1>2, <1>5, <1>7, <1>8, <1>10, <1>11, <1>12, <1>13, <1>14 DEF Heap, HeapInv
<1>16. DictFacts'
  BY <1>15, FactsNext
<1>17. ASSUME NEW k \in Key PROVE Dict'[k] = Dict[k]
  <2>1. CASE \E c \in Listed : key[c] = k /\ ~Marked(c, 0)
    <3>1. PICK c \in Listed : key[c] = k /\ ~Marked(c, 0)
      BY <2>1
    <3>2. c \in Rest
      BY <1>1, <1>4, <3>1 DEF Heap, HeapInv, LiveInv
    <3>3. c \in Listed' /\ key'[c] = k /\ ~Marked(c, 0)' /\ data'[c] = data[c]
      BY <1>2, <1>3, <3>1, <3>2
    <3>4. Dict'[k] = data'[c]
      BY <1>16, <3>3 DEF DictFacts
    <3>5. Dict[k] = data[c]
      BY <1>1, <3>1 DEF DictFacts
    <3> QED
      BY <3>3, <3>4, <3>5
  <2>2. CASE ~ \E c \in Listed : key[c] = k /\ ~Marked(c, 0)
    BY <1>1, <1>2, <1>3, <1>16, <2>2 DEF DictFacts
  <2> QED
    BY <2>1, <2>2
<1>18. Dict' = Dict
  BY <1>17, DictFun
<1> QED
  BY <1>15, <1>18

LEMMA FreeingInvs ==
    ASSUME Freeing
    PROVE  Invs' /\ Dict' = Dict
<1> USE Constants
<1>1. /\ HeapTypes' /\ GarbageTypes' /\ used' = Rest
      /\ \A c \in Rest \cup {Head, Tail} :
            /\ key'[c] = key[c] /\ top_level'[c] = top_level[c] /\ garbage_next'[c] = garbage_next[c]
      /\ garbage_head' = Head /\ UNCHANGED <<pc, loc, profile, seen, gone>>
      /\ Invs /\ Core /\ TrashInv /\ AllIdle /\ RestFacts /\ Alone
  BY DEF Freeing, Invs, AloneInv, GarbageInv
<1>2. Heap' /\ Dict' = Dict
  BY FreeingHeap
<1>3. /\ \A c \in Rest \cup {Head, Tail} : \A l :
            Ptr(c, l)' = Ptr(c, l) /\ (Marked(c, l)' <=> Marked(c, l))
      /\ \A c \in Rest \cup {Head}, l \in Level : l <= top_level[c] =>
            c \in Linked(l) \cup {Head} /\ Ptr(c, l) \in Linked(l) \cup {Tail}
      /\ \A l \in Level : Linked(l)' = Linked(l) /\ Linked(l) \subseteq Rest
      /\ Linked0' = Linked0 /\ Listed' = Rest
  BY FreeingFrom
<1>4. /\ \A c \in Rest : garbage_next[c] = None
      /\ \A c \in Rest, l \in Level : l <= top_level[c] => ~Marked(c, l)
      /\ \A l \in Level : Linked(l) = {c \in Rest : l <= top_level[c]}
      /\ \A l \in Level : LevelFacts(l)
      /\ Rest \subseteq used
  BY <1>1 DEF RestFacts
<1>5. \A c \in Rest, l \in Level : l <= top_level'[c] => ~Marked(c, l)'
  BY <1>1, <1>3, <1>4
<1>6. AllIdle'
  BY <1>1 DEF AllIdle
<1>7. CallTypes'
  BY <1>1 DEF Core, CallTypes, CallType, AllIdle
<1>8. SeenInv'
  BY <1>1 DEF Core, SeenInv, SeenOK, AllIdle
<1>9. CallsInv'
  BY <1>6, IdleOKNext DEF AllIdle, CallsInv
<1>10. Core'
  BY <1>1, <1>2, <1>7, <1>8, <1>9 DEF Core, Heap
<1>11. Trash' = {}
  BY <1>1, <1>4 DEF Trash
<1>12. TrashInv'
  BY <1>1, <1>4, <1>11 DEF TrashInv
<1>13. ClaimInv'
  BY <1>6 DEF ClaimInv, Claims, AllIdle
<1>14. RemovedInv'
  <2> SUFFICES ASSUME NEW c \in Rest
               PROVE  /\ \A l \in Level : l <= top_level'[c] => ~Marked(c, l)'
                      /\ ~Marked(c, 0)' /\ c \in Linked0'
    BY <1>3 DEF RemovedInv
  <2>1. 0 <= top_level'[c]
    BY <1>1, <1>2, FactsNext DEF RestFacts, HeapFacts
  <2> QED
    BY <1>3, <1>5, <2>1 DEF Rest
<1>15. AloneLive'
  <2> SUFFICES ASSUME NEW c \in Rest, NEW l \in Level, l <= top_level'[c] PROVE c \in Linked(l)'
    BY <1>3 DEF AloneLive
  <2>1. top_level'[c] = top_level[c]
    BY <1>1
  <2>2. c \in Linked(l)
    BY <1>4, <2>1
  <2>3. Linked(l)' = Linked(l)
    BY <1>3
  <2> QED
    BY <2>2, <2>3
<1>16. AloneEntered'
  BY <1>6 DEF AloneEntered, Entered, Entering, AllIdle
<1>17. AloneGap'
  <2> SUFFICES ASSUME NEW l \in Level, NEW c \in Linked(l) \cup {Head}, NEW d \in Linked(l)
               PROVE  /\ key'[c] < key'[d] => key'[Ptr(c, l)'] <= key'[d]
                      /\ key'[c] = key'[d] => c = d
    BY <1>3 DEF AloneGap
  <2>1. c \in Rest \cup {Head} /\ d \in Rest
    BY <1>3
  <2>2. PICK e : e = Ptr(c, l)
    OBVIOUS
  <2>3. Ptr(c, l)' = e /\ e \in Rest \cup {Tail}
    BY <1>3, <1>4, <2>1, <2>2 DEF LevelFacts
  <2>4. key'[e] = key[e] /\ key'[c] = key[c] /\ key'[d] = key[d]
    BY <1>1, <2>1, <2>3
  <2>5. /\ key[c] < key[d] => key[e] <= key[d]
        /\ key[c] = key[d] => c = d
    BY <1>1, <2>2 DEF Alone, AloneGap
  <2> QED
    BY <2>3, <2>4, <2>5
<1>18. AloneCalls'
  BY <1>6 DEF AllIdle, AloneAt, Searching, AloneCalls
<1>19. AloneMarked'
  <2>1. ASSUME NEW l \in Level, NEW c \in Linked(l)' PROVE ~Marked(c, l)'
    BY <1>3, <1>4, <2>1
  <2> QED
    BY <2>1 DEF AloneMarked
<1>20. Alone'
  BY <1>15, <1>16, <1>17, <1>18, <1>19 DEF Alone
<1> QED
  BY <1>2, <1>10, <1>12, <1>13, <1>14, <1>20 DEF Invs, GarbageInv, AloneInv
-----------------------------------------------------------------------------
(* The invariant. *)
LEMMA InitHeap ==
    ASSUME Init
    PROVE  /\ Heap /\ used = {} /\ Listed = {} /\ Nodes = {Head}
           /\ \A l \in Level : Linked(l) = {} /\ Ptr(Head, l) = Tail
           /\ Linked0 = {}
<1> USE Constants
<1>1. used = {} /\ Listed = {} /\ Nodes = {Head} /\ Targets = {Tail}
  BY DEF Init, Listed, Nodes, Targets
<1>2. HeapTypes
  <2>1. key \in [AnyCell -> 0 .. MaxKey + 1]
    BY DEF Init, Blank
  <2>2. data \in [AnyCell -> Data \cup {Absent}] /\ top_level \in [AnyCell -> Level]
    BY DEF Init, Blank
  <2>3. forward \in [AnyCell -> [Level -> (AnyCell \cup {None}) \X BOOLEAN]]
    BY DEF Init, Blank
  <2> QED
    BY <1>1, <2>1, <2>2, <2>3 DEF HeapTypes
<1>3. ASSUME NEW l \in Level
      PROVE  /\ Ptr(Head, l) = Tail /\ Ptr(Tail, l) = None
             /\ ~Marked(Head, l) /\ ~Marked(Tail, l)
  BY <1>3 DEF Init, Blank, Ptr, Marked
<1>4. ASSUME NEW l \in Level PROVE Linked(l) = {}
  BY <1>3, <1>4, LinksAre, ReachedStep DEF Linked, From
<1>5. Linked0 = {}
  BY <1>4 DEF Linked0
<1>6. key[Head] = 0 /\ key[Tail] = MaxKey + 1 /\ top_level[Head] = TopLevel /\ top_level[Tail] = TopLevel
  BY DEF Init, Blank
<1>7. SentinelInv
  BY <1>1, <1>3, <1>6 DEF SentinelInv
<1>8. PointerInv /\ SortedInv
  BY <1>1, <1>3, <1>6 DEF PointerInv, SortedInv
<1>9. MarksInv /\ LiveInv /\ GapInv /\ AcyclicInv
  BY <1>1, <1>5 DEF MarksInv, LiveInv, GapInv, AcyclicInv
<1>10. AheadInv
  BY <1>5 DEF AheadInv
<1> QED
  BY <1>1, <1>2, <1>3, <1>4, <1>5, <1>7, <1>8, <1>9, <1>10 DEF Heap, HeapInv

LEMMA InitInvs ==
    ASSUME Init
    PROVE  Invs
<1> USE Constants
<1>1. /\ Heap /\ used = {} /\ Listed = {} /\ Nodes = {Head}
      /\ \A l \in Level : Linked(l) = {} /\ Ptr(Head, l) = Tail
  BY InitHeap
<1>2. /\ pc = [p \in Proc |-> "idle"] /\ loc = [p \in Proc |-> Idle] /\ profile \in Profiles
      /\ seen = [p \in Proc |-> [k \in Key |-> {}]] /\ gone = [p \in Proc |-> FALSE]
      /\ search_level = 0 /\ garbage_head = Head
  BY DEF Init
<1>3. garbage_next = [c \in AnyCell |-> None]
  BY DEF Init, Blank
<1>4. GarbageTypes
  BY <1>2, <1>3 DEF GarbageTypes
<1>5. CallTypes
  BY <1>2 DEF Labels, CallType, CallTypes
<1>6. SeenInv
  BY <1>2 DEF SeenInv, SeenOK
<1>7. CallsInv
  BY <1>2, IdleOK DEF CallsInv
<1>8. Core
  BY <1>1, <1>4, <1>5, <1>6, <1>7 DEF Core, Heap
<1>9. TrashInv
  BY <1>1, <1>2, <1>3 DEF Trash, TrashInv
<1>10. ClaimInv
  BY <1>1, <1>2 DEF ClaimInv
<1>11. RemovedInv
  BY <1>1 DEF RemovedInv
<1>12. Alone
  BY <1>1, <1>2 DEF AloneLive, AloneEntered, AloneGap, AloneMarked, AloneCalls, AloneAt,
     Searching, Alone
<1> QED
  BY <1>8, <1>9, <1>10, <1>11, <1>12 DEF Invs, GarbageInv, AloneInv

LEMMA StutterInvs ==
    ASSUME Invs, UNCHANGED vars
    PROVE  Invs'
<1> USE Constants
<1>1. /\ UNCHANGED <<used, key, data, top_level, forward, garbage_next, search_level, garbage_head>>
      /\ UNCHANGED <<pc, loc, profile, calls, seen, gone>>
  BY DEF vars
<1>2. Core /\ TrashInv /\ ClaimInv /\ RemovedInv /\ Heap
  BY CoreHeap DEF Invs, GarbageInv
<1>3. SameHeap
  BY <1>1 DEF SameHeap, Fresh
<1>4. /\ Heap' /\ Evolves /\ Listed' = Listed /\ Linked0' = Linked0 /\ Dict' = Dict
      /\ \A c, l : Marked(c, l)' = Marked(c, l)
  BY <1>2, <1>3, SameHeapInv, Same
<1>5. GarbageTypes' /\ CallTypes' /\ SeenInv'
  BY <1>1, <1>2, <1>4 DEF Core, GarbageTypes, CallTypes, CallType, SeenInv, SeenOK
<1>6. CallsInv'
  <2>1. ASSUME NEW q \in Proc PROVE CallOK(q)'
    <3>1. CASE pc[q] = "idle"
      BY <1>1, <3>1, IdleOKNext
    <3>2. CASE pc[q] # "idle"
      <4>1. Waits(q)
        BY <1>2, <3>2, SearchFacts DEF Waits
      <4>2. Learns(q) /\ Rereads(q)
        BY <1>1, <1>4 DEF Learns, Rereads, DataSeen
      <4>3. Spares(q)
        BY <1>1, <1>2, <3>2, FreshIn DEF Spares, Fresh
      <4>4. Rely(q)
        BY <1>2, <1>4, <4>1, <4>2, <4>3 DEF Rely, Core
      <4>5. CallOK(q)
        BY <1>2 DEF Core, CallsInv
      <4> QED
        BY <1>1, <4>4, <4>5, Stable
    <3> QED
      BY <3>1, <3>2
  <2> QED
    BY <2>1 DEF CallsInv
<1>7. Core'
  BY <1>4, <1>5, <1>6 DEF Core, Heap
<1>8. \A q \in Proc : \A c : Claims(q, c)' <=> Claims(q, c)
  BY <1>1 DEF Claims
<1>9. Trash' = Trash
  BY <1>1, <1>8 DEF Trash
<1>10. Garbage' = Garbage
  BY <1>1, <1>2, GarbageSame
<1>11. TrashInv' /\ ClaimInv' /\ RemovedInv'
  <2>1. TrashInv'
    BY <1>1, <1>2, <1>4, <1>9, <1>10 DEF TrashInv
  <2>2. ClaimInv'
    BY <1>1, <1>2, <1>8, <1>9 DEF ClaimInv
  <2>3. RemovedInv'
    BY <1>1, <1>2, <1>4 DEF RemovedInv, Removes
  <2> QED
    BY <2>1, <2>2, <2>3
<1>12. AloneInv'
  <2> SUFFICES ASSUME profile.collect PROVE Alone'
    BY <1>1 DEF AloneInv
  <2>0. Alone
    BY DEF Invs, AloneInv
  <2>1. /\ \A l : Linked(l)' = Linked(l)
        /\ \A c, l : Ptr(c, l)' = Ptr(c, l) /\ Marked(c, l)' = Marked(c, l)
    BY <1>1, LinkedSame
  <2>2. \A c, l : Entered(c, l)' <=> Entered(c, l)
    BY <1>1 DEF Entered, Entering
  <2>3. AloneLive' /\ AloneEntered' /\ AloneGap'
    BY <1>1, <1>4, <2>0, <2>1, <2>2 DEF Alone, AloneLive, AloneEntered, AloneGap
  <2>4. AloneCalls'
    BY <1>1, <2>0, ZenonT(60) DEF Alone, AloneCalls, AloneAt, Still, Ptr, Marked
  <2>5. AloneMarked'
    BY <1>1, <2>0, <2>1 DEF Alone, AloneMarked, Removing
  <2> QED
    BY <2>3, <2>4, <2>5 DEF Alone
<1> QED
  BY <1>7, <1>11, <1>12 DEF Invs, GarbageInv

(* The invariant on which the results below rest: the heap is in order,    *)
(* each call knows what it needs of it, cells that are out of the lists    *)
(* are on the garbage list or about to be, and under one writer every      *)
(* level is a sorted list of its own.                                      *)
THEOREM InvsHold == Spec => []Invs
<1>1. ASSUME Invs, Next PROVE Invs'
  <2>1. CASE caml_lf_skiplist_free_garbage
    BY <1>1, <2>1, FreeingIs, FreeingInvs
  <2>2. CASE \E p \in Proc : Step(p)
    <3>1. PICK p \in Proc : Step(p)
      BY <2>2
    <3>2. Core' /\ GarbageInv' /\ AloneInv'
      BY <1>1, <3>1, StepCore, StepGarbage, StepAlone DEF Invs
    <3> QED
      BY <3>2 DEF Invs
  <2> QED
    BY <1>1, <2>1, <2>2 DEF Next
<1> QED
  BY <1>1, InitInvs, StutterInvs, PTL DEF Spec
-----------------------------------------------------------------------------
LEMMA AtMostOne ==
    ASSUME NEW S, \A c, d \in S : c = d
    PROVE  Cardinality(S) <= 1
<1>1. CASE S = {}
  BY <1>1, FS_EmptySet
<1>2. CASE S # {}
  <2>1. PICK c \in S : TRUE
    BY <1>2
  <2>2. S = {c}
    BY <2>1
  <2>3. Cardinality(S) = 1
    BY <2>2, FS_Singleton
  <2> QED
    BY <2>3
<1> QED
  BY <1>1, <1>2

LEMMA TypesOK == Invs => TypeOK
<1> SUFFICES ASSUME Invs PROVE TypeOK
  OBVIOUS
<1>1. HeapTypes /\ GarbageTypes /\ CallTypes
  BY DEF Invs, Core
<1>2. ASSUME NEW p \in Proc
      PROVE  IF pc[p] = "idle" THEN loc[p] = Idle ELSE loc[p] \in LocalsOf(loc[p].op)
  <2>1. CallType(p)
    BY <1>1 DEF CallTypes
  <2>2. CASE pc[p] # "idle"
    <3>1. PICK v : v = loc[p]
      OBVIOUS
    <3>2. v \in Locs /\ v.res \in Results(v.op)
      BY <2>1, <2>2, <3>1 DEF CallType
    <3>3. v \in LocalsOf(v.op)
      BY <3>2 DEF Locs, LocalsOf
    <3> QED
      BY <2>2, <3>1, <3>3
  <2> QED
    BY <2>1, <2>2 DEF CallType
<1> QED
  BY <1>1, <1>2 DEF TypeOK, HeapTypes, GarbageTypes

LEMMA ListsSorted == Invs => LevelsSorted /\ NoFreedCell
<1> SUFFICES ASSUME Invs PROVE LevelsSorted /\ NoFreedCell
  OBVIOUS
<1> USE Constants
<1>1. Heap /\ HeapFacts /\ ListFacts
  BY CoreHeap DEF Invs
<1>2. ASSUME NEW c \in used \cup {Head}, NEW l \in 0 .. top_level[c]
      PROVE  \/ key[Ptr(c, l)] > key[c]
             \/ l > 0 /\ key[Ptr(c, l)] = key[c] /\ Marked(Ptr(c, l), l)
  BY <1>1 DEF HeapFacts, Level, Heap, HeapInv, SortedInv
<1>3. \A c \in used, l \in Level : c \notin From(c, l)
  BY <1>1 DEF Heap, HeapInv, AcyclicInv
<1>4. \A k \in Key : Cardinality(Present(k)) <= 1
  BY <1>1, PresentAre, AtMostOne
<1>5. NoFreedCell
  BY <1>1 DEF HeapFacts, ListFacts, Linked, NoFreedCell
<1> QED
  BY <1>2, <1>3, <1>4, <1>5 DEF LevelsSorted

LEMMA NothingLost == Invs => NoLeak
<1> SUFFICES ASSUME Invs, AllIdle PROVE used = Garbage \cup UNION {Present(k) : k \in Key}
  BY DEF NoLeak
<1> USE Constants
<1>1. Core /\ Heap /\ HeapFacts /\ ListFacts /\ TrashInv /\ RemovedInv
  BY CoreHeap DEF Invs, GarbageInv
<1>2. Listed = used
  BY DEF Listed, Fresh, AllIdle
<1>3. Garbage = {c \in used : garbage_next[c] # None}
  BY <1>1, GarbageIs DEF Trash, Claims, AllIdle
<1>4. \A c \in used : Marked(c, 0) => c \notin Linked0
  BY <1>1, <1>2 DEF RemovedInv, AllIdle, Searching
<1>5. \A c \in used : c \notin Linked0 => garbage_next[c] # None
  BY <1>1, <1>2 DEF RemovedInv, AllIdle
<1>6. \A k \in Key : Present(k) = {c \in used : key[c] = k /\ ~Marked(c, 0)}
  BY <1>1, <1>2, PresentAre
<1>7. ASSUME NEW c \in used PROVE c \in Garbage \cup UNION {Present(k) : k \in Key}
  BY <1>1, <1>3, <1>4, <1>5, <1>6 DEF HeapFacts
<1>8. \A k \in Key : Present(k) \subseteq used
  BY <1>6
<1> QED
  BY <1>3, <1>7, <1>8

\* Whatever insertions, removals and searches do to each other, each cell is where its key
\* and its marks say, no cell that is freed is met, and none is lost.
THEOREM CellsAreAccounted == Spec => []CellsAccounted
<1>1. Invs => CellsAccounted
  BY TypesOK, ListsSorted, NothingLost DEF CellsAccounted
<1> QED
  BY <1>1, InvsHold, PTL
-----------------------------------------------------------------------------
(* The list implements the dictionary. *)
DoneAt(at, v) ==
    \/ at = "return"
    \/ v.op = "insert" /\ v.cell # None /\ v.up > 0
    \/ at \in {"bump", "raise"}
    \/ v.op = "remove" /\ v.cell # None /\ at \notin {"extract", "mark", "lost"}
ResAt(at, v) == IF at = "return" THEN v.res ELSE IF DoneAt(at, v) THEN 1 ELSE Absent
\* What the dictionary sees of a call.
Rec(o, k, d, g, s, b, x) ==
    [op |-> o, key |-> k, data |-> d, gone |-> g, seen |-> s, done |-> b, res |-> x]
View(at, v, g, s) ==
    IF at = "idle" THEN Idle
    ELSE Rec(v.op, v.key, v.data, g, s, DoneAt(at, v), ResAt(at, v))

RecSet(o, k, d, g, s, b, x) ==
    [op : {o}, key : {k}, data : {d}, gone : {g}, seen : {s}, done : {b}, res : {x}]
LEMMA RecOnly ==
    ASSUME NEW o, NEW k, NEW d, NEW g, NEW s, NEW b, NEW x, NEW e,
           e \in RecSet(o, k, d, g, s, b, x)
    PROVE  /\ e = Rec(o, k, d, g, s, b, x)
           /\ e.op = o /\ e.key = k /\ e.data = d /\ e.seen = s /\ e.res = x
           /\ e.gone = g /\ e.done = b
BY DEF Rec, RecSet
LEMMA RecIn ==
    ASSUME NEW o, NEW k, NEW d, NEW g, NEW s, NEW b, NEW x
    PROVE  Rec(o, k, d, g, s, b, x) \in RecSet(o, k, d, g, s, b, x)
BY DEF Rec, RecSet
\* How the steps of the dictionary change a call.
LEMMA SetAnswer ==
    ASSUME NEW o, NEW k, NEW d, NEW g, NEW s, NEW b, NEW x, NEW r, NEW y, NEW e,
           e \in RecSet(o, k, d, g, s, b, x), y = TRUE
    PROVE  [e EXCEPT !.done = TRUE, !.res = r] \in RecSet(o, k, d, g, s, y, r)
BY DEF RecSet
LEMMA ViewIs ==
    ASSUME NEW p \in Proc, NEW at, NEW v
    PROVE  /\ at = pc[p] /\ v = loc[p] => AbsCalls[p] = View(at, v, gone[p], seen[p])
           /\ at = pc'[p] /\ v = loc'[p] => AbsCalls'[p] = View(at, v, gone'[p], seen'[p])
BY DEF Done, DoneAt, AbsCall, View, ResAt, Rec, AbsCalls

CallsAre(C) == C = [q \in Proc |-> C[q]]
LEMMA AbsFun == CallsAre(AbsCalls) /\ CallsAre(AbsCalls')
BY DEF AbsCalls, CallsAre

LEMMA OthersView ==
    ASSUME NEW p \in Proc, Others(p), NEW q \in Proc, q # p, seen'[q] = seen[q], gone'[q] = gone[q]
    PROVE  AbsCalls'[q] = AbsCalls[q]
<1>1. PICK at, v : at = pc[q] /\ v = loc[q]
  OBVIOUS
<1>2. at = pc'[q] /\ v = loc'[q]
  BY <1>1 DEF Others
<1> QED
  BY <1>1, <1>2, ViewIs

\* The step is not seen.
Silent(p) == Others(p) /\ seen' = seen /\ gone' = gone /\ Dict' = Dict
LEMMA MovedSilent ==
    ASSUME NEW p \in Proc, Moved(p)
    PROVE  Silent(p)
BY Same DEF Moved, Quiet, Silent
LEMMA Unseen ==
    ASSUME NEW p \in Proc, Silent(p), AbsCalls'[p] = AbsCalls[p]
    PROVE  UNCHANGED D!vars
<1>1. \A q \in Proc : AbsCalls'[q] = AbsCalls[q]
  BY OthersView DEF Silent
<1>2. AbsCalls' = AbsCalls
  BY <1>1, AbsFun DEF CallsAre
<1> QED
  BY <1>2 DEF D!vars, Silent
LEMMA SameView ==
    ASSUME NEW p \in Proc, Silent(p), NEW at, NEW v, NEW to, NEW w,
           at = pc[p], v = loc[p], to = pc'[p], w = loc'[p], at # "idle", to # "idle",
           w.op = v.op, w.key = v.key, w.data = v.data,
           DoneAt(to, w) <=> DoneAt(at, v), ResAt(to, w) = ResAt(at, v)
    PROVE  UNCHANGED D!vars
<1>1. PICK g, s : g = gone[p] /\ s = seen[p]
  OBVIOUS
<1>2. AbsCalls[p] = View(at, v, g, s)
  BY <1>1, ViewIs
<1>3. AbsCalls'[p] = View(to, w, g, s)
  BY <1>1, ViewIs DEF Silent
<1>4. DoneAt(to, w) = DoneAt(at, v)
  BY DEF DoneAt
<1>5. View(to, w, g, s) = View(at, v, g, s)
  BY <1>4 DEF View
<1> QED
  BY <1>2, <1>3, <1>5, Unseen

\* The call takes effect.
LEMMA Answered ==
    ASSUME NEW p \in Proc, Silent(p), NEW r,
           NEW at, NEW v, NEW w, at = pc[p], v = loc[p], at # "idle", pc'[p] = "return",
           w = loc'[p], w.op = v.op, w.key = v.key, w.data = v.data, w.res = r
    PROVE  D!Answer(p, r)
<1>1. PICK to, g, s, b, x : /\ to = pc'[p] /\ g = gone[p] /\ s = seen[p]
                            /\ b = DoneAt(at, v) /\ x = ResAt(at, v)
  OBVIOUS
<1>2. PICK e, f : e = AbsCalls[p] /\ f = AbsCalls'[p]
  OBVIOUS
<1>3. e = Rec(v.op, v.key, v.data, g, s, b, x)
  BY <1>1, <1>2, ViewIs DEF View
<1>4. DoneAt("return", w) = TRUE /\ ResAt("return", w) = r
  BY DEF DoneAt, ResAt
<1>5. f = Rec(v.op, v.key, v.data, g, s, TRUE, r)
  <2>1. f = View("return", w, g, s)
    BY <1>1, <1>2, ViewIs DEF Silent
  <2> QED
    BY <2>1, <1>4 DEF View
<1>6. f = [e EXCEPT !.done = TRUE, !.res = r]
  <2>1. PICK o, k, d : o = v.op /\ k = v.key /\ d = v.data
    OBVIOUS
  <2>2. e \in RecSet(o, k, d, g, s, b, x)
    BY <1>3, <2>1, RecIn
  <2>3. PICK y : y = [e EXCEPT !.done = TRUE, !.res = r]
    OBVIOUS
  <2>6. PICK h : h = TRUE
    OBVIOUS
  <2>4. y \in RecSet(o, k, d, g, s, h, r)
    BY <2>2, <2>3, <2>6, SetAnswer
  <2>5. y = Rec(o, k, d, g, s, h, r)
    BY <2>4, RecOnly
  <2> QED
    BY <1>5, <2>1, <2>3, <2>5, <2>6
<1>7. \A q \in Proc : q # p => AbsCalls'[q] = AbsCalls[q]
  BY OthersView DEF Silent
<1>8. AbsCalls' = [AbsCalls EXCEPT ![p] = [e EXCEPT !.done = TRUE, !.res = r]]
  BY <1>2, <1>6, <1>7, AbsFun DEF CallsAre
<1>9. [AbsCalls EXCEPT ![p].done = TRUE, ![p].res = r]
          = [AbsCalls EXCEPT ![p] = [e EXCEPT !.done = TRUE, !.res = r]]
  BY <1>2, AbsFun DEF CallsAre
<1> QED
  BY <1>8, <1>9 DEF D!Answer, Silent
-----------------------------------------------------------------------------
\* A key gets a new value.
SetsKey(k, d) ==
    /\ k \in Key /\ Dict'[k] = d
    /\ \A l \in Key : l # k => Dict'[l] = Dict[l]
    /\ \A q \in Proc : pc[q] = "idle" => seen'[q] = seen[q] /\ gone'[q] = gone[q]
    /\ \A q \in Proc : pc[q] # "idle" =>
          /\ \A l \in Key : seen'[q][l] = seen[q][l] \cup {Dict'[l]}
          /\ gone'[q] <=> (gone[q] \/ (Dict[loc[q].key] # Absent /\ Dict'[loc[q].key] = Absent))
LEMMA LearnsSeen ==
    ASSUME Core, Core', NEW k, NEW d, SetsKey(k, d), NEW q \in Proc, pc[q] # "idle",
           NEW n, n = loc[q].key
    PROVE  /\ seen'[q] = [seen[q] EXCEPT ![k] = @ \cup {d}]
           /\ gone'[q] = (gone[q] \/ (k = n /\ d = Absent /\ Dict[k] # Absent))
           /\ gone[q] \in BOOLEAN /\ gone'[q] \in BOOLEAN /\ n \in Key
<1>1. /\ seen[q] \in [Key -> SUBSET (Data \cup {Absent})] /\ gone[q] \in BOOLEAN
      /\ seen'[q] \in [Key -> SUBSET (Data \cup {Absent})] /\ gone'[q] \in BOOLEAN
  BY DEF Core, CallTypes
<1>2. \A l \in Key : Dict[l] \in seen[q][l]
  BY DEF Core, SeenInv, SeenOK
<1>3. n \in Key
  BY LocsOf DEF Core, CallTypes, CallType
<1>4. \A l \in Key : seen'[q][l] = IF l = k THEN seen[q][l] \cup {d} ELSE seen[q][l]
  <2> TAKE l \in Key
  <2>1. seen'[q][l] = seen[q][l] \cup {Dict'[l]}
    BY DEF SetsKey
  <2>2. l = k => Dict'[l] = d
    BY DEF SetsKey
  <2>3. l # k => Dict'[l] \in seen[q][l]
    BY <1>2 DEF SetsKey
  <2> QED
    BY <2>1, <2>2, <2>3
<1>5. seen'[q] = [seen[q] EXCEPT ![k] = @ \cup {d}]
  BY <1>1, <1>4
<1>6. gone'[q] <=> (gone[q] \/ (Dict[n] # Absent /\ Dict'[n] = Absent))
  BY DEF SetsKey
<1>7. (Dict[n] # Absent /\ Dict'[n] = Absent) <=> (k = n /\ d = Absent /\ Dict[k] # Absent)
  BY <1>3 DEF SetsKey
<1>8. gone'[q] = (gone[q] \/ (k = n /\ d = Absent /\ Dict[k] # Absent))
  BY <1>1, <1>6, <1>7
<1> QED
  BY <1>1, <1>3, <1>5, <1>8

LEMMA LearnsView ==
    ASSUME Core, Core', NEW k, NEW d, SetsKey(k, d), NEW q \in Proc, pc[q] # "idle",
           NEW o, NEW n, NEW a, NEW b, NEW x, NEW e, n = loc[q].key, o # "idle",
           e = Rec(o, n, a, gone[q], seen[q], b, x)
    PROVE  D!Learn(e, k, d) = Rec(o, n, a, gone'[q], seen'[q], b, x)
<1>1. PICK s, t, g, h, z : /\ s = seen[q] /\ t = seen'[q] /\ g = gone[q] /\ h = gone'[q]
                           /\ z = (k = n /\ d = Absent /\ Dict[k] # Absent)
  OBVIOUS
<1>2. t = [s EXCEPT ![k] = @ \cup {d}] /\ h = (g \/ z)
  BY <1>1, LearnsSeen
<1>3. e \in RecSet(o, n, a, g, s, b, x)
  BY <1>1, RecIn
<1>4. e.op = o /\ e.key = n
  BY <1>3, RecOnly
<1>5. PICK y : y = [e EXCEPT !.seen[k] = @ \cup {d}, !.gone = @ \/ z]
  OBVIOUS
<1>6. y \in RecSet(o, n, a, h, t, b, x)
  BY <1>2, <1>3, <1>5 DEF RecSet
<1>7. y = Rec(o, n, a, h, t, b, x)
  BY <1>6, RecOnly
<1>8. D!Learn(e, k, d) = [e EXCEPT !.seen[k] = @ \cup {d},
                                   !.gone = @ \/ (k = e.key /\ d = Absent /\ Dict[k] # Absent)]
  BY <1>4 DEF D!Learn
<1>9. D!Learn(e, k, d) = y
  BY <1>1, <1>4, <1>5, <1>8
<1> QED
  BY <1>1, <1>7, <1>9
LEMMA UnderWay ==
    ASSUME NEW p \in Proc, NEW at, NEW v, at = pc[p], v = loc[p], at # "idle"
    PROVE  /\ AbsCalls[p].op = v.op /\ AbsCalls[p].key = v.key /\ AbsCalls[p].data = v.data
           /\ AbsCalls[p].seen = seen[p] /\ AbsCalls[p].gone = gone[p]
           /\ ~DoneAt(at, v) => ~AbsCalls[p].done
           /\ DoneAt(at, v) => AbsCalls[p].done
<1>1. PICK e, g, s, b, x : /\ e = AbsCalls[p] /\ g = gone[p] /\ s = seen[p]
                           /\ b = DoneAt(at, v) /\ x = ResAt(at, v)
  OBVIOUS
<1>2. e = Rec(v.op, v.key, v.data, g, s, b, x)
  BY <1>1, ViewIs DEF View
<1>3. PICK o, k, d : o = v.op /\ k = v.key /\ d = v.data
  OBVIOUS
<1>4. e \in RecSet(o, k, d, g, s, b, x)
  BY <1>2, <1>3, RecIn
<1>5. e.op = o /\ e.key = k /\ e.data = d /\ e.seen = s /\ e.gone = g /\ e.done = b
  BY <1>4, RecOnly
<1> QED
  BY <1>1, <1>3, <1>5

LEMMA OthersLearn ==
    ASSUME Core, Core', NEW p \in Proc, Others(p), NEW k, NEW d, SetsKey(k, d),
           NEW q \in Proc, q # p
    PROVE  AbsCalls'[q] = D!Learn(AbsCalls[q], k, d)
<1>1. PICK at, v, e : at = pc[q] /\ v = loc[q] /\ e = AbsCalls[q]
  OBVIOUS
<1>2. at = pc'[q] /\ v = loc'[q]
  BY <1>1 DEF Others
<1>3. CASE at = "idle"
  <2>1. e = Idle /\ AbsCalls'[q] = Idle
    BY <1>1, <1>2, <1>3, ViewIs DEF View
  <2>2. D!Learn(e, k, d) = e
    BY <2>1 DEF D!Learn, Idle
  <2> QED
    BY <1>1, <2>1, <2>2
<1>4. CASE at # "idle"
  <2>1. PICK o, n, a, b, x : /\ o = v.op /\ n = v.key /\ a = v.data
                             /\ b = DoneAt(at, v) /\ x = ResAt(at, v)
    OBVIOUS
  <2>2. e = Rec(o, n, a, gone[q], seen[q], b, x)
    BY <1>1, <1>4, <2>1, ViewIs DEF View
  <2>3. AbsCalls'[q] = Rec(o, n, a, gone'[q], seen'[q], b, x)
    BY <1>2, <1>4, <2>1, ViewIs DEF View
  <2>4. o # "idle" /\ n = loc[q].key /\ pc[q] # "idle"
    BY <1>1, <1>4, <2>1, LocsOf DEF Core, CallTypes, CallType, Op
  <2>5. D!Learn(e, k, d) = Rec(o, n, a, gone'[q], seen'[q], b, x)
    BY <2>2, <2>4, LearnsView
  <2> QED
    BY <1>1, <2>3, <2>5
<1> QED
  BY <1>3, <1>4

LEMMA TakesEffect ==
    ASSUME Core, Core', NEW p \in Proc, Others(p), NEW k, NEW d, SetsKey(k, d),
           NEW at, NEW v, NEW to, NEW w, at = pc[p], v = loc[p], to = pc'[p], w = loc'[p],
           at # "idle", to # "idle", w.op = v.op, w.key = v.key, w.data = v.data,
           DoneAt(to, w), ResAt(to, w) = 1
    PROVE  D!SetKey(k, d, p, 1)
<1>1. PICK e, f, o, n, a, b, x, g, s, c :
          /\ e = AbsCalls[p] /\ f = AbsCalls'[p] /\ o = v.op /\ n = v.key /\ a = v.data
          /\ b = DoneAt(at, v) /\ x = ResAt(at, v) /\ g = gone'[p] /\ s = seen'[p]
          /\ c = D!Learn(e, k, d)
  OBVIOUS
<1>2. e = Rec(o, n, a, gone[p], seen[p], b, x)
  BY <1>1, ViewIs DEF View
<1>3. PICK h : h = TRUE
  OBVIOUS
<1>4. h = DoneAt(to, w)
  BY <1>3 DEF DoneAt
<1>5. f = Rec(o, n, a, g, s, h, 1)
  <2>1. f = View(to, w, g, s)
    BY <1>1, ViewIs
  <2> QED
    BY <1>1, <1>4, <2>1 DEF View
<1>6. o # "idle" /\ n = loc[p].key /\ pc[p] # "idle"
  BY <1>1, LocsOf DEF Core, CallTypes, CallType, Op
<1>7. c = Rec(o, n, a, g, s, b, x)
  <2>1. D!Learn(e, k, d) = Rec(o, n, a, gone'[p], seen'[p], b, x)
    BY <1>2, <1>6, LearnsView
  <2> QED
    BY <1>1, <2>1
<1>8. c \in RecSet(o, n, a, g, s, b, x)
  BY <1>7, RecIn
<1>9. PICK y : y = [c EXCEPT !.done = TRUE, !.res = 1]
  OBVIOUS
<1>10. y \in RecSet(o, n, a, g, s, h, 1)
  BY <1>3, <1>8, <1>9 DEF RecSet
<1>11. y = f
  BY <1>5, <1>10, RecOnly
<1>12. \A q \in Proc : q # p => AbsCalls'[q] = D!Learn(AbsCalls[q], k, d)
  BY OthersLearn
<1>13. AbsCalls' = [q \in Proc |->
                       IF q = p THEN [D!Learn(AbsCalls[p], k, d) EXCEPT !.done = TRUE, !.res = 1]
                                ELSE D!Learn(AbsCalls[q], k, d)]
  BY <1>1, <1>9, <1>11, <1>12, AbsFun DEF CallsAre
<1>14. Dict' = [Dict EXCEPT ![k] = d]
  <2>1. Dict = [l \in Key |-> Dict[l]]
    BY DEF Dict
  <2>2. Dict' = [l \in Key |-> Dict'[l]]
    BY DEF Dict
  <2> QED
    BY <2>1, <2>2 DEF SetsKey
<1> QED
  BY <1>13, <1>14 DEF D!SetKey
-----------------------------------------------------------------------------
(* The steps of the calls, as the dictionary sees them. *)
Shown == D!Next \/ UNCHANGED D!vars
LEMMA OneMoves ==
    ASSUME NEW p \in Proc, Others(p), NEW e, e = AbsCalls'[p],
           \A q \in Proc : q # p => seen'[q] = seen[q] /\ gone'[q] = gone[q]
    PROVE  AbsCalls' = [AbsCalls EXCEPT ![p] = e]
BY OthersView, AbsFun DEF CallsAre

LEMMA ShowCall ==
    ASSUME Core, NEW p \in Proc, Call(p)
    PROVE  Shown
<1> USE Constants
<1>1. Others(p) /\ Dict' = Dict
  BY CallStepOK, Same
<1>2. PICK op \in Op, k \in Key, d \in Data \cup {Absent} :
          /\ op = "insert" <=> d # Absent
          /\ loc' = [loc EXCEPT ![p] = Locals(op, k, d)]
          /\ pc' = [pc EXCEPT ![p] = IF op \in {"insert", "remove"} THEN "find" ELSE "lookup"]
  BY DEF Call, Set, Goto, Op
<1>3. PICK w, to : w = Locals(op, k, d)
                   /\ to = IF op \in {"insert", "remove"} THEN "find" ELSE "lookup"
  OBVIOUS
<1>4. loc'[p] = w /\ pc'[p] = to /\ to \in {"find", "lookup"}
  BY <1>2, <1>3, LocNext, PcNext DEF Core
<1>5. /\ w.op = op /\ w.key = k /\ w.data = d /\ w.cell = None
  BY <1>3, LocalsIn
<1>6. pc[p] = "idle" /\ gone' = gone /\ seen' = [seen EXCEPT ![p] = [l \in Key |-> {Dict[l]}]]
  BY DEF Call
<1>7. gone[p] = FALSE /\ seen \in [Proc -> [Key -> SUBSET (Data \cup {Absent})]]
  BY <1>6 DEF Core, SeenInv, SeenOK, CallTypes
<1>8. PICK g, s, e, b, x : /\ g = gone'[p] /\ s = seen'[p] /\ e = AbsCalls'[p]
                           /\ b = DoneAt(to, w) /\ x = ResAt(to, w)
  OBVIOUS
<1>9. g = FALSE /\ s = [l \in Key |-> {Dict[l]}]
  BY <1>6, <1>7, <1>8
<1>10. b = FALSE /\ x = Absent
  BY <1>4, <1>5, <1>8 DEF DoneAt, ResAt
<1>11. e = Rec(op, k, d, g, s, b, x)
  BY <1>4, <1>5, <1>8, ViewIs DEF View
<1>12. e = [op |-> op, key |-> k, data |-> d, gone |-> FALSE, seen |-> [l \in Key |-> {Dict[l]}],
            done |-> FALSE, res |-> Absent]
  BY <1>9, <1>10, <1>11 DEF Rec
<1>13. \A q \in Proc : q # p => seen'[q] = seen[q] /\ gone'[q] = gone[q]
  BY <1>6, <1>7
<1>14. AbsCalls' = [AbsCalls EXCEPT ![p] = e]
  BY <1>1, <1>8, <1>13, OneMoves
<1>15. AbsCalls[p] = D!Idle
  <2>1. PICK at, v : at = pc[p] /\ v = loc[p]
    OBVIOUS
  <2>2. AbsCalls[p] = View(at, v, gone[p], seen[p])
    BY <2>1, ViewIs
  <2> QED
    BY <2>1, <2>2, <1>6 DEF View, Idle, D!Idle
<1>16. D!Call(p)
  <2>1. op \in D!Op
    BY DEF D!Op, Op
  <2> QED
    BY <2>1, <1>1, <1>2, <1>12, <1>14, <1>15 DEF D!Call
<1> QED
  BY <1>16 DEF Shown, D!Next

LEMMA ShowReturn ==
    ASSUME Core, NEW p \in Proc, Return(p)
    PROVE  Shown
<1>1. Others(p) /\ Dict' = Dict
  BY ReturnOK, Same
<1>2. /\ pc[p] = "return" /\ pc' = [pc EXCEPT ![p] = "idle"]
      /\ seen' = [seen EXCEPT ![p] = [k \in Key |-> {}]]
      /\ gone' = [gone EXCEPT ![p] = FALSE]
  BY DEF Return, Goto
<1>3. pc'[p] = "idle"
  BY <1>2, PcNext DEF Core
<1>4. \A q \in Proc : q # p => seen'[q] = seen[q] /\ gone'[q] = gone[q]
  BY <1>2 DEF Core, CallTypes
<1>5. PICK at, to, v, w, e : /\ at = pc[p] /\ to = pc'[p] /\ v = loc[p] /\ w = loc'[p]
                             /\ e = AbsCalls'[p]
  OBVIOUS
<1>6. e = D!Idle
  <2>1. e = View(to, w, gone'[p], seen'[p])
    BY <1>5, ViewIs
  <2> QED
    BY <2>1, <1>3, <1>5 DEF View, Idle, D!Idle
<1>7. AbsCalls' = [AbsCalls EXCEPT ![p] = e]
  BY <1>1, <1>4, <1>5, OneMoves
<1>8. AbsCalls[p].done /\ AbsCalls[p].op = v.op
  BY <1>2, <1>5, UnderWay DEF DoneAt
<1>9. AbsCalls[p] # D!Idle
  <2>1. v.op \in Op
    BY <1>2, <1>5, LocsOf DEF Core, CallTypes, CallType
  <2> QED
    BY <1>8, <2>1 DEF Op, D!Idle
<1>10. D!Return(p)
  BY <1>1, <1>6, <1>7, <1>8, <1>9 DEF D!Return
<1> QED
  BY <1>10 DEF Shown, D!Next
LEMMA ShowSame ==
    ASSUME Core, NEW p \in Proc, Silent(p), NEW at, NEW v, NEW to, NEW w,
           at = pc[p], v = loc[p], to = pc'[p], w = loc'[p], at # "idle", to # "idle",
           w.op = v.op, w.key = v.key, w.data = v.data,
           DoneAt(to, w) <=> DoneAt(at, v), at # "return", to = "return" => w.res = ResAt(at, v)
    PROVE  Shown
BY SameView DEF ResAt, Shown
\* A search or a walk goes on.
Going(at) == at \notin {"idle", "return", "bump", "raise"}
LEMMA ShowSearch ==
    ASSUME Core, NEW p \in Proc, Silent(p), NEW at, NEW v, NEW to, NEW w,
           at = pc[p], v = loc[p], to = pc'[p], w = loc'[p], Going(at), Going(to),
           w.op = v.op, w.key = v.key, w.data = v.data, w.cell = v.cell, w.up = v.up,
           {at, to} \cap {"extract", "mark", "lost"} = {}
    PROVE  Shown
<1>1. DoneAt(to, w) <=> DoneAt(at, v)
  BY DEF DoneAt, Going
<1> QED
  BY <1>1, ShowSame DEF Going

LEMMA ShowFindStep ==
    ASSUME Core, NEW p \in Proc,
           FindStart(p) \/ FindLoad(p) \/ FindSnip(p) \/ FindClaim(p) \/ FindPush(p) \/ FindPublish(p)
    PROVE  Shown
<1>1. PICK at, v, to, w : at = pc[p] /\ v = loc[p] /\ to = pc'[p] /\ w = loc'[p]
  OBVIOUS
<1>2. at \in {"find", "load", "snip", "claim", "push", "publish"}
  BY <1>1 DEF FindStart, FindLoad, FindSnip, FindClaim, FindPush, FindPublish
<1>3. to \in {"find", "load", "next", "claim", "push", "publish"}
  <2>1. PICK x \in {"find", "load", "next", "claim", "push", "publish"} :
            pc' = [pc EXCEPT ![p] = x]
    BY DEF FindStart, FindLoad, FindSnip, FindClaim, FindPush, FindPublish, Goto
  <2> QED
    BY <1>1, <2>1, PcNext DEF Core
<1>4. Silent(p)
  <2>1. CASE FindSnip(p) /\ SnipSucceeds(p)
    BY <2>1, SnipOK DEF Silent
  <2>2. CASE ~(FindSnip(p) /\ SnipSucceeds(p))
    BY <2>2, FindStartOK, FindLoadOK, SnipStay, FindClaimOK, FindPushOK, FindPublishOK,
       MovedSilent
  <2> QED
    BY <2>1, <2>2
<1>5. v \in Locs
  BY <1>1, <1>2, SearchFacts
<1>6. w.op = v.op /\ w.key = v.key /\ w.data = v.data /\ w.cell = v.cell /\ w.up = v.up
  <2>1. CASE FindStart(p)
    <3>1. PICK x : x = [v EXCEPT !.pred = Head, !.level = TopLevel]
      OBVIOUS
    <3>2. w = x
      BY <1>1, <2>1, <3>1, LocNext DEF FindStart, Set, Core
    <3> QED
      BY <1>5, <3>1, <3>2 DEF Locs
  <2>2. CASE FindLoad(p)
    <3>1. PICK x, c : x = [v EXCEPT !.curr = c] /\ c = Ptr(v.pred, v.level)
      OBVIOUS
    <3>2. w = x
      BY <1>1, <2>2, <3>1, LocNext DEF FindLoad, Set, Core
    <3> QED
      BY <1>5, <3>1, <3>2 DEF Locs
  <2>3. CASE FindSnip(p) \/ FindClaim(p) \/ FindPush(p) \/ FindPublish(p)
    BY <1>1, <2>3 DEF FindSnip, FindClaim, FindPush, FindPublish
  <2> QED
    BY <2>1, <2>2, <2>3
<1> QED
  BY <1>1, <1>2, <1>3, <1>4, <1>6, ShowSearch DEF Going
\* A lookup is not done before it returns.
LEMMA LookupWaits ==
    ASSUME NEW at \in {"lookup", "enter", "walk", "read"}, NEW v, v.op \in {"find", "find_below"}
    PROVE  ~DoneAt(at, v)
BY DEF DoneAt
LEMMA ShowLookup ==
    ASSUME Core, NEW p \in Proc, Moved(p), NEW v, v = loc[p], NEW w, w = loc'[p],
           pc[p] \in {"lookup", "enter", "walk", "read"},
           pc'[p] \in {"lookup", "enter", "walk", "read"},
           w.op = v.op, w.key = v.key, w.data = v.data
    PROVE  Shown
<1>1. PICK at, to : at = pc[p] /\ to = pc'[p]
  OBVIOUS
<1>2. v.op \in {"find", "find_below"}
  BY SearchFacts, PcIs, LocsOf
<1>3. ~DoneAt(at, v) /\ ~DoneAt(to, w)
  BY <1>1, <1>2, LookupWaits
<1> QED
  BY <1>1, <1>3, MovedSilent, ShowSame

\* The answer to a call that reads its key only.
LEMMA ShowAnswer ==
    ASSUME Core, NEW p \in Proc, Moved(p), NEW at, NEW v, NEW w,
           at = pc[p], v = loc[p], w = loc'[p], at # "idle", pc'[p] = "return",
           w.op = v.op, w.key = v.key, w.data = v.data, ~DoneAt(at, v),
           \/ v.op = "remove" /\ w.res = 0 /\ Absent \in seen[p][v.key]
           \/ v.op = "find" /\ w.res \in seen[p][v.key]
           \/ /\ v.op = "find_below" /\ w.res = Absent
              /\ \A k \in Key : k <= v.key => Absent \in seen[p][k]
           \/ /\ v.op = "find_below"
              /\ \E k \in Key, d \in Data :
                    /\ w.res = <<k, d>> /\ k <= v.key /\ d \in seen[p][k]
                    /\ \A l \in Key : k < l /\ l <= v.key => Absent \in seen[p][l]
    PROVE  Shown
<1>1. PICK r : r = w.res
  OBVIOUS
<1>2. D!Answer(p, r)
  BY <1>1, MovedSilent, Answered
<1>3. /\ AbsCalls[p].op = v.op /\ AbsCalls[p].key = v.key /\ AbsCalls[p].seen = seen[p]
      /\ ~AbsCalls[p].done
  BY UnderWay
<1>4. CASE v.op = "remove" /\ w.res = 0 /\ Absent \in seen[p][v.key]
  <2>1. D!RemoveNothing(p)
    BY <1>1, <1>2, <1>3, <1>4 DEF D!RemoveNothing, D!Running
  <2> QED
    BY <2>1 DEF Shown, D!Next
<1>5. CASE v.op = "find" /\ w.res \in seen[p][v.key]
  <2>1. D!Find(p)
    BY <1>1, <1>2, <1>3, <1>5 DEF D!Find, D!Running
  <2> QED
    BY <2>1 DEF Shown, D!Next
<1>6. CASE /\ v.op = "find_below" /\ w.res = Absent
           /\ \A k \in Key : k <= v.key => Absent \in seen[p][k]
  <2>1. D!FindBelow(p)
    BY <1>1, <1>2, <1>3, <1>6 DEF D!FindBelow, D!Running
  <2> QED
    BY <2>1 DEF Shown, D!Next
<1>7. CASE /\ v.op = "find_below"
           /\ \E k \in Key, d \in Data :
                 /\ w.res = <<k, d>> /\ k <= v.key /\ d \in seen[p][k]
                 /\ \A l \in Key : k < l /\ l <= v.key => Absent \in seen[p][l]
  <2>1. PICK k \in Key, d \in Data :
            /\ r = <<k, d>> /\ k <= v.key /\ d \in seen[p][k]
            /\ \A l \in Key : k < l /\ l <= v.key => Absent \in seen[p][l]
    BY <1>1, <1>7
  <2>2. d # Absent
    BY Constants
  <2>3. D!FindBelow(p)
    BY <1>2, <1>3, <1>7, <2>1, <2>2 DEF D!FindBelow, D!Running
  <2> QED
    BY <2>3 DEF Shown, D!Next
<1> QED
  BY <1>4, <1>5, <1>6, <1>7

LEMMA ShowRead ==
    ASSUME Core, NEW p \in Proc, ReadData(p)
    PROVE  Shown
<1>1. PICK v, d, r, c, n : /\ v = loc[p] /\ c = v.cell /\ d = data[c] /\ n = key[c]
                           /\ r = IF v.op = "find" THEN d ELSE <<n, d>>
  OBVIOUS
<1>2. PICK w : w = [v EXCEPT !.cell = None, !.res = r]
  OBVIOUS
<1>3. /\ pc[p] = "read" /\ v \in Locs /\ ReadOK(p, v) /\ CallType(p)
      /\ pc' = [pc EXCEPT ![p] = "return"] /\ loc' = [loc EXCEPT ![p] = w]
  BY <1>1, <1>2, SearchFacts DEF ReadData, Goto, Set, CallOK, CallAt
<1>4. pc'[p] = "return" /\ loc'[p] = w
  BY <1>3, LocNext, PcNext DEF Core
<1>5. w.op = v.op /\ w.key = v.key /\ w.data = v.data /\ w.res = r
  BY <1>2, <1>3 DEF Locs
<1>6. v.op \in {"find", "find_below"}
  BY <1>1, <1>3, LocsOf, PcIs DEF CallType
<1>7. d \in seen[p][n] /\ d \in Data /\ n \in Key /\ n \in Nat /\ v.key \in Nat
  BY <1>1, <1>3, CoreHeap, LocsOf, Constants DEF ReadOK, HeapFacts, DataSeen
<1>8. CASE v.op = "find"
  <2>1. w.res \in seen[p][v.key]
    BY <1>1, <1>3, <1>5, <1>7, <1>8 DEF ReadOK
  <2> QED
    BY <1>1, <1>3, <1>4, <1>5, <1>6, <1>8, <2>1, ReadDataOK, LookupWaits, ShowAnswer
<1>9. CASE v.op = "find_below"
  <2>1. w.res = <<n, d>> /\ n <= v.key
    BY <1>1, <1>3, <1>5, <1>9 DEF ReadOK
  <2>2. \A l \in Key : n < l /\ l <= v.key => Absent \in seen[p][l]
    <3>1. GapSeen(p, n, v.key + 1)
      BY <1>1, <1>3, <1>9 DEF ReadOK
    <3>2. PICK e : e = v.key
      OBVIOUS
    <3>3. \A l \in Key : n < l /\ l < e + 1 => Absent \in seen[p][l]
      BY <3>1, <3>2 DEF GapSeen
    <3>4. e \in Nat /\ \A l \in Key : l \in Nat
      BY <1>7, <3>2, Constants
    <3>5. \A l \in Key : l <= e => l < e + 1
      BY <3>4
    <3> QED
      BY <3>2, <3>3, <3>5
  <2>3. \E k \in Key, x \in Data :
            /\ w.res = <<k, x>> /\ k <= v.key /\ x \in seen[p][k]
            /\ \A l \in Key : k < l /\ l <= v.key => Absent \in seen[p][l]
    BY <1>7, <2>1, <2>2
  <2>4. PICK at : at = pc[p]
    OBVIOUS
  <2>5. ~DoneAt(at, v)
    BY <1>3, <1>6, <2>4, LookupWaits
  <2> QED
    BY <1>1, <1>3, <1>4, <1>5, <1>9, <2>3, <2>4, <2>5, ReadDataOK, ShowAnswer
<1> QED
  BY <1>6, <1>8, <1>9
LEMMA ShowLookupReturn ==
    ASSUME Core, NEW p \in Proc, NEW v, WalkFacts(p, v), v.level = 0, ~Marked(v.curr, 0),
           ~(key[v.curr] < v.key), LookupReturn(p, v)
    PROVE  Shown
<1> USE Constants DEF WalkFacts
<1>1. Moved(p)
  BY LookupWalkReturn
<1>2. PICK f : f = Forget(v)
  OBVIOUS
<1>3. /\ f \in Locs /\ f.op = v.op /\ f.key = v.key /\ f.data = v.data /\ f.res = v.res
  BY <1>2, ForgetIs
<1>4. v.op \in {"find", "find_below"}
  BY LocsOf, PcIs DEF CallType
<1>5. CASE key[v.curr] = v.key \/ (v.op = "find_below" /\ v.pred # Head)
  <2>1. PICK c, w : /\ c = IF key[v.curr] = v.key THEN v.curr ELSE v.pred
                    /\ w = [f EXCEPT !.cell = c]
    OBVIOUS
  <2>2. loc' = [loc EXCEPT ![p] = w] /\ pc' = [pc EXCEPT ![p] = "read"]
    BY <1>2, <1>5, <2>1 DEF LookupReturn, Set, Goto
  <2>3. loc'[p] = w /\ pc'[p] = "read"
    BY <2>2, LocNext, PcNext DEF Core
  <2>4. w.op = v.op /\ w.key = v.key /\ w.data = v.data
    BY <1>3, <2>1 DEF Locs
  <2> QED
    BY <1>1, <2>3, <2>4, ShowLookup
<1>6. CASE ~(key[v.curr] = v.key \/ (v.op = "find_below" /\ v.pred # Head))
  <2>1. loc' = [loc EXCEPT ![p] = f] /\ pc' = [pc EXCEPT ![p] = "return"]
    BY <1>2, <1>6 DEF LookupReturn, Set, Goto
  <2>2. loc'[p] = f /\ pc'[p] = "return"
    BY <2>1, LocNext, PcNext DEF Core
  <2>3. /\ Absent \in seen[p][v.key] /\ GapSeen(p, key[v.pred], v.key + 1)
        /\ v.key \in Key /\ v.key \in Nat
    BY <1>6, WalkEnd
  <2>4. f.res = Absent
    BY <1>3 DEF LookupOK
  <2>5. PICK at : at = pc[p]
    OBVIOUS
  <2>6. ~DoneAt(at, v) /\ at # "idle"
    BY <1>4, <2>5, LookupWaits
  <2>7. CASE v.op = "find"
    BY <1>1, <1>3, <2>2, <2>3, <2>4, <2>5, <2>6, <2>7, ShowAnswer
  <2>8. CASE v.op = "find_below"
    <3>1. v.pred = Head /\ key[Head] = 0
      BY <1>6, <2>8, CoreHeap DEF HeapFacts
    <3>2. \A k \in Key : k <= v.key => Absent \in seen[p][k]
      BY <2>3, <3>1, Constants DEF GapSeen
    <3> QED
      BY <1>1, <1>3, <2>2, <2>4, <2>5, <2>6, <2>8, <3>2, ShowAnswer
  <2> QED
    BY <1>4, <2>7, <2>8
<1> QED
  BY <1>5, <1>6

LEMMA ShowWalk ==
    ASSUME Core, NEW p \in Proc, LookupStart(p) \/ LookupEnter(p) \/ LookupWalk(p)
    PROVE  Shown
<1>1. PICK v : v = loc[p]
  OBVIOUS
<1>2. Moved(p)
  BY LookupStartOK, LookupEnterOK, LookupWalkOK
<1>3. pc[p] \in {"lookup", "enter", "walk"} /\ v \in Locs
  BY <1>1, SearchFacts DEF LookupStart, LookupEnter, LookupWalk
<1>4. CASE \E to \in {"enter", "walk"} : \E w :
              /\ pc'[p] = to /\ loc'[p] = w /\ w.op = v.op /\ w.key = v.key /\ w.data = v.data
  BY <1>1, <1>2, <1>3, <1>4, ShowLookup
<1>5. CASE LookupStart(p)
  <2>1. PICK w, n : n = search_level /\ w = [v EXCEPT !.level = n]
    OBVIOUS
  <2>2. loc'[p] = w /\ pc'[p] = "enter"
    BY <1>1, <1>5, <2>1, LocNext, PcNext DEF LookupStart, Set, Goto, Core
  <2>3. w.op = v.op /\ w.key = v.key /\ w.data = v.data
    BY <1>3, <2>1 DEF Locs
  <2> QED
    BY <1>4, <2>2, <2>3
<1>6. CASE LookupEnter(p)
  <2>1. PICK w, c : c = Ptr(v.pred, v.level) /\ w = [v EXCEPT !.curr = c]
    OBVIOUS
  <2>2. loc'[p] = w /\ pc'[p] = "walk"
    BY <1>1, <1>6, <2>1, LocNext, PcNext DEF LookupEnter, Set, Goto, Core
  <2>3. w.op = v.op /\ w.key = v.key /\ w.data = v.data
    BY <1>3, <2>1 DEF Locs
  <2> QED
    BY <1>4, <2>2, <2>3
<1>7. CASE LookupWalk(p)
  <2>1. pc[p] = "walk"
    BY <1>7 DEF LookupWalk
  <2>2. PICK c, d, n : c = v.curr /\ d = Ptr(v.curr, v.level) /\ n = v.level - 1
    OBVIOUS
  <2>3. CASE Marked(v.curr, v.level)
    <3>1. PICK w : w = [v EXCEPT !.curr = d]
      OBVIOUS
    <3>2. loc'[p] = w /\ pc'[p] = "walk"
      BY <1>1, <1>7, <2>1, <2>2, <2>3, <3>1, LocNext
         DEF LookupWalk, SkipMarked, SkipTo, Set, Core
    <3>3. w.op = v.op /\ w.key = v.key /\ w.data = v.data
      BY <1>3, <3>1 DEF Locs
    <3> QED
      BY <1>4, <3>2, <3>3
  <2>4. CASE ~Marked(v.curr, v.level) /\ key[v.curr] < v.key
    <3>1. PICK w : w = [v EXCEPT !.pred = c, !.curr = d]
      OBVIOUS
    <3>2. loc'[p] = w /\ pc'[p] = "walk"
      BY <1>1, <1>7, <2>1, <2>2, <2>4, <3>1, LocNext
         DEF LookupWalk, SkipMarked, Before, Set, Core
    <3>3. w.op = v.op /\ w.key = v.key /\ w.data = v.data
      BY <1>3, <3>1 DEF Locs
    <3> QED
      BY <1>4, <3>2, <3>3
  <2>5. CASE ~Marked(v.curr, v.level) /\ ~(key[v.curr] < v.key)
    <3>1. \/ v.level > 0 /\ Set(p, [v EXCEPT !.level = v.level - 1]) /\ Goto(p, "enter")
          \/ v.level = 0 /\ LookupReturn(p, v)
      BY <1>1, <1>7, <2>5 DEF LookupWalk, Before, SkipMarked
    <3>2. CASE v.level > 0 /\ Set(p, [v EXCEPT !.level = v.level - 1]) /\ Goto(p, "enter")
      <4>1. PICK w : w = [v EXCEPT !.level = n]
        OBVIOUS
      <4>2. loc'[p] = w /\ pc'[p] = "enter"
        BY <1>1, <2>2, <3>2, <4>1, LocNext, PcNext DEF Set, Goto, Core
      <4>3. w.op = v.op /\ w.key = v.key /\ w.data = v.data
        BY <1>3, <4>1 DEF Locs
      <4> QED
        BY <1>4, <4>2, <4>3
    <3>3. CASE v.level = 0 /\ LookupReturn(p, v)
      BY <1>1, <1>7, <2>1, <2>5, <3>3, SearchFacts, ShowLookupReturn DEF LookupWalk,
         Keeps, cells, history, WalkFacts, CallOK, CallAt
    <3> QED
      BY <3>1, <3>2, <3>3
  <2> QED
    BY <2>3, <2>4, <2>5
<1> QED
  BY <1>5, <1>6, <1>7
LEMMA ShowFound ==
    ASSUME Core, NEW p \in Proc, NEW v, NextIs(p, v), NextFound(p, v, HereAt(v))
    PROVE  Shown
<1>1. PICK h, w, to, at : h = HereAt(v) /\ w = loc'[p] /\ to = pc'[p] /\ at = pc[p]
  OBVIOUS
<1>2. FoundFacts(p, v, h) /\ Moved(p) /\ v = loc[p] /\ v \in Locs /\ at = "next"
  BY <1>1, NextLoc DEF NextIs, NextFound
<1>3. /\ h \in Locs /\ h.op = v.op /\ h.key = v.key /\ h.cell = v.cell /\ h.up = v.up
      /\ h.data = v.data
      /\ key[v.curr] # v.key => Absent \in seen[p][v.key]
      /\ v.curr \in AnyCell
  BY <1>2, FoundIs
<1>4. Silent(p)
  BY <1>2, MovedSilent
<1>5. PICK f, g : f = Forget(h) /\ g = ForgetAll(h)
  OBVIOUS
<1>6. /\ f.op = v.op /\ f.key = v.key /\ f.data = v.data /\ f.cell = v.cell /\ f.up = v.up
      /\ g.op = v.op /\ g.key = v.key /\ g.data = v.data /\ g.cell = v.cell
      /\ g \in Locs
  BY <1>3, <1>5, ForgetIs
<1>7. CASE /\ v.op = "insert" /\ loc'[p] = Forget(h)
           /\ pc'[p] = IF v.cell # None THEN "link" ELSE IF key[v.curr] = v.key THEN "update" ELSE "alloc"
  <2>1. to \in {"link", "update", "alloc"} /\ w = f
    BY <1>1, <1>5, <1>7
  <2> QED
    BY <1>1, <1>2, <1>4, <1>6, <2>1, ShowSearch DEF Going
<1>8. CASE /\ v.op = "remove" /\ v.cell = None /\ key[v.curr] = v.key /\ pc'[p] = "extract"
           /\ loc'[p] = [ForgetAll(h) EXCEPT !.cell = v.curr, !.up = FirstMarked(v.curr)]
  <2>1. PICK c, n : c = v.curr /\ n = FirstMarked(v.curr)
    OBVIOUS
  <2>2. w = [g EXCEPT !.cell = c, !.up = n]
    BY <1>1, <1>5, <1>8, <2>1
  <2>3. w.op = v.op /\ w.key = v.key /\ w.data = v.data
    BY <1>6, <2>2 DEF Locs
  <2>4. at = "next" /\ to = "extract"
    BY <1>1, <1>2, <1>8
  <2>5. ~DoneAt(at, v) /\ ~DoneAt(to, w)
    BY <1>8, <2>3, <2>4 DEF DoneAt
  <2>6. at # "idle" /\ to # "idle" /\ at # "return" /\ to # "return"
    BY <2>4
  <2> QED
    BY <1>1, <1>2, <1>4, <2>3, <2>5, <2>6, ShowSame
<1>9. CASE /\ v.op = "remove" /\ (v.cell # None \/ key[v.curr] # v.key) /\ pc'[p] = "return"
           /\ loc'[p] = [ForgetAll(h) EXCEPT !.res = IF v.cell # None THEN 1 ELSE 0, !.cell = None]
  <2>1. PICK r : r = IF v.cell # None THEN 1 ELSE 0
    OBVIOUS
  <2>2. w = [g EXCEPT !.res = r, !.cell = None]
    BY <1>1, <1>5, <1>9, <2>1
  <2>3. w.op = v.op /\ w.key = v.key /\ w.data = v.data /\ w.res = r
    BY <1>6, <2>2 DEF Locs
  <2>4. CASE v.cell # None
    <3>1. DoneAt(at, v) /\ DoneAt(to, w) /\ ResAt(at, v) = 1 /\ w.res = 1
      BY <1>1, <1>2, <1>9, <2>1, <2>3, <2>4 DEF DoneAt, ResAt
    <3> QED
      BY <1>1, <1>2, <1>4, <1>9, <2>3, <3>1, ShowSame, ZenonT(60)
  <2>5. CASE v.cell = None
    <3>1. w.res = 0
      BY <2>1, <2>3, <2>5
    <3>2. ~DoneAt(at, v)
      BY <1>2, <1>9, <2>5 DEF DoneAt
    <3>3. Absent \in seen[p][v.key]
      BY <1>3, <1>9, <2>5
    <3> QED
      BY <1>1, <1>2, <1>9, <2>3, <3>1, <3>2, <3>3, ShowAnswer
  <2> QED
    BY <2>4, <2>5
<1> QED
  BY <1>1, <1>7, <1>8, <1>9 DEF NextFound

LEMMA ShowNext ==
    ASSUME Core, NEW p \in Proc, FindNext(p)
    PROVE  Shown
<1>1. PICK v, w, to, at : v = loc[p] /\ w = loc'[p] /\ to = pc'[p] /\ at = pc[p]
  OBVIOUS
<1>2. NextIs(p, v)
  BY <1>1, FindNextIs
<1>3. Moved(p) /\ v \in Locs /\ at = "next"
  BY <1>1, <1>2, NextLoc DEF NextIs
<1>4. CASE NextFound(p, v, HereAt(v))
  BY <1>2, <1>4, ShowFound
<1>5. CASE NextSnip(p, v) \/ NextOn(p, v) \/ NextDown(p, v)
  <2>1. to \in {"snip", "next", "load"}
    BY <1>1, <1>5 DEF NextSnip, NextOn, NextDown
  <2>2. w.op = v.op /\ w.key = v.key /\ w.data = v.data /\ w.cell = v.cell
    BY <1>1, <1>2, <1>5, NextLoc
  <2>3. w.up = v.up
    <3>1. PICK c, d, n, h : c = v.curr /\ d = Ptr(v.curr, v.level) /\ n = v.level - 1 /\ h = HereAt(v)
      OBVIOUS
    <3>2. h \in Locs /\ h.up = v.up
      BY <1>3, <3>1, HereIs
    <3>3. w = [v EXCEPT !.succ = d] \/ w = [v EXCEPT !.pred = c, !.curr = d]
          \/ w = [h EXCEPT !.level = n]
      BY <1>1, <1>5, <3>1 DEF NextSnip, NextOn, NextDown
    <3>4. CASE w = [v EXCEPT !.succ = d]
      BY <1>3, <3>4 DEF Locs
    <3>5. CASE w = [v EXCEPT !.pred = c, !.curr = d]
      BY <1>3, <3>5 DEF Locs
    <3>6. CASE w = [h EXCEPT !.level = n]
      BY <3>2, <3>6 DEF Locs
    <3> QED
      BY <3>3, <3>4, <3>5, <3>6
  <2> QED
    BY <1>1, <1>3, <2>1, <2>2, <2>3, MovedSilent, ShowSearch DEF Going
<1> QED
  BY <1>2, <1>4, <1>5 DEF NextIs

LEMMA ShowBump ==
    ASSUME Core, NEW p \in Proc, InsertBump(p) \/ InsertRaise(p)
    PROVE  Shown
<1>1. PICK v, w, to, at : v = loc[p] /\ w = loc'[p] /\ to = pc'[p] /\ at = pc[p]
  OBVIOUS
<1>2. Silent(p)
  BY InsertBumpOK, InsertRaiseOK, MovedSilent
<1>3. at \in {"bump", "raise"} /\ v \in Locs
  BY <1>1, SearchFacts DEF InsertBump, InsertRaise
<1>4. \/ to = "raise" /\ w = v
      \/ to = "return" /\ w = [v EXCEPT !.res = 1, !.cell = None, !.up = 0]
  <2>1. PICK x, y : /\ pc' = [pc EXCEPT ![p] = x] /\ loc' = [loc EXCEPT ![p] = y]
                    /\ \/ x = "raise" /\ y = v
                       \/ x = "return" /\ y = [v EXCEPT !.res = 1, !.cell = None, !.up = 0]
    BY <1>1 DEF InsertBump, InsertRaise, Goto, Set
  <2> QED
    BY <1>1, <2>1, LocNext, PcNext DEF Core
<1>5. /\ w.op = v.op /\ w.key = v.key /\ w.data = v.data /\ to \in {"raise", "return"}
      /\ to = "return" => w.res = 1
  BY <1>3, <1>4 DEF Locs
<1>6. DoneAt(at, v) /\ DoneAt(to, w) /\ ResAt(at, v) = 1
  BY <1>3, <1>5 DEF DoneAt, ResAt
<1> QED
  BY <1>1, <1>2, <1>3, <1>5, <1>6, ShowSame
\* A removal waits until the lowest level is marked.
LEMMA ShowRemoving ==
    ASSUME Core, NEW p \in Proc, Silent(p), NEW at, NEW v, NEW to, NEW w,
           at = pc[p], v = loc[p], to = pc'[p], w = loc'[p],
           at \in {"extract", "mark", "lost"}, to \in {"extract", "mark", "lost"},
           v.op = "remove", w.op = v.op, w.key = v.key, w.data = v.data
    PROVE  Shown
BY ShowSame DEF DoneAt

LEMMA ShowExtract ==
    ASSUME Core, NEW p \in Proc, RemoveExtract(p)
    PROVE  Shown
<1>1. PICK v, w, to, at, n, c : /\ v = loc[p] /\ w = loc'[p] /\ to = pc'[p] /\ at = pc[p]
                                /\ n = v.up - 1 /\ c = Ptr(v.cell, v.up)
  OBVIOUS
<1>2. at = "extract"
  BY <1>1 DEF RemoveExtract
<1>3. v \in Locs /\ v.op = "remove"
  BY <1>1, <1>2, ExtractFacts
<1>4. Silent(p)
  BY RemoveExtractOK, MovedSilent
<1>5. \/ to = at /\ w = [v EXCEPT !.up = n]
      \/ to = "mark" /\ w = [v EXCEPT !.succ = c]
  BY <1>1, LocNext, PcNext DEF RemoveExtract, Goto, Set, Core
<1>6. w.op = v.op /\ w.key = v.key /\ w.data = v.data
  BY <1>3, <1>5 DEF Locs
<1>7. v = loc[p] /\ w = loc'[p] /\ to = pc'[p] /\ at = pc[p] /\ to \in {"extract", "mark"}
  BY <1>1, <1>2, <1>5
<1> QED
  BY <1>2, <1>3, <1>4, <1>6, <1>7, ShowRemoving

LEMMA ShowLost ==
    ASSUME Core, NEW p \in Proc, RemoveLost(p)
    PROVE  Shown
<1>1. PICK v, w, to, at, c : /\ v = loc[p] /\ w = loc'[p] /\ to = pc'[p] /\ at = pc[p]
                             /\ c = Ptr(v.cell, 0)
  OBVIOUS
<1>2. at = "lost"
  BY <1>1 DEF RemoveLost
<1>3. v \in Locs /\ v.op = "remove" /\ ExtractOK(p, "lost", v)
  BY <1>1, <1>2, ExtractFacts
<1>4. Moved(p) /\ Silent(p)
  BY RemoveLostOK, MovedSilent
<1>5. CASE Marked(v.cell, 0)
  <2>1. loc' = [loc EXCEPT ![p] = [v EXCEPT !.res = 0, !.cell = None]]
        /\ pc' = [pc EXCEPT ![p] = "return"]
    BY <1>1, <1>5 DEF RemoveLost, Goto, Set
  <2>2. to = "return" /\ w = [v EXCEPT !.res = 0, !.cell = None]
    BY <1>1, <2>1, LocNext, PcNext DEF Core
  <2>3. w.op = v.op /\ w.key = v.key /\ w.data = v.data /\ w.res = 0
    BY <1>3, <2>2 DEF Locs
  <2>4. ~DoneAt(at, v) /\ Absent \in seen[p][v.key]
    BY <1>2, <1>3, <1>5 DEF DoneAt, ExtractOK
  <2>5. to = "return"
    BY <2>2
  <2> QED
    BY <1>1, <1>2, <1>3, <1>4, <2>3, <2>4, <2>5, ShowAnswer
<1>6. CASE ~Marked(v.cell, 0)
  <2>1. loc' = [loc EXCEPT ![p] = [v EXCEPT !.succ = c]] /\ pc' = [pc EXCEPT ![p] = "mark"]
    BY <1>1, <1>6 DEF RemoveLost, Goto, Set
  <2>2. to = "mark" /\ w = [v EXCEPT !.succ = c]
    BY <1>1, <2>1, LocNext, PcNext DEF Core
  <2>3. w.op = v.op /\ w.key = v.key /\ w.data = v.data
    BY <1>3, <2>2 DEF Locs
  <2>4. to = "mark"
    BY <2>2
  <2> QED
    BY <1>1, <1>2, <1>3, <1>4, <2>3, <2>4, ShowRemoving
<1> QED
  BY <1>5, <1>6

LEMMA ShowMark ==
    ASSUME Core, NEW p \in Proc, RemoveMark(p)
    PROVE  Shown
<1>1. PICK v, w, to, at : /\ v = loc[p] /\ w = [v EXCEPT !.succ = Head] /\ to = pc'[p] /\ at = pc[p]
  OBVIOUS
<1>2. /\ at = "mark" /\ v \in Locs /\ v.op = "remove" /\ v.cell \in Listed
      /\ v.up \in Nat /\ v.key \in Key /\ key[v.cell] = v.key
      /\ w.op = v.op /\ w.key = v.key /\ w.data = v.data /\ w.cell = v.cell
      /\ Others(p) /\ loc' = [loc EXCEPT ![p] = w]
      /\ to = (IF v.up > 0 THEN "extract" ELSE IF MarkWins(p) THEN "find" ELSE "lost")
  BY <1>1, MarkFacts
<1>3. w = loc'[p]
  BY <1>2, LocNext DEF Core
<1>9. v = loc[p] /\ to = pc'[p] /\ at = pc[p]
  BY <1>1
<1>7. at = "mark" /\ at # "idle" /\ v.op = "remove" /\ Others(p)
  BY <1>2
<1>8. w.op = v.op /\ w.key = v.key /\ w.data = v.data
  BY <1>2
<1>4. CASE ~MarkWins(p)
  <2>1. Silent(p)
    BY <1>4, MarkStay, MovedSilent
  <2>2. to \in {"extract", "lost"}
    BY <1>2, <1>4
  <2> QED
    BY <1>3, <1>9, <1>7, <1>8, <2>1, <2>2, ShowRemoving
<1>5. CASE MarkWins(p) /\ v.up # 0
  <2>1. Silent(p)
    BY <1>1, <1>2, <1>5, MarkOK, MarkDict DEF Core, Heap, Silent
  <2>2. to = "extract"
    BY <1>2, <1>5
  <2> QED
    BY <1>3, <1>9, <1>7, <1>8, <2>1, <2>2, ShowRemoving
<1>6. CASE MarkWins(p) /\ v.up = 0
  <2>1. PICK k : k = v.key
    OBVIOUS
  <2>2. MarkStep(v.cell, v.up) /\ Core'
    BY <1>1, <1>6, MarkOK
  <2>3. Dict[k] # Absent /\ Dict'[k] = Absent /\ k \in Key /\ \A l \in Key : l # k => Dict'[l] = Dict[l]
    BY <1>2, <1>6, <2>1, <2>2, MarkDict DEF Core, Heap
  <2>4. SetsKey(k, Absent)
    BY <1>1, <1>6, <2>3, MarkOK DEF SetsKey
  <2>5. at = "mark" /\ to = "find"
    BY <1>2, <1>6
  <2>6. v.cell # None
    BY <1>2, CoreHeap, Constants DEF HeapFacts
  <2>7. ~DoneAt(at, v) /\ DoneAt(to, w) /\ ResAt(to, w) = 1
    BY <1>2, <2>5, <2>6 DEF DoneAt, ResAt
  <2>8. D!SetKey(k, Absent, p, 1)
    BY <1>3, <1>9, <1>7, <1>8, <2>2, <2>4, <2>5, <2>7, TakesEffect
  <2>9. AbsCalls[p].op = "remove" /\ AbsCalls[p].key = k /\ ~AbsCalls[p].done
    BY <1>7, <1>9, <2>1, <2>7, UnderWay
  <2>10. D!Remove(p)
    BY <2>3, <2>8, <2>9 DEF D!Remove, D!Running
  <2> QED
    BY <2>10 DEF Shown, D!Next
<1> QED
  BY <1>4, <1>5, <1>6
LEMMA ShowAlloc ==
    ASSUME Core, NEW p \in Proc, InsertAlloc(p)
    PROVE  Shown
<1>1. PICK v, w, to, at : v = loc[p] /\ w = loc'[p] /\ to = pc'[p] /\ at = pc[p]
  OBVIOUS
<1>2. Silent(p)
  BY InsertAllocOK DEF Silent
<1>3. PICK c \in Cell \ used, t \in Level : AllocStep(p, v, c, t)
  BY <1>1, InsertAllocOK
<1>4. at = "alloc" /\ to = "link" /\ w = [v EXCEPT !.cell = c, !.up = 0]
  BY <1>1, <1>3, LocNext, PcNext DEF AllocStep, Core
<1>5. v \in Locs /\ v.op = "insert" /\ v.cell = None
  <2>1. pc[p] = "alloc"
    BY <1>1, <1>4
  <2>2. v \in Locs /\ AllocOK(v) /\ "alloc" \in PcOf(v.op)
    BY <1>1, <2>1, SearchFacts DEF CallOK, CallAt
  <2> QED
    BY <2>2, LocsOf, PcIs DEF AllocOK
<1>6. w.op = v.op /\ w.key = v.key /\ w.data = v.data /\ w.up = 0
  BY <1>4, <1>5, Constants DEF Locs
<1>7. at = "alloc" /\ to = "link"
  BY <1>4
<1>8. ~DoneAt(at, v) /\ ~DoneAt(to, w)
  BY <1>5, <1>6, <1>7 DEF DoneAt
<1>9. at # "idle" /\ to # "idle" /\ at # "return" /\ to # "return"
  BY <1>7
<1>10. w.op = v.op /\ w.key = v.key /\ w.data = v.data
  BY <1>6
<1> QED
  BY <1>1, <1>2, <1>8, <1>9, <1>10, ShowSame

LEMMA ShowLinkLost ==
    ASSUME Core, NEW p \in Proc, LinkLost(p)
    PROVE  Shown
<1>1. PICK v, w, to, at : v = loc[p] /\ w = loc'[p] /\ to = pc'[p] /\ at = pc[p]
  OBVIOUS
<1>2. Silent(p) /\ at = "link" /\ to = "find" /\ v.op = "insert"
      /\ w = IF v.up = 0 THEN [v EXCEPT !.cell = None] ELSE v
  BY <1>1, InsertLinkLost DEF Silent
<1>3. v \in Locs
  BY <1>1, <1>2, SearchFacts
<1>4. CASE v.up = 0
  <2>1. w = [v EXCEPT !.cell = None]
    BY <1>2, <1>4
  <2>2. w.op = v.op /\ w.key = v.key /\ w.data = v.data /\ w.cell = None
    BY <1>3, <2>1 DEF Locs
  <2>3. ~DoneAt(at, v) /\ ~DoneAt(to, w) /\ at # "idle" /\ to # "idle" /\ at # "return"
        /\ to # "return" /\ Silent(p)
    BY <1>2, <1>4, <2>2 DEF DoneAt
  <2> QED
    BY <1>1, <2>2, <2>3, ShowSame
<1>5. CASE v.up # 0
  BY <1>1, <1>2, <1>5, ShowSearch DEF Going
<1> QED
  BY <1>4, <1>5

LEMMA ShowLinkWon ==
    ASSUME Core, NEW p \in Proc, LinkWon(p)
    PROVE  Shown
<1>1. PICK v, w, to, at : v = loc[p] /\ w = loc'[p] /\ to = pc'[p] /\ at = pc[p]
  OBVIOUS
<1>2. /\ at = "link" /\ v \in Locs /\ v.op = "insert" /\ v.cell \in used /\ Others(p)
      /\ w.op = v.op /\ w.key = v.key /\ w.data = v.data /\ w.cell = v.cell
      /\ v.up = 0 => FreshOK(p, v)
  BY <1>1, WonFacts
<1>3. to = WonAt(v) /\ w = WonLoc(v)
  BY <1>1, WonFacts
<1>4. v.up \in Nat /\ v.cell # None /\ v.key \in Key
  BY <1>2, LocsOf, CoreHeap, Constants DEF HeapFacts
<1>5. /\ to = "bump" \/ (to = "link" /\ w.up = v.up + 1)
  BY <1>1, <1>3, WonFacts DEF WonAt
<1>6. to # "idle" /\ to # "return" /\ at # "idle" /\ at # "return"
  BY <1>2, <1>5
<1>7. DoneAt(to, w) /\ ResAt(to, w) = 1
  BY <1>2, <1>4, <1>5, <1>6 DEF DoneAt, ResAt
<1>8. CASE v.up # 0
  <2>1. Silent(p)
    BY <1>1, <1>2, <1>8, WonDict, InsertLinkWon DEF Silent
  <2>2. v.up > 0
    BY <1>4, <1>8
  <2>3. DoneAt(at, v)
    BY <1>2, <1>4, <2>2 DEF DoneAt
  <2> QED
    BY <1>1, <1>2, <1>6, <1>7, <2>1, <2>3, ShowSame
<1>9. CASE v.up = 0
  <2>1. PICK k, d : k = v.key /\ d = v.data
    OBVIOUS
  <2>2. SetsKey(k, d) /\ Core'
    BY <1>1, <1>4, <1>9, <2>1, WonDict, InsertLinkWon DEF SetsKey
  <2>3. D!SetKey(k, d, p, 1)
    BY <1>1, <1>2, <1>6, <1>7, <2>2, TakesEffect
  <2>4. ~DoneAt(at, v)
    BY <1>2, <1>9 DEF DoneAt
  <2>5. AbsCalls[p].op = v.op /\ AbsCalls[p].key = v.key /\ AbsCalls[p].data = v.data
    BY <1>1, <1>6, UnderWay
  <2>6. ~AbsCalls[p].done
    BY <1>1, <1>6, <2>4, UnderWay
  <2>7. D!Insert(p)
    BY <1>2, <2>1, <2>3, <2>5, <2>6 DEF D!Insert, D!Running
  <2> QED
    BY <2>7 DEF Shown, D!Next
<1> QED
  BY <1>8, <1>9
\* An update of a cell that has been marked.
LEMMA OthersLate ==
    ASSUME Core, NEW p \in Proc, Others(p), NEW v, UpdateSeen(p, v), NEW q \in Proc, q # p,
           NEW k, NEW d, k = v.key, d = v.data, NEW e, e = AbsCalls[q]
    PROVE  AbsCalls'[q] = IF e.op # "idle" /\ Absent \in e.seen[k]
                          THEN [e EXCEPT !.seen[k] = @ \cup {d}] ELSE e
<1>1. PICK at, y, s, t, g : /\ at = pc[q] /\ y = loc[q] /\ s = seen[q] /\ t = seen'[q]
                            /\ g = gone[q]
  OBVIOUS
<1>2. at = pc'[q] /\ y = loc'[q] /\ g = gone'[q]
  BY <1>1 DEF Others, UpdateSeen
<1>3. t = IF at # "idle" /\ Absent \in s[k] THEN [s EXCEPT ![k] = @ \cup {d}] ELSE s
  BY <1>1 DEF UpdateSeen
<1>4. CASE at = "idle"
  BY <1>1, <1>2, <1>4, ViewIs DEF View, Idle
<1>5. CASE at # "idle"
  <2>1. PICK o, n, a, b, x : /\ o = y.op /\ n = y.key /\ a = y.data
                             /\ b = DoneAt(at, y) /\ x = ResAt(at, y)
    OBVIOUS
  <2>2. e = Rec(o, n, a, g, s, b, x)
    BY <1>1, <1>5, <2>1, ViewIs DEF View
  <2>3. AbsCalls'[q] = Rec(o, n, a, g, t, b, x)
    BY <1>1, <1>2, <1>5, <2>1, ViewIs DEF View
  <2>4. o # "idle"
    BY <1>1, <1>5, <2>1, LocsOf DEF Core, CallTypes, CallType, Op
  <2>5. e \in RecSet(o, n, a, g, s, b, x)
    BY <2>2, RecIn
  <2>6. e.op = o /\ e.seen = s
    BY <2>5, RecOnly
  <2>7. CASE Absent \in s[k]
    <3>1. t = [s EXCEPT ![k] = @ \cup {d}]
      BY <1>3, <1>5, <2>7
    <3>2. PICK z : z = [e EXCEPT !.seen[k] = @ \cup {d}]
      OBVIOUS
    <3>3. z \in RecSet(o, n, a, g, t, b, x)
      BY <2>5, <3>1, <3>2 DEF RecSet
    <3>4. z = AbsCalls'[q]
      BY <2>3, <3>3, RecOnly
    <3> QED
      BY <2>4, <2>6, <2>7, <3>2, <3>4
  <2>8. CASE ~(Absent \in s[k])
    BY <1>3, <2>2, <2>3, <2>6, <2>8
  <2> QED
    BY <2>7, <2>8
<1> QED
  BY <1>4, <1>5

LEMMA ShowUpdate ==
    ASSUME Core, NEW p \in Proc, InsertUpdate(p)
    PROVE  Shown
<1>1. PICK v, w, to, at, c : /\ v = loc[p] /\ w = UpdateLoc(v) /\ to = pc'[p] /\ at = pc[p]
                             /\ c = v.succs[0]
  OBVIOUS
<1>2. /\ at = "update" /\ to = "return" /\ v \in Locs /\ v.op = "insert" /\ v.key \in Key
      /\ w.op = v.op /\ w.key = v.key /\ w.data = v.data /\ w.res = 1 /\ w = loc'[p]
      /\ Others(p)
      /\ Marked(c, 0) => gone[p]
      /\ c \in Present(v.key) <=> ~Marked(c, 0)
      /\ c \notin Present(v.key) => UpdateSeen(p, v)
  BY <1>1, UpdateFacts
<1>3. PICK k, d : k = v.key /\ d = v.data
  OBVIOUS
<1>4. v.cell = None
  BY <1>1, <1>2, SearchFacts DEF CallOK, CallAt, UpdateOK
<1>5. /\ ~DoneAt(at, v) /\ DoneAt(to, w) /\ ResAt(to, w) = 1
      /\ at # "idle" /\ to # "idle"
  BY <1>2, <1>4 DEF DoneAt, ResAt
<1>6. AbsCalls[p].op = "insert" /\ AbsCalls[p].key = k /\ AbsCalls[p].data = d /\ AbsCalls[p].gone = gone[p]
  <2>1. AbsCalls[p].op = v.op /\ AbsCalls[p].key = v.key /\ AbsCalls[p].data = v.data
    BY <1>1, <1>5, UnderWay
  <2>2. AbsCalls[p].gone = gone[p]
    BY <1>1, <1>5, UnderWay
  <2> QED
    BY <1>2, <1>3, <2>1, <2>2
<1>7. ~AbsCalls[p].done
  BY <1>1, <1>5, UnderWay
<1>8. w.op = v.op /\ w.key = v.key /\ w.data = v.data /\ w = loc'[p] /\ Others(p)
  BY <1>2
<1>9. v = loc[p] /\ to = pc'[p] /\ at = pc[p]
  BY <1>1
<1>10. CASE ~Marked(c, 0)
  <2>1. SetsKey(k, d) /\ Core'
    BY <1>1, <1>2, <1>3, <1>10, InsertUpdateOK DEF SetsKey
  <2>2. D!SetKey(k, d, p, 1)
    BY <1>5, <1>8, <1>9, <2>1, TakesEffect
  <2>3. D!Insert(p)
    BY <1>6, <1>7, <2>2 DEF D!Insert, D!Running
  <2> QED
    BY <2>3 DEF Shown, D!Next
<1>11. CASE Marked(c, 0)
  <2>1. Dict' = Dict
    BY <1>1, <1>11, InsertUpdateOK
  <2>2. UpdateSeen(p, v) /\ gone[p]
    BY <1>2, <1>11
  <2>3. PICK e : e = AbsCalls[p]
    OBVIOUS
  <2>4. AbsCalls'[p] = [e EXCEPT !.done = TRUE, !.res = 1]
    <3>1. PICK o, g, s, b, x, h : /\ o = v.op /\ g = gone[p] /\ s = seen[p] /\ b = DoneAt(at, v)
                                  /\ x = ResAt(at, v) /\ h = TRUE
      OBVIOUS
    <3>2. gone'[p] = g /\ seen'[p] = s
      BY <2>2, <3>1 DEF UpdateSeen
    <3>3. e = Rec(o, k, d, g, s, b, x)
      BY <1>3, <1>5, <1>9, <2>3, <3>1, ViewIs DEF View
    <3>4. AbsCalls'[p] = View(to, w, g, s)
      BY <1>8, <1>9, <3>2, ViewIs
    <3>5. h = DoneAt(to, w)
      BY <1>5, <3>1 DEF DoneAt
    <3>6. AbsCalls'[p] = Rec(o, k, d, g, s, h, 1)
      BY <1>3, <1>5, <1>8, <3>1, <3>4, <3>5 DEF View
    <3>7. e \in RecSet(o, k, d, g, s, b, x)
      BY <3>3, RecIn
    <3>8. PICK y : y = [e EXCEPT !.done = TRUE, !.res = 1]
      OBVIOUS
    <3>9. y \in RecSet(o, k, d, g, s, h, 1)
      BY <3>1, <3>7, <3>8 DEF RecSet
    <3>10. y = AbsCalls'[p]
      BY <3>6, <3>9, RecOnly
    <3> QED
      BY <3>8, <3>10
  <2>5. \A q \in Proc : q # p =>
            AbsCalls'[q] = IF AbsCalls[q].op # "idle" /\ Absent \in AbsCalls[q].seen[k]
                           THEN [AbsCalls[q] EXCEPT !.seen[k] = @ \cup {d}] ELSE AbsCalls[q]
    BY <1>3, <1>8, <2>2, OthersLate
  <2>6. AbsCalls' = [q \in Proc |->
            IF q = p THEN [AbsCalls[p] EXCEPT !.done = TRUE, !.res = 1]
            ELSE IF AbsCalls[q].op # "idle" /\ Absent \in AbsCalls[q].seen[k]
            THEN [AbsCalls[q] EXCEPT !.seen[k] = @ \cup {d}] ELSE AbsCalls[q]]
    BY <2>3, <2>4, <2>5, AbsFun DEF CallsAre
  <2>7. D!InsertThenRemoved(p)
    BY <1>6, <1>7, <2>1, <2>2, <2>6 DEF D!InsertThenRemoved, D!Running
  <2> QED
    BY <2>7 DEF Shown, D!Next
<1> QED
  BY <1>10, <1>11
LEMMA ShowStep ==
    ASSUME Core, NEW p \in Proc, Step(p)
    PROVE  Shown
<1>1. CASE Call(p)
  BY <1>1, ShowCall
<1>2. CASE Return(p)
  BY <1>2, ShowReturn
<1>3. CASE FindStart(p) \/ FindLoad(p) \/ FindSnip(p) \/ FindClaim(p) \/ FindPush(p) \/ FindPublish(p)
  BY <1>3, ShowFindStep
<1>4. CASE FindNext(p)
  BY <1>4, ShowNext
<1>5. CASE LookupStart(p) \/ LookupEnter(p) \/ LookupWalk(p)
  BY <1>5, ShowWalk
<1>6. CASE ReadData(p)
  BY <1>6, ShowRead
<1>7. CASE InsertUpdate(p)
  BY <1>7, ShowUpdate
<1>8. CASE InsertAlloc(p)
  BY <1>8, ShowAlloc
<1>9. CASE InsertLink(p)
  BY <1>9, InsertLinkIs, ShowLinkWon, ShowLinkLost
<1>10. CASE InsertBump(p) \/ InsertRaise(p)
  BY <1>10, ShowBump
<1>11. CASE RemoveExtract(p)
  BY <1>11, ShowExtract
<1>12. CASE RemoveMark(p)
  BY <1>12, ShowMark
<1>13. CASE RemoveLost(p)
  BY <1>13, ShowLost
<1> QED
  BY <1>1, <1>2, <1>3, <1>4, <1>5, <1>6, <1>7, <1>8, <1>9, <1>10, <1>11, <1>12, <1>13 DEF Step

LEMMA ShowInit ==
    ASSUME Init
    PROVE  D!Init
<1>1. \A k \in Key : Dict[k] = Absent
  BY InitHeap, DictIs
<1>2. Dict = [k \in Key |-> Absent]
  BY <1>1 DEF Dict
<1>3. \A p \in Proc : AbsCalls[p] = D!Idle
  <2> TAKE p \in Proc
  <2>1. PICK at, v : at = pc[p] /\ v = loc[p]
    OBVIOUS
  <2>2. at = "idle"
    BY <2>1 DEF Init
  <2> QED
    BY <2>1, <2>2, ViewIs DEF View, Idle, D!Idle
<1>4. AbsCalls = [p \in Proc |-> D!Idle]
  BY <1>3, AbsFun DEF CallsAre
<1> QED
  BY <1>2, <1>4 DEF D!Init

LEMMA ShowNothing ==
    ASSUME Dict' = Dict, UNCHANGED <<pc, loc, seen, gone>>
    PROVE  UNCHANGED D!vars
<1>1. \A p \in Proc : AbsCalls'[p] = AbsCalls[p]
  <2> TAKE p \in Proc
  <2>1. PICK at, v : at = pc[p] /\ v = loc[p]
    OBVIOUS
  <2>2. at = pc'[p] /\ v = loc'[p] /\ seen'[p] = seen[p] /\ gone'[p] = gone[p]
    BY <2>1
  <2> QED
    BY <2>1, <2>2, ViewIs
<1>2. AbsCalls' = AbsCalls
  BY <1>1, AbsFun DEF CallsAre
<1> QED
  BY <1>2 DEF D!vars

(* The lock-free list implements the atomic dictionary: every insertion,   *)
(* removal and search takes effect, or finds its answer, at one moment     *)
(* between its call and its return, whatever the others do meanwhile.      *)
THEOREM ImplementsDictionary == Spec => RefinesDictionary
<1>1. Init => D!Init
  BY ShowInit
<1>2. Invs /\ [Next]_vars => [D!Next]_D!vars
  <2> SUFFICES ASSUME Invs, [Next]_vars PROVE [D!Next]_D!vars
    OBVIOUS
  <2>1. Core
    BY DEF Invs
  <2>2. CASE \E p \in Proc : Step(p)
    BY <2>1, <2>2, ShowStep DEF Shown
  <2>3. CASE caml_lf_skiplist_free_garbage
    BY <2>3, FreeingIs, FreeingInvs, ShowNothing DEF caml_lf_skiplist_free_garbage,
       history
  <2>4. CASE UNCHANGED vars
    BY <2>4, Same, ShowNothing DEF vars, SameHeap, Fresh
  <2> QED
    BY <2>2, <2>3, <2>4 DEF Next
<1> QED
  BY <1>1, <1>2, InvsHold, PTL DEF Spec, RefinesDictionary, D!Spec
-----------------------------------------------------------------------------
(* A lookup is wait-free. *)
Smaller(r, s) == \E i \in 1 .. 3 : r[i] < s[i] /\ \A j \in 1 .. i - 1 : r[j] = s[j]
LEMMA Lexical ==
    ASSUME NEW a, NEW b, NEW c, NEW x, NEW y, NEW z,
           x < a \/ (x = a /\ y < b) \/ (x = a /\ y = b /\ z < c)
    PROVE  Smaller(<<x, y, z>>, <<a, b, c>>)
<1>1. CASE x < a
  BY <1>1 DEF Smaller
<1>2. CASE x = a /\ y < b
  <2>1. <<x, y, z>>[2] < <<a, b, c>>[2]
    BY <1>2
  <2>2. \A j \in 1 .. 2 - 1 : <<x, y, z>>[j] = <<a, b, c>>[j]
    <3> TAKE j \in 1 .. 2 - 1
    <3>1. j = 1
      OBVIOUS
    <3> QED
      BY <1>2, <3>1
  <2> QED
    BY <2>1, <2>2 DEF Smaller
<1>3. CASE x = a /\ y = b /\ z < c
  <2>1. <<x, y, z>>[3] < <<a, b, c>>[3]
    BY <1>3
  <2>2. \A j \in 1 .. 3 - 1 : <<x, y, z>>[j] = <<a, b, c>>[j]
    <3> TAKE j \in 1 .. 3 - 1
    <3>1. j = 1 \/ j = 2
      OBVIOUS
    <3> QED
      BY <1>3, <3>1
  <2> QED
    BY <2>1, <2>2 DEF Smaller
<1> QED
  BY <1>1, <1>2, <1>3

RankAt(at, v) ==
    IF at = "lookup" THEN <<TopLevel + 2, 0, 0>>
    ELSE IF at = "enter" THEN <<v.level + 1, MaxKey + 1, Cardinality(Cell) + 2>>
    ELSE IF at = "walk" THEN <<v.level + 1, MaxKey + 1 - key[v.curr],
                               Cardinality(From(v.curr, v.level))>>
    ELSE IF at = "read" THEN <<0, 1, 0>> ELSE <<0, 0, 0>>
LEMMA RankIs ==
    ASSUME NEW p, NEW at, NEW v, at \in {"lookup", "enter", "walk", "read", "return"},
           at = pc[p], v = loc[p]
    PROVE  LookupRank(p) = RankAt(at, v)
BY DEF LookupRank, RankAt
LEMMA RankNext ==
    ASSUME SameHeap, NEW p, NEW at, NEW v, at \in {"lookup", "enter", "walk", "read", "return"},
           at = pc'[p], v = loc'[p]
    PROVE  LookupRank(p)' = RankAt(at, v)
BY Same DEF SameHeap, LookupRank, RankAt
\* One step further there are fewer cells ahead.
LEMMA AheadFewer ==
    ASSUME Heap, NEW c \in Listed, NEW l \in Level, l <= top_level[c], NEW d, d = Ptr(c, l), d \in Listed
    PROVE  /\ Cardinality(From(d, l)) \in Nat /\ Cardinality(From(c, l)) \in Nat
           /\ Cardinality(From(d, l)) < Cardinality(From(c, l))
<1>1. d \in Cell /\ d \in used
  BY HeapNumbers DEF Heap
<1>2. d \in From(c, l) /\ From(d, l) \subseteq From(c, l) /\ From(c, l) \subseteq Cell
  <2>1. PICK n : n = Links(l)
    OBVIOUS
  <2>2. c \in AnyCell
    BY HeapNumbers, Constants DEF Heap
  <2>3. n[c] = d
    BY <2>1, <2>2, LinksAre
  <2>4. Reached(n, c) = {d} \cup Reached(n, d)
    BY <1>1, <2>3, ReachedStep
  <2>5. From(c, l) = Reached(n, c) /\ From(d, l) = Reached(n, d)
    BY <2>1, LinksAre
  <2> QED
    BY <2>4, <2>5, LinksAre
<1>3. d \notin From(d, l)
  BY <1>1 DEF Heap, HeapInv, AcyclicInv
<1>4. IsFiniteSet(Cell)
  BY LfSkiplistAssumption
<1>5. PICK S, T : S = From(c, l) /\ T = From(d, l)
  OBVIOUS
<1>6. IsFiniteSet(S) /\ T \in SUBSET S /\ S # T
  BY <1>2, <1>3, <1>4, <1>5, FS_Subset
<1>7. Cardinality(S) \in Nat /\ Cardinality(T) \in Nat
  BY <1>6, FS_Subset, FS_CardinalityType
<1>8. Cardinality(T) <= Cardinality(S) /\ Cardinality(S) # Cardinality(T)
  BY <1>6, FS_Subset
<1>9. Cardinality(T) < Cardinality(S)
  BY <1>7, <1>8
<1> QED
  BY <1>5, <1>7, <1>9

\* A step over a cell takes a walk to a larger key or to fewer cells.
LEMMA WalkOn ==
    ASSUME Core, NEW p \in Proc, NEW v, WalkFacts(p, v), v.curr # Tail, NEW w,
           w.curr = Ptr(v.curr, v.level), w.level = v.level
    PROVE  Smaller(RankAt("walk", w), RankAt("walk", v))
<1> USE Constants
<1>1. PICK c, l, d : c = v.curr /\ l = v.level /\ d = Ptr(c, l)
  OBVIOUS
<1>2. /\ c \in Listed /\ l \in Level /\ l <= top_level[c] /\ HeapFacts /\ Heap
  BY <1>1, LocsOf, CoreHeap DEF WalkFacts, LookupOK, Targets
<1>3. c \in used /\ c \in AnyCell /\ d \in Targets /\ d \in AnyCell
  BY <1>1, <1>2 DEF HeapFacts, Heap, HeapInv, PointerInv
<1>4. /\ key[c] \in Nat /\ key[d] \in Nat /\ key[c] <= MaxKey + 1 /\ key[d] <= MaxKey + 1
  BY <1>2, <1>3, HeapNumbers DEF Heap
<1>5. key[d] > key[c] \/ key[d] = key[c]
  BY <1>1, <1>2, <1>3 DEF Heap, HeapInv, SortedInv
<1>6. PICK m, x, y, r, s : /\ m = l + 1 /\ x = MaxKey + 1 - key[d] /\ y = MaxKey + 1 - key[c]
                           /\ r = Cardinality(From(d, l)) /\ s = Cardinality(From(c, l))
  OBVIOUS
<1>7. RankAt("walk", v) = <<m, y, s>> /\ RankAt("walk", w) = <<m, x, r>>
  BY <1>1, <1>6 DEF RankAt
<1>8. CASE key[d] > key[c]
  BY <1>4, <1>6, <1>7, <1>8, Lexical
<1>9. CASE key[d] = key[c]
  <2>1. x = y
    BY <1>6, <1>9
  <2>2. key[c] # MaxKey + 1
    BY <1>2, <1>3 DEF HeapFacts, Key
  <2>3. d \in Listed
    BY <1>2, <1>3, <1>9, <2>2 DEF Targets, HeapFacts
  <2>4. r < s
    BY <1>1, <1>2, <1>6, <2>3, AheadFewer
  <2> QED
    BY <1>7, <2>1, <2>4, Lexical
<1> QED
  BY <1>5, <1>8, <1>9
Lower(p) == Smaller(LookupRank(p)', LookupRank(p))
LEMMA Lowers ==
    ASSUME NEW p \in Proc, Moved(p), NEW at, NEW v, NEW to, NEW w,
           at \in {"lookup", "enter", "walk", "read"}, to \in {"enter", "walk", "read", "return"},
           at = pc[p], v = loc[p], to = pc'[p], w = loc'[p],
           Smaller(RankAt(to, w), RankAt(at, v))
    PROVE  Lower(p)
BY RankIs, RankNext DEF Moved, Lower

\* From the end of a walk on the rank is below that of any level.
LEMMA LowLevel ==
    ASSUME NEW v \in Locs, NEW w, NEW at \in {"enter", "walk"},
           NEW to \in {"enter", "read", "return"}, to = "enter" => v.level > 0 /\ w.level = v.level - 1
    PROVE  Smaller(RankAt(to, w), RankAt(at, v))
<1> USE Constants
<1>1. v.level \in Nat
  BY LocsOf
<1>2. PICK a, b, c : RankAt(at, v) = <<a, b, c>> /\ a = v.level + 1
  BY DEF RankAt
<1>3. PICK x, y, z : RankAt(to, w) = <<x, y, z>> /\ x = IF to = "enter" THEN w.level + 1 ELSE 0
  BY DEF RankAt
<1>4. x < a
  BY <1>1, <1>2, <1>3
<1> QED
  BY <1>2, <1>3, <1>4, Lexical

LEMMA EnterLowers ==
    ASSUME Core, NEW p \in Proc, LookupStart(p) \/ LookupEnter(p)
    PROVE  Lower(p)
<1> USE Constants
<1>1. PICK v, at, to, w : v = loc[p] /\ at = pc[p] /\ to = pc'[p] /\ w = loc'[p]
  OBVIOUS
<1>2. Moved(p)
  BY LookupStartOK, LookupEnterOK
<1>3. CASE LookupStart(p)
  <2>1. PICK n : n = search_level
    OBVIOUS
  <2>2. at = "lookup" /\ to = "enter" /\ w = [v EXCEPT !.level = n]
    BY <1>1, <1>3, <2>1, LocNext, PcNext DEF LookupStart, Set, Goto, Core
  <2>3. v \in Locs
    BY <1>1, <2>2, SearchFacts
  <2>4. w.level = n /\ n \in Level
    BY <2>1, <2>2, <2>3 DEF Locs, Core, GarbageTypes
  <2>5. PICK m, y, z, t : m = n + 1 /\ y = MaxKey + 1 /\ z = Cardinality(Cell) + 2 /\ t = TopLevel + 2
    OBVIOUS
  <2>6. m < t
    BY <2>4, <2>5
  <2>7. RankAt("lookup", v) = <<t, 0, 0>> /\ RankAt("enter", w) = <<m, y, z>>
    BY <2>4, <2>5 DEF RankAt
  <2>8. Smaller(RankAt("enter", w), RankAt("lookup", v))
    BY <2>6, <2>7, Lexical
  <2>9. at = "lookup" /\ to = "enter"
    BY <2>2
  <2>10. /\ at \in {"lookup", "enter", "walk", "read"} /\ to \in {"enter", "walk", "read", "return"}
        /\ Smaller(RankAt(to, w), RankAt(at, v))
    BY <2>8, <2>9
  <2> QED
    BY <1>1, <1>2, <2>10, Lowers
<1>4. CASE LookupEnter(p)
  <2>1. PICK c, l : l = v.level /\ c = Ptr(v.pred, l)
    OBVIOUS
  <2>2. at = "enter" /\ to = "walk" /\ w = [v EXCEPT !.curr = c]
    BY <1>1, <1>4, <2>1, LocNext, PcNext DEF LookupEnter, Set, Goto, Core
  <2>3. v \in Locs /\ LookupOK(p, "enter", v)
    BY <1>1, <2>2, SearchFacts DEF CallOK, CallAt
  <2>4. HeapFacts /\ Heap
    BY CoreHeap
  <2>5. c \in Targets
    BY <2>1, <2>3, <2>4, LocsOf DEF LookupOK, HeapFacts, Heap, HeapInv, PointerInv
  <2>6. c \in AnyCell /\ key[c] \in Nat /\ key[c] >= 1
    BY <2>4, <2>5 DEF HeapFacts, Targets
  <2>7. key[c] <= MaxKey + 1
    BY <2>4, <2>6, HeapNumbers DEF Heap
  <2>8. w.curr = c /\ w.level = l /\ v.level = l
    BY <2>1, <2>2, <2>3, <2>6 DEF Locs
  <2>9. PICK m, x, y, r, s : /\ m = l + 1 /\ x = MaxKey + 1 - key[c] /\ y = MaxKey + 1
                             /\ r = Cardinality(From(c, l)) /\ s = Cardinality(Cell) + 2
    OBVIOUS
  <2>10. x < y
    BY <2>6, <2>7, <2>9
  <2>11. RankAt("enter", v) = <<m, y, s>> /\ RankAt("walk", w) = <<m, x, r>>
    BY <2>8, <2>9 DEF RankAt
  <2>12. Smaller(RankAt("walk", w), RankAt("enter", v))
    BY <2>10, <2>11, Lexical
  <2>13. at = "enter" /\ to = "walk"
    BY <2>2
  <2>14. /\ at \in {"lookup", "enter", "walk", "read"} /\ to \in {"enter", "walk", "read", "return"}
        /\ Smaller(RankAt(to, w), RankAt(at, v))
    BY <2>12, <2>13
  <2> QED
    BY <1>1, <1>2, <2>14, Lowers
<1> QED
  BY <1>3, <1>4
LEMMA ReadLowers ==
    ASSUME Core, NEW p \in Proc, ReadData(p)
    PROVE  Lower(p)
<1>1. PICK v, at, to, w : v = loc[p] /\ at = pc[p] /\ to = pc'[p] /\ w = loc'[p]
  OBVIOUS
<1>2. at = "read" /\ to = "return"
  BY <1>1, PcNext DEF ReadData, Goto, Core
<1>3. RankAt("read", v) = <<0, 1, 0>> /\ RankAt("return", w) = <<0, 0, 0>>
  BY DEF RankAt
<1>4. Smaller(<<0, 0, 0>>, <<0, 1, 0>>)
  BY Lexical
<1>5. /\ at \in {"lookup", "enter", "walk", "read"} /\ to \in {"enter", "walk", "read", "return"}
      /\ Smaller(RankAt(to, w), RankAt(at, v))
  BY <1>2, <1>3, <1>4
<1> QED
  BY <1>1, <1>5, ReadDataOK, Lowers

LEMMA WalkLowers ==
    ASSUME Core, NEW p \in Proc, LookupWalk(p)
    PROVE  Lower(p)
<1> USE Constants
<1>1. PICK v, at, to, w, c, d, n : /\ v = loc[p] /\ at = pc[p] /\ to = pc'[p] /\ w = loc'[p]
                                   /\ c = v.curr /\ d = Ptr(v.curr, v.level) /\ n = v.level - 1
  OBVIOUS
<1>2. at = "walk"
  BY <1>1 DEF LookupWalk
<1>3. Moved(p)
  BY LookupWalkOK
<1>4. WalkFacts(p, v) /\ v \in Locs
  BY <1>1, SearchFacts DEF LookupWalk, Keeps, cells, history, WalkFacts, CallOK, CallAt
<1>5. HeapFacts /\ Heap /\ c \in Targets /\ c \in AnyCell /\ v.level \in Level /\ v.level \in Nat /\ v.key \in Key
  BY <1>1, <1>4, CoreHeap, LocsOf DEF WalkFacts, LookupOK, HeapFacts
<1>6. CASE to = "walk" /\ w.curr = d /\ w.level = v.level /\ c # Tail
  <2>1. Smaller(RankAt("walk", w), RankAt("walk", v))
    BY <1>1, <1>4, <1>6, WalkOn
  <2>2. /\ at \in {"lookup", "enter", "walk", "read"} /\ to \in {"enter", "walk", "read", "return"}
        /\ Smaller(RankAt(to, w), RankAt(at, v))
    BY <1>2, <1>6, <2>1
  <2> QED
    BY <1>1, <1>3, <2>2, Lowers
<1>7. CASE to \in {"enter", "read", "return"} /\ (to = "enter" => v.level > 0 /\ w.level = v.level - 1)
  <2>1. Smaller(RankAt(to, w), RankAt(at, v))
    BY <1>2, <1>4, <1>7, LowLevel
  <2>2. at \in {"lookup", "enter", "walk", "read"} /\ to \in {"enter", "walk", "read", "return"}
    BY <1>2, <1>7
  <2> QED
    BY <1>1, <1>3, <2>1, <2>2, Lowers
<1>8. CASE Marked(v.curr, v.level)
  <2>1. to = "walk" /\ w = [v EXCEPT !.curr = d]
    BY <1>1, <1>2, <1>8, LocNext DEF LookupWalk, SkipMarked, SkipTo, Set, Core
  <2>3. w.curr = d /\ w.level = v.level
    BY <1>4, <2>1 DEF Locs
  <2>4. c # Tail
    BY <1>1, <1>5, <1>8 DEF Heap, HeapInv, SentinelInv
  <2>5. to = "walk"
    BY <2>1
  <2> QED
    BY <1>6, <2>3, <2>4, <2>5
<1>9. CASE ~Marked(v.curr, v.level) /\ key[v.curr] < v.key
  <2>1. to = "walk" /\ w = [v EXCEPT !.pred = c, !.curr = d]
    BY <1>1, <1>2, <1>9, LocNext DEF LookupWalk, SkipMarked, Before, Set, Core
  <2>2. w.curr = d /\ w.level = v.level
    BY <1>4, <2>1 DEF Locs
  <2>3. c # Tail
    BY <1>1, <1>5, <1>9 DEF HeapFacts
  <2>4. to = "walk"
    BY <2>1
  <2> QED
    BY <1>6, <2>2, <2>3, <2>4
<1>10. CASE ~Marked(v.curr, v.level) /\ ~(key[v.curr] < v.key)
  <2>1. \/ v.level > 0 /\ Set(p, [v EXCEPT !.level = v.level - 1]) /\ Goto(p, "enter")
        \/ v.level = 0 /\ LookupReturn(p, v)
    BY <1>1, <1>10 DEF LookupWalk, Before, SkipMarked
  <2>2. CASE v.level > 0 /\ Set(p, [v EXCEPT !.level = v.level - 1]) /\ Goto(p, "enter")
    <3>1. to = "enter" /\ w = [v EXCEPT !.level = n]
      BY <1>1, <2>2, LocNext, PcNext DEF Set, Goto, Core
    <3>2. w.level = n
      BY <1>4, <3>1 DEF Locs
    <3>3. to = "enter"
      BY <3>1
    <3> QED
      BY <1>1, <1>7, <2>2, <3>2, <3>3
  <2>3. CASE v.level = 0 /\ LookupReturn(p, v)
    <3>1. PICK x \in {"read", "return"} : pc' = [pc EXCEPT ![p] = x]
      BY <2>3 DEF LookupReturn, Goto
    <3>2. to = x
      BY <1>1, <3>1, PcNext DEF Core
    <3> QED
      BY <1>7, <3>1, <3>2
  <2> QED
    BY <2>1, <2>2, <2>3
<1> QED
  BY <1>8, <1>9, <1>10

LEMMA LookupLowers ==
    ASSUME Core, NEW p \in Proc, pc[p] # "idle", loc[p].op \in {"find", "find_below"}, Step(p)
    PROVE  pc'[p] = "idle" \/ Lower(p)
<1>1. PICK at, v : at = pc[p] /\ v = loc[p]
  OBVIOUS
<1>2. at \in PcOf(v.op)
  BY <1>1, SearchFacts
<1>3. at \in {"lookup", "enter", "walk", "read", "return"}
  BY <1>1, <1>2 DEF PcOf
<1>4. \/ Return(p) \/ LookupStart(p) \/ LookupEnter(p) \/ LookupWalk(p) \/ ReadData(p)
  BY <1>1, <1>3 DEF Step, Call, FindStart, FindLoad, FindNext, FindSnip, FindClaim, FindPush,
      FindPublish, InsertUpdate, InsertAlloc, InsertLink, InsertBump, InsertRaise,
      RemoveExtract, RemoveMark, RemoveLost
<1>5. CASE Return(p)
  BY <1>5, PcNext DEF Return, Goto, Core
<1> QED
  BY <1>4, <1>5, EnterLowers, WalkLowers, ReadLowers

(* A lookup is wait-free: whatever the other threads do, each of its steps *)
(* takes it to a lower level, to a larger key, or past one of finitely     *)
(* many removed cells of the same key.                                     *)
THEOREM LookupsAdvance == Spec => LookupAdvances
<1> DEFINE Advance == \A p \in Proc :
               pc[p] # "idle" /\ loc[p].op \in {"find", "find_below"} /\ loc'[p] # loc[p]
               => pc'[p] = "idle" \/ Lower(p)
<1>1. Invs /\ [Next]_vars => Advance
  <2> SUFFICES ASSUME Invs, [Next]_vars, NEW p \in Proc,
                      pc[p] # "idle", loc[p].op \in {"find", "find_below"}, loc'[p] # loc[p]
               PROVE  pc'[p] = "idle" \/ Lower(p)
    OBVIOUS
  <2>1. Core
    BY DEF Invs
  <2>2. CASE caml_lf_skiplist_free_garbage \/ UNCHANGED vars
    BY <2>2 DEF caml_lf_skiplist_free_garbage, vars
  <2>3. ASSUME NEW q \in Proc, Step(q) PROVE pc'[p] = "idle" \/ Lower(p)
    BY <2>1, <2>3, LookupLowers, StepCore DEF Others
  <2> QED
    BY <2>2, <2>3 DEF Next
<1>2. Advance => \A p \in Proc :
          pc[p] # "idle" /\ loc[p].op \in {"find", "find_below"} /\ loc'[p] # loc[p]
          => \/ pc'[p] = "idle"
             \/ \E i \in 1 .. 3 : /\ LookupRank(p)'[i] < LookupRank(p)[i]
                                  /\ \A j \in 1 .. i - 1 :
                                        LookupRank(p)'[j] = LookupRank(p)[j]
  BY DEF Lower, Smaller
<1> QED
  BY <1>1, <1>2, InvsHold, PTL DEF Spec, LookupAdvances
=============================================================================
