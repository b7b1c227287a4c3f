----------------------------- MODULE SignalsProofs -----------------------------
(***************************************************************************)
(* Proofs about the signals and pending actions of a domain, for every     *)
(* number of threads and of signals.                                       *)
(*                                                                         *)
(* The invariant gives the stacks of C and OCaml frames their shape: which *)
(* frame can be above which, and that a scan of the signals and a handler  *)
(* know the mask of the code below them.  Every step of a thread replaces  *)
(* its topmost frames, so that the lemmas on PushOK and PopOK do for all   *)
(* of them; an exception, which leaves all frames above the innermost      *)
(* code, is at most three returns.                                         *)
(***************************************************************************)
EXTENDS Signals, FunctionTheorems, FiniteSetTheorems, SequenceTheorems, TLAPS

(***************************************************************************)
(* The frames, and which of them can be above which.                       *)
(***************************************************************************)
CodeFrame == [k : {"code"}, sig : Sig \cup {None, Fin}, saved : SUBSET Sig, want : SUBSET Sig]
GcFrame ==
    {f \in [k : {"gc"}, by : {"actions", "alloc", "urgent"},
            at : {"collect", "exchange", "check", "hook", "signals before", "yield",
                  "wait", "signals after", "end", "signals", "final"}] :
       f.at \in {"signals", "final"} => f.by = "actions"}
ScanFrame == [k : {"scan"}, set : SUBSET Sig, curr : SUBSET Sig, pos : Nat]
BlockFrame == [k : {"block"}, new : (SUBSET Sig) \cup {None},
               at : {"poll", "release", "test", "back", "inside", "leave", "poll again"}]
InstallFrame == [k : {"install"}, at : {"sigaction", "store", "signals", "final"},
                 sig : Sig, act : {"default", "handle"}]
Frame == CodeFrame \cup GcFrame \cup ScanFrame \cup BlockFrame \cup InstallFrame

\* A handler runs above a scan, a finaliser above the end of the pending actions;
\* a scan above what has called it, and that above code or in one of the two
\* functions that stop in the middle.
Above(f, g) ==
    \/ f.k = "code" /\ f.sig \in Sig /\ g.k = "scan"
    \/ f.k = "code" /\ f.sig = Fin /\ g.k = "gc" /\ g.at = "final"
    \/ f.k = "scan" /\ g.k = "gc" /\ g.at \in {"yield", "end", "final"}
    \/ f.k = "scan" /\ g.k = "install" /\ g.at = "final"
    \/ f.k \in {"gc", "block", "install"} /\ g.k = "code"
    \/ f.k = "gc" /\ f.by = "actions" /\ g.k = "block" /\ g.at = "release"
    \/ f.k = "gc" /\ f.by = "alloc" /\ g.k = "install" /\ g.at = "store"

\* The first code after a position.
NextCode(st, i, j) ==
    /\ i < j
    /\ st[j].k = "code"
    /\ \A m \in 1 .. Len(st) : i < m /\ m < j => st[m].k # "code"

\* A scan has read, and a handler will restore, the mask of the code below.
Knows(f, c) ==
    /\ f.k = "scan" => f.set = c.want
    /\ f.k = "code" /\ f.sig \in Sig => f.saved = c.want

\* The mask of a thread is the one that its innermost code has asked for.
Wants(st, m) == \A j \in 1 .. Len(st) : NextCode(st, 0, j) => m = st[j].want

StackOK(st) ==
    /\ st \in Seq(Frame) /\ Len(st) >= 1
    /\ st[Len(st)].k = "code" /\ st[Len(st)].sig = None
    /\ \A i \in 1 .. Len(st) : i < Len(st) => Above(st[i], st[i + 1])
    /\ \A i, j \in 1 .. Len(st) : NextCode(st, i, j) => Knows(st[i], st[j])

(***************************************************************************)
(* The inductive invariant.                                                *)
(***************************************************************************)
Types ==
    /\ pending \subseteq Sig /\ installed \subseteq Sig /\ handlers \subseteq Sig
    /\ limit \in BOOLEAN /\ action_pending \in BOOLEAN /\ requested \in BOOLEAN
    /\ external \in BOOLEAN /\ finalising \in BOOLEAN /\ ticking \in BOOLEAN
    /\ todo \in 0 .. MaxFin
    /\ mask \in [Thread -> SUBSET Sig]
    /\ recording \in [Thread -> Sig \cup {None}]
    /\ holder \in Thread \cup {None}
    /\ profile \in Profiles
    /\ calls \in 0 .. profile.calls /\ events \in 0 .. profile.events
    /\ fresh \subseteq pending

\* The stacks have their shape, and the masks are those of their innermost code.
StacksInv ==
    /\ stack = [t \in Thread |-> stack[t]]
    /\ \A t \in Thread : StackOK(stack[t])
    /\ \A t \in Thread : Wants(stack[t], mask[t])

\* Who does not have the master lock waits for it or is in a blocking section.
Away(f) == \/ f.k = "gc" /\ f.at = "wait"
           \/ f.k = "block" /\ f.at \in {"test", "back", "inside", "leave"}
HolderInv == \A t \in Thread : t # holder <=> Away(Top(t))

\* A handler or finaliser fits on top of whatever is not code.
Codes(st) == Cardinality({i \in 1 .. Len(st) : st[i].k = "code"})
NestInv == \A t \in Thread : /\ Codes(stack[t]) <= profile.nest
                             /\ Top(t).k # "code" => Codes(stack[t]) < profile.nest

\* The snapshot of a scan that runs is of signals that are pending.
ScanInv == \A t \in Thread : Top(t).k = "scan" => Top(t).curr \subseteq pending

\* A signal comes only when it has a handler, or is about to have one.
HandlerInv ==
    \A s \in installed \cup pending :
        \/ s \in handlers
        \/ \E t \in Thread : /\ t = holder /\ Top(t).k = "install" /\ Top(t).at = "store"
                             /\ Top(t).act = "handle" /\ Top(t).sig = s

Urgent(st) == \E i \in 1 .. Len(st) : st[i].k = "gc" /\ st[i].by = "urgent"
UrgentInv == \A t \in Thread : Urgent(stack[t]) => profile.urgent

\* Who examines a signal, other than for Sys.signal: an exception of a handler
\* that runs there ends it.
Watches(st, i, s) ==
    \/ st[i].k = "gc" /\ st[i].by \in {"actions", "alloc"} /\ st[i].at # "final"
    \/ st[i].k = "scan" /\ s \in Due(st[i]) /\ st[i + 1].k = "gc"
Watching(st, s) == \E i \in 1 .. Len(st) : Watches(st, i, s)
NoticedInv ==
    ~profile.urgent /\ ~profile.raises =>
        \A s \in fresh :
            \/ limit \/ action_pending
            \/ \E t \in Thread : \/ recording[t] = s
                                \/ Watching(stack[t], s)

\* Who calls the finalisers.
Calling(st) == \E i \in 1 .. Len(st) : st[i].k = "gc" /\ st[i].by = "actions"
ReadyInv ==
    todo > 0 /\ ~profile.raises =>
        action_pending \/ finalising \/ \E t \in Thread : Calling(stack[t])

IInv ==
    /\ Types /\ StacksInv /\ HolderInv /\ NestInv /\ ScanInv /\ HandlerInv
    /\ UrgentInv /\ NoticedInv /\ RequestsNoticed /\ ReadyInv

(***************************************************************************)
(* Stacks: a frame is pushed, or the top one popped.                       *)
(***************************************************************************)
LEMMA Cons ==
    ASSUME NEW st \in Seq(Frame), NEW f \in Frame
    PROVE  /\ <<f>> \o st \in Seq(Frame)
           /\ Len(<<f>> \o st) = Len(st) + 1
           /\ Len(st) \in Nat
           /\ (<<f>> \o st)[1] = f
           /\ \A i \in 1 .. Len(st) : (<<f>> \o st)[i + 1] = st[i]
           /\ \A i \in 1 .. Len(st) + 1 : i > 1 => /\ i - 1 \in 1 .. Len(st)
                                                  /\ (<<f>> \o st)[i] = st[i - 1]
OBVIOUS

LEMMA Uncons ==
    ASSUME NEW st \in Seq(Frame), Len(st) >= 1
    PROVE  /\ Tail(st) \in Seq(Frame)
           /\ Len(Tail(st)) = Len(st) - 1
           /\ Len(st) \in Nat
           /\ Head(st) = st[1] /\ st[1] \in Frame
           /\ \A i \in 1 .. Len(st) - 1 : Tail(st)[i] = st[i + 1]
           /\ \A i \in 1 .. Len(st) : i > 1 => /\ i - 1 \in 1 .. Len(Tail(st))
                                              /\ st[i] = Tail(st)[i - 1]
OBVIOUS

LEMMA PushOK ==
    ASSUME NEW st, NEW f \in Frame, NEW m, StackOK(st), Wants(st, m),
           Above(f, st[1]),
           f.k = "scan" => f.set = m,
           f.k = "code" /\ f.sig \in Sig => f.saved = m
    PROVE  /\ StackOK(<<f>> \o st)
           /\ Wants(<<f>> \o st, IF f.k = "code" THEN f.want ELSE m)
<1> DEFINE r == <<f>> \o st
<1>0. st \in Seq(Frame) /\ Len(st) \in Nat /\ Len(st) >= 1
    BY DEF StackOK
<1>1. /\ r \in Seq(Frame) /\ Len(r) = Len(st) + 1 /\ r[1] = f
      /\ \A i \in 1 .. Len(r) : i > 1 => i - 1 \in 1 .. Len(st) /\ r[i] = st[i - 1]
      /\ \A i \in 1 .. Len(st) : i + 1 \in 1 .. Len(r) /\ r[i + 1] = st[i]
    BY <1>0, Cons
<1> HIDE DEF r
<1>2. r[Len(r)].k = "code" /\ r[Len(r)].sig = None
    BY <1>0, <1>1 DEF StackOK
<1>3. ASSUME NEW i \in 1 .. Len(r), i < Len(r) PROVE Above(r[i], r[i + 1])
    <2>1. CASE i = 1
        BY <1>0, <1>1, <2>1
    <2>2. CASE i > 1
        <3>1. i - 1 \in 1 .. Len(st) /\ i - 1 < Len(st) /\ (i - 1) + 1 = i
            BY <1>0, <1>1, <1>3, <2>2
        <3>2. Above(st[i - 1], st[(i - 1) + 1])
            BY <3>1 DEF StackOK
        <3>3. r[i] = st[i - 1] /\ r[i + 1] = st[i] /\ i \in 1 .. Len(st)
            BY <1>0, <1>1, <1>3, <2>2
        <3> QED
            BY <3>1, <3>2, <3>3
    <2> QED
        BY <2>1, <2>2
<1>4. ASSUME NEW i \in 0 .. Len(r), NEW j \in 1 .. Len(r), NextCode(r, i, j), j > 1
      PROVE  /\ j - 1 \in 1 .. Len(st) /\ r[j] = st[j - 1]
             /\ NextCode(st, IF i = 0 THEN 0 ELSE i - 1, j - 1)
             /\ i = 0 => f.k # "code"
    <2>1. j - 1 \in 1 .. Len(st) /\ r[j] = st[j - 1] /\ 1 \in 1 .. Len(r)
        BY <1>0, <1>1, <1>4
    <2>2. ASSUME NEW x \in 1 .. Len(st), (IF i = 0 THEN 0 ELSE i - 1) < x, x < j - 1
          PROVE  st[x].k # "code"
        <3>1. x + 1 \in 1 .. Len(r) /\ i < x + 1 /\ x + 1 < j /\ r[x + 1] = st[x]
            BY <1>0, <1>1, <2>2
        <3> QED
            BY <1>4, <3>1 DEF NextCode
    <2>3. (IF i = 0 THEN 0 ELSE i - 1) < j - 1
        BY <1>4 DEF NextCode
    <2> QED
        BY <1>1, <1>4, <2>1, <2>2, <2>3 DEF NextCode
<1>5. ASSUME NEW i \in 1 .. Len(r), NEW j \in 1 .. Len(r), NextCode(r, i, j)
      PROVE  Knows(r[i], r[j])
    <2>0. j > 1
        BY <1>5 DEF NextCode
    <2>1. j - 1 \in 1 .. Len(st) /\ r[j] = st[j - 1] /\ NextCode(st, i - 1, j - 1)
        BY <1>4, <1>5, <2>0
    <2>2. CASE i = 1
        <3>1. NextCode(st, 0, j - 1)
            BY <2>1, <2>2
        <3>2. m = st[j - 1].want
            BY <2>1, <3>1 DEF Wants
        <3> QED
            BY <1>1, <2>1, <2>2, <3>2 DEF Knows
    <2>3. CASE i > 1
        <3>1. i - 1 \in 1 .. Len(st) /\ r[i] = st[i - 1]
            BY <1>1, <2>3
        <3> QED
            BY <2>1, <3>1 DEF StackOK
    <2> QED
        BY <2>2, <2>3
<1>6. StackOK(r)
    BY <1>0, <1>1, <1>2, <1>3, <1>5 DEF StackOK
<1>7. ASSUME NEW j \in 1 .. Len(r), NextCode(r, 0, j)
      PROVE  (IF f.k = "code" THEN f.want ELSE m) = r[j].want
    <2>1. CASE j = 1
        BY <1>1, <1>7, <2>1 DEF NextCode
    <2>2. CASE j > 1
        BY <1>4, <1>7, <2>2 DEF Wants
    <2> QED
        BY <2>1, <2>2
<1> QED
    BY <1>6, <1>7 DEF r, Wants

LEMMA PopOK ==
    ASSUME NEW st, NEW m, StackOK(st), Wants(st, m),
           st[1].k # "code" \/ st[1].sig # None
    PROVE  /\ Len(st) > 1
           /\ StackOK(Tail(st))
           /\ Above(st[1], Tail(st)[1])
           /\ st[1].k # "code" => Wants(Tail(st), m)
           /\ st[1].k = "code" /\ st[1].sig \in Sig => Wants(Tail(st), st[1].saved)
<1> DEFINE r == Tail(st)
<1>0. st \in Seq(Frame) /\ Len(st) \in Nat /\ Len(st) > 1
    BY DEF StackOK
<1>1. /\ r \in Seq(Frame) /\ Len(r) = Len(st) - 1
      /\ \A i \in 1 .. Len(r) : i + 1 \in 1 .. Len(st) /\ r[i] = st[i + 1]
    BY <1>0, Uncons
<1> HIDE DEF r
<1>2. r[Len(r)].k = "code" /\ r[Len(r)].sig = None
    BY <1>0, <1>1 DEF StackOK
<1>3. ASSUME NEW i \in 1 .. Len(r), i < Len(r) PROVE Above(r[i], r[i + 1])
    <2>1. i + 1 \in 1 .. Len(st) /\ i + 1 < Len(st) /\ i + 1 \in 1 .. Len(r)
        BY <1>0, <1>1, <1>3
    <2>2. Above(st[i + 1], st[(i + 1) + 1])
        BY <2>1 DEF StackOK
    <2> QED
        BY <1>1, <2>1, <2>2
<1>4. ASSUME NEW i \in 0 .. Len(r), NEW j \in 1 .. Len(r), NextCode(r, i, j)
      PROVE  NextCode(st, i + 1, j + 1) /\ (i = 0 /\ st[1].k # "code" => NextCode(st, 0, j + 1))
    <2>1. ASSUME NEW x \in 1 .. Len(st), i + 1 < x, x < j + 1 PROVE st[x].k # "code"
        <3>1. x - 1 \in 1 .. Len(r) /\ i < x - 1 /\ x - 1 < j /\ r[x - 1] = st[(x - 1) + 1]
            BY <1>0, <1>1, <2>1
        <3>2. (x - 1) + 1 = x
            OBVIOUS
        <3> QED
            BY <1>4, <3>1, <3>2 DEF NextCode
    <2>2. i + 1 < j + 1 /\ st[j + 1].k = "code" /\ 0 < j + 1
        BY <1>1, <1>4 DEF NextCode
    <2>3. NextCode(st, i + 1, j + 1)
        BY <2>1, <2>2 DEF NextCode
    <2>4. ASSUME i = 0, st[1].k # "code", NEW x \in 1 .. Len(st), x < j + 1
          PROVE  st[x].k # "code"
        <3>1. CASE x = 1
            BY <2>4, <3>1
        <3>2. CASE x > 1
            BY <2>1, <2>4, <3>2
        <3> QED
            BY <3>1, <3>2
    <2> QED
        BY <2>2, <2>3, <2>4 DEF NextCode
<1>5. ASSUME NEW i \in 1 .. Len(r), NEW j \in 1 .. Len(r), NextCode(r, i, j)
      PROVE  Knows(r[i], r[j])
    <2>1. NextCode(st, i + 1, j + 1)
        BY <1>4, <1>5
    <2>2. i + 1 \in 1 .. Len(st) /\ j + 1 \in 1 .. Len(st) /\ r[i] = st[i + 1] /\ r[j] = st[j + 1]
        BY <1>1
    <2> QED
        BY <2>1, <2>2 DEF StackOK
<1>6. StackOK(r)
    BY <1>0, <1>1, <1>2, <1>3, <1>5 DEF StackOK
<1>7. Above(st[1], r[1])
    <2>1. Above(st[1], st[1 + 1])
        BY <1>0 DEF StackOK
    <2> QED
        BY <1>0, <1>1, <2>1
<1>8. ASSUME st[1].k # "code" PROVE Wants(r, m)
    <2>1. ASSUME NEW j \in 1 .. Len(r), NextCode(r, 0, j) PROVE m = r[j].want
        <3>1. NextCode(st, 0, j + 1) /\ j + 1 \in 1 .. Len(st) /\ r[j] = st[j + 1]
            BY <1>1, <1>4, <1>8, <2>1
        <3> QED
            BY <3>1 DEF Wants
    <2> QED
        BY <2>1 DEF Wants
<1>9. ASSUME st[1].k = "code", st[1].sig \in Sig PROVE Wants(r, st[1].saved)
    <2>1. ASSUME NEW j \in 1 .. Len(r), NextCode(r, 0, j) PROVE st[1].saved = r[j].want
        <3>1. NextCode(st, 0 + 1, j + 1) /\ j + 1 \in 1 .. Len(st) /\ r[j] = st[j + 1]
            BY <1>1, <1>4, <2>1
        <3>2. Knows(st[1], st[j + 1])
            BY <1>0, <3>1 DEF StackOK
        <3> QED
            BY <1>9, <3>1, <3>2 DEF Knows
    <2> QED
        BY <2>1 DEF Wants
<1> QED
    BY <1>0, <1>6, <1>7, <1>8, <1>9 DEF r

(***************************************************************************)
(* What the other invariants see of a stack.                               *)
(***************************************************************************)
LEMMA Shift ==
    ASSUME NEW C \in SUBSET Nat, IsFiniteSet(C), NEW D,
           D = {i + 1 : i \in C}
    PROVE  IsFiniteSet(D) /\ Cardinality(D) = Cardinality(C)
<1> DEFINE g == [i \in C |-> i + 1]
<1>1. g \in Bijection(C, D)
    <2>1. g \in [C -> D]
        OBVIOUS
    <2>2. \A i, j \in C : g[i] = g[j] => i = j
        OBVIOUS
    <2>3. \A d \in D : \E i \in C : g[i] = d
        OBVIOUS
    <2> HIDE DEF g
    <2> QED
        BY <2>1, <2>2, <2>3, Fun_IsBij
<1> HIDE DEF g
<1>2. ExistsBijection(C, D)
    BY <1>1 DEF ExistsBijection
<1> QED
    BY <1>2, FS_Bijection, FS_SameCardinalityBij

LEMMA CodesNat ==
    ASSUME NEW st \in Seq(Frame)
    PROVE  Codes(st) \in Nat
<1>1. IsFiniteSet(1 .. Len(st)) /\ {i \in 1 .. Len(st) : st[i].k = "code"} \subseteq 1 .. Len(st)
    BY FS_Interval
<1>2. IsFiniteSet({i \in 1 .. Len(st) : st[i].k = "code"})
    BY <1>1, FS_Subset
<1> QED
    BY <1>2, FS_CardinalityType DEF Codes

LEMMA CodesPush ==
    ASSUME NEW st \in Seq(Frame), NEW f \in Frame
    PROVE  /\ Codes(st) \in Nat
           /\ Codes(<<f>> \o st) = IF f.k = "code" THEN Codes(st) + 1 ELSE Codes(st)
<1> DEFINE r == <<f>> \o st
           C == {i \in 1 .. Len(st) : st[i].k = "code"}
           D == {i + 1 : i \in C}
           E == {i \in 1 .. Len(r) : r[i].k = "code"}
<1>1. /\ r \in Seq(Frame) /\ Len(r) = Len(st) + 1 /\ r[1] = f /\ Len(st) \in Nat
      /\ \A i \in 1 .. Len(r) : i > 1 => i - 1 \in 1 .. Len(st) /\ r[i] = st[i - 1]
      /\ \A i \in 1 .. Len(st) : i + 1 \in 1 .. Len(r) /\ r[i + 1] = st[i]
    BY Cons
<1>2. IsFiniteSet(C) /\ C \in SUBSET Nat
    <2>1. IsFiniteSet(1 .. Len(st)) /\ C \subseteq 1 .. Len(st)
        BY <1>1, FS_Interval
    <2> QED
        BY <2>1, FS_Subset
<1>3. IsFiniteSet(D) /\ Cardinality(D) = Cardinality(C)
    <2> HIDE DEF C
    <2> QED
        BY <1>2, Shift
<1>4. \A i : i \in E <=> i \in D \/ (i = 1 /\ f.k = "code")
    <2> HIDE DEF r
    <2>1. ASSUME NEW i \in E, i # 1 PROVE i \in D
        <3>1. i - 1 \in 1 .. Len(st) /\ r[i] = st[i - 1]
            BY <1>1, <2>1
        <3>2. i - 1 \in C /\ (i - 1) + 1 = i
            BY <2>1, <3>1
        <3> QED
            BY <3>2
    <2>2. ASSUME NEW i \in D PROVE i \in E
        BY <1>1, <2>2
    <2>3. 1 \in E <=> f.k = "code"
        BY <1>1
    <2>4. 1 \notin D
        OBVIOUS
    <2> QED
        BY <2>1, <2>2, <2>3, <2>4
<1>5. 1 \notin D
    OBVIOUS
<1>6. Codes(st) = Cardinality(C) /\ Codes(r) = Cardinality(E)
    BY DEF Codes
<1>7. Cardinality(C) \in Nat
    BY <1>2, FS_CardinalityType
<1> HIDE DEF C, D, E, r
<1>8. CASE f.k = "code"
    <2>1. E = D \cup {1}
        BY <1>4, <1>8
    <2>2. Cardinality(E) = Cardinality(D) + 1
        BY <1>3, <1>5, <2>1, FS_AddElement
    <2> QED
        BY <1>3, <1>6, <1>7, <1>8, <2>2 DEF r
<1>9. CASE f.k # "code"
    <2>1. E = D
        BY <1>4, <1>9
    <2> QED
        BY <1>3, <1>6, <1>7, <1>9, <2>1 DEF r
<1> QED
    BY <1>8, <1>9

LEMMA SeenPush ==
    ASSUME NEW st, StackOK(st), NEW f \in Frame
    PROVE  /\ Urgent(<<f>> \o st) <=> (f.k = "gc" /\ f.by = "urgent") \/ Urgent(st)
           /\ Calling(<<f>> \o st) <=> (f.k = "gc" /\ f.by = "actions") \/ Calling(st)
           /\ \A s : Watching(<<f>> \o st, s) <=>
                \/ f.k = "gc" /\ f.by \in {"actions", "alloc"} /\ f.at # "final"
                \/ f.k = "scan" /\ s \in Due(f) /\ (<<f>> \o st)[2].k = "gc"
                \/ Watching(st, s)
<1> DEFINE r == <<f>> \o st
<1>1. /\ r \in Seq(Frame) /\ Len(r) = Len(st) + 1 /\ r[1] = f /\ Len(st) \in Nat
      /\ \A i \in 1 .. Len(r) : i > 1 => i - 1 \in 1 .. Len(st) /\ r[i] = st[i - 1]
      /\ \A i \in 1 .. Len(st) : i + 1 \in 1 .. Len(r) /\ r[i + 1] = st[i]
    BY Cons DEF StackOK
<1> HIDE DEF r
<1>2. Urgent(r) <=> (f.k = "gc" /\ f.by = "urgent") \/ Urgent(st)
    <2>1. ASSUME NEW i \in 1 .. Len(r), r[i].k = "gc", r[i].by = "urgent"
          PROVE  (f.k = "gc" /\ f.by = "urgent") \/ Urgent(st)
        BY <1>1, <2>1 DEF Urgent
    <2>2. ASSUME (f.k = "gc" /\ f.by = "urgent") \/ Urgent(st) PROVE Urgent(r)
        <3>1. CASE f.k = "gc" /\ f.by = "urgent"
            <4>1. 1 \in 1 .. Len(r)
                BY <1>1
            <4> QED
                BY <1>1, <3>1, <4>1 DEF Urgent
        <3>2. CASE Urgent(st)
            BY <1>1, <3>2 DEF Urgent
        <3> QED
            BY <2>2, <3>1, <3>2
    <2> QED
        BY <2>1, <2>2 DEF Urgent
<1>3. Calling(r) <=> (f.k = "gc" /\ f.by = "actions") \/ Calling(st)
    <2>1. ASSUME NEW i \in 1 .. Len(r), r[i].k = "gc", r[i].by = "actions"
          PROVE  (f.k = "gc" /\ f.by = "actions") \/ Calling(st)
        BY <1>1, <2>1 DEF Calling
    <2>2. ASSUME (f.k = "gc" /\ f.by = "actions") \/ Calling(st) PROVE Calling(r)
        <3>1. CASE f.k = "gc" /\ f.by = "actions"
            <4>1. 1 \in 1 .. Len(r)
                BY <1>1
            <4> QED
                BY <1>1, <3>1, <4>1 DEF Calling
        <3>2. CASE Calling(st)
            BY <1>1, <3>2 DEF Calling
        <3> QED
            BY <2>2, <3>1, <3>2
    <2> QED
        BY <2>1, <2>2 DEF Calling
<1>4. ASSUME NEW s
      PROVE  Watching(r, s) <=>
                \/ f.k = "gc" /\ f.by \in {"actions", "alloc"} /\ f.at # "final"
                \/ f.k = "scan" /\ s \in Due(f) /\ r[2].k = "gc"
                \/ Watching(st, s)
    <2>1. ASSUME NEW i \in 1 .. Len(st) PROVE Watches(r, i + 1, s) <=> Watches(st, i, s)
        <3>1. r[i + 1] = st[i]
            BY <1>1
        <3>2. CASE i < Len(st)
            <4>1. r[(i + 1) + 1] = st[i + 1]
                BY <1>1, <3>2
            <4> QED
                BY <3>1, <4>1 DEF Watches
        <3>3. CASE i = Len(st)
            <4>1. st[i].k = "code"
                BY <3>3 DEF StackOK
            <4> QED
                BY <3>1, <4>1 DEF Watches
        <3> QED
            BY <1>1, <3>2, <3>3
    <2>2. Watches(r, 1, s) <=>
                \/ f.k = "gc" /\ f.by \in {"actions", "alloc"} /\ f.at # "final"
                \/ f.k = "scan" /\ s \in Due(f) /\ r[2].k = "gc"
        <3>1. r[1] = f /\ r[1 + 1] = r[2]
            BY <1>1
        <3> QED
            BY <3>1 DEF Watches
    <2>3. Watching(r, s) => Watches(r, 1, s) \/ Watching(st, s)
        <3> SUFFICES ASSUME NEW i \in 1 .. Len(r), Watches(r, i, s), i # 1
                     PROVE  Watching(st, s)
            BY DEF Watching
        <3>1. i - 1 \in 1 .. Len(st) /\ (i - 1) + 1 = i
            BY <1>1
        <3>2. Watches(st, i - 1, s)
            BY <2>1, <3>1
        <3> QED
            BY <3>1, <3>2 DEF Watching
    <2>4. Watches(r, 1, s) => Watching(r, s)
        <3>1. 1 \in 1 .. Len(r)
            BY <1>1
        <3> QED
            BY <3>1 DEF Watching
    <2>5. Watching(st, s) => Watching(r, s)
        BY <1>1, <2>1 DEF Watching
    <2> QED
        BY <2>2, <2>3, <2>4, <2>5
<1> QED
    BY <1>2, <1>3, <1>4 DEF r

\* The same for the frame on top of a stack.
LEMMA SeenPop ==
    ASSUME NEW st, StackOK(st), Len(st) > 1, StackOK(Tail(st))
    PROVE  /\ Codes(Tail(st)) \in Nat
           /\ Codes(st) = IF st[1].k = "code" THEN Codes(Tail(st)) + 1 ELSE Codes(Tail(st))
           /\ Urgent(st) <=> (st[1].k = "gc" /\ st[1].by = "urgent") \/ Urgent(Tail(st))
           /\ Calling(st) <=> (st[1].k = "gc" /\ st[1].by = "actions") \/ Calling(Tail(st))
           /\ \A s : Watching(st, s) <=>
                \/ st[1].k = "gc" /\ st[1].by \in {"actions", "alloc"} /\ st[1].at # "final"
                \/ st[1].k = "scan" /\ s \in Due(st[1]) /\ Tail(st)[1].k = "gc"
                \/ Watching(Tail(st), s)
<1>1. st \in Seq(Frame) /\ Len(st) \in Nat
    BY DEF StackOK
<1>2. Tail(st) \in Seq(Frame) /\ st[1] \in Frame /\ st = <<st[1]>> \o Tail(st) /\ st[2] = Tail(st)[1]
    BY <1>1
<1>3. /\ Codes(Tail(st)) \in Nat
      /\ Codes(st) = IF st[1].k = "code" THEN Codes(Tail(st)) + 1 ELSE Codes(Tail(st))
    BY <1>2, CodesPush
<1> DEFINE f == st[1]
           r == Tail(st)
           w == <<f>> \o r
<1>4. /\ Urgent(w) <=> (f.k = "gc" /\ f.by = "urgent") \/ Urgent(r)
      /\ Calling(w) <=> (f.k = "gc" /\ f.by = "actions") \/ Calling(r)
      /\ \A s : Watching(w, s) <=>
                \/ f.k = "gc" /\ f.by \in {"actions", "alloc"} /\ f.at # "final"
                \/ f.k = "scan" /\ s \in Due(f) /\ w[2].k = "gc"
                \/ Watching(r, s)
    BY <1>2, SeenPush
<1>5. w = st /\ st[2] = r[1]
    BY <1>2
<1> HIDE DEF w, f, r
<1>6. /\ Urgent(st) <=> (f.k = "gc" /\ f.by = "urgent") \/ Urgent(r)
      /\ Calling(st) <=> (f.k = "gc" /\ f.by = "actions") \/ Calling(r)
      /\ \A s : Watching(st, s) <=>
                \/ f.k = "gc" /\ f.by \in {"actions", "alloc"} /\ f.at # "final"
                \/ f.k = "scan" /\ s \in Due(f) /\ r[1].k = "gc"
                \/ Watching(r, s)
    BY <1>4, <1>5
<1> QED
    BY <1>3, <1>6 DEF f, r

(***************************************************************************)
(* The frame on top.                                                       *)
(***************************************************************************)
LEMMA FrameIs ==
    ASSUME NEW f \in Frame
    PROVE  /\ f.k \in {"code", "gc", "scan", "block", "install"}
           /\ f.k = "code" => f \in CodeFrame
           /\ f.k = "gc" => f \in GcFrame
           /\ f.k = "scan" => f \in ScanFrame
           /\ f.k = "block" => f \in BlockFrame
           /\ f.k = "install" => f \in InstallFrame
BY DEF Frame, CodeFrame, GcFrame, ScanFrame, BlockFrame, InstallFrame

LEMMA BlockGoto ==
    ASSUME NEW f \in BlockFrame,
           NEW l \in {"poll", "release", "test", "back", "inside", "leave", "poll again"}
    PROVE  LET g == [f EXCEPT !.at = l]
           IN  /\ g \in BlockFrame /\ g \in Frame
               /\ g.k = "block" /\ g.new = f.new /\ g.at = l
BY DEF Frame, BlockFrame

LEMMA InstallGoto ==
    ASSUME NEW f \in InstallFrame, NEW l \in {"sigaction", "store", "signals", "final"}
    PROVE  LET g == [f EXCEPT !.at = l]
           IN  /\ g \in InstallFrame /\ g \in Frame
               /\ g.k = "install" /\ g.sig = f.sig /\ g.act = f.act /\ g.at = l
BY DEF Frame, InstallFrame

LEMMA TopIs ==
    ASSUME IInv, NEW t \in Thread
    PROVE  /\ StackOK(stack[t]) /\ Wants(stack[t], mask[t])
           /\ stack[t] \in Seq(Frame) /\ Len(stack[t]) \in Nat /\ Len(stack[t]) >= 1
           /\ Top(t) = stack[t][1] /\ Top(t) \in Frame
           /\ Below(t) = Tail(stack[t])
           /\ Codes(stack[t]) <= profile.nest
           /\ Top(t).k # "code" => Codes(stack[t]) < profile.nest
           /\ Urgent(stack[t]) => profile.urgent
           /\ t # holder <=> Away(Top(t))
<1>1. StackOK(stack[t]) /\ Wants(stack[t], mask[t])
    BY DEF IInv, StacksInv
<1>2. stack[t] \in Seq(Frame) /\ Len(stack[t]) \in Nat /\ Len(stack[t]) >= 1
    BY <1>1 DEF StackOK
<1>3. Top(t) = stack[t][1] /\ Top(t) \in Frame
    BY <1>2, Uncons DEF Top
<1> QED
    BY <1>1, <1>2, <1>3 DEF IInv, NestInv, UrgentInv, HolderInv, Below

LEMMA BelowIs ==
    ASSUME IInv, NEW t \in Thread, Top(t).k # "code" \/ Top(t).sig # None
    PROVE  LET r == Tail(stack[t])
           IN  /\ Len(stack[t]) > 1 /\ StackOK(r) /\ Above(Top(t), r[1])
               /\ r \in Seq(Frame) /\ Len(r) >= 1
               /\ Top(t).k # "code" => Wants(r, mask[t])
               /\ Top(t).k = "code" /\ Top(t).sig \in Sig => Wants(r, Top(t).saved)
               /\ Codes(r) \in Nat
               /\ Codes(stack[t]) = IF Top(t).k = "code" THEN Codes(r) + 1 ELSE Codes(r)
               /\ Urgent(stack[t]) <=> (Top(t).k = "gc" /\ Top(t).by = "urgent") \/ Urgent(r)
               /\ Calling(stack[t]) <=> (Top(t).k = "gc" /\ Top(t).by = "actions") \/ Calling(r)
               /\ \A s : Watching(stack[t], s) <=>
                    \/ Top(t).k = "gc" /\ Top(t).by \in {"actions", "alloc"} /\ Top(t).at # "final"
                    \/ Top(t).k = "scan" /\ s \in Due(Top(t)) /\ r[1].k = "gc"
                    \/ Watching(r, s)
<1> DEFINE st == stack[t]
<1>1. StackOK(st) /\ Wants(st, mask[t]) /\ Top(t) = st[1]
    BY TopIs
<1> HIDE DEF st
<1>2. /\ Len(st) > 1 /\ StackOK(Tail(st)) /\ Above(st[1], Tail(st)[1])
      /\ st[1].k # "code" => Wants(Tail(st), mask[t])
      /\ st[1].k = "code" /\ st[1].sig \in Sig => Wants(Tail(st), st[1].saved)
    BY <1>1, PopOK
<1>3. Tail(st) \in Seq(Frame) /\ Len(Tail(st)) >= 1
    BY <1>2 DEF StackOK
<1>4. /\ Codes(Tail(st)) \in Nat
      /\ Codes(st) = IF st[1].k = "code" THEN Codes(Tail(st)) + 1 ELSE Codes(Tail(st))
      /\ Urgent(st) <=> (st[1].k = "gc" /\ st[1].by = "urgent") \/ Urgent(Tail(st))
      /\ Calling(st) <=> (st[1].k = "gc" /\ st[1].by = "actions") \/ Calling(Tail(st))
      /\ \A s : Watching(st, s) <=>
                \/ st[1].k = "gc" /\ st[1].by \in {"actions", "alloc"} /\ st[1].at # "final"
                \/ st[1].k = "scan" /\ s \in Due(st[1]) /\ Tail(st)[1].k = "gc"
                \/ Watching(Tail(st), s)
    BY <1>1, <1>2, SeenPop
<1> QED
    BY <1>1, <1>2, <1>3, <1>4 DEF st

(***************************************************************************)
(* One rule per invariant, for a step that changes the stack of one        *)
(* thread only.                                                            *)
(***************************************************************************)
Others(t) == \A u \in Thread : u # t => stack'[u] = stack[u] /\ Top(u)' = Top(u)

LEMMA MoveRule ==
    ASSUME IInv, NEW t \in Thread, NEW n, NEW m,
           stack' = [stack EXCEPT ![t] = n], mask' = [mask EXCEPT ![t] = m], profile' = profile,
           StackOK(n), Wants(n, m),
           Codes(n) <= profile.nest, n[1].k # "code" => Codes(n) < profile.nest,
           Urgent(n) => profile.urgent
    PROVE  /\ StacksInv' /\ NestInv' /\ UrgentInv' /\ Others(t)
           /\ stack'[t] = n /\ Top(t)' = n[1]
<1>1. stack = [u \in Thread |-> stack[u]] /\ mask \in [Thread -> SUBSET Sig]
    BY DEF IInv, StacksInv, Types
<1>2. /\ stack' = [u \in Thread |-> stack'[u]]
      /\ stack'[t] = n /\ mask'[t] = m
      /\ \A u \in Thread : u # t => stack'[u] = stack[u] /\ mask'[u] = mask[u]
    BY <1>1
<1>3. Others(t)
    BY <1>2 DEF Others, Top
<1>4. Top(t)' = n[1]
    <2>1. n \in Seq(Frame) /\ Len(n) >= 1
        BY DEF StackOK
    <2>2. Head(n) = n[1]
        BY <2>1, Uncons
    <2> QED
        BY <1>2, <2>2 DEF Top
<1>5. StacksInv'
    BY <1>2 DEF IInv, StacksInv
<1>6. NestInv'
    BY <1>2, <1>3, <1>4 DEF IInv, NestInv, Others
<1>7. UrgentInv'
    BY <1>2 DEF IInv, UrgentInv
<1> QED
    BY <1>2, <1>3, <1>4, <1>5, <1>6, <1>7

LEMMA HolderRule ==
    ASSUME IInv, NEW t \in Thread, Others(t),
           \/ holder' = holder /\ (Away(Top(t)') <=> Away(Top(t)))
           \/ holder = t /\ holder' = None /\ Away(Top(t)')
           \/ holder = None /\ holder' = t /\ ~Away(Top(t)')
    PROVE  HolderInv'
<1>1. \A u \in Thread : u # holder <=> Away(Top(u))
    BY DEF IInv, HolderInv
<1>2. \A u \in Thread : u # t => Top(u)' = Top(u)
    BY DEF Others
<1>3. None \notin Thread
    BY SignalsAssumption
<1>4. \A u \in Thread : u # holder' <=> Away(Top(u)')
    BY <1>1, <1>2, <1>3
<1> QED
    BY <1>4 DEF HolderInv, Away

LEMMA ScanRule ==
    ASSUME IInv, NEW t \in Thread, Others(t),
           Top(t)'.k = "scan" => Top(t)'.curr \subseteq pending',
           pending \subseteq pending' \/ holder = t
    PROVE  ScanInv'
<1>1. ASSUME NEW u \in Thread, u # t, Top(u)'.k = "scan" PROVE Top(u)'.curr \subseteq pending'
    <2>1. Top(u)' = Top(u)
        BY <1>1 DEF Others
    <2>2. u = holder
        BY <1>1, <2>1 DEF IInv, HolderInv, Away
    <2>3. Top(u).curr \subseteq pending
        BY <1>1, <2>1 DEF IInv, ScanInv
    <2> QED
        BY <1>1, <2>1, <2>2, <2>3
<1> QED
    BY <1>1 DEF ScanInv

LEMMA HandlerRule ==
    ASSUME IInv, NEW t \in Thread, Others(t),
           installed' \cup pending' \subseteq installed \cup pending,
           handlers \subseteq handlers',
           ~(Top(t).k = "install" /\ Top(t).at = "store"),
           holder' = holder \/ holder = t \/ holder = None
    PROVE  HandlerInv'
<1>1. ASSUME NEW s \in installed' \cup pending', s \notin handlers'
      PROVE  \E u \in Thread : /\ u = holder' /\ Top(u)'.k = "install" /\ Top(u)'.at = "store"
                               /\ Top(u)'.act = "handle" /\ Top(u)'.sig = s
    <2>1. PICK u \in Thread : /\ u = holder /\ Top(u).k = "install" /\ Top(u).at = "store"
                              /\ Top(u).act = "handle" /\ Top(u).sig = s
        BY <1>1 DEF IInv, HandlerInv
    <2>2. u # t /\ holder' = holder
        BY <2>1, SignalsAssumption
    <2>3. Top(u)' = Top(u)
        BY <2>2 DEF Others
    <2> QED
        BY <2>1, <2>2, <2>3
<1> QED
    BY <1>1 DEF HandlerInv

LEMMA NoticedRule ==
    ASSUME IInv, NEW t \in Thread, Others(t), UNCHANGED <<profile, recording>>, fresh' \subseteq fresh,
           ~profile.urgent /\ ~profile.raises =>
              \A s \in fresh' :
                 limit \/ action_pending \/ Watching(stack[t], s) =>
                    limit' \/ action_pending' \/ Watching(stack'[t], s)
    PROVE  NoticedInv'
<1>1. ASSUME ~profile.urgent, ~profile.raises, NEW s \in fresh'
      PROVE  \/ limit' \/ action_pending'
             \/ \E u \in Thread : recording'[u] = s \/ Watching(stack'[u], s)
    <2>1. \/ limit \/ action_pending
          \/ \E u \in Thread : recording[u] = s \/ Watching(stack[u], s)
        BY <1>1 DEF IInv, NoticedInv
    <2>2. \A u \in Thread : u # t => stack'[u] = stack[u]
        BY DEF Others
    <2> QED
        BY <1>1, <2>1, <2>2
<1> QED
    BY <1>1 DEF NoticedInv

LEMMA ReadyRule ==
    ASSUME IInv, NEW t \in Thread, Others(t), profile' = profile,
           ~profile.raises /\ todo' > 0 =>
              \/ action_pending' \/ finalising' \/ Calling(stack'[t])
              \/ todo > 0 /\ ~action_pending /\ ~finalising /\ ~Calling(stack[t])
    PROVE  ReadyInv'
<1>1. \A u \in Thread : u # t => stack'[u] = stack[u]
    BY DEF Others
<1> QED
    BY <1>1 DEF IInv, ReadyInv

At(f, at) == f.k = "gc" /\ f.at = at

LEMMA RequestsAre ==
    ASSUME IInv, NEW t \in Thread, holder = t
    PROVE  /\ requested => limit \/ At(Top(t), "check")
           /\ external => limit \/ ticking \/ At(Top(t), "check") \/ At(Top(t), "hook")
BY DEF IInv, RequestsNoticed, At

LEMMA RequestsRule ==
    ASSUME holder' # None,
           requested' => limit' \/ At(Top(holder)', "check"),
           external' => limit' \/ ticking' \/ At(Top(holder)', "check") \/ At(Top(holder)', "hook")
    PROVE  RequestsNoticed'
BY DEF RequestsNoticed, At

LEMMA RequestsKept ==
    ASSUME IInv, NEW t \in Thread, Others(t), holder # t, UNCHANGED holder,
           UNCHANGED <<requested, external, ticking>>, limit => limit'
    PROVE  RequestsNoticed'
<1>1. CASE holder = None
    BY <1>1 DEF IInv, RequestsNoticed
<1>2. CASE holder # None
    <2>1. holder \in Thread
        BY <1>2 DEF IInv, Types
    <2>2. Top(holder)' = Top(holder)
        BY <2>1 DEF Others
    <2> QED
        BY <1>2, <2>2 DEF IInv, RequestsNoticed
<1> QED
    BY <1>1, <1>2

(***************************************************************************)
(* Steps that move to another label, call or return.                       *)
(***************************************************************************)
Good(n, m) ==
    /\ StackOK(n) /\ Wants(n, m)
    /\ Codes(n) <= profile.nest
    /\ n[1].k # "code" => Codes(n) < profile.nest
    /\ Urgent(n) => profile.urgent

LEMMA NestIs ==
    ASSUME IInv
    PROVE  profile.nest \in Nat /\ profile.nest > 1 /\ profile.calls \in Nat /\ profile.events \in Nat
           /\ profile.urgent \in BOOLEAN /\ profile.raises \in BOOLEAN
<1>1. profile \in [handled : SUBSET Sig, urgent : BOOLEAN, raises : BOOLEAN,
                           nest : Nat \ {0, 1}, calls : Nat, events : Nat]
    BY SignalsAssumption DEF IInv, Types
<1> QED
    BY <1>1

LEMMA PlaceOK ==
    ASSUME IInv, NEW r, NEW m, NEW g \in Frame,
           Good(r, m), Codes(r) < profile.nest,
           Above(g, r[1]),
           g.k = "scan" => g.set = m,
           g.k = "code" /\ g.sig \in Sig => g.saved = m,
           g.k = "gc" /\ g.by = "urgent" => profile.urgent
    PROVE  LET n == <<g>> \o r
           IN  /\ Good(n, IF g.k = "code" THEN g.want ELSE m)
               /\ Codes(n) = IF g.k = "code" THEN Codes(r) + 1 ELSE Codes(r)
               /\ n \in Seq(Frame) /\ Len(n) = Len(r) + 1 /\ n[1] = g /\ n[2] = r[1]
               /\ Calling(n) <=> (g.k = "gc" /\ g.by = "actions") \/ Calling(r)
               /\ \A s : Watching(n, s) <=>
                    \/ g.k = "gc" /\ g.by \in {"actions", "alloc"} /\ g.at # "final"
                    \/ g.k = "scan" /\ s \in Due(g) /\ r[1].k = "gc"
                    \/ Watching(r, s)
<1> DEFINE n == <<g>> \o r
<1>1. StackOK(r) /\ Wants(r, m) /\ r \in Seq(Frame) /\ Len(r) \in Nat /\ Len(r) >= 1
    BY DEF Good, StackOK
<1>2. n[1] = g /\ n[1 + 1] = r[1] /\ n \in Seq(Frame) /\ Len(n) = Len(r) + 1
    BY <1>1, Cons
<1>3. StackOK(n) /\ Wants(n, IF g.k = "code" THEN g.want ELSE m)
    BY <1>1, PushOK
<1>4. /\ Codes(r) \in Nat
      /\ Codes(n) = IF g.k = "code" THEN Codes(r) + 1 ELSE Codes(r)
    BY <1>1, CodesPush
<1>5. /\ Urgent(n) <=> (g.k = "gc" /\ g.by = "urgent") \/ Urgent(r)
      /\ Calling(n) <=> (g.k = "gc" /\ g.by = "actions") \/ Calling(r)
      /\ \A s : Watching(n, s) <=>
                \/ g.k = "gc" /\ g.by \in {"actions", "alloc"} /\ g.at # "final"
                \/ g.k = "scan" /\ s \in Due(g) /\ n[2].k = "gc"
                \/ Watching(r, s)
    BY <1>1, SeenPush
<1> HIDE DEF n
<1>6. Good(n, IF g.k = "code" THEN g.want ELSE m)
    BY <1>2, <1>3, <1>4, <1>5, NestIs DEF Good
<1>7. n[2] = r[1]
    BY <1>2
<1>8. \A s : Watching(n, s) <=>
                \/ g.k = "gc" /\ g.by \in {"actions", "alloc"} /\ g.at # "final"
                \/ g.k = "scan" /\ s \in Due(g) /\ r[1].k = "gc"
                \/ Watching(r, s)
    BY <1>5, <1>7
<1> QED
    BY <1>2, <1>4, <1>5, <1>6, <1>7, <1>8 DEF n

LEMMA TopGood ==
    ASSUME IInv, NEW t \in Thread
    PROVE  Good(stack[t], mask[t])
BY TopIs DEF Good

LEMMA BelowGood ==
    ASSUME IInv, NEW t \in Thread, Top(t).k # "code" \/ Top(t).sig # None
    PROVE  LET r == Tail(stack[t])
           IN  /\ Top(t).k # "code" => Good(r, mask[t])
               /\ Top(t).k = "code" /\ Top(t).sig \in Sig => Good(r, Top(t).saved)
               /\ Codes(r) < profile.nest
<1> DEFINE r == Tail(stack[t])
<1>1. /\ StackOK(r)
      /\ Top(t).k # "code" => Wants(r, mask[t])
      /\ Top(t).k = "code" /\ Top(t).sig \in Sig => Wants(r, Top(t).saved)
      /\ Codes(r) \in Nat
      /\ Codes(stack[t]) = IF Top(t).k = "code" THEN Codes(r) + 1 ELSE Codes(r)
      /\ Urgent(r) => Urgent(stack[t])
    BY BelowIs
<1>2. /\ Codes(stack[t]) <= profile.nest
      /\ Top(t).k # "code" => Codes(stack[t]) < profile.nest
      /\ Urgent(stack[t]) => profile.urgent
    BY TopIs
<1> HIDE DEF r
<1>3. Codes(r) < profile.nest
    BY <1>1, <1>2, NestIs
<1>4. Codes(r) <= profile.nest
    BY <1>1, <1>3, NestIs
<1> QED
    BY <1>1, <1>2, <1>3, <1>4 DEF Good, r

\* What a step that replaces the stack of one thread by n, and its mask by m, keeps.
Moved(t, n) ==
    /\ StacksInv' /\ NestInv' /\ UrgentInv' /\ Others(t)
    /\ stack'[t] = n /\ Top(t)' = n[1]

LEMMA Moves ==
    ASSUME IInv, NEW t \in Thread, NEW n, NEW m, Good(n, m),
           stack' = [stack EXCEPT ![t] = n], mask' = [mask EXCEPT ![t] = m], profile' = profile
    PROVE  Moved(t, n)
BY MoveRule DEF Good, Moved

LEMMA MovesInMask ==
    ASSUME IInv, NEW t \in Thread, NEW n, Good(n, mask[t]),
           stack' = [stack EXCEPT ![t] = n], mask' = mask, profile' = profile
    PROVE  Moved(t, n)
<1>1. mask' = [mask EXCEPT ![t] = mask[t]]
    BY DEF IInv, Types
<1> QED
    BY <1>1, Moves

LEMMA GotoIs ==
    ASSUME IInv, NEW t \in Thread, NEW l, Goto(t, l), [Top(t) EXCEPT !.at = l] \in Frame
    PROVE  stack' = [stack EXCEPT ![t] = <<[Top(t) EXCEPT !.at = l]>> \o Tail(stack[t])]
<1> DEFINE st == stack[t]
           g == [Top(t) EXCEPT !.at = l]
           n == [st EXCEPT ![1].at = l]
           w == <<g>> \o Tail(st)
<1>1. st \in Seq(Frame) /\ Len(st) \in Nat /\ Len(st) >= 1 /\ Top(t) = st[1]
    BY TopIs
<1>2. st = [i \in 1 .. Len(st) |-> st[i]] /\ DOMAIN st = 1 .. Len(st)
    BY <1>1
<1>3. n = [i \in 1 .. Len(st) |-> IF i = 1 THEN g ELSE st[i]]
    BY <1>1, <1>2
<1>4. w \in Seq(Frame) /\ Len(w) = Len(st) /\ w[1] = g /\ \A i \in 1 .. Len(st) : i > 1 => w[i] = st[i]
    <2>1. Tail(st) \in Seq(Frame) /\ Len(Tail(st)) = Len(st) - 1
          /\ \A i \in 1 .. Len(st) : i > 1 => /\ i - 1 \in 1 .. Len(Tail(st))
                                             /\ st[i] = Tail(st)[i - 1]
        BY <1>1, Uncons
    <2> DEFINE r == Tail(st)
    <2> HIDE DEF g, r, st
    <2>2. /\ <<g>> \o r \in Seq(Frame)
           /\ Len(<<g>> \o r) = Len(r) + 1
           /\ (<<g>> \o r)[1] = g
           /\ \A i \in 1 .. Len(r) + 1 : i > 1 => /\ i - 1 \in 1 .. Len(r)
                                                  /\ (<<g>> \o r)[i] = r[i - 1]
        BY <2>1, Cons DEF r, g
    <2> QED
        BY <1>1, <2>1, <2>2 DEF r
<1>5. w = [i \in 1 .. Len(w) |-> w[i]]
    BY <1>4
<1>6. n = w
    <2> HIDE DEF n, w, g, st
    <2> QED
        BY <1>1, <1>3, <1>4, <1>5
<1>7. stack' = [stack EXCEPT ![t] = n]
    BY DEF Goto
<1> QED
    BY <1>6, <1>7 DEF w, g, st

LEMMA ReplaceOK ==
    ASSUME IInv, NEW t \in Thread, NEW g \in Frame,
           g.k = Top(t).k, g.k \in {"gc", "block", "install"}, g.k = "gc" => g.by = Top(t).by
    PROVE  LET n == <<g>> \o Tail(stack[t])
           IN  /\ Good(n, mask[t]) /\ n[1] = g
               /\ Calling(stack[t]) <=> Calling(n)
               /\ g.k # "gc" \/ g.at # "final" => \A s : Watching(stack[t], s) => Watching(n, s)
<1> DEFINE r == Tail(stack[t])
           n == <<g>> \o r
<1>1. /\ Good(r, mask[t]) /\ Codes(r) < profile.nest
    BY BelowGood
<1>2. /\ Above(Top(t), r[1])
      /\ Urgent(stack[t]) <=> (Top(t).k = "gc" /\ Top(t).by = "urgent") \/ Urgent(r)
      /\ Calling(stack[t]) <=> (Top(t).k = "gc" /\ Top(t).by = "actions") \/ Calling(r)
      /\ \A s : Watching(stack[t], s) <=>
                    \/ Top(t).k = "gc" /\ Top(t).by \in {"actions", "alloc"} /\ Top(t).at # "final"
                    \/ Top(t).k = "scan" /\ s \in Due(Top(t)) /\ r[1].k = "gc"
                    \/ Watching(r, s)
    BY BelowIs
<1>3. Urgent(stack[t]) => profile.urgent
    BY TopIs
<1>4. Above(g, r[1])
    BY <1>2 DEF Above
<1> HIDE DEF r
<1>5. /\ Good(n, IF g.k = "code" THEN g.want ELSE mask[t])
      /\ n[1] = g
      /\ Calling(n) <=> (g.k = "gc" /\ g.by = "actions") \/ Calling(r)
      /\ \A s : Watching(n, s) <=>
                    \/ g.k = "gc" /\ g.by \in {"actions", "alloc"} /\ g.at # "final"
                    \/ g.k = "scan" /\ s \in Due(g) /\ r[1].k = "gc"
                    \/ Watching(r, s)
    <2>1. g.k = "gc" /\ g.by = "urgent" => profile.urgent
        BY <1>2, <1>3
    <2> QED
        BY <1>1, <1>4, <2>1, PlaceOK
<1>6. Good(n, mask[t])
    BY <1>5
<1> HIDE DEF n
<1> QED
    BY <1>2, <1>5, <1>6 DEF n, r

\* A function under way goes on at another label.
LEMMA GotoRule ==
    ASSUME IInv, NEW t \in Thread, NEW l, Goto(t, l), mask' = mask, profile' = profile,
           NEW g \in Frame, g = [Top(t) EXCEPT !.at = l],
           g.k = Top(t).k, g.k \in {"gc", "block", "install"}, g.k = "gc" => g.by = Top(t).by
    PROVE  /\ Moved(t, stack'[t]) /\ Top(t)' = g
           /\ Calling(stack[t]) <=> Calling(stack'[t])
           /\ g.k # "gc" \/ g.at # "final" => \A s : Watching(stack[t], s) => Watching(stack'[t], s)
<1> DEFINE n == <<g>> \o Tail(stack[t])
<1>1. /\ Good(n, mask[t]) /\ n[1] = g
      /\ Calling(stack[t]) <=> Calling(n)
      /\ g.k # "gc" \/ g.at # "final" => \A s : Watching(stack[t], s) => Watching(n, s)
    BY ReplaceOK
<1>2. stack' = [stack EXCEPT ![t] = n]
    BY GotoIs
<1> HIDE DEF n
<1>3. Moved(t, n)
    BY <1>1, <1>2, MovesInMask
<1>4. stack'[t] = n /\ Top(t)' = g
    BY <1>1, <1>3 DEF Moved
<1> QED
    BY <1>1, <1>3, <1>4

\* A function is called.
LEMMA PushRule ==
    ASSUME IInv, NEW t \in Thread, NEW g \in Frame, Push(t, g), mask' = mask, profile' = profile,
           Codes(stack[t]) < profile.nest, Above(g, Top(t)),
           g.k \in {"gc", "block", "install"} \/ (g.k = "code" /\ g.sig = Fin /\ g.want = mask[t]),
           g.k = "gc" /\ g.by = "urgent" => profile.urgent
    PROVE  /\ Moved(t, stack'[t]) /\ Top(t)' = g /\ Len(stack'[t]) = Len(stack[t]) + 1
           /\ Calling(stack'[t]) <=> (g.k = "gc" /\ g.by = "actions") \/ Calling(stack[t])
           /\ \A s : Watching(stack'[t], s) <=>
                        \/ g.k = "gc" /\ g.by \in {"actions", "alloc"} /\ g.at # "final"
                        \/ Watching(stack[t], s)
<1> DEFINE r == stack[t]
           n == <<g>> \o r
<1>1. Good(r, mask[t]) /\ r[1] = Top(t)
    BY TopGood, TopIs
<1>2. Fin \notin Sig
    BY SignalsAssumption
<1>3. stack' = [stack EXCEPT ![t] = n]
    BY DEF Push
<1> HIDE DEF r
<1>4. /\ Good(n, IF g.k = "code" THEN g.want ELSE mask[t])
      /\ n[1] = g /\ Len(n) = Len(r) + 1
      /\ Calling(n) <=> (g.k = "gc" /\ g.by = "actions") \/ Calling(r)
      /\ \A s : Watching(n, s) <=>
                    \/ g.k = "gc" /\ g.by \in {"actions", "alloc"} /\ g.at # "final"
                    \/ g.k = "scan" /\ s \in Due(g) /\ r[1].k = "gc"
                    \/ Watching(r, s)
    BY <1>1, <1>2, PlaceOK DEF r
<1>5. Good(n, mask[t])
    BY <1>4
<1> HIDE DEF n
<1>6. Moved(t, n)
    BY <1>3, <1>5, MovesInMask
<1>7. stack'[t] = n /\ Top(t)' = g
    BY <1>4, <1>6 DEF Moved
<1> QED
    BY <1>4, <1>6, <1>7 DEF r

\* A function other than code returns.
LEMMA PopRule ==
    ASSUME IInv, NEW t \in Thread, Pop(t), mask' = mask, profile' = profile, Top(t).k # "code"
    PROVE  /\ Moved(t, stack'[t]) /\ Above(Top(t), Top(t)') /\ ~(Len(stack'[t]) > Len(stack[t]))
           /\ Calling(stack[t]) <=> (Top(t).k = "gc" /\ Top(t).by = "actions") \/ Calling(stack'[t])
           /\ \A s : Watching(stack[t], s) <=>
                    \/ Top(t).k = "gc" /\ Top(t).by \in {"actions", "alloc"} /\ Top(t).at # "final"
                    \/ Top(t).k = "scan" /\ s \in Due(Top(t)) /\ Top(t)'.k = "gc"
                    \/ Watching(stack'[t], s)
<1> DEFINE r == Tail(stack[t])
<1>1. Good(r, mask[t])
    BY BelowGood
<1>2. /\ Above(Top(t), r[1])
      /\ Calling(stack[t]) <=> (Top(t).k = "gc" /\ Top(t).by = "actions") \/ Calling(r)
      /\ \A s : Watching(stack[t], s) <=>
                    \/ Top(t).k = "gc" /\ Top(t).by \in {"actions", "alloc"} /\ Top(t).at # "final"
                    \/ Top(t).k = "scan" /\ s \in Due(Top(t)) /\ r[1].k = "gc"
                    \/ Watching(r, s)
    BY BelowIs
<1>3. stack' = [stack EXCEPT ![t] = r]
    BY DEF Pop
<1>a. ~(Len(r) > Len(stack[t]))
    BY TopIs, Uncons
<1> HIDE DEF r
<1>4. Moved(t, r)
    BY <1>1, <1>3, MovesInMask
<1>5. stack'[t] = r /\ Top(t)' = r[1]
    BY <1>4 DEF Moved
<1> QED
    BY <1>2, <1>4, <1>5, <1>a

(***************************************************************************)
(* Steps that leave the stacks alone.                                      *)
(***************************************************************************)
LEMMA Still ==
    ASSUME IInv, UNCHANGED <<stack, mask, profile>>
    PROVE  /\ StacksInv' /\ NestInv' /\ UrgentInv'
           /\ \A t \in Thread : Others(t) /\ Top(t)' = Top(t)
           /\ HandlerDue
<1>1. \A t \in Thread : Top(t)' = Top(t)
    BY DEF Top
<1>2. StacksInv'
    BY DEF IInv, StacksInv
<1>3. NestInv'
    BY <1>1 DEF IInv, NestInv
<1>4. UrgentInv'
    BY DEF IInv, UrgentInv
<1>5. HandlerDue
    <2>1. \A t \in Thread : Len(stack[t]) \in Nat
        BY TopIs
    <2> QED
        BY <2>1 DEF HandlerDue, Starts
<1> QED
    BY <1>1, <1>2, <1>3, <1>4, <1>5 DEF Others

LEMMA StillHolds ==
    ASSUME IInv, UNCHANGED <<stack, mask, profile, holder, installed, handlers>>,
           pending \subseteq pending', pending' \subseteq pending \cup installed
    PROVE  HolderInv' /\ ScanInv' /\ HandlerInv'
<1>1. \A t \in Thread : Top(t)' = Top(t)
    BY Still
<1>2. HolderInv'
    BY <1>1 DEF IInv, HolderInv, Away
<1>3. ScanInv'
    BY <1>1 DEF IInv, ScanInv
<1>4. HandlerInv'
    BY <1>1 DEF IInv, HandlerInv
<1> QED
    BY <1>2, <1>3, <1>4

LEMMA StillRequests ==
    ASSUME IInv, UNCHANGED <<stack, mask, profile, holder, requested, external, ticking>>,
           limit => limit'
    PROVE  RequestsNoticed'
<1>1. CASE holder = None
    BY <1>1 DEF IInv, RequestsNoticed
<1>2. CASE holder # None
    <2>1. holder \in Thread
        BY <1>2 DEF IInv, Types
    <2>2. Top(holder)' = Top(holder)
        BY <2>1, Still
    <2> QED
        BY <1>2, <2>2 DEF IInv, RequestsNoticed
<1> QED
    BY <1>1, <1>2

LEMMA RecordSignal ==
    ASSUME IInv, NEW t \in Thread, NEW s \in Sig, caml_record_signal(t, s)
    PROVE  IInv' /\ HandlerDue
<1>0. /\ events < profile.events /\ events' = events + 1
      /\ recording[t] = None /\ s \in installed /\ s \notin mask[t]
      /\ pending' = pending \cup {s} /\ fresh' = fresh \cup {s}
      /\ recording' = [recording EXCEPT ![t] = s]
      /\ UNCHANGED <<limit, action_pending, requested, external, todo, finalising,
                   mask, holder, stack, installed, handlers, ticking, profile, calls>>
    BY DEF caml_record_signal, Event, async
<1>1. Types'
    BY <1>0, NestIs DEF IInv, Types
<1>2. StacksInv' /\ NestInv' /\ UrgentInv' /\ HandlerDue
    BY <1>0, Still
<1>3. HolderInv' /\ ScanInv' /\ HandlerInv'
    BY <1>0, StillHolds
<1>4. RequestsNoticed'
    BY <1>0, StillRequests
<1>5. NoticedInv'
    <2>1. ASSUME ~profile.urgent, ~profile.raises, NEW x \in fresh'
          PROVE  \/ limit' \/ action_pending'
                 \/ \E u \in Thread : recording'[u] = x \/ Watching(stack'[u], x)
        <3>0. recording \in [Thread -> Sig \cup {None}] /\ fresh \subseteq Sig /\ None \notin Sig
            BY SignalsAssumption DEF IInv, Types
        <3>1. CASE x = s
            BY <1>0, <3>0, <3>1
        <3>2. CASE x \in fresh
            <4>1. \/ limit \/ action_pending
                  \/ \E u \in Thread : recording[u] = x \/ Watching(stack[u], x)
                BY <2>1, <3>2 DEF IInv, NoticedInv
            <4>2. \A u \in Thread : recording[u] = x => recording'[u] = x
                BY <1>0, <3>0, <3>2
            <4> QED
                BY <1>0, <4>1, <4>2
        <3> QED
            BY <1>0, <2>1, <3>1, <3>2
    <2> QED
        BY <1>0, <2>1 DEF NoticedInv
<1>6. ReadyInv'
    BY <1>0 DEF IInv, ReadyInv
<1> QED
    BY <1>1, <1>2, <1>3, <1>4, <1>5, <1>6 DEF IInv

LEMMA InterruptAll ==
    ASSUME IInv, NEW t \in Thread, caml_interrupt_all_for_signal(t)
    PROVE  IInv' /\ HandlerDue
<1>0. /\ recording' = [recording EXCEPT ![t] = None] /\ limit' = TRUE
      /\ UNCHANGED <<pending, action_pending, requested, external, todo, finalising, events, fresh,
                   mask, holder, stack, installed, handlers, ticking, profile, calls>>
    BY DEF caml_interrupt_all_for_signal, async
<1>1. Types'
    BY <1>0 DEF IInv, Types
<1>2. StacksInv' /\ NestInv' /\ UrgentInv' /\ HandlerDue
    BY <1>0, Still
<1>3. HolderInv' /\ ScanInv' /\ HandlerInv'
    BY <1>0, StillHolds
<1>4. RequestsNoticed'
    BY <1>0, StillRequests
<1>5. NoticedInv'
    BY <1>0 DEF NoticedInv
<1>6. ReadyInv'
    BY <1>0 DEF IInv, ReadyInv
<1> QED
    BY <1>1, <1>2, <1>3, <1>4, <1>5, <1>6 DEF IInv

LEMMA TickRequests ==
    ASSUME IInv, TickRequest
    PROVE  IInv' /\ HandlerDue
<1>0. /\ events < profile.events /\ events' = events + 1
      /\ ticking' = TRUE /\ external' = TRUE
      /\ UNCHANGED <<pending, limit, action_pending, requested, todo, finalising, fresh,
                   mask, recording, holder, stack, installed, handlers, profile, calls>>
    BY DEF TickRequest, Event
<1>1. Types'
    BY <1>0, NestIs DEF IInv, Types
<1>2. StacksInv' /\ NestInv' /\ UrgentInv' /\ HandlerDue
    BY <1>0, Still
<1>3. HolderInv' /\ ScanInv' /\ HandlerInv'
    BY <1>0, StillHolds
<1>4. RequestsNoticed'
    <2>1. CASE holder = None
        BY <1>0, <2>1 DEF IInv, RequestsNoticed
    <2>2. CASE holder # None
        <3>1. holder \in Thread
            BY <2>2 DEF IInv, Types
        <3>2. Top(holder)' = Top(holder)
            BY <1>0, <3>1, Still
        <3> QED
            BY <1>0, <2>2, <3>2 DEF IInv, RequestsNoticed
    <2> QED
        BY <2>1, <2>2
<1>5. NoticedInv'
    BY <1>0 DEF IInv, NoticedInv
<1>6. ReadyInv'
    BY <1>0 DEF IInv, ReadyInv
<1> QED
    BY <1>1, <1>2, <1>3, <1>4, <1>5, <1>6 DEF IInv

LEMMA TickInterrupts ==
    ASSUME IInv, TickInterrupt
    PROVE  IInv' /\ HandlerDue
<1>0. /\ ticking' = FALSE /\ limit' = TRUE
      /\ UNCHANGED <<pending, action_pending, requested, external, todo, finalising, events, fresh,
                   mask, recording, holder, stack, installed, handlers, profile, calls>>
    BY DEF TickInterrupt, caml_interrupt_self
<1>1. Types'
    BY <1>0 DEF IInv, Types
<1>2. StacksInv' /\ NestInv' /\ UrgentInv' /\ HandlerDue
    BY <1>0, Still
<1>3. HolderInv' /\ ScanInv' /\ HandlerInv'
    BY <1>0, StillHolds
<1>4. RequestsNoticed'
    BY <1>0 DEF RequestsNoticed
<1>5. NoticedInv'
    BY <1>0 DEF NoticedInv
<1>6. ReadyInv'
    BY <1>0 DEF IInv, ReadyInv
<1> QED
    BY <1>1, <1>2, <1>3, <1>4, <1>5, <1>6 DEF IInv

LEMMA RequestMinorGc ==
    ASSUME IInv, NEW t \in Thread, caml_request_minor_gc(t)
    PROVE  IInv' /\ HandlerDue
<1>0. /\ events < profile.events /\ events' = events + 1
      /\ requested' = TRUE /\ limit' = TRUE
      /\ UNCHANGED <<pending, action_pending, external, todo, finalising, fresh, ticking,
                   mask, recording, holder, stack, installed, handlers, profile, calls>>
    BY DEF caml_request_minor_gc, caml_interrupt_self, Event, async
<1>1. Types'
    BY <1>0, NestIs DEF IInv, Types
<1>2. StacksInv' /\ NestInv' /\ UrgentInv' /\ HandlerDue
    BY <1>0, Still
<1>3. HolderInv' /\ ScanInv' /\ HandlerInv'
    BY <1>0, StillHolds
<1>4. RequestsNoticed'
    BY <1>0 DEF RequestsNoticed
<1>5. NoticedInv'
    BY <1>0 DEF NoticedInv
<1>6. ReadyInv'
    BY <1>0 DEF IInv, ReadyInv
<1> QED
    BY <1>1, <1>2, <1>3, <1>4, <1>5, <1>6 DEF IInv

(***************************************************************************)
(* Steps of the thread that has the master lock.                           *)
(***************************************************************************)
\* The handler that starts, if one does, is one that may.
StartsDue(t) ==
    Top(t)'.k = "code" /\ Top(t)'.sig \in Sig /\ Len(stack'[t]) > Len(stack[t]) =>
        /\ Top(t)'.sig \in pending /\ Top(t)'.sig \notin mask[t]
        /\ Top(t)'.sig \in handlers

LEMMA StartRule ==
    ASSUME IInv, NEW t \in Thread, Moved(t, stack'[t]), StartsDue(t)
    PROVE  HandlerDue
<1> SUFFICES ASSUME NEW u \in Thread, NEW s \in Sig, Starts(u, s)
             PROVE  s \in pending \ mask[u] /\ s \in handlers
    BY DEF HandlerDue
<1>1. Len(stack[u]) \in Nat
    BY TopIs
<1>2. u = t
    BY <1>1 DEF Starts, Moved, Others
<1>3. Top(t)' = stack'[t][1]
    BY DEF Moved
<1> QED
    BY <1>2, <1>3 DEF Starts, StartsDue

LEMMA OwnStep ==
    ASSUME IInv, NEW t \in Thread, holder = t, Types', Moved(t, stack'[t]), StartsDue(t),
           UNCHANGED <<profile, recording, installed>>, handlers \subseteq handlers',
           pending' \subseteq pending, fresh' \subseteq fresh,
           ~(Top(t).k = "install" /\ Top(t).at = "store"),
           \/ holder' = holder /\ ~Away(Top(t)')
           \/ holder' = None /\ Away(Top(t)'),
           Top(t)'.k = "scan" => Top(t)'.curr \subseteq pending',
           RequestsNoticed',
           ~profile.urgent /\ ~profile.raises =>
              \A s \in fresh' :
                 limit \/ action_pending \/ Watching(stack[t], s) =>
                    limit' \/ action_pending' \/ Watching(stack'[t], s),
           ~profile.raises /\ todo' > 0 =>
              \/ action_pending' \/ finalising' \/ Calling(stack'[t])
              \/ todo > 0 /\ ~action_pending /\ ~finalising /\ ~Calling(stack[t])
    PROVE  IInv' /\ HandlerDue
<1>1. StacksInv' /\ NestInv' /\ UrgentInv' /\ Others(t)
    BY DEF Moved
<1>2. ~Away(Top(t))
    BY TopIs
<1>3. HolderInv'
    BY <1>1, <1>2, HolderRule
<1>4. ScanInv'
    BY <1>1, ScanRule
<1>5. HandlerInv'
    BY <1>1, HandlerRule
<1>6. NoticedInv'
    BY <1>1, NoticedRule
<1>7. ReadyInv'
    BY <1>1, ReadyRule
<1>8. HandlerDue
    BY StartRule
<1> QED
    BY <1>8, <1>1, <1>3, <1>4, <1>5, <1>6, <1>7 DEF IInv

LEMMA GcStep ==
    ASSUME IInv, NEW t \in Thread, Top(t).k = "gc", mask' = mask, profile' = profile,
           NEW l \in {"collect", "exchange", "check", "hook", "signals before", "yield",
                      "wait", "signals after", "end", "signals", "final"},
           Goto(t, l), l \in {"signals", "final"} => Top(t).by = "actions"
    PROVE  /\ Moved(t, stack'[t])
           /\ Top(t)'.k = "gc" /\ Top(t)'.at = l /\ Top(t)'.by = Top(t).by
           /\ Calling(stack[t]) <=> Calling(stack'[t])
           /\ l # "final" => \A s : Watching(stack[t], s) => Watching(stack'[t], s)
<1> DEFINE f == Top(t)
           g == [f EXCEPT !.at = l]
<1>1. f \in GcFrame /\ (l \in {"signals", "final"} => f.by = "actions")
    BY TopIs, FrameIs
<1>2. g \in Frame /\ g.k = "gc" /\ g.by = f.by /\ g.at = l
    <2> HIDE DEF f
    <2> QED
        BY <1>1 DEF Frame, GcFrame
<1>3. g = [Top(t) EXCEPT !.at = l]
    OBVIOUS
<1> HIDE DEF g
<1> QED
    BY <1>2, <1>3, GotoRule

LEMMA BlockStep ==
    ASSUME IInv, NEW t \in Thread, Top(t).k = "block", mask' = mask, profile' = profile,
           NEW l \in {"poll", "release", "test", "back", "inside", "leave", "poll again"},
           Goto(t, l)
    PROVE  /\ Moved(t, stack'[t])
           /\ Top(t)'.k = "block" /\ Top(t)'.at = l
           /\ Calling(stack[t]) <=> Calling(stack'[t])
           /\ \A s : Watching(stack[t], s) => Watching(stack'[t], s)
<1> DEFINE f == Top(t)
           g == [f EXCEPT !.at = l]
<1>1. f \in BlockFrame
    BY TopIs, FrameIs
<1>2. g \in Frame /\ g.k = "block" /\ g.at = l
    <2> HIDE DEF f
    <2> QED
        BY <1>1, BlockGoto DEF f
<1>3. g = [Top(t) EXCEPT !.at = l]
    OBVIOUS
<1> HIDE DEF g
<1> QED
    BY <1>2, <1>3, GotoRule

LEMMA InstallStep ==
    ASSUME IInv, NEW t \in Thread, Top(t).k = "install", mask' = mask, profile' = profile,
           NEW l \in {"sigaction", "store", "signals", "final"}, Goto(t, l)
    PROVE  /\ Moved(t, stack'[t])
           /\ Top(t)'.k = "install" /\ Top(t)'.at = l
           /\ Calling(stack[t]) <=> Calling(stack'[t])
           /\ \A s : Watching(stack[t], s) => Watching(stack'[t], s)
<1> DEFINE f == Top(t)
           g == [f EXCEPT !.at = l]
<1>1. f \in InstallFrame
    BY TopIs, FrameIs
<1>2. g \in Frame /\ g.k = "install" /\ g.at = l
    <2> HIDE DEF f
    <2> QED
        BY <1>1, InstallGoto DEF f
<1>3. g = [Top(t) EXCEPT !.at = l]
    OBVIOUS
<1> HIDE DEF g
<1> QED
    BY <1>2, <1>3, GotoRule

LEMMA Collects ==
    ASSUME IInv, NEW t \in Thread, Collect(t)
    PROVE  IInv' /\ HandlerDue
<1>0. /\ holder = t /\ Top(t).k = "gc" /\ Top(t).at = "collect"
      /\ requested' = FALSE /\ Goto(t, "exchange")
      /\ UNCHANGED <<pending, external, finalising, mask, recording, holder, fresh,
                     installed, handlers, ticking, profile, calls>>
    BY DEF Collect, RunsAt, Runs, async
<1>1. PICK ready \in BOOLEAN :
          /\ IF ready THEN Event /\ todo < MaxFin ELSE UNCHANGED events
          /\ todo' = IF ready THEN todo + 1 ELSE todo
          /\ action_pending' = (action_pending \/ ready)
          /\ limit' = (limit \/ ready)
    BY DEF Collect
<1>2. Types'
    <2>1. todo' \in 0 .. MaxFin /\ events' \in 0 .. profile.events
        BY <1>1, NestIs, SignalsAssumption DEF IInv, Types, Event
    <2> QED
        BY <1>0, <1>1, <2>1 DEF IInv, Types
<1>3. /\ Moved(t, stack'[t])
      /\ Top(t)'.k = "gc" /\ Top(t)'.at = "exchange"
      /\ Calling(stack[t]) <=> Calling(stack'[t])
      /\ \A s : Watching(stack[t], s) => Watching(stack'[t], s)
    BY <1>0, GcStep
<1>4. RequestsNoticed'
    <2>1. external => limit \/ ticking
        BY <1>0, RequestsAre DEF At
    <2> QED
        BY <1>0, <1>1, <2>1, SignalsAssumption, RequestsRule
<1>5. todo \in Nat
    BY SignalsAssumption DEF IInv, Types
<1> QED
    BY <1>0, <1>1, <1>2, <1>3, <1>4, <1>5, OwnStep DEF Away, StartsDue

LEMMA ResetsLimit ==
    ASSUME IInv, NEW t \in Thread, ResetLimit(t)
    PROVE  IInv' /\ HandlerDue
<1>0. /\ holder = t /\ Top(t).k = "gc" /\ Top(t).at = "exchange"
      /\ limit' = FALSE /\ Goto(t, "check")
      /\ UNCHANGED <<pending, action_pending, requested, external, todo, finalising,
                     mask, recording, holder, fresh, events,
                     installed, handlers, ticking, profile, calls>>
    BY DEF ResetLimit, RunsAt, Runs, async
<1>1. Types'
    BY <1>0 DEF IInv, Types
<1>2. /\ Moved(t, stack'[t])
      /\ Top(t)'.k = "gc" /\ Top(t)'.at = "check" /\ Top(t)'.by = Top(t).by
      /\ Calling(stack[t]) <=> Calling(stack'[t])
      /\ \A s : Watching(stack[t], s) => Watching(stack'[t], s)
    BY <1>0, GcStep
<1>3. RequestsNoticed'
    BY <1>0, <1>2, SignalsAssumption, RequestsRule DEF At
<1>4. ASSUME ~profile.urgent, NEW s PROVE Watching(stack'[t], s)
    <2>1. Top(t) \in GcFrame /\ (Urgent(stack[t]) => profile.urgent)
        BY <1>0, TopIs, FrameIs
    <2>2. (Top(t).k = "gc" /\ Top(t).by = "urgent") => Urgent(stack[t])
        BY <1>0, BelowIs
    <2>3. Top(t).by \in {"actions", "alloc"}
        BY <1>0, <1>4, <2>1, <2>2 DEF GcFrame
    <2>4. Watching(stack[t], s)
        BY <1>0, <2>3, BelowIs
    <2> QED
        BY <1>2, <2>4
<1> QED
    BY <1>0, <1>1, <1>2, <1>3, <1>4, OwnStep DEF Away, StartsDue

LEMMA ChecksLimit ==
    ASSUME IInv, NEW t \in Thread, CheckLimit(t)
    PROVE  IInv' /\ HandlerDue
<1>0. /\ holder = t /\ Top(t).k = "gc" /\ Top(t).at = "check"
      /\ limit' = (limit \/ requested \/ external \/ action_pending) /\ Goto(t, "hook")
      /\ UNCHANGED <<pending, action_pending, requested, external, todo, finalising,
                     mask, recording, holder, fresh, events,
                     installed, handlers, ticking, profile, calls>>
    BY DEF CheckLimit, StillToDo, RunsAt, Runs, async
<1>1. Types'
    BY <1>0 DEF IInv, Types
<1>2. /\ Moved(t, stack'[t])
      /\ Top(t)'.k = "gc" /\ Top(t)'.at = "hook"
      /\ Calling(stack[t]) <=> Calling(stack'[t])
      /\ \A s : Watching(stack[t], s) => Watching(stack'[t], s)
    BY <1>0, GcStep
<1>3. RequestsNoticed'
    BY <1>0, SignalsAssumption, RequestsRule
<1> QED
    BY <1>0, <1>1, <1>2, <1>3, OwnStep DEF Away, StartsDue

LEMMA Hooks ==
    ASSUME IInv, NEW t \in Thread, Hook(t)
    PROVE  IInv' /\ HandlerDue
<1> DEFINE l == IF external /\ \E u \in Thread : Waits(u) THEN "signals before" ELSE "end"
<1>0. /\ holder = t /\ Top(t).k = "gc" /\ Top(t).at = "hook"
      /\ external' = FALSE /\ Goto(t, l)
      /\ UNCHANGED <<pending, limit, action_pending, requested, todo, finalising,
                     mask, recording, holder, fresh, events,
                     installed, handlers, ticking, profile, calls>>
    BY DEF Hook, RunsAt, Runs, async
<1>1. Types'
    BY <1>0 DEF IInv, Types
<1>l. l \in {"signals before", "end"}
    OBVIOUS
<1> HIDE DEF l
<1>2. /\ Moved(t, stack'[t])
      /\ Top(t)'.k = "gc" /\ Top(t)'.at = l
      /\ Calling(stack[t]) <=> Calling(stack'[t])
      /\ \A s : Watching(stack[t], s) => Watching(stack'[t], s)
    BY <1>0, <1>l, GcStep
<1>3. RequestsNoticed'
    <2>1. requested => limit
        BY <1>0, RequestsAre DEF At
    <2> QED
        BY <1>0, <2>1, SignalsAssumption, RequestsRule
<1> QED
    BY <1>0, <1>1, <1>2, <1>3, <1>l, OwnStep DEF Away, StartsDue

LEMMA YieldsLock ==
    ASSUME IInv, NEW t \in Thread, YieldLock(t)
    PROVE  IInv' /\ HandlerDue
<1>0. /\ holder = t /\ Top(t).k = "gc" /\ Top(t).at = "yield"
      /\ holder' = None /\ Goto(t, "wait")
      /\ UNCHANGED <<pending, limit, action_pending, requested, external, todo, finalising,
                     mask, recording, fresh, events,
                     installed, handlers, ticking, profile, calls>>
    BY DEF YieldLock, RunsAt, Runs, async
<1>1. Types'
    BY <1>0 DEF IInv, Types
<1>2. /\ Moved(t, stack'[t])
      /\ Top(t)'.k = "gc" /\ Top(t)'.at = "wait"
      /\ Calling(stack[t]) <=> Calling(stack'[t])
      /\ \A s : Watching(stack[t], s) => Watching(stack'[t], s)
    BY <1>0, GcStep
<1>3. RequestsNoticed'
    <2>1. (requested => limit) /\ (external => limit \/ ticking)
        BY <1>0, RequestsAre DEF At
    <2> QED
        BY <1>0, <2>1 DEF RequestsNoticed
<1> QED
    BY <1>0, <1>1, <1>2, <1>3, OwnStep DEF Away, StartsDue

LEMMA GcEnds ==
    ASSUME IInv, NEW t \in Thread, GcEnd(t)
    PROVE  IInv' /\ HandlerDue
<1>0. /\ holder = t /\ Top(t).k = "gc" /\ Top(t).at = "end"
      /\ UNCHANGED <<pending, limit, requested, external, todo, finalising,
                     mask, recording, holder, fresh, events,
                     installed, handlers, ticking, profile, calls>>
      /\ \/ Top(t).by = "actions" /\ Goto(t, "signals") /\ UNCHANGED action_pending
         \/ Top(t).by = "alloc" /\ Pop(t) /\ action_pending' = TRUE
         \/ Top(t).by = "urgent" /\ Pop(t) /\ UNCHANGED action_pending
    BY DEF GcEnd, RememberSignals, RunsAt, Runs, async
<1>1. Types'
    BY <1>0 DEF IInv, Types
<1>2. RequestsNoticed'
    <2>1. (requested => limit) /\ (external => limit \/ ticking)
        BY <1>0, RequestsAre DEF At
    <2> QED
        BY <1>0, <2>1, SignalsAssumption, RequestsRule
<1>3. CASE Top(t).by = "actions" /\ Goto(t, "signals") /\ UNCHANGED action_pending
    <2>1. /\ Moved(t, stack'[t])
          /\ Top(t)'.k = "gc" /\ Top(t)'.at = "signals"
          /\ Calling(stack[t]) <=> Calling(stack'[t])
          /\ \A s : Watching(stack[t], s) => Watching(stack'[t], s)
        BY <1>0, <1>3, GcStep
    <2> QED
        BY <1>0, <1>1, <1>2, <1>3, <2>1, OwnStep DEF Away, StartsDue
<1>4. CASE /\ Pop(t)
           /\ \/ Top(t).by = "alloc" /\ action_pending' = TRUE
              \/ Top(t).by = "urgent" /\ UNCHANGED action_pending
    <2>1. /\ Moved(t, stack'[t]) /\ Above(Top(t), Top(t)') /\ ~(Len(stack'[t]) > Len(stack[t]))
          /\ Calling(stack[t]) <=> Calling(stack'[t])
          /\ Top(t).by = "urgent" => \A s : Watching(stack[t], s) => Watching(stack'[t], s)
        BY <1>0, <1>4, PopRule
    <2>2. ~Away(Top(t)') /\ Top(t)'.k # "scan"
        BY <1>0, <2>1 DEF Above, Away
    <2> QED
        BY <1>0, <1>1, <1>2, <1>4, <2>1, <2>2, OwnStep DEF StartsDue
<1> QED
    BY <1>0, <1>3, <1>4

\* OCaml or C code calls a function of the runtime.
LEMMA CodeIs ==
    ASSUME IInv, NEW t \in Thread, CodeRuns(t)
    PROVE  /\ holder = t /\ Top(t).k = "code" /\ Codes(stack[t]) < profile.nest
           /\ requested => limit
           /\ external => limit \/ ticking
           /\ ~Away(Top(t))
<1>1. stack[t] \in Seq(Frame)
    BY TopIs
<1>2. DOMAIN stack[t] = 1 .. Len(stack[t])
    BY <1>1
<1>3. Nest(t) = Codes(stack[t])
    BY <1>2 DEF Nest, Codes
<1>4. holder = t /\ Top(t).k = "code" /\ Nest(t) < profile.nest
    BY DEF CodeRuns, Runs
<1> QED
    BY <1>3, <1>4, RequestsAre DEF At, Away

LEMMA DoPendingActions ==
    ASSUME IInv, NEW t \in Thread, caml_do_pending_actions(t)
    PROVE  IInv' /\ HandlerDue
<1> DEFINE g == Gc("actions")
<1>0. /\ CodeRuns(t) /\ action_pending' = FALSE /\ Push(t, g)
      /\ UNCHANGED <<pending, limit, requested, external, todo, finalising,
                     mask, recording, holder, fresh, events,
                     installed, handlers, ticking, profile, calls>>
    BY DEF caml_do_pending_actions, async
<1>1. Types'
    BY <1>0 DEF IInv, Types
<1>2. g \in Frame /\ g.k = "gc" /\ g.by = "actions" /\ g.at = "collect"
    BY DEF Gc, Frame, GcFrame
<1> HIDE DEF g
<1>3. /\ holder = t /\ Top(t).k = "code" /\ Codes(stack[t]) < profile.nest
      /\ requested => limit
      /\ external => limit \/ ticking
    BY <1>0, CodeIs
<1>4. /\ Moved(t, stack'[t]) /\ Top(t)' = g /\ Calling(stack'[t])
      /\ \A s : Watching(stack'[t], s)
    BY <1>0, <1>2, <1>3, PushRule DEF Above
<1>5. RequestsNoticed'
    BY <1>0, <1>3, SignalsAssumption, RequestsRule
<1> QED
    BY <1>0, <1>1, <1>2, <1>3, <1>4, <1>5, OwnStep DEF Away, StartsDue

\* C code calls g, which changes nothing else.
LEMMA Calls ==
    ASSUME IInv, NEW t \in Thread, NEW g \in Frame, MayCall(t), Push(t, g),
           g.k \in {"gc", "block", "install"}, ~Away(g), g.k = "gc" /\ g.by = "urgent" => profile.urgent,
           UNCHANGED <<pending, limit, action_pending, requested, external, todo,
                   finalising, installed, handlers, mask, recording, ticking,
                   holder, profile, events, fresh>>
    PROVE  IInv' /\ HandlerDue
<1>0. CodeRuns(t) /\ calls < profile.calls /\ calls' = calls + 1
    BY DEF MayCall
<1>1. Types'
    BY <1>0, NestIs DEF IInv, Types
<1>3. /\ holder = t /\ Top(t).k = "code" /\ Codes(stack[t]) < profile.nest
      /\ requested => limit
      /\ external => limit \/ ticking
    BY <1>0, CodeIs
<1>4. /\ Moved(t, stack'[t]) /\ Top(t)' = g
      /\ Calling(stack[t]) => Calling(stack'[t])
      /\ \A s : Watching(stack[t], s) => Watching(stack'[t], s)
    BY <1>0, <1>3, PushRule DEF Above
<1>5. RequestsNoticed'
    BY <1>3, SignalsAssumption, RequestsRule
<1> QED
    BY <1>1, <1>3, <1>4, <1>5, OwnStep DEF StartsDue

LEMMA AllocSmallDispatch ==
    ASSUME IInv, NEW t \in Thread, caml_alloc_small_dispatch(t)
    PROVE  IInv' /\ HandlerDue
<1> DEFINE g == Gc("alloc")
<1>1. g \in Frame /\ g.k = "gc" /\ g.by = "alloc" /\ ~Away(g)
    BY DEF Gc, Frame, GcFrame, Away
<1>2. /\ MayCall(t) /\ Push(t, g)
      /\ UNCHANGED <<pending, limit, action_pending, requested, external, todo,
                   finalising, installed, handlers, mask, recording, ticking,
                   holder, profile, events, fresh>>
    BY DEF caml_alloc_small_dispatch
<1> HIDE DEF g
<1> QED
    BY <1>1, <1>2, Calls

LEMMA CheckUrgentGc ==
    ASSUME IInv, NEW t \in Thread, caml_check_urgent_gc(t)
    PROVE  IInv' /\ HandlerDue
<1> DEFINE g == Gc("urgent")
<1>1. g \in Frame /\ g.k = "gc" /\ ~Away(g)
    BY DEF Gc, Frame, GcFrame, Away
<1>2. /\ MayCall(t) /\ Push(t, g) /\ profile.urgent
      /\ UNCHANGED <<pending, limit, action_pending, requested, external, todo,
                   finalising, installed, handlers, mask, recording, ticking,
                   holder, profile, events, fresh>>
    BY DEF caml_check_urgent_gc
<1> HIDE DEF g
<1> QED
    BY <1>1, <1>2, Calls

LEMMA EntersBlocking ==
    ASSUME IInv, NEW t \in Thread, EnterBlocking(t)
    PROVE  IInv' /\ HandlerDue
<1>0. PICK new \in (SUBSET Sig) \cup {None} : Push(t, Block(new))
    BY DEF EnterBlocking
<1> DEFINE g == Block(new)
<1>1. g \in Frame /\ g.k = "block" /\ ~Away(g)
    BY DEF Block, Frame, BlockFrame, Away
<1>2. /\ MayCall(t) /\ Push(t, g)
      /\ UNCHANGED <<pending, limit, action_pending, requested, external, todo,
                   finalising, installed, handlers, mask, recording, ticking,
                   holder, profile, events, fresh>>
    BY <1>0 DEF EnterBlocking
<1> HIDE DEF g
<1> QED
    BY <1>1, <1>2, Calls

LEMMA InstallCalls ==
    ASSUME IInv, NEW t \in Thread, InstallCall(t)
    PROVE  IInv' /\ HandlerDue
<1>0. PICK s \in Sig, act \in {"default", "handle"} : Push(t, Install(s, act))
    BY DEF InstallCall
<1> DEFINE g == Install(s, act)
<1>1. g \in Frame /\ g.k = "install" /\ ~Away(g)
    BY DEF Install, Frame, InstallFrame, Away
<1>2. /\ MayCall(t) /\ Push(t, g)
      /\ UNCHANGED <<pending, limit, action_pending, requested, external, todo,
                   finalising, installed, handlers, mask, recording, ticking,
                   holder, profile, events, fresh>>
    BY <1>0 DEF InstallCall
<1> HIDE DEF g
<1> QED
    BY <1>1, <1>2, Calls

LEMMA CallsFinalisers ==
    ASSUME IInv, NEW t \in Thread, FinalCalls(t)
    PROVE  IInv' /\ HandlerDue
<1>0. /\ holder = t /\ Top(t).k = "gc" /\ Top(t).at = "final"
      /\ UNCHANGED <<pending, limit, action_pending, requested, external,
                     mask, recording, holder, fresh, events,
                     installed, handlers, ticking, profile, calls>>
    BY DEF FinalCalls, RunsAt, Runs, async
<1>1. todo \in 0 .. MaxFin /\ MaxFin \in Nat /\ todo \in Nat
    BY SignalsAssumption DEF IInv, Types
<1>2. RequestsNoticed'
    <2>1. (requested => limit) /\ (external => limit \/ ticking)
        BY <1>0, RequestsAre DEF At
    <2> QED
        BY <1>0, <2>1, SignalsAssumption, RequestsRule
<1>3. CASE NoFinaliser
    <2>1. Pop(t) /\ UNCHANGED <<todo, finalising>> /\ (finalising \/ todo = 0)
        BY <1>3 DEF FinalCalls, NoFinaliser
    <2>2. Types'
        BY <1>0, <2>1 DEF IInv, Types
    <2>3. /\ Moved(t, stack'[t]) /\ Above(Top(t), Top(t)') /\ ~(Len(stack'[t]) > Len(stack[t]))
          /\ \A s : Watching(stack[t], s) => Watching(stack'[t], s)
        BY <1>0, <2>1, PopRule
    <2>4. ~Away(Top(t)') /\ Top(t)'.k # "scan"
        BY <1>0, <2>3 DEF Above, Away
    <2> QED
        BY <1>0, <1>1, <1>2, <2>1, <2>2, <2>3, <2>4, OwnStep DEF StartsDue
<1>4. CASE ~NoFinaliser
    <2> DEFINE g == Code(Fin, mask[t])
    <2>1. todo' = todo - 1 /\ finalising' = TRUE /\ Push(t, g) /\ todo # 0
        BY <1>4 DEF FinalCalls, NoFinaliser
    <2>2. Types'
        <3>1. todo' \in 0 .. MaxFin
            BY <1>1, <2>1
        <3> QED
            BY <1>0, <2>1, <3>1 DEF IInv, Types
    <2>3. g \in Frame /\ g.k = "code" /\ g.sig = Fin /\ g.want = mask[t]
        <3>1. mask[t] \in SUBSET Sig /\ Fin \notin Sig
            BY SignalsAssumption DEF IInv, Types
        <3> QED
            BY <3>1 DEF Code, Frame, CodeFrame
    <2> HIDE DEF g
    <2>4. Codes(stack[t]) < profile.nest
        BY <1>0, TopIs
    <2>5. /\ Moved(t, stack'[t]) /\ Top(t)' = g
          /\ \A s : Watching(stack[t], s) => Watching(stack'[t], s)
        BY <1>0, <2>1, <2>3, <2>4, PushRule DEF Above
    <2> QED
        BY <1>0, <1>2, <2>1, <2>2, <2>3, <2>5, SignalsAssumption, OwnStep DEF Away, StartsDue
<1> QED
    BY <1>3, <1>4

LEMMA InstallEnds ==
    ASSUME IInv, NEW t \in Thread, InstallEnd(t)
    PROVE  IInv' /\ HandlerDue
<1>0. /\ holder = t /\ Top(t).k = "install" /\ Top(t).at = "final" /\ Pop(t)
      /\ UNCHANGED <<pending, limit, action_pending, requested, external, todo, finalising,
                     mask, recording, holder, fresh, events,
                     installed, handlers, ticking, profile, calls>>
    BY DEF InstallEnd, RunsAt, Runs, async
<1>1. Types'
    BY <1>0 DEF IInv, Types
<1>2. RequestsNoticed'
    <2>1. (requested => limit) /\ (external => limit \/ ticking)
        BY <1>0, RequestsAre DEF At
    <2> QED
        BY <1>0, <2>1, SignalsAssumption, RequestsRule
<1>3. /\ Moved(t, stack'[t]) /\ Above(Top(t), Top(t)') /\ ~(Len(stack'[t]) > Len(stack[t]))
      /\ Calling(stack[t]) <=> Calling(stack'[t])
      /\ \A s : Watching(stack[t], s) => Watching(stack'[t], s)
    BY <1>0, PopRule
<1>4. ~Away(Top(t)') /\ Top(t)'.k # "scan"
    BY <1>0, <1>3 DEF Above, Away
<1> QED
    BY <1>0, <1>1, <1>2, <1>3, <1>4, OwnStep DEF StartsDue

LEMMA BlockReleases ==
    ASSUME IInv, NEW t \in Thread, BlockRelease(t)
    PROVE  IInv' /\ HandlerDue
<1>0. /\ holder = t /\ Top(t).k = "block" /\ Top(t).at = "release"
      /\ holder' = None /\ Goto(t, "test")
      /\ UNCHANGED <<pending, limit, action_pending, requested, external, todo, finalising,
                     mask, recording, fresh, events,
                     installed, handlers, ticking, profile, calls>>
    BY DEF BlockRelease, RunsAt, Runs, async
<1>1. Types'
    BY <1>0 DEF IInv, Types
<1>2. /\ Moved(t, stack'[t])
      /\ Top(t)'.k = "block" /\ Top(t)'.at = "test"
      /\ Calling(stack[t]) <=> Calling(stack'[t])
      /\ \A s : Watching(stack[t], s) => Watching(stack'[t], s)
    BY <1>0, BlockStep
<1>3. RequestsNoticed'
    <2>1. (requested => limit) /\ (external => limit \/ ticking)
        BY <1>0, RequestsAre DEF At
    <2> QED
        BY <1>0, <2>1 DEF RequestsNoticed
<1> QED
    BY <1>0, <1>1, <1>2, <1>3, OwnStep DEF Away, StartsDue

(***************************************************************************)
(* Steps without the lock, and the step that takes it.                     *)
(***************************************************************************)
LEMMA OutStep ==
    ASSUME IInv, NEW t \in Thread, Types', Moved(t, stack'[t]), StartsDue(t),
           UNCHANGED <<profile, recording, installed, handlers, pending, fresh, todo, finalising>>,
           Top(t).k \in {"gc", "block"}, Top(t)'.k # "scan",
           \/ holder' = holder /\ Away(Top(t)) /\ Away(Top(t)')
           \/ holder = None /\ holder' = t /\ ~Away(Top(t)'),
           RequestsNoticed', limit => limit', action_pending => action_pending',
           Calling(stack[t]) => Calling(stack'[t]),
           \A s : Watching(stack[t], s) => Watching(stack'[t], s)
    PROVE  IInv' /\ HandlerDue
<1>1. StacksInv' /\ NestInv' /\ UrgentInv' /\ Others(t)
    BY DEF Moved
<1>3. HolderInv'
    BY <1>1, HolderRule
<1>4. ScanInv'
    BY <1>1, ScanRule
<1>5. HandlerInv'
    BY <1>1, HandlerRule
<1>6. NoticedInv'
    BY <1>1, NoticedRule
<1>7. ReadyInv'
    BY <1>1, ReadyRule
<1>8. HandlerDue
    BY StartRule
<1> QED
    BY <1>8, <1>1, <1>3, <1>4, <1>5, <1>6, <1>7 DEF IInv

LEMMA BlockTests ==
    ASSUME IInv, NEW t \in Thread, BlockTest(t)
    PROVE  IInv' /\ HandlerDue
<1> DEFINE l == IF limit THEN "back" ELSE "inside"
<1>0. /\ Top(t).k = "block" /\ Top(t).at = "test" /\ Goto(t, l)
      /\ UNCHANGED <<pending, limit, action_pending, requested, external, todo, finalising,
                     mask, recording, holder, fresh, events,
                     installed, handlers, ticking, profile, calls>>
    BY DEF BlockTest, Outside, async
<1>1. Types'
    BY <1>0 DEF IInv, Types
<1>l. l \in {"back", "inside"}
    OBVIOUS
<1> HIDE DEF l
<1>2. /\ Moved(t, stack'[t])
      /\ Top(t)'.k = "block" /\ Top(t)'.at = l
      /\ Calling(stack[t]) <=> Calling(stack'[t])
      /\ \A s : Watching(stack[t], s) => Watching(stack'[t], s)
    BY <1>0, <1>l, BlockStep
<1>3. Away(Top(t)) /\ Away(Top(t)') /\ holder # t
    BY <1>0, <1>2, <1>l, TopIs DEF Away
<1>4. RequestsNoticed'
    BY <1>0, <1>2, <1>3, RequestsKept DEF Moved
<1> QED
    BY <1>0, <1>1, <1>2, <1>3, <1>4, OutStep DEF StartsDue

LEMMA Acquires ==
    ASSUME IInv, NEW t \in Thread, Acquire(t)
    PROVE  IInv' /\ HandlerDue
<1>0. /\ holder = None /\ Waits(t) /\ holder' = t
      /\ UNCHANGED <<pending, requested, external, todo, finalising,
                     mask, recording, fresh, events,
                     installed, handlers, ticking, profile, calls>>
    BY DEF Acquire, async
<1>1. \/ /\ Top(t).at = "wait" /\ Goto(t, "signals after")
         /\ UNCHANGED <<action_pending, limit>>
      \/ /\ Top(t).at = "back" /\ Goto(t, "poll")
         /\ UNCHANGED <<action_pending, limit>>
      \/ /\ Top(t).at = "leave"
         /\ IF Top(t).new = None THEN Pop(t) ELSE Goto(t, "poll again")
         /\ action_pending' = (action_pending \/ SignalsToExamine)
         /\ limit' = (limit \/ SignalsToExamine)
    BY DEF Acquire
<1>2. limit' \in BOOLEAN /\ action_pending' \in BOOLEAN
      /\ (limit => limit') /\ (action_pending => action_pending')
    BY <1>1 DEF IInv, Types
<1>3. Types'
    BY <1>0, <1>2 DEF IInv, Types
<1>4. (requested => limit) /\ (external => limit \/ ticking)
    BY <1>0 DEF IInv, RequestsNoticed
<1>5. RequestsNoticed'
    BY <1>0, <1>2, <1>4, SignalsAssumption, RequestsRule
<1>6. /\ Moved(t, stack'[t]) /\ ~Away(Top(t)') /\ Top(t)'.k # "scan"
      /\ Top(t)'.k # "code" \/ ~(Len(stack'[t]) > Len(stack[t]))
      /\ Calling(stack[t]) <=> Calling(stack'[t])
      /\ \A s : Watching(stack[t], s) => Watching(stack'[t], s)
    <2>1. CASE Top(t).k = "gc" /\ Top(t).at = "wait"
        BY <1>0, <1>1, <2>1, GcStep DEF Away
    <2>2. CASE Top(t).k = "block" /\ Top(t).at = "back"
        BY <1>0, <1>1, <2>2, BlockStep DEF Away
    <2>3. CASE Top(t).k = "block" /\ Top(t).at = "leave" /\ Top(t).new # None
        BY <1>0, <1>1, <2>3, BlockStep DEF Away
    <2>4. CASE Top(t).k = "block" /\ Top(t).at = "leave" /\ Top(t).new = None
        <3>1. Pop(t)
            BY <1>1, <2>4
        <3>2. /\ Moved(t, stack'[t]) /\ Above(Top(t), Top(t)') /\ ~(Len(stack'[t]) > Len(stack[t]))
              /\ Calling(stack[t]) <=> Calling(stack'[t])
              /\ \A s : Watching(stack[t], s) => Watching(stack'[t], s)
            BY <1>0, <2>4, <3>1, PopRule
        <3>3. Top(t)'.k = "code"
            BY <2>4, <3>2 DEF Above
        <3> QED
            BY <3>2, <3>3 DEF Away
    <2> QED
        BY <1>0, <2>1, <2>2, <2>3, <2>4 DEF Waits
<1> QED
    BY <1>0, <1>2, <1>3, <1>5, <1>6, OutStep DEF Waits, StartsDue

(***************************************************************************)
(* Several frames at once.                                                 *)
(***************************************************************************)
LEMMA TwoFrames ==
    ASSUME NEW f \in Frame, NEW g \in Frame, NEW r \in Seq(Frame)
    PROVE  /\ <<f, g>> \o r = <<f>> \o (<<g>> \o r)
           /\ (<<f>> \o <<g>>) \o r = <<f>> \o (<<g>> \o r)
           /\ (<<>> \o <<g>>) \o r = <<g>> \o r
           /\ (<<f>> \o <<>>) \o r = <<f>> \o r
           /\ <<>> \o r = r
<1>1. <<f>> \in Seq(Frame) /\ <<g>> \in Seq(Frame) /\ <<>> \in Seq(Frame)
    OBVIOUS
<1>2. <<f>> \o <<g>> = <<f, g>>
    <2> DEFINE a == <<f>> \o <<g>>
               b == <<f, g>>
    <2>1. a \in Seq(Frame) /\ Len(a) = 2 /\ a[1] = f /\ a[2] = g
        OBVIOUS
    <2>2. b \in Seq(Frame) /\ Len(b) = 2 /\ b[1] = f /\ b[2] = g
        OBVIOUS
    <2>3. \A i \in 1 .. Len(a) : i = 1 \/ i = 2
        BY <2>1
    <2> HIDE DEF a, b
    <2>4. a = b
        BY <2>1, <2>2, <2>3, SeqEqual
    <2> QED
        BY <2>4 DEF a, b
<1>3. (<<f>> \o <<g>>) \o r = <<f>> \o (<<g>> \o r)
    BY <1>1, ConcatAssociative
<1>4. <<>> \o <<g>> = <<g>> /\ <<f>> \o <<>> = <<f>> /\ <<>> \o r = r
    BY <1>1, ConcatEmptySeq
<1> QED
    BY <1>2, <1>3, <1>4

\* The innermost code is at most the fourth frame.
LEMMA Inner ==
    ASSUME NEW st, StackOK(st)
    PROVE  \E j \in 1 .. Len(st) : j <= 4 /\ NextCode(st, 0, j)
<1>1. st \in Seq(Frame) /\ Len(st) \in Nat /\ Len(st) >= 1 /\ st[Len(st)].k = "code"
    BY DEF StackOK
<1>2. \A i \in 1 .. Len(st) : i < Len(st) => Above(st[i], st[i + 1])
    BY DEF StackOK
<1>3. CASE st[1].k = "code"
    BY <1>1, <1>3 DEF NextCode
<1>4. CASE st[1].k # "code"
    <2>1. Len(st) > 1 /\ Above(st[1], st[2])
        <3>1. Len(st) > 1
            BY <1>1, <1>4
        <3>2. 1 \in 1 .. Len(st) /\ 1 < Len(st) /\ 1 + 1 = 2
            BY <1>1, <3>1
        <3> QED
            BY <1>2, <3>1, <3>2
    <2>2. CASE st[2].k = "code"
        <3>1. 2 \in 1 .. Len(st)
            BY <1>1, <2>1
        <3>2. \A m \in 1 .. Len(st) : 0 < m /\ m < 2 => m = 1
            BY <1>1
        <3> QED
            BY <1>4, <2>2, <3>1, <3>2 DEF NextCode
    <2>3. CASE st[2].k # "code"
        <3>1. Len(st) > 2
            BY <1>1, <2>1, <2>3
        <3>2. 2 \in 1 .. Len(st) /\ 2 < Len(st) /\ 2 + 1 = 3
            BY <1>1, <3>1
        <3>3. Above(st[2], st[3])
            BY <1>2, <3>2
        <3>4. CASE st[3].k = "code"
            <4>1. 3 \in 1 .. Len(st)
                BY <1>1, <3>1
            <4>2. \A m \in 1 .. Len(st) : 0 < m /\ m < 3 => m = 1 \/ m = 2
                BY <1>1
            <4> QED
                BY <1>4, <2>3, <3>4, <4>1, <4>2 DEF NextCode
        <3>5. CASE st[3].k # "code"
            <4>1. Len(st) > 3
                BY <1>1, <3>1, <3>5
            <4>2. 3 \in 1 .. Len(st) /\ 3 < Len(st) /\ 3 + 1 = 4
                BY <1>1, <4>1
            <4>3. Above(st[3], st[4])
                BY <1>2, <4>2
            <4>4. st[4].k = "code"
                BY <1>4, <2>1, <2>3, <3>3, <3>5, <4>3 DEF Above
            <4>5. 4 \in 1 .. Len(st)
                BY <1>1, <4>1
            <4>6. \A m \in 1 .. Len(st) : 0 < m /\ m < 4 => m = 1 \/ m = 2 \/ m = 3
                BY <1>1
            <4> QED
                BY <1>4, <2>3, <3>5, <4>4, <4>5, <4>6 DEF NextCode
        <3> QED
            BY <3>4, <3>5
    <2> QED
        BY <2>2, <2>3
<1> QED
    BY <1>3, <1>4

LEMMA InnermostIs ==
    ASSUME NEW st \in Seq(Frame), NEW j \in 1 .. Len(st), NextCode(st, 0, j)
    PROVE  InnermostCode(st) = j
<1>1. Len(st) \in Nat /\ DOMAIN st = 1 .. Len(st)
    OBVIOUS
<1> DEFINE P(i) == st[i].k = "code" /\ \A m \in 1 .. i - 1 : st[m].k # "code"
<1>2. P(j)
    BY <1>1 DEF NextCode
<1>3. ASSUME NEW i \in DOMAIN st, P(i) PROVE i = j
    <2>1. i \in 1 .. Len(st) /\ j \in 1 .. Len(st)
        BY <1>1
    <2>2. ~(i < j)
        BY <1>1, <1>3, <2>1 DEF NextCode
    <2>3. ~(j < i)
        BY <1>1, <1>2, <1>3, <2>1
    <2> QED
        BY <1>1, <2>1, <2>2, <2>3
<1>4. InnermostCode(st) = CHOOSE i \in DOMAIN st : P(i)
    BY DEF InnermostCode
<1> QED
    BY <1>1, <1>2, <1>3, <1>4

LEMMA PopGood ==
    ASSUME IInv, NEW st, NEW m, Good(st, m), st[1].k # "code"
    PROVE  LET r == Tail(st)
           IN  /\ Good(r, m) /\ Codes(r) < profile.nest
               /\ Above(st[1], r[1]) /\ st[2] = r[1]
               /\ st \in Seq(Frame) /\ r \in Seq(Frame) /\ Len(st) > 1 /\ Len(r) = Len(st) - 1
               /\ st[1].k = "gc" /\ st[1].by = "urgent" => profile.urgent
               /\ st[1].k = "scan" => st[1].set = m
               /\ Calling(st) <=> (st[1].k = "gc" /\ st[1].by = "actions") \/ Calling(r)
               /\ \A s : Watching(st, s) <=>
                    \/ st[1].k = "gc" /\ st[1].by \in {"actions", "alloc"} /\ st[1].at # "final"
                    \/ st[1].k = "scan" /\ s \in Due(st[1]) /\ r[1].k = "gc"
                    \/ Watching(r, s)
<1> DEFINE r == Tail(st)
<1>1. StackOK(st) /\ Wants(st, m) /\ st \in Seq(Frame) /\ Len(st) \in Nat
    BY DEF Good, StackOK
<1>2. Len(st) > 1 /\ StackOK(r) /\ Above(st[1], r[1]) /\ Wants(r, m)
    BY <1>1, PopOK
<1>3. r \in Seq(Frame) /\ Len(r) = Len(st) - 1 /\ st[2] = r[1]
    BY <1>1, <1>2
<1>4. /\ Codes(r) \in Nat /\ Codes(st) = Codes(r)
      /\ Urgent(st) <=> (st[1].k = "gc" /\ st[1].by = "urgent") \/ Urgent(r)
      /\ Calling(st) <=> (st[1].k = "gc" /\ st[1].by = "actions") \/ Calling(r)
      /\ \A s : Watching(st, s) <=>
                \/ st[1].k = "gc" /\ st[1].by \in {"actions", "alloc"} /\ st[1].at # "final"
                \/ st[1].k = "scan" /\ s \in Due(st[1]) /\ r[1].k = "gc"
                \/ Watching(r, s)
    BY <1>1, <1>2, SeenPop
<1> HIDE DEF r
<1>5. Good(r, m) /\ Codes(r) < profile.nest
    BY <1>2, <1>4, NestIs DEF Good
<1>6. ASSUME st[1].k = "scan" PROVE st[1].set = m
    <2>1. PICK j \in 1 .. Len(st) : NextCode(st, 0, j)
        BY <1>1, Inner
    <2>2. NextCode(st, 1, j)
        BY <1>1, <1>6, <2>1 DEF NextCode
    <2>3. 1 \in 1 .. Len(st)
        BY <1>1, <1>2
    <2>4. Knows(st[1], st[j])
        BY <1>1, <2>2, <2>3 DEF StackOK
    <2> QED
        BY <1>1, <1>6, <2>1, <2>4 DEF Knows, Wants
<1> QED
    BY <1>1, <1>2, <1>3, <1>4, <1>5, <1>6 DEF r, Good

\* The mask that the innermost code wants changes; no scan is above it.
LEMMA WithMaskGood ==
    ASSUME IInv, NEW st, NEW m, Good(st, m), NEW j \in 1 .. Len(st), NextCode(st, 0, j),
           \A i \in 1 .. Len(st) : i < j => st[i].k # "scan",
           NEW w \in SUBSET Sig
    PROVE  LET n == WithMask(st, w)
           IN  /\ Good(n, w)
               /\ n \in Seq(Frame) /\ Len(n) = Len(st)
               /\ NextCode(n, 0, j)
               /\ \A i \in 1 .. Len(st) : i # j => n[i] = st[i]
               /\ Calling(n) <=> Calling(st)
               /\ \A s : Watching(n, s) <=> Watching(st, s)
<1> DEFINE c == [st[j] EXCEPT !.want = w]
           n == WithMask(st, w)
<1>1. StackOK(st) /\ st \in Seq(Frame) /\ Len(st) \in Nat /\ Len(st) >= 1 /\ DOMAIN st = 1 .. Len(st)
    BY DEF Good, StackOK
<1>2. st[j] \in CodeFrame /\ st[j].k = "code"
    BY <1>1, FrameIs DEF NextCode
<1>3. c \in Frame /\ c.k = "code" /\ c.sig = st[j].sig /\ c.saved = st[j].saved /\ c.want = w
    BY <1>2 DEF CodeFrame, Frame
<1>4. n = [st EXCEPT ![j] = c]
    <2>1. InnermostCode(st) = j
        BY <1>1, InnermostIs
    <2> QED
        BY <2>1 DEF WithMask
<1> HIDE DEF c, n
<1>5. /\ n \in Seq(Frame) /\ Len(n) = Len(st) /\ n[j] = c
      /\ \A i \in 1 .. Len(st) : i # j => n[i] = st[i]
    BY <1>1, <1>3, <1>4
<1>6. \A i \in 1 .. Len(st) : /\ n[i].k = st[i].k
                              /\ st[i].k = "code" => n[i].sig = st[i].sig /\ n[i].saved = st[i].saved
                              /\ st[i].k # "code" => n[i] = st[i]
    BY <1>2, <1>3, <1>5
<1>7. \A a \in 0 .. Len(st), b \in 1 .. Len(st) : NextCode(n, a, b) <=> NextCode(st, a, b)
    BY <1>5, <1>6 DEF NextCode
<1>8. NextCode(n, 0, j)
    BY <1>1, <1>7
<1>9. \A b \in 1 .. Len(st) : NextCode(n, 0, b) => b = j
    BY <1>1, <1>5, <1>8, InnermostIs
<1>10. Wants(n, w)
    BY <1>3, <1>5, <1>9 DEF Wants
<1>11. ASSUME NEW a \in 1 .. Len(n), a < Len(n) PROVE Above(n[a], n[a + 1])
    <2>1. a \in 1 .. Len(st) /\ a + 1 \in 1 .. Len(st) /\ a < Len(st)
        BY <1>1, <1>5, <1>11
    <2>2. Above(st[a], st[a + 1])
        BY <1>1, <2>1 DEF StackOK
    <2>3. /\ n[a].k = st[a].k /\ n[a + 1].k = st[a + 1].k
          /\ st[a].k = "code" => n[a].sig = st[a].sig
          /\ st[a].k # "code" => n[a] = st[a]
          /\ st[a + 1].k # "code" => n[a + 1] = st[a + 1]
        BY <1>6, <2>1
    <2> QED
        BY <2>2, <2>3 DEF Above
<1>12. ASSUME NEW a \in 1 .. Len(n), NEW b \in 1 .. Len(n), NextCode(n, a, b)
       PROVE  Knows(n[a], n[b])
    <2>1. a \in 1 .. Len(st) /\ b \in 1 .. Len(st) /\ NextCode(st, a, b) /\ a < b
        BY <1>1, <1>5, <1>7, <1>12 DEF NextCode
    <2>2. Knows(st[a], st[b])
        BY <1>1, <2>1 DEF StackOK
    <2>3. CASE b # j
        <3>1. n[b] = st[b] /\ n[a].k = st[a].k
              /\ (st[a].k = "code" => n[a].sig = st[a].sig /\ n[a].saved = st[a].saved)
              /\ (st[a].k # "code" => n[a] = st[a])
            BY <1>5, <1>6, <2>1, <2>3
        <3> QED
            BY <2>2, <3>1 DEF Knows
    <2>4. CASE b = j
        <3>1. st[a].k # "scan" /\ st[a].k # "code"
            BY <1>1, <2>1, <2>4 DEF NextCode
        <3>2. n[a].k = st[a].k
            BY <1>6, <2>1
        <3> QED
            BY <3>1, <3>2 DEF Knows
    <2> QED
        BY <2>3, <2>4
<1>13. n[Len(n)].k = "code" /\ n[Len(n)].sig = None
    BY <1>1, <1>5, <1>6 DEF StackOK
<1>14. StackOK(n)
    BY <1>1, <1>5, <1>11, <1>12, <1>13 DEF StackOK
<1>15. Codes(n) = Codes(st)
    <2>1. {i \in 1 .. Len(n) : n[i].k = "code"} = {i \in 1 .. Len(st) : st[i].k = "code"}
        BY <1>5, <1>6
    <2> QED
        BY <2>1 DEF Codes
<1>16. \A i \in 1 .. Len(st) : (st[i].k # "gc" /\ n[i].k # "gc") \/ n[i] = st[i]
    BY <1>6
<1>17. (Urgent(n) <=> Urgent(st)) /\ (Calling(n) <=> Calling(st))
    BY <1>5, <1>16 DEF Urgent, Calling
<1>18. ASSUME NEW s PROVE Watching(n, s) <=> Watching(st, s)
    <2>1. ASSUME NEW i \in 1 .. Len(st) PROVE Watches(n, i, s) <=> Watches(st, i, s)
        <3>1. CASE i < Len(st)
            <4>1. i + 1 \in 1 .. Len(st)
                BY <1>1, <3>1
            <4>2. n[i + 1].k = st[i + 1].k /\ n[i].k = st[i].k /\ (st[i].k # "code" => n[i] = st[i])
                BY <1>6, <4>1
            <4>3. CASE st[i].k = "code"
                BY <4>2, <4>3 DEF Watches
            <4>4. CASE n[i] = st[i]
                BY <4>2, <4>4 DEF Watches
            <4>5. st[i].k = "code" \/ n[i] = st[i]
                BY <4>2
            <4> QED
                BY <4>3, <4>4, <4>5
        <3>2. CASE i = Len(st)
            <4>1. n[i].k = "code" /\ st[i].k = "code"
                BY <1>1, <1>6, <3>2 DEF StackOK
            <4> QED
                BY <4>1 DEF Watches
        <3>3. i < Len(st) \/ i = Len(st)
            <4>1. Len(st) \in Nat
                BY <1>1
            <4> QED
                BY <4>1, SMT
        <3> QED
            BY <3>1, <3>2, <3>3
    <2> QED
        BY <1>5, <2>1 DEF Watching
<1>19. 1 \in 1 .. Len(st)
    BY <1>1
<1>20. Good(n, w)
    BY <1>6, <1>10, <1>14, <1>15, <1>17, <1>19 DEF Good
<1> QED
    BY <1>5, <1>8, <1>17, <1>18, <1>20 DEF n

\* An exception leaves all frames above the innermost code.
Unwound(st, m, j) ==
    LET w == SubSeq(st, j, Len(st))
    IN  /\ Good(w, m) /\ w[1].k = "code"
        /\ Calling(st) => \/ Calling(w)
                          \/ \E i \in 1 .. j - 1 : st[i].k = "gc" /\ st[i].by = "actions"
        /\ \A s : Watching(st, s) => \/ Watching(w, s)
                                     \/ \E i \in 1 .. j - 1 : Watches(st, i, s)

LEMMA UnwindNone ==
    ASSUME NEW st, NEW m, Good(st, m), st[1].k = "code"
    PROVE  Unwound(st, m, 1)
<1>1. st \in Seq(Frame)
    BY DEF Good, StackOK
<1>2. SubSeq(st, 1, Len(st)) = st
    BY <1>1
<1> QED
    BY <1>2 DEF Unwound

LEMMA UnwindOne ==
    ASSUME IInv, NEW st, NEW m, Good(st, m), st[1].k # "code",
           NEW j \in 2 .. Len(st), Unwound(Tail(st), m, j - 1)
    PROVE  Unwound(st, m, j)
<1> DEFINE r == Tail(st)
           w == SubSeq(st, j, Len(st))
<1>1. /\ st \in Seq(Frame) /\ r \in Seq(Frame) /\ Len(st) > 1 /\ Len(r) = Len(st) - 1
      /\ Calling(st) <=> (st[1].k = "gc" /\ st[1].by = "actions") \/ Calling(r)
      /\ \A s : Watching(st, s) <=>
                    \/ st[1].k = "gc" /\ st[1].by \in {"actions", "alloc"} /\ st[1].at # "final"
                    \/ st[1].k = "scan" /\ s \in Due(st[1]) /\ r[1].k = "gc"
                    \/ Watching(r, s)
      /\ st[2] = r[1]
    BY PopGood
<1>2. Len(st) \in Nat /\ \A i \in 1 .. Len(r) : r[i] = st[i + 1]
    BY <1>1
<1>3. SubSeq(r, j - 1, Len(r)) = w
    <2> DEFINE v == SubSeq(r, j - 1, Len(r))
    <2>1. j \in Nat /\ j >= 2 /\ j <= Len(st)
        BY <1>2
    <2>2. w \in Seq(Frame) /\ Len(w) = Len(st) - j + 1 /\ \A i \in 1 .. Len(w) : w[i] = st[j + i - 1]
        BY <1>1, <1>2, <2>1
    <2>3. v \in Seq(Frame) /\ Len(v) = Len(r) - (j - 1) + 1 /\ \A i \in 1 .. Len(v) : v[i] = r[(j - 1) + i - 1]
        <3> HIDE DEF r
        <3> QED
            BY <1>1, <1>2, <2>1
    <2>4. Len(v) = Len(w)
        BY <1>1, <1>2, <2>1, <2>2, <2>3
    <2>5. ASSUME NEW i \in 1 .. Len(v) PROVE v[i] = w[i]
        <3>1. (j - 1) + i - 1 \in 1 .. Len(r) /\ ((j - 1) + i - 1) + 1 = j + i - 1
            BY <1>1, <1>2, <2>1, <2>3
        <3>2. v[i] = r[(j - 1) + i - 1]
            BY <2>3
        <3>3. r[(j - 1) + i - 1] = st[((j - 1) + i - 1) + 1]
            BY <1>2, <3>1
        <3>4. w[i] = st[j + i - 1]
            BY <2>2, <2>4
        <3> QED
            BY <3>1, <3>2, <3>3, <3>4
    <2> HIDE DEF v, w, r
    <2> QED
        BY <2>2, <2>3, <2>4, <2>5, SeqEqual DEF v
<1> HIDE DEF r, w
<1>4. /\ Good(w, m) /\ w[1].k = "code"
      /\ Calling(r) => \/ Calling(w)
                       \/ \E i \in 1 .. (j - 1) - 1 : r[i].k = "gc" /\ r[i].by = "actions"
      /\ \A s : Watching(r, s) => \/ Watching(w, s)
                                  \/ \E i \in 1 .. (j - 1) - 1 : Watches(r, i, s)
    BY <1>3 DEF Unwound, r
<1>5. 1 \in 1 .. j - 1
    BY <1>2
<1>6. ASSUME NEW i \in 1 .. (j - 1) - 1
      PROVE  i + 1 \in 1 .. j - 1 /\ r[i] = st[i + 1] /\ r[i + 1] = st[(i + 1) + 1]
    <2>1. i \in 1 .. Len(r) /\ i + 1 \in 1 .. Len(r) /\ i + 1 \in 1 .. j - 1
        BY <1>1, <1>2
    <2> QED
        BY <1>2, <2>1
<1>7. ASSUME Calling(st)
      PROVE  Calling(w) \/ \E i \in 1 .. j - 1 : st[i].k = "gc" /\ st[i].by = "actions"
    BY <1>1, <1>4, <1>5, <1>6, <1>7
<1>8. ASSUME NEW s, Watching(st, s)
      PROVE  Watching(w, s) \/ \E i \in 1 .. j - 1 : Watches(st, i, s)
    <2>1. CASE Watching(r, s)
        <3>1. CASE Watching(w, s)
            BY <3>1
        <3>2. CASE \E i \in 1 .. (j - 1) - 1 : Watches(r, i, s)
            <4>1. PICK i \in 1 .. (j - 1) - 1 : Watches(r, i, s)
                BY <3>2
            <4>2. Watches(st, i + 1, s) /\ i + 1 \in 1 .. j - 1
                BY <1>6, <4>1 DEF Watches
            <4> QED
                BY <4>2
        <3> QED
            BY <1>4, <2>1, <3>1, <3>2
    <2>2. CASE ~Watching(r, s)
        <3>1. Watches(st, 1, s)
            <4>1. st[1 + 1] = r[1]
                BY <1>1
            <4>2. \/ st[1].k = "gc" /\ st[1].by \in {"actions", "alloc"} /\ st[1].at # "final"
                  \/ st[1].k = "scan" /\ s \in Due(st[1]) /\ r[1].k = "gc"
                BY <1>1, <1>8, <2>2
            <4> QED
                BY <4>1, <4>2 DEF Watches
        <3> QED
            BY <1>5, <3>1
    <2> QED
        BY <2>1, <2>2
<1> QED
    BY <1>4, <1>7, <1>8 DEF Unwound, w

LEMMA NextCodeTail ==
    ASSUME NEW st \in Seq(Frame), Len(st) > 1, st[1].k # "code",
           NEW j \in 1 .. Len(st), NextCode(st, 0, j)
    PROVE  j \in 2 .. Len(st) /\ j - 1 \in 1 .. Len(Tail(st)) /\ NextCode(Tail(st), 0, j - 1)
<1> DEFINE r == Tail(st)
<1>1. Len(st) \in Nat /\ Len(r) = Len(st) - 1 /\ \A i \in 1 .. Len(r) : r[i] = st[i + 1] /\ i + 1 \in 1 .. Len(st)
    OBVIOUS
<1> HIDE DEF r
<1>2. j \in 2 .. Len(st) /\ j - 1 \in 1 .. Len(r)
    BY <1>1 DEF NextCode
<1>3. r[j - 1].k = "code"
    BY <1>1, <1>2 DEF NextCode
<1>4. ASSUME NEW i \in 1 .. Len(r), i < j - 1 PROVE r[i].k # "code"
    <2>1. i + 1 \in 1 .. Len(st) /\ 0 < i + 1 /\ i + 1 < j /\ r[i] = st[i + 1]
        BY <1>1, <1>2, <1>4
    <2> QED
        BY <2>1 DEF NextCode
<1>5. 0 < j - 1
    BY <1>2
<1> QED
    BY <1>2, <1>3, <1>4, <1>5 DEF NextCode, r

LEMMA UnwindNext ==
    ASSUME IInv, NEW st, NEW m, Good(st, m), NEW j \in 1 .. Len(st), NextCode(st, 0, j),
           \A r : Good(r, m) /\ j - 1 \in 1 .. Len(r) /\ NextCode(r, 0, j - 1) => Unwound(r, m, j - 1)
    PROVE  Unwound(st, m, j)
<1>0. st \in Seq(Frame) /\ Len(st) \in Nat /\ Len(st) >= 1
    BY DEF Good, StackOK
<1>1. CASE st[1].k = "code"
    <2>1. j = 1
        BY <1>0, <1>1 DEF NextCode
    <2> QED
        BY <1>1, <2>1, UnwindNone
<1>2. CASE st[1].k # "code"
    <2>1. Good(Tail(st), m) /\ Len(st) > 1
        BY <1>2, PopGood
    <2>2. j \in 2 .. Len(st) /\ j - 1 \in 1 .. Len(Tail(st)) /\ NextCode(Tail(st), 0, j - 1)
        BY <1>0, <1>2, <2>1, NextCodeTail
    <2>3. Unwound(Tail(st), m, j - 1)
        BY <2>1, <2>2
    <2> QED
        BY <1>2, <2>2, <2>3, UnwindOne
<1> QED
    BY <1>1, <1>2

LEMMA Unwind ==
    ASSUME IInv, NEW st, NEW m, Good(st, m), NEW j \in 1 .. Len(st), NextCode(st, 0, j), j <= 4
    PROVE  Unwound(st, m, j)
<1>1. \A r : Good(r, m) /\ 1 \in 1 .. Len(r) /\ NextCode(r, 0, 1) => Unwound(r, m, 1)
    BY UnwindNone DEF NextCode
<1>2. \A r : Good(r, m) /\ 2 \in 1 .. Len(r) /\ NextCode(r, 0, 2) => Unwound(r, m, 2)
    <2> SUFFICES ASSUME NEW r, Good(r, m), 2 \in 1 .. Len(r), NextCode(r, 0, 2)
                 PROVE  Unwound(r, m, 2)
        OBVIOUS
    <2>1. 2 - 1 = 1
        OBVIOUS
    <2> QED
        BY <1>1, <2>1, UnwindNext
<1>3. \A r : Good(r, m) /\ 3 \in 1 .. Len(r) /\ NextCode(r, 0, 3) => Unwound(r, m, 3)
    <2> SUFFICES ASSUME NEW r, Good(r, m), 3 \in 1 .. Len(r), NextCode(r, 0, 3)
                 PROVE  Unwound(r, m, 3)
        OBVIOUS
    <2>1. 3 - 1 = 2
        OBVIOUS
    <2> QED
        BY <1>2, <2>1, UnwindNext
<1>4. \A r : Good(r, m) /\ 4 \in 1 .. Len(r) /\ NextCode(r, 0, 4) => Unwound(r, m, 4)
    <2> SUFFICES ASSUME NEW r, Good(r, m), 4 \in 1 .. Len(r), NextCode(r, 0, 4)
                 PROVE  Unwound(r, m, 4)
        OBVIOUS
    <2>1. 4 - 1 = 3
        OBVIOUS
    <2> QED
        BY <1>3, <2>1, UnwindNext
<1>5. j = 1 \/ j = 2 \/ j = 3 \/ j = 4
    <2>1. Len(st) \in Nat
        BY DEF Good, StackOK
    <2> QED
        BY <2>1
<1> QED
    BY <1>1, <1>2, <1>3, <1>4, <1>5

(***************************************************************************)
(* Steps that replace several frames.                                      *)
(***************************************************************************)
LEMMA InstallStores ==
    ASSUME IInv, NEW t \in Thread, InstallStore(t)
    PROVE  IInv' /\ HandlerDue
<1>0. /\ holder = t /\ Top(t).k = "install" /\ Top(t).at = "store" /\ Goto(t, "signals")
      /\ handlers' = IF Top(t).act = "handle" THEN handlers \cup {Top(t).sig} ELSE handlers
      /\ UNCHANGED <<pending, limit, action_pending, requested, external, todo, finalising,
                     mask, recording, holder, fresh, events,
                     installed, ticking, profile, calls>>
    BY DEF InstallStore, RunsAt, Runs
<1>1. Top(t).sig \in Sig
    BY <1>0, TopIs, FrameIs DEF InstallFrame
<1>2. Types'
    BY <1>0, <1>1 DEF IInv, Types
<1>3. /\ Moved(t, stack'[t])
      /\ Top(t)'.k = "install" /\ Top(t)'.at = "signals"
      /\ Calling(stack[t]) <=> Calling(stack'[t])
      /\ \A s : Watching(stack[t], s) => Watching(stack'[t], s)
    BY <1>0, InstallStep
<1>4. StacksInv' /\ NestInv' /\ UrgentInv' /\ Others(t)
    BY <1>3 DEF Moved
<1>5. HolderInv'
    <2>1. ~Away(Top(t)) /\ ~Away(Top(t)')
        BY <1>0, <1>3 DEF Away
    <2> QED
        BY <1>0, <1>4, <2>1, HolderRule
<1>6. ScanInv'
    BY <1>0, <1>3, <1>4, ScanRule
<1>7. HandlerInv'
    <2>1. \A s \in installed \cup pending : s \in handlers \/ (Top(t).act = "handle" /\ Top(t).sig = s)
        BY <1>0 DEF IInv, HandlerInv
    <2>2. \A s \in installed' \cup pending' : s \in handlers'
        BY <1>0, <2>1
    <2> QED
        BY <2>2 DEF HandlerInv
<1>8. NoticedInv'
    BY <1>0, <1>3, <1>4, NoticedRule
<1>9. ReadyInv'
    BY <1>0, <1>3, <1>4, ReadyRule
<1>10. RequestsNoticed'
    <2>1. (requested => limit) /\ (external => limit \/ ticking)
        BY <1>0, RequestsAre DEF At
    <2> QED
        BY <1>0, <2>1, SignalsAssumption, RequestsRule
<1>11. HandlerDue
    BY <1>3, StartRule DEF StartsDue
<1> QED
    BY <1>11, <1>2, <1>4, <1>5, <1>6, <1>7, <1>8, <1>9, <1>10 DEF IInv

LEMMA SetSignalAction ==
    ASSUME IInv, NEW t \in Thread, caml_set_signal_action(t)
    PROVE  IInv' /\ HandlerDue
<1> DEFINE f == Top(t)
           on == [f EXCEPT !.at = "store"]
           s == f.sig
           r == Tail(stack[t])
           a == Gc("alloc")
<1>0. /\ holder = t /\ Top(t).k = "install" /\ Top(t).at = "sigaction"
      /\ installed' = IF f.act = "handle" THEN installed \cup {s} ELSE installed \ {s}
      /\ UNCHANGED <<pending, limit, action_pending, requested, external, todo, finalising,
                     mask, recording, holder, fresh, events,
                     handlers, ticking, profile, calls>>
    BY DEF caml_set_signal_action, RunsAt, Runs
<1>1. PICK stopped \in BOOLEAN :
          /\ stopped => s \in installed
          /\ stack' = [stack EXCEPT ![t] = (IF stopped THEN <<a, on>> ELSE <<on>>) \o r]
    BY DEF caml_set_signal_action
<1>2. f \in InstallFrame
    BY <1>0, TopIs, FrameIs
<1>3. on \in Frame /\ on.k = "install" /\ on.sig = s /\ on.act = f.act /\ on.at = "store" /\ s \in Sig
    <2> HIDE DEF f
    <2> QED
        BY <1>2 DEF InstallFrame, Frame
<1>4. a \in Frame /\ a.k = "gc" /\ a.by = "alloc" /\ a.at = "collect"
    BY DEF Gc, Frame, GcFrame
<1>5. Types'
    BY <1>0, <1>3 DEF IInv, Types
<1> HIDE DEF on, a, s
<1>6. LET n == <<on>> \o r
      IN  /\ Good(n, mask[t]) /\ n[1] = on
          /\ Calling(stack[t]) <=> Calling(n)
          /\ \A x : Watching(stack[t], x) => Watching(n, x)
    BY <1>0, <1>3, ReplaceOK
<1>7. r \in Seq(Frame)
    BY <1>0, BelowIs
<1> HIDE DEF r
<1>8. /\ Moved(t, stack'[t]) /\ Top(t)' = IF stopped THEN a ELSE on
      /\ Calling(stack[t]) <=> Calling(stack'[t])
      /\ \A x : Watching(stack[t], x) => Watching(stack'[t], x)
    <2> DEFINE n == <<on>> \o r
    <2>1. CASE ~stopped
        <3>1. stack' = [stack EXCEPT ![t] = n]
            BY <1>1, <2>1
        <3> HIDE DEF n
        <3>2. Moved(t, n)
            BY <1>0, <1>6, <3>1, MovesInMask DEF n
        <3>3. stack'[t] = n /\ Top(t)' = n[1]
            BY <3>2 DEF Moved
        <3> QED
            BY <1>6, <2>1, <3>2, <3>3 DEF n
    <2>2. CASE stopped
        <3> DEFINE w == <<a>> \o n
        <3>1. stack' = [stack EXCEPT ![t] = w]
            <4>1. <<a, on>> \o r = w
                BY <1>3, <1>4, <1>7, TwoFrames
            <4> QED
                BY <1>1, <2>2, <4>1
        <3>2. Good(n, mask[t]) /\ n[1] = on
            BY <1>6
        <3> HIDE DEF n
        <3>3. Codes(n) < profile.nest
            BY <1>3, <3>2 DEF Good
        <3>4. Above(a, n[1])
            BY <1>3, <1>4, <3>2 DEF Above
        <3>5. /\ Good(w, IF a.k = "code" THEN a.want ELSE mask[t])
              /\ w[1] = a
              /\ Calling(w) <=> (a.k = "gc" /\ a.by = "actions") \/ Calling(n)
              /\ \A x : Watching(w, x) <=>
                    \/ a.k = "gc" /\ a.by \in {"actions", "alloc"} /\ a.at # "final"
                    \/ a.k = "scan" /\ x \in Due(a) /\ n[1].k = "gc"
                    \/ Watching(n, x)
            BY <1>4, <3>2, <3>3, <3>4, PlaceOK
        <3>6. Good(w, mask[t])
            BY <1>4, <3>5
        <3> HIDE DEF w
        <3>7. Moved(t, w)
            BY <1>0, <3>1, <3>6, MovesInMask
        <3>8. stack'[t] = w /\ Top(t)' = w[1]
            BY <3>7 DEF Moved
        <3> QED
            BY <1>4, <1>6, <2>2, <3>5, <3>7, <3>8 DEF n
    <2> QED
        BY <2>1, <2>2
<1>9. StacksInv' /\ NestInv' /\ UrgentInv' /\ Others(t)
    BY <1>8 DEF Moved
<1>10. HolderInv'
    <2>1. ~Away(Top(t)) /\ ~Away(Top(t)')
        BY <1>0, <1>3, <1>4, <1>8 DEF Away
    <2> QED
        BY <1>0, <1>9, <2>1, HolderRule
<1>11. ScanInv'
    BY <1>0, <1>3, <1>4, <1>8, <1>9, ScanRule
<1>12. HandlerInv'
    <2>1. \A x \in installed \cup pending : x \in handlers
        BY <1>0 DEF IInv, HandlerInv
    <2>2. ASSUME NEW x \in installed' \cup pending', x \notin handlers'
          PROVE  \E u \in Thread : /\ u = holder' /\ Top(u)'.k = "install" /\ Top(u)'.at = "store"
                                   /\ Top(u)'.act = "handle" /\ Top(u)'.sig = x
        <3>1. x = s /\ f.act = "handle" /\ s \notin installed
            BY <1>0, <2>1, <2>2
        <3>2. Top(t)' = on
            BY <1>1, <1>8, <3>1
        <3> QED
            BY <1>0, <1>3, <3>1, <3>2
    <2> QED
        BY <2>2 DEF HandlerInv
<1>13. NoticedInv'
    BY <1>0, <1>8, <1>9, NoticedRule
<1>14. ReadyInv'
    BY <1>0, <1>8, <1>9, ReadyRule
<1>15. RequestsNoticed'
    <2>1. (requested => limit) /\ (external => limit \/ ticking)
        BY <1>0, RequestsAre DEF At
    <2> QED
        BY <1>0, <2>1, SignalsAssumption, RequestsRule
<1>16. HandlerDue
    BY <1>3, <1>4, <1>8, StartRule DEF StartsDue
<1> QED
    BY <1>16, <1>5, <1>9, <1>10, <1>11, <1>12, <1>13, <1>14, <1>15 DEF IInv

LEMMA BlockPolls ==
    ASSUME IInv, NEW t \in Thread, BlockPoll(t)
    PROVE  IInv' /\ HandlerDue
<1> DEFINE r == Tail(stack[t])
           a == Gc("actions")
           b == [Top(t) EXCEPT !.at = "release"]
           on == IF Top(t).at = "poll" THEN <<b>> ELSE <<>>
           n == IF Top(t).at = "poll" THEN <<b>> \o r ELSE r
<1>0. /\ holder = t /\ Top(t).k = "block" /\ Top(t).at \in {"poll", "poll again"}
      /\ UNCHANGED <<pending, limit, requested, external, todo, finalising,
                     mask, recording, holder, fresh, events,
                     installed, handlers, ticking, profile, calls>>
      /\ \/ /\ limit \/ action_pending
            /\ action_pending' = FALSE
            /\ stack' = [stack EXCEPT ![t] = (<<a>> \o on) \o r]
         \/ /\ ~limit /\ ~action_pending
            /\ stack' = [stack EXCEPT ![t] = on \o r]
            /\ UNCHANGED action_pending
    BY DEF BlockPoll, Runs, async
<1>1. Types'
    BY <1>0 DEF IInv, Types
<1>2. RequestsNoticed'
    <2>1. (requested => limit) /\ (external => limit \/ ticking)
        BY <1>0, RequestsAre DEF At
    <2> QED
        BY <1>0, <2>1, SignalsAssumption, RequestsRule
<1>3. a \in Frame /\ a.k = "gc" /\ a.by = "actions" /\ a.at = "collect"
    BY DEF Gc, Frame, GcFrame
<1>4. b \in Frame /\ b.k = "block" /\ b.at = "release"
    <2> DEFINE f == Top(t)
    <2>1. f \in BlockFrame
        BY <1>0, TopIs, FrameIs
    <2>2. b = [f EXCEPT !.at = "release"]
        OBVIOUS
    <2> HIDE DEF f, b
    <2> QED
        BY <2>1, <2>2 DEF BlockFrame, Frame
<1>5. r \in Seq(Frame) /\ r[1].k = "code"
    <2>1. r \in Seq(Frame) /\ Above(Top(t), r[1])
        BY <1>0, BelowIs
    <2> QED
        BY <1>0, <2>1 DEF Above
<1> HIDE DEF a, b
<1>6. on \o r = n /\ (<<a>> \o on) \o r = <<a>> \o n
    BY <1>3, <1>4, <1>5, TwoFrames
<1>7. /\ Good(n, mask[t]) /\ Codes(n) < profile.nest
      /\ n[1].k = "code" \/ n[1] = b
      /\ n[1] # b => ~(Len(n) > Len(stack[t]))
      /\ Calling(stack[t]) <=> Calling(n)
      /\ \A x : Watching(stack[t], x) => Watching(n, x)
    <2>1. CASE Top(t).at = "poll"
        <3> DEFINE w == <<b>> \o r
        <3>1. /\ Good(w, mask[t]) /\ w[1] = b
              /\ Calling(stack[t]) <=> Calling(w)
              /\ \A x : Watching(stack[t], x) => Watching(w, x)
            BY <1>0, <1>4, ReplaceOK
        <3>2. n = w
            BY <2>1
        <3> HIDE DEF w, n
        <3>3. Codes(w) < profile.nest
            BY <1>4, <3>1 DEF Good
        <3> QED
            BY <3>1, <3>2, <3>3
    <2>2. CASE Top(t).at # "poll"
        <3>1. Good(r, mask[t]) /\ Codes(r) < profile.nest
            BY <1>0, BelowGood
        <3>2. /\ Calling(stack[t]) <=> Calling(r)
              /\ \A x : Watching(stack[t], x) => Watching(r, x)
            BY <1>0, BelowIs
        <3>3. n = r
            BY <2>2
        <3>4. ~(Len(r) > Len(stack[t]))
            BY TopIs, Uncons
        <3> HIDE DEF n, r
        <3> QED
            BY <1>5, <3>1, <3>2, <3>3, <3>4
    <2> QED
        BY <2>1, <2>2
<1>8. /\ \/ /\ limit \/ action_pending
            /\ action_pending' = FALSE
            /\ stack' = [stack EXCEPT ![t] = <<a>> \o n]
         \/ /\ ~limit /\ ~action_pending
            /\ stack' = [stack EXCEPT ![t] = n]
            /\ UNCHANGED action_pending
    BY <1>0, <1>6
<1> HIDE DEF n
<1>9. CASE /\ limit \/ action_pending
           /\ action_pending' = FALSE
           /\ stack' = [stack EXCEPT ![t] = <<a>> \o n]
    <2> DEFINE w == <<a>> \o n
    <2>1. Above(a, n[1])
        BY <1>3, <1>4, <1>7 DEF Above
    <2>2. /\ Good(w, IF a.k = "code" THEN a.want ELSE mask[t])
          /\ w[1] = a
          /\ Calling(w) <=> (a.k = "gc" /\ a.by = "actions") \/ Calling(n)
          /\ \A x : Watching(w, x) <=>
                    \/ a.k = "gc" /\ a.by \in {"actions", "alloc"} /\ a.at # "final"
                    \/ a.k = "scan" /\ x \in Due(a) /\ n[1].k = "gc"
                    \/ Watching(n, x)
        BY <1>3, <1>7, <2>1, PlaceOK
    <2>3. Good(w, mask[t]) /\ stack' = [stack EXCEPT ![t] = w]
        BY <1>3, <1>9, <2>2
    <2> HIDE DEF w
    <2>4. Moved(t, w)
        BY <1>0, <2>3, MovesInMask
    <2>5. stack'[t] = w /\ Top(t)' = a
        BY <2>2, <2>4 DEF Moved
    <2>6. Calling(stack'[t]) /\ \A x : Watching(stack'[t], x)
        BY <1>3, <2>2, <2>5
    <2> QED
        BY <1>0, <1>1, <1>2, <1>3, <2>4, <2>5, <2>6, OwnStep DEF Away, StartsDue
<1>10. CASE /\ ~limit /\ ~action_pending
            /\ stack' = [stack EXCEPT ![t] = n]
            /\ UNCHANGED action_pending
    <2>1. Moved(t, n)
        BY <1>0, <1>7, <1>10, MovesInMask
    <2>2. stack'[t] = n /\ Top(t)' = n[1]
        BY <2>1 DEF Moved
    <2>3. /\ ~Away(Top(t)') /\ Top(t)'.k # "scan"
          /\ Top(t)'.k # "code" \/ ~(Len(stack'[t]) > Len(stack[t]))
        BY <1>4, <1>7, <2>2 DEF Away
    <2> QED
        BY <1>0, <1>1, <1>2, <1>7, <1>10, <2>1, <2>2, <2>3, OwnStep DEF StartsDue
<1> QED
    BY <1>8, <1>9, <1>10

(***************************************************************************)
(* The scan of the signals.                                                *)
(***************************************************************************)
LEMMA ScanStarts ==
    ASSUME IInv, NEW t \in Thread, ScanStart(t)
    PROVE  IInv' /\ HandlerDue
<1> DEFINE f == Top(t)
           on == [f EXCEPT !.at = After[f.at]]
           r == Tail(stack[t])
           c == Scan(t)
           n == <<on>> \o r
           w == <<c>> \o n
<1>0. /\ holder = t /\ f.k \in {"gc", "install"}
      /\ f.at \in {"signals before", "signals after", "signals"}
      /\ stack' = [stack EXCEPT ![t] = ((IF pending = {} THEN <<>> ELSE <<c>>) \o <<on>>) \o r]
      /\ fresh' = fresh \ (pending \cap mask[t])
      /\ UNCHANGED <<pending, limit, action_pending, requested, external, todo, finalising,
                     mask, recording, holder, events,
                     installed, handlers, ticking, profile, calls>>
    BY DEF ScanStart, Scans, After, async
<1>1. Types'
    BY <1>0 DEF IInv, Types
<1>2. RequestsNoticed'
    <2>1. (requested => limit) /\ (external => limit \/ ticking)
        BY <1>0, RequestsAre DEF At
    <2> QED
        BY <1>0, <2>1, SignalsAssumption, RequestsRule
<1>3. /\ After["signals before"] = "yield" /\ After["signals after"] = "end"
      /\ After["signals"] = "final"
    BY DEF After
<1>4. /\ on \in Frame /\ on.k = f.k /\ on.at = After[f.at]
      /\ f.k = "gc" => on.by = f.by
      /\ f.k = "gc" => on.at \in {"yield", "end", "final"}
      /\ f.k = "install" => on.at = "final"
    <2>1. CASE f.k = "gc"
        <3>1. f \in GcFrame
            BY <2>1, TopIs, FrameIs
        <3> HIDE DEF f
        <3> QED
            BY <1>0, <1>3, <2>1, <3>1 DEF GcFrame, Frame
    <2>2. CASE f.k = "install"
        <3>1. f \in InstallFrame
            BY <2>2, TopIs, FrameIs
        <3> HIDE DEF f
        <3>2. f.at = "signals"
            BY <1>0, <3>1 DEF InstallFrame
        <3> QED
            BY <1>3, <2>2, <3>1, <3>2 DEF InstallFrame, Frame
    <2> QED
        BY <1>0, <2>1, <2>2
<1>5. /\ c \in Frame /\ c.k = "scan" /\ c.set = mask[t] /\ c.curr = pending /\ c.pos = 1
    <2>1. mask[t] \in SUBSET Sig /\ pending \in SUBSET Sig
        BY DEF IInv, Types
    <2> QED
        BY <2>1 DEF Scan, ScanFrame, Frame
<1>6. \A s \in fresh' : s \in Due(c) /\ pending # {}
    <2>0. fresh \subseteq pending /\ fresh \subseteq Sig /\ Sig \subseteq Nat \ {0}
        BY SignalsAssumption DEF IInv, Types
    <2>1. \A s \in fresh' : s \in pending /\ s \notin mask[t] /\ s >= 1
        <3>1. \A s \in Nat \ {0} : s >= 1
            OBVIOUS
        <3>2. UNCHANGED pending /\ fresh' = fresh \ (pending \cap mask[t])
            BY <1>0
        <3> QED
            BY <2>0, <3>1, <3>2
    <2> HIDE DEF c
    <2> QED
        BY <1>5, <2>1 DEF Due
<1>7. r \in Seq(Frame)
    BY <1>0, BelowIs
<1> HIDE DEF on, c
<1>8. /\ Good(n, mask[t]) /\ n[1] = on
      /\ Calling(stack[t]) <=> Calling(n)
      /\ on.k # "gc" \/ on.at # "final" => \A s : Watching(stack[t], s) => Watching(n, s)
    BY <1>0, <1>4, ReplaceOK
<1> HIDE DEF r
<1>9. stack' = [stack EXCEPT ![t] = IF pending = {} THEN n ELSE w]
    <2>1. (<<>> \o <<on>>) \o r = n /\ (<<c>> \o <<on>>) \o r = w
        BY <1>4, <1>5, <1>7, TwoFrames
    <2> QED
        BY <1>0, <2>1
<1> HIDE DEF n
<1>10. CASE pending = {}
    <2>1. stack' = [stack EXCEPT ![t] = n]
        BY <1>9, <1>10
    <2>2. Moved(t, n)
        BY <1>0, <1>8, <2>1, MovesInMask
    <2>3. stack'[t] = n /\ Top(t)' = on
        BY <1>8, <2>2 DEF Moved
    <2>4. fresh' = {}
        BY <1>6, <1>10
    <2>5. ~Away(Top(t)') /\ Top(t)'.k # "scan" /\ Top(t)'.k # "code"
        BY <1>0, <1>4, <2>3 DEF Away
    <2>6. Moved(t, stack'[t]) /\ (Calling(stack[t]) <=> Calling(stack'[t]))
        BY <1>8, <2>2, <2>3
    <2> QED
        BY <1>0, <1>1, <1>2, <2>4, <2>5, <2>6, OwnStep DEF StartsDue
<1>11. CASE pending # {}
    <2>1. stack' = [stack EXCEPT ![t] = w]
        BY <1>9, <1>11
    <2>2. Codes(n) < profile.nest
        BY <1>0, <1>4, <1>8 DEF Good
    <2>3. Above(c, n[1])
        BY <1>0, <1>4, <1>5, <1>8 DEF Above
    <2>4. /\ Good(w, IF c.k = "code" THEN c.want ELSE mask[t])
          /\ w[1] = c
          /\ Calling(w) <=> (c.k = "gc" /\ c.by = "actions") \/ Calling(n)
          /\ \A x : Watching(w, x) <=>
                    \/ c.k = "gc" /\ c.by \in {"actions", "alloc"} /\ c.at # "final"
                    \/ c.k = "scan" /\ x \in Due(c) /\ n[1].k = "gc"
                    \/ Watching(n, x)
        BY <1>5, <1>8, <2>2, <2>3, PlaceOK
    <2>5. Good(w, mask[t])
        BY <1>5, <2>4
    <2> HIDE DEF w
    <2>6. Moved(t, w)
        BY <1>0, <2>1, <2>5, MovesInMask
    <2>7. stack'[t] = w /\ Top(t)' = c
        BY <2>4, <2>6 DEF Moved
    <2>8. Moved(t, stack'[t]) /\ (Calling(stack[t]) <=> Calling(stack'[t]))
        BY <1>5, <1>8, <2>4, <2>6, <2>7
    <2>9. \A x \in fresh' : Watching(stack[t], x) => Watching(stack'[t], x)
        <3>1. CASE on.k = "gc" /\ on.at = "final"
            BY <1>5, <1>6, <1>8, <2>4, <2>7, <3>1
        <3>2. CASE on.k # "gc" \/ on.at # "final"
            BY <1>8, <2>4, <2>7, <3>2
        <3> QED
            BY <3>1, <3>2
    <2>10. ~Away(Top(t)') /\ Top(t)'.curr \subseteq pending' /\ Top(t)'.k # "code"
        BY <1>0, <1>5, <2>7 DEF Away
    <2>11. ~(Top(t).k = "install" /\ Top(t).at = "store") /\ fresh' \subseteq fresh
        BY <1>0
    <2> QED
        BY <1>0, <1>1, <1>2, <2>8, <2>9, <2>10, <2>11, OwnStep DEF StartsDue
<1> QED
    BY <1>10, <1>11

LEMMA ScanGoesOn ==
    ASSUME IInv, NEW t \in Thread, ScanNext(t)
    PROVE  IInv' /\ HandlerDue
<1> DEFINE f == Top(t)
           r == Tail(stack[t])
<1>0. /\ holder = t /\ f.k = "scan"
      /\ UNCHANGED <<limit, action_pending, requested, external, todo, finalising,
                     recording, holder, events,
                     installed, handlers, ticking, profile, calls>>
      /\ \/ /\ Due(f) = {}
            /\ Pop(t)
            /\ UNCHANGED <<pending, mask, fresh>>
         \/ \E s \in Due(f) :
             /\ \A x \in Due(f) : s <= x
             /\ pending' = pending \ {s}
             /\ fresh' = fresh \ {s}
             /\ mask' = [mask EXCEPT ![t] = @ \cup {s}]
             /\ stack' = [stack EXCEPT ![t] =
                            <<Code(s, mask[t]), [f EXCEPT !.pos = s + 1]>> \o r]
    BY DEF ScanNext, Runs, async, Cleared
<1>1. RequestsNoticed'
    <2>1. (requested => limit) /\ (external => limit \/ ticking)
        BY <1>0, RequestsAre DEF At
    <2> QED
        BY <1>0, <2>1, SignalsAssumption, RequestsRule
<1>2. CASE Due(f) = {} /\ Pop(t) /\ UNCHANGED <<pending, mask, fresh>>
    <2>1. Types'
        BY <1>0, <1>2 DEF IInv, Types
    <2>2. /\ Moved(t, stack'[t]) /\ Above(Top(t), Top(t)') /\ ~(Len(stack'[t]) > Len(stack[t]))
          /\ Calling(stack[t]) <=> Calling(stack'[t])
          /\ \A s : Watching(stack[t], s) <=> (s \in Due(Top(t)) /\ Top(t)'.k = "gc") \/ Watching(stack'[t], s)
        BY <1>0, <1>2, PopRule
    <2>3. ~Away(Top(t)') /\ Top(t)'.k # "scan"
        BY <1>0, <2>2 DEF Above, Away
    <2>4. \A s : Watching(stack[t], s) => Watching(stack'[t], s)
        BY <1>2, <2>2
    <2> QED
        BY <1>0, <1>1, <1>2, <2>1, <2>2, <2>3, <2>4, OwnStep DEF StartsDue
<1>3. ASSUME NEW s \in Due(f),
             \A x \in Due(f) : s <= x,
             pending' = pending \ {s},
             fresh' = fresh \ {s},
             mask' = [mask EXCEPT ![t] = @ \cup {s}],
             stack' = [stack EXCEPT ![t] =
                            <<Code(s, mask[t]), [f EXCEPT !.pos = s + 1]>> \o r]
      PROVE  IInv' /\ HandlerDue
    <2> DEFINE c == Code(s, mask[t])
               g == [f EXCEPT !.pos = s + 1]
               n == <<g>> \o r
               w == <<c>> \o n
    <2>1. f \in ScanFrame
        BY <1>0, TopIs, FrameIs
    <2>2. s \in Sig /\ s \in Nat /\ mask[t] \in SUBSET Sig /\ f.set \in SUBSET Sig /\ f.curr \in SUBSET Sig /\ f.pos \in Nat
        BY <1>3, <2>1, SignalsAssumption DEF Due, ScanFrame, IInv, Types
    <2>3. g \in Frame /\ g.k = "scan" /\ g.set = f.set /\ g.curr = f.curr /\ g.pos = s + 1
        <3> HIDE DEF f
        <3> QED
            BY <2>1, <2>2 DEF ScanFrame, Frame
    <2>4. c \in Frame /\ c.k = "code" /\ c.sig = s /\ c.saved = mask[t] /\ c.want = mask[t] \cup {s}
        BY <2>2 DEF Code, CodeFrame, Frame
    <2>5. \A x \in Sig : x \in Due(f) /\ x # s => x \in Due(g)
        <3>1. \A x \in Sig : x \in Nat
            BY SignalsAssumption
        <3> HIDE DEF f, g
        <3> QED
            BY <1>3, <2>2, <2>3, <3>1 DEF Due
    <2>6. Types'
        <3>1. mask' \in [Thread -> SUBSET Sig]
            BY <1>3, <2>2 DEF IInv, Types
        <3> QED
            BY <1>0, <1>3, <3>1 DEF IInv, Types
    <2> HIDE DEF c, g
    <2>7. /\ Good(r, mask[t]) /\ Codes(r) < profile.nest
          /\ Above(f, r[1]) /\ r \in Seq(Frame) /\ f.set = mask[t]
          /\ Calling(stack[t]) <=> Calling(r)
          /\ \A x : Watching(stack[t], x) <=> (x \in Due(f) /\ r[1].k = "gc") \/ Watching(r, x)
        <3> DEFINE st == stack[t]
        <3>1. Good(st, mask[t]) /\ st[1] = f
            BY TopGood, TopIs
        <3> HIDE DEF f, st
        <3>2. LET q == Tail(st)
              IN  /\ Good(q, mask[t]) /\ Codes(q) < profile.nest
                  /\ Above(st[1], q[1]) /\ q \in Seq(Frame)
                  /\ st[1].k = "scan" => st[1].set = mask[t]
                  /\ Calling(st) <=> (st[1].k = "gc" /\ st[1].by = "actions") \/ Calling(q)
                  /\ \A x : Watching(st, x) <=>
                    \/ st[1].k = "gc" /\ st[1].by \in {"actions", "alloc"} /\ st[1].at # "final"
                    \/ st[1].k = "scan" /\ x \in Due(st[1]) /\ q[1].k = "gc"
                    \/ Watching(q, x)
            BY <1>0, <3>1, PopGood
        <3> QED
            BY <1>0, <3>1, <3>2 DEF st
    <2> HIDE DEF r, f
    <2>8. Above(g, r[1])
        BY <1>0, <2>3, <2>7 DEF Above
    <2>9. /\ Good(n, IF g.k = "code" THEN g.want ELSE mask[t])
          /\ n[1] = g /\ Codes(n) = IF g.k = "code" THEN Codes(r) + 1 ELSE Codes(r)
          /\ Calling(n) <=> (g.k = "gc" /\ g.by = "actions") \/ Calling(r)
          /\ \A x : Watching(n, x) <=>
                    \/ g.k = "gc" /\ g.by \in {"actions", "alloc"} /\ g.at # "final"
                    \/ g.k = "scan" /\ x \in Due(g) /\ r[1].k = "gc"
                    \/ Watching(r, x)
        BY <2>3, <2>7, <2>8, PlaceOK
    <2>10. Good(n, mask[t]) /\ Codes(n) < profile.nest
        BY <2>3, <2>7, <2>9
    <2>a. stack' = [stack EXCEPT ![t] = w]
        <3>1. <<c, g>> \o r = w
            BY <2>3, <2>4, <2>7, TwoFrames
        <3> QED
            BY <1>3, <3>1 DEF c, g
    <2> HIDE DEF n
    <2>11. Above(c, n[1])
        BY <2>2, <2>3, <2>4, <2>9 DEF Above
    <2>12. /\ Good(w, IF c.k = "code" THEN c.want ELSE mask[t])
           /\ w[1] = c
           /\ Calling(w) <=> (c.k = "gc" /\ c.by = "actions") \/ Calling(n)
           /\ \A x : Watching(w, x) <=>
                    \/ c.k = "gc" /\ c.by \in {"actions", "alloc"} /\ c.at # "final"
                    \/ c.k = "scan" /\ x \in Due(c) /\ n[1].k = "gc"
                    \/ Watching(n, x)
        <3>1. c.k # "scan" /\ c.k # "gc" /\ c.saved = mask[t] /\ c \in Frame
            BY <2>4
        <3> QED
            BY <2>10, <2>11, <3>1, PlaceOK
    <2>13. Good(w, mask[t] \cup {s})
        BY <2>4, <2>12
    <2> HIDE DEF w
    <2>14. Moved(t, w)
        BY <1>0, <1>3, <2>13, <2>a, Moves
    <2>15. stack'[t] = w /\ Top(t)' = c
        BY <2>12, <2>14 DEF Moved
    <2>16. Moved(t, stack'[t]) /\ (Calling(stack[t]) <=> Calling(stack'[t]))
        BY <2>3, <2>4, <2>7, <2>9, <2>12, <2>14, <2>15
    <2>17. \A x \in fresh' : Watching(stack[t], x) => Watching(stack'[t], x)
        <3>1. \A x \in fresh' : x \in Sig /\ x # s
            BY <1>3 DEF IInv, Types
        <3> QED
            BY <2>3, <2>5, <2>7, <2>9, <2>12, <2>15, <3>1
    <2>18. ~Away(Top(t)') /\ Top(t)'.k # "scan" /\ ~(Top(t).k = "install" /\ Top(t).at = "store")
        BY <1>0, <2>4, <2>15 DEF Away, f
    <2>19. pending' \subseteq pending /\ fresh' \subseteq fresh
        BY <1>3
    <2>20. StartsDue(t)
        <3>1. s \in f.curr /\ s \notin f.set
            BY <1>3 DEF Due
        <3>2. f.curr \subseteq pending
            BY <1>0 DEF IInv, ScanInv, f
        <3>3. \A x \in pending : x \in handlers
            BY <1>0 DEF IInv, HandlerInv, f
        <3> QED
            BY <2>4, <2>7, <2>15, <3>1, <3>2, <3>3 DEF StartsDue
    <2> QED
        BY <1>0, <1>1, <2>6, <2>16, <2>17, <2>18, <2>19, <2>20, OwnStep
<1> QED
    BY <1>0, <1>2, <1>3

LEMMA BlockCalls ==
    ASSUME IInv, NEW t \in Thread, BlockCall(t)
    PROVE  IInv' /\ HandlerDue
<1> DEFINE f == Top(t)
           g == [f EXCEPT !.at = "leave"]
           n == <<g>> \o Tail(stack[t])
<1>0. /\ f.k = "block" /\ f.at = "inside"
      /\ UNCHANGED <<pending, limit, action_pending, requested, external, todo, finalising,
                     recording, holder, fresh, events,
                     installed, handlers, ticking, profile, calls>>
      /\ IF f.new = None
           THEN stack' = [stack EXCEPT ![t] = n] /\ UNCHANGED mask
           ELSE /\ mask' = [mask EXCEPT ![t] = f.new]
                /\ stack' = [stack EXCEPT ![t] = WithMask(n, f.new)]
    BY DEF BlockCall, Outside, async, Below
<1>1. f \in BlockFrame
    BY <1>0, TopIs, FrameIs
<1>2. g \in Frame /\ g.k = "block" /\ g.new = f.new /\ g.at = "leave" /\ f.new \in (SUBSET Sig) \cup {None}
    <2> HIDE DEF f
    <2> QED
        BY <1>1 DEF BlockFrame, Frame
<1>3. Types'
    <2>1. mask' \in [Thread -> SUBSET Sig]
        BY <1>0, <1>2 DEF IInv, Types
    <2> QED
        BY <1>0, <2>1 DEF IInv, Types
<1> HIDE DEF g
<1>4. /\ Good(n, mask[t]) /\ n[1] = g
      /\ Calling(stack[t]) <=> Calling(n)
      /\ \A s : Watching(stack[t], s) => Watching(n, s)
    BY <1>0, <1>2, ReplaceOK
<1> HIDE DEF n
<1>5. /\ Moved(t, stack'[t]) /\ Top(t)' = g
      /\ Calling(stack[t]) <=> Calling(stack'[t])
      /\ \A s : Watching(stack[t], s) => Watching(stack'[t], s)
    <2>1. CASE f.new = None
        <3>1. stack' = [stack EXCEPT ![t] = n] /\ UNCHANGED mask
            BY <1>0, <2>1
        <3>2. Moved(t, n)
            BY <1>0, <1>4, <3>1, MovesInMask
        <3>3. stack'[t] = n /\ Top(t)' = n[1]
            BY <3>2 DEF Moved
        <3> QED
            BY <1>4, <3>2, <3>3
    <2>2. CASE f.new # None
        <3> DEFINE w == WithMask(n, f.new)
        <3>1. f.new \in SUBSET Sig
            BY <1>2, <2>2
        <3>2. n \in Seq(Frame) /\ Len(n) \in Nat /\ Len(n) > 1 /\ n[2].k = "code"
            <4>1. Len(n) > 1 /\ n[2] = Tail(n)[1] /\ Above(n[1], Tail(n)[1]) /\ n \in Seq(Frame)
                BY <1>2, <1>4, PopGood
            <4> QED
                BY <1>2, <1>4, <4>1 DEF Above
        <3>3. 2 \in 1 .. Len(n) /\ NextCode(n, 0, 2)
            <4>1. \A x \in 1 .. Len(n) : 0 < x /\ x < 2 => x = 1
                BY <3>2
            <4>2. 2 \in 1 .. Len(n)
                BY <3>2
            <4> QED
                BY <1>2, <1>4, <3>2, <4>1, <4>2 DEF NextCode
        <3>4. \A i \in 1 .. Len(n) : i < 2 => n[i].k # "scan"
            <4>1. \A i \in 1 .. Len(n) : i < 2 => i = 1
                BY <3>2
            <4> QED
                BY <1>2, <1>4, <4>1
        <3>5. /\ Good(w, f.new)
              /\ \A i \in 1 .. Len(n) : i # 2 => w[i] = n[i]
              /\ Calling(w) <=> Calling(n)
              /\ \A s : Watching(w, s) <=> Watching(n, s)
            BY <1>4, <3>1, <3>3, <3>4, WithMaskGood
        <3>6. w[1] = g
            <4>1. 1 \in 1 .. Len(n)
                BY <3>2
            <4> QED
                BY <1>4, <3>5, <4>1
        <3>7. stack' = [stack EXCEPT ![t] = w] /\ mask' = [mask EXCEPT ![t] = f.new]
            BY <1>0, <2>2
        <3> HIDE DEF w
        <3>8. Moved(t, w)
            BY <1>0, <3>5, <3>7, Moves
        <3>9. stack'[t] = w /\ Top(t)' = w[1]
            BY <3>8 DEF Moved
        <3> QED
            BY <1>4, <3>5, <3>6, <3>8, <3>9
    <2> QED
        BY <2>1, <2>2
<1>6. Away(Top(t)) /\ Away(Top(t)') /\ holder # t
    BY <1>0, <1>2, <1>5, TopIs DEF Away
<1>7. RequestsNoticed'
    BY <1>0, <1>5, <1>6, RequestsKept DEF Moved
<1> QED
    BY <1>0, <1>2, <1>3, <1>5, <1>6, <1>7, OutStep DEF StartsDue

(***************************************************************************)
(* The end of a handler or of a finaliser.                                 *)
(***************************************************************************)
LEMMA FinaliserEnds ==
    ASSUME IInv, NEW t \in Thread, Top(t).k = "code", Top(t).sig = Fin
    PROVE  LET q == WithMask(Tail(stack[t]), Top(t).want)
           IN  /\ Good(q, mask[t])
               /\ q[1].k = "gc" /\ q[1].at = "final" /\ q[1].by = "actions"
               /\ q \in Seq(Frame) /\ Len(q) = Len(stack[t]) - 1
               /\ Calling(stack[t]) <=> Calling(q)
               /\ \A s : Watching(stack[t], s) <=> Watching(q, s)
<1> DEFINE r == Tail(stack[t])
           w == Top(t).want
           q == WithMask(r, w)
<1>1. /\ StackOK(r) /\ Above(Top(t), r[1]) /\ r \in Seq(Frame) /\ Len(r) >= 1 /\ Len(r) \in Nat
      /\ Codes(r) \in Nat /\ Codes(stack[t]) = Codes(r) + 1
      /\ Urgent(stack[t]) <=> Urgent(r)
      /\ Calling(stack[t]) <=> Calling(r)
      /\ \A s : Watching(stack[t], s) <=> Watching(r, s)
    <2>1. Top(t).sig # None
        BY SignalsAssumption
    <2> QED
        BY <2>1, BelowIs
<1>2. w = mask[t] /\ w \in SUBSET Sig
    <2> DEFINE st == stack[t]
    <2>1. Wants(st, mask[t]) /\ Len(st) \in Nat /\ Len(st) >= 1 /\ st[1] = Top(t)
        BY TopIs
    <2> HIDE DEF st
    <2>2. 1 \in 1 .. Len(st) /\ NextCode(st, 0, 1)
        BY <2>1 DEF NextCode
    <2>3. mask[t] = st[1].want
        BY <2>1, <2>2 DEF Wants
    <2>4. mask[t] \in SUBSET Sig
        BY DEF IInv, Types
    <2> QED
        BY <2>1, <2>3, <2>4
<1>3. Codes(r) < profile.nest /\ (Urgent(r) => profile.urgent)
    BY <1>1, NestIs, TopIs
<1>r. Len(r) = Len(stack[t]) - 1
    BY TopIs, Uncons
<1> HIDE DEF r
<1>4. PICK j \in 1 .. Len(r) : j <= 4 /\ NextCode(r, 0, j)
    BY <1>1, Inner
<1>5. \A b \in 1 .. Len(r) : NextCode(r, 0, b) => b = j
    BY <1>1, <1>4, InnermostIs
<1>6. Wants(r, r[j].want)
    BY <1>5 DEF Wants
<1>7. Good(r, r[j].want)
    BY <1>1, <1>3, <1>6, NestIs DEF Good
<1>8. r[1].k = "gc" /\ r[1].at = "final" /\ r[1].by = "actions"
    <2>1. r[1].k = "gc" /\ r[1].at = "final"
        BY <1>1, SignalsAssumption DEF Above
    <2>2. r[1] \in Frame
        BY <1>1
    <2>3. r[1] \in GcFrame
        BY <2>1, <2>2, FrameIs
    <2> QED
        BY <2>1, <2>3 DEF GcFrame
<1>9. \A i \in 1 .. Len(r) : i < Len(r) => Above(r[i], r[i + 1])
    BY <1>1 DEF StackOK
<1>10. ASSUME NEW i \in 1 .. Len(r), i < j PROVE r[i].k # "scan"
    <2>1. i = 1 \/ i = 2 \/ i = 3
        BY <1>1, <1>4, <1>10
    <2>2. CASE i = 1
        BY <1>8, <2>2
    <2>3. CASE i = 2
        <3>1. 1 \in 1 .. Len(r) /\ 1 < Len(r) /\ 1 + 1 = 2
            BY <1>1, <2>3
        <3>2. Above(r[1], r[2])
            BY <1>9, <3>1
        <3> QED
            BY <1>8, <2>3, <3>2 DEF Above
    <2>4. CASE i = 3
        <3>1. 1 \in 1 .. Len(r) /\ 1 < Len(r) /\ 1 + 1 = 2 /\ 2 \in 1 .. Len(r) /\ 2 < Len(r) /\ 2 + 1 = 3
              /\ 0 < 2 /\ 2 < j
            BY <1>1, <1>10, <2>4
        <3>2. Above(r[1], r[2]) /\ Above(r[2], r[3])
            BY <1>9, <3>1
        <3>3. r[2].k # "code"
            BY <1>4, <3>1 DEF NextCode
        <3>4. r[2].k = "block"
            BY <1>8, <3>2, <3>3 DEF Above
        <3> QED
            BY <2>4, <3>2, <3>4 DEF Above
    <2> QED
        BY <2>1, <2>2, <2>3, <2>4
<1> HIDE DEF w
<1>11. /\ Good(q, w) /\ q \in Seq(Frame) /\ Len(q) = Len(r)
       /\ \A i \in 1 .. Len(r) : i # j => q[i] = r[i]
       /\ Calling(q) <=> Calling(r)
       /\ \A s : Watching(q, s) <=> Watching(r, s)
    <2> DEFINE m == r[j].want
    <2>1. Good(r, m)
        BY <1>7
    <2> HIDE DEF m
    <2> QED
        BY <1>2, <1>4, <1>10, <2>1, WithMaskGood
<1> HIDE DEF q
<1>12. q[1] = r[1]
    <2>1. 1 \in 1 .. Len(r) /\ r[j].k = "code"
        BY <1>1, <1>4 DEF NextCode
    <2>2. j # 1
        BY <1>8, <2>1
    <2> QED
        BY <1>11, <2>1, <2>2
<1>13. Good(q, mask[t])
    BY <1>2, <1>11
<1> QED
    BY <1>1, <1>8, <1>11, <1>12, <1>13, <1>r DEF q, r, w

LEMMA HandlerEnds ==
    ASSUME IInv, NEW t \in Thread, Top(t).k = "code", Top(t).sig \in Sig
    PROVE  LET q == Tail(stack[t])
           IN  /\ Good(q, Top(t).saved) /\ q[1].k = "scan" /\ Top(t).saved \in SUBSET Sig
               /\ q \in Seq(Frame) /\ Len(q) = Len(stack[t]) - 1
               /\ Calling(stack[t]) <=> Calling(q)
               /\ \A s : Watching(stack[t], s) <=> Watching(q, s)
<1> DEFINE q == Tail(stack[t])
<1>1. Top(t).sig # None
    BY SignalsAssumption
<1>2. Good(q, Top(t).saved)
    BY <1>1, BelowGood
<1>3. /\ Above(Top(t), q[1])
      /\ Calling(stack[t]) <=> Calling(q)
      /\ \A s : Watching(stack[t], s) <=> Watching(q, s)
    BY <1>1, BelowIs
<1>4. q[1].k = "scan"
    BY <1>3, SignalsAssumption DEF Above
<1>5. Top(t).saved \in SUBSET Sig
    BY TopIs, FrameIs DEF CodeFrame
<1>6. q \in Seq(Frame) /\ Len(q) = Len(stack[t]) - 1
    BY TopIs, Uncons
<1> QED
    BY <1>2, <1>3, <1>4, <1>5, <1>6

LEMMA CodeEnded ==
    ASSUME IInv, NEW t \in Thread, NEW raised, CodeEnds(t, raised)
    PROVE  /\ holder = t /\ Top(t).k = "code" /\ Top(t).sig \in Sig \cup {Fin}
           /\ (requested => limit) /\ (external => limit \/ ticking)
           /\ finalising' = (finalising /\ Top(t).sig # Fin)
           /\ mask' = [mask EXCEPT ![t] = IF Top(t).sig \in Sig THEN Top(t).saved ELSE mask[t]]
           /\ Fin \notin Sig
<1>0. /\ holder = t /\ Top(t).k = "code" /\ Top(t).sig # None
      /\ mask' = [mask EXCEPT ![t] = MaskAfter(t, raised)]
      /\ finalising' = (finalising /\ Top(t).sig # Fin)
    BY DEF CodeEnds, Runs
<1>1. Top(t) \in CodeFrame
    BY <1>0, TopIs, FrameIs
<1>2. Top(t).sig \in Sig \cup {Fin}
    BY <1>0, <1>1 DEF CodeFrame
<1>3. (requested => limit) /\ (external => limit \/ ticking)
    BY <1>0, RequestsAre DEF At
<1> QED
    BY <1>0, <1>2, <1>3, SignalsAssumption DEF MaskAfter

LEMMA Returns ==
    ASSUME IInv, NEW t \in Thread, Return(t)
    PROVE  IInv' /\ HandlerDue
<1>0. /\ CodeEnds(t, FALSE)
      /\ stack' = [stack EXCEPT ![t] = IF Top(t).sig = Fin THEN Rest(t)
                                       ELSE [Rest(t) EXCEPT ![1].curr = pending]]
      /\ UNCHANGED <<pending, limit, action_pending, requested, external, todo,
                     recording, holder, fresh, events,
                     installed, handlers, ticking, profile, calls>>
    BY DEF Return, async
<1>1. /\ holder = t /\ Top(t).k = "code" /\ Top(t).sig \in Sig \cup {Fin}
      /\ (requested => limit) /\ (external => limit \/ ticking)
      /\ finalising' = (finalising /\ Top(t).sig # Fin)
      /\ mask' = [mask EXCEPT ![t] = IF Top(t).sig \in Sig THEN Top(t).saved ELSE mask[t]]
      /\ Fin \notin Sig
    BY <1>0, CodeEnded
<1>2. RequestsNoticed'
    BY <1>0, <1>1, SignalsAssumption, RequestsRule
<1>3. CASE Top(t).sig = Fin
    <2> DEFINE q == WithMask(Tail(stack[t]), Top(t).want)
    <2>1. /\ Good(q, mask[t])
          /\ q[1].k = "gc" /\ q[1].at = "final" /\ q[1].by = "actions"
          /\ Calling(stack[t]) <=> Calling(q)
          /\ \A s : Watching(stack[t], s) <=> Watching(q, s)
        BY <1>1, <1>3, FinaliserEnds
    <2>2. stack' = [stack EXCEPT ![t] = q]
        BY <1>0, <1>3 DEF Rest, Below
    <2>3. mask' = mask /\ finalising' = FALSE
        BY <1>1, <1>3 DEF IInv, Types
    <2>4. Types'
        BY <1>0, <2>3 DEF IInv, Types
    <2> HIDE DEF q
    <2>5. Moved(t, q)
        BY <1>0, <2>1, <2>2, <2>3, MovesInMask
    <2>6. stack'[t] = q /\ Top(t)' = q[1]
        BY <2>5 DEF Moved
    <2>7. Calling(q)
        <3>1. q[1].k # "code"
            BY <2>1
        <3> QED
            BY <2>1, <3>1, PopGood
    <2>8. /\ ~Away(Top(t)') /\ Top(t)'.k # "scan" /\ Top(t)'.k # "code"
          /\ ~(Top(t).k = "install" /\ Top(t).at = "store")
        BY <1>1, <2>1, <2>6 DEF Away
    <2>9. /\ UNCHANGED <<profile, recording, installed>> /\ handlers \subseteq handlers'
          /\ pending' \subseteq pending /\ fresh' \subseteq fresh /\ holder' = holder
          /\ limit' = limit /\ action_pending' = action_pending
        BY <1>0
    <2>10. /\ Moved(t, stack'[t]) /\ Calling(stack'[t])
           /\ \A s : Watching(stack[t], s) => Watching(stack'[t], s)
        BY <2>1, <2>5, <2>6, <2>7
    <2> QED
        BY <1>1, <1>2, <2>4, <2>8, <2>9, <2>10, OwnStep DEF StartsDue
<1>4. CASE Top(t).sig \in Sig
    <2> DEFINE q == Tail(stack[t])
               m == Top(t).saved
               f == q[1]
               g == [f EXCEPT !.curr = pending]
               r == Tail(q)
               n == <<g>> \o r
    <2>1. /\ Good(q, m) /\ q[1].k = "scan" /\ m \in SUBSET Sig
          /\ Calling(stack[t]) <=> Calling(q)
          /\ \A s : Watching(stack[t], s) <=> Watching(q, s)
        BY <1>1, <1>4, HandlerEnds
    <2>2. /\ finalising' = finalising /\ mask' = [mask EXCEPT ![t] = m]
          /\ stack' = [stack EXCEPT ![t] = [q EXCEPT ![1].curr = pending]]
        BY <1>0, <1>1, <1>4 DEF Rest, Below, IInv, Types
    <2>3. Types'
        <3>1. mask' \in [Thread -> SUBSET Sig]
            BY <2>1, <2>2 DEF IInv, Types
        <3> QED
            BY <1>0, <2>2, <3>1 DEF IInv, Types
    <2> HIDE DEF m, q
    <2>4. /\ Good(r, m) /\ Codes(r) < profile.nest
          /\ Above(f, r[1]) /\ q[2] = r[1]
          /\ q \in Seq(Frame) /\ r \in Seq(Frame) /\ Len(q) > 1 /\ Len(r) = Len(q) - 1
          /\ f.set = m
          /\ Calling(q) <=> Calling(r)
          /\ \A s : Watching(q, s) <=> (s \in Due(f) /\ r[1].k = "gc") \/ Watching(r, s)
        BY <2>1, PopGood
    <2>5. f \in ScanFrame /\ f.k = "scan"
        <3>1. f \in Frame
            BY <2>4
        <3> QED
            BY <2>1, <3>1, FrameIs
    <2>6. g \in Frame /\ g.k = "scan" /\ g.set = f.set /\ g.pos = f.pos /\ g.curr = pending
        <3>1. pending \in SUBSET Sig
            BY DEF IInv, Types
        <3> HIDE DEF f
        <3> QED
            BY <2>5, <3>1 DEF ScanFrame, Frame
    <2>7. \A s \in pending : s \in Due(f) => s \in Due(g)
        <3> HIDE DEF f, g
        <3> QED
            BY <2>6 DEF Due
    <2>8. [q EXCEPT ![1].curr = pending] = n
        <3> DEFINE v == [q EXCEPT ![1].curr = pending]
        <3>1. Len(q) \in Nat /\ q = [i \in 1 .. Len(q) |-> q[i]] /\ 1 \in 1 .. Len(q)
            BY <2>4
        <3>2. v = [i \in 1 .. Len(q) |-> IF i = 1 THEN g ELSE q[i]]
            BY <3>1
        <3> HIDE DEF v, g
        <3>3. n \in Seq(Frame) /\ Len(n) = Len(q) /\ n[1] = g /\ \A i \in 1 .. Len(q) : i > 1 => n[i] = q[i]
            <4>1. \A i \in 1 .. Len(q) : i > 1 => i - 1 \in 1 .. Len(r) /\ q[i] = r[i - 1]
                BY <2>4, Uncons
            <4> HIDE DEF r
            <4>2. /\ <<g>> \o r \in Seq(Frame)
                  /\ Len(<<g>> \o r) = Len(r) + 1
                  /\ (<<g>> \o r)[1] = g
                  /\ \A i \in 1 .. Len(r) + 1 : i > 1 => /\ i - 1 \in 1 .. Len(r)
                                                         /\ (<<g>> \o r)[i] = r[i - 1]
                BY <2>4, <2>6, Cons
            <4> QED
                BY <2>4, <3>1, <4>1, <4>2
        <3>4. n = [i \in 1 .. Len(n) |-> n[i]]
            BY <3>3
        <3> HIDE DEF n
        <3>5. v = n
            BY <3>1, <3>2, <3>3, <3>4
        <3> QED
            BY <3>5 DEF v
    <2> HIDE DEF g, f, r
    <2>9. Above(g, r[1])
        BY <2>4, <2>5, <2>6 DEF Above
    <2>10. /\ Good(n, IF g.k = "code" THEN g.want ELSE m)
           /\ n[1] = g
           /\ Calling(n) <=> (g.k = "gc" /\ g.by = "actions") \/ Calling(r)
           /\ \A s : Watching(n, s) <=>
                    \/ g.k = "gc" /\ g.by \in {"actions", "alloc"} /\ g.at # "final"
                    \/ g.k = "scan" /\ s \in Due(g) /\ r[1].k = "gc"
                    \/ Watching(r, s)
        <3>1. g.k # "code" /\ g.k # "gc" /\ g.set = m
            BY <2>4, <2>6
        <3> QED
            BY <2>4, <2>6, <2>9, <3>1, PlaceOK
    <2>11. Good(n, m) /\ stack' = [stack EXCEPT ![t] = n]
        BY <2>2, <2>6, <2>8, <2>10
    <2> HIDE DEF n
    <2>12. Moved(t, n)
        BY <1>0, <2>2, <2>11, Moves
    <2>13. stack'[t] = n /\ Top(t)' = g
        BY <2>10, <2>12 DEF Moved
    <2>14. /\ Moved(t, stack'[t]) /\ (Calling(stack[t]) <=> Calling(stack'[t]))
        BY <2>1, <2>4, <2>6, <2>10, <2>12, <2>13
    <2>15. \A s \in fresh' : Watching(stack[t], s) => Watching(stack'[t], s)
        <3>1. \A s \in fresh' : s \in pending
            BY <1>0 DEF IInv, Types
        <3> QED
            BY <2>1, <2>4, <2>6, <2>7, <2>10, <2>13, <3>1
    <2>16. /\ ~Away(Top(t)') /\ Top(t)'.curr \subseteq pending' /\ Top(t)'.k # "code"
           /\ ~(Top(t).k = "install" /\ Top(t).at = "store")
        BY <1>0, <1>1, <2>6, <2>13 DEF Away
    <2>17. /\ UNCHANGED <<profile, recording, installed>> /\ handlers \subseteq handlers'
           /\ pending' \subseteq pending /\ fresh' \subseteq fresh /\ holder' = holder
           /\ limit' = limit /\ action_pending' = action_pending /\ todo' = todo
        BY <1>0
    <2>18. StartsDue(t) /\ finalising' = finalising
        BY <2>2, <2>16 DEF StartsDue
    <2>19. ~profile.urgent /\ ~profile.raises =>
              \A s \in fresh' :
                 limit \/ action_pending \/ Watching(stack[t], s) =>
                    limit' \/ action_pending' \/ Watching(stack'[t], s)
        BY <2>15, <2>17
    <2>20. ~profile.raises /\ todo' > 0 =>
              \/ action_pending' \/ finalising' \/ Calling(stack'[t])
              \/ todo > 0 /\ ~action_pending /\ ~finalising /\ ~Calling(stack[t])
        BY <2>14, <2>17, <2>18
    <2> QED
        BY <1>1, <1>2, <2>3, <2>14, <2>16, <2>17, <2>18, <2>19, <2>20, OwnStep
<1> QED
    BY <1>1, <1>3, <1>4

LEMMA RestIs ==
    ASSUME IInv, NEW t \in Thread, Top(t).k = "code", Top(t).sig \in Sig \cup {Fin}, Fin \notin Sig
    PROVE  /\ Good(Rest(t), IF Top(t).sig \in Sig THEN Top(t).saved ELSE mask[t])
           /\ (IF Top(t).sig \in Sig THEN Top(t).saved ELSE mask[t]) \in SUBSET Sig
           /\ Rest(t) \in Seq(Frame) /\ Len(Rest(t)) = Len(stack[t]) - 1
           /\ Calling(stack[t]) <=> Calling(Rest(t))
           /\ \A s : Watching(stack[t], s) <=> Watching(Rest(t), s)
           /\ Top(t).sig = Fin => /\ Rest(t)[1].k = "gc" /\ Rest(t)[1].at = "final"
                                  /\ Rest(t)[1].by = "actions"
<1>0. mask[t] \in SUBSET Sig
    BY DEF IInv, Types
<1>1. CASE Top(t).sig = Fin
    <2> DEFINE q == WithMask(Tail(stack[t]), Top(t).want)
    <2>1. /\ Good(q, mask[t])
          /\ q[1].k = "gc" /\ q[1].at = "final" /\ q[1].by = "actions"
          /\ q \in Seq(Frame) /\ Len(q) = Len(stack[t]) - 1
          /\ Calling(stack[t]) <=> Calling(q)
          /\ \A s : Watching(stack[t], s) <=> Watching(q, s)
        BY <1>1, FinaliserEnds
    <2>2. Rest(t) = q
        BY <1>1 DEF Rest, Below
    <2> HIDE DEF q
    <2> QED
        BY <1>0, <1>1, <2>1, <2>2
<1>2. CASE Top(t).sig \in Sig
    <2> DEFINE q == Tail(stack[t])
    <2>1. /\ Good(q, Top(t).saved) /\ q[1].k = "scan" /\ Top(t).saved \in SUBSET Sig
          /\ q \in Seq(Frame) /\ Len(q) = Len(stack[t]) - 1
          /\ Calling(stack[t]) <=> Calling(q)
          /\ \A s : Watching(stack[t], s) <=> Watching(q, s)
        BY <1>2, HandlerEnds
    <2>2. Rest(t) = q
        BY <1>2 DEF Rest, Below
    <2> HIDE DEF q
    <2> QED
        BY <1>2, <2>1, <2>2
<1> QED
    BY <1>1, <1>2

LEMMA Raises ==
    ASSUME IInv, NEW t \in Thread, Raise(t)
    PROVE  IInv' /\ HandlerDue
<1> DEFINE r == Rest(t)
           n == InnermostCode(r)
           frames == {r[i] : i \in 1 .. n - 1}
           w == SubSeq(r, n, Len(r))
           m == IF Top(t).sig \in Sig THEN Top(t).saved ELSE mask[t]
<1>0. /\ CodeEnds(t, TRUE)
      /\ profile.raises \/ ~InYield(frames)
      /\ stack' = [stack EXCEPT ![t] = w]
      /\ action_pending' = (action_pending \/ Reexamine(frames))
      /\ limit' = (limit \/ Reexamine(frames))
      /\ UNCHANGED <<pending, requested, external, todo, recording, holder, fresh, events,
                     installed, handlers, ticking, profile, calls>>
    BY DEF Raise, async
<1>1. /\ holder = t /\ Top(t).k = "code" /\ Top(t).sig \in Sig \cup {Fin}
      /\ (requested => limit) /\ (external => limit \/ ticking)
      /\ finalising' = (finalising /\ Top(t).sig # Fin)
      /\ mask' = [mask EXCEPT ![t] = m]
      /\ Fin \notin Sig
    BY <1>0, CodeEnded
<1>2. /\ Good(r, m) /\ m \in SUBSET Sig
      /\ r \in Seq(Frame) /\ Len(r) = Len(stack[t]) - 1
      /\ Calling(stack[t]) <=> Calling(r)
      /\ \A s : Watching(stack[t], s) <=> Watching(r, s)
      /\ Top(t).sig = Fin => r[1].k = "gc" /\ r[1].at = "final" /\ r[1].by = "actions"
    BY <1>1, RestIs
<1>3. Types'
    <2>1. mask' \in [Thread -> SUBSET Sig]
        BY <1>1, <1>2 DEF IInv, Types
    <2>2. limit' \in BOOLEAN /\ action_pending' \in BOOLEAN /\ finalising' \in BOOLEAN
        BY <1>0, <1>1 DEF IInv, Types
    <2> QED
        BY <1>0, <2>1, <2>2 DEF IInv, Types
<1> HIDE DEF r, m
<1>4. StackOK(r) /\ r \in Seq(Frame) /\ Len(r) \in Nat
    <2>1. StackOK(r)
        BY <1>2 DEF Good
    <2> QED
        BY <2>1 DEF StackOK
<1>5. n \in 1 .. Len(r) /\ n <= 4 /\ NextCode(r, 0, n)
    <2>1. PICK j \in 1 .. Len(r) : j <= 4 /\ NextCode(r, 0, j)
        BY <1>4, Inner
    <2>2. n = j
        BY <1>4, <2>1, InnermostIs
    <2> QED
        BY <2>1, <2>2
<1> HIDE DEF n
<1>6. /\ Good(w, m) /\ w[1].k = "code"
      /\ Calling(r) => \/ Calling(w)
                       \/ \E i \in 1 .. n - 1 : r[i].k = "gc" /\ r[i].by = "actions"
      /\ \A s : Watching(r, s) => \/ Watching(w, s)
                                  \/ \E i \in 1 .. n - 1 : Watches(r, i, s)
    <2>1. Unwound(r, m, n)
        BY <1>2, <1>5, Unwind
    <2> QED
        BY <2>1 DEF Unwound
<1>w. ~(Len(w) > Len(stack[t]))
    <2>1. Len(stack[t]) \in Nat
        BY TopIs
    <2>2. Len(w) = Len(r) - n + 1
        BY <1>4, <1>5
    <2> QED
        BY <1>2, <1>4, <1>5, <2>1, <2>2
<1> HIDE DEF w
<1>7. Moved(t, w)
    BY <1>0, <1>1, <1>6, Moves
<1>8. stack'[t] = w /\ Top(t)' = w[1]
    BY <1>7 DEF Moved
<1>9. RequestsNoticed'
    <2>1. limit => limit'
        BY <1>0
    <2> QED
        BY <1>0, <1>1, <2>1, SignalsAssumption, RequestsRule
<1>10. ASSUME ~profile.raises, NEW i \in 1 .. n - 1, r[i].k = "gc"
       PROVE  r[i].at = "final" /\ r[i].by = "actions" /\ Reexamine(frames)
    <2>1. r[i] \in frames
        OBVIOUS
    <2>2. r[i] \in GcFrame
        <3>1. i \in 1 .. Len(r)
            BY <1>4, <1>5
        <3>2. r[i] \in Frame
            BY <1>4, <3>1
        <3> QED
            BY <1>10, <3>2, FrameIs
    <2> HIDE DEF frames
    <2>3. r[i].at = "final"
        BY <1>0, <1>10, <2>1 DEF InYield
    <2>4. r[i].by = "actions"
        BY <2>2, <2>3 DEF GcFrame
    <2> QED
        BY <1>10, <2>1, <2>3, <2>4 DEF Reexamine
<1>11. ASSUME ~profile.raises, NEW s, Watching(stack[t], s)
       PROVE  limit' \/ Watching(stack'[t], s)
    <2>1. CASE Watching(w, s)
        BY <1>8, <2>1
    <2>2. CASE ~Watching(w, s)
        <3>1. PICK i \in 1 .. n - 1 : Watches(r, i, s)
            BY <1>2, <1>6, <1>11, <2>2
        <3>2. ~(r[i].k = "gc" /\ r[i].at # "final")
            BY <1>10, <1>11
        <3>3. r[i + 1].k = "gc"
            BY <3>1, <3>2 DEF Watches
        <3>4. i + 1 \in 1 .. n - 1
            <4>1. r[n].k = "code"
                BY <1>5 DEF NextCode
            <4>2. i + 1 # n
                BY <3>3, <4>1
            <4> QED
                BY <1>4, <1>5, <4>2
        <3>5. Reexamine(frames)
            BY <1>10, <1>11, <3>3, <3>4
        <3> QED
            BY <1>0, <3>5
    <2> QED
        BY <2>1, <2>2
<1>12. ASSUME ~profile.raises, Calling(stack[t])
       PROVE  action_pending' \/ Calling(stack'[t])
    BY <1>0, <1>2, <1>6, <1>8, <1>10, <1>12
<1>13. ASSUME ~profile.raises, Top(t).sig = Fin PROVE action_pending'
    <2>1. 1 \in 1 .. n - 1
        <3>1. r[n].k = "code"
            BY <1>5 DEF NextCode
        <3>2. n # 1
            BY <1>2, <1>13, <3>1
        <3> QED
            BY <1>4, <1>5, <3>2
    <2> QED
        BY <1>0, <1>2, <1>10, <1>13, <2>1
<1>14. ~profile.urgent /\ ~profile.raises =>
              \A s \in fresh' :
                 limit \/ action_pending \/ Watching(stack[t], s) =>
                    limit' \/ action_pending' \/ Watching(stack'[t], s)
    BY <1>0, <1>11
<1>15. ~profile.raises /\ todo' > 0 =>
              \/ action_pending' \/ finalising' \/ Calling(stack'[t])
              \/ todo > 0 /\ ~action_pending /\ ~finalising /\ ~Calling(stack[t])
    BY <1>0, <1>1, <1>12, <1>13
<1>16. /\ ~Away(Top(t)') /\ Top(t)'.k # "scan"
       /\ ~(Top(t).k = "install" /\ Top(t).at = "store")
    BY <1>1, <1>6, <1>8 DEF Away
<1>17. Moved(t, stack'[t]) /\ ~(Len(stack'[t]) > Len(stack[t]))
    BY <1>7, <1>8, <1>w
<1>18. /\ UNCHANGED <<profile, recording, installed>> /\ handlers \subseteq handlers'
       /\ pending' \subseteq pending /\ fresh' \subseteq fresh /\ holder' = holder
    BY <1>0
<1> QED
    BY <1>1, <1>3, <1>9, <1>14, <1>15, <1>16, <1>17, <1>18, OwnStep DEF StartsDue

(***************************************************************************)
(* The invariant holds initially, and every step keeps it.                 *)
(***************************************************************************)
LEMMA FirstFrames ==
    ASSUME NEW n \in Nat, n > 1
    PROVE  LET c == Code(None, {})
               b == [Block(None) EXCEPT !.at = "inside"]
               one == <<c>>
               two == <<b>> \o <<c>>
           IN  /\ StackOK(one) /\ Wants(one, {}) /\ Codes(one) < n /\ ~Urgent(one) /\ one[1] = c
               /\ StackOK(two) /\ Wants(two, {}) /\ Codes(two) < n /\ ~Urgent(two) /\ two[1] = b
               /\ c.k = "code" /\ b.k = "block" /\ b.at = "inside"
               /\ Head(one) = c /\ Head(two) = b
<1> DEFINE c == Code(None, {})
           b == [Block(None) EXCEPT !.at = "inside"]
           one == <<c>>
           two == <<b>> \o one
<1>1. c \in Frame /\ c.k = "code" /\ c.sig = None /\ c.want = {}
    BY SignalsAssumption DEF Code, CodeFrame, Frame
<1>2. b \in Frame /\ b.k = "block" /\ b.at = "inside"
    BY DEF Block, BlockFrame, Frame
<1> HIDE DEF c, b
<1>3. one \in Seq(Frame) /\ Len(one) = 1 /\ one[1] = c /\ Head(one) = c
    BY <1>1
<1>4. \A i \in 1 .. Len(one) : i = 1
    BY <1>3
<1>5. StackOK(one)
    <2>1. \A i, j \in 1 .. Len(one) : ~NextCode(one, i, j)
        BY <1>3, <1>4 DEF NextCode
    <2>2. \A i \in 1 .. Len(one) : ~(i < Len(one))
        BY <1>3
    <2>3. Len(one) >= 1
        BY <1>3
    <2> HIDE DEF one
    <2> QED
        BY <1>1, <1>3, <2>1, <2>2, <2>3 DEF StackOK
<1>6. Wants(one, {})
    BY <1>1, <1>3, <1>4 DEF Wants
<1>7. Codes(one) = 1
    <2>1. {i \in 1 .. Len(one) : one[i].k = "code"} = {1}
        BY <1>1, <1>3
    <2>2. Cardinality({1}) = 1
        BY FS_Singleton
    <2> QED
        BY <2>1, <2>2 DEF Codes
<1>8. ~Urgent(one)
    BY <1>1, <1>3, <1>4 DEF Urgent
<1> HIDE DEF one
<1>9. two[1] = b /\ two \in Seq(Frame) /\ Len(two) = 2
    <2>1. two[1] = b /\ two \in Seq(Frame) /\ Len(two) = Len(one) + 1
        BY <1>2, <1>3, Cons
    <2> HIDE DEF two
    <2> QED
        BY <1>3, <2>1
<1>10. Head(two) = b
    BY <1>9, Uncons
<1>11. StackOK(two) /\ Wants(two, {})
    <2>1. Above(b, one[1])
        BY <1>1, <1>2, <1>3 DEF Above
    <2> QED
        BY <1>2, <1>5, <1>6, <2>1, PushOK
<1>12. Codes(two) = 1
    BY <1>2, <1>3, <1>7, CodesPush
<1>13. ~Urgent(two)
    BY <1>2, <1>3, <1>5, <1>8, SeenPush
<1> QED
    BY <1>1, <1>2, <1>3, <1>5, <1>6, <1>7, <1>8, <1>9, <1>10, <1>11, <1>12, <1>13 DEF one, two, c, b

LEMMA InitIInv ==
    Init => IInv
<1> SUFFICES ASSUME Init PROVE IInv
    OBVIOUS
<1> DEFINE c == Code(None, {})
           b == [Block(None) EXCEPT !.at = "inside"]
           one == <<c>>
           two == <<b>> \o <<c>>
<1>0. profile \in [handled : SUBSET Sig, urgent : BOOLEAN, raises : BOOLEAN,
                   nest : Nat \ {0, 1}, calls : Nat, events : Nat]
    BY SignalsAssumption DEF Init
<1>1. profile.nest \in Nat /\ profile.nest > 1 /\ profile.calls \in Nat /\ profile.events \in Nat
      /\ profile.handled \subseteq Sig
    BY <1>0
<1>2. /\ StackOK(one) /\ Wants(one, {}) /\ Codes(one) < profile.nest /\ ~Urgent(one) /\ one[1] = c
      /\ StackOK(two) /\ Wants(two, {}) /\ Codes(two) < profile.nest /\ ~Urgent(two) /\ two[1] = b
      /\ c.k = "code" /\ b.k = "block" /\ b.at = "inside"
      /\ Head(one) = c /\ Head(two) = b
    BY <1>1, FirstFrames
<1>3. \A t \in Thread : stack[t] = IF t = holder THEN one ELSE two
    <2>1. <<>> \o <<c>> = <<c>>
        BY ConcatEmptySeq
    <2> QED
        BY <2>1 DEF Init
<1>4. stack = [t \in Thread |-> stack[t]]
    BY DEF Init
<1>5. Types
    <2>1. /\ pending = {} /\ fresh = {} /\ installed = profile.handled /\ handlers = installed
          /\ limit = FALSE /\ action_pending = FALSE /\ requested = FALSE /\ external = FALSE
          /\ finalising = FALSE /\ ticking = FALSE /\ todo = 0 /\ calls = 0 /\ events = 0
          /\ holder \in Thread /\ profile \in Profiles
        BY DEF Init
    <2>2. mask \in [Thread -> SUBSET Sig] /\ recording \in [Thread -> Sig \cup {None}]
        BY DEF Init
    <2>3. todo \in 0 .. MaxFin /\ calls \in 0 .. profile.calls /\ events \in 0 .. profile.events
        BY <1>1, <2>1, SignalsAssumption
    <2>4. pending \subseteq Sig /\ installed \subseteq Sig /\ handlers \subseteq Sig /\ fresh \subseteq pending
        BY <1>1, <2>1
    <2> QED
        BY <2>1, <2>2, <2>3, <2>4 DEF Types
<1>6. holder \in Thread /\ mask = [t \in Thread |-> {}] /\ pending = {} /\ fresh = {}
      /\ installed = handlers /\ requested = FALSE /\ external = FALSE /\ todo = 0
    BY DEF Init
<1> HIDE DEF one, two, c, b
<1>7. \A t \in Thread : Top(t) = IF t = holder THEN c ELSE b
    BY <1>2, <1>3 DEF Top
<1>8. StacksInv
    BY <1>2, <1>3, <1>4, <1>6 DEF StacksInv
<1>9. HolderInv
    BY <1>2, <1>7 DEF HolderInv, Away
<1>10. NestInv
    <2>1. \A t \in Thread : Codes(stack[t]) < profile.nest
        BY <1>2, <1>3
    <2>2. \A t \in Thread : stack[t] \in Seq(Frame)
        BY <1>2, <1>3 DEF StackOK
    <2>3. \A t \in Thread : Codes(stack[t]) \in Nat
        BY <2>2, CodesNat
    <2> QED
        BY <1>1, <2>1, <2>3 DEF NestInv
<1>11. ScanInv
    BY <1>2, <1>7 DEF ScanInv
<1>12. HandlerInv
    BY <1>6 DEF HandlerInv
<1>13. UrgentInv
    BY <1>2, <1>3 DEF UrgentInv
<1>14. NoticedInv
    BY <1>6 DEF NoticedInv
<1>15. RequestsNoticed
    BY <1>6 DEF RequestsNoticed
<1>16. ReadyInv
    BY <1>6 DEF ReadyInv
<1> QED
    BY <1>5, <1>8, <1>9, <1>10, <1>11, <1>12, <1>13, <1>14, <1>15, <1>16 DEF IInv

LEMMA NextIInv ==
    ASSUME IInv, [Next]_vars
    PROVE  IInv' /\ HandlerDue
<1>1. ASSUME NEW t \in Thread, Step(t) PROVE IInv' /\ HandlerDue
    BY <1>1, Collects, ResetsLimit, ChecksLimit, Hooks, YieldsLock, GcEnds, ScanStarts,
       ScanGoesOn, CallsFinalisers, BlockPolls, BlockReleases, BlockTests, BlockCalls,
       Acquires, SetSignalAction, InstallStores, InstallEnds DEF Step
<1>2. ASSUME NEW t \in Thread, Program(t) PROVE IInv' /\ HandlerDue
    BY <1>2, DoPendingActions, AllocSmallDispatch, CheckUrgentGc, RequestMinorGc,
       EntersBlocking, InstallCalls, Returns, Raises DEF Program
<1>3. ASSUME NEW t \in Thread, caml_interrupt_all_for_signal(t) PROVE IInv' /\ HandlerDue
    BY <1>3, InterruptAll
<1>4. ASSUME NEW t \in Thread, NEW s \in Sig, caml_record_signal(t, s) PROVE IInv' /\ HandlerDue
    BY <1>4, RecordSignal
<1>5. CASE TickRequest
    BY <1>5, TickRequests
<1>6. CASE TickInterrupt
    BY <1>6, TickInterrupts
<1>7. CASE UNCHANGED vars
    <2>1. UNCHANGED <<pending, limit, action_pending, requested, external, todo, finalising,
                      installed, handlers, mask, recording, ticking, holder, stack,
                      profile, calls, events, fresh>>
        BY <1>7 DEF vars
    <2>2. Types'
        BY <2>1 DEF IInv, Types
    <2>3. StacksInv' /\ NestInv' /\ UrgentInv' /\ HandlerDue
        BY <2>1, Still
    <2>4. HolderInv' /\ ScanInv' /\ HandlerInv'
        BY <2>1, StillHolds
    <2>5. RequestsNoticed'
        BY <2>1, StillRequests
    <2>6. NoticedInv'
        BY <2>1 DEF IInv, NoticedInv
    <2>7. ReadyInv'
        BY <2>1 DEF IInv, ReadyInv
    <2> QED
        BY <2>2, <2>3, <2>4, <2>5, <2>6, <2>7 DEF IInv
<1> QED
    BY <1>1, <1>2, <1>3, <1>4, <1>5, <1>6, <1>7 DEF Next

LEMMA Invariance ==
    Spec => []IInv
<1>1. Init => IInv
    BY InitIInv
<1>2. IInv /\ [Next]_vars => IInv'
    BY NextIInv
<1> QED
    BY <1>1, <1>2, PTL DEF Spec

(***************************************************************************)
(* What the invariant says of the properties.                              *)
(***************************************************************************)
LEMMA FramesAreOK ==
    ASSUME NEW f \in Frame
    PROVE  FrameOK(f)
<1>1. /\ DOMAIN After = {"signals before", "signals after", "signals"}
      /\ {After[x] : x \in DOMAIN After} = {"yield", "end", "final"}
    BY DEF After
<1>2. CASE f.k = "code"
    BY <1>2, FrameIs DEF FrameOK, CodeFrame
<1>3. CASE f.k = "gc"
    <2>1. f \in GcFrame
        BY <1>3, FrameIs
    <2>2. /\ f.by \in {"actions", "alloc", "urgent"}
          /\ f.at \in {"collect", "exchange", "check", "hook", "signals before", "yield",
                       "wait", "signals after", "end", "signals", "final"}
        BY <2>1 DEF GcFrame
    <2>3. f.at \in DOMAIN After \cup {After[x] : x \in DOMAIN After}
                                   \cup {"collect", "exchange", "check", "hook", "wait"}
        BY <1>1, <2>2
    <2> HIDE DEF After
    <2> QED
        BY <1>3, <2>2, <2>3 DEF FrameOK
<1>4. CASE f.k = "scan"
    BY <1>4, FrameIs DEF FrameOK, ScanFrame
<1>5. CASE f.k = "block"
    BY <1>5, FrameIs DEF FrameOK, BlockFrame
<1>6. CASE f.k = "install"
    BY <1>6, FrameIs DEF FrameOK, InstallFrame
<1> QED
    BY <1>2, <1>3, <1>4, <1>5, <1>6, FrameIs

LEMMA InvariantTypes ==
    IInv => TypeOK
<1> SUFFICES ASSUME IInv PROVE TypeOK
    OBVIOUS
<1>1. ASSUME NEW t \in Thread
      PROVE  /\ \A i \in DOMAIN stack[t] : FrameOK(stack[t][i])
             /\ stack[t][Len(stack[t])].sig = None
             /\ Nest(t) <= profile.nest
    <2>1. stack[t] \in Seq(Frame) /\ StackOK(stack[t]) /\ Codes(stack[t]) <= profile.nest
        BY TopIs
    <2>2. DOMAIN stack[t] = 1 .. Len(stack[t]) /\ \A i \in DOMAIN stack[t] : stack[t][i] \in Frame
        BY <2>1
    <2>3. Nest(t) = Codes(stack[t])
        BY <2>2 DEF Nest, Codes
    <2>4. \A i \in DOMAIN stack[t] : FrameOK(stack[t][i])
        BY <2>2, FramesAreOK
    <2> QED
        BY <2>1, <2>3, <2>4 DEF StackOK
<1>2. /\ pending \cup fresh \cup installed \cup handlers \subseteq Sig
      /\ {limit, action_pending, requested, external, finalising, ticking} \subseteq BOOLEAN
      /\ todo \in 0 .. MaxFin
      /\ mask \in [Thread -> SUBSET Sig]
      /\ recording \in [Thread -> Sig \cup {None}]
      /\ holder \in Thread \cup {None}
      /\ calls \in 0 .. profile.calls /\ events \in 0 .. profile.events
    BY DEF IInv, Types
<1> QED
    BY <1>1, <1>2 DEF TypeOK

LEMMA InvariantNoticed ==
    IInv => SignalsNoticed /\ FinalisersNoticed
<1> SUFFICES ASSUME IInv PROVE SignalsNoticed /\ FinalisersNoticed
    OBVIOUS
<1>1. \A t \in Thread : DOMAIN stack[t] = 1 .. Len(stack[t])
    BY TopIs
<1>2. ASSUME NEW t \in Thread, NEW s, Watching(stack[t], s)
      PROVE  \E i \in DOMAIN stack[t] : Examines(stack[t][i], s)
    BY <1>1, <1>2 DEF Watching, Watches, Examines
<1>3. ASSUME NEW t \in Thread, Calling(stack[t])
      PROVE  \E i \in DOMAIN stack[t] : stack[t][i].k = "gc" /\ stack[t][i].by = "actions"
    BY <1>1, <1>3 DEF Calling
<1>4. SignalsNoticed
    BY <1>2 DEF IInv, NoticedInv, SignalsNoticed, ActionPendingOrExecuting
<1>5. FinalisersNoticed
    BY <1>3 DEF IInv, ReadyInv, FinalisersNoticed
<1> QED
    BY <1>4, <1>5

LEMMA InvariantMask ==
    IInv => MaskAsAsked
<1> SUFFICES ASSUME IInv, NEW t \in Thread
             PROVE  mask[t] = stack[t][InnermostCode(stack[t])].want
    BY DEF MaskAsAsked
<1> DEFINE st == stack[t]
<1>1. StackOK(st) /\ Wants(st, mask[t]) /\ st \in Seq(Frame)
    BY TopIs
<1> HIDE DEF st
<1>2. PICK j \in 1 .. Len(st) : NextCode(st, 0, j)
    BY <1>1, Inner
<1>3. InnermostCode(st) = j
    BY <1>1, <1>2, InnermostIs
<1>4. mask[t] = st[j].want
    BY <1>1, <1>2 DEF Wants
<1> QED
    BY <1>3, <1>4 DEF st

\* A signal that is no longer pending is one whose handler starts.
LEMMA StepsKeepSignals ==
    ASSUME IInv, [Next]_vars, NEW s \in pending \ pending'
    PROVE  \E t \in Thread : Starts(t, s)
<1>1. ASSUME NEW t \in Thread, ScanNext(t), NEW x \in Due(Top(t)),
             pending' = pending \ {x},
             stack' = [stack EXCEPT ![t] =
                        <<Code(x, mask[t]), [Top(t) EXCEPT !.pos = x + 1]>> \o Tail(@)]
      PROVE  Starts(t, s)
    <2> DEFINE f == Top(t)
               g == [f EXCEPT !.pos = x + 1]
               c == Code(x, mask[t])
               r == Tail(stack[t])
               w == <<c, g>> \o r
    <2>0. x = s
        BY <1>1
    <2>1. f \in ScanFrame /\ stack[t] \in Seq(Frame) /\ Len(stack[t]) \in Nat /\ Len(stack[t]) >= 1
        BY <1>1, TopIs, FrameIs DEF ScanNext, Runs
    <2>2. x \in Sig /\ x \in Nat /\ mask[t] \in SUBSET Sig
        BY <1>1, <2>1, SignalsAssumption DEF Due, ScanFrame, IInv, Types
    <2>3. g \in Frame
        <3> HIDE DEF f
        <3> QED
            BY <2>1, <2>2 DEF ScanFrame, Frame
    <2>4. c \in Frame /\ c.k = "code" /\ c.sig = x
        BY <2>2 DEF Code, CodeFrame, Frame
    <2>5. r \in Seq(Frame) /\ Len(r) = Len(stack[t]) - 1
        BY <2>1, Uncons
    <2>6. stack'[t] = w
        BY <1>1 DEF IInv, StacksInv
    <2> HIDE DEF c, g, r
    <2>7. Len(w) = Len(r) + 2 /\ w[1] = c
        BY <2>3, <2>4, <2>5
    <2> HIDE DEF w
    <2> QED
        BY <2>0, <2>1, <2>4, <2>5, <2>6, <2>7 DEF Starts
<1>2. ASSUME NEW t \in Thread, ScanNext(t) PROVE \E u \in Thread : Starts(u, s)
    <2>1. UNCHANGED pending \/ \E x \in Due(Top(t)) :
             /\ pending' = pending \ {x}
             /\ stack' = [stack EXCEPT ![t] =
                            <<Code(x, mask[t]), [Top(t) EXCEPT !.pos = x + 1]>> \o Tail(@)]
        BY <1>2 DEF ScanNext, Cleared
    <2> QED
        BY <1>1, <1>2, <2>1
<1>3. ASSUME NEW t \in Thread, Step(t), ~ScanNext(t) PROVE pending \subseteq pending'
    BY <1>3 DEF Step, Collect, ResetLimit, CheckLimit, Hook, YieldLock, GcEnd, ScanStart,
       FinalCalls, BlockPoll, BlockRelease, BlockTest, BlockCall, Acquire,
       caml_set_signal_action, InstallStore, InstallEnd
<1>4. ASSUME NEW t \in Thread, Program(t) PROVE pending \subseteq pending'
    BY <1>4 DEF Program, caml_do_pending_actions, caml_alloc_small_dispatch,
       caml_check_urgent_gc, caml_request_minor_gc, EnterBlocking, InstallCall, Return, Raise
<1>5. CASE \/ \E t \in Thread : caml_interrupt_all_for_signal(t)
           \/ \E t \in Thread, x \in Sig : caml_record_signal(t, x)
           \/ TickRequest \/ TickInterrupt \/ UNCHANGED vars
    BY <1>5 DEF caml_interrupt_all_for_signal, caml_record_signal, TickRequest, TickInterrupt, vars
<1> QED
    BY <1>2, <1>3, <1>4, <1>5 DEF Next

(***************************************************************************)
(* The theorems.                                                           *)
(***************************************************************************)

\* Whatever asks for attention, a signal, a collection, a yield or a finaliser,
\* gets it at the next poll or is getting it (Signals.EventsNoticed), for every
\* number of threads and of signals, and every program of Profiles.
THEOREM EventsAreNoticed ==
    Spec => []EventsNoticed
<1>1. IInv => EventsNoticed
    BY InvariantTypes, InvariantNoticed DEF EventsNoticed, IInv
<1> QED
    BY <1>1, Invariance, PTL

\* No signal is lost: caml_process_pending_signals_exn clears the bit of a signal
\* only to run its handler, whatever other threads record at the same time
\* (Signals.SignalsKept).
THEOREM SignalsAreKept ==
    Spec => SignalsKept
<1>1. IInv /\ [Next]_vars => [\A s \in pending \ pending' : \E t \in Thread : Starts(t, s)]_vars
    BY StepsKeepSignals
<1> QED
    BY <1>1, Invariance, PTL DEF Spec, SignalsKept

\* Handlers run when they may: for a signal that is pending, that the thread does
\* not mask and that has a handler; and the code that they interrupt keeps the
\* mask it has asked for, however they end (Signals.HandlersDue).
THEOREM HandlersAreDue ==
    Spec => HandlersDue
<1>1. IInv => MaskAsAsked
    BY InvariantMask
<1>2. IInv /\ [Next]_vars => [HandlerDue]_vars
    BY NextIInv
<1> QED
    BY <1>1, <1>2, Invariance, PTL DEF Spec, HandlersDue
================================================================================
