-------------------------------- MODULE MCIrc --------------------------------
(***************************************************************************)
(* Small functions to compile with two hardware registers: every choice of *)
(* at most MaxParts of the blocks below, in order.                         *)
(***************************************************************************)
EXTENDS Irc

CONSTANT MaxParts

(* Registers 0 and 1 hold integers as -1 and -2; register 0 also holds     *)
(* floats, as -3.  The temporaries 3 and 4 are floats.                     *)
MCPrecolored == {-1, -2, -3}
MCPhys == [r \in MCPrecolored |-> IF r = -2 THEN 1 ELSE 0]

Ops(R) == {Operand(r) : r \in R}
Op(arg, res, destroyed) == Instruction(1, FALSE, Ops(arg), Ops(res), destroyed, {})
Def(x) == Op({}, {x}, {})
Use(R) == Op(R, {}, {})
Move(x, y) == Instruction(1, TRUE, Ops({y}), Ops({x}), {}, {})
Call(arg, res) == Op(arg, res, MCPrecolored)
Stackable(i) == [i EXCEPT !.stack = {"arg", "res"}]     \* its operand may be a slot
Across(x, D) == <<Def(x), Op({}, {}, D), Use({x})>>
Both(x, y) == <<Def(x), Def(y), Use({x, y})>>
Three(x, y, z) == <<Def(x), Def(y), Def(z), Use({x, y}), Use({z})>>
Chain(x, y, z) == <<Def(x), Def(y), Use({x}), Def(z), Use({y, z})>>
Copy(x, y) == <<Def(y), Move(x, y), Use({x})>>

Parts == <<
    <<Call({}, {-1, -2}), Move(1, -1), Move(2, -2), Use({1, 2})>>,  \* results of calls
    Both(2, 3), Chain(1, 4, 3), Three(1, 2, 3),
    Copy(1, 2), Copy(2, 1),
    <<Stackable(Def(4)), Move(3, 4), Stackable(Use({3}))>>,
    <<Def(1), Move(2, 1), Use({1}), Use({2})>>,             \* both stay live
    Across(1, {-1}), Across(2, MCPrecolored),
    <<Def(1), Def(4), Use({1}), Op({}, {}, {-1}), Use({4})>>,
    <<Stackable(Def(4)), Call({}, {}), Stackable(Use({4}))>>,
    <<Def(1), Op({1}, {5}, {})>>,                           \* 5 is not used
    <<Def(1), Op({1}, {1}, {}), Def(2), Use({1, 2})>>,      \* reads and writes 1
    <<Def(1), Move(-2, 1), Use({-2})>>,                     \* arguments
    <<Def(3), Move(-3, 3), Call({-3}, {})>>>>

(* Instructions have names of their own.                                   *)
Named(c) == [b \in DOMAIN c |-> [n \in DOMAIN c[b] |-> [c[b][n] EXCEPT !.id = 10 * b + n]]]

MCPrograms ==
    {Named([n \in DOMAIN f |-> Parts[f[n]]]) :
        f \in UNION {{g \in [1..n -> DOMAIN Parts] : \A i \in 2..n : g[i - 1] < g[i]} :
                     n \in 1..MaxParts}}
=============================================================================
