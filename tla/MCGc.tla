-------------------------------- MODULE MCGc --------------------------------
EXTENDS Gc, TLC

Shape(c, e, k, y, f, l) ==
    [cell |-> c, ephe |-> e, cont |-> k, young |-> y, first |-> f, last |-> l]

MCShapes ==
    {Shape(2, 1, 0, 0, 0, 0), Shape(1, 1, 0, 1, 1, 0), Shape(1, 1, 0, 1, 0, 1),
     Shape(2, 0, 1, 3, 0, 0), Shape(1, 0, 0, 1, 1, 1), Shape(2, 0, 0, 2, 0, 2),
     Shape(0, 2, 0, 0, 0, 0)}

(* For LateLast, and for the keys of ephemerons: CleanedIsMarked fails with *)
(* KeyShapes and ReuseKeys = TRUE, and all properties hold with KeyShapes   *)
(* and ReuseKeys = FALSE.                                                   *)
LastShapes == {Shape(2, 0, 0, 2, 0, 2)}
KeyShapes == {Shape(2, 1, 0, 1, 0, 0)}

Symmetry == Permutations(Addr)
=============================================================================
