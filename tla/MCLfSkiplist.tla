---------------------------- MODULE MCLfSkiplist ----------------------------
EXTENDS LfSkiplist, TLC

Profile(w, g, n) == [writers |-> w, collect |-> g, calls |-> n]
MCProfiles == {Profile({p}, TRUE, 4) : p \in Proc} \cup {Profile(Proc, FALSE, 3)}
(* Several writers and freeing, as a comment of the code admits it: outside *)
(* LfSkiplistAssumption, whose last conjunct codefrag.c justifies, and with *)
(* it left out TLC finds CellsAccounted violated.                           *)
FreeProfiles == {Profile(Proc, TRUE, 2)}

Symmetry == Permutations(Proc) \cup Permutations(Cell) \cup Permutations(Data)
=============================================================================
