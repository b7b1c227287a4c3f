----------------------------- MODULE MCMemprof -----------------------------
(***************************************************************************)
(* Two threads and at most three profiles.  The programs differ in what    *)
(* they have most of: calls that start, stop and discard profiles, threads *)
(* that do so during callbacks of each other, combined allocations of two  *)
(* blocks with a collection, profiles, collections (a block is promoted    *)
(* and dies before its callbacks run).                                     *)
(***************************************************************************)
EXTENDS Memprof

CONSTANTS t1, t2, domain

Bounds(heaps, s, c, p, k, g) ==
    [heaps |-> heaps, samples |-> s, comb |-> c, profiles |-> p, calls |-> k, gcs |-> g]
Heaps == {"young", "major"}
MCPrograms ==
    {Bounds(Heaps, 1, 1, 2, 4, 1), Bounds({"young"}, 2, 1, 2, 3, 0),
     Bounds({}, 2, 2, 1, 3, 1), Bounds({"young"}, 2, 1, 3, 2, 0),
     Bounds(Heaps, 2, 2, 2, 1, 1), Bounds({"young"}, 1, 1, 1, 2, 2)}
MCOrphan == 1..3
=============================================================================
