-------------------------------- MODULE Rings --------------------------------
(***************************************************************************)
(* The delivery pipeline: a fixed, totally ordered list of rings           *)
(* (int, test, acc, prod in internal/ring).  A ring is its position, so    *)
(* the order of the list is the order of the naturals.                     *)
(***************************************************************************)
EXTENDS Naturals

CONSTANT NumRings        \* how many rings the pipeline has (4 in the code)

ASSUME NumRingsAssumption == NumRings \in Nat \ {0}

Ring == 1 .. NumRings

HasNext(r) == r < NumRings
NextRing(r) == r + 1
=============================================================================
