------------------------------ MODULE MCMalloc ------------------------------
(* Instances of Malloc369 for TLC. *)
EXTENDS Malloc369, TLC

CONSTANTS p1, p2, p3, p4, t1, t2

(* The hypothesis of the theorems about the table and the accounting. *)
ASSUME SmallInstance == SmallHeap

(* Pointers of the heap are multiples of 16 with the same high bits: they  *)
(* have the same place in every table of up to 16 buckets.                 *)
MCHash == [p \in {p1, p2, p3, p4} |-> 1]

MCSymmetry == Permutations({p1, p2, p3, p4}) \cup Permutations({t1, t2})
=============================================================================
