----------------------------- MODULE MCCursorKeys -----------------------------
(* Two processes whose clocks are apart by the allowed skew, and more keys    *)
(* than the ring retains.                                                      *)
EXTENDS CursorKeys, TLC
CONSTANTS p1, p2

MCOffset == [p \in Procs |-> IF p = p1 THEN 0 ELSE Skew]

\* Keys are interchangeable.
Symmetry == Permutations(Keys)
=============================================================================
