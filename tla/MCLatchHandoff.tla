--------------------------- MODULE MCLatchHandoff ---------------------------
(* Instances of LatchHandoff for TLC.                                      *)
EXTENDS LatchHandoff, TLC

CONSTANTS c1, c2, w1, w2

Symmetry == Permutations({c1, c2})

=============================================================================
