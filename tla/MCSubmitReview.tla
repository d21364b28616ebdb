-------------------------- MODULE MCSubmitReview --------------------------
(* Instances of SubmitReview for TLC.                                      *)
EXTENDS SubmitReview, TLC

CONSTANTS c1, c2

Symmetry == Permutations({c1, c2})

=============================================================================
