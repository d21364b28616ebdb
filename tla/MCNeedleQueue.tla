--------------------------- MODULE MCNeedleQueue ---------------------------
(* Instances of NeedleQueue for TLC.                                       *)
EXTENDS NeedleQueue, TLC

CONSTANTS w1, w2, l1, l2, c1, c2

\* Two processes that run under labels of their own.
OwnLabels == (w1 :> l1) @@ (w2 :> l2)

\* Two processes under one label, and one process alone.
SharedLabel == (w1 :> l1) @@ (w2 :> l1)
SingleWorker == (w1 :> l1)

Symmetry == Permutations({c1, c2})

=============================================================================
