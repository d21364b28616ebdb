------------------------- MODULE MCNeedleTailoring -------------------------
(* Instances of NeedleTailoring for TLC.                                   *)
EXTENDS NeedleTailoring

CONSTANTS c1, c2

=============================================================================
