--------------------------- MODULE MCMinionAdmin ----------------------------
(* Instances of MinionAdmin for TLC.                                       *)
EXTENDS MinionAdmin, TLC

\* Any request may be of any kind, so they are interchangeable.
CallSymmetry == Permutations(Calls)
=============================================================================
