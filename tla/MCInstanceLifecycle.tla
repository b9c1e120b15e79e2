------------------------ MODULE MCInstanceLifecycle ------------------------
(* InstanceLifecycle for TLC: identifiers are model values and none of     *)
(* them is distinguished from the others of its set.                       *)
EXTENDS InstanceLifecycle, TLC

Symmetry == Permutations(Threads) \cup Permutations(OpIDs)
=============================================================================
