----------------------------- MODULE MCBinding -----------------------------
(* Binding for TLC: threads, goroutines, operation IDs and bindings are    *)
(* interchangeable.                                                        *)
EXTENDS Binding, TLC

Symmetry == Permutations(Threads) \cup Permutations(OpIDs)
              \cup Permutations(Routines) \cup Permutations(Bindings)
=============================================================================
