------------------------ MODULE MCAddonsController ------------------------
(* Instances of AddonsController for TLC.                                  *)
EXTENDS AddonsController, TLC

CONSTANTS a1, a2

(* IDs: every addon has one of its own, or they have one in common.        *)
OwnID == [a \in Addons |-> a]
OneID == [a \in Addons |-> a1]

OwnChart == [a \in Addons |-> a]

(* What users ask for: nothing, or a1 with or without a2.                  *)
SomeSpec == {{}, {a1}, {a1, a2}}

ConfigSymmetry == Permutations(Configs)
=============================================================================
