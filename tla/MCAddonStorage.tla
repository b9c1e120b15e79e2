--------------------------- MODULE MCAddonStorage ---------------------------
(* Instances of AddonStorage for TLC.                                      *)
EXTENDS AddonStorage, TLC

CONSTANTS n1, x, y, i, k, cx, cy, vy, c1, c2, c3

(* Two configurations of a namespace and one of the cluster.               *)
ScopeOfConfig == [c \in Configs |-> IF c = c3 THEN Cluster ELSE n1]

(* The version of y's chart begins with a v, which String does not print.  *)
OwnChart == [nv \in NVs |-> IF nv = x THEN cx ELSE vy]
WithoutV == [ch \in Charts |-> IF ch = vy THEN cy ELSE ch]

(* x in two revisions, and y, which has no documentation.                  *)
SomeOffers == {[nv |-> x, id |-> i, rev |-> 1, docs |-> TRUE],
               [nv |-> x, id |-> i, rev |-> 2, docs |-> TRUE],
               [nv |-> y, id |-> k, rev |-> 1, docs |-> FALSE]}

Symmetry == Permutations({c1, c2})

NoNames == {}
=============================================================================
