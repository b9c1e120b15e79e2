------------------------ MODULE MCControllerProcess ------------------------
(* Instances of ControllerProcess for TLC.                                 *)
EXTENDS ControllerProcess

CONSTANTS n1, n2, c1, c2, c3, s1, s2, j1, j2

(* A configuration of a namespace, that of the probe in another namespace, *)
(* and one of the cluster.                                                 *)
SomeScopes == [c \in Configs |-> CASE c = c1 -> n1 [] c = c2 -> n2 [] c = c3 -> Cluster]

(* One instance of each kind of class.                                     *)
InNamespace == [i \in ServiceInstances |-> n1]
SomeClasses == [i \in ServiceInstances |-> IF i = s1 THEN n1 ELSE Cluster]
=============================================================================
