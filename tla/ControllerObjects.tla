------------------------- MODULE ControllerObjects -------------------------
(***************************************************************************)
(* The (Cluster)AddonsConfigurations as the parts of the controller        *)
(* process that do not load them see them.  A scope is a namespace or the  *)
(* cluster.                                                                *)
(***************************************************************************)
EXTENDS Naturals, FiniteSets

CONSTANTS
  Namespaces,   \* namespaces
  Cluster,      \* the scope that is not a namespace
  Configs,      \* configurations
  ScopeOf,      \* ScopeOf[c]: the scope of configuration c
  Nil           \* nothing

Scopes == Namespaces \cup {Cluster}

ASSUME ObjectsAssumption ==
  /\ Cluster \notin Namespaces
  /\ ScopeOf \in [Configs -> Scopes]
  /\ Nil \notin Scopes

(* A configuration is new until its status and finalizer are written, and  *)
(* terminating, with the status it had, until the finalizer is gone.       *)
VARIABLE configs

ConfigStates == {"absent", "new", "reported", "terminating"}
Exists(c) == configs[c] # "absent"
=============================================================================
