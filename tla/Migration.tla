------------------------------ MODULE Migration ------------------------------
(***************************************************************************)
(* The migration to Helm 3 (migration/migration.go), which the controller  *)
(* process runs before its controllers (cmd/controller/main.go): charts    *)
(* are loaded again, by asking for all configurations to be reprocessed,   *)
(* and stored instances are converted.  Two goroutines do that, and a      *)
(* label on the Deployment says that it is done.                           *)
(*                                                                         *)
(* The broker, in a process of its own, uses the stored instances          *)
(* meanwhile.  An error ends the process, which is started again.          *)
(***************************************************************************)
EXTENDS ControllerObjects

CONSTANTS
  Instances,     \* instances of the broker
  OldInstances   \* those that an old version has stored

ASSUME MigrationAssumption == OldInstances \subseteq Instances

VARIABLES
  records,      \* records[i]: form of the stored instance, "none", "old" or "new"
  written,      \* instances the broker wrote or removed during the migration
  asked,        \* configurations that were asked to be reprocessed
  label,        \* whether the Deployment has the label
  deployment,   \* version of the Deployment
  execution,    \* Execute: its step, and the version of the Deployment it has read
  chartsRun,    \* the goroutine of migrateCharts
  instancesRun  \* the goroutine of migrateInstances

migrationVars == <<records, written, asked, label, deployment, execution, chartsRun, instancesRun>>

NoRun == [pc |-> "none", todo |-> {}]
Execution == [pc |-> "start", seen |-> 0]

Run(pc, todo) == [pc |-> pc, todo |-> todo]
ConfigsIn(S) == {c \in Configs : Exists(c) /\ ScopeOf[c] \in S}

-----------------------------------------------------------------------------
(* Execute: nothing is left to do if there is the label.  Otherwise both   *)
(* goroutines are started.                                                 *)
Execute ==
  /\ execution.pc = "start"
  /\ IF label
       THEN execution' = [execution EXCEPT !.pc = "done"] /\ UNCHANGED <<chartsRun, instancesRun>>
       ELSE /\ execution' = [pc |-> "wait", seen |-> deployment]
            /\ chartsRun' = Run("listCluster", {})
            /\ instancesRun' = Run("getAll", {})
  /\ UNCHANGED <<records, written, asked, label, deployment, configs>>

(* migrateCharts lists the configurations of the cluster, and when it is   *)
(* done with them those of the namespaces.                                 *)
listConfigurations ==
  /\ \/ /\ chartsRun.pc = "listCluster"
        /\ chartsRun' = Run("cluster", ConfigsIn({Cluster}))
     \/ /\ chartsRun.pc = "cluster" /\ chartsRun.todo = {}
        /\ chartsRun' = Run("namespaces", ConfigsIn(Namespaces))
     \/ /\ chartsRun.pc = "namespaces" /\ chartsRun.todo = {}
        /\ chartsRun' = Run("done", {})
  /\ UNCHANGED <<records, written, asked, label, deployment, execution, instancesRun, configs>>

(* A configuration that has gone since it was listed is an error.          *)
migrateCharts ==
  /\ \E c \in chartsRun.todo :
       IF Exists(c)
         THEN /\ asked' = asked \cup {c}
              /\ chartsRun' = [chartsRun EXCEPT !.todo = @ \ {c}]
         ELSE chartsRun' = Run("failed", {}) /\ UNCHANGED asked
  /\ UNCHANGED <<records, written, label, deployment, execution, instancesRun, configs>>

getAllInstances ==
  /\ instancesRun.pc = "getAll"
  /\ instancesRun' = Run("convert", {i \in Instances : records[i] = "old"})
  /\ UNCHANGED <<records, written, asked, label, deployment, execution, chartsRun, configs>>

(* What was read is converted and stored, whatever is stored now.          *)
migrateInstances ==
  /\ instancesRun.pc = "convert"
  /\ \/ \E i \in instancesRun.todo :
          /\ records' = [records EXCEPT ![i] = "new"]
          /\ instancesRun' = [instancesRun EXCEPT !.todo = @ \ {i}]
     \/ /\ instancesRun.todo = {}
        /\ instancesRun' = Run("done", {})
        /\ UNCHANGED records
  /\ UNCHANGED <<written, asked, label, deployment, execution, chartsRun, configs>>

(* Mutation: the first result counts.                                      *)
AnyDone == chartsRun.pc = "done" \/ instancesRun.pc = "done"

(* Execute waits for the results of both.                                  *)
AllDone == chartsRun.pc = "done" /\ instancesRun.pc = "done"

(* addLabel updates the Deployment as it was read, if that is current.     *)
addLabel ==
  /\ execution.pc = "wait"
  /\ AllDone
  /\ execution.seen = deployment
  /\ label' = TRUE
  /\ deployment' = deployment + 1
  /\ execution' = [Execution EXCEPT !.pc = "done"]
  /\ chartsRun' = NoRun
  /\ instancesRun' = NoRun
  /\ UNCHANGED <<records, written, asked, configs>>

MigrationStep ==
  \/ Execute \/ listConfigurations \/ migrateCharts \/ getAllInstances \/ migrateInstances
  \/ addLabel

(* The first error that is received, or a conflict on the Deployment.      *)
MigrationFails ==
  /\ execution.pc = "wait"
  /\ \/ chartsRun.pc = "failed"
     \/ AllDone /\ execution.seen # deployment

(* What of the migration ends with the process.                            *)
ResetMigration ==
  /\ execution' = Execution
  /\ chartsRun' = NoRun
  /\ instancesRun' = NoRun
  /\ UNCHANGED <<records, written, asked, label, deployment>>

-----------------------------------------------------------------------------
(* The other process: the broker removes an instance, stores one, or       *)
(* writes one back in the form it has read it in some time before.  What   *)
(* happens after the migration is not looked at.                           *)
BrokerWrites(i, form) ==
  /\ ~label
  /\ form = "old" => i \in OldInstances /\ records[i] # "none"
  /\ records' = [records EXCEPT ![i] = form]
  /\ written' = written \cup {i}
  /\ UNCHANGED <<asked, label, deployment, execution, chartsRun, instancesRun>>

(* Somebody else updates the Deployment, or its status.                    *)
UpdateDeployment ==
  /\ ~label
  /\ deployment' = deployment + 1
  /\ UNCHANGED <<records, written, asked, label, execution, chartsRun, instancesRun>>

MigrationInit ==
  /\ records = [i \in Instances |-> IF i \in OldInstances THEN "old" ELSE "none"]
  /\ written = {}
  /\ asked = {}
  /\ label = FALSE
  /\ deployment = 0
  /\ execution = Execution
  /\ chartsRun = NoRun
  /\ instancesRun = NoRun
=============================================================================
