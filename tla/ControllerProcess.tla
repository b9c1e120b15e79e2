------------------------- MODULE ControllerProcess -------------------------
(***************************************************************************)
(* The controller process (cmd/controller/main.go, controller/setup.go):   *)
(* it migrates what an older version has stored (Migration), starts its    *)
(* controllers, of which those for brokers are in BrokerController and     *)
(* those for configurations do here what the others see of them, and       *)
(* answers the liveness probe (health/controller.go).  It may end at any   *)
(* time and is started again.                                              *)
(***************************************************************************)
EXTENDS Migration, BrokerController

CONSTANTS
  ProbeConfig,   \* the configuration of the liveness probe
  OldConfigs,    \* configurations that are there at first
  MaxUserSteps,  \* bound on what users and the broker do, and on probes
  MaxFailures    \* bound on failed calls and restarts

ASSUME ProcessAssumption ==
  /\ ProbeConfig \in Configs
  /\ OldConfigs \subseteq Configs \ {ProbeConfig}
  /\ ScopeOf[ProbeConfig] \in Namespaces
  /\ MaxUserSteps \in Nat /\ MaxFailures \in Nat

VARIABLES
  recreated,   \* configurations that were there at first that were deleted or created since
  probe,       \* step of the liveness probe
  userSteps, failures

counters == <<userSteps, failures>>
vars == <<configs, migrationVars, brokerVars, recreated, probe, counters>>

(* The manager is started after the migration.                             *)
Running == execution.pc = "done"

UserStep == userSteps < MaxUserSteps /\ userSteps' = userSteps + 1
Failure == failures < MaxFailures /\ failures' = failures + 1

-----------------------------------------------------------------------------
(* Events of all objects there are when the manager starts.                *)
InitialRequests ==
  [w \in BrokerControllers |->
     IF w = "ClusterBrokerController"
       THEN {s \in {Cluster} :
               \/ brokers[s] # "absent" \/ \E c \in Configs : Exists(c) /\ ScopeOf[c] = s
               \/ \E i \in ServiceInstances : instances[i] # "absent"}
       ELSE {s \in Namespaces :
               \/ brokers[s] # "absent" \/ \E c \in Configs : Exists(c) /\ ScopeOf[c] = s
               \/ AnyInstance(s)}]

Migrate ==
  /\ MigrationStep
  /\ queue' = IF execution'.pc = "done" THEN InitialRequests ELSE queue
  /\ UNCHANGED <<brokers, classes, instances, job, facadeNS, recreated, probe, counters>>

(* The process ends; what it had in memory is lost.                        *)
Restart ==
  /\ ResetMigration
  /\ queue' = [w \in BrokerControllers |-> {}]
  /\ job' = [w \in BrokerControllers |-> NoJob]
  /\ facadeNS' = [f \in Facades |-> Nil]
  /\ probe' = "none"
  /\ UNCHANGED <<configs, brokers, classes, instances, recreated, userSteps>>

(* Fatal of main, after an error of Execute.                               *)
FatalMigration == MigrationFails /\ Restart /\ UNCHANGED failures

(* The process is ended, or a call of the migration fails.                 *)
Crash == Failure /\ Restart

(* An (Cluster)AddonsConfiguration is reconciled as a whole; the           *)
(* controller for namespaces sets the namespace of its facade, and a       *)
(* configuration that is finalized is an event to the broker controllers.  *)
SetFacade(c) ==
  IF ScopeOf[c] = Cluster THEN facadeNS ELSE [facadeNS EXCEPT ![AddonsFacade] = ScopeOf[c]]

ReconcileConfiguration(c) ==
  /\ Running
  /\ \/ /\ configs[c] = "new"
        /\ configs' = [configs EXCEPT ![c] = "reported"]
        /\ UNCHANGED queue
     \/ /\ configs[c] = "terminating"
        /\ configs' = [configs EXCEPT ![c] = "absent"]
        /\ queue' = Requests(ScopeOf[c], queue)
  /\ facadeNS' = SetFacade(c)
  /\ UNCHANGED <<migrationVars, brokers, classes, instances, job, recreated, probe, counters>>

ReconcileBroker(w) ==
  /\ Running
  /\ BrokerStep(w)
  /\ UNCHANGED <<migrationVars, recreated, probe, counters>>

BrokerCallFails(w) ==
  /\ Failure
  /\ ReconcileFails(w)
  /\ UNCHANGED <<migrationVars, recreated, probe, userSteps>>

-----------------------------------------------------------------------------
Touch(c) == recreated' = recreated \cup ({c} \cap OldConfigs)

(* Configurations are created and deleted; one without a finalizer goes at *)
(* once.                                                                   *)
CreateConfig(c) ==
  /\ configs[c] = "absent"
  /\ configs' = [configs EXCEPT ![c] = "new"]
  /\ Touch(c)
  /\ queue' = IF Running THEN Requests(ScopeOf[c], queue) ELSE queue
  /\ UNCHANGED <<migrationVars, brokers, classes, instances, job, facadeNS>>

DeleteConfig(c) ==
  /\ configs[c] \in {"new", "reported"}
  /\ configs' = [configs EXCEPT ![c] = IF @ = "new" THEN "absent" ELSE "terminating"]
  /\ Touch(c)
  /\ queue' = IF Running /\ configs[c] = "new" THEN Requests(ScopeOf[c], queue) ELSE queue
  /\ UNCHANGED <<migrationVars, brokers, classes, instances, job, facadeNS>>

(* runAddonsConfigurationControllerCycle: a configuration is created, or   *)
(* an existing one taken, its status awaited for ten seconds, and deleted. *)
(* The probe answers before the manager runs, whose cache it reads from.   *)
StartProbe ==
  /\ probe = "none"
  /\ UserStep
  /\ probe' = "poll"
  /\ \/ CreateConfig(ProbeConfig)
     \/ /\ Exists(ProbeConfig)
        /\ UNCHANGED <<configs, migrationVars, brokerVars, recreated>>
  /\ UNCHANGED failures

ProbeSucceeds ==
  /\ Running
  /\ probe = "poll"
  /\ configs[ProbeConfig] \in {"reported", "terminating"}
  /\ probe' = "delete"
  /\ UNCHANGED <<configs, migrationVars, brokerVars, recreated, counters>>

EndProbe ==
  /\ probe = "delete"
  /\ probe' = "none"
  /\ \/ DeleteConfig(ProbeConfig)
     \/ /\ configs[ProbeConfig] \in {"absent", "terminating"}
        /\ UNCHANGED <<configs, migrationVars, brokerVars, recreated>>
  /\ UNCHANGED counters

(* Without an answer in time the configuration stays for the next probe.   *)
ProbeTimesOut ==
  /\ probe = "poll"
  /\ Failure
  /\ probe' = "none"
  /\ UNCHANGED <<configs, migrationVars, brokerVars, recreated, userSteps>>

Users ==
  /\ UserStep
  /\ \/ \E c \in Configs \ {ProbeConfig} : CreateConfig(c) \/ DeleteConfig(c)
     \/ \E i \in ServiceInstances :
          /\ CreateInstance(i, Running) \/ DeleteInstance(i, Running)
          /\ UNCHANGED <<migrationVars, recreated>>
     \/ \E i \in Instances, form \in {"none", "old", "new"} :
          BrokerWrites(i, form) /\ UNCHANGED <<configs, brokerVars, recreated>>
     \/ UpdateDeployment /\ UNCHANGED <<configs, brokerVars, recreated>>
  /\ UNCHANGED <<probe, failures>>

ServiceCatalog ==
  /\ \/ \E s \in Scopes : FetchCatalog(s) \/ FinalizeBroker(s, Running)
     \/ \E i \in ServiceInstances : ClassifyInstance(i)
  /\ UNCHANGED <<migrationVars, recreated, probe, counters>>

-----------------------------------------------------------------------------
ProcessInit ==
  /\ configs = [c \in Configs |-> IF c \in OldConfigs THEN "reported" ELSE "absent"]
  /\ MigrationInit
  /\ BrokerInit
  /\ recreated = {}
  /\ probe = "none"
  /\ userSteps = 0 /\ failures = 0

ProcessNext ==
  \/ Migrate \/ FatalMigration \/ Crash
  \/ \E c \in Configs : ReconcileConfiguration(c)
  \/ \E w \in BrokerControllers : ReconcileBroker(w) \/ BrokerCallFails(w)
  \/ StartProbe \/ ProbeSucceeds \/ EndProbe \/ ProbeTimesOut
  \/ Users \/ ServiceCatalog

ProcessSpec == ProcessInit /\ [][ProcessNext]_vars

(* Goroutines run, controllers take up every request, and Service Catalog  *)
(* finalizes the brokers that are deleted.                                 *)
ProcessFairness ==
  /\ WF_vars(Migrate) /\ WF_vars(FatalMigration)
  /\ \A c \in Configs : WF_vars(ReconcileConfiguration(c))
  /\ \A w \in BrokerControllers : WF_vars(ReconcileBroker(w))
  /\ WF_vars(EndProbe)
  /\ WF_vars(ServiceCatalog)

FairProcess == ProcessSpec /\ ProcessFairness

-----------------------------------------------------------------------------
(* Properties.                                                             *)

(* Type invariant.                                                         *)
ProcessTypeOK ==
  /\ configs \in [Configs -> ConfigStates]
  /\ records \in [Instances -> {"none", "old", "new"}]
  /\ asked \subseteq Configs
  /\ label \in BOOLEAN /\ deployment \in Nat
  /\ execution \in [pc : {"start", "wait", "done"}, seen : Nat]
  /\ chartsRun.todo \subseteq Configs /\ instancesRun.todo \subseteq Instances
  /\ brokers \in [Scopes -> BrokerStates]
  /\ classes \subseteq {s \in Scopes : brokers[s] # "absent"}
  /\ instances \in [ServiceInstances -> {"absent", "created", "classified"}]
  /\ queue \in [BrokerControllers -> SUBSET Scopes]
  /\ \A w \in BrokerControllers : job[w].ns \in Scopes \cup {Nil}
  /\ facadeNS \in [Facades -> Scopes \cup {Nil}]
  /\ ~Running => \A w \in BrokerControllers : job[w] = NoJob /\ queue[w] = {}

(* The label is only there, and controllers only run, when no instance is  *)
(* stored in the old form but for those the broker has written meanwhile,  *)
(* and every configuration that was there before has been asked to load    *)
(* its charts again; whichever goroutine ended first, and however often    *)
(* the migration had to be started again.                                  *)
MigratedWhenLabelled ==
  label \/ Running =>
    /\ \A i \in Instances \ written : records[i] # "old"
    /\ \A c \in OldConfigs \ recreated : c \in asked
=============================================================================
