---------------------- MODULE ControllerProcess_proofs ----------------------
(***************************************************************************)
(* The controller process for every value of its constants: what the label *)
(* of the migration stands for, and whose broker is created or deleted.    *)
(***************************************************************************)
EXTENDS ControllerProcess, TLAPS

-----------------------------------------------------------------------------
(* The inductive invariant.                                                *)

ChartsRun == [pc : {"none", "listCluster", "cluster", "namespaces", "done", "failed"},
              todo : SUBSET Configs]
InstancesRun == [pc : {"none", "getAll", "convert", "done"}, todo : SUBSET Instances]
Job == [pc : {"idle", "exist", "configs", "instances", "act"}, ns : Scopes \cup {Nil},
        sbExists : BOOLEAN, configurationsExist : BOOLEAN, instancesExist : BOOLEAN]

MigrationTypes ==
  /\ configs \in [Configs -> ConfigStates]
  /\ records \in [Instances -> {"none", "old", "new"}]
  /\ asked \subseteq Configs
  /\ label \in BOOLEAN
  /\ deployment \in Nat
  /\ execution \in [pc : {"start", "wait", "done"}, seen : Nat]
  /\ chartsRun \in ChartsRun
  /\ instancesRun \in InstancesRun

(* The configurations that were there at first and still are.              *)
Kept == OldConfigs \ recreated

(* What is stored in the old form is still to be converted.                *)
Converted(todo) == \A i \in Instances \ written : records[i] = "old" => i \in todo

(* The kept configurations of some scopes have been asked, or will be.     *)
Asked(S, todo) == \A c \in Kept : ScopeOf[c] \in S => c \in asked \cup todo

(* How far each goroutine of the migration has come, and that no label is  *)
(* there before both have ended.                                           *)
MigrationInv ==
  /\ execution.pc # "wait" => chartsRun = NoRun /\ instancesRun = NoRun
  /\ Running => label
  /\ label => Converted({}) /\ Asked(Scopes, {})
  /\ \A c \in Kept : configs[c] = "reported"
  /\ instancesRun.pc = "convert" => Converted(instancesRun.todo)
  /\ instancesRun.pc = "done" => Converted({})
  /\ chartsRun.pc = "cluster" => Asked({Cluster}, chartsRun.todo)
  /\ chartsRun.pc = "namespaces" => Asked({Cluster}, {}) /\ Asked(Namespaces, chartsRun.todo)
  /\ chartsRun.pc = "done" => Asked(Scopes, {})

BrokerTypes ==
  /\ brokers \in [Scopes -> BrokerStates]
  /\ classes \subseteq {s \in Scopes : brokers[s] # "absent"}
  /\ instances \in [ServiceInstances -> {"absent", "created", "classified"}]
  /\ queue \in [BrokerControllers -> SUBSET Scopes]
  /\ job \in [BrokerControllers -> Job]
  /\ facadeNS \in [Facades -> Scopes \cup {Nil}]

(* A request under way has a scope, and the facade of BrokerController the *)
(* namespace of its request; there is none before the manager runs.        *)
BrokersInv ==
  /\ BrokerTypes
  /\ \A w \in BrokerControllers : job[w].pc # "idle" => job[w].ns \in Scopes
  /\ job["BrokerController"].pc # "idle" => facadeNS[OwnFacade] = job["BrokerController"].ns
  /\ ~Running => \A w \in BrokerControllers : job[w] = NoJob /\ queue[w] = {}

ProcessInv == MigrationTypes /\ MigrationInv /\ BrokersInv

-----------------------------------------------------------------------------
(* The migration.                                                          *)

(* A goroutine of the migration, and none.                                 *)
LEMMA RunFacts ==
  /\ \A pc, todo : Run(pc, todo).pc = pc /\ Run(pc, todo).todo = todo
  /\ \A pc \in {"none", "listCluster", "cluster", "namespaces", "done", "failed"},
        todo \in SUBSET Configs : Run(pc, todo) \in ChartsRun
  /\ \A pc \in {"none", "getAll", "convert", "done"},
        todo \in SUBSET Instances : Run(pc, todo) \in InstancesRun
  /\ NoRun.pc = "none" /\ NoRun.todo = {} /\ NoRun \in ChartsRun /\ NoRun \in InstancesRun
  BY DEF Run, NoRun, ChartsRun, InstancesRun

(* Execute ends at once, or starts both goroutines.                        *)
LEMMA ExecuteKeeps ==
  ASSUME MigrationTypes, MigrationInv, Execute, UNCHANGED recreated
  PROVE  MigrationTypes' /\ MigrationInv'
<1>1. UNCHANGED <<records, written, asked, label, deployment, configs>>
      /\ execution.pc = "start" /\ chartsRun = NoRun /\ instancesRun = NoRun
  BY DEF Execute, MigrationInv
<1>2. CASE label
  <2>1. execution' = [execution EXCEPT !.pc = "done"] /\ UNCHANGED <<chartsRun, instancesRun>>
    BY <1>2 DEF Execute
  <2>2. execution' \in [pc : {"start", "wait", "done"}, seen : Nat] /\ execution'.pc = "done"
    BY <2>1 DEF MigrationTypes
  <2> QED
    BY <1>1, <1>2, <2>1, <2>2, RunFacts DEF MigrationTypes, MigrationInv, Running, Converted, Asked, Kept
<1>3. CASE ~label
  <2>1. /\ execution' = [pc |-> "wait", seen |-> deployment]
        /\ chartsRun' = Run("listCluster", {}) /\ instancesRun' = Run("getAll", {})
    BY <1>3 DEF Execute
  <2>2. execution' \in [pc : {"start", "wait", "done"}, seen : Nat] /\ execution'.pc = "wait"
    BY <2>1 DEF MigrationTypes
  <2>3. /\ chartsRun' \in ChartsRun /\ chartsRun'.pc = "listCluster"
        /\ instancesRun' \in InstancesRun /\ instancesRun'.pc = "getAll"
    BY <2>1, RunFacts
  <2> QED
    BY <1>1, <1>3, <2>2, <2>3 DEF MigrationTypes, MigrationInv, Running, Kept
<1> QED
  BY <1>2, <1>3

(* migrateCharts lists the configurations of the cluster, then those of    *)
(* the namespaces: no kept configuration is missed.                        *)
LEMMA ListConfigurationsKeeps ==
  ASSUME MigrationTypes, MigrationInv, listConfigurations, UNCHANGED recreated
  PROVE  MigrationTypes' /\ MigrationInv'
<1>1. UNCHANGED <<records, written, asked, label, deployment, execution, instancesRun, configs>>
  BY DEF listConfigurations
<1>2. execution.pc = "wait"
  BY RunFacts DEF listConfigurations, MigrationInv
<1>3. \A S : \A c \in Kept : ScopeOf[c] \in S => c \in ConfigsIn(S)
  BY ProcessAssumption DEF MigrationInv, Kept, ConfigsIn, Exists
<1>4. /\ chartsRun' \in ChartsRun
      /\ \/ chartsRun'.pc = "cluster" /\ chartsRun'.todo = ConfigsIn({Cluster})
         \/ /\ chartsRun.pc = "cluster" /\ chartsRun.todo = {}
            /\ chartsRun'.pc = "namespaces" /\ chartsRun'.todo = ConfigsIn(Namespaces)
         \/ chartsRun.pc = "namespaces" /\ chartsRun.todo = {} /\ chartsRun'.pc = "done"
  <2>1. \A S : ConfigsIn(S) \in SUBSET Configs
    BY DEF ConfigsIn
  <2> QED
    BY <2>1, RunFacts DEF listConfigurations
<1>5. MigrationTypes'
  BY <1>1, <1>4 DEF MigrationTypes
<1>6. /\ chartsRun'.pc = "cluster" => Asked({Cluster}, chartsRun.todo)'
      /\ chartsRun'.pc = "namespaces" =>
           Asked({Cluster}, {})' /\ Asked(Namespaces, chartsRun.todo)'
      /\ chartsRun'.pc = "done" => Asked(Scopes, {})'
  <2>1. chartsRun'.pc = "cluster" => Asked({Cluster}, chartsRun.todo)'
    BY <1>1, <1>3, <1>4 DEF Asked, Kept
  <2>2. chartsRun'.pc = "namespaces" =>
           Asked({Cluster}, {})' /\ Asked(Namespaces, chartsRun.todo)'
    BY <1>1, <1>3, <1>4 DEF Asked, Kept, MigrationInv
  <2>3. chartsRun'.pc = "done" => Asked(Scopes, {})'
    BY <1>1, <1>4 DEF Asked, Kept, MigrationInv, Scopes
  <2> QED
    BY <2>1, <2>2, <2>3
<1>7. UNCHANGED <<Running, Kept>> /\ (\A todo : Converted(todo)' <=> Converted(todo))
      /\ (Asked(Scopes, {})' <=> Asked(Scopes, {}))
  BY <1>1 DEF Running, Kept, Converted, Asked
<1> QED
  BY <1>1, <1>2, <1>5, <1>6, <1>7 DEF MigrationInv

(* migrateCharts asks for one more configuration, or stops.                *)
LEMMA MigrateChartsKeeps ==
  ASSUME MigrationTypes, MigrationInv, migrateCharts, UNCHANGED recreated
  PROVE  MigrationTypes' /\ MigrationInv'
<1>1. UNCHANGED <<records, written, label, deployment, execution, instancesRun, configs>>
  BY DEF migrateCharts
<1>2. PICK c \in chartsRun.todo :
        IF Exists(c)
          THEN /\ asked' = asked \cup {c}
               /\ chartsRun' = [chartsRun EXCEPT !.todo = @ \ {c}]
          ELSE chartsRun' = Run("failed", {}) /\ UNCHANGED asked
  BY DEF migrateCharts
<1>3. execution.pc = "wait" /\ c \in Configs
  BY RunFacts DEF MigrationInv, MigrationTypes, ChartsRun
<1>4. /\ chartsRun' \in ChartsRun
      /\ asked' \subseteq Configs /\ asked \subseteq asked'
      /\ \/ chartsRun'.pc = "failed"
         \/ /\ chartsRun'.pc = chartsRun.pc
            /\ asked \cup chartsRun.todo \subseteq asked' \cup chartsRun'.todo
  <2>1. CASE Exists(c)
    <3>1. chartsRun' = [chartsRun EXCEPT !.todo = @ \ {c}] /\ asked' = asked \cup {c}
      BY <1>2, <2>1
    <3>2. /\ chartsRun' \in ChartsRun /\ chartsRun'.pc = chartsRun.pc
          /\ chartsRun'.todo = chartsRun.todo \ {c}
      BY <3>1 DEF MigrationTypes, ChartsRun
    <3> QED
      BY <1>3, <3>1, <3>2 DEF MigrationTypes
  <2>2. CASE ~Exists(c)
    BY <1>2, <2>2, RunFacts DEF MigrationTypes
  <2> QED
    BY <2>1, <2>2
<1>5. MigrationTypes'
  BY <1>1, <1>4 DEF MigrationTypes
<1>6. /\ chartsRun'.pc = "cluster" => Asked({Cluster}, chartsRun.todo)'
      /\ chartsRun'.pc = "namespaces" =>
           Asked({Cluster}, {})' /\ Asked(Namespaces, chartsRun.todo)'
      /\ chartsRun'.pc = "done" => Asked(Scopes, {})'
      /\ Asked(Scopes, {}) => Asked(Scopes, {})'
  BY <1>1, <1>4 DEF MigrationInv, Asked, Kept
<1>7. UNCHANGED <<Running, Kept>> /\ (\A todo : Converted(todo)' <=> Converted(todo))
  BY <1>1 DEF Running, Kept, Converted
<1> QED
  BY <1>1, <1>3, <1>5, <1>6, <1>7 DEF MigrationInv

(* migrateInstances reads all instances, and converts one after the other. *)
LEMMA MigrateInstancesKeeps ==
  ASSUME MigrationTypes, MigrationInv, getAllInstances \/ migrateInstances, UNCHANGED recreated
  PROVE  MigrationTypes' /\ MigrationInv'
<1>1. UNCHANGED <<written, asked, label, deployment, execution, chartsRun, configs>>
  BY DEF getAllInstances, migrateInstances
<1>2. execution.pc = "wait"
  BY RunFacts DEF getAllInstances, migrateInstances, MigrationInv
<1>3. /\ instancesRun' \in InstancesRun
      /\ records' \in [Instances -> {"none", "old", "new"}]
      /\ \A i \in Instances : records'[i] = "old" => records[i] = "old"
      /\ instancesRun'.pc = "convert" => Converted(instancesRun.todo)'
      /\ instancesRun'.pc = "done" => Converted({})'
  <2>1. CASE getAllInstances
    <3>1. /\ instancesRun' = Run("convert", {i \in Instances : records[i] = "old"})
          /\ UNCHANGED records
      BY <2>1 DEF getAllInstances
    <3>2. /\ instancesRun' \in InstancesRun /\ instancesRun'.pc = "convert"
          /\ instancesRun'.todo = {i \in Instances : records[i] = "old"}
      BY <3>1, RunFacts
    <3> QED
      BY <3>1, <3>2 DEF Converted, MigrationTypes
  <2>2. ASSUME NEW i \in instancesRun.todo, migrateInstances,
               records' = [records EXCEPT ![i] = "new"],
               instancesRun' = [instancesRun EXCEPT !.todo = @ \ {i}]
        PROVE  /\ instancesRun' \in InstancesRun
               /\ records' \in [Instances -> {"none", "old", "new"}]
               /\ \A j \in Instances : records'[j] = "old" => records[j] = "old"
               /\ instancesRun'.pc = "convert" /\ Converted(instancesRun.todo)'
    <3>1. /\ instancesRun' \in InstancesRun /\ instancesRun'.pc = "convert"
          /\ instancesRun'.todo = instancesRun.todo \ {i}
          /\ i \in Instances /\ instancesRun.pc = "convert"
      BY <2>2 DEF migrateInstances, MigrationTypes, InstancesRun
    <3>2. /\ records' \in [Instances -> {"none", "old", "new"}]
          /\ records'[i] = "new" /\ \A j \in Instances : j # i => records'[j] = records[j]
      BY <2>2, <3>1 DEF MigrationTypes
    <3> QED
      BY <1>1, <3>1, <3>2 DEF MigrationInv, Converted
  <2>3. CASE migrateInstances /\ instancesRun.todo = {} /\ instancesRun' = Run("done", {})
             /\ UNCHANGED records
    <3>1. instancesRun' \in InstancesRun /\ instancesRun'.pc = "done" /\ instancesRun.pc = "convert"
      BY <2>3, RunFacts DEF migrateInstances
    <3> QED
      BY <1>1, <2>3, <3>1 DEF MigrationInv, MigrationTypes, Converted
  <2> QED
    BY <2>1, <2>2, <2>3 DEF migrateInstances
<1>4. MigrationTypes'
  BY <1>1, <1>3 DEF MigrationTypes
<1>5. UNCHANGED <<Running, Kept>> /\ (\A S, todo : Asked(S, todo)' <=> Asked(S, todo))
      /\ (Converted({}) => Converted({})')
  BY <1>1, <1>3 DEF Running, Kept, Converted, Asked
<1> QED
  BY <1>1, <1>2, <1>3, <1>4, <1>5 DEF MigrationInv

(* addLabel runs after both goroutines have ended.                         *)
LEMMA AddLabelKeeps ==
  ASSUME MigrationTypes, MigrationInv, addLabel, UNCHANGED recreated
  PROVE  MigrationTypes' /\ MigrationInv'
<1>1. /\ UNCHANGED <<records, written, asked, configs>> /\ label' = TRUE
      /\ deployment' = deployment + 1
      /\ chartsRun' = NoRun /\ instancesRun' = NoRun
      /\ chartsRun.pc = "done" /\ instancesRun.pc = "done"
  BY DEF addLabel, AllDone
<1>2. execution' \in [pc : {"start", "wait", "done"}, seen : Nat] /\ execution'.pc = "done"
  BY DEF addLabel, Execution
<1>3. MigrationTypes'
  BY <1>1, <1>2, RunFacts DEF MigrationTypes
<1>4. Converted({})' /\ Asked(Scopes, {})' /\ UNCHANGED Kept
  BY <1>1 DEF MigrationInv, Converted, Asked, Kept
<1> QED
  BY <1>1, <1>2, <1>3, <1>4, RunFacts DEF MigrationInv

(* The process ends: the goroutines are gone, what they did stays.         *)
LEMMA ResetKeeps ==
  ASSUME MigrationTypes, MigrationInv, ResetMigration, UNCHANGED <<configs, recreated>>
  PROVE  MigrationTypes' /\ MigrationInv' /\ ~Running'
<1>1. /\ UNCHANGED <<records, written, asked, label, deployment>>
      /\ chartsRun' = NoRun /\ instancesRun' = NoRun
  BY DEF ResetMigration
<1>2. execution' \in [pc : {"start", "wait", "done"}, seen : Nat] /\ execution'.pc = "start"
  BY DEF ResetMigration, Execution
<1>3. MigrationTypes'
  BY <1>1, <1>2, RunFacts DEF MigrationTypes
<1>4. /\ \A todo : Converted(todo)' <=> Converted(todo)
      /\ \A S, todo : Asked(S, todo)' <=> Asked(S, todo)
      /\ UNCHANGED Kept
  BY <1>1 DEF Converted, Asked, Kept
<1> QED
  BY <1>1, <1>2, <1>3, <1>4, RunFacts DEF MigrationInv, Running

(* What goes on outside the migration: configurations come and go, which   *)
(* are then kept no longer, the broker writes instances, and somebody      *)
(* updates the Deployment.                                                 *)
LEMMA OthersKeep ==
  ASSUME MigrationTypes, MigrationInv,
         UNCHANGED <<asked, label, execution, chartsRun, instancesRun>>,
         configs' \in [Configs -> ConfigStates], deployment' \in Nat,
         recreated \subseteq recreated',
         \A c \in OldConfigs \ recreated' : configs'[c] = configs[c],
         \/ UNCHANGED <<records, written>>
         \/ ~label /\ \E i \in Instances, form \in {"none", "old", "new"} :
              records' = [records EXCEPT ![i] = form] /\ written' = written \cup {i}
  PROVE  MigrationTypes' /\ MigrationInv'
<1>1. /\ records' \in [Instances -> {"none", "old", "new"}]
      /\ \A i \in Instances \ written' : i \notin written /\ records'[i] = records[i]
  BY DEF MigrationTypes
<1>2. MigrationTypes'
  BY <1>1 DEF MigrationTypes
<1>3. /\ \A todo : Converted(todo) => Converted(todo)'
      /\ \A S, todo : Asked(S, todo) => Asked(S, todo)'
      /\ \A c \in Kept' : c \in Kept /\ configs'[c] = configs[c]
      /\ UNCHANGED Running
  BY <1>1 DEF Converted, Asked, Kept, Running
<1> QED
  BY <1>2, <1>3 DEF MigrationInv

-----------------------------------------------------------------------------
(* The brokers.                                                            *)

(* Requests stay requests for scopes.                                      *)
LEMMA RequestsFacts ==
  ASSUME NEW q \in [BrokerControllers -> SUBSET Scopes], NEW s \in Scopes
  PROVE  Requests(s, q) \in [BrokerControllers -> SUBSET Scopes]
  BY DEF Requests

(* An instance is an event to the controllers of its namespace and the     *)
(* cluster.                                                                *)
LEMMA InstanceRequestsFacts ==
  ASSUME NEW q \in [BrokerControllers -> SUBSET Scopes], NEW i \in ServiceInstances
  PROVE  InstanceRequests(i, q) \in [BrokerControllers -> SUBSET Scopes]
<1>1. NamespaceOf[i] \in Scopes /\ Cluster \in Scopes
  BY InstancesAssumption DEF Scopes
<1> QED
  BY <1>1, RequestsFacts DEF InstanceRequests

(* The requests the manager starts with are for scopes.                    *)
LEMMA InitialRequestsFacts == InitialRequests \in [BrokerControllers -> SUBSET Scopes]
  BY DEF InitialRequests, Scopes

(* No request under way.                                                   *)
LEMMA NoJobFacts == NoJob \in Job /\ NoJob.pc = "idle"
  BY DEF NoJob, Job

(* A controller with a request looks at the broker of its scope, since     *)
(* nobody else sets the namespace of its facade.                           *)
LEMMA BrokerOfJob ==
  ASSUME BrokersInv, NEW w \in BrokerControllers, job[w].pc # "idle"
  PROVE  BrokerOf(w) = ScopeOfJob(w) /\ BrokerOf(w) \in Scopes
  BY DEF BrokersInv, BrokerOf, ScopeOfJob, BrokerControllers, Scopes

(* A controller goes on with its request: its locals change.               *)
LEMMA JobKeeps ==
  ASSUME BrokersInv, Running, UNCHANGED execution, NEW w \in BrokerControllers, NEW j \in Job,
         job' = [job EXCEPT ![w] = j], job[w].pc # "idle", j.pc = "idle" \/ j.ns = job[w].ns,
         UNCHANGED <<instances, facadeNS>>,
         brokers' \in [Scopes -> BrokerStates],
         \A s \in Scopes : brokers[s] # "absent" => brokers'[s] # "absent",
         UNCHANGED classes,
         queue' \in [BrokerControllers -> SUBSET Scopes]
  PROVE  BrokersInv'
<1>1. /\ job' \in [BrokerControllers -> Job] /\ job'[w] = j
      /\ \A v \in BrokerControllers : v # w => job'[v] = job[v]
  BY DEF BrokersInv, BrokerTypes
<1>2. BrokerTypes'
  BY <1>1 DEF BrokersInv, BrokerTypes
<1>3. Running'
  BY DEF Running
<1> QED
  BY <1>1, <1>2, <1>3 DEF BrokersInv, BrokerControllers

(* Reconcile takes up a request.                                           *)
LEMMA StartReconcileKeeps ==
  ASSUME BrokersInv, Running, UNCHANGED execution, NEW w \in BrokerControllers,
         NEW s \in Scopes, StartReconcile(w, s)
  PROVE  BrokersInv'
<1> DEFINE j == [NoJob EXCEPT !.pc = "exist", !.ns = s]
<1>1. j \in Job /\ j.ns = s
  BY DEF NoJob, Job
<1>2. job' = [job EXCEPT ![w] = j] /\ UNCHANGED <<brokers, classes, instances>>
  BY DEF StartReconcile, Fill
<1> HIDE DEF j
<1>3. /\ job' \in [BrokerControllers -> Job] /\ job'[w] = j
      /\ \A v \in BrokerControllers : v # w => job'[v] = job[v]
  BY <1>1, <1>2 DEF BrokersInv, BrokerTypes
<1>4. queue' \in [BrokerControllers -> SUBSET Scopes]
  BY DEF StartReconcile, BrokersInv, BrokerTypes
<1>5. /\ facadeNS' \in [Facades -> Scopes \cup {Nil}]
      /\ w = "BrokerController" => facadeNS'[OwnFacade] = s
      /\ w # "BrokerController" => facadeNS' = facadeNS
  BY DEF StartReconcile, BrokersInv, BrokerTypes, Facades, OwnFacade
<1>6. BrokerTypes'
  BY <1>2, <1>3, <1>4, <1>5 DEF BrokersInv, BrokerTypes
<1>7. Running'
  BY DEF Running
<1> QED
  BY <1>1, <1>3, <1>5, <1>6, <1>7 DEF BrokersInv, BrokerControllers

(* Every step of a reconciliation, an error included.                      *)
LEMMA BrokerStepKeeps ==
  ASSUME BrokersInv, Running, UNCHANGED execution, NEW w \in BrokerControllers,
         BrokerStep(w) \/ ReconcileFails(w)
  PROVE  BrokersInv'
<1>0. /\ BrokerTypes /\ job[w] \in Job
      /\ job[w].pc # "idle" => job[w].ns \in Scopes
  BY DEF BrokersInv, BrokerTypes
<1>1. CASE Exist(w)
  <2> DEFINE j == [job[w] EXCEPT !.pc = "configs", !.sbExists = brokers[BrokerOf(w)] # "absent"]
  <2>1. j \in Job /\ j.ns = job[w].ns
    BY <1>0 DEF Job
  <2>2. /\ job' = [job EXCEPT ![w] = j] /\ job[w].pc # "idle"
        /\ UNCHANGED <<brokers, classes, instances, queue, facadeNS>>
    BY <1>1 DEF Exist, Fill
  <2> HIDE DEF j
  <2> QED
    BY <1>0, <2>1, <2>2, JobKeeps DEF BrokerTypes
<1>2. CASE ListConfigurations(w)
  <2> DEFINE j == [job[w] EXCEPT !.pc = "instances",
                                 !.configurationsExist =
                                    \E c \in Configs : Exists(c) /\ ScopeOf[c] = ScopeOfJob(w)]
  <2>1. j \in Job /\ j.ns = job[w].ns
    BY <1>0 DEF Job
  <2>2. /\ job' = [job EXCEPT ![w] = j] /\ job[w].pc # "idle"
        /\ UNCHANGED <<brokers, classes, instances, queue, facadeNS>>
    BY <1>2 DEF ListConfigurations, Fill
  <2> HIDE DEF j
  <2> QED
    BY <1>0, <2>1, <2>2, JobKeeps DEF BrokerTypes
<1>3. CASE ListInstances(w)
  <2> DEFINE j == [job[w] EXCEPT !.pc = "act",
                                 !.instancesExist = AnyServiceInstanceExists(ScopeOfJob(w))]
  <2>1. j \in Job /\ j.ns = job[w].ns
    BY <1>0 DEF Job, AnyServiceInstanceExists
  <2>2. /\ job' = [job EXCEPT ![w] = j] /\ job[w].pc # "idle"
        /\ UNCHANGED <<brokers, classes, instances, queue, facadeNS>>
    BY <1>3 DEF ListInstances, Fill
  <2> HIDE DEF j
  <2> QED
    BY <1>0, <2>1, <2>2, JobKeeps DEF BrokerTypes
<1>4. ASSUME job[w].pc # "idle", Fill(w, NoJob), UNCHANGED <<classes, instances, facadeNS>>,
             brokers' \in [Scopes -> BrokerStates],
             \A s \in Scopes : brokers[s] # "absent" => brokers'[s] # "absent",
             queue' \in [BrokerControllers -> SUBSET Scopes]
      PROVE  BrokersInv'
  BY <1>4, NoJobFacts, JobKeeps DEF Fill
<1>5. CASE DeleteServiceBroker(w)
  <2>1. /\ job[w].pc # "idle" /\ Fill(w, NoJob) /\ UNCHANGED <<classes, instances, queue, facadeNS>>
        /\ brokers' = [brokers EXCEPT ![BrokerOf(w)] = IF @ = "absent" THEN @ ELSE "terminating"]
    BY <1>5 DEF DeleteServiceBroker
  <2>2. BrokerOf(w) \in Scopes
    BY <2>1, BrokerOfJob
  <2>3. /\ brokers' \in [Scopes -> BrokerStates]
        /\ \A s \in Scopes : brokers[s] # "absent" => brokers'[s] # "absent"
    BY <1>0, <2>1, <2>2 DEF BrokerTypes, BrokerStates
  <2> QED
    BY <1>0, <1>4, <2>1, <2>3 DEF BrokerTypes
<1>6. CASE CreateServiceBroker(w)
  <2>1. /\ job[w].pc # "idle" /\ Fill(w, NoJob) /\ UNCHANGED <<classes, instances, facadeNS>>
        /\ brokers' = [brokers EXCEPT ![BrokerOf(w)] = IF @ = "absent" THEN "present" ELSE @]
        /\ queue' = IF brokers[BrokerOf(w)] = "absent" THEN Requests(BrokerOf(w), queue) ELSE queue
    BY <1>6 DEF CreateServiceBroker
  <2>2. BrokerOf(w) \in Scopes
    BY <2>1, BrokerOfJob
  <2>3. /\ brokers' \in [Scopes -> BrokerStates]
        /\ \A s \in Scopes : brokers[s] # "absent" => brokers'[s] # "absent"
    BY <1>0, <2>1, <2>2 DEF BrokerTypes, BrokerStates
  <2>4. queue' \in [BrokerControllers -> SUBSET Scopes]
    BY <1>0, <2>1, <2>2, RequestsFacts DEF BrokerTypes
  <2> QED
    BY <1>4, <2>1, <2>3, <2>4
<1>7. CASE NothingToDo(w)
  BY <1>0, <1>4, <1>7 DEF NothingToDo, BrokerTypes
<1>8. CASE ReconcileFails(w)
  <2>1. queue' \in [BrokerControllers -> SUBSET Scopes]
    BY <1>0, <1>8 DEF ReconcileFails, BrokerTypes
  <2> QED
    BY <1>0, <1>4, <1>8, <2>1 DEF ReconcileFails, BrokerTypes
<1> QED
  BY <1>1, <1>2, <1>3, <1>5, <1>6, <1>7, <1>8, StartReconcileKeeps DEF BrokerStep

(* Nothing else touches the requests that are under way, or the facade of  *)
(* BrokerController.                                                       *)
LEMMA EventsKeep ==
  ASSUME BrokersInv, UNCHANGED <<job, execution>>,
         brokers' \in [Scopes -> BrokerStates],
         classes' \subseteq {s \in Scopes : brokers'[s] # "absent"},
         instances' \in [ServiceInstances -> {"absent", "created", "classified"}],
         queue' \in [BrokerControllers -> SUBSET Scopes], Running \/ UNCHANGED queue,
         facadeNS' \in [Facades -> Scopes \cup {Nil}], facadeNS'[OwnFacade] = facadeNS[OwnFacade]
  PROVE  BrokersInv'
<1>1. BrokerTypes'
  BY DEF BrokersInv, BrokerTypes
<1>2. Running' <=> Running
  BY DEF Running
<1> QED
  BY <1>1, <1>2 DEF BrokersInv

-----------------------------------------------------------------------------
(* The process.                                                            *)

(* A step of the migration; the manager starts with its end.               *)
LEMMA MigrateKeeps ==
  ASSUME ProcessInv, Migrate
  PROVE  ProcessInv'
<1>1. MigrationTypes' /\ MigrationInv'
  BY ExecuteKeeps, ListConfigurationsKeeps, MigrateChartsKeeps, MigrateInstancesKeeps,
     AddLabelKeeps DEF ProcessInv, Migrate, MigrationStep
<1>2. ~Running
  BY RunFacts DEF ProcessInv, MigrationInv, Migrate, MigrationStep, Execute, listConfigurations,
     migrateCharts, getAllInstances, migrateInstances, addLabel, Running
<1>3. \A w \in BrokerControllers : job[w] = NoJob /\ queue[w] = {}
  BY <1>2 DEF ProcessInv, BrokersInv
<1>4. UNCHANGED <<brokers, classes, instances, job, facadeNS>>
      /\ queue' = IF Running' THEN InitialRequests ELSE queue
  BY DEF Migrate, Running
<1>5. BrokerTypes'
  BY <1>4, InitialRequestsFacts DEF ProcessInv, BrokersInv, BrokerTypes
<1>6. BrokersInv'
  BY <1>3, <1>4, <1>5, NoJobFacts DEF BrokersInv, BrokerControllers
<1> QED
  BY <1>1, <1>6 DEF ProcessInv

(* The process ends and is started again.                                  *)
LEMMA RestartKeeps ==
  ASSUME ProcessInv, Restart
  PROVE  ProcessInv'
<1>1. MigrationTypes' /\ MigrationInv'
  BY ResetKeeps DEF ProcessInv, Restart
<1>2. /\ \A w \in BrokerControllers : job'[w] = NoJob /\ queue'[w] = {}
      /\ job' \in [BrokerControllers -> Job]
      /\ queue' \in [BrokerControllers -> SUBSET Scopes]
      /\ facadeNS' \in [Facades -> Scopes \cup {Nil}]
      /\ UNCHANGED <<brokers, classes, instances>>
  BY NoJobFacts DEF Restart
<1>3. BrokerTypes'
  BY <1>2 DEF ProcessInv, BrokersInv, BrokerTypes
<1>4. BrokersInv'
  BY <1>2, <1>3, NoJobFacts DEF BrokersInv, BrokerControllers
<1> QED
  BY <1>1, <1>4 DEF ProcessInv

(* A configuration is reconciled: it was not there at first, or is not any *)
(* more what it was.  Only the facade of AddonsController is touched.      *)
LEMMA ReconcileConfigurationKeeps ==
  ASSUME ProcessInv, NEW c \in Configs, ReconcileConfiguration(c)
  PROVE  ProcessInv'
<1>1. /\ Running /\ UNCHANGED <<migrationVars, brokers, classes, instances, job, recreated>>
      /\ facadeNS' = SetFacade(c) /\ ScopeOf[c] \in Scopes
      /\ queue' = queue \/ queue' = Requests(ScopeOf[c], queue)
  BY ObjectsAssumption DEF ReconcileConfiguration
<1>2. /\ configs' \in [Configs -> ConfigStates]
      /\ \A d \in Configs : d # c => configs'[d] = configs[d]
      /\ configs[c] # "reported"
  BY DEF ReconcileConfiguration, ProcessInv, MigrationTypes, ConfigStates
<1>3. MigrationTypes' /\ MigrationInv'
  <2>1. \A d \in OldConfigs \ recreated' : configs'[d] = configs[d]
    BY <1>1, <1>2, ProcessAssumption DEF ProcessInv, MigrationInv, Kept
  <2> QED
    BY <1>1, <1>2, <2>1, OthersKeep DEF ProcessInv, migrationVars, MigrationTypes
<1>4. BrokersInv'
  <2>1. queue' \in [BrokerControllers -> SUBSET Scopes]
    BY <1>1, RequestsFacts DEF ProcessInv, BrokersInv, BrokerTypes
  <2>2. facadeNS' \in [Facades -> Scopes \cup {Nil}] /\ facadeNS'[OwnFacade] = facadeNS[OwnFacade]
    BY <1>1 DEF ProcessInv, BrokersInv, BrokerTypes, SetFacade, Facades, AddonsFacade, OwnFacade
  <2> QED
    BY <1>1, <2>1, <2>2, EventsKeep DEF ProcessInv, BrokersInv, BrokerTypes, migrationVars
<1> QED
  BY <1>3, <1>4 DEF ProcessInv

(* A configuration is created or deleted: it is not kept.                  *)
LEMMA ConfigKeeps ==
  ASSUME ProcessInv, NEW c \in Configs, CreateConfig(c) \/ DeleteConfig(c)
  PROVE  ProcessInv'
<1>1. /\ UNCHANGED <<migrationVars, brokers, classes, instances, job, facadeNS>>
      /\ Touch(c) /\ ScopeOf[c] \in Scopes
      /\ queue' = queue \/ (Running /\ queue' = Requests(ScopeOf[c], queue))
  BY ObjectsAssumption DEF CreateConfig, DeleteConfig
<1>2. /\ configs' \in [Configs -> ConfigStates]
      /\ \A d \in Configs : d # c => configs'[d] = configs[d]
  BY DEF CreateConfig, DeleteConfig, ProcessInv, MigrationTypes, ConfigStates
<1>3. MigrationTypes' /\ MigrationInv'
  <2>1. recreated \subseteq recreated'
    BY <1>1 DEF Touch
  <2>2. \A d \in OldConfigs \ recreated' : configs'[d] = configs[d]
    BY <1>1, <1>2, ProcessAssumption DEF Touch
  <2> QED
    BY <1>1, <1>2, <2>1, <2>2, OthersKeep DEF ProcessInv, migrationVars, MigrationTypes
<1>4. BrokersInv'
  <2>1. queue' \in [BrokerControllers -> SUBSET Scopes]
    BY <1>1, RequestsFacts DEF ProcessInv, BrokersInv, BrokerTypes
  <2> QED
    BY <1>1, <2>1, EventsKeep DEF ProcessInv, BrokersInv, BrokerTypes, migrationVars
<1> QED
  BY <1>3, <1>4 DEF ProcessInv

(* The migration is left alone.                                            *)
LEMMA MigrationUnchanged ==
  ASSUME ProcessInv, UNCHANGED <<configs, migrationVars, recreated>>
  PROVE  MigrationTypes' /\ MigrationInv'
  BY OthersKeep DEF ProcessInv, migrationVars, MigrationTypes

(* The brokers are left alone.                                             *)
LEMMA BrokersUnchanged ==
  ASSUME ProcessInv, UNCHANGED <<brokerVars, execution>>
  PROVE  BrokersInv'
  BY EventsKeep DEF ProcessInv, brokerVars, BrokersInv, BrokerTypes

(* A step of a reconciliation of a broker.                                 *)
LEMMA ReconcileBrokerKeeps ==
  ASSUME ProcessInv, NEW w \in BrokerControllers, ReconcileBroker(w) \/ BrokerCallFails(w)
  PROVE  ProcessInv'
<1>1. UNCHANGED <<configs, migrationVars, recreated>>
  BY DEF ReconcileBroker, BrokerCallFails, BrokerStep, ReconcileFails, StartReconcile, Exist,
     ListConfigurations, ListInstances, DeleteServiceBroker, CreateServiceBroker, NothingToDo
<1>2. Running
  BY NoJobFacts DEF ReconcileBroker, BrokerCallFails, ReconcileFails, ProcessInv, BrokersInv
<1>3. BrokersInv'
  <2>1. UNCHANGED execution
    BY <1>1 DEF migrationVars
  <2> QED
    BY <1>2, <2>1, BrokerStepKeeps DEF ReconcileBroker, BrokerCallFails, ProcessInv
<1> QED
  BY <1>1, <1>3, MigrationUnchanged DEF ProcessInv

(* A step of the probe of the liveness.                                    *)
LEMMA ProbeKeeps ==
  ASSUME ProcessInv, StartProbe \/ ProbeSucceeds \/ EndProbe \/ ProbeTimesOut
  PROVE  ProcessInv'
<1>1. CASE UNCHANGED <<configs, migrationVars, brokerVars, recreated>>
  <2>1. UNCHANGED <<brokerVars, execution>>
    BY <1>1 DEF migrationVars
  <2> QED
    BY <1>1, <2>1, MigrationUnchanged, BrokersUnchanged DEF ProcessInv
<1>2. CASE CreateConfig(ProbeConfig) \/ DeleteConfig(ProbeConfig)
  BY <1>2, ConfigKeeps, ProcessAssumption
<1> QED
  BY <1>1, <1>2 DEF StartProbe, ProbeSucceeds, EndProbe, ProbeTimesOut

(* What users and the broker do.                                           *)
LEMMA UsersKeep ==
  ASSUME ProcessInv, Users
  PROVE  ProcessInv'
<1>1. CASE \E c \in Configs : CreateConfig(c) \/ DeleteConfig(c)
  BY <1>1, ConfigKeeps
<1>2. ASSUME NEW i \in ServiceInstances, CreateInstance(i, Running) \/ DeleteInstance(i, Running),
             UNCHANGED <<migrationVars, recreated>>
      PROVE  ProcessInv'
  <2>1. /\ UNCHANGED <<configs, brokers, classes, job, facadeNS, execution>>
        /\ queue' = queue \/ (Running /\ queue' = InstanceRequests(i, queue))
    BY <1>2 DEF CreateInstance, DeleteInstance, migrationVars
  <2>2. instances' \in [ServiceInstances -> {"absent", "created", "classified"}]
    BY <1>2 DEF CreateInstance, DeleteInstance, ProcessInv, BrokersInv, BrokerTypes
  <2>3. queue' \in [BrokerControllers -> SUBSET Scopes]
    BY <2>1, InstanceRequestsFacts DEF ProcessInv, BrokersInv, BrokerTypes
  <2>4. BrokersInv'
    BY <2>1, <2>2, <2>3, EventsKeep DEF ProcessInv, BrokersInv, BrokerTypes
  <2> QED
    BY <1>2, <2>1, <2>4, MigrationUnchanged DEF ProcessInv
<1>3. ASSUME NEW i \in Instances, NEW form \in {"none", "old", "new"}, BrokerWrites(i, form),
             UNCHANGED <<configs, brokerVars, recreated>>
      PROVE  ProcessInv'
  <2>1. /\ UNCHANGED <<asked, label, deployment, execution, chartsRun, instancesRun>>
        /\ ~label /\ records' = [records EXCEPT ![i] = form] /\ written' = written \cup {i}
    BY <1>3 DEF BrokerWrites
  <2>2. MigrationTypes' /\ MigrationInv'
    BY <1>3, <2>1, OthersKeep DEF ProcessInv, MigrationTypes
  <2> QED
    BY <1>3, <2>1, <2>2, BrokersUnchanged DEF ProcessInv
<1>4. CASE UpdateDeployment /\ UNCHANGED <<configs, brokerVars, recreated>>
  <2>1. /\ UNCHANGED <<records, written, asked, label, execution, chartsRun, instancesRun>>
        /\ deployment' \in Nat
    BY <1>4 DEF UpdateDeployment, ProcessInv, MigrationTypes
  <2>2. MigrationTypes' /\ MigrationInv'
    BY <1>4, <2>1, OthersKeep DEF ProcessInv, MigrationTypes
  <2> QED
    BY <1>4, <2>1, <2>2, BrokersUnchanged DEF ProcessInv
<1> QED
  BY <1>1, <1>2, <1>3, <1>4 DEF Users

(* What Service Catalog does.                                              *)
LEMMA ServiceCatalogKeeps ==
  ASSUME ProcessInv, ServiceCatalog
  PROVE  ProcessInv'
<1>1. UNCHANGED <<configs, migrationVars, recreated, job, facadeNS, execution>>
  BY DEF ServiceCatalog, FetchCatalog, FinalizeBroker, ClassifyInstance, migrationVars
<1>2. /\ brokers' \in [Scopes -> BrokerStates]
      /\ classes' \subseteq {s \in Scopes : brokers'[s] # "absent"}
      /\ instances' \in [ServiceInstances -> {"absent", "created", "classified"}]
      /\ queue' \in [BrokerControllers -> SUBSET Scopes]
      /\ Running \/ UNCHANGED queue
  <2> USE DEF ProcessInv, BrokersInv, BrokerTypes, BrokerStates
  <2>1. CASE \E s \in Scopes : FetchCatalog(s)
    BY <2>1 DEF FetchCatalog
  <2>2. CASE \E s \in Scopes : FinalizeBroker(s, Running)
    BY <2>2, RequestsFacts DEF FinalizeBroker
  <2>3. CASE \E i \in ServiceInstances : ClassifyInstance(i)
    BY <2>3 DEF ClassifyInstance
  <2> QED
    BY <2>1, <2>2, <2>3 DEF ServiceCatalog
<1>3. BrokersInv'
  BY <1>1, <1>2, EventsKeep DEF ProcessInv, BrokersInv, BrokerTypes
<1> QED
  BY <1>1, <1>3, MigrationUnchanged DEF ProcessInv

-----------------------------------------------------------------------------
(* The process starts for the first time.                                  *)
LEMMA ProcessStarts == ProcessInit => ProcessInv
<1> SUFFICES ASSUME ProcessInit PROVE ProcessInv
  OBVIOUS
<1> USE DEF ProcessInit
<1>1. execution \in [pc : {"start", "wait", "done"}, seen : Nat] /\ execution.pc = "start"
  BY DEF MigrationInit, Execution
<1>2. MigrationTypes
  BY <1>1, RunFacts DEF MigrationInit, MigrationTypes, ConfigStates
<1>3. MigrationInv
  BY <1>1, RunFacts, ProcessAssumption DEF MigrationInit, MigrationInv, Running, Kept
<1>4. BrokerTypes
  BY NoJobFacts DEF BrokerInit, BrokerTypes, BrokerStates
<1>5. BrokersInv
  BY <1>4, NoJobFacts DEF BrokerInit, BrokersInv, BrokerControllers
<1> QED
  BY <1>2, <1>3, <1>5 DEF ProcessInv

(* Every step keeps the invariant.                                         *)
LEMMA ProcessContinues == ProcessInv /\ [ProcessNext]_vars => ProcessInv'
<1> SUFFICES ASSUME ProcessInv, [ProcessNext]_vars PROVE ProcessInv'
  OBVIOUS
<1>1. CASE UNCHANGED vars
  <2>1. UNCHANGED <<configs, migrationVars, recreated>> /\ UNCHANGED <<brokerVars, execution>>
    BY <1>1 DEF vars, migrationVars
  <2> QED
    BY <2>1, MigrationUnchanged, BrokersUnchanged DEF ProcessInv
<1>2. CASE ProcessNext
  BY <1>2, MigrateKeeps, RestartKeeps, ReconcileConfigurationKeeps, ReconcileBrokerKeeps,
     ProbeKeeps, UsersKeep, ServiceCatalogKeeps DEF ProcessNext, FatalMigration, Crash
<1> QED
  BY <1>1, <1>2

(* The invariant of the controller process.                                *)
THEOREM Process_Invariant == ProcessSpec => []ProcessInv
  BY ProcessStarts, ProcessContinues, PTL DEF ProcessSpec

(* Every variable keeps its type; classes are there for a broker that is   *)
(* there, and no controller works or has requests before the manager runs. *)
THEOREM Process_TypeOK == ProcessSpec => []ProcessTypeOK
<1>1. ProcessInv => ProcessTypeOK
  BY DEF ProcessInv, MigrationTypes, BrokersInv, BrokerTypes, ProcessTypeOK, ChartsRun,
     InstancesRun, Job
<1> QED
  BY <1>1, Process_Invariant, PTL

(* The label on the Deployment, and with it the start of the controllers,  *)
(* stands for a complete migration (Execute, migration.go), whichever      *)
(* goroutine ends first, however often the process is ended and started    *)
(* again in between, and however many configurations and instances there   *)
(* are and come and go meanwhile.                                          *)
THEOREM Process_MigratedWhenLabelled == ProcessSpec => []MigratedWhenLabelled
<1>1. ProcessInv => MigratedWhenLabelled
  <2> SUFFICES ASSUME ProcessInv, label \/ Running
               PROVE  /\ \A i \in Instances \ written : records[i] # "old"
                      /\ \A c \in OldConfigs \ recreated : c \in asked
    BY DEF MigratedWhenLabelled
  <2>1. Converted({}) /\ Asked(Scopes, {})
    BY DEF ProcessInv, MigrationInv
  <2> QED
    BY <2>1, ObjectsAssumption, ProcessAssumption DEF Converted, Asked, Kept
<1> QED
  BY <1>1, Process_Invariant, PTL

(* A (Cluster)ServiceBroker is created and deleted only by a               *)
(* reconciliation of its own scope, as that has seen it needed or not:     *)
(* the namespace of the facade of BrokerController (broker_controller.go)  *)
(* is set by its own Reconcile only, so that it is still that of the       *)
(* request when the facade acts, however many namespaces there are.        *)
THEOREM Process_BrokerOfRequest == ProcessSpec => BrokerOfRequest
<1> DEFINE A == \A s \in Scopes :
       /\ brokers[s] = "present" /\ brokers'[s] = "terminating" =>
            \E w \in BrokerControllers : ScopeOfJob(w) = s /\ job[w].pc = "act" /\ ~Needed(job[w])
       /\ brokers[s] = "absent" /\ brokers'[s] = "present" =>
            \E w \in BrokerControllers : ScopeOfJob(w) = s /\ job[w].pc = "act" /\ Needed(job[w])
<1>1. ASSUME ProcessInv, [ProcessNext]_vars PROVE [A]_brokers
  <2>0. BrokersInv /\ brokers \in [Scopes -> BrokerStates]
    BY <1>1 DEF ProcessInv, BrokersInv, BrokerTypes
  <2>1. ASSUME NEW w \in BrokerControllers, DeleteServiceBroker(w) PROVE A
    <3>1. /\ job[w].pc = "act" /\ ~Needed(job[w])
          /\ brokers' = [brokers EXCEPT ![BrokerOf(w)] = IF @ = "absent" THEN @ ELSE "terminating"]
      BY <2>1 DEF DeleteServiceBroker
    <3>2. BrokerOf(w) = ScopeOfJob(w) /\ BrokerOf(w) \in Scopes
      BY <2>0, <3>1, BrokerOfJob
    <3> QED
      BY <2>0, <3>1, <3>2 DEF BrokerStates
  <2>2. ASSUME NEW w \in BrokerControllers, CreateServiceBroker(w) PROVE A
    <3>1. /\ job[w].pc = "act" /\ Needed(job[w])
          /\ brokers' = [brokers EXCEPT ![BrokerOf(w)] = IF @ = "absent" THEN "present" ELSE @]
      BY <2>2 DEF CreateServiceBroker
    <3>2. BrokerOf(w) = ScopeOfJob(w) /\ BrokerOf(w) \in Scopes
      BY <2>0, <3>1, BrokerOfJob
    <3> QED
      BY <2>0, <3>1, <3>2 DEF BrokerStates
  <2>3. ASSUME NEW s \in Scopes, FinalizeBroker(s, Running) PROVE A
    BY <2>0, <2>3 DEF FinalizeBroker, BrokerStates
  <2>4. \/ UNCHANGED brokers
        \/ \E w \in BrokerControllers : DeleteServiceBroker(w) \/ CreateServiceBroker(w)
        \/ \E s \in Scopes : FinalizeBroker(s, Running)
    <3>1. CASE UNCHANGED vars
      BY <3>1 DEF vars, brokerVars
    <3>2. CASE Migrate \/ FatalMigration \/ Crash
      BY <3>2 DEF Migrate, FatalMigration, Crash, Restart
    <3>3. CASE \E c \in Configs : ReconcileConfiguration(c)
      BY <3>3 DEF ReconcileConfiguration
    <3>4. CASE \E w \in BrokerControllers : ReconcileBroker(w) \/ BrokerCallFails(w)
      BY <3>4 DEF ReconcileBroker, BrokerCallFails, BrokerStep, StartReconcile, Exist,
         ListConfigurations, ListInstances, NothingToDo, ReconcileFails
    <3>5. CASE StartProbe \/ ProbeSucceeds \/ EndProbe \/ ProbeTimesOut
      BY <3>5 DEF StartProbe, ProbeSucceeds, EndProbe, ProbeTimesOut, CreateConfig,
         DeleteConfig, brokerVars
    <3>6. CASE Users
      BY <3>6 DEF Users, CreateConfig, DeleteConfig, CreateInstance, DeleteInstance, brokerVars
    <3>7. CASE ServiceCatalog
      BY <3>7 DEF ServiceCatalog, FetchCatalog, ClassifyInstance
    <3> QED
      BY <1>1, <3>1, <3>2, <3>3, <3>4, <3>5, <3>6, <3>7 DEF ProcessNext
  <2> QED
    BY <2>1, <2>2, <2>3, <2>4
<1>2. [][A]_brokers <=> BrokerOfRequest
  BY DEF BrokerOfRequest
<1> HIDE DEF A
<1> QED
  BY <1>1, <1>2, Process_Invariant, PTL DEF ProcessSpec
=============================================================================
