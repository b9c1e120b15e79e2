-------------------------- MODULE BrokerController --------------------------
(***************************************************************************)
(* The controllers that create and delete ServiceBrokers, one for each     *)
(* namespace (controller/broker_controller.go), and the                    *)
(* ClusterServiceBroker (controller/cluster_broker_controller.go), from    *)
(* whether there are configurations or instances that need them, with the  *)
(* facades they use (controller/broker, controller/instance).              *)
(*                                                                         *)
(* Only creation and deletion of objects is an event to them; what a cache *)
(* has is up to date, but it is read in three calls.  Service Catalog is   *)
(* external: it has classes for a ServiceBroker and deletes them before a  *)
(* deleted ServiceBroker goes, and it lets instances refer to a class.     *)
(***************************************************************************)
EXTENDS ControllerObjects

CONSTANTS
  ServiceInstances,   \* ServiceInstances
  NamespaceOf,        \* NamespaceOf[i]: its namespace
  ClassScope          \* ClassScope[i]: the scope of the class it is of

ASSUME InstancesAssumption ==
  /\ NamespaceOf \in [ServiceInstances -> Namespaces]
  /\ \A i \in ServiceInstances : ClassScope[i] \in {NamespaceOf[i], Cluster}

VARIABLES
  brokers,      \* brokers[s]: the (Cluster)ServiceBroker of a scope
  classes,      \* the scopes in which there are classes of the broker
  instances,    \* instances[i]: "absent", "created" or, with a class, "classified"
  queue,        \* queue[w]: requests of controller w
  job,          \* job[w]: the request controller w works on
  facadeNS      \* facadeNS[f]: the namespace of a facade for ServiceBrokers

brokerVars == <<brokers, classes, instances, queue, job, facadeNS>>

-----------------------------------------------------------------------------
BrokerControllers == {"BrokerController", "ClusterBrokerController"}
BrokerStates == {"absent", "present", "terminating"}

NoJob == [pc |-> "idle", ns |-> Nil, sbExists |-> FALSE, configurationsExist |-> FALSE,
          instancesExist |-> FALSE]

(* Both AddonsController and BrokerController have a Facade.               *)
Facades == {"AddonsController", "BrokerController"}
AddonsFacade == "AddonsController"
OwnFacade == "BrokerController"

(* The scope whose broker a controller looks at now.                       *)
BrokerOf(w) == IF w = "ClusterBrokerController" THEN Cluster ELSE facadeNS[OwnFacade]
ScopeOfJob(w) == IF w = "ClusterBrokerController" THEN Cluster ELSE job[w].ns

(* Mutation: requests without a namespace.                                 *)
NamelessRequests(s, q) ==
  [w \in BrokerControllers |->
     IF (w = "ClusterBrokerController") = (s = Cluster) THEN q[w] \cup {Nil} ELSE q[w]]

(* Requests that events on objects of a scope lead to: every instance is   *)
(* an event to both controllers.                                           *)
Requests(s, q) ==
  [w \in BrokerControllers |->
     IF (w = "ClusterBrokerController") = (s = Cluster) THEN q[w] \cup {s} ELSE q[w]]
InstanceRequests(i, q) == Requests(Cluster, Requests(NamespaceOf[i], q))

Fill(w, j) == job' = [job EXCEPT ![w] = j]

(* Reconcile takes up a request and sets the namespace of its facade.      *)
StartReconcile(w, s) ==
  /\ job[w].pc = "idle"
  /\ s \in queue[w]
  /\ queue' = [queue EXCEPT ![w] = @ \ {s}]
  /\ Fill(w, [NoJob EXCEPT !.pc = "exist", !.ns = s])
  /\ facadeNS' = IF w = "BrokerController" THEN [facadeNS EXCEPT ![OwnFacade] = s] ELSE facadeNS
  /\ UNCHANGED <<brokers, classes, instances, configs>>

Exist(w) ==
  /\ job[w].pc = "exist"
  /\ Fill(w, [job[w] EXCEPT !.pc = "configs", !.sbExists = brokers[BrokerOf(w)] # "absent"])
  /\ UNCHANGED <<brokers, classes, instances, queue, facadeNS, configs>>

ListConfigurations(w) ==
  /\ job[w].pc = "configs"
  /\ Fill(w, [job[w] EXCEPT !.pc = "instances",
                            !.configurationsExist =
                               \E c \in Configs : Exists(c) /\ ScopeOf[c] = ScopeOfJob(w)])
  /\ UNCHANGED <<brokers, classes, instances, queue, facadeNS, configs>>

(* AnyServiceInstanceExistsForNamespacedServiceBroker, and the one for the *)
(* cluster: an instance counts if it refers to a class of the broker that  *)
(* exists.                                                                 *)
AnyInstance(s) ==
  \E i \in ServiceInstances : instances[i] # "absent" /\ NamespaceOf[i] = s
AnyServiceInstanceExists(s) ==
  s \in classes /\ \E i \in ServiceInstances : instances[i] = "classified" /\ ClassScope[i] = s

ListInstances(w) ==
  /\ job[w].pc = "instances"
  /\ Fill(w, [job[w] EXCEPT !.pc = "act", !.instancesExist = AnyServiceInstanceExists(ScopeOfJob(w))])
  /\ UNCHANGED <<brokers, classes, instances, queue, facadeNS, configs>>

Needed(j) == j.configurationsExist \/ j.instancesExist

(* Delete of the facade; Service Catalog then has to finalize the broker.  *)
DeleteServiceBroker(w) ==
  /\ job[w].pc = "act"
  /\ job[w].sbExists /\ ~Needed(job[w])
  /\ brokers' = [brokers EXCEPT ![BrokerOf(w)] = IF @ = "absent" THEN @ ELSE "terminating"]
  /\ Fill(w, NoJob)
  /\ UNCHANGED <<classes, instances, queue, facadeNS, configs>>

(* Create of the facade; one that is there is taken.                       *)
CreateServiceBroker(w) ==
  /\ job[w].pc = "act"
  /\ ~job[w].sbExists /\ Needed(job[w])
  /\ brokers' = [brokers EXCEPT ![BrokerOf(w)] = IF @ = "absent" THEN "present" ELSE @]
  /\ queue' = IF brokers[BrokerOf(w)] = "absent" THEN Requests(BrokerOf(w), queue) ELSE queue
  /\ Fill(w, NoJob)
  /\ UNCHANGED <<classes, instances, facadeNS, configs>>

NothingToDo(w) ==
  /\ job[w].pc = "act"
  /\ job[w].sbExists = Needed(job[w])
  /\ Fill(w, NoJob)
  /\ UNCHANGED <<brokers, classes, instances, queue, facadeNS, configs>>

(* Mutation: the request is not queued again.                              *)
DropRequest(w) ==
  /\ job[w].pc # "idle"
  /\ Fill(w, NoJob)
  /\ UNCHANGED <<brokers, classes, instances, queue, facadeNS, configs>>

(* A call fails, or creation does for half a minute: the request is        *)
(* queued again.                                                           *)
ReconcileFails(w) ==
  /\ job[w].pc # "idle"
  /\ queue' = [queue EXCEPT ![w] = @ \cup {job[w].ns}]
  /\ Fill(w, NoJob)
  /\ UNCHANGED <<brokers, classes, instances, facadeNS, configs>>

BrokerStep(w) ==
  \/ \E s \in Scopes : StartReconcile(w, s)
  \/ Exist(w) \/ ListConfigurations(w) \/ ListInstances(w)
  \/ DeleteServiceBroker(w) \/ CreateServiceBroker(w) \/ NothingToDo(w)

-----------------------------------------------------------------------------
(* Service Catalog and its users.  Events reach the controllers when the   *)
(* manager runs.                                                           *)

FetchCatalog(s) ==
  /\ brokers[s] = "present"
  /\ s \notin classes
  /\ classes' = classes \cup {s}
  /\ UNCHANGED <<brokers, instances, queue, job, facadeNS, configs>>

FinalizeBroker(s, running) ==
  /\ brokers[s] = "terminating"
  /\ brokers' = [brokers EXCEPT ![s] = "absent"]
  /\ classes' = classes \ {s}
  /\ queue' = IF running THEN Requests(s, queue) ELSE queue
  /\ UNCHANGED <<instances, job, facadeNS, configs>>

CreateInstance(i, running) ==
  /\ instances[i] = "absent"
  /\ instances' = [instances EXCEPT ![i] = "created"]
  /\ queue' = IF running THEN InstanceRequests(i, queue) ELSE queue
  /\ UNCHANGED <<brokers, classes, job, facadeNS, configs>>

(* The reference is set by an update, which is no event to the             *)
(* controllers.                                                            *)
ClassifyInstance(i) ==
  /\ instances[i] = "created"
  /\ ClassScope[i] \in classes
  /\ instances' = [instances EXCEPT ![i] = "classified"]
  /\ UNCHANGED <<brokers, classes, queue, job, facadeNS, configs>>

DeleteInstance(i, running) ==
  /\ instances[i] # "absent"
  /\ instances' = [instances EXCEPT ![i] = "absent"]
  /\ queue' = IF running THEN InstanceRequests(i, queue) ELSE queue
  /\ UNCHANGED <<brokers, classes, job, facadeNS, configs>>

BrokerInit ==
  /\ brokers = [s \in Scopes |-> "absent"]
  /\ classes = {}
  /\ instances = [i \in ServiceInstances |-> "absent"]
  /\ queue = [w \in BrokerControllers |-> {}]
  /\ job = [w \in BrokerControllers |-> NoJob]
  /\ facadeNS = [f \in Facades |-> Nil]

-----------------------------------------------------------------------------
(* A broker is deleted only by a reconciliation of its own scope that has  *)
(* seen neither configurations nor instances there, and created only by    *)
(* one that has, although AddonsConfigurations of other namespaces are     *)
(* reconciled at the same time: a Facade is not thread-safe, and each      *)
(* controller has its own.                                                 *)
BrokerOfRequest ==
  [][\A s \in Scopes :
       /\ brokers[s] = "present" /\ brokers'[s] = "terminating" =>
            \E w \in BrokerControllers : ScopeOfJob(w) = s /\ job[w].pc = "act" /\ ~Needed(job[w])
       /\ brokers[s] = "absent" /\ brokers'[s] = "present" =>
            \E w \in BrokerControllers : ScopeOfJob(w) = s /\ job[w].pc = "act" /\ Needed(job[w])
    ]_brokers

(* The broker of each scope settles to be there as long as configurations  *)
(* or instances need it, and to be gone when they are, however these come  *)
(* and go between the calls of a reconciliation.                           *)
BrokerFollows ==
  <>[](\A s \in Scopes :
         (brokers[s] = "present") <=>
            (\/ \E c \in Configs : Exists(c) /\ ScopeOf[c] = s
             \/ AnyServiceInstanceExists(s)))
=============================================================================
