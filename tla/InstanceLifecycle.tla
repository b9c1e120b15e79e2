------------------------- MODULE InstanceLifecycle -------------------------
(***************************************************************************)
(* Provisioning and deprovisioning of service instances by the broker      *)
(* (internal/broker/provision.go, deprovision.go, operation_state.go) over *)
(* the instance and operation storages (internal/storage/driver) and Helm  *)
(* (internal/helm/client.go).                                              *)
(*                                                                         *)
(* A request runs in an HTTP handler thread: it takes the mutex of its     *)
(* service, makes a sequence of storage calls, each of them one step here, *)
(* starts a goroutine (the worker of its operation) and answers.  Every    *)
(* early return of the handler is an action of its own.  The provision     *)
(* and the deprovision service each have a mutex: they exclude requests of *)
(* their own kind only.                                                    *)
(***************************************************************************)
EXTENDS Naturals, FiniteSets

CONSTANTS
  Threads,     \* HTTP handler threads
  Instances,   \* service instance IDs
  OpIDs,       \* operation IDs (ULIDs); bounds the number of operations
  Services,    \* service (= addon) IDs
  OnlyOnce,    \* the services whose addon sets provisionOnlyOnce
  Namespaces,  \* namespaces an instance can be requested in
  Plans,       \* plan IDs a request may carry
  Offered,     \* the plan IDs the addons contain
  Params,      \* provisioning parameters of requests
  Hashed,      \* parameters of an instance stored by an old version as a hash
  Legacy,      \* instances provisioned by that old version
  Driver,      \* storage driver, "etcd" or "memory"
  Platform,    \* what the platform does beyond one request at a time
  MaxCrashes,  \* bound on restarts of the broker
  MaxFaults,   \* bound on storage calls that return an error
  Nil          \* no operation, no record, no lock holder, no worker

(* The habits of a platform: it may send a request about an instance while *)
(* another one about that instance is being served ("overlap"), repeat a   *)
(* provision request while the instance is still being provisioned         *)
(* ("retry"), and provision an instance ID again that it has asked to      *)
(* remove ("reprovision", as the orphan mitigation of Service Catalog      *)
(* does after a failed provisioning).                                      *)
Habits == {"overlap", "retry", "reprovision"}

ASSUME ConstantsAssumption ==
  /\ OnlyOnce \subseteq Services
  /\ Offered \subseteq Plans
  /\ Legacy \subseteq Instances
  /\ Hashed \notin Params
  /\ Driver \in {"etcd", "memory"}
  /\ Platform \subseteq Habits
  /\ MaxCrashes \in Nat
  /\ MaxFaults \in Nat

VARIABLES
  ops,         \* ops[id]: the stored operation, or Nil
  instances,   \* instances[i]: the stored instance record, or Nil
  releases,    \* releases[r]: what Helm knows of the release named r
  mu,          \* mu[type]: the thread holding the mutex of that service
  handler,     \* handler[t]: progress of the request thread t serves
  worker,      \* worker[id]: progress of the goroutine of operation id
  crashes,     \* restarts so far
  faults       \* failed storage calls so far

vars == <<ops, instances, releases, mu, handler, worker, crashes, faults>>

-----------------------------------------------------------------------------
(* Data.                                                                   *)

OpTypes == {"create", "remove"}
OpStates == {"in progress", "succeeded", "failed"}
InstanceOperation == [inst : Instances, type : OpTypes, state : OpStates]

(* An instance record; "released" tells whether ReleaseInfo is filled in.  *)
Instance == [ns : Namespaces, svc : Services, plan : Plans,
             params : Params \cup {Hashed}, released : BOOLEAN]

Request == [ns : Namespaces, svc : Services, plan : Plans,
            params : Params, released : {FALSE}]

(* createReleaseName: the addon's name, the plan's name and the instance   *)
(* ID, in the namespace of the instance.                                   *)
ReleaseName == [inst : Instances, svc : Services, plan : Plans, ns : Namespaces]

createReleaseName(i, rec) ==
  [inst |-> i, svc |-> rec.svc, plan |-> rec.plan, ns |-> rec.ns]

(* Helm's view of a release: its status and the values it was installed with. *)
HelmRelease == [status : {"pending", "deployed", "failed"}, params : Params \cup {Hashed}]
Release == HelmRelease \cup {Nil}

HandlerPCs == {"idle", "isProvisioned", "compareParams", "saveParams",
               "isProvisioningInProgress", "getAddon", "isDeprovisioned",
               "isDeprovisioningInProgress", "getInstance", "insert", "put",
               "findPlan"}
Handler == [pc : HandlerPCs, type : OpTypes \cup {Nil}, inst : Instances \cup {Nil},
            req : Instance \cup {Nil}, op : OpIDs \cup {Nil}]
Idle == [pc |-> "idle", type |-> Nil, inst |-> Nil, req |-> Nil, op |-> Nil]

WorkerPCs == {"install", "installing", "record", "delete", "forget", "succeed",
              "fail"}
Worker == [pc : WorkerPCs, inst : Instances, rec : Instance]

ASSUME NilAssumption ==
  /\ Nil \notin Threads
  /\ Nil \notin Instances
  /\ Nil \notin OpIDs
  /\ Nil \notin OpTypes
  /\ Nil \notin InstanceOperation
  /\ Nil \notin Instance
  /\ Nil \notin HelmRelease
  /\ Nil \notin Worker

-----------------------------------------------------------------------------
(* The reads of the operation storage (operation_state.go, Insert).        *)

HasOp(i, type, state) ==
  \E id \in OpIDs : ops[id] = [inst |-> i, type |-> type, state |-> state]

(* Mutation: a removal that has failed counts as well.                     *)
RemovalEnded(i) == \E state \in {"succeeded", "failed"} : HasOp(i, "remove", state)

(* Whatever order the operations are read in, a succeeded removal wins.    *)
IsProvisioned(i) == HasOp(i, "create", "succeeded") /\ ~HasOp(i, "remove", "succeeded")
IsProvisioningInProgress(i) == HasOp(i, "create", "in progress")
IsDeprovisioned(i) == HasOp(i, "remove", "succeeded")
IsDeprovisioningInProgress(i) == HasOp(i, "remove", "in progress")
isOperationInProgress(i) == \E type \in OpTypes : HasOp(i, type, "in progress")
HasNoOps(i) == \A id \in OpIDs : ops[id] # Nil => ops[id].inst # i

(* Mutation: counts the instances whose provisioning has ended only.       *)
AllowedUnlessReleased(r) ==
  r.svc \in OnlyOnce =>
    \A i \in Instances : instances[i] # Nil /\ instances[i].released =>
      ~(instances[i].ns = r.ns /\ instances[i].svc = r.svc)

(* Addon.IsProvisioningAllowed over the instances of the storage.          *)
IsProvisioningAllowed(r) ==
  r.svc \in OnlyOnce =>
    \A i \in Instances : instances[i] # Nil =>
      ~(instances[i].ns = r.ns /\ instances[i].svc = r.svc)

-----------------------------------------------------------------------------
(* Moves of a handler.                                                     *)

At(t, pc) == handler[t].pc = pc

Goto(t, pc) ==
  /\ handler' = [handler EXCEPT ![t].pc = pc]
  /\ UNCHANGED mu

(* Return from the handler; the deferred Unlock runs.                      *)
Answer(t) ==
  /\ handler' = [handler EXCEPT ![t] = Idle]
  /\ mu' = [mu EXCEPT ![handler[t].type] = Nil]

(* operationIDProvider: a ULID nobody has; running out of OpIDs stands for *)
(* the error of the generator.                                             *)
FreshID(id) ==
  /\ ops[id] = Nil
  /\ \A t \in Threads : handler[t].op # id

(* Mutation: IDs are not unique.                                           *)
TakeAnyID(t, pc) ==
  /\ \E id \in OpIDs : handler' = [handler EXCEPT ![t].pc = pc, ![t].op = id]
  /\ UNCHANGED mu

(* Go on to Insert with a fresh operation ID.                              *)
TakeID(t, pc) ==
  /\ \E id \in OpIDs :
       /\ FreshID(id)
       /\ handler' = [handler EXCEPT ![t].pc = pc, ![t].op = id]
  /\ UNCHANGED mu

Serving(i) == \E t \in Threads : handler[t].inst = i

(* Mutation: no mutex.                                                     *)
EnterUnlocked(t, type, i, r, pc) ==
  /\ At(t, "idle")
  /\ mu' = [mu EXCEPT ![type] = t]
  /\ handler' = [handler EXCEPT ![t] =
                   [pc |-> pc, type |-> type, inst |-> i, req |-> r, op |-> Nil]]
  /\ "overlap" \in Platform \/ ~Serving(i)
  /\ UNCHANGED <<ops, instances, releases, worker, crashes, faults>>

(* A request takes the mutex of its service and starts.                    *)
Enter(t, type, i, r, pc) ==
  /\ At(t, "idle")
  /\ mu[type] = Nil
  /\ mu' = [mu EXCEPT ![type] = t]
  /\ handler' = [handler EXCEPT ![t] =
                   [pc |-> pc, type |-> type, inst |-> i, req |-> r, op |-> Nil]]
  /\ "overlap" \in Platform \/ ~Serving(i)
  /\ UNCHANGED <<ops, instances, releases, worker, crashes, faults>>

PlatformProvisions(i) ==
  /\ "retry" \in Platform \/ ~IsProvisioningInProgress(i)
  /\ "reprovision" \in Platform \/ \A state \in OpStates : ~HasOp(i, "remove", state)

-----------------------------------------------------------------------------
(* Provision.                                                              *)

StartProvision(t, i, r) ==
  /\ PlatformProvisions(i)
  /\ Enter(t, "create", i, r, "isProvisioned")

CheckProvisioned(t) ==
  /\ At(t, "isProvisioned")
  /\ Goto(t, IF IsProvisioned(handler[t].inst) THEN "compareParams"
             ELSE "isProvisioningInProgress")
  /\ UNCHANGED <<ops, instances, releases, worker, crashes, faults>>

(* requestedParametersAreDifferent: 500, the record is gone.               *)
AnswerNoInstance(t) ==
  /\ At(t, "compareParams")
  /\ instances[handler[t].inst] = Nil
  /\ Answer(t)
  /\ UNCHANGED <<ops, instances, releases, worker, crashes, faults>>

SameParams(t) == instances[handler[t].inst].params = handler[t].req.params

(* requestedParametersAreDifferent: 200, nothing to do.                    *)
AnswerProvisioned(t) ==
  /\ At(t, "compareParams")
  /\ instances[handler[t].inst] # Nil
  /\ SameParams(t)
  /\ Answer(t)
  /\ UNCHANGED <<ops, instances, releases, worker, crashes, faults>>

(* requestedParametersAreDifferent: 409.                                   *)
AnswerConflict(t) ==
  /\ At(t, "compareParams")
  /\ instances[handler[t].inst] # Nil
  /\ instances[handler[t].inst].params # Hashed
  /\ ~SameParams(t)
  /\ Answer(t)
  /\ UNCHANGED <<ops, instances, releases, worker, crashes, faults>>

(* requestedParametersAreDifferent: the stored instance only has a hash of *)
(* its parameters; the requested ones are accepted as they are.            *)
LoadHashedParams(t) ==
  LET stored == instances[handler[t].inst] IN
  /\ At(t, "compareParams")
  /\ stored # Nil
  /\ stored.params = Hashed
  /\ handler' = [handler EXCEPT
                   ![t].pc = "saveParams",
                   ![t].req = [stored EXCEPT !.params = handler[t].req.params]]
  /\ UNCHANGED <<ops, instances, releases, mu, worker, crashes, faults>>

SaveParams(t) ==
  /\ At(t, "saveParams")
  /\ instances' = [instances EXCEPT ![handler[t].inst] = handler[t].req]
  /\ Answer(t)
  /\ UNCHANGED <<ops, releases, worker, crashes, faults>>

(* 202 with the operation that is running already.                         *)
AnswerProvisioning(t) ==
  /\ At(t, "isProvisioningInProgress")
  /\ IsProvisioningInProgress(handler[t].inst)
  /\ Answer(t)
  /\ UNCHANGED <<ops, instances, releases, worker, crashes, faults>>

(* Mutation: the second read is left out.                                  *)
SkipCheckProvisioning(t) ==
  /\ At(t, "isProvisioningInProgress")
  /\ Goto(t, "getAddon")
  /\ UNCHANGED <<ops, instances, releases, worker, crashes, faults>>

CheckProvisioning(t) ==
  /\ At(t, "isProvisioningInProgress")
  /\ ~IsProvisioningInProgress(handler[t].inst)
  /\ Goto(t, "getAddon")
  /\ UNCHANGED <<ops, instances, releases, worker, crashes, faults>>

(* The namespace is read from the request, the addon from its storage and  *)
(* the instances from theirs.  The controller may have unregistered the    *)
(* addon: the lookup can always miss, which is answered by an error, as a  *)
(* violation of provisionOnlyOnce and an error of the ID generator are.    *)
CheckAllowed(t) ==
  /\ At(t, "getAddon")
  /\ IsProvisioningAllowed(handler[t].req)
  /\ TakeID(t, "insert")
  /\ UNCHANGED <<ops, instances, releases, worker, crashes, faults>>

RejectProvision(t) ==
  /\ At(t, "getAddon")
  /\ Answer(t)
  /\ UNCHANGED <<ops, instances, releases, worker, crashes, faults>>

(* addon.Plans[addonPlanID], looked up after the operation was inserted:   *)
(* 400, and the operation keeps its state.                                 *)
RejectPlan(t) ==
  /\ At(t, "findPlan")
  /\ handler[t].req.plan \notin Offered
  /\ Answer(t)
  /\ UNCHANGED <<ops, instances, releases, worker, crashes, faults>>

(* Upsert of the instance, start of the goroutine, 202.                    *)
StartInstall(t) ==
  LET h == handler[t] IN
  /\ At(t, "findPlan")
  /\ h.req.plan \in Offered
  /\ instances' = [instances EXCEPT ![h.inst] = h.req]
  /\ worker' = [worker EXCEPT ![h.op] = [pc |-> "install", inst |-> h.inst, rec |-> h.req]]
  /\ Answer(t)
  /\ UNCHANGED <<ops, releases, crashes, faults>>

-----------------------------------------------------------------------------
(* Deprovision.                                                            *)

StartDeprovision(t, i) == Enter(t, "remove", i, Nil, "isDeprovisioned")

(* 410: no operation at all is known, or a removal has succeeded.          *)
AnswerGone(t) ==
  /\ At(t, "isDeprovisioned")
  /\ HasNoOps(handler[t].inst) \/ IsDeprovisioned(handler[t].inst)
  /\ Answer(t)
  /\ UNCHANGED <<ops, instances, releases, worker, crashes, faults>>

CheckDeprovisioned(t) ==
  /\ At(t, "isDeprovisioned")
  /\ ~HasNoOps(handler[t].inst)
  /\ ~IsDeprovisioned(handler[t].inst)
  /\ Goto(t, "isDeprovisioningInProgress")
  /\ UNCHANGED <<ops, instances, releases, worker, crashes, faults>>

(* 202 with the operation that is running already.                         *)
AnswerDeprovisioning(t) ==
  /\ At(t, "isDeprovisioningInProgress")
  /\ IsDeprovisioningInProgress(handler[t].inst)
  /\ Answer(t)
  /\ UNCHANGED <<ops, instances, releases, worker, crashes, faults>>

CheckDeprovisioning(t) ==
  /\ At(t, "isDeprovisioningInProgress")
  /\ ~IsDeprovisioningInProgress(handler[t].inst)
  /\ TakeID(t, "getInstance")
  /\ UNCHANGED <<ops, instances, releases, worker, crashes, faults>>

(* The ID generator returns an error: 400.                                 *)
RejectDeprovision(t) ==
  /\ At(t, "isDeprovisioningInProgress")
  /\ ~IsDeprovisioningInProgress(handler[t].inst)
  /\ Answer(t)
  /\ UNCHANGED <<ops, instances, releases, worker, crashes, faults>>

(* Mutation: a NotFound error is waited out.                               *)
AwaitStored(t) == FALSE

(* The instance is not stored: a NotFound error, answered 410.             *)
AnswerNotStored(t) ==
  /\ At(t, "getInstance")
  /\ instances[handler[t].inst] = Nil
  /\ Answer(t)
  /\ UNCHANGED <<ops, instances, releases, worker, crashes, faults>>

(* Mutation: the record is not looked at.                                  *)
GetAnyInstance(t) ==
  /\ At(t, "getInstance")
  /\ handler' = [handler EXCEPT ![t].pc = "insert",
                                ![t].req = instances[handler[t].inst]]
  /\ UNCHANGED <<ops, instances, releases, mu, worker, crashes, faults>>

(* The goroutine will work on the copy read here.                          *)
GetInstance(t) ==
  /\ At(t, "getInstance")
  /\ instances[handler[t].inst] # Nil
  /\ handler' = [handler EXCEPT ![t].pc = "insert",
                                ![t].req = instances[handler[t].inst]]
  /\ UNCHANGED <<ops, instances, releases, mu, worker, crashes, faults>>

-----------------------------------------------------------------------------
(* InstanceOperation.Insert of the two drivers.  The ID is a fresh ULID,   *)
(* so the alreadyExists error cannot occur.                                *)

(* activeOperationInProgressError, 400.                                    *)
RejectInsert(t) ==
  /\ At(t, "insert")
  /\ isOperationInProgress(handler[t].inst)
  /\ Answer(t)
  /\ UNCHANGED <<ops, instances, releases, worker, crashes, faults>>

(* The put itself, and what follows it in the handler: the look up of the  *)
(* plan in Provision, the start of the goroutine in Deprovision.           *)
PutOperation(t) ==
  LET h == handler[t] IN
  /\ ops' = [ops EXCEPT ![h.op] =
               [inst |-> h.inst, type |-> h.type, state |-> "in progress"]]
  /\ \/ /\ h.type = "create"
        /\ Goto(t, "findPlan")
        /\ UNCHANGED worker
     \/ /\ h.type = "remove"
        /\ worker' = [worker EXCEPT ![h.op] =
                        [pc |-> "delete", inst |-> h.inst, rec |-> h.req]]
        /\ Answer(t)
  /\ UNCHANGED <<instances, releases, crashes, faults>>

(* memory: the check and the insertion under the lock of the storage.      *)
InsertInMemory(t) ==
  /\ Driver = "memory"
  /\ At(t, "insert")
  /\ ~isOperationInProgress(handler[t].inst)
  /\ PutOperation(t)

(* Mutation: operations of the same type only are looked for.              *)
CheckSameType(t) ==
  /\ Driver = "etcd"
  /\ At(t, "insert")
  /\ ~HasOp(handler[t].inst, handler[t].type, "in progress")
  /\ Goto(t, "put")
  /\ UNCHANGED <<ops, instances, releases, worker, crashes, faults>>

(* etcd: a get of the instance's operations ...                            *)
CheckInEtcd(t) ==
  /\ Driver = "etcd"
  /\ At(t, "insert")
  /\ ~isOperationInProgress(handler[t].inst)
  /\ Goto(t, "put")
  /\ UNCHANGED <<ops, instances, releases, worker, crashes, faults>>

(* ... and, outside any transaction, a put.                                *)
PutInEtcd(t) ==
  /\ At(t, "put")
  /\ PutOperation(t)

-----------------------------------------------------------------------------
(* The goroutine of a provisioning (provisionService.do).                  *)

WorkerAt(id, pc) == worker[id] # Nil /\ worker[id].pc = pc
WorkerGoto(id, pc) == worker' = [worker EXCEPT ![id].pc = pc]
releaseOf(id) == createReleaseName(worker[id].inst, worker[id].rec)

(* Helm refuses a name that is in use, whatever the state of that release. *)
BeginInstall(id) ==
  /\ WorkerAt(id, "install")
  /\ releases[releaseOf(id)] = Nil
  /\ releases' = [releases EXCEPT ![releaseOf(id)] =
                    [status |-> "pending", params |-> worker[id].rec.params]]
  /\ WorkerGoto(id, "installing")
  /\ UNCHANGED <<ops, instances, mu, handler, crashes, faults>>

(* Mutation: the goroutine returns without updating the operation.         *)
AbandonInstall(id) ==
  /\ WorkerAt(id, "install")
  /\ worker' = [worker EXCEPT ![id] = Nil]
  /\ UNCHANGED <<ops, instances, releases, mu, handler, crashes, faults>>

(* The chart is not in the storage, the values cannot be copied, or Helm   *)
(* refuses to install.                                                     *)
RefuseInstall(id) ==
  /\ WorkerAt(id, "install")
  /\ WorkerGoto(id, "fail")
  /\ UNCHANGED <<ops, instances, releases, mu, handler, crashes, faults>>

(* Mutation: the error of Install is overlooked.                           *)
EndInstallUnseen(id, status) ==
  /\ WorkerAt(id, "installing")
  /\ releases' = [releases EXCEPT ![releaseOf(id)] =
                    IF @ = Nil THEN Nil ELSE [@ EXCEPT !.status = status]]
  /\ WorkerGoto(id, "record")
  /\ UNCHANGED <<ops, instances, mu, handler, crashes, faults>>

(* Install waits for the resources, an hour at most.  The release may have *)
(* been uninstalled meanwhile; it does not come back then.                 *)
EndInstall(id, status) ==
  /\ WorkerAt(id, "installing")
  /\ releases' = [releases EXCEPT ![releaseOf(id)] =
                    IF @ = Nil THEN Nil ELSE [@ EXCEPT !.status = status]]
  /\ WorkerGoto(id, IF status = "deployed" THEN "record" ELSE "fail")
  /\ UNCHANGED <<ops, instances, mu, handler, crashes, faults>>

(* Upsert of the instance with the release info.                           *)
RecordRelease(id) ==
  /\ WorkerAt(id, "record")
  /\ instances' = [instances EXCEPT ![worker[id].inst] =
                     [worker[id].rec EXCEPT !.released = TRUE]]
  /\ WorkerGoto(id, "succeed")
  /\ UNCHANGED <<ops, releases, mu, handler, crashes, faults>>

-----------------------------------------------------------------------------
(* The goroutine of a deprovisioning (deprovisionService.do).              *)

(* ErrReleaseNotFound is as good as a deletion.  The bind data, which are  *)
(* removed next, are the business of module Binding; that there are none   *)
(* is no error either.                                                     *)
DeleteRelease(id) ==
  /\ WorkerAt(id, "delete")
  /\ releases' = [releases EXCEPT ![releaseOf(id)] = Nil]
  /\ WorkerGoto(id, "forget")
  /\ UNCHANGED <<ops, instances, mu, handler, crashes, faults>>

(* Mutation: the error of Delete is overlooked.                            *)
RefuseDeleteUnseen(id) ==
  /\ WorkerAt(id, "delete")
  /\ WorkerGoto(id, "forget")
  /\ UNCHANGED <<ops, instances, releases, mu, handler, crashes, faults>>

RefuseDelete(id) ==
  /\ WorkerAt(id, "delete")
  /\ WorkerGoto(id, "fail")
  /\ UNCHANGED <<ops, instances, releases, mu, handler, crashes, faults>>

RemoveInstance(id) ==
  /\ WorkerAt(id, "forget")
  /\ instances' = [instances EXCEPT ![worker[id].inst] = Nil]
  /\ WorkerGoto(id, "succeed")
  /\ UNCHANGED <<ops, releases, mu, handler, crashes, faults>>

(* UpdateStateDesc ends both goroutines.  Nobody else writes the operation *)
(* after its insertion, so the get and the put of the driver are one step. *)
UpdateStateDesc(id) ==
  /\ worker[id] # Nil
  /\ worker[id].pc \in {"succeed", "fail"}
  /\ ops' = [ops EXCEPT ![id].state =
               IF worker[id].pc = "succeed" THEN "succeeded" ELSE "failed"]
  /\ worker' = [worker EXCEPT ![id] = Nil]
  /\ UNCHANGED <<instances, releases, mu, handler, crashes, faults>>

-----------------------------------------------------------------------------
(* Failures.                                                               *)

(* An error of etcd; the calls of the in-memory driver do not fail.        *)
Fault ==
  /\ Driver = "etcd"
  /\ faults < MaxFaults
  /\ faults' = faults + 1

(* A storage call of a handler returns an error that is not NotFound: the  *)
(* handler answers with it.                                                *)
HandlerFails(t) ==
  /\ ~At(t, "idle")
  /\ Fault
  /\ Answer(t)
  /\ UNCHANGED <<ops, instances, releases, worker, crashes>>

(* The error of a put whose effect has reached etcd.                       *)
PutUnacknowledged(t) ==
  LET h == handler[t] IN
  /\ Fault
  /\ \/ /\ At(t, "put")
        /\ ops' = [ops EXCEPT ![h.op] =
                     [inst |-> h.inst, type |-> h.type, state |-> "in progress"]]
        /\ UNCHANGED instances
     \/ /\ \/ At(t, "saveParams")
           \/ At(t, "findPlan") /\ h.req.plan \in Offered
        /\ instances' = [instances EXCEPT ![h.inst] = h.req]
        /\ UNCHANGED ops
  /\ Answer(t)
  /\ UNCHANGED <<releases, worker, crashes>>

(* The Upsert or the Remove of a goroutine returns an error, with or       *)
(* without effect.                                                         *)
WorkerFails(id) ==
  LET w == worker[id] IN
  /\ WorkerAt(id, "record") \/ WorkerAt(id, "forget")
  /\ Fault
  /\ \/ UNCHANGED instances
     \/ instances' = [instances EXCEPT ![w.inst] =
                        IF w.pc = "record" THEN [w.rec EXCEPT !.released = TRUE] ELSE Nil]
  /\ WorkerGoto(id, "fail")
  /\ UNCHANGED <<ops, releases, mu, handler, crashes>>

(* UpdateStateDesc fails: the goroutine logs it and ends.                  *)
UpdateFails(id) ==
  /\ WorkerAt(id, "succeed") \/ WorkerAt(id, "fail")
  /\ Fault
  /\ worker' = [worker EXCEPT ![id] = Nil]
  /\ UNCHANGED <<ops, instances, releases, mu, handler, crashes>>

(* The broker restarts.  Its threads, goroutines and mutexes are gone; the *)
(* in-memory driver has lost everything, etcd and Helm keep what they      *)
(* have.  Nothing is resumed on start.                                     *)
Crash ==
  /\ crashes < MaxCrashes
  /\ crashes' = crashes + 1
  /\ handler' = [t \in Threads |-> Idle]
  /\ mu' = [type \in OpTypes |-> Nil]
  /\ worker' = [id \in OpIDs |-> Nil]
  /\ IF Driver = "memory"
       THEN /\ ops' = [id \in OpIDs |-> Nil]
            /\ instances' = [i \in Instances |-> Nil]
       ELSE UNCHANGED <<ops, instances>>
  /\ UNCHANGED <<releases, faults>>

-----------------------------------------------------------------------------
(* An empty storage, or instances an old version has left behind: their    *)
(* provisioning has succeeded and their parameters are known by hash only. *)
Init ==
  /\ \E op \in [Legacy -> OpIDs],
        rec \in [Legacy -> {r \in Instance : /\ r.params = Hashed
                                             /\ r.released
                                             /\ r.plan \in Offered}] :
       /\ \A i, j \in Legacy : i # j =>
            /\ op[i] # op[j]
            /\ rec[i].svc \in OnlyOnce => <<rec[i].ns, rec[i].svc>> # <<rec[j].ns, rec[j].svc>>
       /\ ops = [id \in OpIDs |->
                   IF \E i \in Legacy : op[i] = id
                     THEN [inst |-> CHOOSE i \in Legacy : op[i] = id,
                           type |-> "create", state |-> "succeeded"]
                     ELSE Nil]
       /\ instances = [i \in Instances |-> IF i \in Legacy THEN rec[i] ELSE Nil]
       /\ releases = [n \in ReleaseName |->
                        IF \E i \in Legacy : n = createReleaseName(i, rec[i])
                          THEN [status |-> "deployed", params |-> Hashed]
                          ELSE Nil]
  /\ mu = [type \in OpTypes |-> Nil]
  /\ handler = [t \in Threads |-> Idle]
  /\ worker = [id \in OpIDs |-> Nil]
  /\ crashes = 0
  /\ faults = 0

ProvisionStep(t) ==
  \/ CheckProvisioned(t)
  \/ AnswerNoInstance(t)
  \/ AnswerProvisioned(t)
  \/ AnswerConflict(t)
  \/ LoadHashedParams(t)
  \/ SaveParams(t)
  \/ AnswerProvisioning(t)
  \/ CheckProvisioning(t)
  \/ CheckAllowed(t)
  \/ RejectProvision(t)
  \/ RejectPlan(t)
  \/ StartInstall(t)

DeprovisionStep(t) ==
  \/ AnswerGone(t)
  \/ CheckDeprovisioned(t)
  \/ AnswerDeprovisioning(t)
  \/ CheckDeprovisioning(t)
  \/ RejectDeprovision(t)
  \/ AnswerNotStored(t)
  \/ GetInstance(t)

InsertStep(t) ==
  \/ RejectInsert(t)
  \/ CheckInEtcd(t)
  \/ InsertInMemory(t)
  \/ PutInEtcd(t)

HandlerStep(t) == ProvisionStep(t) \/ DeprovisionStep(t) \/ InsertStep(t)

WorkerStep(id) ==
  \/ BeginInstall(id)
  \/ RefuseInstall(id)
  \/ \E status \in {"deployed", "failed"} : EndInstall(id, status)
  \/ RecordRelease(id)
  \/ DeleteRelease(id)
  \/ RefuseDelete(id)
  \/ RemoveInstance(id)
  \/ UpdateStateDesc(id)

(* What the platform and the environment do.                               *)
RequestStep(t) ==
  \E i \in Instances :
    \/ \E r \in Request : StartProvision(t, i, r)
    \/ StartDeprovision(t, i)

FailureStep ==
  \/ \E t \in Threads : HandlerFails(t) \/ PutUnacknowledged(t)
  \/ \E id \in OpIDs : WorkerFails(id) \/ UpdateFails(id)

Next ==
  \/ \E t \in Threads : RequestStep(t) \/ HandlerStep(t)
  \/ \E id \in OpIDs : WorkerStep(id)
  \/ FailureStep
  \/ Crash

Spec == Init /\ [][Next]_vars

(* A handler that was started and a goroutine that was started are         *)
(* scheduled until they return.                                            *)
Fairness ==
  /\ \A t \in Threads : WF_vars(HandlerStep(t))
  /\ \A id \in OpIDs : WF_vars(WorkerStep(id))

FairSpec == Spec /\ Fairness

-----------------------------------------------------------------------------
(* Properties.                                                             *)

TypeOK ==
  /\ ops \in [OpIDs -> InstanceOperation \cup {Nil}]
  /\ instances \in [Instances -> Instance \cup {Nil}]
  /\ releases \in [ReleaseName -> Release]
  /\ mu \in [OpTypes -> Threads \cup {Nil}]
  /\ handler \in [Threads -> Handler]
  /\ worker \in [OpIDs -> Worker \cup {Nil}]
  /\ crashes \in 0..MaxCrashes
  /\ faults \in 0..MaxFaults

(* Requests for one instance cannot slip past the check of Insert together. *)
Serialised == Driver = "memory" \/ "overlap" \notin Platform

InProgress(id) == ops[id] # Nil /\ ops[id].state = "in progress"

(* Two provisionings of one instance never run at the same time, nor two   *)
(* deprovisionings, although Insert is not atomic in etcd: the mutex of    *)
(* provisionService (provision.go:50) and that of deprovisionService       *)
(* (deprovision.go:38) cover the check and the put.                        *)
OneOfEachType ==
  \A a, b \in OpIDs :
    /\ InProgress(a) /\ InProgress(b)
    /\ ops[a].inst = ops[b].inst /\ ops[a].type = ops[b].type
    => a = b

(* Insert rejects an operation next to one that is in progress on the same *)
(* instance (activeOperationInProgressError), so a release is never        *)
(* installed and deleted at the same time.                                 *)
OneInProgress ==
  \A a, b \in OpIDs :
    InProgress(a) /\ InProgress(b) /\ ops[a].inst = ops[b].inst => a = b

(* An addon with provisionOnlyOnce has one instance in a namespace, across *)
(* interleaved requests, goroutines that write their instance back and     *)
(* removals (model.go IsProvisioningAllowed, provision.go:106).            *)
ProvisionedOnce ==
  \A i, j \in Instances :
    /\ i # j /\ instances[i] # Nil /\ instances[j] # Nil
    /\ instances[i].svc \in OnlyOnce
    => <<instances[i].ns, instances[i].svc>> # <<instances[j].ns, instances[j].svc>>

(* An operation that last_operation reports as in progress although no     *)
(* goroutine works on it and no handler is about to start one: it stays so *)
(* for good, and Insert refuses every later operation of the instance.     *)
LeftBehind(id) ==
  /\ InProgress(id)
  /\ worker[id] = Nil
  /\ \A t \in Threads : handler[t].op # id

(* The ways to leave an operation behind are a restart, a storage call     *)
(* that fails, and the one early return of Provision after Insert, for a   *)
(* plan the addon does not have (provision.go:134).  Every other path of   *)
(* the handlers and goroutines starts the goroutine or closes the          *)
(* operation, whatever Helm answers.                                       *)
LeftByFailure ==
  [][\A id \in OpIDs : ~LeftBehind(id) /\ LeftBehind(id)' =>
       \/ crashes' > crashes
       \/ faults' > faults
       \/ \E t \in Threads : handler[t].op = id /\ RejectPlan(t)]_vars

(* The record of an instance names every release that was installed for    *)
(* it, as long as that release exists: deprovisioning, which works from    *)
(* the record, reaches it.                                                 *)
ReleaseIsRecorded ==
  \A n \in ReleaseName : releases[n] # Nil =>
    /\ instances[n.inst] # Nil
    /\ createReleaseName(n.inst, instances[n.inst]) = n

(* What IsProvisioned reports is true: unless a removal was asked for, the *)
(* instance is recorded with its release info, its release is deployed,    *)
(* and with the parameters of the record.                                  *)
ProvisionedIsDeployed ==
  \A i \in Instances :
    /\ IsProvisioned(i)
    /\ \A state \in OpStates : ~HasOp(i, "remove", state)
    => /\ instances[i] # Nil
       /\ instances[i].released
       /\ releases[createReleaseName(i, instances[i])] =
            [status |-> "deployed", params |-> instances[i].params]

(* Deprovision answers 410 Gone, on both of the ways to that answer, only  *)
(* when nothing is left of the instance (deprovision.go:43 and 68).        *)
GoneIsGone ==
  [][\A t \in Threads : AnswerGone(t) \/ AnswerNotStored(t) =>
       LET i == handler[t].inst IN
       /\ instances[i] = Nil
       /\ \A n \in ReleaseName : n.inst = i => releases[n] = Nil]_vars

(* A handler of Provision that is past both of its reads (provision.go:60  *)
(* and 73).                                                                *)
PastReads(t) ==
  \/ handler[t].pc \in {"getAddon", "findPlan"}
  \/ handler[t].pc \in {"insert", "put"} /\ handler[t].type = "create"

(* From its second read on (provision.go:73) nobody makes the instance of  *)
(* a handler provisioned under it: a goroutine that could have was seen by *)
(* that read, and the mutex keeps others from starting one.  The window in *)
(* which a provisioning can end unnoticed is that between the two reads.   *)
NotProvisionedMeanwhile ==
  [][\A t \in Threads, i \in Instances :
       PastReads(t) /\ handler[t].inst = i /\ ~IsProvisioned(i) => ~IsProvisioned(i)']_vars

(* Every operation that is started ends.                                   *)
OperationsEnd == \A id \in OpIDs : InProgress(id) ~> ~InProgress(id)

(* Every request is answered.                                              *)
RequestsEnd == \A t \in Threads : ~At(t, "idle") ~> At(t, "idle")

-----------------------------------------------------------------------------
(* The inductive invariant behind OneOfEachType and OneInProgress.         *)

CreatePCs == {"isProvisioned", "compareParams", "saveParams",
              "isProvisioningInProgress", "getAddon", "findPlan"}
RemovePCs == {"isDeprovisioned", "isDeprovisioningInProgress", "getInstance"}
InsertPCs == {"insert", "put"}

(* A handler that serves a request holds the mutex of its service; what it *)
(* has of the instance is a record once it comes to write one.             *)
HandlerHoldsMutex ==
  \A t \in Threads :
    \/ handler[t] = Idle
    \/ /\ handler[t].inst \in Instances
       /\ handler[t].type \in OpTypes
       /\ handler[t].pc # "idle"
       /\ mu[handler[t].type] = t
       /\ handler[t].pc \in CreatePCs => handler[t].type = "create"
       /\ handler[t].pc \in RemovePCs => handler[t].type = "remove"
       /\ handler[t].pc \in CreatePCs \cup InsertPCs => handler[t].req \in Instance

(* The operation ID of a handler is not stored up to the put, and stored   *)
(* as a running provisioning from there until the goroutine is started.    *)
HandlerOwnsID ==
  \A t \in Threads :
    /\ handler[t].pc \in {"getInstance"} \cup InsertPCs =>
         handler[t].op \in OpIDs /\ ops[handler[t].op] = Nil
    /\ handler[t].pc = "findPlan" =>
         /\ handler[t].op \in OpIDs
         /\ InProgress(handler[t].op)
         /\ ops[handler[t].op].inst = handler[t].inst
         /\ worker[handler[t].op] = Nil
    /\ handler[t].op # Nil => handler[t].pc \in {"getInstance", "findPlan"} \cup InsertPCs

(* No two handlers have the same operation ID.                             *)
OneOwner ==
  \A t, u \in Threads : t # u /\ handler[t].op = handler[u].op => handler[t].op = Nil

(* A goroutine works on an operation that is in progress.                  *)
WorkerRunsOperation ==
  \A id \in OpIDs : worker[id] # Nil =>
    /\ InProgress(id)
    /\ ops[id].inst = worker[id].inst

(* What Insert has checked still holds when it puts the operation.         *)
CheckStillHolds ==
  \A t \in Threads : handler[t].pc = "put" =>
    /\ Driver = "etcd"
    /\ ~HasOp(handler[t].inst, handler[t].type, "in progress")
    /\ Serialised => ~isOperationInProgress(handler[t].inst)

OneRequestPerInstance ==
  "overlap" \notin Platform =>
    \A t, u \in Threads : handler[t].inst = handler[u].inst /\ t # u => handler[t].inst = Nil

IInv ==
  /\ TypeOK
  /\ HandlerHoldsMutex
  /\ HandlerOwnsID
  /\ OneOwner
  /\ WorkerRunsOperation
  /\ CheckStillHolds
  /\ OneRequestPerInstance
  /\ OneOfEachType
  /\ Serialised => OneInProgress

-----------------------------------------------------------------------------
(* What the platform sees through last_operation is an OperationLog.       *)
Log == INSTANCE OperationLog WITH log <- ops, NoOp <- Nil,
         Exclusive <- Serialised, Volatile <- (Driver = "memory")
LogSpec == Log!LogSpec
=============================================================================
