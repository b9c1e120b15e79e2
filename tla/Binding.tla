------------------------------ MODULE Binding ------------------------------
(***************************************************************************)
(* Service bindings (internal/broker/bind.go, operation_state.go, the bind *)
(* operation and bind data storages) next to the removal of the instances  *)
(* they belong to (deprovisionService.do).                                 *)
(*                                                                         *)
(* Bind runs in a handler thread under the mutex of bindService and leaves *)
(* the rendering of the credentials to a goroutine.  The goroutine stores  *)
(* them in memory under the ID of the instance, whatever the binding; who  *)
(* reads them, Bind or GetBindData, removes them.  GetBindData takes no    *)
(* mutex.  Unbind answers 410 and changes nothing, and last_operation only *)
(* reads: neither is an action.                                            *)
(***************************************************************************)
EXTENDS Naturals, FiniteSets

CONSTANTS
  Threads,     \* HTTP handler threads
  Instances,   \* service instance IDs
  Bindings,    \* binding IDs
  OpIDs,       \* bind operation IDs (ULIDs); bounds the number of operations
  Routines,    \* goroutines; bounds how many run at a time
  Plans,       \* plan IDs a request may carry
  Offered,     \* the plan IDs the addons contain
  Bindable,    \* the plans for which isBindable holds
  Driver,      \* driver of the operation storage, "etcd" or "memory"
  Platform,    \* what the platform does beyond one request at a time
  MaxLives,    \* bound on how often instances are provisioned
  MaxCrashes,  \* bound on restarts of the broker
  MaxFaults,   \* bound on storage calls that return an error
  Nil          \* nothing

(* The habits of a platform: it may send a request about an instance while *)
(* another one is served or a goroutine works for it ("overlap"), bind a   *)
(* binding ID that is bound already ("rebind"), bind an instance that does *)
(* not exist ("stray"), and deprovision an instance whatever is going on   *)
(* with its bindings ("hasty").                                            *)
Habits == {"overlap", "rebind", "stray", "hasty"}

ASSUME ConstantsAssumption ==
  /\ Offered \subseteq Plans
  /\ Bindable \subseteq Offered
  /\ Driver \in {"etcd", "memory"}
  /\ Platform \subseteq Habits
  /\ MaxLives \in Nat /\ MaxCrashes \in Nat /\ MaxFaults \in Nat

VARIABLES
  bindOps,     \* bindOps[id]: the stored bind operation, or Nil
  bindData,    \* bindData[i]: the credentials held for instance i, or Nil
  instances,   \* instances[i]: the stored instance, or Nil
  removing,    \* removing[i]: progress of the deprovisioning of instance i
  mu,          \* the thread holding the mutex of bindService, or Nil
  handler,     \* handler[t]: progress of the request thread t serves
  routine,     \* routine[g]: progress of goroutine g, or Nil
  lives,       \* instances provisioned so far
  crashes,     \* restarts so far
  faults       \* failed storage calls so far

vars == <<bindOps, bindData, instances, removing, mu, handler, routine,
          lives, crashes, faults>>
envVars == <<instances, removing, lives, crashes>>

-----------------------------------------------------------------------------
(* Data.  An instance is told from the one provisioned earlier under its   *)
(* ID by the number of its life; credentials are those of a life.          *)

Lives == 1..MaxLives
OpStates == {"in progress", "succeeded", "failed"}
BindOperation == [inst : Instances, bind : Bindings, state : OpStates]

HandlerPCs == {"idle", "isBindingInProgress", "isBound", "inputAgain", "getData",
               "insert", "put", "input", "fetch", "fetchData", "removeData"}
Handler == [pc : HandlerPCs, inst : Instances \cup {Nil}, bind : Bindings \cup {Nil},
            plan : Plans \cup {Nil}, op : OpIDs \cup {Nil}, creds : Lives \cup {Nil}]
Idle == [pc |-> "idle", inst |-> Nil, bind |-> Nil, plan |-> Nil, op |-> Nil, creds |-> Nil]

Routine == [pc : {"render", "succeed", "fail"}, op : OpIDs, inst : Instances,
            plan : Plans, life : Lives]

ASSUME NilAssumption ==
  /\ Nil \notin Threads
  /\ Nil \notin Instances
  /\ Nil \notin OpIDs
  /\ Nil \notin Lives
  /\ Nil \notin BindOperation
  /\ Nil \notin Routine
  /\ Nil \notin {"bindData", "instance"}

-----------------------------------------------------------------------------
(* The reads of the bind operation storage.                                *)

OpsOf(i, b, state) ==
  {id \in OpIDs : bindOps[id] = [inst |-> i, bind |-> b, state |-> state]}

IsBindingInProgress(i, b) == OpsOf(i, b, "in progress") # {}
IsBound(i, b) == OpsOf(i, b, "succeeded") # {}

(* Mutation: no check.                                                     *)
nothingInProgress(i, b) == FALSE

(* The check of Insert: etcd looks at the operations of the binding, the   *)
(* in-memory driver at all operations of the instance.                     *)
isOperationInProgress(i, b) ==
  \E other \in Bindings :
    /\ Driver = "etcd" => other = b
    /\ IsBindingInProgress(i, other)

(* Mutation: the instance is not looked up.                                *)
HasPlan(t) == handler[t].plan \in Offered

(* prepareBindInput: the instance, the addon and its plan.                 *)
HasInput(t) == instances[handler[t].inst] # Nil /\ handler[t].plan \in Offered

-----------------------------------------------------------------------------
(* Moves of a handler and start of a goroutine.                            *)

At(t, pc) == handler[t].pc = pc
Goto(t, pc) == handler' = [handler EXCEPT ![t].pc = pc] /\ UNCHANGED mu

(* Return; the deferred Unlock runs where there is one.                    *)
Answer(t) ==
  /\ handler' = [handler EXCEPT ![t] = Idle]
  /\ mu' = IF mu = t THEN Nil ELSE mu

doAsync(t) ==
  LET h == handler[t] IN
  \E g \in Routines :
    /\ routine[g] = Nil
    /\ routine' = [routine EXCEPT ![g] = [pc |-> "render", op |-> h.op, inst |-> h.inst,
                                          plan |-> h.plan, life |-> instances[h.inst]]]

(* Somebody works for a binding of i.                                      *)
Busy(i) ==
  \/ \E t \in Threads : handler[t].inst = i
  \/ \E g \in Routines : routine[g] # Nil /\ routine[g].inst = i

PlatformAsks(i) ==
  /\ "overlap" \in Platform \/ ~Busy(i)
  /\ "hasty" \in Platform \/ removing[i] = Nil

-----------------------------------------------------------------------------
(* Bind.                                                                   *)

(* Mutation: no mutex.                                                     *)
StartBindUnlocked(t, i, b, p) ==
  /\ At(t, "idle")
  /\ handler' = [handler EXCEPT ![t] = [pc |-> "isBindingInProgress", inst |-> i, bind |-> b,
                                        plan |-> p, op |-> Nil, creds |-> Nil]]
  /\ PlatformAsks(i)
  /\ "rebind" \in Platform \/ ~IsBound(i, b)
  /\ "stray" \in Platform \/ (instances[i] # Nil /\ p \in Offered)
  /\ UNCHANGED <<bindOps, bindData, mu, routine, faults, envVars>>

StartBind(t, i, b, p) ==
  /\ At(t, "idle")
  /\ mu = Nil
  /\ mu' = t
  /\ handler' = [handler EXCEPT ![t] = [pc |-> "isBindingInProgress", inst |-> i, bind |-> b,
                                        plan |-> p, op |-> Nil, creds |-> Nil]]
  /\ PlatformAsks(i)
  /\ "rebind" \in Platform \/ ~IsBound(i, b)
  /\ "stray" \in Platform \/ (instances[i] # Nil /\ p \in Offered)
  /\ UNCHANGED <<bindOps, bindData, routine, faults, envVars>>

(* 202 with the operation that is running already.                         *)
AnswerBinding(t) ==
  /\ At(t, "isBindingInProgress")
  /\ IsBindingInProgress(handler[t].inst, handler[t].bind)
  /\ Answer(t)
  /\ UNCHANGED <<bindOps, bindData, routine, faults, envVars>>

CheckBinding(t) ==
  /\ At(t, "isBindingInProgress")
  /\ ~IsBindingInProgress(handler[t].inst, handler[t].bind)
  /\ Goto(t, "isBound")
  /\ UNCHANGED <<bindOps, bindData, routine, faults, envVars>>

(* Bound: IsBound returns one of the succeeded operations of the binding.  *)
CheckBound(t) ==
  /\ At(t, "isBound")
  /\ \E id \in OpsOf(handler[t].inst, handler[t].bind, "succeeded") :
       handler' = [handler EXCEPT ![t].pc = "inputAgain", ![t].op = id]
  /\ UNCHANGED <<bindOps, bindData, mu, routine, faults, envVars>>

(* The bound binding is rendered again, under the operation it was bound   *)
(* by, in a goroutine ...                                                  *)
StartAgain(t) ==
  /\ At(t, "inputAgain")
  /\ HasInput(t)
  /\ doAsync(t)
  /\ Goto(t, "getData")
  /\ UNCHANGED <<bindOps, bindData, faults, envVars>>

(* 400: the instance, the addon or the plan is missing.                    *)
RejectAgain(t) ==
  /\ At(t, "inputAgain")
  /\ ~HasInput(t)
  /\ Answer(t)
  /\ UNCHANGED <<bindOps, bindData, routine, faults, envVars>>

(* ... while Bind answers with what the bind data storage holds just now,  *)
(* here and in GetBindData.                                                *)
GetData(t) ==
  /\ At(t, "getData") \/ At(t, "fetchData")
  /\ bindData[handler[t].inst] # Nil
  /\ handler' = [handler EXCEPT ![t].pc = "removeData",
                                ![t].creds = bindData[handler[t].inst]]
  /\ UNCHANGED <<bindOps, bindData, mu, routine, faults, envVars>>

(* Mutation: data that are missing are waited for.                         *)
AwaitData(t) == FALSE

(* 400 from Bind, 404 from GetBindData.                                    *)
AnswerNoData(t) ==
  /\ At(t, "getData") \/ At(t, "fetchData")
  /\ bindData[handler[t].inst] = Nil
  /\ Answer(t)
  /\ UNCHANGED <<bindOps, bindData, routine, faults, envVars>>

(* The data are removed, 200 with the credentials.  That they are gone     *)
(* already is only logged.                                                 *)
AnswerCredentials(t) ==
  /\ At(t, "removeData")
  /\ bindData' = [bindData EXCEPT ![handler[t].inst] = Nil]
  /\ Answer(t)
  /\ UNCHANGED <<bindOps, routine, faults, envVars>>

(* Not bound: a new operation.  An error of the ID generator, here running *)
(* out of OpIDs, is answered 500.                                          *)
PrepareBindOperation(t) ==
  /\ At(t, "isBound")
  /\ ~IsBound(handler[t].inst, handler[t].bind)
  /\ \E id \in OpIDs :
       /\ bindOps[id] = Nil
       /\ handler' = [handler EXCEPT ![t].pc = "insert", ![t].op = id]
  /\ UNCHANGED <<bindOps, bindData, mu, routine, faults, envVars>>

RejectBind(t) ==
  /\ At(t, "isBound")
  /\ ~IsBound(handler[t].inst, handler[t].bind)
  /\ Answer(t)
  /\ UNCHANGED <<bindOps, bindData, routine, faults, envVars>>

(* activeOperationInProgressError, 500.                                    *)
RejectInsert(t) ==
  /\ At(t, "insert")
  /\ isOperationInProgress(handler[t].inst, handler[t].bind)
  /\ Answer(t)
  /\ UNCHANGED <<bindOps, bindData, routine, faults, envVars>>

putOperation(t) ==
  bindOps' = [bindOps EXCEPT ![handler[t].op] =
                [inst |-> handler[t].inst, bind |-> handler[t].bind, state |-> "in progress"]]

(* memory: the check and the insertion under the lock of the storage.      *)
InsertInMemory(t) ==
  /\ Driver = "memory"
  /\ At(t, "insert")
  /\ ~isOperationInProgress(handler[t].inst, handler[t].bind)
  /\ putOperation(t)
  /\ Goto(t, "input")
  /\ UNCHANGED <<bindData, routine, faults, envVars>>

(* etcd: a get of the operations of the binding ...                        *)
CheckInEtcd(t) ==
  /\ Driver = "etcd"
  /\ At(t, "insert")
  /\ ~isOperationInProgress(handler[t].inst, handler[t].bind)
  /\ Goto(t, "put")
  /\ UNCHANGED <<bindOps, bindData, routine, faults, envVars>>

(* ... and, outside any transaction, a put.                                *)
PutInEtcd(t) ==
  /\ At(t, "put")
  /\ putOperation(t)
  /\ Goto(t, "input")
  /\ UNCHANGED <<bindData, routine, faults, envVars>>

(* The goroutine starts, 202.                                              *)
StartBinding(t) ==
  /\ At(t, "input")
  /\ HasInput(t)
  /\ doAsync(t)
  /\ Answer(t)
  /\ UNCHANGED <<bindOps, bindData, faults, envVars>>

(* 400: the instance, the addon or the plan is missing; the operation,     *)
(* inserted before they were looked up, keeps its state.                   *)
RejectInput(t) ==
  /\ At(t, "input")
  /\ ~HasInput(t)
  /\ Answer(t)
  /\ UNCHANGED <<bindOps, bindData, routine, faults, envVars>>

-----------------------------------------------------------------------------
(* GetBindData.                                                            *)

StartFetch(t, i, b) ==
  /\ At(t, "idle")
  /\ handler' = [handler EXCEPT ![t] = [pc |-> "fetch", inst |-> i, bind |-> b,
                                        plan |-> Nil, op |-> Nil, creds |-> Nil]]
  /\ PlatformAsks(i)
  /\ UNCHANGED <<bindOps, bindData, mu, routine, faults, envVars>>

(* 404 while the binding is in progress.                                   *)
AnswerFetchLater(t) ==
  /\ At(t, "fetch")
  /\ IsBindingInProgress(handler[t].inst, handler[t].bind)
  /\ Answer(t)
  /\ UNCHANGED <<bindOps, bindData, routine, faults, envVars>>

CheckFetch(t) ==
  /\ At(t, "fetch")
  /\ ~IsBindingInProgress(handler[t].inst, handler[t].bind)
  /\ Goto(t, "fetchData")
  /\ UNCHANGED <<bindOps, bindData, routine, faults, envVars>>

-----------------------------------------------------------------------------
(* The goroutine (bindService.do).                                         *)

RoutineAt(g, pc) == routine[g] # Nil /\ routine[g].pc = pc
RoutineGoto(g, pc) == routine' = [routine EXCEPT ![g].pc = pc]

(* A plan that is not bindable has nothing to render.                      *)
SkipRendering(g) ==
  /\ RoutineAt(g, "render")
  /\ routine[g].plan \notin Bindable
  /\ RoutineGoto(g, "succeed")
  /\ UNCHANGED <<bindOps, bindData, mu, handler, faults, envVars>>

(* Render, Resolve and the insertion of the result into the bind data.     *)
renderAndResolveBindData(g) ==
  LET r == routine[g] IN
  /\ RoutineAt(g, "render")
  /\ r.plan \in Bindable
  /\ bindData[r.inst] = Nil
  /\ bindData' = [bindData EXCEPT ![r.inst] = r.life]
  /\ RoutineGoto(g, "succeed")
  /\ UNCHANGED <<bindOps, mu, handler, faults, envVars>>

(* Mutation: the goroutine returns without updating the operation.         *)
AbandonRendering(g) ==
  /\ RoutineAt(g, "render")
  /\ routine[g].plan \in Bindable
  /\ routine' = [routine EXCEPT ![g] = Nil]
  /\ UNCHANGED <<bindOps, bindData, mu, handler, faults, envVars>>

(* The chart is missing, a value cannot be resolved, or data of the        *)
(* instance are stored already (alreadyExistsError).                       *)
FailRendering(g) ==
  /\ RoutineAt(g, "render")
  /\ routine[g].plan \in Bindable
  /\ RoutineGoto(g, "fail")
  /\ UNCHANGED <<bindOps, bindData, mu, handler, faults, envVars>>

UpdateStateDesc(g) ==
  /\ RoutineAt(g, "succeed") \/ RoutineAt(g, "fail")
  /\ bindOps' = [bindOps EXCEPT ![routine[g].op].state =
                   IF routine[g].pc = "succeed" THEN "succeeded" ELSE "failed"]
  /\ routine' = [routine EXCEPT ![g] = Nil]
  /\ UNCHANGED <<bindData, mu, handler, faults, envVars>>

-----------------------------------------------------------------------------
(* The life of the instances: provisioned, and removed by the goroutine of *)
(* deprovisionService, which removes the bind data before the instance.    *)

ProvisionInstance(i) ==
  /\ instances[i] = Nil
  /\ removing[i] = Nil
  /\ lives < MaxLives
  /\ lives' = lives + 1
  /\ instances' = [instances EXCEPT ![i] = lives + 1]
  /\ UNCHANGED <<bindOps, bindData, removing, mu, handler, routine, crashes, faults>>

StartRemoval(i) ==
  /\ instances[i] # Nil
  /\ removing[i] = Nil
  /\ "hasty" \in Platform \/ ~Busy(i)
  /\ removing' = [removing EXCEPT ![i] = "bindData"]
  /\ UNCHANGED <<bindOps, bindData, instances, mu, handler, routine, lives, crashes, faults>>

(* Mutation: the bind data are left behind.                                *)
KeepBindData(i) ==
  /\ removing[i] = "bindData"
  /\ removing' = [removing EXCEPT ![i] = "instance"]
  /\ UNCHANGED <<bindOps, bindData, instances, mu, handler, routine, lives, crashes, faults>>

RemoveBindData(i) ==
  /\ removing[i] = "bindData"
  /\ bindData' = [bindData EXCEPT ![i] = Nil]
  /\ removing' = [removing EXCEPT ![i] = "instance"]
  /\ UNCHANGED <<bindOps, instances, mu, handler, routine, lives, crashes, faults>>

RemoveInstance(i) ==
  /\ removing[i] = "instance"
  /\ instances' = [instances EXCEPT ![i] = Nil]
  /\ removing' = [removing EXCEPT ![i] = Nil]
  /\ UNCHANGED <<bindOps, bindData, mu, handler, routine, lives, crashes, faults>>

-----------------------------------------------------------------------------
(* Failures.                                                               *)

(* An error of etcd; the calls of the in-memory storages do not fail.      *)
Fault ==
  /\ Driver = "etcd"
  /\ faults < MaxFaults
  /\ faults' = faults + 1

(* A handler answers with the error of a call to etcd; a put may have had  *)
(* its effect all the same.                                                *)
HandlerFails(t) ==
  /\ handler[t].pc \notin {"idle", "getData", "fetchData", "removeData"}
  /\ Fault
  /\ UNCHANGED bindOps \/ (At(t, "put") /\ putOperation(t))
  /\ Answer(t)
  /\ UNCHANGED <<bindData, routine, envVars>>

(* UpdateStateDesc fails: the goroutine logs it and ends.                  *)
UpdateFails(g) ==
  /\ RoutineAt(g, "succeed") \/ RoutineAt(g, "fail")
  /\ Fault
  /\ routine' = [routine EXCEPT ![g] = Nil]
  /\ UNCHANGED <<bindOps, bindData, mu, handler, envVars>>

(* The broker restarts: bind data are in memory whatever the driver.       *)
Crash ==
  /\ crashes < MaxCrashes
  /\ crashes' = crashes + 1
  /\ mu' = Nil
  /\ handler' = [t \in Threads |-> Idle]
  /\ routine' = [g \in Routines |-> Nil]
  /\ bindData' = [i \in Instances |-> Nil]
  /\ removing' = [i \in Instances |-> Nil]
  /\ IF Driver = "memory"
       THEN /\ bindOps' = [id \in OpIDs |-> Nil]
            /\ instances' = [i \in Instances |-> Nil]
       ELSE UNCHANGED <<bindOps, instances>>
  /\ UNCHANGED <<lives, faults>>

-----------------------------------------------------------------------------
Init ==
  /\ bindOps = [id \in OpIDs |-> Nil]
  /\ bindData = [i \in Instances |-> Nil]
  /\ instances = [i \in Instances |-> Nil]
  /\ removing = [i \in Instances |-> Nil]
  /\ mu = Nil
  /\ handler = [t \in Threads |-> Idle]
  /\ routine = [g \in Routines |-> Nil]
  /\ lives = 0
  /\ crashes = 0
  /\ faults = 0

HandlerStep(t) ==
  \/ AnswerBinding(t) \/ CheckBinding(t) \/ CheckBound(t)
  \/ StartAgain(t) \/ RejectAgain(t)
  \/ GetData(t) \/ AnswerNoData(t) \/ AnswerCredentials(t)
  \/ PrepareBindOperation(t) \/ RejectBind(t)
  \/ RejectInsert(t) \/ InsertInMemory(t) \/ CheckInEtcd(t) \/ PutInEtcd(t)
  \/ StartBinding(t) \/ RejectInput(t)
  \/ AnswerFetchLater(t) \/ CheckFetch(t)

RoutineStep(g) ==
  \/ SkipRendering(g) \/ renderAndResolveBindData(g) \/ FailRendering(g)
  \/ UpdateStateDesc(g)

RequestStep(t) ==
  \E i \in Instances, b \in Bindings :
    \/ \E p \in Plans : StartBind(t, i, b, p)
    \/ StartFetch(t, i, b)

InstanceStep(i) ==
  \/ ProvisionInstance(i) \/ StartRemoval(i)
  \/ RemoveBindData(i) \/ RemoveInstance(i)

Next ==
  \/ \E t \in Threads : RequestStep(t) \/ HandlerStep(t) \/ HandlerFails(t)
  \/ \E g \in Routines : RoutineStep(g) \/ UpdateFails(g)
  \/ \E i \in Instances : InstanceStep(i)
  \/ Crash

Spec == Init /\ [][Next]_vars

(* Handlers and goroutines that were started are scheduled until they end. *)
Fairness ==
  /\ \A t \in Threads : WF_vars(HandlerStep(t))
  /\ \A g \in Routines : WF_vars(RoutineStep(g))

FairSpec == Spec /\ Fairness

-----------------------------------------------------------------------------
(* Properties.                                                             *)

BindingTypeOK ==
  /\ bindOps \in [OpIDs -> BindOperation \cup {Nil}]
  /\ bindData \in [Instances -> Lives \cup {Nil}]
  /\ instances \in [Instances -> Lives \cup {Nil}]
  /\ removing \in [Instances -> {"bindData", "instance", Nil}]
  /\ mu \in Threads \cup {Nil}
  /\ handler \in [Threads -> Handler]
  /\ routine \in [Routines -> Routine \cup {Nil}]
  /\ lives \in 0..MaxLives
  /\ crashes \in 0..MaxCrashes
  /\ faults \in 0..MaxFaults

InProgress(id) == bindOps[id] # Nil /\ bindOps[id].state = "in progress"

(* A binding is created once at a time: the mutex of bindService           *)
(* (bind.go:45) covers IsBindingInProgress, the check and the put of       *)
(* Insert, although no two of them are atomic.                             *)
OneBindingInProgress ==
  \A a, b \in OpIDs :
    /\ InProgress(a) /\ InProgress(b)
    /\ bindOps[a].inst = bindOps[b].inst
    /\ Driver = "memory" \/ bindOps[a].bind = bindOps[b].bind
    => a = b

(* A bind operation that last_operation reports as in progress although    *)
(* no goroutine works on it and no handler is about to start one: Bind     *)
(* answers 202 for that binding from then on.                              *)
LeftBehind(id) ==
  /\ InProgress(id)
  /\ \A g \in Routines : routine[g] # Nil => routine[g].op # id
  /\ \A t \in Threads : At(t, "input") => handler[t].op # id

(* The ways to leave a bind operation behind are a restart, a call to etcd *)
(* that fails, and the return of Bind after Insert for an instance, an     *)
(* addon or a plan that is missing (bind.go:105).  All other paths start   *)
(* the goroutine or close the operation.                                   *)
BindingLeftByFailure ==
  [][\A id \in OpIDs : ~LeftBehind(id) /\ LeftBehind(id)' =>
       \/ crashes' > crashes
       \/ faults' > faults
       \/ \E t \in Threads : handler[t].op = id /\ RejectInput(t)]_vars

(* The data kept for an instance outlive neither a removal nor a restart.  *)
DataOfInstance ==
  \A i \in Instances : bindData[i] # Nil => bindData[i] = instances[i]

(* Every binding that is started ends.                                     *)
BindingsEnd == \A id \in OpIDs : InProgress(id) ~> ~InProgress(id)

(* Every request is answered.                                              *)
BindRequestsEnd == \A t \in Threads : ~At(t, "idle") ~> At(t, "idle")
=============================================================================
