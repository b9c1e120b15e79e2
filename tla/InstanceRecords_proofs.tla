----------------------- MODULE InstanceRecords_proofs -----------------------
(***************************************************************************)
(* Proofs about the records and releases of InstanceLifecycle: one         *)
(* instance of a provisionOnlyOnce addon in a namespace, releases that     *)
(* their records name, provisioned instances that are deployed, no second  *)
(* provisioning, and a 410 Gone that is true.  IInv of                     *)
(* InstanceLifecycle_proofs says who runs; what is proved here needs to    *)
(* know what the data are, so each property has an inductive invariant of  *)
(* its own on top of IInv and KindsInv.                                    *)
(*                                                                         *)
(* The actions are sorted into the few kinds of change that matter to the  *)
(* data first (Step); all further proofs are by these kinds.               *)
(***************************************************************************)
EXTENDS InstanceLifecycle_proofs

Installing == {"install", "installing", "record"}
Removing == {"delete", "forget"}

(* What a handler and a goroutine of a provisioning carry is the record of *)
(* a request, whose parameters are no hash; the goroutines of one kind     *)
(* belong to operations of that kind.                                      *)
KindsInv ==
  /\ \A t \in Threads :
       /\ handler[t].type = "create" => handler[t].req.params # Hashed
       /\ handler[t].pc = "findPlan" => ops[handler[t].op].type = "create"
  /\ \A id \in OpIDs : worker[id] # Nil =>
       /\ worker[id].pc \in Installing =>
            ops[id].type = "create" /\ worker[id].rec.params # Hashed
       /\ worker[id].pc \in Removing => ops[id].type = "remove"

-----------------------------------------------------------------------------
(* provisionOnlyOnce.                                                      *)

Checking == {"isProvisioned", "compareParams", "saveParams"}

HashedRecord(i) == instances[i] # Nil /\ instances[i].params = Hashed

(* An instance whose record has a hash is provisioned; only the handler    *)
(* that will replace the hash has something to do with it.                 *)
HashedIsProvisioned ==
  \A i \in Instances : HashedRecord(i) =>
    /\ HasOp(i, "create", "succeeded")
    /\ ~HasOp(i, "create", "in progress")
    /\ ~HasOp(i, "remove", "succeeded")

HashedIsChecked ==
  \A t \in Threads : handler[t].type = "create" /\ HashedRecord(handler[t].inst) =>
    handler[t].pc \in Checking

HashedIsNotDone ==
  \A id \in OpIDs : worker[id] # Nil /\ worker[id].pc = "succeed" =>
    ~HashedRecord(worker[id].inst)

SavedIsQuiet ==
  \A t \in Threads : handler[t].pc = "saveParams" =>
    ~HasOp(handler[t].inst, "create", "in progress")

HashInv == HashedIsProvisioned /\ HashedIsChecked /\ HashedIsNotDone /\ SavedIsQuiet

Differ(r, s) == r.svc \in OnlyOnce => <<r.ns, r.svc>> # <<s.ns, s.svc>>

(* A handler that has seen that its instance is the only one, or that      *)
(* writes the record of an instance that is.                               *)
Cleared(t) ==
  \/ handler[t].pc \in {"saveParams", "findPlan"}
  \/ handler[t].pc \in InsertPCs /\ handler[t].type = "create"

(* The record a goroutine will write back is there, for the same service   *)
(* and namespace.                                                          *)
RecordStands ==
  \A id \in OpIDs : worker[id] # Nil /\ worker[id].pc \in Installing =>
    /\ instances[worker[id].inst] # Nil
    /\ instances[worker[id].inst].ns = worker[id].rec.ns
    /\ instances[worker[id].inst].svc = worker[id].rec.svc

(* What IsProvisioningAllowed has found is still true when the record is   *)
(* written.                                                                *)
StillAllowed ==
  \A t \in Threads : Cleared(t) =>
    \A j \in Instances : j # handler[t].inst /\ instances[j] # Nil =>
      Differ(handler[t].req, instances[j])

OnceInv == RecordStands /\ StillAllowed /\ ProvisionedOnce

-----------------------------------------------------------------------------
(* Releases and the records that name them.                                *)

(* What is stored survives a restart, or there is none.                    *)
Durable == Driver = "etcd" \/ MaxCrashes = 0

(* All requests to provision an instance ask for the service, the plan and *)
(* the namespace that asks[i] names, as far as the addon has the plan.     *)
AsAsked(asks) ==
  \A t \in Threads : handler[t].type = "create" /\ handler[t].req.plan \in Offered =>
    createReleaseName(handler[t].inst, handler[t].req) = asks[handler[t].inst]

KeptAsAsked(asks) ==
  \A i \in Instances : instances[i] # Nil => createReleaseName(i, instances[i]) = asks[i]

HeldAsAsked(asks) ==
  \A t \in Threads :
    \/ handler[t].pc = "saveParams"
    \/ handler[t].pc \in InsertPCs /\ handler[t].type = "remove"
    => createReleaseName(handler[t].inst, handler[t].req) = asks[handler[t].inst]

ReleasesNamed(asks) ==
  \A n \in ReleaseName : releases[n] # Nil => n = asks[n.inst] /\ instances[n.inst] # Nil

WorkersAsAsked(asks) ==
  \A id \in OpIDs : worker[id] # Nil =>
    /\ createReleaseName(worker[id].inst, worker[id].rec) = asks[worker[id].inst]
    /\ worker[id].pc \in Installing => instances[worker[id].inst] # Nil
    /\ worker[id].pc = "forget" => releases[asks[worker[id].inst]] = Nil

ReleaseInv(asks) ==
  KeptAsAsked(asks) /\ HeldAsAsked(asks) /\ ReleasesNamed(asks) /\ WorkersAsAsked(asks)

-----------------------------------------------------------------------------
(* Provisioning once only.                                                 *)

(* A handler that has found its instance not to be provisioned.            *)
Unprovisioned(t) ==
  \/ handler[t].pc \in {"isProvisioningInProgress", "getAddon"}
  \/ handler[t].pc \in InsertPCs /\ handler[t].type = "create"

NothingOpen ==
  \A t \in Threads : handler[t].type = "create" /\ handler[t].pc # "findPlan" =>
    ~HasOp(handler[t].inst, "create", "in progress")

StillUnprovisioned == \A t \in Threads : Unprovisioned(t) => ~IsProvisioned(handler[t].inst)

OpenIsFirst == \A i \in Instances : HasOp(i, "create", "in progress") => ~IsProvisioned(i)

AgainInv == NothingOpen /\ StillUnprovisioned /\ OpenIsFirst

(* What a handler has read last, that nothing is being provisioned, is     *)
(* true up to its own put, whatever the platform does.                     *)
NothingOpenSince ==
  \A t \in Threads : handler[t].type = "create" /\ handler[t].pc \in {"getAddon"} \cup InsertPCs =>
    ~HasOp(handler[t].inst, "create", "in progress")

-----------------------------------------------------------------------------
(* What a provisioned instance has.                                        *)

Unremoved(i) == \A state \in OpStates : ~HasOp(i, "remove", state)

Deployed(i, rec) ==
  releases[createReleaseName(i, rec)] = [status |-> "deployed", params |-> rec.params]

NothingHashed ==
  /\ \A i \in Instances : ~HashedRecord(i)
  /\ \A t \in Threads : handler[t].pc # "saveParams"

(* What a goroutine has done so far is there as long as nobody has asked   *)
(* for a removal.                                                          *)
InstallStands(id) ==
  /\ worker[id].pc = "installing" =>
       releases[createReleaseName(worker[id].inst, worker[id].rec)] =
         [status |-> "pending", params |-> worker[id].rec.params]
  /\ worker[id].pc \in {"record", "succeed"} => Deployed(worker[id].inst, worker[id].rec)
  /\ worker[id].pc = "succeed" =>
       instances[worker[id].inst] = [worker[id].rec EXCEPT !.released = TRUE]

InstallsStand ==
  \A id \in OpIDs : worker[id] # Nil /\ Unremoved(worker[id].inst) => InstallStands(id)

DeployedInv == NothingHashed /\ InstallsStand /\ ProvisionedIsDeployed

-----------------------------------------------------------------------------
(* What is left of a removed instance.                                     *)

RemovalIsLast ==
  \A i \in Instances : ~Unremoved(i) =>
    /\ \A t \in Threads : handler[t].inst = i => handler[t].type = "remove"
    /\ ~HasOp(i, "create", "in progress")

RemovedIsGone ==
  \A i \in Instances : HasOp(i, "remove", "succeeded") => instances[i] = Nil

DoneIsGone ==
  \A id \in OpIDs : worker[id] # Nil /\ worker[id].pc = "succeed" /\ ops[id].type = "remove" =>
    instances[worker[id].inst] = Nil

RecordHasOps ==
  /\ \A i \in Instances : instances[i] # Nil => ~HasNoOps(i)
  /\ \A t \in Threads : handler[t].pc = "saveParams" => ~HasNoOps(handler[t].inst)

GoneInv == RemovalIsLast /\ RemovedIsGone /\ DoneIsGone /\ RecordHasOps

-----------------------------------------------------------------------------
(* The steps of the system by what they change.                            *)

(* Only thread t moves; it now is as h says.                               *)
Sets(t, h) ==
  /\ handler'[t] = h
  /\ \A u \in Threads : u # t => handler'[u] = handler[u]

Moves(t) == Sets(t, handler'[t])

WritesRecord(i, r) ==
  /\ instances'[i] = r
  /\ \A j \in Instances : j # i => instances'[j] = instances[j]

WritesRelease(n, r) ==
  /\ releases'[n] = r
  /\ \A m \in ReleaseName : m # n => releases'[m] = releases[m]

(* A handler returns and has changed nothing.                              *)
Returns(t) ==
  /\ handler[t].pc # "idle"
  /\ Sets(t, Idle)
  /\ UNCHANGED <<ops, instances, releases, worker>>

(* A request arrives.  Nobody else serves one of its type, nor, if the     *)
(* platform sends one at a time, of its instance.                          *)
Enters(t) ==
  /\ handler[t] = Idle
  /\ Moves(t)
  /\ handler'[t].inst \in Instances
  /\ \/ /\ handler'[t].type = "create" /\ handler'[t].pc = "isProvisioned"
        /\ handler'[t].req \in Request
        /\ PlatformProvisions(handler'[t].inst)
     \/ handler'[t].type = "remove" /\ handler'[t].pc = "isDeprovisioned"
  /\ \A u \in Threads : handler[u].type # handler'[t].type
  /\ "overlap" \in Platform \/ \A u \in Threads : handler[u].inst # handler'[t].inst
  /\ UNCHANGED <<ops, instances, releases, worker>>

(* A handler goes on to its next call.                                     *)
PassesOn(t, old, h) ==
  \/ /\ old.pc = "isProvisioned" /\ h.pc = "compareParams"
     /\ h.req = old.req
  \/ /\ old.pc = "isProvisioned" /\ h.pc = "isProvisioningInProgress"
     /\ h.req = old.req /\ ~IsProvisioned(old.inst)
  \/ /\ old.pc = "compareParams" /\ h.pc = "saveParams"
     /\ HashedRecord(old.inst)
     /\ h.req.ns = instances[old.inst].ns /\ h.req.svc = instances[old.inst].svc
     /\ h.req.plan = instances[old.inst].plan /\ h.req.params = old.req.params
  \/ /\ old.pc = "isProvisioningInProgress" /\ h.pc = "getAddon"
     /\ h.req = old.req /\ ~HasOp(old.inst, "create", "in progress")
  \/ /\ old.pc = "getAddon" /\ h.pc = "insert"
     /\ h.req = old.req /\ IsProvisioningAllowed(old.req)
  \/ old.pc = "isDeprovisioned" /\ h.pc = "isDeprovisioningInProgress"
  \/ old.pc = "isDeprovisioningInProgress" /\ h.pc = "getInstance"
  \/ /\ old.pc = "getInstance" /\ h.pc = "insert"
     /\ instances[old.inst] # Nil /\ h.req = instances[old.inst]
  \/ /\ old.pc = "insert" /\ h.pc = "put"
     /\ h.req = old.req

Passes(t) ==
  /\ Moves(t)
  /\ handler'[t].inst = handler[t].inst /\ handler'[t].type = handler[t].type
  /\ PassesOn(t, handler[t], handler'[t])
  /\ UNCHANGED <<ops, instances, releases, worker>>

(* A handler writes the record of its instance and returns; at the end of  *)
(* Provision it starts the goroutine, unless etcd reports an error.        *)
Saves(t) ==
  /\ Sets(t, Idle)
  /\ WritesRecord(handler[t].inst, handler[t].req)
  /\ \/ handler[t].pc = "saveParams" /\ UNCHANGED worker
     \/ /\ handler[t].pc = "findPlan" /\ handler[t].req.plan \in Offered
        /\ \/ UNCHANGED worker
           \/ /\ worker'[handler[t].op] =
                   [pc |-> "install", inst |-> handler[t].inst, rec |-> handler[t].req]
              /\ \A id \in OpIDs : id # handler[t].op => worker'[id] = worker[id]
  /\ UNCHANGED <<ops, releases>>

(* A handler puts its operation; Provision goes on, Deprovision starts the *)
(* goroutine and returns, and both return if etcd reports an error.        *)
Opens(t) ==
  /\ handler[t].pc \in InsertPCs
  /\ ~HasOp(handler[t].inst, handler[t].type, "in progress")
  /\ Serialised => ~isOperationInProgress(handler[t].inst)
  /\ ops[handler[t].op] = Nil
  /\ ops'[handler[t].op] =
       [inst |-> handler[t].inst, type |-> handler[t].type, state |-> "in progress"]
  /\ \A id \in OpIDs : id # handler[t].op => ops'[id] = ops[id]
  /\ \/ Sets(t, Idle) /\ UNCHANGED worker
     \/ /\ handler[t].type = "create"
        /\ Moves(t)
        /\ handler'[t].pc = "findPlan" /\ handler'[t].type = "create"
        /\ handler'[t].inst = handler[t].inst /\ handler'[t].req = handler[t].req
        /\ handler'[t].op = handler[t].op
        /\ UNCHANGED worker
     \/ /\ handler[t].type = "remove"
        /\ Sets(t, Idle)
        /\ worker'[handler[t].op] =
             [pc |-> "delete", inst |-> handler[t].inst, rec |-> handler[t].req]
        /\ \A id \in OpIDs : id # handler[t].op => worker'[id] = worker[id]
  /\ UNCHANGED <<instances, releases>>

(* What the call of goroutine w, which goes on to pc, writes.              *)
Effect(w, pc) ==
  LET n == createReleaseName(w.inst, w.rec) IN
  \/ /\ w.pc = "install" /\ pc = "installing"
     /\ releases[n] = Nil
     /\ WritesRelease(n, [status |-> "pending", params |-> w.rec.params])
     /\ UNCHANGED instances
  \/ /\ w.pc = "installing" /\ pc = "record"
     /\ releases[n] = Nil => releases'[n] = Nil
     /\ releases[n] # Nil =>
          releases'[n] = [status |-> "deployed", params |-> releases[n].params]
     /\ \A m \in ReleaseName : m # n => releases'[m] = releases[m]
     /\ UNCHANGED instances
  \/ /\ w.pc = "installing" /\ pc = "fail"
     /\ releases'[n] # Nil => releases[n] # Nil
     /\ \A m \in ReleaseName : m # n => releases'[m] = releases[m]
     /\ UNCHANGED instances
  \/ /\ w.pc = "record" /\ pc \in {"succeed", "fail"}
     /\ WritesRecord(w.inst, [w.rec EXCEPT !.released = TRUE])
     /\ UNCHANGED releases
  \/ /\ w.pc = "delete" /\ pc = "forget"
     /\ WritesRelease(n, Nil)
     /\ UNCHANGED instances
  \/ /\ w.pc = "forget" /\ pc \in {"succeed", "fail"}
     /\ WritesRecord(w.inst, Nil)
     /\ UNCHANGED releases
  \/ /\ w.pc \in Installing \cup Removing /\ pc = "fail"
     /\ UNCHANGED <<instances, releases>>

Works(id) ==
  /\ worker[id] # Nil
  /\ worker'[id] # Nil
  /\ worker'[id].inst = worker[id].inst /\ worker'[id].rec = worker[id].rec
  /\ \A o \in OpIDs : o # id => worker'[o] = worker[o]
  /\ Effect(worker[id], worker'[id].pc)
  /\ UNCHANGED <<ops, handler>>

(* A goroutine ends, and has closed its operation unless etcd reports an   *)
(* error.                                                                  *)
Ends(id) ==
  /\ worker[id] # Nil /\ worker[id].pc \in {"succeed", "fail"}
  /\ worker'[id] = Nil
  /\ \A o \in OpIDs : o # id => worker'[o] = worker[o]
  /\ \/ UNCHANGED ops
     \/ /\ ops'[id] = [inst |-> ops[id].inst, type |-> ops[id].type,
                       state |-> IF worker[id].pc = "succeed" THEN "succeeded" ELSE "failed"]
        /\ \A o \in OpIDs : o # id => ops'[o] = ops[o]
  /\ UNCHANGED <<instances, releases, handler>>

Restarts ==
  /\ \A t \in Threads : handler'[t] = Idle
  /\ \A id \in OpIDs : worker'[id] = Nil
  /\ \/ UNCHANGED <<ops, instances>>
     \/ /\ Driver = "memory" /\ MaxCrashes > 0
        /\ \A id \in OpIDs : ops'[id] = Nil
        /\ \A i \in Instances : instances'[i] = Nil
  /\ UNCHANGED releases

Step ==
  \/ \E t \in Threads : Returns(t) \/ Enters(t) \/ Passes(t) \/ Saves(t) \/ Opens(t)
  \/ \E id \in OpIDs : Works(id) \/ Ends(id)
  \/ Restarts
  \/ UNCHANGED <<ops, instances, releases, handler, worker>>

(* The deferred Unlock: whoever answers is idle afterwards.                *)
LEMMA AnswerSets ==
  ASSUME TypeOK, NEW t \in Threads, Answer(t)
  PROVE  Sets(t, Idle)
  BY DEF Answer, TypeOK, Sets

(* A handler that goes on keeps type, instance and record.                 *)
LEMMA GotoSets ==
  ASSUME TypeOK, NEW t \in Threads, NEW pc, Goto(t, pc)
  PROVE  /\ Moves(t)
         /\ handler'[t].pc = pc /\ handler'[t].type = handler[t].type
         /\ handler'[t].inst = handler[t].inst /\ handler'[t].req = handler[t].req
         /\ handler'[t].op = handler[t].op
<1>1. handler[t] \in Handler
  BY DEF TypeOK
<1>2. handler'[t] = [handler[t] EXCEPT !.pc = pc] /\ Moves(t)
  BY DEF Goto, TypeOK, Moves, Sets
<1> QED
  BY <1>1, <1>2 DEF Handler

(* So does one that draws an operation ID.                                 *)
LEMMA TakeIDSets ==
  ASSUME TypeOK, NEW t \in Threads, NEW pc, TakeID(t, pc)
  PROVE  /\ Moves(t)
         /\ handler'[t].pc = pc /\ handler'[t].type = handler[t].type
         /\ handler'[t].inst = handler[t].inst /\ handler'[t].req = handler[t].req
<1>1. handler[t] \in Handler
  BY DEF TypeOK
<1>2. PICK id \in OpIDs : handler' = [handler EXCEPT ![t].pc = pc, ![t].op = id]
  BY DEF TakeID
<1>3. handler'[t] = [handler[t] EXCEPT !.pc = pc, !.op = id] /\ Moves(t)
  BY <1>2 DEF TypeOK, Moves, Sets
<1> QED
  BY <1>1, <1>3 DEF Handler

(* A request that enters.                                                  *)
LEMMA EnterSets ==
  ASSUME IInv, NEW t \in Threads, NEW type \in OpTypes, NEW i \in Instances, NEW r, NEW pc,
         Enter(t, type, i, r, pc)
  PROVE  /\ handler[t] = Idle
         /\ Moves(t)
         /\ handler'[t].pc = pc /\ handler'[t].type = type
         /\ handler'[t].inst = i /\ handler'[t].req = r
         /\ \A u \in Threads : handler[u].type # type
         /\ "overlap" \in Platform \/ \A u \in Threads : handler[u].inst # i
         /\ UNCHANGED <<ops, instances, releases, worker>>
<1>1. handler'[t] = [pc |-> pc, type |-> type, inst |-> i, req |-> r, op |-> Nil] /\ Moves(t)
  BY DEF Enter, IInv, TypeOK, Moves, Sets
<1>2. handler[t] = Idle
  BY DEF Enter, At, IInv, HandlerHoldsMutex
<1>3. \A u \in Threads : handler[u].type # type
  BY NilAssumption, IdleFacts DEF Enter, IInv, HandlerHoldsMutex
<1> QED
  BY <1>1, <1>2, <1>3 DEF Enter, Serving

(* Requests and the steps of Provision.                                    *)
LEMMA ProvisionCases ==
  ASSUME IInv, NEW t \in Threads, RequestStep(t) \/ ProvisionStep(t)
  PROVE  Step
<1>0. TypeOK
  BY DEF IInv
<1>1. ASSUME NEW i \in Instances, NEW r \in Request, StartProvision(t, i, r)
      PROVE  Enters(t)
  <2>1. "create" \in OpTypes
    BY DEF OpTypes
  <2>2. Enter(t, "create", i, r, "isProvisioned") /\ PlatformProvisions(i)
    BY <1>1 DEF StartProvision
  <2> QED
    BY <2>1, <2>2, EnterSets DEF Enters
<1>2. ASSUME NEW i \in Instances, StartDeprovision(t, i)
      PROVE  Enters(t)
  <2>1. "remove" \in OpTypes
    BY DEF OpTypes
  <2>2. Enter(t, "remove", i, Nil, "isDeprovisioned")
    BY <1>2 DEF StartDeprovision
  <2> QED
    BY <2>1, <2>2, EnterSets DEF Enters
<1>3. CASE CheckProvisioned(t)
  <2>1. CASE IsProvisioned(handler[t].inst)
    <3>1. Goto(t, "compareParams")
      BY <1>3, <2>1 DEF CheckProvisioned
    <3> QED
      BY <1>0, <1>3, <3>1, GotoSets DEF CheckProvisioned, At, Passes, PassesOn, Step
  <2>2. CASE ~IsProvisioned(handler[t].inst)
    <3>1. Goto(t, "isProvisioningInProgress")
      BY <1>3, <2>2 DEF CheckProvisioned
    <3> QED
      BY <1>0, <1>3, <2>2, <3>1, GotoSets DEF CheckProvisioned, At, Passes, PassesOn, Step
  <2> QED
    BY <2>1, <2>2
<1>4. CASE AnswerNoInstance(t) \/ AnswerProvisioned(t) \/ AnswerConflict(t) \/ AnswerProvisioning(t)
           \/ RejectProvision(t) \/ RejectPlan(t)
  BY <1>0, <1>4, AnswerSets DEF AnswerNoInstance, AnswerProvisioned, AnswerConflict,
       AnswerProvisioning, RejectProvision, RejectPlan, At, Returns, Step
<1>5. CASE LoadHashedParams(t)
  <2>1. PICK stored : stored = instances[handler[t].inst]
    OBVIOUS
  <2>2. PICK rec : rec = [stored EXCEPT !.params = handler[t].req.params]
    OBVIOUS
  <2>3. PICK h : h = [handler[t] EXCEPT !.pc = "saveParams", !.req = rec]
    OBVIOUS
  <2>4. /\ handler[t].pc = "compareParams"
        /\ stored # Nil /\ stored.params = Hashed
        /\ handler' = [handler EXCEPT ![t].pc = "saveParams", ![t].req = rec]
        /\ UNCHANGED <<ops, instances, releases, worker>>
    BY <1>5, <2>1, <2>2 DEF LoadHashedParams, At
  <2>5. handler[t] \in Handler /\ handler[t].inst \in Instances
    BY <2>4, HandlerFacts
  <2>6. handler'[t] = h /\ Moves(t)
    BY <1>0, <2>3, <2>4 DEF TypeOK, Moves, Sets
  <2>7. h.pc = "saveParams" /\ h.req = rec /\ h.type = handler[t].type /\ h.inst = handler[t].inst
    BY <2>3, <2>5 DEF Handler
  <2>8. stored \in Instance
    BY <1>0, <2>1, <2>4, <2>5 DEF TypeOK
  <2>9. /\ rec.ns = stored.ns /\ rec.svc = stored.svc /\ rec.plan = stored.plan
        /\ rec.params = handler[t].req.params
    BY <2>2, <2>8 DEF Instance
  <2>10. HashedRecord(handler[t].inst)
    BY <2>1, <2>4 DEF HashedRecord
  <2> QED
    BY <2>1, <2>4, <2>6, <2>7, <2>9, <2>10 DEF Passes, PassesOn, Step
<1>6. CASE SaveParams(t)
  <2>1. handler[t].inst \in Instances
    BY <1>6, HandlerFacts DEF SaveParams, At
  <2>2. WritesRecord(handler[t].inst, handler[t].req)
    BY <1>0, <1>6, <2>1 DEF SaveParams, WritesRecord, TypeOK
  <2> QED
    BY <1>0, <1>6, <2>2, AnswerSets DEF SaveParams, At, Saves, Step
<1>7. CASE CheckProvisioning(t)
  <2>1. ~HasOp(handler[t].inst, "create", "in progress") /\ Goto(t, "getAddon")
        /\ handler[t].pc = "isProvisioningInProgress"
    BY <1>7 DEF CheckProvisioning, At, IsProvisioningInProgress
  <2> QED
    BY <1>0, <1>7, <2>1, GotoSets DEF CheckProvisioning, Passes, PassesOn, Step
<1>8. CASE CheckAllowed(t)
  BY <1>0, <1>8, TakeIDSets DEF CheckAllowed, At, Passes, PassesOn, Step
<1>9. CASE StartInstall(t)
  <2>1. handler[t].inst \in Instances /\ handler[t].op \in OpIDs
    BY <1>9, HandlerFacts DEF StartInstall, At, IInv, HandlerOwnsID
  <2>2. WritesRecord(handler[t].inst, handler[t].req)
    BY <1>0, <1>9, <2>1 DEF StartInstall, WritesRecord, TypeOK
  <2>3. /\ worker'[handler[t].op] =
             [pc |-> "install", inst |-> handler[t].inst, rec |-> handler[t].req]
        /\ \A id \in OpIDs : id # handler[t].op => worker'[id] = worker[id]
    BY <1>0, <1>9, <2>1 DEF StartInstall, TypeOK
  <2>4. /\ handler[t].pc = "findPlan" /\ handler[t].req.plan \in Offered
        /\ Answer(t) /\ UNCHANGED <<ops, releases>>
    BY <1>9 DEF StartInstall, At
  <2>5. Saves(t)
    BY <1>0, <2>2, <2>3, <2>4, AnswerSets DEF Saves
  <2> QED
    BY <2>5 DEF Step
<1> QED
  BY <1>1, <1>2, <1>3, <1>4, <1>5, <1>6, <1>7, <1>8, <1>9 DEF RequestStep, ProvisionStep, Step

(* The steps of Deprovision.                                               *)
LEMMA DeprovisionCases ==
  ASSUME IInv, NEW t \in Threads, DeprovisionStep(t)
  PROVE  Step
<1>0. TypeOK
  BY DEF IInv
<1>1. CASE AnswerGone(t) \/ AnswerDeprovisioning(t) \/ RejectDeprovision(t) \/ AnswerNotStored(t)
  BY <1>0, <1>1, AnswerSets
  DEF AnswerGone, AnswerDeprovisioning, RejectDeprovision, AnswerNotStored, At, Returns, Step
<1>2. CASE CheckDeprovisioned(t)
  BY <1>0, <1>2, GotoSets DEF CheckDeprovisioned, At, Passes, PassesOn, Step
<1>3. CASE CheckDeprovisioning(t)
  BY <1>0, <1>3, TakeIDSets DEF CheckDeprovisioning, At, Passes, PassesOn, Step
<1>4. CASE GetInstance(t)
  <2>1. PICK rec : rec = instances[handler[t].inst]
    OBVIOUS
  <2>2. PICK h : h = [handler[t] EXCEPT !.pc = "insert", !.req = rec]
    OBVIOUS
  <2>3. /\ handler[t].pc = "getInstance"
        /\ rec # Nil
        /\ handler' = [handler EXCEPT ![t].pc = "insert", ![t].req = rec]
        /\ UNCHANGED <<ops, instances, releases, worker>>
    BY <1>4, <2>1 DEF GetInstance, At
  <2>4. handler[t] \in Handler
    BY <2>3, HandlerFacts
  <2>5. handler'[t] = h /\ Moves(t)
    BY <1>0, <2>2, <2>3 DEF TypeOK, Moves, Sets
  <2>6. h.pc = "insert" /\ h.req = rec /\ h.type = handler[t].type /\ h.inst = handler[t].inst
    BY <2>2, <2>4 DEF Handler
  <2> QED
    BY <2>1, <2>3, <2>5, <2>6 DEF Passes, PassesOn, Step
<1> QED
  BY <1>1, <1>2, <1>3, <1>4 DEF DeprovisionStep

(* The put of an operation: what Insert has checked still holds.           *)
LEMMA PutOpens ==
  ASSUME IInv, NEW t \in Threads, handler[t].pc \in InsertPCs,
         handler[t].pc = "put" \/ ~isOperationInProgress(handler[t].inst),
         ops' = [ops EXCEPT ![handler[t].op] =
                   [inst |-> handler[t].inst, type |-> handler[t].type, state |-> "in progress"]]
  PROVE  /\ handler[t].op \in OpIDs
         /\ ~HasOp(handler[t].inst, handler[t].type, "in progress")
         /\ Serialised => ~isOperationInProgress(handler[t].inst)
         /\ ops[handler[t].op] = Nil
         /\ ops'[handler[t].op] =
              [inst |-> handler[t].inst, type |-> handler[t].type, state |-> "in progress"]
         /\ \A id \in OpIDs : id # handler[t].op => ops'[id] = ops[id]
<1>1. handler[t].op \in OpIDs /\ ops[handler[t].op] = Nil
  BY DEF IInv, HandlerOwnsID
<1>2. handler[t].type \in OpTypes
  BY HandlerFacts DEF InsertPCs
<1>3. /\ ~HasOp(handler[t].inst, handler[t].type, "in progress")
      /\ Serialised => ~isOperationInProgress(handler[t].inst)
  BY <1>2 DEF IInv, CheckStillHolds, isOperationInProgress
<1>4. ops \in [OpIDs -> InstanceOperation \cup {Nil}]
  BY DEF IInv, TypeOK
<1> QED
  BY <1>1, <1>3, <1>4

(* The steps of Insert.                                                    *)
LEMMA InsertCases ==
  ASSUME IInv, NEW t \in Threads, InsertStep(t)
  PROVE  Step
<1>0. TypeOK
  BY DEF IInv
<1>1. CASE RejectInsert(t)
  BY <1>0, <1>1, AnswerSets DEF RejectInsert, At, Returns, Step
<1>2. CASE CheckInEtcd(t)
  BY <1>0, <1>2, GotoSets DEF CheckInEtcd, At, Passes, PassesOn, Step
<1>3. CASE InsertInMemory(t) \/ PutInEtcd(t)
  <2>1. /\ handler[t].pc \in InsertPCs
        /\ handler[t].pc = "put" \/ ~isOperationInProgress(handler[t].inst)
        /\ PutOperation(t)
    BY <1>3 DEF InsertInMemory, PutInEtcd, At, InsertPCs
  <2>2. /\ ops' = [ops EXCEPT ![handler[t].op] =
                     [inst |-> handler[t].inst, type |-> handler[t].type, state |-> "in progress"]]
        /\ UNCHANGED <<instances, releases>>
    BY <2>1 DEF PutOperation
  <2>3. CASE handler[t].type = "create" /\ Goto(t, "findPlan") /\ UNCHANGED worker
    <3>1. Opens(t)
      BY <1>0, <2>1, <2>2, <2>3, PutOpens, GotoSets DEF Opens
    <3> QED
      BY <3>1 DEF Step
  <2>4. CASE /\ handler[t].type = "remove" /\ Answer(t)
             /\ worker' = [worker EXCEPT ![handler[t].op] =
                             [pc |-> "delete", inst |-> handler[t].inst, rec |-> handler[t].req]]
    <3>1. handler[t].op \in OpIDs
      BY <2>1, <2>2, PutOpens
    <3>2. /\ worker'[handler[t].op] =
               [pc |-> "delete", inst |-> handler[t].inst, rec |-> handler[t].req]
          /\ \A id \in OpIDs : id # handler[t].op => worker'[id] = worker[id]
      BY <1>0, <2>4, <3>1 DEF TypeOK
    <3>3. Sets(t, Idle)
      BY <1>0, <2>4, AnswerSets
    <3>4. Opens(t)
      BY <2>1, <2>2, <2>4, <3>2, <3>3, PutOpens DEF Opens
    <3> QED
      BY <3>4 DEF Step
  <2> QED
    BY <2>1, <2>3, <2>4 DEF PutOperation
<1> QED
  BY <1>1, <1>2, <1>3 DEF InsertStep

(* A goroutine that goes on keeps its instance and its record.             *)
LEMMA WorkerSets ==
  ASSUME IInv, NEW id \in OpIDs, worker[id] # Nil, NEW pc \in WorkerPCs,
         WorkerGoto(id, pc)
  PROVE  /\ worker'[id] # Nil
         /\ worker'[id].pc = pc
         /\ worker'[id].inst = worker[id].inst /\ worker'[id].rec = worker[id].rec
         /\ \A o \in OpIDs : o # id => worker'[o] = worker[o]
<1>1. worker[id] \in Worker /\ worker \in [OpIDs -> Worker \cup {Nil}]
  BY WorkerFacts DEF IInv, TypeOK
<1>2. PICK w : w = [worker[id] EXCEPT !.pc = pc]
  OBVIOUS
<1>3. worker'[id] = w /\ \A o \in OpIDs : o # id => worker'[o] = worker[o]
  BY <1>1, <1>2 DEF WorkerGoto
<1>4. w \in Worker /\ w.pc = pc /\ w.inst = worker[id].inst /\ w.rec = worker[id].rec
  BY <1>1, <1>2 DEF Worker
<1> QED
  BY <1>3, <1>4, NilAssumption

(* The calls of the goroutines, with and without the answer of etcd.       *)
LEMMA WorkerCases ==
  ASSUME IInv, NEW id \in OpIDs, WorkerStep(id) \/ WorkerFails(id) \/ UpdateFails(id)
  PROVE  Works(id) \/ Ends(id)
<1>0. /\ TypeOK
      /\ worker \in [OpIDs -> Worker \cup {Nil}]
      /\ releases \in [ReleaseName -> Release]
      /\ instances \in [Instances -> Instance \cup {Nil}]
      /\ ops \in [OpIDs -> InstanceOperation \cup {Nil}]
  BY DEF IInv, TypeOK
<1>1. worker[id] # Nil
  BY DEF WorkerStep, BeginInstall, RefuseInstall, EndInstall, RecordRelease, DeleteRelease,
         RefuseDelete, RemoveInstance, UpdateStateDesc, WorkerFails, UpdateFails, WorkerAt
<1>2. PICK n, w : n = releaseOf(id) /\ w = worker[id] /\ n = createReleaseName(w.inst, w.rec)
  BY DEF releaseOf
<1>3. n \in ReleaseName /\ w \in Worker /\ w.inst \in Instances /\ w.rec \in Instance
  BY <1>1, <1>2, WorkerFacts
<1>4. ASSUME NEW pc \in WorkerPCs, WorkerGoto(id, pc), Effect(w, pc), UNCHANGED <<ops, handler>>
      PROVE  Works(id)
  <2>1. /\ worker'[id] # Nil
        /\ worker'[id].pc = pc
        /\ worker'[id].inst = worker[id].inst /\ worker'[id].rec = worker[id].rec
        /\ \A o \in OpIDs : o # id => worker'[o] = worker[o]
    BY <1>1, <1>4, WorkerSets
  <2>2. Effect(worker[id], worker'[id].pc)
    BY <1>2, <1>4, <2>1
  <2> QED
    BY <1>1, <1>4, <2>1, <2>2 DEF Works
<1>5. CASE BeginInstall(id)
  <2>1. /\ w.pc = "install" /\ releases[n] = Nil
        /\ releases' = [releases EXCEPT ![n] = [status |-> "pending", params |-> w.rec.params]]
        /\ WorkerGoto(id, "installing") /\ UNCHANGED <<ops, instances, handler>>
    BY <1>2, <1>5 DEF BeginInstall, WorkerAt
  <2>2. WritesRelease(n, [status |-> "pending", params |-> w.rec.params])
    BY <1>0, <1>3, <2>1 DEF WritesRelease
  <2>3. Effect(w, "installing")
    BY <1>2, <2>1, <2>2 DEF Effect
  <2> QED
    BY <1>4, <2>1, <2>3 DEF WorkerPCs
<1>6. CASE RefuseInstall(id) \/ RefuseDelete(id)
  <2>1. /\ w.pc \in Installing \cup Removing
        /\ WorkerGoto(id, "fail") /\ UNCHANGED <<ops, instances, releases, handler>>
    BY <1>2, <1>6 DEF RefuseInstall, RefuseDelete, WorkerAt, Installing, Removing
  <2>2. Effect(w, "fail")
    BY <2>1 DEF Effect
  <2> QED
    BY <1>4, <2>1, <2>2 DEF WorkerPCs
<1>7. ASSUME NEW status \in {"deployed", "failed"}, EndInstall(id, status)
      PROVE  Works(id)
  <2>1. /\ w.pc = "installing"
        /\ releases' = [releases EXCEPT ![n] =
                          IF releases[n] = Nil THEN Nil ELSE [releases[n] EXCEPT !.status = status]]
        /\ WorkerGoto(id, IF status = "deployed" THEN "record" ELSE "fail")
        /\ UNCHANGED <<ops, instances, handler>>
    BY <1>2, <1>7 DEF EndInstall, WorkerAt
  <2>2. \A m \in ReleaseName : m # n => releases'[m] = releases[m]
    BY <1>0, <1>3, <2>1
  <2>3. CASE releases[n] = Nil
    <3>1. releases'[n] = Nil
      BY <1>0, <1>3, <2>1, <2>3
    <3>2. CASE status = "deployed"
      <4>1. Effect(w, "record")
        BY <1>2, <2>1, <2>2, <2>3, <3>1 DEF Effect
      <4> QED
        BY <1>4, <2>1, <3>2, <4>1 DEF WorkerPCs
    <3>3. CASE status = "failed"
      <4>1. Effect(w, "fail")
        BY <1>2, <2>1, <2>2, <2>3, <3>1 DEF Effect
      <4> QED
        BY <1>4, <2>1, <3>3, <4>1 DEF WorkerPCs
    <3> QED
      BY <3>2, <3>3
  <2>4. CASE releases[n] # Nil
    <3>1. PICK r : r = releases[n]
      OBVIOUS
    <3>2. releases'[n] = [r EXCEPT !.status = status]
      BY <1>0, <1>3, <2>1, <2>4, <3>1
    <3>3. r \in HelmRelease
      BY <1>0, <1>3, <2>4, <3>1 DEF Release
    <3>4. releases'[n] = [status |-> status, params |-> r.params]
      BY <3>2, <3>3 DEF HelmRelease
    <3>6. CASE status = "deployed"
      <4>1. Effect(w, "record")
        BY <1>2, <2>1, <2>2, <2>4, <3>1, <3>4, <3>6 DEF Effect
      <4> QED
        BY <1>4, <2>1, <3>6, <4>1 DEF WorkerPCs
    <3>7. CASE status = "failed"
      <4>1. Effect(w, "fail")
        BY <1>2, <2>1, <2>2, <2>4 DEF Effect
      <4> QED
        BY <1>4, <2>1, <3>7, <4>1 DEF WorkerPCs
    <3> QED
      BY <3>6, <3>7
  <2> QED
    BY <2>3, <2>4
<1>8. CASE RecordRelease(id)
  <2>1. /\ w.pc = "record"
        /\ instances' = [instances EXCEPT ![w.inst] = [w.rec EXCEPT !.released = TRUE]]
        /\ WorkerGoto(id, "succeed") /\ UNCHANGED <<ops, releases, handler>>
    BY <1>2, <1>8 DEF RecordRelease, WorkerAt
  <2>2. WritesRecord(w.inst, [w.rec EXCEPT !.released = TRUE])
    BY <1>0, <1>3, <2>1 DEF WritesRecord
  <2>3. Effect(w, "succeed")
    BY <2>1, <2>2 DEF Effect
  <2> QED
    BY <1>4, <2>1, <2>3 DEF WorkerPCs
<1>9. CASE DeleteRelease(id)
  <2>1. /\ w.pc = "delete"
        /\ releases' = [releases EXCEPT ![n] = Nil]
        /\ WorkerGoto(id, "forget") /\ UNCHANGED <<ops, instances, handler>>
    BY <1>2, <1>9 DEF DeleteRelease, WorkerAt
  <2>2. WritesRelease(n, Nil)
    BY <1>0, <1>3, <2>1 DEF WritesRelease
  <2>3. Effect(w, "forget")
    BY <1>2, <2>1, <2>2 DEF Effect
  <2> QED
    BY <1>4, <2>1, <2>3 DEF WorkerPCs
<1>10. CASE RemoveInstance(id)
  <2>1. /\ w.pc = "forget"
        /\ instances' = [instances EXCEPT ![w.inst] = Nil]
        /\ WorkerGoto(id, "succeed") /\ UNCHANGED <<ops, releases, handler>>
    BY <1>2, <1>10 DEF RemoveInstance, WorkerAt
  <2>2. WritesRecord(w.inst, Nil)
    BY <1>0, <1>3, <2>1 DEF WritesRecord
  <2>3. Effect(w, "succeed")
    BY <2>1, <2>2 DEF Effect
  <2> QED
    BY <1>4, <2>1, <2>3 DEF WorkerPCs
<1>11. CASE UpdateStateDesc(id)
  <2>1. PICK s : s = IF worker[id].pc = "succeed" THEN "succeeded" ELSE "failed"
    OBVIOUS
  <2>2. /\ worker[id].pc \in {"succeed", "fail"}
        /\ ops' = [ops EXCEPT ![id].state = s]
        /\ worker' = [worker EXCEPT ![id] = Nil]
        /\ UNCHANGED <<instances, releases, handler>>
    BY <1>11, <2>1 DEF UpdateStateDesc
  <2>3. ops[id] \in InstanceOperation
    BY <1>0, <1>1 DEF IInv, WorkerRunsOperation, InProgress
  <2>4. ops'[id] = [ops[id] EXCEPT !.state = s] /\ \A o \in OpIDs : o # id => ops'[o] = ops[o]
    BY <1>0, <2>2
  <2>5. ops'[id] = [inst |-> ops[id].inst, type |-> ops[id].type, state |-> s]
    BY <2>3, <2>4 DEF InstanceOperation
  <2>6. worker'[id] = Nil /\ \A o \in OpIDs : o # id => worker'[o] = worker[o]
    BY <1>0, <2>2
  <2> QED
    BY <1>1, <2>1, <2>2, <2>4, <2>5, <2>6 DEF Ends
<1>12. CASE WorkerFails(id)
  <2>1. /\ w.pc \in {"record", "forget"}
        /\ WorkerGoto(id, "fail") /\ UNCHANGED <<ops, releases, handler>>
    BY <1>2, <1>12 DEF WorkerFails, WorkerAt
  <2>2. CASE UNCHANGED instances
    <3>1. Effect(w, "fail")
      BY <2>1, <2>2 DEF Effect, Installing, Removing
    <3> QED
      BY <1>4, <2>1, <3>1 DEF WorkerPCs
  <2>3. CASE w.pc = "record" /\ instances' = [instances EXCEPT ![w.inst] = [w.rec EXCEPT !.released = TRUE]]
    <3>1. WritesRecord(w.inst, [w.rec EXCEPT !.released = TRUE])
      BY <1>0, <1>3, <2>3 DEF WritesRecord
    <3>2. Effect(w, "fail")
      BY <2>1, <2>3, <3>1 DEF Effect
    <3> QED
      BY <1>4, <2>1, <3>2 DEF WorkerPCs
  <2>4. CASE w.pc = "forget" /\ instances' = [instances EXCEPT ![w.inst] = Nil]
    <3>1. WritesRecord(w.inst, Nil)
      BY <1>0, <1>3, <2>4 DEF WritesRecord
    <3>2. Effect(w, "fail")
      BY <2>1, <2>4, <3>1 DEF Effect
    <3> QED
      BY <1>4, <2>1, <3>2 DEF WorkerPCs
  <2> QED
    BY <1>2, <1>12, <2>1, <2>2, <2>3, <2>4 DEF WorkerFails
<1>13. CASE UpdateFails(id)
  <2>1. worker'[id] = Nil /\ \A o \in OpIDs : o # id => worker'[o] = worker[o]
    BY <1>0, <1>13 DEF UpdateFails
  <2> QED
    BY <1>1, <1>13, <2>1 DEF UpdateFails, WorkerAt, Ends
<1> QED
  BY <1>5, <1>6, <1>7, <1>8, <1>9, <1>10, <1>11, <1>12, <1>13 DEF WorkerStep

(* The failures of a handler's calls and the restart.                      *)
LEMMA FailureCases ==
  ASSUME IInv, FailureStep \/ Crash
  PROVE  Step
<1>0. TypeOK
  BY DEF IInv
<1>1. ASSUME NEW t \in Threads, HandlerFails(t)
      PROVE  Step
  BY <1>0, <1>1, AnswerSets DEF HandlerFails, At, Returns, Step
<1>2. ASSUME NEW t \in Threads, PutUnacknowledged(t)
      PROVE  Step
  <2>1. Sets(t, Idle) /\ UNCHANGED <<releases, worker>>
    BY <1>0, <1>2, AnswerSets DEF PutUnacknowledged
  <2>2. CASE /\ At(t, "put")
             /\ ops' = [ops EXCEPT ![handler[t].op] =
                          [inst |-> handler[t].inst, type |-> handler[t].type,
                           state |-> "in progress"]]
             /\ UNCHANGED instances
    <3>1. handler[t].pc \in InsertPCs /\ handler[t].pc = "put"
      BY <2>2 DEF At, InsertPCs
    <3>2. Opens(t)
      BY <2>1, <2>2, <3>1, PutOpens DEF Opens
    <3> QED
      BY <3>2 DEF Step
  <2>3. CASE /\ \/ At(t, "saveParams")
                \/ At(t, "findPlan") /\ handler[t].req.plan \in Offered
             /\ instances' = [instances EXCEPT ![handler[t].inst] = handler[t].req]
             /\ UNCHANGED ops
    <3>1. handler[t].inst \in Instances
      BY <2>3, HandlerFacts DEF At
    <3>2. WritesRecord(handler[t].inst, handler[t].req)
      BY <1>0, <2>3, <3>1 DEF WritesRecord, TypeOK
    <3>3. Saves(t)
      BY <2>1, <2>3, <3>2 DEF Saves, At
    <3> QED
      BY <3>3 DEF Step
  <2> QED
    BY <1>2, <2>2, <2>3 DEF PutUnacknowledged
<1>3. ASSUME NEW id \in OpIDs, WorkerFails(id) \/ UpdateFails(id)
      PROVE  Step
  BY <1>3, WorkerCases DEF Step
<1>4. CASE Crash
  <2>1. MaxCrashes > 0
    BY <1>0, <1>4, ConstantsAssumption DEF Crash, TypeOK
  <2>2. Restarts
    BY <1>4, <2>1 DEF Crash, Restarts
  <2> QED
    BY <2>2 DEF Step
<1> QED
  BY <1>1, <1>2, <1>3, <1>4 DEF FailureStep

(* Every step of the system is one of these.                               *)
LEMMA StepCases ==
  ASSUME IInv, [Next]_vars
  PROVE  Step
<1>1. ASSUME NEW id \in OpIDs, WorkerStep(id)
      PROVE  Step
  BY <1>1, WorkerCases DEF Step
<1>2. CASE UNCHANGED vars
  BY <1>2 DEF vars, Step
<1> QED
  BY <1>1, <1>2, ProvisionCases, DeprovisionCases, InsertCases, FailureCases DEF Next, HandlerStep

-----------------------------------------------------------------------------
(* What the steps do to the operations an instance has.                    *)

(* Steps that leave the operations alone leave all that is read of them.   *)
LEMMA SameLog ==
  ASSUME UNCHANGED ops
  PROVE  /\ \A i, y, s : HasOp(i, y, s)' <=> HasOp(i, y, s)
         /\ \A i : IsProvisioned(i)' <=> IsProvisioned(i)
         /\ \A i : Unremoved(i)' <=> Unremoved(i)
         /\ \A i : HasNoOps(i)' <=> HasNoOps(i)
  BY DEF HasOp, IsProvisioned, Unremoved, HasNoOps

(* The log f has an operation of instance i, type y and state s.           *)
OpIn(f, i, y, s) ==
  \E id \in OpIDs : f[id] # Nil /\ f[id].inst = i /\ f[id].type = y /\ f[id].state = s

(* HasOp in terms of the fields of an operation.                           *)
LEMMA OpByFields ==
  ASSUME NEW f \in [OpIDs -> InstanceOperation \cup {Nil}],
         NEW i \in Instances, NEW y \in OpTypes, NEW s \in OpStates
  PROVE  (\E id \in OpIDs : f[id] = [inst |-> i, type |-> y, state |-> s]) <=> OpIn(f, i, y, s)
<1>1. PICK o : o = [inst |-> i, type |-> y, state |-> s]
  OBVIOUS
<1>2. o \in InstanceOperation /\ o.inst = i /\ o.type = y /\ o.state = s
  BY <1>1 DEF InstanceOperation
<1>3. \A a \in InstanceOperation : a.inst = i /\ a.type = y /\ a.state = s => a = o
  BY <1>1 DEF InstanceOperation
<1> QED
  BY <1>1, <1>2, <1>3, NilAssumption DEF OpIn

(* The same for the operations before and after a step.                    *)
LEMMA LogByFields ==
  ASSUME TypeOK, TypeOK', NEW i \in Instances, NEW y \in OpTypes, NEW s \in OpStates
  PROVE  /\ HasOp(i, y, s) <=> OpIn(ops, i, y, s)
         /\ HasOp(i, y, s)' <=> OpIn(ops', i, y, s)
<1>1. ops \in [OpIDs -> InstanceOperation \cup {Nil}] /\ ops' \in [OpIDs -> InstanceOperation \cup {Nil}]
  BY DEF TypeOK
<1>2. HasOp(i, y, s) <=> OpIn(ops, i, y, s)
  BY <1>1, OpByFields DEF HasOp
<1>3. HasOp(i, y, s)' <=> OpIn(ops', i, y, s)
  BY <1>1, OpByFields DEF HasOp
<1> QED
  BY <1>2, <1>3

(* The put adds one running operation.                                     *)
LEMMA OpensLog ==
  ASSUME IInv, IInv', NEW t \in Threads, Opens(t)
  PROVE  /\ handler[t].op \in OpIDs /\ handler[t].inst \in Instances
         /\ handler[t].type \in OpTypes /\ handler[t].req \in Instance
         /\ worker[handler[t].op] = Nil
         /\ ops'[handler[t].op].inst = handler[t].inst
         /\ ops'[handler[t].op].type = handler[t].type
         /\ \A u \in Threads : handler[u].pc = "findPlan" => handler[u].op # handler[t].op
         /\ \A i \in Instances, y \in OpTypes, s \in OpStates : HasOp(i, y, s)' <=>
              \/ HasOp(i, y, s)
              \/ i = handler[t].inst /\ y = handler[t].type /\ s = "in progress"
         /\ \A i : HasNoOps(i)' => HasNoOps(i)
         /\ \A i : i = handler[t].inst => ~HasNoOps(i)'
<1>0. TypeOK /\ TypeOK'
  BY DEF IInv
<1>1. PICK h : h = handler[t]
  OBVIOUS
<1>2. /\ h.op \in OpIDs /\ h.inst \in Instances
      /\ h.type \in OpTypes /\ h.req \in Instance
  BY <1>1, HandlerFacts DEF Opens, InsertPCs, IInv, HandlerOwnsID
<1>3. PICK new : new = [inst |-> h.inst, type |-> h.type, state |-> "in progress"]
  OBVIOUS
<1>4. /\ new \in InstanceOperation /\ new # Nil
      /\ new.inst = h.inst /\ new.type = h.type /\ new.state = "in progress"
  <2>1. new \in InstanceOperation
    BY <1>2, <1>3 DEF InstanceOperation, OpStates
  <2> QED
    BY <1>3, <2>1, NilAssumption
<1>5. /\ ops[h.op] = Nil
      /\ ops'[h.op] = new
      /\ \A id \in OpIDs : id # h.op => ops'[id] = ops[id]
  BY <1>1, <1>3 DEF Opens
<1>6. worker[h.op] = Nil
  BY <1>2, <1>5 DEF IInv, WorkerRunsOperation, InProgress
<1>7. \A u \in Threads : handler[u].pc = "findPlan" => handler[u].op # h.op
  BY <1>2, <1>5 DEF IInv, HandlerOwnsID, InProgress
<1>8. ASSUME NEW i \in Instances, NEW y \in OpTypes, NEW s \in OpStates
      PROVE  HasOp(i, y, s)' <=> HasOp(i, y, s) \/ (i = h.inst /\ y = h.type /\ s = "in progress")
  <2>1. OpIn(ops', i, y, s) <=> OpIn(ops, i, y, s) \/ (i = h.inst /\ y = h.type /\ s = "in progress")
    <3>1. OpIn(ops, i, y, s) => OpIn(ops', i, y, s)
      BY <1>5 DEF OpIn
    <3>2. i = h.inst /\ y = h.type /\ s = "in progress" => OpIn(ops', i, y, s)
      BY <1>2, <1>4, <1>5 DEF OpIn
    <3>3. ASSUME NEW o \in OpIDs, ops'[o] # Nil,
                 ops'[o].inst = i, ops'[o].type = y, ops'[o].state = s
          PROVE  OpIn(ops, i, y, s) \/ (i = h.inst /\ y = h.type /\ s = "in progress")
      <4>1. CASE o = h.op
        BY <1>4, <1>5, <3>3, <4>1
      <4>2. CASE o # h.op
        <5>1. ops[o] # Nil /\ ops[o].inst = i /\ ops[o].type = y /\ ops[o].state = s
          BY <1>5, <3>3, <4>2
        <5>2. OpIn(ops, i, y, s)
          BY <5>1 DEF OpIn
        <5> QED
          BY <5>2
      <4> QED
        BY <4>1, <4>2
    <3> QED
      BY <3>1, <3>2, <3>3 DEF OpIn
  <2>2. /\ HasOp(i, y, s) <=> OpIn(ops, i, y, s)
        /\ HasOp(i, y, s)' <=> OpIn(ops', i, y, s)
    BY <1>0, LogByFields
  <2> QED
    BY <2>1, <2>2
<1>9. \A i : HasNoOps(i)' => HasNoOps(i)
  BY <1>5 DEF HasNoOps
<1>10. \A i : i = h.inst => ~HasNoOps(i)'
  BY <1>2, <1>4, <1>5 DEF HasNoOps
<1> QED
  BY <1>1, <1>2, <1>4, <1>5, <1>6, <1>7, <1>8, <1>9, <1>10

(* What the end of a goroutine does to the operations of an instance.      *)
Closes(id) ==
  /\ \A i \in Instances, y \in OpTypes :
       /\ HasOp(i, y, "in progress")' => HasOp(i, y, "in progress")
       /\ HasOp(i, y, "succeeded") => HasOp(i, y, "succeeded")'
       /\ HasOp(i, y, "succeeded")' =>
            \/ HasOp(i, y, "succeeded")
            \/ /\ i = worker[id].inst /\ y = ops[id].type
               /\ worker[id].pc = "succeed"
               /\ ~HasOp(i, y, "in progress")'
  /\ \A i \in Instances : Unremoved(i)' <=> Unremoved(i)
  /\ \A i \in Instances : HasNoOps(i)' <=> HasNoOps(i)

(* The end of an operation: it is no longer in progress, and no other of   *)
(* its instance and type is.                                               *)
LEMMA EndsLog ==
  ASSUME IInv, IInv', NEW id \in OpIDs, Ends(id)
  PROVE  /\ \A o \in OpIDs : ops[o] # Nil =>
              ops'[o].type = ops[o].type /\ ops'[o].inst = ops[o].inst
         /\ Closes(id)
<1>0. TypeOK /\ TypeOK'
  BY DEF IInv
<1>1. /\ ops[id] # Nil
      /\ ops[id].state = "in progress" /\ ops[id].inst = worker[id].inst
      /\ worker[id].pc \in {"succeed", "fail"}
  BY NilAssumption DEF Ends, IInv, TypeOK, WorkerRunsOperation, InProgress
<1>2. CASE UNCHANGED ops
  BY <1>2, SameLog DEF Closes
<1>3. CASE ~UNCHANGED ops
  <2>1. PICK s : s = IF worker[id].pc = "succeed" THEN "succeeded" ELSE "failed"
    OBVIOUS
  <2>2. /\ ops'[id] = [inst |-> ops[id].inst, type |-> ops[id].type, state |-> s]
        /\ \A o \in OpIDs : o # id => ops'[o] = ops[o]
    BY <1>3, <2>1 DEF Ends
  <2>3. s \in {"succeeded", "failed"} /\ (s = "succeeded" => worker[id].pc = "succeed")
    BY <1>1, <2>1
  <2>4. ops'[id].inst = ops[id].inst /\ ops'[id].type = ops[id].type /\ ops'[id].state = s
    BY <2>2
  <2>5. ops[id] \in InstanceOperation
    BY <1>0, <1>1 DEF TypeOK
  <2>6. ops'[id] # Nil
    <3>1. [inst |-> ops[id].inst, type |-> ops[id].type, state |-> s] \in InstanceOperation
      BY <2>3, <2>5 DEF InstanceOperation, OpStates
    <3> QED
      BY <2>2, <3>1, NilAssumption
  <2>7. ASSUME NEW i \in Instances, NEW y \in OpTypes
        PROVE  /\ HasOp(i, y, "in progress")' => HasOp(i, y, "in progress")
               /\ HasOp(i, y, "succeeded") => HasOp(i, y, "succeeded")'
               /\ HasOp(i, y, "succeeded")' =>
                    \/ HasOp(i, y, "succeeded")
                    \/ i = worker[id].inst /\ y = ops[id].type /\ worker[id].pc = "succeed"
               /\ i = worker[id].inst /\ y = ops[id].type => ~HasOp(i, y, "in progress")'
    <3>1. "in progress" \in OpStates /\ "succeeded" \in OpStates
      BY DEF OpStates
    <3>2. /\ HasOp(i, y, "in progress") <=> OpIn(ops, i, y, "in progress")
          /\ HasOp(i, y, "in progress")' <=> OpIn(ops', i, y, "in progress")
          /\ HasOp(i, y, "succeeded") <=> OpIn(ops, i, y, "succeeded")
          /\ HasOp(i, y, "succeeded")' <=> OpIn(ops', i, y, "succeeded")
      BY <1>0, <3>1, LogByFields
    <3>3. OpIn(ops', i, y, "in progress") => OpIn(ops, i, y, "in progress")
      BY <2>2, <2>3, <2>4 DEF OpIn
    <3>4. OpIn(ops, i, y, "succeeded") => OpIn(ops', i, y, "succeeded")
      BY <1>1, <2>2 DEF OpIn
    <3>5. OpIn(ops', i, y, "succeeded") =>
            OpIn(ops, i, y, "succeeded") \/ (i = ops[id].inst /\ y = ops[id].type /\ s = "succeeded")
      <4>1. ASSUME NEW o \in OpIDs, ops'[o] # Nil,
                   ops'[o].inst = i, ops'[o].type = y, ops'[o].state = "succeeded"
            PROVE  OpIn(ops, i, y, "succeeded") \/ (i = ops[id].inst /\ y = ops[id].type /\ s = "succeeded")
        <5>1. CASE o = id
          BY <2>4, <4>1, <5>1
        <5>2. CASE o # id
          <6>1. ops[o] # Nil /\ ops[o].inst = i /\ ops[o].type = y /\ ops[o].state = "succeeded"
            BY <2>2, <4>1, <5>2
          <6>2. OpIn(ops, i, y, "succeeded")
            BY <6>1 DEF OpIn
          <6> QED
            BY <6>2
        <5> QED
          BY <5>1, <5>2
      <4> QED
        BY <4>1 DEF OpIn
    <3>6. i = worker[id].inst /\ y = ops[id].type => ~OpIn(ops', i, y, "in progress")
      <4>1. \A o \in OpIDs : o # id /\ ops[o] # Nil /\ ops[o].state = "in progress" =>
              ~(ops[o].inst = ops[id].inst /\ ops[o].type = ops[id].type)
        BY <1>1 DEF IInv, OneOfEachType, InProgress
      <4> QED
        BY <1>1, <2>2, <2>3, <2>4, <4>1 DEF OpIn
    <3> QED
      BY <1>1, <2>3, <3>2, <3>3, <3>4, <3>5, <3>6
  <2>8. ASSUME NEW i \in Instances
        PROVE  Unremoved(i)' <=> Unremoved(i)
    <3>1. "remove" \in OpTypes
      BY DEF OpTypes
    <3>2. \A q \in OpStates : /\ HasOp(i, "remove", q) <=> OpIn(ops, i, "remove", q)
                              /\ HasOp(i, "remove", q)' <=> OpIn(ops', i, "remove", q)
      BY <1>0, <3>1, LogByFields
    <3>3. \A o \in OpIDs : ops[o] # Nil => ops[o].state \in OpStates
      BY <1>0 DEF TypeOK, InstanceOperation
    <3>4. \A o \in OpIDs : ops'[o] # Nil => ops'[o].state \in OpStates
      BY <1>0 DEF TypeOK, InstanceOperation
    <3>5. Unremoved(i) <=> \A o \in OpIDs : ~(ops[o] # Nil /\ ops[o].inst = i /\ ops[o].type = "remove")
      BY <3>2, <3>3 DEF Unremoved, OpIn
    <3>6. Unremoved(i)' <=> \A o \in OpIDs : ~(ops'[o] # Nil /\ ops'[o].inst = i /\ ops'[o].type = "remove")
      BY <3>2, <3>4 DEF Unremoved, OpIn
    <3> QED
      BY <1>1, <2>2, <2>4, <2>6, <3>5, <3>6
  <2>9. \A i \in Instances : HasNoOps(i)' <=> HasNoOps(i)
    BY <1>1, <2>2, <2>4, <2>6 DEF HasNoOps
  <2>10. Closes(id)
    BY <2>7, <2>8, <2>9 DEF Closes
  <2> QED
    BY <2>2, <2>4, <2>10
<1> QED
  BY <1>2, <1>3

(* A restart loses all operations or none.                                 *)
LEMMA RestartLog ==
  ASSUME Restarts, ~UNCHANGED <<ops, instances>>
  PROVE  /\ Driver = "memory" /\ MaxCrashes > 0
         /\ \A i \in Instances : instances'[i] = Nil
         /\ \A i \in Instances, y \in OpTypes, s \in OpStates : ~HasOp(i, y, s)'
         /\ \A i : HasNoOps(i)'
<1>1. /\ Driver = "memory" /\ MaxCrashes > 0
      /\ \A i \in Instances : instances'[i] = Nil
      /\ \A id \in OpIDs : ops'[id] = Nil
  BY DEF Restarts
<1>2. \A i \in Instances, y \in OpTypes, s \in OpStates : ~HasOp(i, y, s)'
  <2> TAKE i \in Instances, y \in OpTypes, s \in OpStates
  <2>1. [inst |-> i, type |-> y, state |-> s] \in InstanceOperation
    BY DEF InstanceOperation
  <2> QED
    BY <1>1, <2>1, NilAssumption DEF HasOp
<1> QED
  BY <1>1, <1>2 DEF HasNoOps

-----------------------------------------------------------------------------
(* KindsInv.                                                               *)

(* Every step preserves KindsInv.                                          *)
LEMMA KindsStep ==
  ASSUME IInv, IInv', KindsInv, Step
  PROVE  KindsInv'
<1>0. Nil # "create"
  BY NilAssumption DEF OpTypes
<1>1. ASSUME NEW t \in Threads, Returns(t)
      PROVE  KindsInv'
  BY <1>0, <1>1, IdleFacts DEF Returns, Sets, KindsInv
<1>2. ASSUME NEW t \in Threads, Enters(t)
      PROVE  KindsInv'
  BY <1>2, ConstantsAssumption DEF Enters, Moves, Sets, Request, KindsInv
<1>3. ASSUME NEW t \in Threads, Passes(t)
      PROVE  KindsInv'
  <2>1. handler[t].pc # "idle"
    BY <1>3 DEF Passes, PassesOn
  <2>2. handler'[t].pc # "findPlan"
    BY <1>3 DEF Passes, PassesOn
  <2>3. handler[t].type = "create" => handler'[t].req.params = handler[t].req.params
    BY <1>3, <2>1, HandlerFacts DEF Passes, PassesOn, RemovePCs
  <2> QED
    BY <1>3, <2>2, <2>3 DEF Passes, Moves, Sets, KindsInv
<1>4. ASSUME NEW t \in Threads, Saves(t)
      PROVE  KindsInv'
  <2>1. handler[t].type = "create"
    BY <1>4, HandlerFacts DEF Saves, CreatePCs
  <2> QED
    BY <1>0, <1>4, <2>1, IdleFacts DEF Saves, Sets, KindsInv, Removing
<1>5. ASSUME NEW t \in Threads, Opens(t)
      PROVE  KindsInv'
  <2>1. /\ \A u \in Threads : handler[u].pc = "findPlan" =>
             handler[u].op \in OpIDs /\ ops'[handler[u].op] = ops[handler[u].op]
        /\ \A o \in OpIDs : worker[o] # Nil => ops'[o] = ops[o]
    BY <1>5, OpensLog DEF Opens, IInv, HandlerOwnsID
  <2>2. \A u \in Threads :
          /\ handler'[u].type = "create" => handler'[u].req.params # Hashed
          /\ handler'[u].pc = "findPlan" => ops'[handler'[u].op].type = "create"
    <3>1. CASE Sets(t, Idle)
      BY <1>0, <2>1, <3>1, IdleFacts DEF Sets, KindsInv
    <3>2. CASE ~Sets(t, Idle)
      <4>1. /\ handler[t].type = "create"
            /\ Moves(t)
            /\ handler'[t].type = "create" /\ handler'[t].req = handler[t].req
            /\ handler'[t].op = handler[t].op
        BY <1>5, <3>2 DEF Opens
      <4>2. ops'[handler[t].op].type = "create"
        BY <1>5, <4>1, OpensLog
      <4> QED
        BY <2>1, <4>1, <4>2 DEF Moves, Sets, KindsInv
    <3> QED
      BY <3>1, <3>2
  <2>3. \A o \in OpIDs : worker'[o] # Nil =>
          /\ worker'[o].pc \in Installing =>
               ops'[o].type = "create" /\ worker'[o].rec.params # Hashed
          /\ worker'[o].pc \in Removing => ops'[o].type = "remove"
    <3>1. CASE UNCHANGED worker
      BY <2>1, <3>1 DEF KindsInv
    <3>2. CASE ~UNCHANGED worker
      <4>1. /\ handler[t].type = "remove"
            /\ worker'[handler[t].op] =
                 [pc |-> "delete", inst |-> handler[t].inst, rec |-> handler[t].req]
            /\ \A o \in OpIDs : o # handler[t].op => worker'[o] = worker[o]
        BY <1>5, <3>2 DEF Opens
      <4>2. ops'[handler[t].op].type = "remove"
        BY <1>5, <4>1, OpensLog
      <4>3. worker'[handler[t].op].pc = "delete"
        BY <4>1
      <4> QED
        BY <2>1, <4>1, <4>2, <4>3 DEF KindsInv, Installing
    <3> QED
      BY <3>1, <3>2
  <2> QED
    BY <2>2, <2>3 DEF KindsInv
<1>6. ASSUME NEW id \in OpIDs, Works(id)
      PROVE  KindsInv'
  BY <1>6 DEF Works, Effect, KindsInv, Installing, Removing
<1>7. ASSUME NEW id \in OpIDs, Ends(id)
      PROVE  KindsInv'
  <2>1. /\ \A t \in Threads : handler[t].pc = "findPlan" =>
             handler[t].op \in OpIDs /\ ops[handler[t].op] # Nil
        /\ \A o \in OpIDs : worker[o] # Nil => ops[o] # Nil
    BY DEF IInv, HandlerOwnsID, WorkerRunsOperation, InProgress
  <2>2. \A o \in OpIDs : worker'[o] # Nil => worker'[o] = worker[o]
    BY <1>7 DEF Ends
  <2> QED
    BY <1>7, <2>1, <2>2, EndsLog DEF Ends, KindsInv
<1>8. CASE Restarts
  BY <1>0, <1>8, IdleFacts DEF Restarts, KindsInv
<1>9. CASE UNCHANGED <<ops, instances, releases, handler, worker>>
  BY <1>9 DEF KindsInv
<1> QED
  BY <1>1, <1>2, <1>3, <1>4, <1>5, <1>6, <1>7, <1>8, <1>9 DEF Step

-----------------------------------------------------------------------------
(* HashInv.                                                                *)

(* Only one handler of a type is at work.                                  *)
LEMMA OneOfAType ==
  ASSUME IInv, NEW t \in Threads, NEW u \in Threads,
         handler[t].type \in OpTypes, handler[t].type = handler[u].type
  PROVE  t = u
  BY IdleFacts, NilAssumption DEF IInv, HandlerHoldsMutex

(* Nobody writes a hash: a record that has one has always had it.          *)
LEMMA HashesAreOld ==
  ASSUME IInv, KindsInv, Step, NEW i \in Instances, HashedRecord(i)'
  PROVE  HashedRecord(i)
<1>1. ASSUME NEW t \in Threads, Saves(t)
      PROVE  HashedRecord(i)
  <2>1. handler[t].req.params # Hashed
    BY <1>1, HandlerFacts DEF Saves, CreatePCs, KindsInv
  <2> QED
    BY <1>1, <2>1 DEF Saves, WritesRecord, HashedRecord
<1>2. ASSUME NEW id \in OpIDs, Works(id)
      PROVE  HashedRecord(i)
  <2>1. PICK w : w = worker[id]
    OBVIOUS
  <2>2. /\ worker[id] # Nil /\ w.inst \in Instances /\ w.rec \in Instance
        /\ w.pc = "record" => w.rec.params # Hashed
    BY <1>2, <2>1, WorkerFacts DEF Works, KindsInv, Installing
  <2>3. PICK r : r = [w.rec EXCEPT !.released = TRUE]
    OBVIOUS
  <2>4. r.params = w.rec.params
    BY <2>2, <2>3 DEF Instance
  <2>5. \/ UNCHANGED instances
        \/ w.pc = "record" /\ WritesRecord(w.inst, r)
        \/ WritesRecord(w.inst, Nil)
    BY <1>2, <2>1, <2>3 DEF Works, Effect
  <2> QED
    BY <2>2, <2>4, <2>5 DEF WritesRecord, HashedRecord
<1>3. CASE UNCHANGED instances
  BY <1>3 DEF HashedRecord
<1>4. CASE Restarts
  BY <1>4 DEF Restarts, HashedRecord
<1> QED
  BY <1>1, <1>2, <1>3, <1>4 DEF Step, Returns, Enters, Passes, Opens, Ends

(* Every step preserves HashInv.                                           *)
LEMMA HashStep ==
  ASSUME IInv, IInv', KindsInv, HashInv, Step
  PROVE  HashInv'
<1>0. /\ Nil # "create" /\ "create" \in OpTypes /\ "remove" \in OpTypes
      /\ "in progress" \in OpStates /\ "succeeded" \in OpStates
  BY NilAssumption DEF OpTypes, OpStates
<1>a. \A i \in Instances : HashedRecord(i)' => HashedRecord(i)
  BY HashesAreOld
<1>b. \A t \in Threads : handler[t].type = "create" => handler[t].inst \in Instances
  BY <1>0, IdleFacts DEF IInv, HandlerHoldsMutex
<1>c. \A t \in Threads : handler[t].pc = "saveParams" =>
        handler[t].inst \in Instances /\ handler[t].type = "create"
  BY HandlerFacts DEF CreatePCs
<1>d. \A id \in OpIDs : worker[id] # Nil => worker[id].inst \in Instances
  BY WorkerFacts
<1>1. ASSUME UNCHANGED <<ops, worker>>
      PROVE  HashedIsProvisioned' /\ HashedIsNotDone'
  <2>1. HashedIsProvisioned'
    BY <1>a, <1>1, SameLog DEF HashedIsProvisioned, HashInv
  <2>2. HashedIsNotDone'
    <3> SUFFICES ASSUME NEW id \in OpIDs, worker[id] # Nil, worker[id].pc = "succeed",
                        instances'[worker[id].inst] # Nil,
                        instances'[worker[id].inst].params = Hashed
                 PROVE  FALSE
      BY <1>1 DEF HashedIsNotDone, HashedRecord
    <3>1. PICK i \in Instances : i = worker[id].inst
      BY <1>d
    <3>2. HashedRecord(i)'
      BY <3>1 DEF HashedRecord
    <3> QED
      BY <1>a, <3>1, <3>2 DEF HashedIsNotDone, HashInv, HashedRecord
  <2> QED
    BY <2>1, <2>2
<1>2. ASSUME NEW t \in Threads, Returns(t)
      PROVE  HashInv'
  <2>1. HashedIsChecked'
    BY <1>0, <1>2, IdleFacts DEF Returns, Sets, HashedIsChecked, HashInv, HashedRecord
  <2>2. SavedIsQuiet'
    BY <1>2, IdleFacts DEF Returns, Sets, SavedIsQuiet, HashInv, HasOp
  <2> QED
    BY <1>1, <1>2, <2>1, <2>2 DEF HashInv, Returns
<1>3. ASSUME NEW t \in Threads, Enters(t)
      PROVE  HashInv'
  <2>1. HashedIsChecked'
    BY <1>3 DEF Enters, Moves, Sets, HashedIsChecked, HashInv, HashedRecord, Checking
  <2>2. SavedIsQuiet'
    BY <1>3 DEF Enters, Moves, Sets, SavedIsQuiet, HashInv, HasOp
  <2> QED
    BY <1>1, <1>3, <2>1, <2>2 DEF HashInv, Enters
<1>4. ASSUME NEW t \in Threads, Passes(t)
      PROVE  HashInv'
  <2>0. handler[t].pc # "idle"
    BY <1>4 DEF Passes, PassesOn
  <2>1. handler[t].type = "create" /\ HashedRecord(handler[t].inst) => handler'[t].pc \in Checking
    <3>1. handler[t].type = "create" /\ HashedRecord(handler[t].inst) => IsProvisioned(handler[t].inst)
      BY <1>b DEF HashInv, HashedIsProvisioned, IsProvisioned
    <3>2. handler[t].type = "create" /\ HashedRecord(handler[t].inst) => handler[t].pc \in Checking
      BY DEF HashInv, HashedIsChecked
    <3> QED
      BY <1>4, <3>1, <3>2 DEF Passes, PassesOn, Checking
  <2>2. HashedIsChecked'
    BY <1>4, <2>1 DEF Passes, Moves, Sets, HashedIsChecked, HashInv, HashedRecord
  <2>3. handler'[t].pc = "saveParams" => ~HasOp(handler[t].inst, "create", "in progress")
    <3>1. handler'[t].pc = "saveParams" => HashedRecord(handler[t].inst) /\ handler[t].pc = "compareParams"
      BY <1>4 DEF Passes, PassesOn
    <3>2. handler[t].inst \in Instances
      BY <2>0, HandlerFacts
    <3> QED
      BY <3>1, <3>2 DEF HashInv, HashedIsProvisioned
  <2>4. SavedIsQuiet'
    BY <1>4, <2>3 DEF Passes, Moves, Sets, SavedIsQuiet, HashInv, HasOp
  <2> QED
    BY <1>1, <1>4, <2>2, <2>4 DEF HashInv, Passes
<1>5. ASSUME NEW t \in Threads, Saves(t)
      PROVE  HashInv'
  <2>1. handler[t].type = "create" /\ handler[t].inst \in Instances /\ handler[t].op \in OpIDs \cup {Nil}
    BY <1>5, HandlerFacts DEF Saves, CreatePCs, Handler
  <2>2. \A u \in Threads : u # t => handler[u].type # "create"
    BY <1>0, <2>1, OneOfAType
  <2>3. \A u \in Threads : handler'[u].type # "create" /\ handler'[u].pc # "saveParams"
    BY <1>0, <1>5, <1>c, <2>2, IdleFacts DEF Saves, Sets
  <2>4. HashedIsChecked' /\ SavedIsQuiet'
    BY <2>3 DEF HashedIsChecked, SavedIsQuiet
  <2>5. HashedIsProvisioned'
    BY <1>5, <1>a, SameLog DEF Saves, HashedIsProvisioned, HashInv
  <2>6. \A id \in OpIDs : worker'[id] # Nil /\ worker'[id].pc = "succeed" => worker'[id] = worker[id]
    BY <1>5 DEF Saves
  <2>7. HashedIsNotDone'
    <3> SUFFICES ASSUME NEW id \in OpIDs, worker'[id] # Nil, worker'[id].pc = "succeed",
                        HashedRecord(worker[id].inst)', worker'[id] = worker[id]
                 PROVE  FALSE
      BY <2>6 DEF HashedIsNotDone, HashedRecord
    <3>1. PICK i \in Instances : i = worker[id].inst
      BY <1>d
    <3>2. HashedRecord(i)'
      BY <3>1 DEF HashedRecord
    <3> QED
      BY <1>a, <3>1, <3>2 DEF HashedIsNotDone, HashInv, HashedRecord
  <2> QED
    BY <2>4, <2>5, <2>7 DEF HashInv
<1>6. ASSUME NEW t \in Threads, Opens(t)
      PROVE  HashInv'
  <2>1. PICK i \in Instances, y \in OpTypes : i = handler[t].inst /\ y = handler[t].type
    BY <1>6, OpensLog
  <2>2. y = "create" => ~HashedRecord(i)
    BY <1>6, <2>1 DEF Opens, HashInv, HashedIsChecked, Checking, InsertPCs
  <2>3. \A j \in Instances :
          /\ HasOp(j, "create", "succeeded")' <=> HasOp(j, "create", "succeeded")
          /\ HasOp(j, "remove", "succeeded")' <=> HasOp(j, "remove", "succeeded")
          /\ HasOp(j, "create", "in progress")' <=>
               HasOp(j, "create", "in progress") \/ (j = i /\ y = "create")
    <3>1. \A j \in Instances, z \in OpTypes, s \in OpStates : HasOp(j, z, s)' <=>
            \/ HasOp(j, z, s)
            \/ j = handler[t].inst /\ z = handler[t].type /\ s = "in progress"
      BY <1>6, OpensLog
    <3> QED
      BY <1>0, <2>1, <3>1
  <2>4. HashedIsProvisioned'
    BY <1>a, <2>2, <2>3 DEF HashedIsProvisioned, HashInv
  <2>5. \A u \in Threads : u # t /\ handler[u].type = "create" => y # "create"
    BY <1>0, <2>1, OneOfAType
  <2>6. HashedIsChecked'
    <3>1. UNCHANGED instances
      BY <1>6 DEF Opens
    <3>2. \A u \in Threads : u # t => handler'[u] = handler[u]
      BY <1>6 DEF Opens, Moves, Sets
    <3>3. handler'[t].type = "create" => handler'[t].inst = i /\ y = "create"
      BY <1>0, <1>6, <2>1, IdleFacts DEF Opens, Moves, Sets
    <3> QED
      BY <2>2, <3>1, <3>2, <3>3 DEF HashedIsChecked, HashInv, HashedRecord
  <2>7. SavedIsQuiet'
    <3>1. \A u \in Threads : handler'[u].pc = "saveParams" => u # t /\ handler'[u] = handler[u]
      BY <1>6, IdleFacts DEF Opens, Moves, Sets
    <3>2. \A u \in Threads : handler'[u].pc = "saveParams" =>
            /\ handler'[u] = handler[u] /\ handler[u].inst \in Instances
            /\ ~HasOp(handler[u].inst, "create", "in progress") /\ y # "create"
      BY <1>c, <2>5, <3>1 DEF HashInv, SavedIsQuiet
    <3> SUFFICES ASSUME NEW u \in Threads, handler'[u].pc = "saveParams",
                        NEW j \in Instances, j = handler'[u].inst
                 PROVE  ~HasOp(j, "create", "in progress")'
      BY <3>2 DEF SavedIsQuiet, HasOp
    <3> QED
      BY <2>3, <3>2
  <2>8. \A id \in OpIDs : worker'[id] # Nil /\ worker'[id].pc = "succeed" => worker'[id] = worker[id]
    <3>1. CASE ~UNCHANGED worker
      <4>1. /\ worker'[handler[t].op] =
                 [pc |-> "delete", inst |-> handler[t].inst, rec |-> handler[t].req]
            /\ \A o \in OpIDs : o # handler[t].op => worker'[o] = worker[o]
        BY <1>6, <3>1 DEF Opens
      <4>2. worker'[handler[t].op].pc = "delete"
        BY <4>1
      <4> QED
        BY <4>1, <4>2
    <3> QED
      BY <3>1
  <2>9. HashedIsNotDone'
    BY <1>6, <2>8 DEF Opens, HashedIsNotDone, HashInv, HashedRecord
  <2> QED
    BY <2>4, <2>6, <2>7, <2>9 DEF HashInv
<1>7. ASSUME NEW id \in OpIDs, Works(id)
      PROVE  HashInv'
  <2>1. UNCHANGED <<ops, handler>>
    BY <1>7 DEF Works
  <2>2. HashedIsProvisioned'
    BY <1>a, <2>1, SameLog DEF HashedIsProvisioned, HashInv
  <2>3. HashedIsChecked'
    <3> SUFFICES ASSUME NEW t \in Threads, handler[t].type = "create",
                        NEW i \in Instances, i = handler[t].inst, HashedRecord(i)'
                 PROVE  handler[t].pc \in Checking
      BY <1>b, <2>1 DEF HashedIsChecked, HashedRecord
    <3> QED
      BY <1>a DEF HashInv, HashedIsChecked
  <2>4. SavedIsQuiet'
    BY <2>1 DEF SavedIsQuiet, HashInv, HasOp
  <2>5. HashedIsNotDone'
    <3> SUFFICES ASSUME NEW o \in OpIDs, worker'[o] # Nil, worker'[o].pc = "succeed",
                        NEW i \in Instances, i = worker'[o].inst, HashedRecord(i)'
                 PROVE  FALSE
      <4>1. \A o \in OpIDs : worker'[o] # Nil => worker'[o].inst \in Instances
        BY <1>7, <1>d DEF Works
      <4> QED
        BY <4>1 DEF HashedIsNotDone, HashedRecord
    <3>1. CASE o # id
      <4>1. worker'[o] = worker[o]
        BY <1>7, <3>1 DEF Works
      <4> QED
        BY <1>a, <4>1 DEF HashedIsNotDone, HashInv
    <3>2. CASE o = id
      <4>1. PICK w, r : w = worker[id] /\ r = [w.rec EXCEPT !.released = TRUE]
        OBVIOUS
      <4>2. /\ w.inst = i /\ w.rec \in Instance
            /\ w.pc = "record" => w.rec.params # Hashed
        BY <1>7, <3>2, <4>1, WorkerFacts DEF Works, KindsInv, Installing
      <4>3. r.params = w.rec.params
        BY <4>1, <4>2 DEF Instance
      <4>4. \/ w.pc = "record" /\ WritesRecord(i, r)
            \/ WritesRecord(i, Nil)
        BY <1>7, <3>2, <4>1, <4>2 DEF Works, Effect
      <4> QED
        BY <4>2, <4>3, <4>4 DEF WritesRecord, HashedRecord
    <3> QED
      BY <3>1, <3>2
  <2> QED
    BY <2>2, <2>3, <2>4, <2>5 DEF HashInv
<1>8. ASSUME NEW id \in OpIDs, Ends(id)
      PROVE  HashInv'
  <2>0. /\ UNCHANGED <<instances, handler>> /\ Closes(id)
        /\ worker[id] # Nil /\ worker[id].inst \in Instances
    BY <1>8, <1>d, EndsLog DEF Ends
  <2>1. HashedIsProvisioned'
    <3> SUFFICES ASSUME NEW i \in Instances, HashedRecord(i)
                 PROVE  /\ HasOp(i, "create", "succeeded")'
                        /\ ~HasOp(i, "create", "in progress")'
                        /\ ~HasOp(i, "remove", "succeeded")'
      BY <1>a DEF HashedIsProvisioned
    <3>1. /\ HasOp(i, "create", "succeeded")
          /\ ~HasOp(i, "create", "in progress")
          /\ ~HasOp(i, "remove", "succeeded")
      BY DEF HashedIsProvisioned, HashInv
    <3>2. ~(i = worker[id].inst /\ worker[id].pc = "succeed")
      BY <2>0 DEF HashedIsNotDone, HashInv
    <3> QED
      BY <1>0, <2>0, <3>1, <3>2 DEF Closes
  <2>2. HashedIsChecked'
    BY <2>0 DEF HashedIsChecked, HashInv, HashedRecord
  <2>3. HashedIsNotDone'
    BY <1>8, <2>0 DEF Ends, HashedIsNotDone, HashInv, HashedRecord
  <2>4. SavedIsQuiet'
    <3> SUFFICES ASSUME NEW t \in Threads, handler[t].pc = "saveParams",
                        NEW i \in Instances, i = handler[t].inst
                 PROVE  ~HasOp(i, "create", "in progress")'
      BY <1>c, <2>0 DEF SavedIsQuiet, HasOp
    <3>1. ~HasOp(i, "create", "in progress")
      BY DEF SavedIsQuiet, HashInv
    <3> QED
      BY <1>0, <2>0, <3>1 DEF Closes
  <2> QED
    BY <2>1, <2>2, <2>3, <2>4 DEF HashInv
<1>9. CASE Restarts
  <2>1. HashedIsProvisioned'
    <3>1. CASE UNCHANGED ops
      BY <1>a, <3>1, SameLog DEF HashedIsProvisioned, HashInv
    <3>2. CASE ~UNCHANGED ops
      BY <1>9, <3>2, RestartLog DEF HashedIsProvisioned, HashedRecord
    <3> QED
      BY <3>1, <3>2
  <2>2. HashedIsChecked' /\ SavedIsQuiet' /\ HashedIsNotDone'
    BY <1>0, <1>9, IdleFacts DEF Restarts, HashedIsChecked, SavedIsQuiet, HashedIsNotDone
  <2> QED
    BY <2>1, <2>2 DEF HashInv
<1>10. CASE UNCHANGED <<ops, instances, releases, handler, worker>>
  BY <1>10 DEF HashInv, HashedIsProvisioned, HashedIsChecked, HashedIsNotDone, SavedIsQuiet,
               HashedRecord, HasOp
<1> QED
  BY <1>2, <1>3, <1>4, <1>5, <1>6, <1>7, <1>8, <1>9, <1>10 DEF Step

-----------------------------------------------------------------------------
(* OnceInv.                                                                *)

(* Two goroutines never work on one instance, and none works on the        *)
(* instance a handler is about to start one for.                           *)
LEMMA OneWorker ==
  ASSUME IInv, Serialised, NEW id \in OpIDs, worker[id] # Nil
  PROVE  /\ \A o \in OpIDs : worker[o] # Nil /\ worker[o].inst = worker[id].inst => o = id
         /\ \A t \in Threads : handler[t].pc = "findPlan" => handler[t].inst # worker[id].inst
<1>1. InProgress(id) /\ ops[id].inst = worker[id].inst
  BY DEF IInv, WorkerRunsOperation
<1>2. \A o \in OpIDs : InProgress(o) /\ ops[o].inst = ops[id].inst => o = id
  BY <1>1 DEF IInv, OneInProgress
<1>3. \A o \in OpIDs : worker[o] # Nil => InProgress(o) /\ ops[o].inst = worker[o].inst
  BY DEF IInv, WorkerRunsOperation
<1>4. \A t \in Threads : handler[t].pc = "findPlan" =>
        /\ handler[t].op \in OpIDs /\ InProgress(handler[t].op)
        /\ ops[handler[t].op].inst = handler[t].inst /\ worker[handler[t].op] = Nil
  BY DEF IInv, HandlerOwnsID
<1> QED
  BY <1>1, <1>2, <1>3, <1>4

(* What a provisioning goroutine has to write back, it finds there.        *)
LEMMA RecordStandsStep ==
  ASSUME IInv, IInv', Serialised, KindsInv, HashInv, OnceInv, Step
  PROVE  RecordStands'
<1>0. RecordStands
  BY DEF OnceInv
<1>1. ASSUME UNCHANGED instances,
             \A id \in OpIDs : worker'[id] # Nil /\ worker'[id].pc \in Installing =>
               /\ worker[id] # Nil /\ worker[id].pc \in Installing
               /\ worker'[id].inst = worker[id].inst /\ worker'[id].rec = worker[id].rec
      PROVE  RecordStands'
  BY <1>0, <1>1 DEF RecordStands
<1>2. ASSUME NEW t \in Threads, Saves(t)
      PROVE  RecordStands'
  <2>0. handler[t].inst \in Instances /\ handler[t].req \in Instance
    BY <1>2, HandlerFacts DEF Saves, CreatePCs
  <2>1. \A id \in OpIDs : worker[id] # Nil /\ worker[id].pc \in Installing =>
          worker[id].inst # handler[t].inst
    <3>1. CASE handler[t].pc = "findPlan"
      BY <3>1, OneWorker
    <3>2. CASE handler[t].pc = "saveParams"
      <4> SUFFICES ASSUME NEW id \in OpIDs, worker[id] # Nil, worker[id].pc \in Installing,
                          worker[id].inst = handler[t].inst
                   PROVE  FALSE
        OBVIOUS
      <4>1. /\ ops[id] \in InstanceOperation /\ ops[id].type = "create"
            /\ ops[id].inst = handler[t].inst /\ ops[id].state = "in progress"
        BY DEF KindsInv, IInv, TypeOK, WorkerRunsOperation, InProgress
      <4>2. ops[id] = [inst |-> handler[t].inst, type |-> "create", state |-> "in progress"]
        BY <4>1 DEF InstanceOperation
      <4>3. HasOp(handler[t].inst, "create", "in progress")
        BY <4>2 DEF HasOp
      <4> QED
        BY <3>2, <4>3 DEF HashInv, SavedIsQuiet
    <3> QED
      BY <1>2, <3>1, <3>2 DEF Saves
  <2>2. \A id \in OpIDs : worker[id] # Nil => worker[id].inst \in Instances
    BY WorkerFacts
  <2>3. /\ instances'[handler[t].inst] = handler[t].req
        /\ \A j \in Instances : j # handler[t].inst => instances'[j] = instances[j]
        /\ handler[t].req # Nil
    BY <1>2, <2>0, NilAssumption DEF Saves, WritesRecord
  <2>4. CASE UNCHANGED worker
    BY <1>0, <2>1, <2>2, <2>3, <2>4 DEF RecordStands
  <2>5. CASE ~UNCHANGED worker
    <3>1. /\ worker'[handler[t].op] =
               [pc |-> "install", inst |-> handler[t].inst, rec |-> handler[t].req]
          /\ \A id \in OpIDs : id # handler[t].op => worker'[id] = worker[id]
      BY <1>2, <2>5 DEF Saves
    <3>2. worker'[handler[t].op].inst = handler[t].inst /\ worker'[handler[t].op].rec = handler[t].req
      BY <3>1
    <3> QED
      BY <1>0, <2>1, <2>2, <2>3, <3>1, <3>2 DEF RecordStands
  <2> QED
    BY <2>4, <2>5
<1>3. ASSUME NEW id \in OpIDs, Works(id)
      PROVE  RecordStands'
  <2>0. /\ worker[id] # Nil /\ worker'[id].inst = worker[id].inst /\ worker'[id].rec = worker[id].rec
        /\ \A o \in OpIDs : o # id => worker'[o] = worker[o]
    BY <1>3 DEF Works
  <2>1. \A o \in OpIDs : o # id /\ worker[o] # Nil => worker[o].inst # worker[id].inst
    BY <2>0, OneWorker
  <2>2. \A o \in OpIDs : worker[o] # Nil => worker[o].inst \in Instances
    BY WorkerFacts
  <2>3. \A j \in Instances : j # worker[id].inst => instances'[j] = instances[j]
    BY <1>3 DEF Works, Effect, WritesRecord
  <2>4. worker'[id].pc \in Installing => UNCHANGED instances /\ worker[id].pc \in Installing
    BY <1>3 DEF Works, Effect, Installing
  <2> SUFFICES ASSUME NEW o \in OpIDs, worker'[o] # Nil, worker'[o].pc \in Installing
               PROVE  /\ instances'[worker'[o].inst] # Nil
                      /\ instances'[worker'[o].inst].ns = worker'[o].rec.ns
                      /\ instances'[worker'[o].inst].svc = worker'[o].rec.svc
    BY DEF RecordStands
  <2>5. CASE o = id
    BY <1>0, <2>0, <2>4, <2>5 DEF RecordStands
  <2>6. CASE o # id
    BY <1>0, <2>0, <2>1, <2>2, <2>3, <2>6 DEF RecordStands
  <2> QED
    BY <2>5, <2>6
<1>4. ASSUME NEW t \in Threads, Opens(t)
      PROVE  RecordStands'
  <2>1. UNCHANGED instances
    BY <1>4 DEF Opens
  <2>2. CASE UNCHANGED worker
    BY <1>1, <2>1, <2>2
  <2>3. CASE ~UNCHANGED worker
    <3>1. /\ worker'[handler[t].op] =
               [pc |-> "delete", inst |-> handler[t].inst, rec |-> handler[t].req]
          /\ \A o \in OpIDs : o # handler[t].op => worker'[o] = worker[o]
      BY <1>4, <2>3 DEF Opens
    <3>2. worker'[handler[t].op].pc = "delete"
      BY <3>1
    <3> QED
      BY <1>1, <2>1, <3>1, <3>2 DEF Installing
  <2> QED
    BY <2>2, <2>3
<1>5. ASSUME NEW id \in OpIDs, Ends(id)
      PROVE  RecordStands'
  <2>1. \A o \in OpIDs : worker'[o] # Nil => worker'[o] = worker[o]
    BY <1>5 DEF Ends
  <2> QED
    BY <1>1, <1>5, <2>1 DEF Ends
<1>6. CASE Restarts
  BY <1>6 DEF Restarts, RecordStands
<1>7. CASE UNCHANGED <<instances, worker>>
  BY <1>1, <1>7
<1> QED
  BY <1>2, <1>3, <1>4, <1>5, <1>6, <1>7 DEF Step, Returns, Enters, Passes

(* The goroutines write no record for a service or a namespace for which   *)
(* there was none.                                                         *)
LEMMA WorkersWriteBack ==
  ASSUME IInv, OnceInv, NEW id \in OpIDs, Works(id), NEW j \in Instances, instances'[j] # Nil
  PROVE  /\ instances[j] # Nil
         /\ instances'[j].ns = instances[j].ns /\ instances'[j].svc = instances[j].svc
<1>1. PICK w, r : w = worker[id] /\ r = [w.rec EXCEPT !.released = TRUE]
  OBVIOUS
<1>2. w # Nil /\ w.inst \in Instances /\ w.rec \in Instance
  BY <1>1, WorkerFacts DEF Works
<1>3. r.ns = w.rec.ns /\ r.svc = w.rec.svc
  BY <1>1, <1>2 DEF Instance
<1>4. w.pc = "record" =>
        /\ instances[w.inst] # Nil
        /\ instances[w.inst].ns = w.rec.ns /\ instances[w.inst].svc = w.rec.svc
  BY <1>1, <1>2 DEF OnceInv, RecordStands, Installing
<1>5. \/ UNCHANGED instances
      \/ w.pc = "record" /\ WritesRecord(w.inst, r)
      \/ WritesRecord(w.inst, Nil)
  BY <1>1 DEF Works, Effect
<1> QED
  BY <1>2, <1>3, <1>4, <1>5 DEF WritesRecord

(* The verdict of IsProvisioningAllowed outlives the calls between it and  *)
(* the Upsert (provision.go:106-149).                                      *)
LEMMA StillAllowedStep ==
  ASSUME IInv, IInv', KindsInv, OnceInv, Step
  PROVE  StillAllowed'
<1>0. StillAllowed /\ "create" \in OpTypes
  BY DEF OnceInv, OpTypes
<1>a. \A t \in Threads : Cleared(t) => handler[t].type = "create"
  BY HandlerFacts DEF Cleared, CreatePCs
<1>1. ASSUME UNCHANGED instances,
             \A u \in Threads : Cleared(u)' =>
               /\ Cleared(u)
               /\ handler'[u].inst = handler[u].inst /\ handler'[u].req = handler[u].req
      PROVE  StillAllowed'
  BY <1>0, <1>1 DEF StillAllowed
<1>2. ASSUME NEW t \in Threads, Sets(t, Idle), UNCHANGED instances
      PROVE  StillAllowed'
  <2>1. \A u \in Threads : Cleared(u)' => u # t
    BY <1>2, IdleFacts DEF Sets, Cleared, InsertPCs
  <2>2. \A u \in Threads : Cleared(u)' => Cleared(u) /\ handler'[u] = handler[u]
    BY <1>2, <2>1 DEF Sets, Cleared
  <2> QED
    BY <1>1, <1>2, <2>2
<1>3. ASSUME NEW t \in Threads, Enters(t)
      PROVE  StillAllowed'
  <2>1. \A u \in Threads : Cleared(u)' => u # t
    BY <1>3 DEF Enters, Cleared, InsertPCs
  <2>2. \A u \in Threads : Cleared(u)' => Cleared(u) /\ handler'[u] = handler[u]
    BY <1>3, <2>1 DEF Enters, Moves, Sets, Cleared
  <2> QED
    BY <1>1, <1>3, <2>2 DEF Enters
<1>4. ASSUME NEW t \in Threads, Passes(t)
      PROVE  StillAllowed'
  <2>0. handler[t].pc # "idle"
    BY <1>4 DEF Passes, PassesOn
  <2>1. handler[t].inst \in Instances
    BY <2>0, HandlerFacts
  <2>2. Cleared(t)' => \A j \in Instances : j # handler[t].inst /\ instances[j] # Nil =>
                         Differ(handler'[t].req, instances[j])
    <3>1. CASE handler[t].pc = "compareParams" /\ handler'[t].pc = "saveParams"
      <4>1. /\ instances[handler[t].inst] # Nil
            /\ handler'[t].req.ns = instances[handler[t].inst].ns
            /\ handler'[t].req.svc = instances[handler[t].inst].svc
        BY <1>4, <3>1 DEF Passes, PassesOn, HashedRecord
      <4> QED
        BY <2>1, <4>1 DEF OnceInv, ProvisionedOnce, Differ
    <3>2. CASE handler[t].pc = "getAddon" /\ handler'[t].pc = "insert"
      <4>1. handler'[t].req = handler[t].req /\ IsProvisioningAllowed(handler[t].req)
        BY <1>4, <3>2 DEF Passes, PassesOn
      <4> QED
        BY <4>1 DEF IsProvisioningAllowed, Differ
    <3>3. CASE handler[t].pc = "insert" /\ handler'[t].pc = "put"
      <4>1. handler'[t].req = handler[t].req /\ handler'[t].type = handler[t].type
        BY <1>4, <3>3 DEF Passes, PassesOn
      <4> QED
        BY <1>0, <3>3, <4>1 DEF StillAllowed, Cleared, InsertPCs
    <3>4. CASE handler[t].pc = "getInstance"
      <4>1. handler'[t].type = "remove" /\ handler'[t].pc = "insert"
        BY <1>4, <3>4, HandlerFacts DEF Passes, PassesOn, RemovePCs
      <4> QED
        BY <4>1 DEF Cleared
    <3>5. CASE handler'[t].pc \in {"compareParams", "isProvisioningInProgress", "getAddon",
                                   "isDeprovisioningInProgress", "getInstance"}
      BY <3>5 DEF Cleared, InsertPCs
    <3> QED
      BY <1>4, <3>1, <3>2, <3>3, <3>4, <3>5 DEF Passes, PassesOn
  <2>3. \A u \in Threads : u # t => handler'[u] = handler[u]
    BY <1>4 DEF Passes, Moves, Sets
  <2>4. \A u \in Threads : u # t => (Cleared(u)' <=> Cleared(u))
    BY <2>3 DEF Cleared
  <2> QED
    BY <1>0, <1>4, <2>2, <2>3, <2>4 DEF StillAllowed, Passes
<1>5. ASSUME NEW t \in Threads, Saves(t)
      PROVE  StillAllowed'
  <2>1. handler[t].type = "create"
    BY <1>5, HandlerFacts DEF Saves, CreatePCs
  <2>2. \A u \in Threads : u # t => ~Cleared(u)
    BY <1>0, <1>a, <2>1, OneOfAType
  <2>3. \A u \in Threads : ~Cleared(u)'
    BY <1>5, <2>2, IdleFacts DEF Saves, Sets, Cleared, InsertPCs
  <2> QED
    BY <2>3 DEF StillAllowed
<1>6. ASSUME NEW t \in Threads, Opens(t)
      PROVE  StillAllowed'
  <2>1. CASE Sets(t, Idle)
    BY <1>2, <1>6, <2>1 DEF Opens
  <2>2. CASE ~Sets(t, Idle)
    <3>1. /\ handler[t].type = "create" /\ handler[t].pc \in InsertPCs
          /\ handler'[t].inst = handler[t].inst /\ handler'[t].req = handler[t].req
          /\ Moves(t) /\ UNCHANGED instances
      BY <1>6, <2>2 DEF Opens
    <3>2. Cleared(t)
      BY <3>1 DEF Cleared
    <3>3. \A u \in Threads : u # t => handler'[u] = handler[u]
      BY <3>1 DEF Moves, Sets
    <3>4. \A u \in Threads : u # t => (Cleared(u)' <=> Cleared(u))
      BY <3>3 DEF Cleared
    <3> QED
      BY <1>1, <3>1, <3>2, <3>3, <3>4
  <2> QED
    BY <2>1, <2>2
<1>7. ASSUME NEW id \in OpIDs, Works(id)
      PROVE  StillAllowed'
  <2>1. \A j \in Instances : instances'[j] # Nil =>
          /\ instances[j] # Nil
          /\ instances'[j].ns = instances[j].ns /\ instances'[j].svc = instances[j].svc
    BY <1>7, WorkersWriteBack
  <2> QED
    BY <1>0, <1>7, <2>1 DEF Works, StillAllowed, Cleared, Differ
<1>8. CASE Restarts
  <2>1. \A u \in Threads : ~Cleared(u)'
    BY <1>8, IdleFacts DEF Restarts, Cleared, InsertPCs
  <2> QED
    BY <2>1 DEF StillAllowed
<1>9. CASE UNCHANGED <<instances, handler>>
  BY <1>1, <1>9 DEF Cleared
<1> QED
  BY <1>2, <1>3, <1>4, <1>5, <1>6, <1>7, <1>8, <1>9 DEF Step, Returns, Ends

(* Every step preserves OnceInv.                                           *)
LEMMA OnceStep ==
  ASSUME IInv, IInv', Serialised, KindsInv, HashInv, OnceInv, Step
  PROVE  OnceInv'
<1>1. RecordStands' /\ StillAllowed'
  BY RecordStandsStep, StillAllowedStep
<1>2. ProvisionedOnce'
  <2>0. ProvisionedOnce
    BY DEF OnceInv
  <2>1. ASSUME NEW t \in Threads, Saves(t)
        PROVE  ProvisionedOnce'
    <3>1. Cleared(t) /\ handler[t].inst \in Instances
      BY <2>1, HandlerFacts DEF Saves, Cleared
    <3>2. \A j \in Instances : j # handler[t].inst /\ instances[j] # Nil =>
            Differ(handler[t].req, instances[j])
      BY <3>1 DEF OnceInv, StillAllowed
    <3>3. /\ instances'[handler[t].inst] = handler[t].req
          /\ \A j \in Instances : j # handler[t].inst => instances'[j] = instances[j]
      BY <2>1 DEF Saves, WritesRecord
    <3> QED
      BY <2>0, <3>1, <3>2, <3>3 DEF ProvisionedOnce, Differ
  <2>2. ASSUME NEW id \in OpIDs, Works(id)
        PROVE  ProvisionedOnce'
    <3>1. \A j \in Instances : instances'[j] # Nil =>
            /\ instances[j] # Nil
            /\ instances'[j].ns = instances[j].ns /\ instances'[j].svc = instances[j].svc
      BY <2>2, WorkersWriteBack
    <3> QED
      BY <2>0, <3>1 DEF ProvisionedOnce
  <2>3. CASE UNCHANGED instances
    BY <2>0, <2>3 DEF ProvisionedOnce
  <2>4. CASE Restarts
    BY <2>0, <2>4 DEF Restarts, ProvisionedOnce
  <2> QED
    BY <2>1, <2>2, <2>3, <2>4 DEF Step, Returns, Enters, Passes, Opens, Ends
<1> QED
  BY <1>1, <1>2 DEF OnceInv

-----------------------------------------------------------------------------
(* The initial states.                                                     *)

(* What an old version may have left: records of provisioned instances and *)
(* their releases.                                                         *)
LEMMA InitFacts ==
  ASSUME Init
  PROVE  /\ \A t \in Threads : handler[t] = Idle
         /\ \A id \in OpIDs : worker[id] = Nil
         /\ \A i \in Instances, s \in OpStates : ~HasOp(i, "remove", s)
         /\ \A i \in Instances : ~HasOp(i, "create", "in progress")
         /\ \A i \in Instances : instances[i] # Nil =>
              i \in Legacy /\ HasOp(i, "create", "succeeded") /\ ~HasNoOps(i)
         /\ \A i \in Instances : HasOp(i, "create", "succeeded") => i \in Legacy
         /\ ProvisionedOnce
         /\ \A n \in ReleaseName : releases[n] # Nil =>
              n.inst \in Instances /\ instances[n.inst] # Nil /\ n = createReleaseName(n.inst, instances[n.inst])
<1>0. IInv
  BY InitHolds
<1>1. PICK op \in [Legacy -> OpIDs],
          rec \in [Legacy -> {r \in Instance : r.params = Hashed /\ r.released /\ r.plan \in Offered}] :
        /\ \A i, j \in Legacy : i # j =>
             /\ op[i] # op[j]
             /\ rec[i].svc \in OnlyOnce => <<rec[i].ns, rec[i].svc>> # <<rec[j].ns, rec[j].svc>>
        /\ ops = [id \in OpIDs |->
                    IF \E i \in Legacy : op[i] = id
                      THEN [inst |-> CHOOSE i \in Legacy : op[i] = id,
                            type |-> "create", state |-> "succeeded"]
                      ELSE Nil]
        /\ instances = [i \in Instances |-> IF i \in Legacy THEN rec[i] ELSE Nil]
        /\ releases = [n \in ReleaseName |->
                         IF \E i \in Legacy : n = createReleaseName(i, rec[i])
                           THEN [status |-> "deployed", params |-> Hashed]
                           ELSE Nil]
  BY DEF Init
<1>2. (\A t \in Threads : handler[t] = Idle) /\ (\A id \in OpIDs : worker[id] = Nil)
  BY DEF Init
<1>3. \A id \in OpIDs : ops[id] # Nil =>
        /\ ops[id].type = "create" /\ ops[id].state = "succeeded"
        /\ ops[id].inst \in Legacy
  <2> SUFFICES ASSUME NEW id \in OpIDs, ops[id] # Nil
               PROVE  /\ ops[id].type = "create" /\ ops[id].state = "succeeded"
                      /\ ops[id].inst \in Legacy
    OBVIOUS
  <2>1. \E i \in Legacy : op[i] = id
    BY <1>1
  <2>2. PICK j : j = CHOOSE i \in Legacy : op[i] = id
    OBVIOUS
  <2>3. j \in Legacy
    BY <2>1, <2>2
  <2>4. ops[id] = [inst |-> j, type |-> "create", state |-> "succeeded"]
    BY <1>1, <2>1, <2>2
  <2> QED
    BY <2>3, <2>4
<1>4. ASSUME NEW i \in Instances, NEW y \in OpTypes, NEW s \in OpStates, HasOp(i, y, s)
      PROVE  y = "create" /\ s = "succeeded" /\ i \in Legacy
  <2>1. OpIn(ops, i, y, s)
    BY <1>0, <1>4, OpByFields DEF HasOp, IInv, TypeOK
  <2> QED
    BY <1>3, <2>1 DEF OpIn
<1>5. /\ "create" \in OpTypes /\ "remove" \in OpTypes
      /\ "in progress" \in OpStates /\ "succeeded" \in OpStates
  BY DEF OpTypes, OpStates
<1>6. \A i \in Instances : instances[i] # Nil => i \in Legacy /\ instances[i] = rec[i]
  BY <1>1
<1>7. \A i \in Legacy : i \in Instances /\ instances[i] = rec[i] /\ rec[i] # Nil
  BY <1>1, ConstantsAssumption, NilAssumption
<1>8. ASSUME NEW i \in Legacy
      PROVE  HasOp(i, "create", "succeeded") /\ ~HasNoOps(i)
  <2>1. PICK id \in OpIDs : id = op[i]
    OBVIOUS
  <2>2. i = CHOOSE j \in Legacy : op[j] = id
    BY <1>1, <2>1
  <2>3. ops[id] = [inst |-> i, type |-> "create", state |-> "succeeded"]
    BY <1>1, <2>1, <2>2
  <2>4. ops[id] # Nil /\ ops[id].inst = i
    <3>0. i \in Instances
      BY ConstantsAssumption
    <3>1. [inst |-> i, type |-> "create", state |-> "succeeded"] \in InstanceOperation
      BY <1>5, <3>0 DEF InstanceOperation
    <3>2. ops[id] # Nil
      BY <2>3, <3>1, NilAssumption
    <3> QED
      BY <2>3, <3>2
  <2> QED
    BY <2>3, <2>4 DEF HasOp, HasNoOps
<1>9. ProvisionedOnce
  BY <1>1, <1>6 DEF ProvisionedOnce
<1>10. \A n \in ReleaseName : releases[n] # Nil =>
        n.inst \in Instances /\ instances[n.inst] # Nil /\ n = createReleaseName(n.inst, instances[n.inst])
  <2> SUFFICES ASSUME NEW n \in ReleaseName, releases[n] # Nil
               PROVE  /\ n.inst \in Instances /\ instances[n.inst] # Nil
                      /\ n = createReleaseName(n.inst, instances[n.inst])
    OBVIOUS
  <2>1. PICK i \in Legacy : n = createReleaseName(i, rec[i])
    BY <1>1
  <2>2. n.inst = i
    BY <2>1 DEF createReleaseName
  <2> QED
    BY <1>7, <2>1, <2>2
<1> QED
  BY <1>2, <1>4, <1>5, <1>6, <1>8, <1>9, <1>10

(* KindsInv holds in every reachable state.                                *)
LEMMA KindsAlways == Spec => []KindsInv
<1>1. Init => KindsInv
  BY InitFacts, IdleFacts, NilAssumption DEF KindsInv, OpTypes
<1>2. IInv /\ IInv' /\ KindsInv /\ [Next]_vars => KindsInv'
  BY StepCases, KindsStep
<1> QED
  BY <1>1, <1>2, Invariance, PTL DEF Spec

(* HashInv holds in every reachable state.                                 *)
LEMMA HashAlways == Spec => []HashInv
<1>1. Init => HashInv
  <2> SUFFICES ASSUME Init
               PROVE  HashInv
    OBVIOUS
  <2>1. HashedIsProvisioned
    BY InitFacts DEF HashedIsProvisioned, HashedRecord, OpStates
  <2>2. HashedIsChecked /\ HashedIsNotDone /\ SavedIsQuiet
    BY InitFacts, IdleFacts, NilAssumption DEF HashedIsChecked, HashedIsNotDone, SavedIsQuiet, OpTypes
  <2> QED
    BY <2>1, <2>2 DEF HashInv
<1>2. IInv /\ IInv' /\ KindsInv /\ HashInv /\ [Next]_vars => HashInv'
  BY StepCases, HashStep
<1> QED
  BY <1>1, <1>2, Invariance, KindsAlways, PTL DEF Spec

(* An addon with provisionOnlyOnce has at most one instance in a namespace *)
(* (provision.go:106), for any number of instances, requests, failed calls *)
(* and restarts, on both drivers, if requests about one instance do not    *)
(* overlap or the driver is the in-memory one.                             *)
THEOREM Records_ProvisionedOnce == ASSUME Serialised PROVE Spec => []ProvisionedOnce
<1>1. Init => OnceInv
  BY InitFacts, IdleFacts DEF OnceInv, RecordStands, StillAllowed, Cleared, InsertPCs
<1>2. IInv /\ IInv' /\ KindsInv /\ HashInv /\ OnceInv /\ [Next]_vars => OnceInv'
  BY StepCases, OnceStep
<1>3. OnceInv => ProvisionedOnce
  BY DEF OnceInv
<1> QED
  BY <1>1, <1>2, <1>3, Invariance, KindsAlways, HashAlways, PTL DEF Spec

-----------------------------------------------------------------------------
(* ReleaseInv.                                                             *)

(* The name of a release is made of the instance and of three fields of    *)
(* its record.                                                             *)
LEMMA NameFacts ==
  /\ \A i, r : createReleaseName(i, r).inst = i
  /\ \A i, r, s : r.svc = s.svc /\ r.plan = s.plan /\ r.ns = s.ns =>
       createReleaseName(i, r) = createReleaseName(i, s)
  BY DEF createReleaseName

(* What a step writes into the storage of instances, if it is neither the  *)
(* loss of the storage nor a removal, is a record of the instance as asked.*)
LEMMA KeptStep ==
  ASSUME IInv, NEW asks, AsAsked(asks), ReleaseInv(asks), Step
  PROVE  KeptAsAsked(asks)'
<1>0. KeptAsAsked(asks)
  BY DEF ReleaseInv
<1>1. ASSUME NEW t \in Threads, Saves(t)
      PROVE  KeptAsAsked(asks)'
  <2>1. createReleaseName(handler[t].inst, handler[t].req) = asks[handler[t].inst]
    <3>1. CASE handler[t].pc = "saveParams"
      BY <3>1 DEF ReleaseInv, HeldAsAsked
    <3>2. CASE handler[t].pc = "findPlan" /\ handler[t].req.plan \in Offered
      BY <3>2, HandlerFacts DEF AsAsked, CreatePCs
    <3> QED
      BY <1>1, <3>1, <3>2 DEF Saves
  <2> QED
    BY <1>0, <1>1, <2>1 DEF Saves, WritesRecord, KeptAsAsked
<1>2. ASSUME NEW id \in OpIDs, Works(id)
      PROVE  KeptAsAsked(asks)'
  <2>1. PICK w, r : w = worker[id] /\ r = [w.rec EXCEPT !.released = TRUE]
    OBVIOUS
  <2>2. w # Nil /\ w.inst \in Instances /\ w.rec \in Instance
    BY <1>2, <2>1, WorkerFacts DEF Works
  <2>3. r.ns = w.rec.ns /\ r.svc = w.rec.svc /\ r.plan = w.rec.plan
    BY <2>1, <2>2 DEF Instance
  <2>4. createReleaseName(w.inst, r) = asks[w.inst]
    <3>1. createReleaseName(w.inst, r) = createReleaseName(w.inst, w.rec)
      BY <2>3, NameFacts
    <3>2. createReleaseName(w.inst, w.rec) = asks[w.inst]
      BY <2>1, <2>2 DEF ReleaseInv, WorkersAsAsked
    <3> QED
      BY <3>1, <3>2
  <2>5. \/ UNCHANGED instances
        \/ WritesRecord(w.inst, r)
        \/ WritesRecord(w.inst, Nil)
    BY <1>2, <2>1 DEF Works, Effect
  <2> QED
    BY <1>0, <2>2, <2>4, <2>5 DEF WritesRecord, KeptAsAsked
<1>3. CASE UNCHANGED instances
  BY <1>0, <1>3 DEF KeptAsAsked
<1>4. CASE Restarts
  BY <1>0, <1>4 DEF Restarts, KeptAsAsked
<1> QED
  BY <1>1, <1>2, <1>3, <1>4 DEF Step, Returns, Enters, Passes, Opens, Ends

(* The records that handlers carry are those of their instances.           *)
LEMMA HeldStep ==
  ASSUME IInv, NEW asks, AsAsked(asks), ReleaseInv(asks), Step
  PROVE  HeldAsAsked(asks)'
<1>0. KeptAsAsked(asks) /\ HeldAsAsked(asks)
  BY DEF ReleaseInv
<1>1. ASSUME NEW t \in Threads, Sets(t, Idle)
      PROVE  HeldAsAsked(asks)'
  BY <1>0, <1>1, IdleFacts DEF Sets, HeldAsAsked, InsertPCs
<1>2. ASSUME NEW t \in Threads, Enters(t)
      PROVE  HeldAsAsked(asks)'
  BY <1>0, <1>2 DEF Enters, Moves, Sets, HeldAsAsked, InsertPCs
<1>3. ASSUME NEW t \in Threads, Passes(t)
      PROVE  HeldAsAsked(asks)'
  <2>0. handler[t].pc # "idle" /\ handler[t].inst \in Instances
    BY <1>3, HandlerFacts DEF Passes, PassesOn
  <2>1. \/ handler'[t].pc = "saveParams"
        \/ handler'[t].pc \in InsertPCs /\ handler'[t].type = "remove"
        => createReleaseName(handler'[t].inst, handler'[t].req) = asks[handler'[t].inst]
    <3>1. CASE handler'[t].pc = "saveParams"
      <4>1. /\ instances[handler[t].inst] # Nil
            /\ handler'[t].inst = handler[t].inst
            /\ handler'[t].req.ns = instances[handler[t].inst].ns
            /\ handler'[t].req.svc = instances[handler[t].inst].svc
            /\ handler'[t].req.plan = instances[handler[t].inst].plan
        BY <1>3, <3>1 DEF Passes, PassesOn, HashedRecord
      <4> QED
        BY <1>0, <2>0, <4>1, NameFacts DEF KeptAsAsked
    <3>2. CASE handler[t].pc = "getInstance" /\ handler'[t].pc = "insert"
      <4>1. /\ instances[handler[t].inst] # Nil
            /\ handler'[t].inst = handler[t].inst
            /\ handler'[t].req = instances[handler[t].inst]
        BY <1>3, <3>2 DEF Passes, PassesOn
      <4> QED
        BY <1>0, <2>0, <4>1 DEF KeptAsAsked
    <3>3. CASE handler[t].pc = "getAddon"
      <4>1. handler'[t].type = "create" /\ handler'[t].pc = "insert"
        BY <1>3, <3>3, HandlerFacts DEF Passes, PassesOn, CreatePCs
      <4> QED
        BY <4>1
    <3>4. CASE handler[t].pc = "insert"
      <4>1. /\ handler'[t].pc = "put" /\ handler'[t].type = handler[t].type
            /\ handler'[t].inst = handler[t].inst /\ handler'[t].req = handler[t].req
        BY <1>3, <3>4 DEF Passes, PassesOn
      <4> QED
        BY <1>0, <3>4, <4>1 DEF HeldAsAsked, InsertPCs
    <3>5. CASE handler'[t].pc \in {"compareParams", "isProvisioningInProgress", "getAddon",
                                   "isDeprovisioningInProgress", "getInstance"}
      BY <3>5 DEF InsertPCs
    <3> QED
      BY <1>3, <3>1, <3>2, <3>3, <3>4, <3>5 DEF Passes, PassesOn
  <2> QED
    BY <1>0, <1>3, <2>1 DEF Passes, Moves, Sets, HeldAsAsked
<1>4. ASSUME NEW t \in Threads, Opens(t)
      PROVE  HeldAsAsked(asks)'
  <2>1. CASE Sets(t, Idle)
    BY <1>1, <2>1
  <2>2. CASE ~Sets(t, Idle)
    <3>1. handler'[t].pc = "findPlan" /\ Moves(t)
      BY <1>4, <2>2 DEF Opens
    <3> QED
      BY <1>0, <3>1 DEF Moves, Sets, HeldAsAsked, InsertPCs
  <2> QED
    BY <2>1, <2>2
<1>5. CASE Restarts
  BY <1>5, IdleFacts DEF Restarts, HeldAsAsked, InsertPCs
<1>6. CASE UNCHANGED handler
  BY <1>0, <1>6 DEF HeldAsAsked
<1> QED
  BY <1>1, <1>2, <1>3, <1>4, <1>5, <1>6 DEF Step, Returns, Saves, Works, Ends

(* A release exists only while a record names it.                          *)
LEMMA NamedStep ==
  ASSUME IInv, Durable, NEW asks, ReleaseInv(asks), Step
  PROVE  ReleasesNamed(asks)'
<1>0. ReleasesNamed(asks)
  BY DEF ReleaseInv
<1>a. \A n \in ReleaseName : n.inst \in Instances
  BY DEF ReleaseName
<1>1. ASSUME NEW t \in Threads, Saves(t)
      PROVE  ReleasesNamed(asks)'
  <2>1. handler[t].req # Nil
    BY <1>1, HandlerFacts, NilAssumption DEF Saves, CreatePCs
  <2> QED
    BY <1>0, <1>1, <1>a, <2>1 DEF Saves, WritesRecord, ReleasesNamed
<1>2. ASSUME NEW id \in OpIDs, Works(id)
      PROVE  ReleasesNamed(asks)'
  <2>1. PICK w, r, n : /\ w = worker[id] /\ r = [w.rec EXCEPT !.released = TRUE]
                       /\ n = createReleaseName(w.inst, w.rec)
    OBVIOUS
  <2>2. /\ w # Nil /\ w.inst \in Instances /\ w.rec \in Instance
        /\ n \in ReleaseName /\ n.inst = w.inst /\ n = asks[w.inst]
    BY <1>2, <2>1, WorkerFacts, RecordFacts, NameFacts DEF Works, ReleaseInv, WorkersAsAsked
  <2>3. r # Nil
    BY <2>1, <2>2, RecordFacts, NilAssumption
  <2>4. /\ w.pc \in Installing => instances[w.inst] # Nil
        /\ w.pc = "forget" => releases[n] = Nil
    BY <2>1, <2>2 DEF ReleaseInv, WorkersAsAsked
  <2>5. PICK pc : pc = worker'[id].pc /\ Effect(w, pc)
    BY <1>2, <2>1 DEF Works
  <2>6. CASE w.pc = "install" /\ pc = "installing"
    <3>1. UNCHANGED instances /\ \A m \in ReleaseName : m # n => releases'[m] = releases[m]
      BY <2>1, <2>5, <2>6 DEF Effect, WritesRelease
    <3> QED
      BY <1>0, <2>2, <2>4, <2>6, <3>1 DEF ReleasesNamed, Installing
  <2>7. CASE w.pc \in {"installing", "delete"}
    <3>1. /\ UNCHANGED instances
          /\ releases'[n] # Nil => releases[n] # Nil
          /\ \A m \in ReleaseName : m # n => releases'[m] = releases[m]
      BY <2>1, <2>5, <2>7 DEF Effect, WritesRelease
    <3> QED
      BY <1>0, <2>2, <3>1 DEF ReleasesNamed
  <2>8. CASE w.pc = "record"
    <3>1. UNCHANGED releases /\ (UNCHANGED instances \/ WritesRecord(w.inst, r))
      BY <2>1, <2>5, <2>8 DEF Effect
    <3> QED
      BY <1>0, <1>a, <2>2, <2>3, <3>1 DEF ReleasesNamed, WritesRecord
  <2>9. CASE w.pc = "forget"
    <3>1. UNCHANGED releases /\ (UNCHANGED instances \/ WritesRecord(w.inst, Nil))
      BY <2>1, <2>5, <2>9 DEF Effect
    <3>2. \A m \in ReleaseName : releases[m] # Nil => m.inst # w.inst
      BY <1>0, <2>2, <2>4, <2>9 DEF ReleasesNamed
    <3> QED
      BY <1>0, <1>a, <3>1, <3>2 DEF ReleasesNamed, WritesRecord
  <2>10. CASE w.pc = "install" /\ pc = "fail"
    <3>1. UNCHANGED <<instances, releases>>
      BY <2>1, <2>5, <2>10 DEF Effect
    <3> QED
      BY <1>0, <3>1 DEF ReleasesNamed
  <2> QED
    BY <2>5, <2>6, <2>7, <2>8, <2>9, <2>10 DEF Effect, Installing, Removing
<1>3. CASE UNCHANGED <<instances, releases>>
  BY <1>0, <1>3 DEF ReleasesNamed
<1>4. CASE Restarts
  BY <1>3, <1>4, ConstantsAssumption DEF Restarts, Durable
<1> QED
  BY <1>1, <1>2, <1>3, <1>4 DEF Step, Returns, Enters, Passes, Opens, Ends

(* The goroutines work on the release of their instance, and its record is *)
(* there while they install it.                                            *)
LEMMA WorkersStep ==
  ASSUME IInv, Serialised, NEW asks, AsAsked(asks), ReleaseInv(asks), Step
  PROVE  WorkersAsAsked(asks)'
<1>0. WorkersAsAsked(asks)
  BY DEF ReleaseInv
<1>a. \A id \in OpIDs : worker[id] # Nil => worker[id].inst \in Instances
  BY WorkerFacts
<1>1. ASSUME NEW t \in Threads, Saves(t)
      PROVE  WorkersAsAsked(asks)'
  <2>1. handler[t].req # Nil
    BY <1>1, HandlerFacts, NilAssumption DEF Saves, CreatePCs
  <2>2. \A j \in Instances : instances[j] # Nil => instances'[j] # Nil
    BY <1>1, <2>1 DEF Saves, WritesRecord
  <2>3. UNCHANGED releases /\ instances'[handler[t].inst] # Nil
    BY <1>1, <2>1 DEF Saves, WritesRecord
  <2>4. CASE UNCHANGED worker
    BY <1>0, <1>a, <2>2, <2>3, <2>4 DEF WorkersAsAsked
  <2>5. CASE ~UNCHANGED worker
    <3>1. /\ worker'[handler[t].op] =
               [pc |-> "install", inst |-> handler[t].inst, rec |-> handler[t].req]
          /\ \A id \in OpIDs : id # handler[t].op => worker'[id] = worker[id]
          /\ handler[t].pc = "findPlan" /\ handler[t].req.plan \in Offered
      BY <1>1, <2>5 DEF Saves
    <3>2. /\ worker'[handler[t].op].inst = handler[t].inst
          /\ worker'[handler[t].op].rec = handler[t].req
          /\ worker'[handler[t].op].pc = "install"
      BY <3>1
    <3>3. createReleaseName(handler[t].inst, handler[t].req) = asks[handler[t].inst]
      BY <3>1, HandlerFacts DEF AsAsked, CreatePCs
    <3> QED
      BY <1>0, <1>a, <2>2, <2>3, <3>1, <3>2, <3>3 DEF WorkersAsAsked
  <2> QED
    BY <2>4, <2>5
<1>2. ASSUME NEW t \in Threads, Opens(t)
      PROVE  WorkersAsAsked(asks)'
  <2>1. UNCHANGED <<instances, releases>>
    BY <1>2 DEF Opens
  <2>2. CASE UNCHANGED worker
    BY <1>0, <2>1, <2>2 DEF WorkersAsAsked
  <2>3. CASE ~UNCHANGED worker
    <3>1. /\ worker'[handler[t].op] =
               [pc |-> "delete", inst |-> handler[t].inst, rec |-> handler[t].req]
          /\ \A id \in OpIDs : id # handler[t].op => worker'[id] = worker[id]
          /\ handler[t].pc \in InsertPCs /\ handler[t].type = "remove"
      BY <1>2, <2>3 DEF Opens
    <3>2. /\ worker'[handler[t].op].inst = handler[t].inst
          /\ worker'[handler[t].op].rec = handler[t].req
          /\ worker'[handler[t].op].pc = "delete"
      BY <3>1
    <3>3. createReleaseName(handler[t].inst, handler[t].req) = asks[handler[t].inst]
      BY <3>1 DEF ReleaseInv, HeldAsAsked
    <3> QED
      BY <1>0, <2>1, <3>1, <3>2, <3>3 DEF WorkersAsAsked, Installing
  <2> QED
    BY <2>2, <2>3
<1>3. ASSUME NEW id \in OpIDs, Works(id)
      PROVE  WorkersAsAsked(asks)'
  <2>1. PICK w, v, n : /\ w = worker[id] /\ v = worker'[id]
                       /\ n = createReleaseName(w.inst, w.rec)
    OBVIOUS
  <2>2. /\ w # Nil /\ v # Nil /\ v.inst = w.inst /\ v.rec = w.rec
        /\ \A o \in OpIDs : o # id => worker'[o] = worker[o]
        /\ Effect(w, v.pc)
    BY <1>3, <2>1 DEF Works
  <2>3. /\ w.inst \in Instances /\ n = asks[w.inst] /\ n.inst = w.inst /\ n \in ReleaseName
        /\ w.pc \in Installing => instances[w.inst] # Nil
    BY <1>0, <1>a, <2>1, <2>2, WorkerFacts, RecordFacts, NameFacts DEF WorkersAsAsked
  <2>4. ASSUME NEW o \in OpIDs, o # id, worker[o] # Nil
        PROVE  /\ createReleaseName(worker[o].inst, worker[o].rec) = asks[worker[o].inst]
               /\ worker[o].pc \in Installing => instances'[worker[o].inst] # Nil
               /\ worker[o].pc = "forget" => releases'[asks[worker[o].inst]] = Nil
    <3>1. worker[o].inst # w.inst /\ worker[o].inst \in Instances
      BY <1>a, <2>1, <2>2, <2>4, OneWorker
    <3>2. instances'[worker[o].inst] = instances[worker[o].inst]
      BY <2>2, <3>1 DEF Effect, WritesRecord
    <3>3. asks[worker[o].inst] \in ReleaseName /\ asks[worker[o].inst].inst = worker[o].inst
      BY <1>0, <2>4, WorkerFacts, RecordFacts, NameFacts DEF WorkersAsAsked
    <3>4. \A m \in ReleaseName : m # n => releases'[m] = releases[m]
      BY <2>1, <2>2 DEF Effect, WritesRelease
    <3> QED
      BY <1>0, <2>3, <2>4, <3>1, <3>2, <3>3, <3>4 DEF WorkersAsAsked
  <2>5. v.pc \in Installing => instances'[w.inst] # Nil
    BY <2>2, <2>3 DEF Effect, Installing
  <2>6. v.pc = "forget" => releases'[n] = Nil
    BY <2>1, <2>2 DEF Effect, WritesRelease
  <2>7. createReleaseName(v.inst, v.rec) = asks[v.inst]
    BY <2>1, <2>2, <2>3
  <2> QED
    BY <2>1, <2>2, <2>3, <2>4, <2>5, <2>6, <2>7 DEF WorkersAsAsked
<1>4. ASSUME NEW id \in OpIDs, Ends(id)
      PROVE  WorkersAsAsked(asks)'
  <2>1. \A o \in OpIDs : worker'[o] # Nil => worker'[o] = worker[o]
    BY <1>4 DEF Ends
  <2> QED
    BY <1>0, <1>4, <2>1 DEF Ends, WorkersAsAsked
<1>5. CASE Restarts
  BY <1>5 DEF Restarts, WorkersAsAsked
<1>6. CASE UNCHANGED <<instances, releases, worker>>
  BY <1>0, <1>6 DEF WorkersAsAsked
<1> QED
  BY <1>1, <1>2, <1>3, <1>4, <1>5, <1>6 DEF Step, Returns, Enters, Passes

(* ReleaseInv holds as long as every instance is asked for as before.      *)
LEMMA ReleasesAlways ==
  ASSUME Serialised, Durable, NEW asks
  PROVE  Spec /\ KeptAsAsked(asks) /\ []AsAsked(asks) => []ReleaseInv(asks)
<1>1. Init /\ KeptAsAsked(asks) => ReleaseInv(asks)
  <2> SUFFICES ASSUME Init, KeptAsAsked(asks)
               PROVE  ReleaseInv(asks)
    OBVIOUS
  <2>1. HeldAsAsked(asks)
    BY InitFacts, IdleFacts DEF HeldAsAsked, InsertPCs
  <2>2. ReleasesNamed(asks)
    BY InitFacts DEF ReleasesNamed, KeptAsAsked
  <2>3. WorkersAsAsked(asks)
    BY InitFacts DEF WorkersAsAsked
  <2> QED
    BY <2>1, <2>2, <2>3 DEF ReleaseInv
<1>2. IInv /\ AsAsked(asks) /\ ReleaseInv(asks) /\ [Next]_vars => ReleaseInv(asks)'
  BY StepCases, KeptStep, HeldStep, NamedStep, WorkersStep DEF ReleaseInv
<1> QED
  BY <1>1, <1>2, Invariance, PTL DEF Spec

(* Every release that exists is named by the record of its instance, so    *)
(* that deprovisioning (deprovision.go:113) reaches it, through failed     *)
(* installations, failed calls and restarts: if an instance is always      *)
(* asked for with the same service, plan and namespace, its requests do    *)
(* not overlap (or the driver is the in-memory one), and the storage       *)
(* outlives restarts.                                                      *)
THEOREM Records_ReleaseIsRecorded ==
  ASSUME Serialised, Durable, NEW asks
  PROVE  Spec /\ KeptAsAsked(asks) /\ []AsAsked(asks) => []ReleaseIsRecorded
<1>1. ReleaseInv(asks) => ReleaseIsRecorded
  BY DEF ReleaseInv, ReleasesNamed, KeptAsAsked, ReleaseIsRecorded, ReleaseName
<1> QED
  BY <1>1, ReleasesAlways, PTL

-----------------------------------------------------------------------------
(* Where operations and requests come from.                                *)

(* The operation of a goroutine is in progress, and so is that of a        *)
(* handler that is about to start one.                                     *)
LEMMA RunningOps ==
  ASSUME IInv, KindsInv
  PROVE  /\ \A id \in OpIDs : worker[id] # Nil =>
              /\ worker[id].inst \in Instances /\ ops[id].type \in OpTypes
              /\ HasOp(worker[id].inst, ops[id].type, "in progress")
         /\ \A t \in Threads : handler[t].pc = "findPlan" =>
              HasOp(handler[t].inst, "create", "in progress")
<1>0. ops \in [OpIDs -> InstanceOperation \cup {Nil}]
  BY DEF IInv, TypeOK
<1>1. ASSUME NEW id \in OpIDs, InProgress(id)
      PROVE  /\ ops[id].type \in OpTypes
             /\ HasOp(ops[id].inst, ops[id].type, "in progress")
  <2>1. ops[id] \in InstanceOperation /\ ops[id].state = "in progress"
    BY <1>0, <1>1 DEF InProgress
  <2>2. ops[id] = [inst |-> ops[id].inst, type |-> ops[id].type, state |-> "in progress"]
    BY <2>1 DEF InstanceOperation
  <2>3. ops[id].type \in OpTypes
    BY <2>1 DEF InstanceOperation
  <2> QED
    BY <2>2, <2>3 DEF HasOp
<1>2. \A id \in OpIDs : worker[id] # Nil =>
        InProgress(id) /\ ops[id].inst = worker[id].inst /\ worker[id].inst \in Instances
  BY WorkerFacts DEF IInv, WorkerRunsOperation
<1>3. \A t \in Threads : handler[t].pc = "findPlan" =>
        /\ handler[t].op \in OpIDs /\ InProgress(handler[t].op)
        /\ ops[handler[t].op].inst = handler[t].inst /\ ops[handler[t].op].type = "create"
  BY DEF IInv, HandlerOwnsID, KindsInv
<1>4. ASSUME NEW id \in OpIDs, worker[id] # Nil
      PROVE  /\ worker[id].inst \in Instances /\ ops[id].type \in OpTypes
             /\ HasOp(worker[id].inst, ops[id].type, "in progress")
  BY <1>1, <1>2, <1>4
<1>5. ASSUME NEW t \in Threads, handler[t].pc = "findPlan"
      PROVE  HasOp(handler[t].inst, "create", "in progress")
  <2>1. PICK id \in OpIDs : id = handler[t].op
    BY <1>3, <1>5
  <2> QED
    BY <1>1, <1>3, <1>5, <2>1
<1> QED
  BY <1>4, <1>5

(* Only a put starts an operation.                                         *)
LEMMA Started ==
  ASSUME IInv, IInv', Step, NEW i \in Instances, NEW y \in OpTypes,
         HasOp(i, y, "in progress")'
  PROVE  \/ HasOp(i, y, "in progress")
         \/ \E t \in Threads : Opens(t) /\ handler[t].inst = i /\ handler[t].type = y
<1>0. "in progress" \in OpStates
  BY DEF OpStates
<1>1. CASE UNCHANGED ops
  BY <1>1, SameLog
<1>2. ASSUME NEW t \in Threads, Opens(t)
      PROVE  \/ HasOp(i, y, "in progress")
             \/ handler[t].inst = i /\ handler[t].type = y
  BY <1>0, <1>2, OpensLog
<1>3. ASSUME NEW id \in OpIDs, Ends(id)
      PROVE  HasOp(i, y, "in progress")
  BY <1>3, EndsLog DEF Closes
<1>4. CASE Restarts /\ ~UNCHANGED ops
  BY <1>0, <1>4, RestartLog
<1> QED
  BY <1>1, <1>2, <1>3, <1>4 DEF Step, Returns, Enters, Passes, Saves, Works

(* Only a goroutine that ends well makes an operation succeed, and none of *)
(* the kind is in progress afterwards.                                     *)
LEMMA Succeeded ==
  ASSUME IInv, IInv', KindsInv, Step, NEW i \in Instances, NEW y \in OpTypes,
         HasOp(i, y, "succeeded")'
  PROVE  \/ HasOp(i, y, "succeeded")
         \/ \E id \in OpIDs :
              /\ Ends(id)
              /\ worker[id].inst = i /\ worker[id].pc = "succeed" /\ ops[id].type = y
              /\ HasOp(i, y, "in progress") /\ ~HasOp(i, y, "in progress")'
<1>0. "succeeded" \in OpStates /\ "succeeded" # "in progress"
  BY DEF OpStates
<1>1. CASE UNCHANGED ops
  BY <1>1, SameLog
<1>2. ASSUME NEW t \in Threads, Opens(t)
      PROVE  HasOp(i, y, "succeeded")
  BY <1>0, <1>2, OpensLog
<1>3. ASSUME NEW id \in OpIDs, Ends(id), ~HasOp(i, y, "succeeded")
      PROVE  /\ worker[id].inst = i /\ worker[id].pc = "succeed" /\ ops[id].type = y
             /\ HasOp(i, y, "in progress") /\ ~HasOp(i, y, "in progress")'
  <2>1. /\ worker[id].inst = i /\ worker[id].pc = "succeed" /\ ops[id].type = y
        /\ ~HasOp(i, y, "in progress")'
    BY <1>3, EndsLog DEF Closes
  <2>2. HasOp(worker[id].inst, ops[id].type, "in progress")
    BY <1>3, RunningOps DEF Ends
  <2> QED
    BY <2>1, <2>2
<1>4. CASE Restarts /\ ~UNCHANGED ops
  BY <1>0, <1>4, RestartLog
<1> QED
  BY <1>1, <1>2, <1>3, <1>4 DEF Step, Returns, Enters, Passes, Saves, Works

(* What has succeeded is forgotten only in a restart that loses all.       *)
LEMMA StillSucceeded ==
  ASSUME IInv, IInv', Step, NEW i \in Instances, NEW y \in OpTypes, HasOp(i, y, "succeeded")
  PROVE  HasOp(i, y, "succeeded")' \/ (Restarts /\ ~UNCHANGED ops)
<1>0. "succeeded" \in OpStates
  BY DEF OpStates
<1>1. CASE UNCHANGED ops
  BY <1>1, SameLog
<1>2. ASSUME NEW t \in Threads, Opens(t)
      PROVE  HasOp(i, y, "succeeded")'
  BY <1>0, <1>2, OpensLog
<1>3. ASSUME NEW id \in OpIDs, Ends(id)
      PROVE  HasOp(i, y, "succeeded")'
  BY <1>3, EndsLog DEF Closes
<1> QED
  BY <1>1, <1>2, <1>3 DEF Step, Returns, Enters, Passes, Saves, Works

(* Only a put asks for a removal, and only a restart that loses all        *)
(* forgets it.                                                             *)
LEMMA Unremoval ==
  ASSUME IInv, IInv', Step, NEW i \in Instances
  PROVE  /\ Unremoved(i)' => Unremoved(i) \/ (Restarts /\ ~UNCHANGED ops)
         /\ Unremoved(i) => \/ Unremoved(i)'
                            \/ \E t \in Threads :
                                 Opens(t) /\ handler[t].inst = i /\ handler[t].type = "remove"
<1>0. "remove" \in OpTypes
  BY DEF OpTypes
<1>1. CASE UNCHANGED ops
  BY <1>1, SameLog
<1>2. ASSUME NEW t \in Threads, Opens(t)
      PROVE  /\ Unremoved(i)' => Unremoved(i)
             /\ Unremoved(i) => Unremoved(i)' \/ (handler[t].inst = i /\ handler[t].type = "remove")
  <2>1. \A j \in Instances, y \in OpTypes, s \in OpStates : HasOp(j, y, s)' <=>
          \/ HasOp(j, y, s)
          \/ j = handler[t].inst /\ y = handler[t].type /\ s = "in progress"
    BY <1>2, OpensLog
  <2>2. \A s \in OpStates : HasOp(i, "remove", s)' <=>
          \/ HasOp(i, "remove", s)
          \/ i = handler[t].inst /\ "remove" = handler[t].type /\ s = "in progress"
    BY <1>0, <2>1
  <2> QED
    BY <2>2 DEF Unremoved
<1>3. ASSUME NEW id \in OpIDs, Ends(id)
      PROVE  Unremoved(i)' <=> Unremoved(i)
  BY <1>3, EndsLog DEF Closes
<1>4. CASE Restarts /\ ~UNCHANGED ops
  <2>1. Unremoved(i)'
    BY <1>0, <1>4, RestartLog DEF Unremoved
  <2> QED
    BY <1>4, <2>1
<1> QED
  BY <1>1, <1>2, <1>3, <1>4 DEF Step, Returns, Enters, Passes, Saves, Works

(* What a handler that serves a request has just done.                     *)
LEMMA HandlerMoves ==
  ASSUME IInv, Step, NEW t \in Threads, handler'[t].pc # "idle"
  PROVE  \/ handler'[t] = handler[t] /\ ~Opens(t)
         \/ Enters(t)
         \/ Passes(t)
         \/ /\ Opens(t)
            /\ handler'[t].pc = "findPlan"
            /\ handler[t].type = "create" /\ handler'[t].type = "create"
            /\ handler'[t].inst = handler[t].inst /\ handler'[t].req = handler[t].req
            /\ handler'[t].op = handler[t].op
<1>1. CASE handler'[t] = handler[t]
  BY <1>1, IdleFacts DEF Opens, Sets, InsertPCs
<1>2. CASE handler'[t] # handler[t]
  <2>1. ~Sets(t, Idle) /\ ~Restarts
    BY IdleFacts DEF Sets, Restarts
  <2>2. \A u \in Threads : u # t => ~Moves(u) /\ ~Sets(u, Idle)
    BY <1>2 DEF Moves, Sets
  <2>3. \A u \in Threads : u # t => ~(Returns(u) \/ Enters(u) \/ Passes(u) \/ Saves(u) \/ Opens(u))
    BY <2>2 DEF Returns, Enters, Passes, Saves, Opens
  <2>4. ~Returns(t) /\ ~Saves(t)
    BY <2>1 DEF Returns, Saves
  <2>5. Opens(t) =>
          /\ handler'[t].pc = "findPlan"
          /\ handler[t].type = "create" /\ handler'[t].type = "create"
          /\ handler'[t].inst = handler[t].inst /\ handler'[t].req = handler[t].req
          /\ handler'[t].op = handler[t].op
    BY <2>1 DEF Opens
  <2>6. Enters(t) \/ Passes(t) \/ Opens(t)
    BY <1>2, <2>1, <2>3, <2>4 DEF Step, Works, Ends
  <2> QED
    BY <2>5, <2>6
<1> QED
  BY <1>1, <1>2

-----------------------------------------------------------------------------
(* AgainInv.                                                               *)

(* An instance becomes provisioned by the end of its provisioning only.    *)
LEMMA BecomesProvisioned ==
  ASSUME IInv, IInv', KindsInv, Step, NEW i \in Instances, IsProvisioned(i)', ~IsProvisioned(i)
  PROVE  \E id \in OpIDs :
           /\ worker[id] # Nil /\ worker[id].inst = i /\ ops[id].type = "create"
           /\ HasOp(i, "create", "in progress") /\ ~HasOp(i, "create", "in progress")'
<1>0. "create" \in OpTypes /\ "remove" \in OpTypes
  BY DEF OpTypes
<1>1. HasOp(i, "create", "succeeded")' /\ ~HasOp(i, "remove", "succeeded")'
  BY DEF IsProvisioned
<1>2. CASE HasOp(i, "create", "succeeded")
  <2>1. HasOp(i, "remove", "succeeded")
    BY <1>2 DEF IsProvisioned
  <2>2. Restarts /\ ~UNCHANGED ops
    BY <1>0, <1>1, <2>1, StillSucceeded
  <2> QED
    BY <1>0, <1>1, <2>2, RestartLog DEF OpStates
<1>3. CASE ~HasOp(i, "create", "succeeded")
  <2>1. PICK id \in OpIDs :
          /\ Ends(id) /\ worker[id].inst = i /\ ops[id].type = "create"
          /\ HasOp(i, "create", "in progress") /\ ~HasOp(i, "create", "in progress")'
    BY <1>0, <1>1, <1>3, Succeeded
  <2>2. worker[id] # Nil
    BY <2>1 DEF Ends
  <2> QED
    BY <2>1, <2>2
<1> QED
  BY <1>2, <1>3

(* Every step preserves AgainInv.                                          *)
LEMMA AgainStep ==
  ASSUME IInv, IInv', KindsInv, "retry" \notin Platform, AgainInv, Step
  PROVE  AgainInv'
<1>0. "create" \in OpTypes /\ "remove" \in OpTypes /\ Nil # "create"
  BY NilAssumption DEF OpTypes
<1>a. \A t \in Threads : handler'[t].type = "create" =>
        handler'[t].pc # "idle" /\ handler'[t].inst \in Instances
  BY <1>0, IdleFacts DEF IInv, HandlerHoldsMutex
<1>b. \A t \in Threads : Unprovisioned(t)' => handler'[t].type = "create" /\ handler'[t].pc # "findPlan"
  BY DEF Unprovisioned, IInv, HandlerHoldsMutex, CreatePCs, Idle, InsertPCs
<1>c. \A t \in Threads : Unprovisioned(t) => handler[t].type = "create" /\ handler[t].pc # "findPlan"
  BY DEF Unprovisioned, IInv, HandlerHoldsMutex, CreatePCs, Idle, InsertPCs
<1>1. ASSUME NEW t \in Threads, handler'[t].type = "create", handler'[t].pc # "findPlan",
             NEW j \in Instances, j = handler'[t].inst
      PROVE  ~HasOp(j, "create", "in progress")'
  <2>1. CASE handler'[t] = handler[t] /\ ~Opens(t)
    <3>1. ~HasOp(j, "create", "in progress")
      BY <1>1, <2>1 DEF AgainInv, NothingOpen
    <3>2. \A u \in Threads : Opens(u) => handler[u].type # "create"
      BY <1>0, <1>1, <2>1, OneOfAType
    <3> QED
      BY <1>0, <3>1, <3>2, Started
  <2>2. CASE Enters(t)
    <3>1. ~HasOp(j, "create", "in progress")
      BY <1>1, <2>2 DEF Enters, PlatformProvisions, IsProvisioningInProgress
    <3> QED
      BY <2>2, <3>1, SameLog DEF Enters
  <2>3. CASE Passes(t)
    <3>1. handler[t].type = "create" /\ handler[t].inst = j /\ handler[t].pc # "findPlan"
      BY <1>1, <2>3 DEF Passes, PassesOn
    <3>2. ~HasOp(j, "create", "in progress")
      BY <3>1 DEF AgainInv, NothingOpen
    <3> QED
      BY <2>3, <3>2, SameLog DEF Passes
  <2> QED
    BY <1>a, <1>1, <2>1, <2>2, <2>3, HandlerMoves
<1>2. NothingOpen'
  <2> SUFFICES ASSUME NEW t \in Threads, handler'[t].type = "create", handler'[t].pc # "findPlan",
                      NEW j \in Instances, j = handler'[t].inst
               PROVE  ~HasOp(j, "create", "in progress")'
    BY <1>a DEF NothingOpen, HasOp
  <2> QED
    BY <1>1
<1>3. ASSUME NEW i \in Instances, IsProvisioned(i)', ~IsProvisioned(i)
      PROVE  HasOp(i, "create", "in progress") /\ ~HasOp(i, "create", "in progress")'
  BY <1>3, BecomesProvisioned
<1>4. StillUnprovisioned'
  <2> SUFFICES ASSUME NEW t \in Threads, Unprovisioned(t)', NEW j \in Instances, j = handler'[t].inst,
                      IsProvisioned(j)'
               PROVE  FALSE
    BY <1>a, <1>b DEF StillUnprovisioned, IsProvisioned, HasOp
  <2>0. handler'[t].type = "create" /\ handler'[t].pc # "findPlan" /\ handler'[t].pc # "idle"
    BY <1>a, <1>b
  <2>1. CASE Enters(t)
    BY <2>1 DEF Enters, Unprovisioned, InsertPCs
  <2>2. ASSUME Unprovisioned(t), handler[t].inst = j
        PROVE  FALSE
    <3>1. ~IsProvisioned(j) /\ ~HasOp(j, "create", "in progress")
      BY <1>c, <2>2 DEF AgainInv, StillUnprovisioned, NothingOpen
    <3> QED
      BY <1>3, <3>1
  <2>3. CASE handler'[t] = handler[t]
    BY <2>2, <2>3 DEF Unprovisioned
  <2>4. CASE Passes(t)
    <3>0. handler[t].inst = j /\ handler[t].type = "create"
      BY <2>0, <2>4 DEF Passes
    <3>1. CASE handler[t].pc = "isProvisioned"
      <4>1. ~IsProvisioned(j)
        BY <2>4, <3>0, <3>1 DEF Passes, PassesOn, Unprovisioned, InsertPCs
      <4> QED
        BY <2>4, <4>1, SameLog DEF Passes
    <3>2. CASE handler[t].pc # "isProvisioned"
      <4>1. Unprovisioned(t)
        BY <2>4, <3>0, <3>2, HandlerFacts DEF Passes, PassesOn, Unprovisioned, InsertPCs, RemovePCs
      <4> QED
        BY <2>2, <3>0, <4>1
    <3> QED
      BY <3>1, <3>2
  <2> QED
    BY <2>0, <2>1, <2>3, <2>4, HandlerMoves
<1>5. OpenIsFirst'
  <2> SUFFICES ASSUME NEW i \in Instances, HasOp(i, "create", "in progress")', IsProvisioned(i)'
               PROVE  FALSE
    BY DEF OpenIsFirst
  <2>1. IsProvisioned(i)
    BY <1>3
  <2>2. ~HasOp(i, "create", "in progress")
    BY <2>1 DEF AgainInv, OpenIsFirst
  <2>3. PICK t \in Threads : Opens(t) /\ handler[t].inst = i /\ handler[t].type = "create"
    BY <1>0, <2>2, Started
  <2>4. Unprovisioned(t)
    BY <2>3 DEF Opens, Unprovisioned
  <2> QED
    BY <2>1, <2>3, <2>4 DEF AgainInv, StillUnprovisioned
<1> QED
  BY <1>2, <1>4, <1>5 DEF AgainInv

(* AgainInv holds in every reachable state.                                *)
LEMMA AgainAlways == ASSUME "retry" \notin Platform PROVE Spec => []AgainInv
<1>1. Init => AgainInv
  BY InitFacts, IdleFacts, NilAssumption
  DEF AgainInv, NothingOpen, StillUnprovisioned, OpenIsFirst, Unprovisioned, InsertPCs, OpTypes
<1>2. IInv /\ IInv' /\ KindsInv /\ AgainInv /\ [Next]_vars => AgainInv'
  BY StepCases, AgainStep
<1> QED
  BY <1>1, <1>2, Invariance, KindsAlways, PTL DEF Spec

(* Every step preserves NothingOpenSince.                                  *)
LEMMA SinceStep ==
  ASSUME IInv, IInv', NothingOpenSince, Step
  PROVE  NothingOpenSince'
<1>0. "create" \in OpTypes /\ Nil # "create"
  BY NilAssumption DEF OpTypes
<1>a. SUFFICES ASSUME NEW t \in Threads, handler'[t].type = "create",
                    handler'[t].pc \in {"getAddon"} \cup InsertPCs,
                    NEW j \in Instances, j = handler'[t].inst
             PROVE  ~HasOp(j, "create", "in progress")'
  <2>1. \A t \in Threads : handler'[t].type = "create" => handler'[t].inst \in Instances
    BY <1>0, IdleFacts DEF IInv, HandlerHoldsMutex
  <2> QED
    BY <2>1 DEF NothingOpenSince, HasOp
<1>1. CASE handler'[t] = handler[t] /\ ~Opens(t)
  <2>1. ~HasOp(j, "create", "in progress")
    BY <1>a, <1>1 DEF NothingOpenSince
  <2>2. \A u \in Threads : Opens(u) => handler[u].type # "create"
    BY <1>0, <1>a, <1>1, OneOfAType
  <2>3. ASSUME HasOp(j, "create", "in progress")' PROVE FALSE
    <3>1. PICK u \in Threads : Opens(u) /\ handler[u].type = "create"
      BY <1>0, <2>1, <2>3, Started
    <3> QED
      BY <2>2, <3>1
  <2> QED
    BY <2>3
<1>2. CASE Passes(t)
  <2>1. handler[t].type = "create" /\ handler[t].inst = j
    BY <1>a, <1>2 DEF Passes
  <2>2. ~HasOp(j, "create", "in progress")
    <3>1. CASE handler[t].pc \in {"getAddon"} \cup InsertPCs
      BY <2>1, <3>1 DEF NothingOpenSince
    <3>2. handler[t].pc \notin RemovePCs
      BY <2>1, HandlerFacts DEF RemovePCs
    <3>3. CASE handler[t].pc \notin {"getAddon"} \cup InsertPCs
      BY <1>a, <1>2, <2>1, <3>2, <3>3 DEF Passes, PassesOn, InsertPCs, RemovePCs
    <3> QED
      BY <3>1, <3>3
  <2> QED
    BY <1>2, <2>2, SameLog DEF Passes
<1>3. ~Enters(t)
  BY <1>a DEF Enters, InsertPCs
<1> QED
  BY <1>a, <1>1, <1>2, <1>3, HandlerMoves DEF InsertPCs

(* NothingOpenSince holds in every reachable state.                        *)
LEMMA SinceAlways == Spec => []NothingOpenSince
<1>1. Init => NothingOpenSince
  BY InitFacts, IdleFacts, NilAssumption DEF NothingOpenSince, InsertPCs, OpTypes
<1>2. IInv /\ IInv' /\ NothingOpenSince /\ [Next]_vars => NothingOpenSince'
  BY StepCases, SinceStep
<1> QED
  BY <1>1, <1>2, Invariance, PTL DEF Spec

(* Once a request is past its second read (provision.go:73), no goroutine  *)
(* makes its instance provisioned under it: under either driver, for every *)
(* number of threads, restarts and storage errors, and whatever requests   *)
(* the platform sends, repeated and overlapping ones included.             *)
THEOREM Records_NotProvisionedMeanwhile == Spec => NotProvisionedMeanwhile
<1>1. ASSUME IInv, IInv', KindsInv, NothingOpenSince, [Next]_vars,
             NEW t \in Threads, NEW i \in Instances,
             PastReads(t), handler[t].inst = i, ~IsProvisioned(i)
      PROVE  ~IsProvisioned(i)'
  <2> SUFFICES ASSUME IsProvisioned(i)' PROVE FALSE
    OBVIOUS
  <2>1. Step
    BY <1>1, StepCases
  <2>2. PICK id \in OpIDs :
          /\ worker[id] # Nil /\ worker[id].inst = i /\ ops[id].type = "create"
          /\ HasOp(i, "create", "in progress")
    BY <1>1, <2>1, BecomesProvisioned
  <2>3. handler[t].type = "create"
    BY <1>1 DEF PastReads, IInv, HandlerHoldsMutex, CreatePCs, Idle
  <2>4. handler[t].pc = "findPlan"
    BY <1>1, <2>2, <2>3 DEF PastReads, NothingOpenSince, InsertPCs
  <2>5. PICK op \in OpIDs : op = handler[t].op
    BY <1>1, <2>4 DEF IInv, HandlerOwnsID
  <2>6. InProgress(op) /\ ops[op].inst = i /\ ops[op].type = "create" /\ worker[op] = Nil
    BY <1>1, <2>4, <2>5 DEF IInv, HandlerOwnsID, KindsInv
  <2>7. InProgress(id) /\ ops[id].inst = i
    BY <1>1, <2>2 DEF IInv, WorkerRunsOperation
  <2>8. id = op
    BY <1>1, <2>2, <2>6, <2>7 DEF IInv, OneOfEachType
  <2> QED
    BY <2>2, <2>6, <2>8
<1>2. IInv /\ IInv' /\ KindsInv /\ NothingOpenSince /\ [Next]_vars =>
        [\A t \in Threads, i \in Instances :
           PastReads(t) /\ handler[t].inst = i /\ ~IsProvisioned(i) => ~IsProvisioned(i)']_vars
  BY <1>1
<1> QED
  BY <1>2, Invariance, KindsAlways, SinceAlways, PTL DEF Spec, NotProvisionedMeanwhile

-----------------------------------------------------------------------------
(* DeployedInv.                                                            *)

(* Who writes the record of an instance.                                   *)
LEMMA RecordWritten ==
  ASSUME IInv, Step, NEW i \in Instances
  PROVE  \/ instances'[i] = instances[i]
         \/ \E t \in Threads : Saves(t) /\ handler[t].inst = i
         \/ \E id \in OpIDs :
              /\ Works(id) /\ worker[id].inst = i
              /\ worker[id].pc = "record" \/ (worker[id].pc = "forget" /\ instances'[i] = Nil)
         \/ Restarts /\ ~UNCHANGED <<ops, instances>> /\ instances'[i] = Nil
<1>1. ASSUME NEW t \in Threads, Saves(t)
      PROVE  instances'[i] = instances[i] \/ handler[t].inst = i
  BY <1>1 DEF Saves, WritesRecord
<1>2. ASSUME NEW id \in OpIDs, Works(id)
      PROVE  \/ instances'[i] = instances[i]
             \/ /\ worker[id].inst = i
                /\ worker[id].pc = "record" \/ (worker[id].pc = "forget" /\ instances'[i] = Nil)
  <2>1. \/ UNCHANGED instances
        \/ /\ worker[id].pc = "record"
           /\ \A j \in Instances : j # worker[id].inst => instances'[j] = instances[j]
        \/ worker[id].pc = "forget" /\ WritesRecord(worker[id].inst, Nil)
    BY <1>2 DEF Works, Effect, WritesRecord
  <2> QED
    BY <2>1 DEF WritesRecord
<1>3. CASE Restarts
  BY <1>3, RestartLog
<1>4. CASE UNCHANGED instances
  BY <1>4
<1> QED
  BY <1>1, <1>2, <1>3, <1>4 DEF Step, Returns, Enters, Passes, Opens, Ends

(* Who writes a release.                                                   *)
LEMMA ReleaseWritten ==
  ASSUME IInv, Step, NEW n \in ReleaseName
  PROVE  \/ releases'[n] = releases[n]
         \/ \E id \in OpIDs : Works(id) /\ worker[id].inst = n.inst
<1>1. ASSUME NEW id \in OpIDs, Works(id), releases'[n] # releases[n]
      PROVE  worker[id].inst = n.inst
  <2>1. n = createReleaseName(worker[id].inst, worker[id].rec)
    BY <1>1 DEF Works, Effect, WritesRelease
  <2> QED
    BY <2>1, NameFacts
<1> QED
  BY <1>1 DEF Step, Returns, Enters, Passes, Saves, Opens, Ends, Restarts

(* As long as no removal is asked for, an instance has one goroutine or    *)
(* one handler that is about to start it.                                  *)
LEMMA OnlyWorker ==
  ASSUME IInv, KindsInv, NEW id \in OpIDs, worker[id] # Nil, Unremoved(worker[id].inst)
  PROVE  /\ ops[id].type = "create"
         /\ \A o \in OpIDs : worker[o] # Nil /\ worker[o].inst = worker[id].inst => o = id
         /\ \A t \in Threads : handler[t].pc = "findPlan" => handler[t].inst # worker[id].inst
<1>0. "in progress" \in OpStates
  BY DEF OpStates
<1>1. \A o \in OpIDs : worker[o] # Nil /\ worker[o].inst = worker[id].inst => ops[o].type = "create"
  <2> SUFFICES ASSUME NEW o \in OpIDs, worker[o] # Nil, worker[o].inst = worker[id].inst
               PROVE  ops[o].type = "create"
    OBVIOUS
  <2>1. ops[o].type \in OpTypes /\ HasOp(worker[o].inst, ops[o].type, "in progress")
    BY RunningOps
  <2>2. ops[o].type # "remove"
    BY <1>0, <2>1 DEF Unremoved
  <2> QED
    BY <2>1, <2>2 DEF OpTypes
<1>2. \A o \in OpIDs : worker[o] # Nil => InProgress(o) /\ ops[o].inst = worker[o].inst
  BY DEF IInv, WorkerRunsOperation
<1>3. \A t \in Threads : handler[t].pc = "findPlan" =>
        /\ handler[t].op \in OpIDs /\ InProgress(handler[t].op) /\ worker[handler[t].op] = Nil
        /\ ops[handler[t].op].inst = handler[t].inst /\ ops[handler[t].op].type = "create"
  BY DEF IInv, HandlerOwnsID, KindsInv
<1> QED
  BY <1>1, <1>2, <1>3 DEF IInv, OneOfEachType

(* No hash appears.                                                        *)
LEMMA NothingHashedStep ==
  ASSUME IInv, KindsInv, NothingHashed, Step
  PROVE  NothingHashed'
<1>1. \A i \in Instances : ~HashedRecord(i)'
  BY HashesAreOld DEF NothingHashed
<1>2. ASSUME NEW t \in Threads, handler'[t].pc = "saveParams"
      PROVE  FALSE
  <2>1. CASE Passes(t)
    <3>1. HashedRecord(handler[t].inst) /\ handler[t].pc = "compareParams"
      BY <1>2, <2>1 DEF Passes, PassesOn
    <3>2. handler[t].inst \in Instances
      BY <3>1, HandlerFacts
    <3> QED
      BY <3>1, <3>2 DEF NothingHashed
  <2>2. CASE Enters(t)
    BY <1>2, <2>2 DEF Enters
  <2> QED
    BY <1>2, <2>1, <2>2, HandlerMoves DEF NothingHashed
<1> QED
  BY <1>1, <1>2 DEF NothingHashed

(* What is stored of an instance on which nobody is at work stays.         *)
LEMMA DataStands ==
  ASSUME IInv, KindsInv, NothingHashed, Step, NEW i \in Instances,
         \A id \in OpIDs : worker[id] # Nil /\ worker[id].inst = i => ~Works(id),
         \A t \in Threads : handler[t].pc = "findPlan" => handler[t].inst # i
  PROVE  /\ instances'[i] = instances[i] \/ (Restarts /\ ~UNCHANGED <<ops, instances>>)
         /\ \A n \in ReleaseName : n.inst = i => releases'[n] = releases[n]
<1>1. \A id \in OpIDs : Works(id) => worker[id].inst # i
  BY DEF Works
<1>2. \A t \in Threads : Saves(t) => handler[t].inst # i
  BY DEF Saves, NothingHashed
<1>3. instances'[i] = instances[i] \/ (Restarts /\ ~UNCHANGED <<ops, instances>>)
  BY <1>1, <1>2, RecordWritten
<1>4. \A n \in ReleaseName : n.inst = i => releases'[n] = releases[n]
  BY <1>1, ReleaseWritten
<1> QED
  BY <1>3, <1>4

(* What the goroutine that works has done is there.                        *)
LEMMA WorkStands ==
  ASSUME IInv, KindsInv, NEW id \in OpIDs, Works(id), Unremoved(worker[id].inst), InstallStands(id)
  PROVE  InstallStands(id)'
<1>1. PICK w, v, n, i, r :
        /\ w = worker[id] /\ v = worker'[id] /\ i = w.inst /\ n = createReleaseName(i, w.rec)
        /\ r = [w.rec EXCEPT !.released = TRUE]
  OBVIOUS
<1>2. /\ w # Nil /\ v.inst = i /\ v.rec = w.rec /\ i \in Instances /\ w.rec \in Instance
      /\ Effect(w, v.pc)
  BY <1>1, WorkerFacts DEF Works
<1>3. w.pc = "installing" => releases[n] = [status |-> "pending", params |-> w.rec.params]
  BY <1>1 DEF InstallStands
<1>4. w.pc = "record" => releases[n] = [status |-> "deployed", params |-> w.rec.params]
  BY <1>1 DEF InstallStands, Deployed
<1>5. ops[id].type = "create" /\ w.pc \notin Removing
  BY <1>1, <1>2, OnlyWorker DEF KindsInv
<1>6. v.pc = "installing" => releases'[n] = [status |-> "pending", params |-> w.rec.params]
  BY <1>1, <1>2 DEF Effect, WritesRelease
<1>7. v.pc = "record" => releases'[n] = [status |-> "deployed", params |-> w.rec.params]
  <2> SUFFICES ASSUME v.pc = "record"
               PROVE  releases'[n] = [status |-> "deployed", params |-> w.rec.params]
    OBVIOUS
  <2>1. /\ w.pc = "installing"
        /\ releases[n] # Nil => releases'[n] = [status |-> "deployed", params |-> releases[n].params]
    BY <1>1, <1>2 DEF Effect
  <2>2. [status |-> "pending", params |-> w.rec.params] \in HelmRelease
    BY <1>2 DEF HelmRelease, Instance
  <2>3. releases[n] # Nil
    BY <1>3, <2>1, <2>2, NilAssumption
  <2>4. releases[n].params = w.rec.params
    BY <1>3, <2>1
  <2> QED
    BY <2>1, <2>3, <2>4
<1>8. v.pc = "succeed" =>
        /\ releases'[n] = [status |-> "deployed", params |-> w.rec.params]
        /\ instances'[i] = r
  <2> SUFFICES ASSUME v.pc = "succeed"
               PROVE  /\ releases'[n] = [status |-> "deployed", params |-> w.rec.params]
                      /\ instances'[i] = r
    OBVIOUS
  <2>1. /\ w.pc = "record" /\ UNCHANGED releases
        /\ WritesRecord(i, r)
    BY <1>1, <1>2, <1>5 DEF Effect, Removing
  <2> QED
    BY <1>4, <2>1 DEF WritesRecord
<1> QED
  BY <1>1, <1>2, <1>6, <1>7, <1>8 DEF InstallStands, Deployed

(* What goroutines have done stays as long as no removal is asked for.     *)
LEMMA InstallsStandStep ==
  ASSUME IInv, IInv', KindsInv, DeployedInv, Step
  PROVE  InstallsStand'
<1> SUFFICES ASSUME NEW id \in OpIDs, worker'[id] # Nil,
                    NEW i \in Instances, i = worker'[id].inst, Unremoved(i)'
             PROVE  InstallStands(id)'
  <2>1. \A id \in OpIDs : worker'[id] # Nil => worker'[id].inst \in Instances
    BY WorkerFacts DEF IInv, TypeOK, Worker
  <2> QED
    BY <2>1 DEF InstallsStand, Unremoved, HasOp
<1>0. NothingHashed
  BY DEF DeployedInv
<1>1. Unremoved(i) /\ ~Restarts
  BY Unremoval DEF Restarts
<1>2. CASE worker'[id] = worker[id] /\ ~Works(id)
  <2>1. PICK w, n, r : /\ w = worker[id] /\ n = createReleaseName(i, w.rec)
                       /\ r = [w.rec EXCEPT !.released = TRUE]
    OBVIOUS
  <2>2. w # Nil /\ w.inst = i /\ w.rec \in Instance /\ n \in ReleaseName /\ n.inst = i
    BY <1>2, <2>1, WorkerFacts, RecordFacts, NameFacts
  <2>3. InstallStands(id)
    BY <1>1, <2>1, <2>2 DEF DeployedInv, InstallsStand
  <2>4. /\ \A o \in OpIDs : worker[o] # Nil /\ worker[o].inst = i => o = id
        /\ \A t \in Threads : handler[t].pc = "findPlan" => handler[t].inst # i
    BY <1>1, <2>1, <2>2, OnlyWorker
  <2>5. instances'[i] = instances[i] /\ releases'[n] = releases[n]
    <3>1. \A o \in OpIDs : worker[o] # Nil /\ worker[o].inst = i => ~Works(o)
      BY <1>2, <2>4
    <3> QED
      BY <1>0, <1>1, <2>2, <2>4, <3>1, DataStands
  <2>6. /\ w.pc = "installing" => releases[n] = [status |-> "pending", params |-> w.rec.params]
        /\ w.pc \in {"record", "succeed"} =>
             releases[n] = [status |-> "deployed", params |-> w.rec.params]
        /\ w.pc = "succeed" => instances[i] = r
    BY <2>1, <2>2, <2>3 DEF InstallStands, Deployed
  <2> QED
    BY <1>2, <2>1, <2>2, <2>5, <2>6 DEF InstallStands, Deployed
<1>3. CASE Works(id)
  <2>1. worker[id] # Nil /\ worker[id].inst = i
    BY <1>3 DEF Works
  <2>2. InstallStands(id)
    BY <1>1, <2>1 DEF DeployedInv, InstallsStand
  <2> QED
    BY <1>1, <1>3, <2>1, <2>2, WorkStands
<1>4. CASE worker'[id] # worker[id] /\ ~Works(id)
  <2>1. worker'[id].pc \in {"install", "delete"}
    <3>1. ASSUME NEW t \in Threads, Saves(t)
          PROVE  worker'[id].pc = "install"
      <4>1. worker'[id] = [pc |-> "install", inst |-> handler[t].inst, rec |-> handler[t].req]
        BY <1>4, <3>1 DEF Saves
      <4> QED
        BY <4>1
    <3>2. ASSUME NEW t \in Threads, Opens(t)
          PROVE  worker'[id].pc = "delete"
      <4>1. worker'[id] = [pc |-> "delete", inst |-> handler[t].inst, rec |-> handler[t].req]
        BY <1>4, <3>2 DEF Opens
      <4> QED
        BY <4>1
    <3>3. ASSUME NEW o \in OpIDs, Works(o) \/ Ends(o)
          PROVE  FALSE
      BY <1>4, <3>3 DEF Works, Ends
    <3> QED
      BY <1>1, <1>4, <3>1, <3>2, <3>3 DEF Step, Returns, Enters, Passes
  <2> QED
    BY <2>1 DEF InstallStands
<1> QED
  BY <1>2, <1>3, <1>4

(* An instance that counts as provisioned keeps what it has, and one that  *)
(* comes to count as provisioned has it.                                   *)
LEMMA DeployedStep ==
  ASSUME IInv, IInv', KindsInv, AgainInv, DeployedInv, Step
  PROVE  ProvisionedIsDeployed'
<1> SUFFICES ASSUME NEW i \in Instances, IsProvisioned(i)', Unremoved(i)'
             PROVE  /\ instances'[i] # Nil
                    /\ instances'[i].released
                    /\ releases'[createReleaseName(i, instances'[i])] =
                         [status |-> "deployed", params |-> instances'[i].params]
  BY DEF ProvisionedIsDeployed, Unremoved, createReleaseName
<1>0. NothingHashed /\ "create" \in OpTypes /\ "succeeded" \in OpStates
  BY DEF DeployedInv, OpTypes, OpStates
<1>1. ~(Restarts /\ ~UNCHANGED <<ops, instances>>)
  BY <1>0, RestartLog DEF IsProvisioned
<1>2. Unremoved(i)
  BY <1>1, Unremoval
<1>3. HasOp(i, "create", "succeeded")'
  BY DEF IsProvisioned
<1>4. CASE HasOp(i, "create", "succeeded")
  <2>1. IsProvisioned(i)
    BY <1>0, <1>2, <1>4 DEF Unremoved, IsProvisioned
  <2>2. PICK rec, n : rec = instances[i] /\ n = createReleaseName(i, rec)
    OBVIOUS
  <2>3. /\ rec # Nil /\ rec.released
        /\ releases[n] = [status |-> "deployed", params |-> rec.params]
    BY <1>2, <2>1, <2>2 DEF DeployedInv, ProvisionedIsDeployed, Unremoved
  <2>4. rec \in Instance /\ n \in ReleaseName /\ n.inst = i
    BY <2>2, <2>3, RecordFacts, NameFacts DEF IInv, TypeOK
  <2>5. ~HasOp(i, "create", "in progress")
    BY <2>1 DEF AgainInv, OpenIsFirst
  <2>6. \A t \in Threads : handler[t].pc = "findPlan" => handler[t].inst # i
    BY <2>5, RunningOps
  <2>7. \A id \in OpIDs : worker[id] # Nil => worker[id].inst # i
    BY <1>2, <2>5, RunningOps, OnlyWorker
  <2>8. instances'[i] = rec /\ releases'[n] = releases[n]
    BY <1>0, <1>1, <2>2, <2>4, <2>6, <2>7, DataStands
  <2> QED
    BY <2>2, <2>3, <2>8
<1>5. CASE ~HasOp(i, "create", "succeeded")
  <2>0. \E id \in OpIDs :
          /\ Ends(id)
          /\ worker[id].inst = i /\ worker[id].pc = "succeed" /\ ops[id].type = "create"
          /\ HasOp(i, "create", "in progress") /\ ~HasOp(i, "create", "in progress")'
    BY <1>0, <1>3, <1>5, Succeeded
  <2>1. PICK id \in OpIDs : Ends(id) /\ worker[id].inst = i /\ worker[id].pc = "succeed"
    BY <2>0
  <2>2. PICK w, r, n : /\ w = worker[id] /\ r = [w.rec EXCEPT !.released = TRUE]
                       /\ n = createReleaseName(i, w.rec)
    OBVIOUS
  <2>3. /\ w # Nil /\ w.rec \in Instance
        /\ instances[i] = r
        /\ releases[n] = [status |-> "deployed", params |-> w.rec.params]
    BY <1>2, <2>1, <2>2, WorkerFacts DEF Ends, DeployedInv, InstallsStand, InstallStands, Deployed
  <2>4. /\ r \in Instance /\ r.released
        /\ r.params = w.rec.params /\ r.svc = w.rec.svc /\ r.plan = w.rec.plan /\ r.ns = w.rec.ns
    BY <2>2, <2>3 DEF Instance
  <2>5. n = createReleaseName(i, r)
    <3>1. createReleaseName(i, w.rec) = createReleaseName(i, r)
      BY <2>4, NameFacts
    <3> QED
      BY <2>2, <3>1
  <2>6. instances'[i] = r /\ UNCHANGED releases
    BY <2>1, <2>3 DEF Ends
  <2> QED
    BY <2>3, <2>4, <2>5, <2>6, NilAssumption
<1> QED
  BY <1>4, <1>5

(* What IsProvisioned reports is true (storage's last operation and the    *)
(* record, the release of helm): unless a removal was asked for, the       *)
(* instance has its record, its release is deployed and with the           *)
(* parameters of the record, for any number of instances, failed calls and *)
(* restarts, if the platform asks for no instance whose provisioning is in *)
(* progress and no record of an older version is left.                     *)
THEOREM Records_ProvisionedIsDeployed ==
  ASSUME "retry" \notin Platform, Legacy = {}
  PROVE  Spec => []ProvisionedIsDeployed
<1>1. Init => DeployedInv
  BY InitFacts, IdleFacts
  DEF DeployedInv, NothingHashed, HashedRecord, InstallsStand, ProvisionedIsDeployed, IsProvisioned
<1>2. IInv /\ IInv' /\ KindsInv /\ AgainInv /\ DeployedInv /\ [Next]_vars => DeployedInv'
  BY StepCases, NothingHashedStep, InstallsStandStep, DeployedStep DEF DeployedInv
<1>3. DeployedInv => ProvisionedIsDeployed
  BY DEF DeployedInv
<1> QED
  BY <1>1, <1>2, <1>3, Invariance, KindsAlways, AgainAlways, PTL DEF Spec

-----------------------------------------------------------------------------
(* GoneInv.                                                                *)

(* Nobody provisions an instance whose removal was asked for.              *)
LEMMA RemovalIsLastStep ==
  ASSUME IInv, IInv', "overlap" \notin Platform, "reprovision" \notin Platform,
         RemovalIsLast, Step
  PROVE  RemovalIsLast'
<1>0. /\ Serialised /\ "create" \in OpTypes /\ "remove" \in OpTypes /\ "in progress" \in OpStates
      /\ Nil \notin Instances
  BY NilAssumption DEF Serialised, OpTypes, OpStates
<1> SUFFICES ASSUME NEW i \in Instances, ~Unremoved(i)'
             PROVE  /\ \A t \in Threads : handler'[t].inst = i => handler'[t].type = "remove"
                    /\ ~HasOp(i, "create", "in progress")'
  BY DEF RemovalIsLast
<1>1. \/ ~Unremoved(i)
      \/ \E t \in Threads : Opens(t) /\ handler[t].inst = i /\ handler[t].type = "remove"
  BY Unremoval
<1>2. CASE ~Unremoved(i)
  <2>1. /\ \A t \in Threads : handler[t].inst = i => handler[t].type = "remove"
        /\ ~HasOp(i, "create", "in progress")
    BY <1>2 DEF RemovalIsLast
  <2>2. ~HasOp(i, "create", "in progress")'
    BY <1>0, <2>1, Started
  <2>3. ASSUME NEW t \in Threads, handler'[t].inst = i
        PROVE  handler'[t].type = "remove"
    <3>1. handler'[t].pc # "idle"
      <4>1. handler'[t] # Idle
        BY <1>0, <2>3, IdleFacts
      <4> QED
        BY <4>1 DEF IInv, HandlerHoldsMutex
    <3>2. CASE Enters(t)
      <4>1. PlatformProvisions(i) => Unremoved(i)
        BY DEF PlatformProvisions, Unremoved
      <4> QED
        BY <1>2, <2>3, <3>2, <4>1 DEF Enters
    <3>3. CASE handler'[t] = handler[t] \/ Passes(t) \/ handler'[t].inst = handler[t].inst
      BY <2>1, <2>3, <3>3, <3>1, HandlerMoves DEF Passes, Enters
    <3> QED
      BY <3>1, <3>2, <3>3, HandlerMoves
  <2> QED
    BY <2>2, <2>3
<1>3. ASSUME NEW t \in Threads, Opens(t), handler[t].inst = i, handler[t].type = "remove"
      PROVE  /\ \A u \in Threads : handler'[u].inst = i => handler'[u].type = "remove"
             /\ ~HasOp(i, "create", "in progress")'
  <2>1. Sets(t, Idle)
    BY <1>3 DEF Opens
  <2>2. \A u \in Threads : u # t => handler[u].inst # i
    BY <1>0, <1>3 DEF IInv, OneRequestPerInstance
  <2>3. \A u \in Threads : handler'[u].inst # i
    BY <1>0, <2>1, <2>2, IdleFacts DEF Sets
  <2>4. ~HasOp(i, "create", "in progress")
    BY <1>0, <1>3 DEF Opens, isOperationInProgress
  <2>5. ~HasOp(i, "create", "in progress")'
    <3>1. \A j \in Instances, y \in OpTypes, s \in OpStates : HasOp(j, y, s)' <=>
            \/ HasOp(j, y, s)
            \/ j = handler[t].inst /\ y = handler[t].type /\ s = "in progress"
      BY <1>3, OpensLog
    <3> QED
      BY <1>0, <1>3, <2>4, <3>1
  <2> QED
    BY <2>3, <2>5
<1> QED
  BY <1>1, <1>2, <1>3

(* After the request to remove an instance only nothing is written.        *)
LEMMA OnlyForgotten ==
  ASSUME IInv, KindsInv, RemovalIsLast, Step, NEW i \in Instances, ~Unremoved(i), instances[i] = Nil
  PROVE  instances'[i] = Nil
<1>1. ASSUME NEW t \in Threads, Saves(t), handler[t].inst = i
      PROVE  FALSE
  <2>1. handler[t].type = "create"
    BY <1>1, HandlerFacts DEF Saves, CreatePCs
  <2> QED
    BY <1>1, <2>1 DEF RemovalIsLast
<1>2. ASSUME NEW id \in OpIDs, Works(id), worker[id].inst = i, worker[id].pc = "record"
      PROVE  FALSE
  <2>1. ops[id].type = "create" /\ worker[id] # Nil
    BY <1>2 DEF Works, KindsInv, Installing
  <2>2. HasOp(worker[id].inst, ops[id].type, "in progress")
    BY <2>1, RunningOps
  <2> QED
    BY <1>2, <2>1, <2>2 DEF RemovalIsLast
<1> QED
  BY <1>1, <1>2, RecordWritten

(* The record of a removed instance is gone.                               *)
LEMMA GoneStep ==
  ASSUME IInv, IInv', KindsInv, GoneInv, Step
  PROVE  RemovedIsGone' /\ DoneIsGone'
<1>0. /\ RemovalIsLast /\ RemovedIsGone /\ DoneIsGone
      /\ "remove" \in OpTypes /\ "succeeded" \in OpStates /\ "in progress" \in OpStates
  BY DEF GoneInv, OpTypes, OpStates
<1>1. ASSUME NEW i \in Instances, HasOp(i, "remove", "succeeded")'
      PROVE  instances'[i] = Nil
  <2>1. CASE HasOp(i, "remove", "succeeded")
    <3>1. ~Unremoved(i) /\ instances[i] = Nil
      BY <1>0, <2>1 DEF Unremoved, RemovedIsGone
    <3> QED
      BY <1>0, <3>1, OnlyForgotten
  <2>2. CASE ~HasOp(i, "remove", "succeeded")
    <3>1. \E id \in OpIDs :
            /\ Ends(id)
            /\ worker[id].inst = i /\ worker[id].pc = "succeed" /\ ops[id].type = "remove"
            /\ HasOp(i, "remove", "in progress") /\ ~HasOp(i, "remove", "in progress")'
      BY <1>0, <1>1, <2>2, Succeeded
    <3>2. PICK id \in OpIDs : /\ Ends(id) /\ worker[id].inst = i
                              /\ worker[id].pc = "succeed" /\ ops[id].type = "remove"
      BY <3>1
    <3> QED
      BY <1>0, <3>2 DEF Ends, DoneIsGone
  <2> QED
    BY <2>1, <2>2
<1>2. ASSUME NEW id \in OpIDs, worker'[id] # Nil, worker'[id].pc = "succeed",
             ops'[id].type = "remove"
      PROVE  instances'[worker'[id].inst] = Nil
  <2>1. CASE worker'[id] = worker[id] /\ ~Works(id)
    <3>1. ops[id].type = "remove"
      <4>1. ops[id] # Nil
        BY <1>2, <2>1 DEF IInv, WorkerRunsOperation, InProgress
      <4>2. ops'[id] = ops[id] \/ ops'[id].type = ops[id].type
        <5>1. ASSUME NEW t \in Threads, Opens(t)
              PROVE  ops'[id] = ops[id]
          BY <4>1, <5>1 DEF Opens
        <5>2. ASSUME NEW o \in OpIDs, Ends(o)
              PROVE  ops'[id].type = ops[id].type
          BY <4>1, <5>2, EndsLog
        <5>3. ~Restarts
          BY <1>2 DEF Restarts
        <5> QED
          BY <5>1, <5>2, <5>3 DEF Step, Returns, Enters, Passes, Saves, Works
      <4> QED
        BY <1>2, <4>2
    <3>2. PICK i \in Instances : i = worker[id].inst
      BY <1>2, <2>1, WorkerFacts
    <3>3. instances[i] = Nil
      BY <1>0, <1>2, <2>1, <3>1, <3>2 DEF DoneIsGone
    <3>4. HasOp(worker[id].inst, ops[id].type, "in progress")
      BY <1>2, <2>1, RunningOps
    <3>5. ~Unremoved(i)
      BY <1>0, <3>1, <3>2, <3>4 DEF Unremoved
    <3> QED
      BY <1>0, <2>1, <3>2, <3>3, <3>5, OnlyForgotten
  <2>2. CASE Works(id)
    <3>1. ops[id].type = "remove"
      BY <1>2, <2>2 DEF Works
    <3>2. worker[id].pc # "record"
      BY <2>2, <3>1 DEF Works, KindsInv, Installing
    <3>3. WritesRecord(worker[id].inst, Nil)
      BY <1>2, <2>2, <3>2 DEF Works, Effect
    <3> QED
      BY <2>2, <3>3 DEF Works, WritesRecord
  <2>3. CASE worker'[id] # worker[id] /\ ~Works(id)
    <3>1. ASSUME NEW t \in Threads, Saves(t)
          PROVE  worker'[id].pc = "install"
      <4>1. worker'[id] = [pc |-> "install", inst |-> handler[t].inst, rec |-> handler[t].req]
        BY <2>3, <3>1 DEF Saves
      <4> QED
        BY <4>1
    <3>2. ASSUME NEW t \in Threads, Opens(t)
          PROVE  worker'[id].pc = "delete"
      <4>1. worker'[id] = [pc |-> "delete", inst |-> handler[t].inst, rec |-> handler[t].req]
        BY <2>3, <3>2 DEF Opens
      <4> QED
        BY <4>1
    <3> QED
      BY <1>2, <2>3, <3>1, <3>2 DEF Step, Returns, Enters, Passes, Works, Ends, Restarts
  <2> QED
    BY <2>1, <2>2, <2>3
<1>3. RemovedIsGone'
  BY <1>1 DEF RemovedIsGone
<1>4. DoneIsGone'
  BY <1>2 DEF DoneIsGone
<1> QED
  BY <1>3, <1>4

(* A record belongs to an instance that has operations.                    *)
LEMMA RecordHasOpsStep ==
  ASSUME IInv, IInv', KindsInv, RecordHasOps, Step
  PROVE  RecordHasOps'
<1>1. ASSUME NEW i \in Instances, HasNoOps(i)'
      PROVE  HasNoOps(i) \/ (Restarts /\ ~UNCHANGED <<ops, instances>>)
  <2>1. CASE UNCHANGED ops
    BY <1>1, <2>1, SameLog
  <2>2. ASSUME NEW t \in Threads, Opens(t)
        PROVE  HasNoOps(i)
    BY <1>1, <2>2, OpensLog
  <2>3. ASSUME NEW id \in OpIDs, Ends(id)
        PROVE  HasNoOps(i)
    BY <1>1, <2>3, EndsLog DEF Closes
  <2> QED
    BY <2>1, <2>2, <2>3 DEF Step, Returns, Enters, Passes, Saves, Works
<1>2. \A i \in Instances, y \in OpTypes, s \in OpStates : HasOp(i, y, s) => ~HasNoOps(i)
  <2> SUFFICES ASSUME NEW i \in Instances, NEW y \in OpTypes, NEW s \in OpStates, HasOp(i, y, s)
               PROVE  ~HasNoOps(i)
    OBVIOUS
  <2>1. OpIn(ops, i, y, s)
    BY LogByFields DEF IInv
  <2> QED
    BY <2>1 DEF OpIn, HasNoOps
<1>3. "create" \in OpTypes /\ "in progress" \in OpStates
  BY DEF OpTypes, OpStates
<1>4. ASSUME NEW i \in Instances, instances'[i] # Nil, HasNoOps(i)'
      PROVE  FALSE
  <2>1. ~(Restarts /\ ~UNCHANGED <<ops, instances>>)
    BY <1>4, RestartLog
  <2>2. HasNoOps(i)
    BY <1>1, <1>4, <2>1
  <2>3. ASSUME NEW t \in Threads, Saves(t), handler[t].inst = i
        PROVE  FALSE
    <3>1. CASE handler[t].pc = "saveParams"
      BY <2>2, <2>3, <3>1 DEF RecordHasOps
    <3>2. CASE handler[t].pc = "findPlan"
      <4>1. HasOp(handler[t].inst, "create", "in progress")
        BY <3>2, RunningOps
      <4> QED
        BY <1>2, <1>3, <2>2, <2>3, <4>1
    <3> QED
      BY <2>3, <3>1, <3>2 DEF Saves
  <2>4. ASSUME NEW id \in OpIDs, Works(id), worker[id].inst = i
        PROVE  FALSE
    <3>1. ops[id].type \in OpTypes /\ HasOp(worker[id].inst, ops[id].type, "in progress")
      BY <2>4, RunningOps DEF Works
    <3> QED
      BY <1>2, <1>3, <2>2, <2>4, <3>1
  <2>5. instances[i] = Nil
    BY <2>2 DEF RecordHasOps
  <2> QED
    BY <1>4, <2>1, <2>3, <2>4, <2>5, RecordWritten
<1>5. ASSUME NEW t \in Threads, handler'[t].pc = "saveParams", NEW i \in Instances, i = handler'[t].inst,
             HasNoOps(i)'
      PROVE  FALSE
  <2>1. HasNoOps(i)
    BY <1>1, <1>5, IdleFacts DEF Restarts
  <2>2. CASE Passes(t)
    <3>1. instances[i] # Nil
      BY <1>5, <2>2 DEF Passes, PassesOn, HashedRecord
    <3> QED
      BY <2>1, <3>1 DEF RecordHasOps
  <2>3. CASE Enters(t)
    BY <1>5, <2>3 DEF Enters
  <2>4. CASE handler'[t] = handler[t]
    BY <1>5, <2>1, <2>4 DEF RecordHasOps
  <2> QED
    BY <1>5, <2>2, <2>3, <2>4, HandlerMoves
<1>6. \A t \in Threads : handler'[t].pc = "saveParams" => handler'[t].inst \in Instances
  BY IdleFacts DEF IInv, HandlerHoldsMutex
<1> QED
  BY <1>4, <1>5, <1>6 DEF RecordHasOps, HasNoOps

(* GoneInv holds in every reachable state.                                 *)
LEMMA GoneAlways ==
  ASSUME "overlap" \notin Platform, "reprovision" \notin Platform
  PROVE  Spec => []GoneInv
<1>1. Init => GoneInv
  <2> SUFFICES ASSUME Init
               PROVE  GoneInv
    OBVIOUS
  <2>1. RemovalIsLast
    BY InitFacts DEF RemovalIsLast, Unremoved
  <2>2. RemovedIsGone
    BY InitFacts DEF RemovedIsGone, OpStates
  <2>3. DoneIsGone
    BY InitFacts DEF DoneIsGone
  <2>4. RecordHasOps
    BY InitFacts, IdleFacts DEF RecordHasOps
  <2> QED
    BY <2>1, <2>2, <2>3, <2>4 DEF GoneInv
<1>2. IInv /\ IInv' /\ KindsInv /\ GoneInv /\ [Next]_vars => GoneInv'
  BY StepCases, RemovalIsLastStep, GoneStep, RecordHasOpsStep DEF GoneInv
<1> QED
  BY <1>1, <1>2, Invariance, KindsAlways, PTL DEF Spec

(* Deprovision answers 410 Gone, because no operation is stored, because a *)
(* removal has succeeded or because no record is found (deprovision.go:43  *)
(* and 68), only when neither a record nor a release of the instance is    *)
(* left: if requests about one instance do not overlap, a removed instance *)
(* is not provisioned again, an instance is always asked for alike, and    *)
(* the storage outlives restarts.                                          *)
THEOREM Records_GoneIsGone ==
  ASSUME "overlap" \notin Platform, "reprovision" \notin Platform, Durable, NEW asks
  PROVE  Spec /\ KeptAsAsked(asks) /\ []AsAsked(asks) => GoneIsGone
<1>0. Serialised
  BY DEF Serialised
<1>1. ASSUME IInv, GoneInv, ReleaseIsRecorded, NEW t \in Threads,
             AnswerGone(t) \/ AnswerNotStored(t)
      PROVE  /\ instances[handler[t].inst] = Nil
             /\ \A n \in ReleaseName : n.inst = handler[t].inst => releases[n] = Nil
  <2>1. handler[t].inst \in Instances
    BY <1>1, HandlerFacts DEF AnswerGone, AnswerNotStored, At
  <2>2. HasNoOps(handler[t].inst) \/ IsDeprovisioned(handler[t].inst) => instances[handler[t].inst] = Nil
    BY <1>1, <2>1 DEF IsDeprovisioned, GoneInv, RecordHasOps, RemovedIsGone
  <2>3. instances[handler[t].inst] = Nil
    BY <1>1, <2>2 DEF AnswerGone, AnswerNotStored
  <2> QED
    BY <1>1, <2>3 DEF ReleaseIsRecorded
<1>2. IInv /\ GoneInv /\ ReleaseIsRecorded =>
        [\A t \in Threads : AnswerGone(t) \/ AnswerNotStored(t) =>
           LET i == handler[t].inst IN
           /\ instances[i] = Nil
           /\ \A n \in ReleaseName : n.inst = i => releases[n] = Nil]_vars
  BY <1>1
<1>3. Spec /\ KeptAsAsked(asks) /\ []AsAsked(asks) => []ReleaseIsRecorded
  BY <1>0, Records_ReleaseIsRecorded
<1> QED
  BY <1>2, <1>3, Invariance, GoneAlways, PTL DEF GoneIsGone
=============================================================================
