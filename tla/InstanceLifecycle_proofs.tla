---------------------- MODULE InstanceLifecycle_proofs ----------------------
(***************************************************************************)
(* InstanceLifecycle for every value of its constants: the invariant IInv, *)
(* from which type correctness, the exclusion of concurrent operations and *)
(* the refinement of OperationLog follow.                                  *)
(*                                                                         *)
(* The first part has one lemma for each way a step changes the state of   *)
(* handlers, goroutines and operations (a return, a move, the start of a   *)
(* request, a put, the end of an operation); the second reduces each       *)
(* action to one of them.                                                  *)
(***************************************************************************)
EXTENDS InstanceLifecycle, TLAPS

(* The state of a thread that serves nothing is a handler state.           *)
LEMMA IdleFacts ==
  /\ Idle \in Handler
  /\ Idle.pc = "idle" /\ Idle.type = Nil /\ Idle.inst = Nil
  /\ Idle.req = Nil /\ Idle.op = Nil
  BY DEF Idle, Handler, HandlerPCs

(* The part of TypeOK about what no mutex or operation ID protects.        *)
DataTypeOK ==
  /\ instances \in [Instances -> Instance \cup {Nil}]
  /\ releases \in [ReleaseName -> Release]
  /\ crashes \in 0..MaxCrashes
  /\ faults \in 0..MaxFaults

(* The part of IInv about operations and goroutines.                       *)
LogInv == WorkerRunsOperation /\ OneOfEachType /\ (Serialised => OneInProgress)

(* What is said of the operations depends on ops and worker only.          *)
LEMMA LogKept ==
  ASSUME LogInv, UNCHANGED <<ops, worker>>
  PROVE  /\ LogInv'
         /\ \A i, y, s : HasOp(i, y, s)' <=> HasOp(i, y, s)
         /\ \A i : isOperationInProgress(i)' <=> isOperationInProgress(i)
         /\ \A id : InProgress(id)' <=> InProgress(id)
  BY DEF LogInv, WorkerRunsOperation, OneOfEachType, OneInProgress, InProgress,
         Serialised, HasOp, isOperationInProgress

(* A handler that returns without touching the operations (the deferred    *)
(* Unlock of Provision and Deprovision) preserves the invariant.           *)
LEMMA AnswerKeeps ==
  ASSUME IInv, NEW t \in Threads, ~At(t, "idle"), Answer(t),
         UNCHANGED <<ops, worker>>, DataTypeOK'
  PROVE  IInv'
<1> USE DEF IInv
<1>1. /\ handler[t] \in Handler
      /\ handler[t].type \in OpTypes
      /\ mu[handler[t].type] = t
  BY IdleFacts DEF At, HandlerHoldsMutex, TypeOK
<1>2. /\ handler' = [handler EXCEPT ![t] = Idle]
      /\ mu' = [mu EXCEPT ![handler[t].type] = Nil]
  BY DEF Answer
<1>4. TypeOK'
  BY <1>1, <1>2, IdleFacts DEF TypeOK, DataTypeOK
<1>5. /\ handler'[t] = Idle
      /\ \A u \in Threads : u # t => handler'[u] = handler[u]
  BY <1>2 DEF TypeOK
<1>6. \A y \in OpTypes : y # handler[t].type => mu'[y] = mu[y]
  BY <1>2 DEF TypeOK
<1>7. \A u \in Threads : u # t => handler[u] = Idle \/ handler[u].type # handler[t].type
  BY <1>1 DEF HandlerHoldsMutex
<1>8. HandlerHoldsMutex'
  BY <1>5, <1>6, <1>7 DEF HandlerHoldsMutex
<1>9. HandlerOwnsID' /\ OneOwner'
  BY <1>5, IdleFacts, LogKept DEF HandlerOwnsID, OneOwner, InsertPCs, LogInv
<1>10. LogInv'
  BY LogKept DEF LogInv
<1>11. CheckStillHolds'
  BY <1>5, IdleFacts, LogKept DEF CheckStillHolds, Serialised, LogInv
<1>12. OneRequestPerInstance'
  BY <1>5, IdleFacts DEF OneRequestPerInstance
<1> QED
  BY <1>4, <1>8, <1>9, <1>10, <1>11, <1>12 DEF LogInv

(* The handler moves on with another pc and record; the operation ID stays. *)
LEMMA MoveKeeps ==
  ASSUME IInv, NEW t \in Threads, NEW h \in Handler,
         handler[t].pc \notin {"idle", "findPlan", "put"},
         handler' = [handler EXCEPT ![t] = h],
         UNCHANGED <<mu, ops, worker>>, DataTypeOK',
         h.type = handler[t].type, h.inst = handler[t].inst,
         h.pc \notin {"idle", "findPlan"},
         h.pc \in CreatePCs => h.type = "create",
         h.pc \in RemovePCs => h.type = "remove",
         h.pc \in CreatePCs \cup InsertPCs => h.req \in Instance,
         h.op # handler[t].op => h.op \in OpIDs /\ FreshID(h.op),
         h.op = Nil <=> h.pc \notin {"getInstance"} \cup InsertPCs,
         h.pc = "put" => Driver = "etcd" /\ ~isOperationInProgress(h.inst)
  PROVE  IInv'
<1> USE DEF IInv
<1>2. /\ handler'[t] = h
      /\ \A u \in Threads : u # t => handler'[u] = handler[u]
  BY DEF TypeOK
<1>3. handler[t] # Idle
  BY IdleFacts
<1>4. TypeOK'
  BY DEF TypeOK, DataTypeOK
<1>8. HandlerHoldsMutex'
  BY <1>2, <1>3 DEF HandlerHoldsMutex
<1>9. HandlerOwnsID' /\ OneOwner'
  <2>0. h.op \in OpIDs \cup {Nil}
    BY DEF Handler
  <2>1. h.op # Nil => h.op \in OpIDs /\ ops[h.op] = Nil
    <3>1. CASE h.op = handler[t].op
      BY <3>1, <2>0 DEF HandlerOwnsID, InsertPCs
    <3>2. CASE h.op # handler[t].op
      BY <3>2 DEF FreshID
    <3> QED BY <3>1, <3>2
  <2>2. \A u \in Threads : u # t /\ handler[u].op = h.op => h.op = Nil
    <3>1. CASE h.op = handler[t].op
      BY <3>1 DEF OneOwner
    <3>2. CASE h.op # handler[t].op
      BY <3>2 DEF FreshID
    <3> QED BY <3>1, <3>2
  <2>3. HandlerOwnsID'
    BY <1>2, <2>1, LogKept DEF HandlerOwnsID, InsertPCs, LogInv
  <2>4. OneOwner'
    BY <1>2, <2>2 DEF OneOwner
  <2> QED
    BY <2>3, <2>4
<1>10. LogInv'
  BY LogKept DEF LogInv
<1>11. CheckStillHolds'
  <2>1. h.pc = "put" => h.type \in OpTypes
    BY <1>3 DEF HandlerHoldsMutex
  <2>2. h.pc = "put" => ~HasOp(h.inst, h.type, "in progress")
    BY <2>1 DEF isOperationInProgress
  <2> QED
    BY <1>2, <2>2, LogKept DEF CheckStillHolds, Serialised, LogInv
<1>12. OneRequestPerInstance'
  BY <1>2 DEF OneRequestPerInstance
<1> QED
  BY <1>4, <1>8, <1>9, <1>10, <1>11, <1>12 DEF LogInv

(* A request that takes the free mutex of its service (provision.go:50,    *)
(* deprovision.go:38) preserves the invariant.                             *)
LEMMA EnterKeeps ==
  ASSUME IInv, NEW t \in Threads, NEW type \in OpTypes, NEW i \in Instances,
         NEW r \in Instance \cup {Nil}, NEW pc,
         Enter(t, type, i, r, pc),
         \/ type = "create" /\ pc = "isProvisioned" /\ r \in Instance
         \/ type = "remove" /\ pc = "isDeprovisioned"
  PROVE  IInv'
<1> DEFINE h == [pc |-> pc, type |-> type, inst |-> i, req |-> r, op |-> Nil]
<1> USE DEF IInv
<1>1. /\ h \in Handler
      /\ h.pc = pc /\ h.type = type /\ h.inst = i /\ h.req = r /\ h.op = Nil
  BY DEF Handler, HandlerPCs
<1>2. /\ handler[t].pc = "idle"
      /\ mu[type] = Nil
      /\ mu' = [mu EXCEPT ![type] = t]
      /\ handler' = [handler EXCEPT ![t] = h]
      /\ "overlap" \in Platform \/ ~Serving(i)
      /\ UNCHANGED <<ops, instances, releases, worker, crashes, faults>>
  BY DEF Enter, At
<1> HIDE DEF h
<1>3. /\ handler'[t] = h
      /\ \A u \in Threads : u # t => handler'[u] = handler[u]
  BY <1>2 DEF TypeOK
<1>4. /\ mu'[type] = t
      /\ \A y \in OpTypes : y # type => mu'[y] = mu[y]
  BY <1>2 DEF TypeOK
<1>5. TypeOK'
  BY <1>1, <1>2 DEF TypeOK
<1>6. handler[t] = Idle
  BY <1>2 DEF HandlerHoldsMutex
<1>7. \A u \in Threads : handler[u] = Idle \/ handler[u].type # type
  BY <1>2, NilAssumption DEF HandlerHoldsMutex
<1>8. HandlerHoldsMutex'
  BY <1>1, <1>2, <1>3, <1>4, <1>7 DEF HandlerHoldsMutex, CreatePCs, RemovePCs, InsertPCs
<1>9. HandlerOwnsID' /\ OneOwner'
  BY <1>1, <1>2, <1>3, LogKept DEF HandlerOwnsID, OneOwner, InsertPCs, LogInv
<1>10. LogInv'
  BY <1>2, LogKept DEF LogInv
<1>11. CheckStillHolds'
  BY <1>1, <1>2, <1>3, LogKept DEF CheckStillHolds, Serialised, LogInv
<1>12. OneRequestPerInstance'
  BY <1>1, <1>2, <1>3 DEF OneRequestPerInstance, Serving
<1> QED
  BY <1>5, <1>8, <1>9, <1>10, <1>11, <1>12 DEF LogInv

(* Inserting a running operation next to none of its instance and type.    *)
LEMMA PutFacts ==
  ASSUME ops \in [OpIDs -> InstanceOperation \cup {Nil}],
         OneOfEachType, Serialised => OneInProgress,
         NEW op \in OpIDs, ops[op] = Nil,
         NEW inst \in Instances, NEW type \in OpTypes,
         ~HasOp(inst, type, "in progress"),
         Serialised => ~isOperationInProgress(inst),
         ops' = [ops EXCEPT ![op] = [inst |-> inst, type |-> type, state |-> "in progress"]]
  PROVE  /\ ops' \in [OpIDs -> InstanceOperation \cup {Nil}]
         /\ InProgress(op)'
         /\ ops'[op].inst = inst
         /\ \A id \in OpIDs : id # op => ops'[id] = ops[id]
         /\ OneOfEachType'
         /\ Serialised => OneInProgress'
<1> DEFINE new == [inst |-> inst, type |-> type, state |-> "in progress"]
<1>1. new \in InstanceOperation
  BY DEF InstanceOperation, OpStates
<1>2. /\ new # Nil
      /\ new.inst = inst /\ new.type = type /\ new.state = "in progress"
  BY <1>1, NilAssumption
<1>3. \A i, y : new = [inst |-> i, type |-> y, state |-> "in progress"] => i = inst /\ y = type
  OBVIOUS
<1>4. ops' = [ops EXCEPT ![op] = new]
  OBVIOUS
<1> HIDE DEF new
<1>5. /\ ops'[op] = new
      /\ \A id \in OpIDs : id # op => ops'[id] = ops[id]
      /\ ops' \in [OpIDs -> InstanceOperation \cup {Nil}]
  BY <1>1, <1>4
<1>6. ASSUME NEW id \in OpIDs, InProgress(id)
      PROVE  /\ ~(ops[id].inst = inst /\ ops[id].type = type)
             /\ Serialised => ops[id].inst # inst
  <2>1. /\ ops[id] = [inst |-> ops[id].inst, type |-> ops[id].type, state |-> "in progress"]
        /\ ops[id].type \in OpTypes
    BY <1>6 DEF InProgress, InstanceOperation
  <2>2. HasOp(ops[id].inst, ops[id].type, "in progress")
    BY <2>1 DEF HasOp
  <2> QED
    BY <2>1, <2>2 DEF isOperationInProgress
<1>7. InProgress(op)' /\ \A id \in OpIDs : id # op => (InProgress(id)' <=> InProgress(id))
  BY <1>2, <1>5 DEF InProgress
<1>8. OneOfEachType'
  BY <1>2, <1>5, <1>6, <1>7 DEF OneOfEachType
<1>9. (Serialised => OneInProgress')
  BY <1>2, <1>5, <1>6, <1>7 DEF OneInProgress, Serialised
<1> QED
  BY <1>2, <1>5, <1>7, <1>8, <1>9

(* No other handler is about to put an operation that the put of t excludes. *)
LEMMA OtherPuts ==
  ASSUME IInv, NEW t \in Threads, handler[t].pc \in InsertPCs,
         NEW u \in Threads, u # t, handler[u].pc = "put"
  PROVE  /\ Driver = "etcd"
         /\ handler[u].type # handler[t].type
         /\ ~HasOp(handler[u].inst, handler[u].type, "in progress")
         /\ Serialised => /\ handler[u].inst # handler[t].inst
                          /\ ~isOperationInProgress(handler[u].inst)
<1> USE DEF IInv
<1>1. /\ handler[t].inst \in Instances /\ mu[handler[t].type] = t
      /\ handler[u].inst \in Instances /\ mu[handler[u].type] = u
  BY IdleFacts DEF HandlerHoldsMutex, InsertPCs
<1>2. Driver = "etcd"
  BY DEF CheckStillHolds
<1>3. Serialised => "overlap" \notin Platform
  BY <1>2 DEF Serialised
<1> QED
  BY <1>1, <1>2, <1>3, NilAssumption DEF CheckStillHolds, OneRequestPerInstance

(* The put of an operation; the handler goes on to findPlan or has started *)
(* the goroutine (or lost the answer of etcd) and returns.                 *)
LEMMA PutKeeps ==
  ASSUME IInv, NEW t \in Threads, handler[t].pc \in InsertPCs,
         handler[t].pc = "put" \/ ~isOperationInProgress(handler[t].inst),
         ops' = [ops EXCEPT ![handler[t].op] =
                   [inst |-> handler[t].inst, type |-> handler[t].type,
                    state |-> "in progress"]],
         NEW w \in Worker \cup {Nil}, w # Nil => w.inst = handler[t].inst,
         worker' = [worker EXCEPT ![handler[t].op] = w],
         NEW h \in Handler, handler' = [handler EXCEPT ![t] = h],
         \/ h = Idle /\ mu' = [mu EXCEPT ![handler[t].type] = Nil]
         \/ /\ w = Nil /\ h.pc = "findPlan" /\ h.type = "create"
            /\ h.type = handler[t].type /\ h.inst = handler[t].inst
            /\ h.op = handler[t].op /\ h.req = handler[t].req
            /\ mu' = mu,
         DataTypeOK'
  PROVE  IInv'
<1>type. TypeOK
  BY DEF IInv
<1>mutex. HandlerHoldsMutex
  BY DEF IInv
<1>owns. HandlerOwnsID
  BY DEF IInv
<1>owner. OneOwner
  BY DEF IInv
<1>runs. WorkerRunsOperation
  BY DEF IInv
<1>check. CheckStillHolds
  BY DEF IInv
<1>one. OneRequestPerInstance
  BY DEF IInv
<1>0. PICK op, inst, type : /\ op = handler[t].op
                            /\ inst = handler[t].inst
                            /\ type = handler[t].type
  OBVIOUS
<1>1. /\ handler[t] # Idle /\ handler[t].pc # "idle" /\ handler[t].pc # "findPlan"
      /\ inst \in Instances /\ type \in OpTypes /\ mu[type] = t
      /\ handler[t].req \in Instance
  BY <1>mutex, <1>0, IdleFacts DEF HandlerHoldsMutex, InsertPCs
<1>2. op \in OpIDs /\ ops[op] = Nil
  BY <1>owns, <1>0 DEF HandlerOwnsID
<1>3. /\ ~HasOp(inst, type, "in progress")
      /\ Serialised => ~isOperationInProgress(inst)
  BY <1>check, <1>0, <1>1 DEF CheckStillHolds, isOperationInProgress
<1>4. /\ ops' \in [OpIDs -> InstanceOperation \cup {Nil}]
      /\ InProgress(op)'
      /\ ops'[op].inst = inst
      /\ \A id \in OpIDs : id # op => ops'[id] = ops[id]
      /\ OneOfEachType'
      /\ (Serialised => OneInProgress')
      /\ \A i, y : HasOp(i, y, "in progress")' =>
           HasOp(i, y, "in progress") \/ (i = inst /\ y = type)
  <2>1. ops \in [OpIDs -> InstanceOperation \cup {Nil}]
    BY <1>type DEF TypeOK
  <2>2. ops' = [ops EXCEPT ![op] = [inst |-> inst, type |-> type, state |-> "in progress"]]
    BY <1>0
  <2>3. OneOfEachType /\ (Serialised => OneInProgress)
    BY DEF IInv
  <2>4. /\ ops' \in [OpIDs -> InstanceOperation \cup {Nil}]
        /\ InProgress(op)'
        /\ ops'[op].inst = inst
        /\ \A id \in OpIDs : id # op => ops'[id] = ops[id]
        /\ OneOfEachType'
        /\ Serialised => OneInProgress'
    BY <1>1, <1>2, <1>3, <2>1, <2>2, <2>3, PutFacts
  <2>5. ASSUME NEW i, NEW y, HasOp(i, y, "in progress")'
        PROVE  HasOp(i, y, "in progress") \/ (i = inst /\ y = type)
    <3>1. PICK id \in OpIDs : ops'[id] = [inst |-> i, type |-> y, state |-> "in progress"]
      BY <2>5 DEF HasOp
    <3>2. CASE id = op
      <4>1. ops'[op] = [inst |-> inst, type |-> type, state |-> "in progress"]
        BY <1>2, <2>1, <2>2
      <4>2. [inst |-> inst, type |-> type, state |-> "in progress"]
              = [inst |-> i, type |-> y, state |-> "in progress"]
        BY <3>1, <3>2, <4>1
      <4> QED
        BY <4>2
    <3>3. CASE id # op
      <4>1. ops[id] = [inst |-> i, type |-> y, state |-> "in progress"]
        BY <3>1, <3>3, <2>4
      <4> QED
        BY <4>1 DEF HasOp
    <3> QED
      BY <3>2, <3>3
  <2> QED
    BY <2>4, <2>5
<1>5. /\ handler'[t] = h
      /\ \A u \in Threads : u # t => handler'[u] = handler[u]
      /\ worker'[op] = w
      /\ \A id \in OpIDs : id # op => worker'[id] = worker[id]
  BY <1>type, <1>0, <1>2 DEF TypeOK
<1>6. \A y \in OpTypes : y # type => mu'[y] = mu[y]
  BY <1>type, <1>0, <1>1 DEF TypeOK
<1>7. \A u \in Threads : u # t => handler[u] = Idle \/ handler[u].type # type
  BY <1>mutex, <1>0, <1>1 DEF HandlerHoldsMutex
<1>8. \A u \in Threads : u # t /\ handler[u].op = op => FALSE
  BY <1>owner, <1>0, <1>2, NilAssumption DEF OneOwner
<1>9. \A id \in OpIDs : id # op => (InProgress(id)' <=> InProgress(id))
  BY <1>0, <1>4 DEF InProgress
<1>10. TypeOK'
  <2>1. mu' \in [OpTypes -> Threads \cup {Nil}]
    BY <1>type, <1>0, <1>1 DEF TypeOK
  <2>2. handler' \in [Threads -> Handler] /\ worker' \in [OpIDs -> Worker \cup {Nil}]
    BY <1>type, <1>0, <1>2 DEF TypeOK
  <2> QED
    BY <1>type, <1>0, <1>4, <2>1, <2>2 DEF TypeOK, DataTypeOK
<1>11. HandlerHoldsMutex'
  <2>1. \A u \in Threads : u # t => handler'[u] = Idle \/ mu'[handler[u].type] = mu[handler[u].type]
    BY <1>mutex, <1>0, <1>5, <1>6, <1>7 DEF HandlerHoldsMutex
  <2>2. h = Idle \/ mu'[h.type] = t
    BY <1>0, <1>1
  <2>4. h = Idle \/ (h.pc = "findPlan" /\ h.type = "create" /\ h.inst \in Instances /\ h.req \in Instance)
    BY <1>0, <1>1
  <2>5. ASSUME NEW u \in Threads, u # t
        PROVE  \/ handler'[u] = Idle
               \/ /\ handler'[u].inst \in Instances
                  /\ handler'[u].type \in OpTypes
                  /\ handler'[u].pc # "idle"
                  /\ mu'[handler'[u].type] = u
                  /\ handler'[u].pc \in CreatePCs => handler'[u].type = "create"
                  /\ handler'[u].pc \in RemovePCs => handler'[u].type = "remove"
                  /\ handler'[u].pc \in CreatePCs \cup InsertPCs => handler'[u].req \in Instance
    <3>1. handler'[u] = handler[u]
      BY <1>5, <2>5
    <3>2. handler[u] = Idle \/ mu'[handler[u].type] = mu[handler[u].type]
      BY <2>1, <2>5, <3>1
    <3> QED
      BY <1>mutex, <3>1, <3>2 DEF HandlerHoldsMutex
  <2>6. \/ handler'[t] = Idle
        \/ /\ handler'[t].inst \in Instances
           /\ handler'[t].type \in OpTypes
           /\ handler'[t].pc # "idle"
           /\ mu'[handler'[t].type] = t
           /\ handler'[t].pc \in CreatePCs => handler'[t].type = "create"
           /\ handler'[t].pc \in RemovePCs => handler'[t].type = "remove"
           /\ handler'[t].pc \in CreatePCs \cup InsertPCs => handler'[t].req \in Instance
    BY <1>5, <2>2, <2>4 DEF CreatePCs, RemovePCs, InsertPCs, OpTypes
  <2> QED
    BY <2>5, <2>6 DEF HandlerHoldsMutex
<1>12. HandlerOwnsID'
  <2>1. ASSUME NEW u \in Threads, u # t, handler[u].op \in OpIDs
        PROVE  /\ ops'[handler[u].op] = ops[handler[u].op]
               /\ worker'[handler[u].op] = worker[handler[u].op]
               /\ InProgress(handler[u].op) => ops'[handler[u].op] # Nil /\ ops'[handler[u].op].state = "in progress"
    BY <1>0, <2>1, <1>4, <1>5, <1>8 DEF InProgress
  <2>2. h.pc = "findPlan" => h.op = op /\ h.inst = inst /\ w = Nil
    BY <1>0, IdleFacts
  <2>3. h.pc \notin {"getInstance"} \cup InsertPCs /\ (h.op # Nil => h.pc = "findPlan")
    BY <1>0, IdleFacts DEF InsertPCs
  <2>4. ASSUME NEW u \in Threads, u # t
        PROVE  /\ handler'[u].pc \in {"getInstance"} \cup InsertPCs =>
                    handler'[u].op \in OpIDs /\ ops'[handler'[u].op] = Nil
               /\ handler'[u].pc = "findPlan" =>
                    /\ handler'[u].op \in OpIDs
                    /\ ops'[handler'[u].op] # Nil /\ ops'[handler'[u].op].state = "in progress"
                    /\ ops'[handler'[u].op].inst = handler'[u].inst
                    /\ worker'[handler'[u].op] = Nil
               /\ handler'[u].op # Nil => handler'[u].pc \in {"getInstance", "findPlan"} \cup InsertPCs
    <3>1. handler'[u] = handler[u]
      BY <2>4, <1>5
    <3>2. /\ handler[u].pc \in {"getInstance"} \cup InsertPCs =>
               handler[u].op \in OpIDs /\ ops[handler[u].op] = Nil
          /\ handler[u].pc = "findPlan" =>
               /\ handler[u].op \in OpIDs
               /\ InProgress(handler[u].op)
               /\ ops[handler[u].op].inst = handler[u].inst
               /\ worker[handler[u].op] = Nil
          /\ handler[u].op # Nil => handler[u].pc \in {"getInstance", "findPlan"} \cup InsertPCs
      BY <1>owns DEF HandlerOwnsID
    <3> QED
      BY <2>1, <2>4, <3>1, <3>2
  <2>5. /\ handler'[t].pc = "findPlan" =>
             /\ handler'[t].op = op /\ handler'[t].op \in OpIDs
             /\ ops'[handler'[t].op].inst = handler'[t].inst
             /\ worker'[handler'[t].op] = Nil
        /\ handler'[t].pc \notin {"getInstance"} \cup InsertPCs
        /\ handler'[t].op # Nil => handler'[t].pc = "findPlan"
    BY <1>0, <2>2, <2>3, <1>2, <1>4, <1>5
  <2>6. handler'[t].pc = "findPlan" => ops'[handler'[t].op] # Nil /\ ops'[handler'[t].op].state = "in progress"
    BY <1>0, <2>5, <1>4 DEF InProgress
  <2> QED
    BY <1>owns, <2>4, <2>5, <2>6 DEF HandlerOwnsID, InProgress
<1>13. OneOwner'
  <2>1. h.op = Nil \/ h.op = op
    BY <1>0, IdleFacts
  <2>2. \A u \in Threads : u # t /\ handler'[u].op = handler'[t].op => handler'[t].op = Nil
    BY <1>5, <1>8, <2>1
  <2>3. ASSUME NEW u \in Threads, NEW v \in Threads, u # t, v # t, u # v,
               handler'[u].op = handler'[v].op
        PROVE  handler'[u].op = Nil
    <3>1. handler'[u] = handler[u] /\ handler'[v] = handler[v]
      BY <1>5, <2>3
    <3> QED
      BY <1>owner, <2>3, <3>1 DEF OneOwner
  <2> QED
    BY <2>2, <2>3 DEF OneOwner
<1>14. WorkerRunsOperation'
  BY <1>runs, <1>0, <1>4, <1>5, <1>9 DEF WorkerRunsOperation
<1>15. CheckStillHolds'
  <2>1. h.pc # "put"
    BY <1>0, IdleFacts
  <2>2. ASSUME NEW u \in Threads, u # t, handler'[u].pc = "put"
        PROVE  /\ Driver = "etcd"
               /\ ~HasOp(handler[u].inst, handler[u].type, "in progress")
               /\ handler[u].type # type
               /\ Serialised => /\ handler[u].inst # inst
                                /\ ~isOperationInProgress(handler[u].inst)
    BY <1>0, <2>2, <1>5, OtherPuts
  <2>3. ASSUME NEW u \in Threads, u # t, handler'[u].pc = "put",
               NEW i, i = handler[u].inst, NEW y, y = handler[u].type
        PROVE  /\ ~HasOp(i, y, "in progress")'
               /\ Serialised => ~isOperationInProgress(i)'
    BY <1>0, <2>2, <2>3, <1>4 DEF isOperationInProgress
  <2>4. ASSUME NEW u \in Threads, handler'[u].pc = "put",
               NEW i, i = handler'[u].inst, NEW y, y = handler'[u].type
        PROVE  /\ Driver = "etcd"
               /\ ~HasOp(i, y, "in progress")'
               /\ Serialised => ~isOperationInProgress(i)'
    BY <1>0, <2>1, <2>2, <2>3, <2>4, <1>5
  <2> QED
    BY <1>0, <2>4 DEF CheckStillHolds, Serialised
<1>16. OneRequestPerInstance'
  <2>1. h.inst = Nil \/ h.inst = handler[t].inst
    BY IdleFacts
  <2>2. \A u \in Threads : handler'[u].inst = Nil \/ handler'[u].inst = handler[u].inst
    BY <1>5, <2>1
  <2> QED
    BY <1>one, <2>2 DEF OneRequestPerInstance
<1> QED
  BY <1>4, <1>10, <1>11, <1>12, <1>13, <1>14, <1>15, <1>16 DEF IInv, Serialised

(* The goroutine of an operation moves on, or dies without a word.         *)
LEMMA WorkerKeeps ==
  ASSUME IInv, NEW id \in OpIDs, worker[id] # Nil,
         NEW w \in Worker \cup {Nil}, w # Nil => w.inst = worker[id].inst,
         worker' = [worker EXCEPT ![id] = w],
         UNCHANGED <<ops, mu, handler>>, DataTypeOK'
  PROVE  IInv'
<1>1. worker'[id] = w /\ \A o \in OpIDs : o # id => worker'[o] = worker[o]
  BY DEF IInv, TypeOK
<1>2. TypeOK'
  BY DEF IInv, TypeOK, DataTypeOK
<1>3. HandlerHoldsMutex' /\ OneOwner' /\ OneRequestPerInstance'
  BY DEF IInv, HandlerHoldsMutex, OneOwner, OneRequestPerInstance
<1>4. OneOfEachType' /\ (Serialised => OneInProgress)'
  BY DEF IInv, OneOfEachType, OneInProgress, InProgress, Serialised
<1>5. WorkerRunsOperation'
  BY <1>1 DEF IInv, WorkerRunsOperation, InProgress
<1>6. HandlerOwnsID'
  BY <1>1 DEF IInv, HandlerOwnsID, InProgress
<1>7. CheckStillHolds'
  BY DEF IInv, CheckStillHolds, HasOp, isOperationInProgress, Serialised
<1> QED
  BY <1>2, <1>3, <1>4, <1>5, <1>6, <1>7 DEF IInv

(* The goroutine of an operation records how it ended.                     *)
LEMMA UpdateKeeps ==
  ASSUME IInv, NEW id \in OpIDs, worker[id] # Nil,
         NEW o \in InstanceOperation, o.state # "in progress",
         ops' = [ops EXCEPT ![id] = o],
         worker' = [worker EXCEPT ![id] = Nil],
         UNCHANGED <<mu, handler>>, DataTypeOK'
  PROVE  IInv'
<1>1. /\ worker'[id] = Nil /\ ops'[id] = o
      /\ \A x \in OpIDs : x # id => worker'[x] = worker[x] /\ ops'[x] = ops[x]
  BY DEF IInv, TypeOK
<1>2. TypeOK'
  BY DEF IInv, TypeOK, DataTypeOK
<1>3. HandlerHoldsMutex' /\ OneOwner' /\ OneRequestPerInstance'
  BY DEF IInv, HandlerHoldsMutex, OneOwner, OneRequestPerInstance
<1>4. ~InProgress(id)' /\ \A x \in OpIDs : x # id => (InProgress(x)' <=> InProgress(x))
  BY <1>1 DEF InProgress
<1>5. OneOfEachType' /\ (Serialised => OneInProgress)'
  BY <1>1, <1>4 DEF IInv, OneOfEachType, OneInProgress, Serialised
<1>6. WorkerRunsOperation'
  BY <1>1, <1>4 DEF IInv, WorkerRunsOperation
<1>7. ops[id] # Nil
  BY DEF IInv, WorkerRunsOperation, InProgress
<1>8. HandlerOwnsID'
  <2>1. \A t \in Threads : handler[t].pc \in {"getInstance", "findPlan"} \cup InsertPCs =>
          handler[t].op # id
    BY <1>7 DEF IInv, HandlerOwnsID
  <2> QED
    <3>1. HandlerOwnsID /\ handler' = handler
      BY DEF IInv
    <3> SUFFICES ASSUME NEW u \in Threads
                 PROVE  /\ handler'[u].pc \in {"getInstance"} \cup InsertPCs =>
                             handler'[u].op \in OpIDs /\ ops'[handler'[u].op] = Nil
                        /\ handler'[u].pc = "findPlan" =>
                             /\ handler'[u].op \in OpIDs
                             /\ ops'[handler'[u].op] # Nil
                             /\ ops'[handler'[u].op].state = "in progress"
                             /\ ops'[handler'[u].op].inst = handler'[u].inst
                             /\ worker'[handler'[u].op] = Nil
                        /\ handler'[u].op # Nil =>
                             handler'[u].pc \in {"getInstance", "findPlan"} \cup InsertPCs
      BY DEF HandlerOwnsID, InProgress
    <3> QED
      BY <1>1, <2>1, <3>1 DEF HandlerOwnsID, InProgress
<1>9. ASSUME NEW i, NEW y, HasOp(i, y, "in progress")'
      PROVE  HasOp(i, y, "in progress")
  <2>1. PICK x \in OpIDs : ops'[x] = [inst |-> i, type |-> y, state |-> "in progress"]
    BY <1>9 DEF HasOp
  <2>2. [inst |-> i, type |-> y, state |-> "in progress"].state = "in progress"
    OBVIOUS
  <2>3. ops[x] = [inst |-> i, type |-> y, state |-> "in progress"]
    <3> DEFINE old == [inst |-> i, type |-> y, state |-> "in progress"]
    <3>1. ops'[x] = old /\ old.state = "in progress"
      BY <2>1, <2>2
    <3> HIDE DEF old
    <3>2. ops[x] = old
      BY <1>1, <3>1
    <3> QED
      BY <3>2 DEF old
  <2> QED
    BY <2>3 DEF HasOp
<1>10. CheckStillHolds'
  BY <1>9 DEF IInv, CheckStillHolds, isOperationInProgress, Serialised
<1> QED
  BY <1>2, <1>3, <1>5, <1>6, <1>8, <1>10 DEF IInv

(* Provision starts its goroutine and returns.                             *)
LEMMA StartKeeps ==
  ASSUME IInv, NEW t \in Threads, At(t, "findPlan"), Answer(t),
         NEW w \in Worker, w.inst = handler[t].inst,
         worker' = [worker EXCEPT ![handler[t].op] = w],
         UNCHANGED ops, DataTypeOK'
  PROVE  IInv'
<1>0. PICK op : op = handler[t].op
  OBVIOUS
<1>1. /\ handler[t] # Idle /\ handler[t].type \in OpTypes /\ mu[handler[t].type] = t
      /\ op \in OpIDs /\ InProgress(op) /\ ops[op].inst = handler[t].inst
  BY <1>0, IdleFacts DEF IInv, HandlerHoldsMutex, HandlerOwnsID, At
<1>2. /\ handler' = [handler EXCEPT ![t] = Idle]
      /\ mu' = [mu EXCEPT ![handler[t].type] = Nil]
  BY DEF Answer
<1>3. TypeOK'
  BY <1>0, <1>1, <1>2, IdleFacts DEF IInv, TypeOK, DataTypeOK
<1>4. /\ handler'[t] = Idle
      /\ \A u \in Threads : u # t => handler'[u] = handler[u]
      /\ worker'[op] = w
      /\ \A id \in OpIDs : id # op => worker'[id] = worker[id]
      /\ \A y \in OpTypes : y # handler[t].type => mu'[y] = mu[y]
  BY <1>0, <1>1, <1>2 DEF IInv, TypeOK
<1>5. HandlerHoldsMutex'
  <2>1. \A u \in Threads : u # t => handler[u] = Idle \/ handler[u].type # handler[t].type
    BY <1>1 DEF IInv, HandlerHoldsMutex
  <2> QED
    BY <1>4, <2>1 DEF IInv, HandlerHoldsMutex
<1>6. HandlerOwnsID'
  <2>1. \A u \in Threads : u # t => handler[u].op # op
    BY <1>0, <1>1, NilAssumption DEF IInv, OneOwner
  <2>2. HandlerOwnsID /\ ops' = ops
    BY DEF IInv
  <2> QED
    <3> SUFFICES ASSUME NEW u \in Threads
                 PROVE  /\ handler'[u].pc \in {"getInstance"} \cup InsertPCs =>
                             handler'[u].op \in OpIDs /\ ops'[handler'[u].op] = Nil
                        /\ handler'[u].pc = "findPlan" =>
                             /\ handler'[u].op \in OpIDs
                             /\ ops'[handler'[u].op] # Nil
                             /\ ops'[handler'[u].op].state = "in progress"
                             /\ ops'[handler'[u].op].inst = handler'[u].inst
                             /\ worker'[handler'[u].op] = Nil
                        /\ handler'[u].op # Nil =>
                             handler'[u].pc \in {"getInstance", "findPlan"} \cup InsertPCs
      BY DEF HandlerOwnsID, InProgress
    <3>1. CASE u = t
      BY <1>4, <3>1, IdleFacts DEF InsertPCs
    <3>2. CASE u # t
      <4>1. handler'[u] = handler[u] /\ handler[u].op # op
        BY <1>4, <2>1, <3>2
      <4>2. handler[u].op \in OpIDs => worker'[handler[u].op] = worker[handler[u].op]
        BY <1>4, <4>1
      <4> QED
        BY <2>2, <4>1, <4>2 DEF HandlerOwnsID, InProgress
    <3> QED
      BY <3>1, <3>2
<1>7. OneOwner'
  BY <1>4, IdleFacts DEF IInv, OneOwner
<1>8. WorkerRunsOperation'
  BY <1>1, <1>4 DEF IInv, WorkerRunsOperation, InProgress
<1>9. OneOfEachType' /\ (Serialised => OneInProgress)'
  BY DEF IInv, OneOfEachType, OneInProgress, InProgress, Serialised
<1>10. \A i, y, s : HasOp(i, y, s)' <=> HasOp(i, y, s)
  BY DEF HasOp
<1>11. CheckStillHolds'
  BY <1>4, <1>10, IdleFacts DEF IInv, CheckStillHolds, isOperationInProgress, Serialised
<1>12. OneRequestPerInstance'
  BY <1>4, IdleFacts DEF IInv, OneRequestPerInstance
<1> QED
  BY <1>3, <1>5, <1>6, <1>7, <1>8, <1>9, <1>11, <1>12 DEF IInv

-----------------------------------------------------------------------------
(* The actions, one by one.                                                *)

(* The records that Provision builds and rewrites are instance records.    *)
LEMMA RecordFacts ==
  /\ Request \subseteq Instance
  /\ \A r \in Instance : [r EXCEPT !.released = TRUE] \in Instance
  /\ \A r \in Instance, q \in Instance : [r EXCEPT !.params = q.params] \in Instance
  /\ \A i \in Instances, r \in Instance : createReleaseName(i, r) \in ReleaseName
  BY DEF Request, Instance, createReleaseName, ReleaseName

(* Steps that write neither instances nor releases keep their types.       *)
LEMMA DataUnchanged ==
  ASSUME TypeOK, UNCHANGED <<instances, releases, crashes, faults>>
  PROVE  DataTypeOK'
  BY DEF TypeOK, DataTypeOK

(* An Upsert or a Remove of the instance storage keeps the types.          *)
LEMMA InstancesWritten ==
  ASSUME TypeOK, NEW i \in Instances, NEW r \in Instance \cup {Nil},
         instances' = [instances EXCEPT ![i] = r],
         UNCHANGED <<releases, crashes>>,
         faults' \in 0..MaxFaults
  PROVE  DataTypeOK'
  BY DEF TypeOK, DataTypeOK

(* An error of etcd is counted within its bound.                           *)
LEMMA FaultFacts ==
  ASSUME TypeOK, Fault
  PROVE  faults' \in 0..MaxFaults /\ Driver = "etcd"
  BY ConstantsAssumption DEF TypeOK, Fault

(* What is known of a handler that serves a request.                       *)
LEMMA HandlerFacts ==
  ASSUME IInv, NEW t \in Threads, handler[t].pc # "idle"
  PROVE  /\ handler[t] \in Handler
         /\ handler[t].inst \in Instances
         /\ handler[t].type \in OpTypes
         /\ handler[t].pc \in CreatePCs => handler[t].type = "create"
         /\ handler[t].pc \in RemovePCs => handler[t].type = "remove"
         /\ handler[t].pc \in CreatePCs \cup InsertPCs => handler[t].req \in Instance
         /\ handler[t].op # Nil <=> handler[t].pc \in {"getInstance", "findPlan"} \cup InsertPCs
  BY IdleFacts, NilAssumption DEF IInv, TypeOK, HandlerHoldsMutex, HandlerOwnsID

(* Early returns: only the handler and its mutex change.                   *)
LEMMA ReturnKeeps ==
  ASSUME IInv, NEW t \in Threads, handler[t].pc # "idle", Answer(t),
         UNCHANGED <<ops, instances, releases, worker, crashes, faults>>
  PROVE  IInv'
  BY AnswerKeeps, DataUnchanged DEF IInv, At

(* The handler goes on with its next call.                                 *)
LEMMA GotoKeeps ==
  ASSUME IInv, NEW t \in Threads, NEW pc, Goto(t, pc),
         handler[t].pc \notin {"idle", "findPlan", "put"},
         \/ pc \in {"compareParams", "isProvisioningInProgress", "getAddon"}
            /\ handler[t].pc \in CreatePCs
         \/ pc = "isDeprovisioningInProgress" /\ handler[t].pc = "isDeprovisioned"
         \/ /\ pc = "put" /\ handler[t].pc = "insert" /\ Driver = "etcd"
            /\ ~isOperationInProgress(handler[t].inst),
         UNCHANGED <<ops, instances, releases, worker, crashes, faults>>
  PROVE  IInv'
<1>1. PICK h : h = [handler[t] EXCEPT !.pc = pc]
  OBVIOUS
<1>2. handler[t] \in Handler
  BY HandlerFacts
<1>3. /\ h \in Handler /\ h.pc = pc /\ h.type = handler[t].type
      /\ h.inst = handler[t].inst /\ h.req = handler[t].req /\ h.op = handler[t].op
  <2>1. pc \in HandlerPCs
    BY DEF HandlerPCs
  <2> QED
    BY <1>1, <1>2, <2>1 DEF Handler
<1>4. handler' = [handler EXCEPT ![t] = h] /\ mu' = mu
  BY <1>1, <1>2 DEF Goto, IInv, TypeOK
<1>5. DataTypeOK'
  BY DataUnchanged DEF IInv
<1> QED
  BY <1>3, <1>4, <1>5, HandlerFacts, MoveKeeps
  DEF CreatePCs, RemovePCs, InsertPCs

(* The handler draws an operation ID and goes on.                          *)
LEMMA TakeIDKeeps ==
  ASSUME IInv, NEW t \in Threads, NEW pc, TakeID(t, pc),
         \/ pc = "insert" /\ handler[t].pc = "getAddon"
         \/ pc = "getInstance" /\ handler[t].pc = "isDeprovisioningInProgress",
         UNCHANGED <<ops, instances, releases, worker, crashes, faults>>
  PROVE  IInv'
<1>1. PICK id \in OpIDs : /\ FreshID(id)
                          /\ handler' = [handler EXCEPT ![t].pc = pc, ![t].op = id]
                          /\ mu' = mu
  BY DEF TakeID
<1>2. PICK h : h = [handler[t] EXCEPT !.pc = pc, !.op = id]
  OBVIOUS
<1>3. handler[t] \in Handler /\ handler[t].pc # "idle"
  BY HandlerFacts
<1>4. /\ h \in Handler /\ h.pc = pc /\ h.type = handler[t].type
      /\ h.inst = handler[t].inst /\ h.req = handler[t].req /\ h.op = id
  <2>1. pc \in HandlerPCs
    BY DEF HandlerPCs
  <2> QED
    BY <1>2, <1>3, <2>1 DEF Handler
<1>5. handler' = [handler EXCEPT ![t] = h]
  BY <1>1, <1>2, <1>3 DEF IInv, TypeOK
<1>6. DataTypeOK'
  BY DataUnchanged DEF IInv
<1>7. id # Nil
  BY NilAssumption
<1>8. /\ handler[t].pc \notin {"idle", "findPlan", "put"}
      /\ h.pc \notin {"idle", "findPlan", "put"} /\ h.pc \notin CreatePCs
      /\ h.pc \in {"getInstance"} \cup InsertPCs
  BY <1>4 DEF CreatePCs, InsertPCs
<1>9. /\ h.pc \in RemovePCs => h.type = "remove"
      /\ h.pc \in CreatePCs \cup InsertPCs => h.req \in Instance
  BY <1>3, <1>4, HandlerFacts DEF CreatePCs, RemovePCs, InsertPCs
<1> QED
  BY <1>1, <1>4, <1>5, <1>6, <1>7, <1>8, <1>9, MoveKeeps

(* The arrival of a request preserves the invariant.                       *)
LEMMA RequestKeeps ==
  ASSUME IInv, NEW t \in Threads, RequestStep(t)
  PROVE  IInv'
<1>1. ASSUME NEW i \in Instances, NEW r \in Request, StartProvision(t, i, r)
      PROVE  IInv'
  <2>1. r \in Instance
    BY RecordFacts
  <2> QED
    BY <1>1, <2>1, EnterKeeps DEF StartProvision, OpTypes
<1>2. ASSUME NEW i \in Instances, StartDeprovision(t, i)
      PROVE  IInv'
  BY <1>2, EnterKeeps DEF StartDeprovision, OpTypes
<1> QED
  BY <1>1, <1>2 DEF RequestStep

(* Every step and every early return of Provision (provision.go:60-179)    *)
(* preserves the invariant.                                                *)
LEMMA ProvisionKeeps ==
  ASSUME IInv, NEW t \in Threads, ProvisionStep(t)
  PROVE  IInv'
<1>1. CASE CheckProvisioned(t)
  BY <1>1, GotoKeeps DEF CheckProvisioned, At, CreatePCs
<1>2. CASE \/ AnswerNoInstance(t) \/ AnswerProvisioned(t) \/ AnswerConflict(t)
           \/ AnswerProvisioning(t) \/ RejectProvision(t) \/ RejectPlan(t)
  BY <1>2, ReturnKeeps DEF AnswerNoInstance, AnswerProvisioned, AnswerConflict,
       AnswerProvisioning, RejectProvision, RejectPlan, At
<1>3. CASE LoadHashedParams(t)
  <2>1. PICK stored : stored = instances[handler[t].inst]
    OBVIOUS
  <2>2. PICK r : r = [stored EXCEPT !.params = handler[t].req.params]
    OBVIOUS
  <2>3. /\ handler[t].pc = "compareParams"
        /\ stored # Nil
        /\ handler' = [handler EXCEPT ![t].pc = "saveParams", ![t].req = r]
        /\ UNCHANGED <<ops, instances, releases, mu, worker, crashes, faults>>
    BY <1>3, <2>1, <2>2 DEF LoadHashedParams, At
  <2>4. /\ handler[t] \in Handler /\ handler[t].inst \in Instances
        /\ handler[t].type = "create" /\ handler[t].req \in Instance /\ handler[t].op = Nil
    BY <2>3, HandlerFacts DEF CreatePCs, InsertPCs
  <2>5. r \in Instance
    <3>1. stored \in Instance
      BY <2>1, <2>3, <2>4 DEF IInv, TypeOK
    <3> QED
      BY <2>2, <2>4, <3>1, RecordFacts
  <2>6. PICK h : h = [handler[t] EXCEPT !.pc = "saveParams", !.req = r]
    OBVIOUS
  <2>7. /\ h \in Handler /\ h.pc = "saveParams" /\ h.type = handler[t].type
        /\ h.inst = handler[t].inst /\ h.req = r /\ h.op = handler[t].op
    BY <2>4, <2>5, <2>6 DEF Handler, HandlerPCs
  <2>8. handler' = [handler EXCEPT ![t] = h]
    BY <2>3, <2>4, <2>6 DEF IInv, TypeOK
  <2>9. DataTypeOK'
    BY <2>3, DataUnchanged DEF IInv
  <2> QED
    BY <2>3, <2>4, <2>5, <2>7, <2>8, <2>9, MoveKeeps DEF CreatePCs, RemovePCs, InsertPCs
<1>4. CASE SaveParams(t)
  <2>1. handler[t].pc = "saveParams" /\ handler[t].inst \in Instances /\ handler[t].req \in Instance
    BY <1>4, HandlerFacts DEF SaveParams, At, CreatePCs
  <2>2. DataTypeOK'
    <3>1. faults' \in 0..MaxFaults
      BY <1>4 DEF SaveParams, IInv, TypeOK
    <3> QED
      BY <1>4, <2>1, <3>1, InstancesWritten DEF SaveParams, IInv
  <2> QED
    BY <1>4, <2>1, <2>2, AnswerKeeps DEF SaveParams, At
<1>5. CASE CheckProvisioning(t)
  BY <1>5, GotoKeeps DEF CheckProvisioning, At, CreatePCs
<1>6. CASE CheckAllowed(t)
  BY <1>6, TakeIDKeeps DEF CheckAllowed, At
<1>7. CASE StartInstall(t)
  <2>1. handler[t].pc = "findPlan" /\ handler[t].inst \in Instances /\ handler[t].req \in Instance
    BY <1>7, HandlerFacts DEF StartInstall, At, CreatePCs
  <2>2. PICK w : w = [pc |-> "install", inst |-> handler[t].inst, rec |-> handler[t].req]
    OBVIOUS
  <2>3. w \in Worker /\ w.inst = handler[t].inst
    BY <2>1, <2>2 DEF Worker, WorkerPCs
  <2>4. DataTypeOK'
    <3>1. faults' \in 0..MaxFaults
      BY <1>7 DEF StartInstall, IInv, TypeOK
    <3> QED
      BY <1>7, <2>1, <3>1, InstancesWritten DEF StartInstall, IInv
  <2>5. Answer(t) /\ At(t, "findPlan") /\ worker' = [worker EXCEPT ![handler[t].op] = w] /\ ops' = ops
    BY <1>7, <2>2 DEF StartInstall
  <2> QED
    BY <2>3, <2>4, <2>5, StartKeeps
<1> QED
  BY <1>1, <1>2, <1>3, <1>4, <1>5, <1>6, <1>7 DEF ProvisionStep

(* Every step and every early return of Deprovision up to Insert           *)
(* (deprovision.go:43-74) preserves the invariant.                         *)
LEMMA DeprovisionKeeps ==
  ASSUME IInv, NEW t \in Threads, DeprovisionStep(t)
  PROVE  IInv'
<1>1. CASE \/ AnswerGone(t) \/ AnswerDeprovisioning(t) \/ RejectDeprovision(t)
           \/ AnswerNotStored(t)
  BY <1>1, ReturnKeeps DEF AnswerGone, AnswerDeprovisioning, RejectDeprovision,
       AnswerNotStored, At
<1>2. CASE CheckDeprovisioned(t)
  BY <1>2, GotoKeeps DEF CheckDeprovisioned, At
<1>3. CASE CheckDeprovisioning(t)
  BY <1>3, TakeIDKeeps DEF CheckDeprovisioning, At
<1>4. CASE GetInstance(t)
  <2>1. PICK r : r = instances[handler[t].inst]
    OBVIOUS
  <2>2. /\ handler[t].pc = "getInstance"
        /\ r # Nil
        /\ handler' = [handler EXCEPT ![t].pc = "insert", ![t].req = r]
        /\ UNCHANGED <<ops, instances, releases, mu, worker, crashes, faults>>
    BY <1>4, <2>1 DEF GetInstance, At
  <2>3. /\ handler[t] \in Handler /\ handler[t].inst \in Instances /\ handler[t].op # Nil
    BY <2>2, HandlerFacts
  <2>4. r \in Instance
    BY <2>1, <2>2, <2>3 DEF IInv, TypeOK
  <2>5. PICK h : h = [handler[t] EXCEPT !.pc = "insert", !.req = r]
    OBVIOUS
  <2>6. /\ h \in Handler /\ h.pc = "insert" /\ h.type = handler[t].type
        /\ h.inst = handler[t].inst /\ h.req = r /\ h.op = handler[t].op
    BY <2>3, <2>4, <2>5 DEF Handler, HandlerPCs
  <2>7. handler' = [handler EXCEPT ![t] = h]
    BY <2>2, <2>3, <2>5 DEF IInv, TypeOK
  <2>8. DataTypeOK'
    BY <2>2, DataUnchanged DEF IInv
  <2> QED
    BY <2>2, <2>3, <2>4, <2>6, <2>7, <2>8, MoveKeeps DEF CreatePCs, RemovePCs, InsertPCs
<1> QED
  BY <1>1, <1>2, <1>3, <1>4 DEF DeprovisionStep

(* The put of Insert with what follows it, under either driver.            *)
LEMMA PutOperationKeeps ==
  ASSUME IInv, NEW t \in Threads, handler[t].pc \in InsertPCs,
         handler[t].pc = "put" \/ ~isOperationInProgress(handler[t].inst),
         PutOperation(t)
  PROVE  IInv'
<1>1. /\ handler[t] \in Handler /\ handler[t].pc # "idle"
      /\ handler[t].inst \in Instances /\ handler[t].req \in Instance
  BY HandlerFacts DEF InsertPCs
<1>2. DataTypeOK'
  BY DataUnchanged DEF PutOperation, IInv
<1>3. ops' = [ops EXCEPT ![handler[t].op] =
                [inst |-> handler[t].inst, type |-> handler[t].type, state |-> "in progress"]]
  BY DEF PutOperation
<1>4. CASE handler[t].type = "create" /\ Goto(t, "findPlan") /\ UNCHANGED worker
  <2>1. PICK h : h = [handler[t] EXCEPT !.pc = "findPlan"]
    OBVIOUS
  <2>2. /\ h \in Handler /\ h.pc = "findPlan" /\ h.type = handler[t].type
        /\ h.inst = handler[t].inst /\ h.req = handler[t].req /\ h.op = handler[t].op
    BY <1>1, <2>1 DEF Handler, HandlerPCs
  <2>3. handler' = [handler EXCEPT ![t] = h] /\ mu' = mu
    BY <1>4, <1>1, <2>1 DEF Goto, IInv, TypeOK
  <2>4. worker' = [worker EXCEPT ![handler[t].op] = Nil]
    <3>1. handler[t].op \in OpIDs /\ worker[handler[t].op] = Nil
      BY DEF IInv, HandlerOwnsID, WorkerRunsOperation, InProgress
    <3> QED
      BY <1>4, <3>1 DEF IInv, TypeOK
  <2> QED
    BY <1>2, <1>3, <1>4, <2>2, <2>3, <2>4, PutKeeps
<1>5. CASE /\ handler[t].type = "remove" /\ Answer(t)
           /\ worker' = [worker EXCEPT ![handler[t].op] =
                           [pc |-> "delete", inst |-> handler[t].inst, rec |-> handler[t].req]]
  <2>1. PICK w : w = [pc |-> "delete", inst |-> handler[t].inst, rec |-> handler[t].req]
    OBVIOUS
  <2>2. w \in Worker /\ w.inst = handler[t].inst
    BY <1>1, <2>1 DEF Worker, WorkerPCs
  <2>3. worker' = [worker EXCEPT ![handler[t].op] = w]
    BY <1>5, <2>1
  <2>4. handler' = [handler EXCEPT ![t] = Idle] /\ mu' = [mu EXCEPT ![handler[t].type] = Nil]
    BY <1>5 DEF Answer
  <2> QED
    BY <1>2, <1>3, <2>2, <2>3, <2>4, IdleFacts, PutKeeps
<1> QED
  BY <1>4, <1>5 DEF PutOperation

(* Insert of both drivers, with or without its check and its put apart,    *)
(* preserves the invariant.                                                *)
LEMMA InsertKeeps ==
  ASSUME IInv, NEW t \in Threads, InsertStep(t)
  PROVE  IInv'
<1>1. CASE RejectInsert(t)
  BY <1>1, ReturnKeeps DEF RejectInsert, At
<1>2. CASE CheckInEtcd(t)
  BY <1>2, GotoKeeps DEF CheckInEtcd, At
<1>3. CASE InsertInMemory(t)
  BY <1>3, PutOperationKeeps DEF InsertInMemory, At, InsertPCs
<1>4. CASE PutInEtcd(t)
  BY <1>4, PutOperationKeeps DEF PutInEtcd, At, InsertPCs
<1> QED
  BY <1>1, <1>2, <1>3, <1>4 DEF InsertStep

(* What is known of a goroutine that runs.                                 *)
LEMMA WorkerFacts ==
  ASSUME IInv, NEW id \in OpIDs, worker[id] # Nil
  PROVE  /\ worker[id] \in Worker
         /\ worker[id].inst \in Instances /\ worker[id].rec \in Instance
         /\ releaseOf(id) \in ReleaseName
<1>1. worker[id] \in Worker
  BY DEF IInv, TypeOK
<1>2. worker[id].inst \in Instances /\ worker[id].rec \in Instance
  BY <1>1 DEF Worker
<1> QED
  BY <1>1, <1>2, RecordFacts DEF releaseOf

(* The goroutine of an operation goes on with its next call.               *)
LEMMA WorkerGotoKeeps ==
  ASSUME IInv, NEW id \in OpIDs, worker[id] # Nil, NEW pc \in WorkerPCs,
         WorkerGoto(id, pc), UNCHANGED <<ops, mu, handler>>, DataTypeOK'
  PROVE  IInv'
<1>1. PICK w : w = [worker[id] EXCEPT !.pc = pc]
  OBVIOUS
<1>2. w \in Worker /\ w.inst = worker[id].inst
  BY <1>1, WorkerFacts DEF Worker
<1>3. worker' = [worker EXCEPT ![id] = w]
  BY <1>1, WorkerFacts DEF WorkerGoto, IInv, TypeOK
<1> QED
  BY <1>2, <1>3, WorkerKeeps

(* What Helm does to a release keeps the types.                            *)
LEMMA ReleasesWritten ==
  ASSUME TypeOK, NEW n \in ReleaseName, NEW r \in Release,
         releases' = [releases EXCEPT ![n] = r],
         UNCHANGED <<instances, crashes, faults>>
  PROVE  DataTypeOK'
  BY DEF TypeOK, DataTypeOK

(* Every step of the goroutines of both services (provision.go:204,        *)
(* deprovision.go:113) preserves the invariant.                            *)
LEMMA WorkerStepKeeps ==
  ASSUME IInv, NEW id \in OpIDs, WorkerStep(id)
  PROVE  IInv'
<1>0. TypeOK
  BY DEF IInv
<1>f. faults \in 0..MaxFaults
  BY <1>0 DEF TypeOK
<1>1. CASE BeginInstall(id)
  <2>1. worker[id] # Nil
    BY <1>1 DEF BeginInstall, WorkerAt
  <2>2. [status |-> "pending", params |-> worker[id].rec.params] \in Release
    BY <2>1, WorkerFacts DEF Release, HelmRelease, Instance
  <2>3. DataTypeOK'
    BY <1>0, <1>1, <2>1, <2>2, WorkerFacts, ReleasesWritten DEF BeginInstall
  <2> QED
    BY <1>1, <2>1, <2>3, WorkerGotoKeeps DEF BeginInstall, WorkerPCs
<1>2. CASE RefuseInstall(id) \/ RefuseDelete(id)
  BY <1>0, <1>2, DataUnchanged, WorkerGotoKeeps DEF RefuseInstall, RefuseDelete, WorkerAt, WorkerPCs
<1>3. ASSUME NEW status \in {"deployed", "failed"}, EndInstall(id, status)
      PROVE  IInv'
  <2>1. worker[id] # Nil
    BY <1>3 DEF EndInstall, WorkerAt
  <2>2. PICK old : old = releases[releaseOf(id)]
    OBVIOUS
  <2>3. old \in Release
    BY <1>0, <2>1, <2>2, WorkerFacts DEF TypeOK
  <2>4. PICK r : r = IF old = Nil THEN Nil ELSE [old EXCEPT !.status = status]
    OBVIOUS
  <2>5. r \in Release
    BY <2>3, <2>4 DEF Release, HelmRelease
  <2>6. releases' = [releases EXCEPT ![releaseOf(id)] = r]
    BY <1>3, <2>2, <2>4 DEF EndInstall
  <2>7. DataTypeOK'
    BY <1>0, <1>3, <2>1, <2>5, <2>6, WorkerFacts, ReleasesWritten DEF EndInstall
  <2> QED
    BY <1>3, <2>1, <2>7, WorkerGotoKeeps DEF EndInstall, WorkerPCs
<1>4. CASE RecordRelease(id)
  <2>1. worker[id] # Nil
    BY <1>4 DEF RecordRelease, WorkerAt
  <2>2. DataTypeOK'
    BY <1>0, <1>f, <1>4, <2>1, WorkerFacts, RecordFacts, InstancesWritten DEF RecordRelease
  <2> QED
    BY <1>4, <2>1, <2>2, WorkerGotoKeeps DEF RecordRelease, WorkerPCs
<1>5. CASE DeleteRelease(id)
  <2>1. worker[id] # Nil
    BY <1>5 DEF DeleteRelease, WorkerAt
  <2>2. DataTypeOK'
    <3>1. Nil \in Release
      BY DEF Release
    <3> QED
      BY <1>0, <1>5, <2>1, <3>1, WorkerFacts, ReleasesWritten DEF DeleteRelease
  <2> QED
    BY <1>5, <2>1, <2>2, WorkerGotoKeeps DEF DeleteRelease, WorkerPCs
<1>6. CASE RemoveInstance(id)
  <2>1. worker[id] # Nil
    BY <1>6 DEF RemoveInstance, WorkerAt
  <2>2. DataTypeOK'
    BY <1>0, <1>f, <1>6, <2>1, WorkerFacts, InstancesWritten DEF RemoveInstance
  <2> QED
    BY <1>6, <2>1, <2>2, WorkerGotoKeeps DEF RemoveInstance, WorkerPCs
<1>7. CASE UpdateStateDesc(id)
  <2>1. worker[id] # Nil
    BY <1>7 DEF UpdateStateDesc
  <2>2. ops[id] \in InstanceOperation
    BY <1>0, <2>1 DEF TypeOK, IInv, WorkerRunsOperation, InProgress
  <2>3. PICK o : o = [ops[id] EXCEPT !.state =
                        IF worker[id].pc = "succeed" THEN "succeeded" ELSE "failed"]
    OBVIOUS
  <2>4. o \in InstanceOperation /\ o.state # "in progress"
    BY <2>2, <2>3 DEF InstanceOperation, OpStates
  <2>5. ops' = [ops EXCEPT ![id] = o]
    BY <1>0, <1>7, <2>3 DEF UpdateStateDesc, TypeOK
  <2>6. DataTypeOK'
    BY <1>0, <1>7, DataUnchanged DEF UpdateStateDesc
  <2> QED
    BY <1>7, <2>1, <2>4, <2>5, <2>6, UpdateKeeps DEF UpdateStateDesc
<1> QED
  BY <1>1, <1>2, <1>3, <1>4, <1>5, <1>6, <1>7 DEF WorkerStep

(* Errors of etcd, with or without effect of the call that failed,         *)
(* preserve the invariant.                                                 *)
LEMMA FailureKeeps ==
  ASSUME IInv, FailureStep
  PROVE  IInv'
<1>0. TypeOK
  BY DEF IInv
<1>1. ASSUME NEW t \in Threads, HandlerFails(t)
      PROVE  IInv'
  <2>1. DataTypeOK'
    BY <1>0, <1>1, FaultFacts DEF HandlerFails, TypeOK, DataTypeOK
  <2> QED
    BY <1>1, <2>1, AnswerKeeps DEF HandlerFails
<1>2. ASSUME NEW t \in Threads, PutUnacknowledged(t)
      PROVE  IInv'
  <2>0. /\ faults' \in 0..MaxFaults
        /\ Answer(t)
        /\ UNCHANGED <<releases, worker, crashes>>
    BY <1>0, <1>2, FaultFacts DEF PutUnacknowledged
  <2>1. CASE /\ At(t, "put")
             /\ ops' = [ops EXCEPT ![handler[t].op] =
                          [inst |-> handler[t].inst, type |-> handler[t].type,
                           state |-> "in progress"]]
             /\ UNCHANGED instances
    <3>1. DataTypeOK'
      BY <1>0, <2>0, <2>1 DEF TypeOK, DataTypeOK
    <3>2. handler' = [handler EXCEPT ![t] = Idle] /\ mu' = [mu EXCEPT ![handler[t].type] = Nil]
      BY <2>0 DEF Answer
    <3>3. handler[t].pc \in InsertPCs /\ handler[t].pc = "put"
      BY <2>1 DEF At, InsertPCs
    <3>4. worker' = [worker EXCEPT ![handler[t].op] = Nil]
      <4>1. handler[t].op \in OpIDs /\ worker[handler[t].op] = Nil
        BY <3>3 DEF IInv, HandlerOwnsID, WorkerRunsOperation, InProgress
      <4> QED
        BY <1>0, <2>0, <4>1 DEF TypeOK
    <3> QED
      BY <2>1, <3>1, <3>2, <3>3, <3>4, IdleFacts, PutKeeps
  <2>2. CASE /\ At(t, "saveParams") \/ At(t, "findPlan")
             /\ instances' = [instances EXCEPT ![handler[t].inst] = handler[t].req]
             /\ UNCHANGED ops
    <3>1. handler[t].inst \in Instances /\ handler[t].req \in Instance
      BY <2>2, HandlerFacts DEF At, CreatePCs
    <3>2. DataTypeOK'
      BY <1>0, <2>0, <2>2, <3>1, InstancesWritten
    <3> QED
      BY <2>0, <2>2, <3>2, AnswerKeeps DEF At
  <2> QED
    BY <1>2, <2>1, <2>2 DEF PutUnacknowledged
<1>3. ASSUME NEW id \in OpIDs, WorkerFails(id)
      PROVE  IInv'
  <2>1. worker[id] # Nil /\ faults' \in 0..MaxFaults
    BY <1>0, <1>3, FaultFacts DEF WorkerFails, WorkerAt
  <2>2. DataTypeOK'
    <3>1. CASE UNCHANGED instances
      BY <1>0, <1>3, <2>1, <3>1 DEF WorkerFails, TypeOK, DataTypeOK
    <3>2. PICK r : r = IF worker[id].pc = "record"
                         THEN [worker[id].rec EXCEPT !.released = TRUE] ELSE Nil
      OBVIOUS
    <3>3. r \in Instance \cup {Nil}
      BY <2>1, <3>2, WorkerFacts, RecordFacts
    <3>4. CASE instances' = [instances EXCEPT ![worker[id].inst] = r]
      BY <1>0, <1>3, <2>1, <3>3, <3>4, WorkerFacts, InstancesWritten DEF WorkerFails
    <3> QED
      BY <1>3, <3>1, <3>2, <3>4 DEF WorkerFails
  <2> QED
    BY <1>3, <2>1, <2>2, WorkerGotoKeeps DEF WorkerFails, WorkerPCs
<1>4. ASSUME NEW id \in OpIDs, UpdateFails(id)
      PROVE  IInv'
  <2>1. worker[id] # Nil /\ faults' \in 0..MaxFaults
    BY <1>0, <1>4, FaultFacts DEF UpdateFails, WorkerAt
  <2>2. DataTypeOK'
    BY <1>0, <1>4, <2>1 DEF UpdateFails, TypeOK, DataTypeOK
  <2> QED
    BY <1>4, <2>1, <2>2, WorkerKeeps DEF UpdateFails
<1> QED
  BY <1>1, <1>2, <1>3, <1>4 DEF FailureStep

(* After a restart nobody serves a request and nobody works on what the    *)
(* storage still calls in progress.                                        *)
LEMMA CrashKeeps ==
  ASSUME IInv, Crash
  PROVE  IInv'
<1>0. TypeOK
  BY DEF IInv
<1>1. /\ \A t \in Threads : handler'[t] = Idle
      /\ \A id \in OpIDs : worker'[id] = Nil
      /\ ops' = ops \/ ops' = [id \in OpIDs |-> Nil]
      /\ instances' = instances \/ instances' = [i \in Instances |-> Nil]
  BY DEF Crash
<1>2. TypeOK'
  <2>1. crashes' \in 0..MaxCrashes
    BY <1>0, ConstantsAssumption DEF Crash, TypeOK
  <2>2. ops' \in [OpIDs -> InstanceOperation \cup {Nil}]
    BY <1>0, <1>1 DEF TypeOK
  <2>3. instances' \in [Instances -> Instance \cup {Nil}]
    BY <1>0, <1>1 DEF TypeOK
  <2> QED
    BY <1>0, <2>1, <2>2, <2>3, IdleFacts DEF Crash, TypeOK
<1>3. HandlerHoldsMutex' /\ OneOwner' /\ OneRequestPerInstance'
  BY <1>1, IdleFacts DEF HandlerHoldsMutex, OneOwner, OneRequestPerInstance
<1>4. HandlerOwnsID' /\ CheckStillHolds'
  BY <1>1, IdleFacts DEF HandlerOwnsID, CheckStillHolds, InsertPCs
<1>5. WorkerRunsOperation'
  BY <1>1 DEF WorkerRunsOperation
<1>6. OneOfEachType' /\ (Serialised => OneInProgress)'
  <2>1. CASE ops' = ops
    BY <2>1 DEF IInv, OneOfEachType, OneInProgress, InProgress, Serialised
  <2>2. CASE ops' = [id \in OpIDs |-> Nil]
    BY <2>2 DEF OneOfEachType, OneInProgress, InProgress, Serialised
  <2> QED
    BY <1>1, <2>1, <2>2
<1> QED
  BY <1>2, <1>3, <1>4, <1>5, <1>6 DEF IInv

(* IInv is inductive: every step of the broker, of Helm and of etcd        *)
(* preserves it.                                                           *)
THEOREM NextKeeps == IInv /\ [Next]_vars => IInv'
<1> SUFFICES ASSUME IInv, [Next]_vars
             PROVE  IInv'
  OBVIOUS
<1>1. ASSUME NEW t \in Threads, RequestStep(t) \/ HandlerStep(t)
      PROVE  IInv'
  BY <1>1, RequestKeeps, ProvisionKeeps, DeprovisionKeeps, InsertKeeps DEF HandlerStep
<1>2. ASSUME NEW id \in OpIDs, WorkerStep(id)
      PROVE  IInv'
  BY <1>2, WorkerStepKeeps
<1>3. CASE FailureStep
  BY <1>3, FailureKeeps
<1>4. CASE Crash
  BY <1>4, CrashKeeps
<1>5. CASE UNCHANGED vars
  <2>1. UNCHANGED <<ops, instances, releases, mu, handler, worker, crashes, faults>>
    BY <1>5 DEF vars
  <2>2. TypeOK' /\ HandlerHoldsMutex' /\ OneOwner' /\ OneRequestPerInstance'
    BY <2>1 DEF IInv, TypeOK, HandlerHoldsMutex, OneOwner, OneRequestPerInstance
  <2>3. HandlerOwnsID' /\ CheckStillHolds' /\ LogInv'
    BY <2>1, LogKept DEF IInv, HandlerOwnsID, CheckStillHolds, LogInv, Serialised
  <2> QED
    BY <2>2, <2>3 DEF IInv, LogInv
<1> QED
  BY <1>1, <1>2, <1>3, <1>4, <1>5 DEF Next

(* The operations an old version has left behind have ended.               *)
LEMMA InitiallySucceeded ==
  ASSUME Init
  PROVE  /\ ops \in [OpIDs -> {o \in InstanceOperation : o.state = "succeeded"} \cup {Nil}]
         /\ ops \in [OpIDs -> InstanceOperation \cup {Nil}]
         /\ \A id \in OpIDs : ops[id] = Nil \/ ops[id].state = "succeeded"
<1>1. PICK op \in [Legacy -> OpIDs] :
        ops = [id \in OpIDs |->
                 IF \E i \in Legacy : op[i] = id
                   THEN [inst |-> CHOOSE i \in Legacy : op[i] = id,
                         type |-> "create", state |-> "succeeded"]
                   ELSE Nil]
  BY DEF Init
<1>2. \A id \in OpIDs : ops[id] = Nil \/ ops[id] \in {o \in InstanceOperation : o.state = "succeeded"}
  <2> TAKE id \in OpIDs
  <2>1. CASE \E i \in Legacy : op[i] = id
    <3>1. (CHOOSE i \in Legacy : op[i] = id) \in Instances
      BY <2>1, ConstantsAssumption
    <3>2. ops[id] = [inst |-> CHOOSE i \in Legacy : op[i] = id,
                     type |-> "create", state |-> "succeeded"]
      BY <1>1, <2>1
    <3> QED
      BY <3>1, <3>2 DEF InstanceOperation, OpTypes, OpStates
  <2>2. CASE ~\E i \in Legacy : op[i] = id
    BY <1>1, <2>2
  <2> QED
    BY <2>1, <2>2
<1> QED
  BY <1>1, <1>2

(* IInv holds of an empty storage and of what an old version left in it.   *)
THEOREM InitHolds == Init => IInv
<1> SUFFICES ASSUME Init
             PROVE  IInv
  OBVIOUS
<1>1. PICK op \in [Legacy -> OpIDs],
          rec \in [Legacy -> {r \in Instance : r.params = Hashed /\ r.released /\ r.plan \in Offered}] :
        /\ ops = [id \in OpIDs |->
                    IF \E i \in Legacy : op[i] = id
                      THEN [inst |-> CHOOSE i \in Legacy : op[i] = id,
                            type |-> "create", state |-> "succeeded"]
                      ELSE Nil]
        /\ instances = [i \in Instances |-> IF i \in Legacy THEN rec[i] ELSE Nil]
        /\ releases = [n \in ReleaseName |->
                         IF \E i \in Legacy : n = createReleaseName(i, rec[i])
                           THEN [status |-> "deployed", params |-> Hashed]
                           ELSE Nil]
  BY DEF Init
<1>2. /\ mu = [type \in OpTypes |-> Nil]
      /\ handler = [t \in Threads |-> Idle]
      /\ worker = [id \in OpIDs |-> Nil]
      /\ crashes = 0
      /\ faults = 0
  BY DEF Init
<1>3. /\ ops \in [OpIDs -> InstanceOperation \cup {Nil}]
      /\ \A id \in OpIDs : ops[id] = Nil \/ ops[id].state = "succeeded"
  BY InitiallySucceeded
<1>4. TypeOK
  <2>2. instances \in [Instances -> Instance \cup {Nil}]
    BY <1>1
  <2>3. releases \in [ReleaseName -> Release]
    BY <1>1 DEF Release, HelmRelease
  <2> QED
    BY <1>2, <1>3, <2>2, <2>3, IdleFacts, ConstantsAssumption DEF TypeOK
<1>5. \A id \in OpIDs : ~InProgress(id)
  BY <1>3 DEF InProgress
<1>6. OneOfEachType /\ (Serialised => OneInProgress)
  BY <1>5 DEF OneOfEachType, OneInProgress
<1>7. \A t \in Threads : handler[t] = Idle
  BY <1>2
<1>8. HandlerHoldsMutex /\ OneOwner /\ OneRequestPerInstance /\ HandlerOwnsID /\ CheckStillHolds
  BY <1>7, IdleFacts
  DEF HandlerHoldsMutex, OneOwner, OneRequestPerInstance, HandlerOwnsID, CheckStillHolds, InsertPCs
<1>9. WorkerRunsOperation
  BY <1>2 DEF WorkerRunsOperation
<1> QED
  BY <1>4, <1>6, <1>8, <1>9 DEF IInv

(* IInv holds in every reachable state, for all sets of threads,           *)
(* instances, operations, services and plans, both drivers, every platform *)
(* and any number of restarts and errors.                                  *)
THEOREM Invariance == Spec => []IInv
  BY InitHolds, NextKeeps, PTL DEF Spec

(* Operations, instances, releases, mutexes, handlers and goroutines       *)
(* always have the types the code gives them; in particular Deprovision    *)
(* never starts its goroutine without an instance record                   *)
(* (deprovision.go:68).                                                    *)
THEOREM TypeCorrect == Spec => []TypeOK
<1>1. IInv => TypeOK
  BY DEF IInv
<1> QED
  BY <1>1, Invariance, PTL

-----------------------------------------------------------------------------
(* Refinement of OperationLog.                                             *)

(* The put of Insert opens an operation of the log.                        *)
LEMMA OpenStep ==
  ASSUME IInv, NEW t \in Threads, handler[t].pc \in InsertPCs,
         handler[t].pc = "put" \/ ~isOperationInProgress(handler[t].inst),
         ops' = [ops EXCEPT ![handler[t].op] =
                   [inst |-> handler[t].inst, type |-> handler[t].type,
                    state |-> "in progress"]]
  PROVE  Log!LogNext
<1>1. /\ handler[t].op \in OpIDs /\ ops[handler[t].op] = Nil
      /\ handler[t].inst \in Instances /\ handler[t].type \in OpTypes
  BY HandlerFacts DEF IInv, HandlerOwnsID, InsertPCs
<1>2. /\ ~HasOp(handler[t].inst, handler[t].type, "in progress")
      /\ Serialised => \A other \in OpTypes : ~HasOp(handler[t].inst, other, "in progress")
  BY <1>1 DEF IInv, CheckStillHolds, isOperationInProgress
<1>3. Log!Open(handler[t].op, handler[t].inst, handler[t].type)
  BY <1>1, <1>2 DEF Log!Open, Log!Running, Log!OpTypes, OpTypes, HasOp
<1> QED
  BY <1>1, <1>3 DEF Log!LogNext, Log!OpTypes, OpTypes

(* Every step that changes the operations opens, closes or loses           *)
(* operations of the log.                                                  *)
LEMMA LogStep == IInv /\ [Next]_vars => [Log!LogNext]_ops
<1> SUFFICES ASSUME IInv, [Next]_vars, ops' # ops
             PROVE  Log!LogNext
  OBVIOUS
<1>1. ASSUME NEW t \in Threads, HandlerStep(t)
      PROVE  Log!LogNext
  <2>1. InsertInMemory(t) \/ PutInEtcd(t)
    BY <1>1 DEF HandlerStep, ProvisionStep, DeprovisionStep, InsertStep,
       CheckProvisioned, AnswerNoInstance, AnswerProvisioned, AnswerConflict,
       LoadHashedParams, SaveParams, AnswerProvisioning, CheckProvisioning,
       CheckAllowed, RejectProvision, RejectPlan, StartInstall, AnswerGone,
       CheckDeprovisioned, AnswerDeprovisioning, CheckDeprovisioning,
       RejectDeprovision, AnswerNotStored, GetInstance, RejectInsert, CheckInEtcd
  <2> QED
    BY <2>1, OpenStep DEF InsertInMemory, PutInEtcd, PutOperation, At, InsertPCs
<1>2. ASSUME NEW id \in OpIDs, WorkerStep(id)
      PROVE  Log!LogNext
  <2>1. UpdateStateDesc(id)
    BY <1>2 DEF WorkerStep, BeginInstall, RefuseInstall, EndInstall, RecordRelease,
       DeleteRelease, RefuseDelete, RemoveInstance
  <2>2. ops[id] # Nil /\ ops[id].state = "in progress"
    BY <2>1 DEF UpdateStateDesc, IInv, WorkerRunsOperation, InProgress
  <2>3. Log!Close(id, IF worker[id].pc = "succeed" THEN "succeeded" ELSE "failed")
    BY <2>1, <2>2 DEF UpdateStateDesc, Log!Close
  <2> QED
    BY <2>3 DEF Log!LogNext
<1>3. ASSUME FailureStep
      PROVE  Log!LogNext
  <2>1. PICK t \in Threads : PutUnacknowledged(t)
    BY <1>3 DEF FailureStep, HandlerFails, WorkerFails, UpdateFails
  <2> QED
    BY <2>1, OpenStep DEF PutUnacknowledged, At, InsertPCs
<1>4. ASSUME Crash
      PROVE  Log!LogNext
  BY <1>4 DEF Crash, Log!LogNext, Log!Lose
<1>5. ASSUME NEW t \in Threads, RequestStep(t)
      PROVE  FALSE
  BY <1>5 DEF RequestStep, StartProvision, StartDeprovision, Enter
<1> QED
  BY <1>1, <1>2, <1>3, <1>4, <1>5 DEF Next, vars

(* The operations found at the start are a log in which nothing runs.      *)
LEMMA LogInitially == Init => Log!LogInit
<1> SUFFICES ASSUME Init
             PROVE  Log!LogInit
  OBVIOUS
<1> QED
  BY InitiallySucceeded DEF Log!LogInit, Log!Operation, Log!OpTypes, Log!OpStates,
     InstanceOperation, OpTypes, OpStates

(* The operations the broker stores and reports through last_operation     *)
(* behave as OperationLog says: an operation is opened once, next to no    *)
(* running one it excludes, closed once by its goroutine, and never        *)
(* changed afterwards.                                                     *)
THEOREM Refinement == Spec => LogSpec
<1>1. Spec => []IInv
  BY Invariance
<1> QED
  BY <1>1, LogInitially, LogStep, PTL DEF Spec, LogSpec, Log!LogSpec

-----------------------------------------------------------------------------
(* Who leaves an operation behind.                                         *)

(* A handler gives up no operation that is stored as running.              *)
LEMMA KeptByHandlers ==
  ASSUME IInv, NEW t \in Threads,
         UNCHANGED <<ops, worker>>,
         \A u \in Threads : u # t => handler'[u] = handler[u],
         handler[t].pc # "findPlan",
         NEW id \in OpIDs, LeftBehind(id)'
  PROVE  LeftBehind(id)
<1>1. InProgress(id) => handler[t].op # id
  BY NilAssumption DEF IInv, HandlerOwnsID, InProgress
<1> QED
  BY <1>1 DEF LeftBehind, InProgress

(* A goroutine that goes on, or ends its operation, leaves no running      *)
(* operation behind.                                                       *)
LEMMA KeptByWorkers ==
  ASSUME NEW o \in OpIDs,
         \A p \in OpIDs : p # o => ops'[p] = ops[p] /\ worker'[p] = worker[p],
         UNCHANGED handler,
         worker'[o] # Nil \/ ~InProgress(o)',
         NEW id \in OpIDs, LeftBehind(id)'
  PROVE  LeftBehind(id)
<1>1. id # o
  BY DEF LeftBehind, InProgress
<1> QED
  BY <1>1 DEF LeftBehind, InProgress

(* Without a restart, an error and an unknown plan no step leaves a        *)
(* running operation without somebody who executes it.                     *)
LEMMA LeftStep ==
  ASSUME IInv, [Next]_vars, ~Crash, ~FailureStep,
         NEW id \in OpIDs, LeftBehind(id)',
         \A t \in Threads : ~(handler[t].op = id /\ RejectPlan(t))
  PROVE  LeftBehind(id)
<1>0. TypeOK
  BY DEF IInv
<1>1. ASSUME NEW t \in Threads, RequestStep(t)
      PROVE  LeftBehind(id)
  <2>1. /\ UNCHANGED <<ops, worker>>
        /\ handler[t].pc = "idle"
        /\ \A u \in Threads : u # t => handler'[u] = handler[u]
    BY <1>0, <1>1 DEF RequestStep, StartProvision, StartDeprovision, Enter, At, TypeOK
  <2> QED
    BY <2>1, KeptByHandlers
<1>2. ASSUME NEW t \in Threads, HandlerStep(t)
      PROVE  LeftBehind(id)
  <2>1. CASE handler[t].pc # "findPlan" /\ UNCHANGED <<ops, worker>>
    <3>1. \A u \in Threads : u # t => handler'[u] = handler[u]
      BY <1>0, <1>2 DEF HandlerStep, ProvisionStep, DeprovisionStep, InsertStep,
         CheckProvisioned, AnswerNoInstance, AnswerProvisioned, AnswerConflict,
         LoadHashedParams, SaveParams, AnswerProvisioning, CheckProvisioning,
         CheckAllowed, RejectProvision, RejectPlan, StartInstall, AnswerGone,
         CheckDeprovisioned, AnswerDeprovisioning, CheckDeprovisioning,
         RejectDeprovision, AnswerNotStored, GetInstance, RejectInsert, CheckInEtcd,
         InsertInMemory, PutInEtcd, PutOperation, Goto, Answer, TakeID, TypeOK
    <3> QED
      BY <2>1, <3>1, KeptByHandlers
  <2>2. CASE handler[t].pc = "findPlan"
    <3>1. handler[t].req \in Instance
      BY <2>2, HandlerFacts DEF CreatePCs
    <3>2. RejectPlan(t) \/ StartInstall(t)
      BY <1>2, <2>2 DEF HandlerStep, ProvisionStep, DeprovisionStep, InsertStep,
         CheckProvisioned, AnswerNoInstance, AnswerProvisioned, AnswerConflict,
         LoadHashedParams, SaveParams, AnswerProvisioning, CheckProvisioning,
         CheckAllowed, RejectProvision, AnswerGone,
         CheckDeprovisioned, AnswerDeprovisioning, CheckDeprovisioning,
         RejectDeprovision, AnswerNotStored, GetInstance, RejectInsert, CheckInEtcd,
         InsertInMemory, PutInEtcd, At
    <3>3. CASE RejectPlan(t)
      <4>1. handler[t].op # id
        BY <3>3
      <4>2. UNCHANGED <<ops, worker>> /\ \A u \in Threads : u # t => handler'[u] = handler[u]
        BY <1>0, <3>3 DEF RejectPlan, Answer, TypeOK
      <4> QED
        BY <4>1, <4>2 DEF LeftBehind, InProgress
    <3>s. SUFFICES ASSUME StartInstall(t) PROVE LeftBehind(id)
      BY <3>2, <3>3
    <3>4. PICK op \in OpIDs : op = handler[t].op
      BY <2>2 DEF IInv, HandlerOwnsID
    <3>5. PICK w : w = [pc |-> "install", inst |-> handler[t].inst, rec |-> handler[t].req]
      OBVIOUS
    <3>6. w \in Worker
      BY <2>2, <3>1, <3>5, HandlerFacts DEF Worker, WorkerPCs
    <3>7. /\ ops' = ops
          /\ worker' = [worker EXCEPT ![op] = w]
          /\ handler' = [handler EXCEPT ![t] = Idle]
      BY <3>s, <3>4, <3>5 DEF StartInstall, Answer
    <3>8. /\ worker'[op] = w /\ w # Nil
          /\ \A o \in OpIDs : o # op => worker'[o] = worker[o]
          /\ \A u \in Threads : u # t => handler'[u] = handler[u]
      BY <1>0, <3>6, <3>7, NilAssumption DEF TypeOK
    <3>9. id # op
      BY <3>8 DEF LeftBehind
    <3> QED
      BY <3>4, <3>7, <3>8, <3>9 DEF LeftBehind, InProgress
  <2>3. CASE InsertInMemory(t) \/ PutInEtcd(t)
    <3>1. handler[t].pc \in InsertPCs /\ PutOperation(t)
      BY <2>3 DEF InsertInMemory, PutInEtcd, At, InsertPCs
    <3>2. PICK op : op = handler[t].op
      OBVIOUS
    <3>3. op \in OpIDs
      BY <3>1, <3>2 DEF IInv, HandlerOwnsID
    <3>4. \A o \in OpIDs : o # op => ops'[o] = ops[o] /\ worker'[o] = worker[o]
      BY <1>0, <3>1, <3>2, <3>3 DEF PutOperation, TypeOK
    <3>5. \A u \in Threads : u # t => handler'[u] = handler[u]
      BY <1>0, <3>1 DEF PutOperation, Goto, Answer, TypeOK
    <3>6. worker'[op] # Nil \/ handler'[t].op = op
      <4>1. CASE Goto(t, "findPlan")
        BY <1>0, <3>2, <4>1 DEF Goto, TypeOK, Handler
      <4>2. PICK w : w = [pc |-> "delete", inst |-> handler[t].inst, rec |-> handler[t].req]
        OBVIOUS
      <4>3. w \in Worker
        BY <3>1, <4>2, HandlerFacts DEF Worker, WorkerPCs, InsertPCs
      <4>4. CASE worker' = [worker EXCEPT ![op] = w]
        BY <1>0, <3>3, <4>3, <4>4, NilAssumption DEF TypeOK
      <4> QED
        BY <3>1, <3>2, <4>1, <4>2, <4>4 DEF PutOperation
    <3>7. id # op
      BY <3>6 DEF LeftBehind
    <3> QED
      BY <3>2, <3>4, <3>5, <3>7 DEF LeftBehind, InProgress
  <2> QED
    BY <1>2, <2>1, <2>2, <2>3 DEF HandlerStep, ProvisionStep, DeprovisionStep, InsertStep,
       CheckProvisioned, AnswerNoInstance, AnswerProvisioned, AnswerConflict,
       LoadHashedParams, SaveParams, AnswerProvisioning, CheckProvisioning,
       CheckAllowed, RejectProvision, RejectPlan, StartInstall, AnswerGone,
       CheckDeprovisioned, AnswerDeprovisioning, CheckDeprovisioning,
       RejectDeprovision, AnswerNotStored, GetInstance, RejectInsert, CheckInEtcd, At
<1>3. ASSUME NEW o \in OpIDs, WorkerStep(o)
      PROVE  LeftBehind(id)
  <2>1. CASE UpdateStateDesc(o)
    <3>1. \A p \in OpIDs : p # o => ops'[p] = ops[p] /\ worker'[p] = worker[p]
      BY <1>0, <2>1 DEF UpdateStateDesc, TypeOK
    <3>2. ops[o] \in InstanceOperation
      BY <1>0, <2>1 DEF TypeOK, IInv, WorkerRunsOperation, InProgress, UpdateStateDesc
    <3>3. ops'[o].state # "in progress"
      BY <1>0, <2>1, <3>2 DEF UpdateStateDesc, TypeOK, InstanceOperation
    <3>4. ~InProgress(o)' /\ handler' = handler
      BY <2>1, <3>3 DEF InProgress, UpdateStateDesc
    <3> QED
      BY <3>1, <3>4, KeptByWorkers
  <2>2. ASSUME NEW pc \in WorkerPCs, worker[o] # Nil, WorkerGoto(o, pc), UNCHANGED <<ops, handler>>
        PROVE  LeftBehind(id)
    <3>1. worker[o] \in Worker
      BY <2>2, WorkerFacts
    <3>2. [worker[o] EXCEPT !.pc = pc] \in Worker
      BY <2>2, <3>1 DEF Worker
    <3>3. worker'[o] # Nil /\ \A p \in OpIDs : p # o => worker'[p] = worker[p]
      BY <1>0, <2>2, <3>2, NilAssumption DEF WorkerGoto, TypeOK
    <3> QED
      BY <2>2, <3>3, KeptByWorkers
  <2>3. /\ "installing" \in WorkerPCs /\ "fail" \in WorkerPCs /\ "record" \in WorkerPCs
        /\ "succeed" \in WorkerPCs /\ "forget" \in WorkerPCs
    BY DEF WorkerPCs
  <2> QED
    BY <1>3, <2>1, <2>2, <2>3 DEF WorkerStep, BeginInstall, RefuseInstall, EndInstall,
       RecordRelease, DeleteRelease, RefuseDelete, RemoveInstance, WorkerAt
<1>4. CASE UNCHANGED vars
  BY <1>4 DEF vars, LeftBehind, InProgress
<1> QED
  BY <1>1, <1>2, <1>3, <1>4 DEF Next

-----------------------------------------------------------------------------
(* The results.                                                            *)

(* Provisioning and deprovisioning one instance each run once at a time,   *)
(* under either driver, for every number of threads, instances, crashes    *)
(* and storage errors: the mutex of provisionService (provision.go:50) and *)
(* that of deprovisionService (deprovision.go:38) cover the check and the  *)
(* put of Insert.                                                          *)
THEOREM OneOfEachTypeAlways == Spec => []OneOfEachType
<1>1. IInv => OneOfEachType
  BY DEF IInv
<1> QED
  BY <1>1, Invariance, PTL

(* The active-operation check of Insert is exact under the memory driver,  *)
(* whose lock covers check and insertion, and under etcd for a platform    *)
(* that sends one request about an instance at a time.                     *)
THEOREM OneInProgressWhenSerialised == ASSUME Serialised PROVE Spec => []OneInProgress
<1>1. IInv => OneInProgress
  BY DEF IInv
<1> QED
  BY <1>1, Invariance, PTL

(* For every number of threads, restarts and storage errors and under      *)
(* either driver: an operation that last_operation reports as running is   *)
(* left without a goroutine only by a restart, a failed storage call, or   *)
(* the return of Provision for a plan the addon does not have              *)
(* (provision.go:134).                                                     *)
THEOREM LeftByFailureOnly == Spec => LeftByFailure
<1>1. ASSUME IInv, IInv', Next, NEW id \in OpIDs, ~LeftBehind(id), LeftBehind(id)'
      PROVE  \/ crashes' > crashes
             \/ faults' > faults
             \/ \E t \in Threads : handler[t].op = id /\ RejectPlan(t)
  <2>1. crashes \in Nat /\ faults \in Nat
    BY <1>1, ConstantsAssumption DEF IInv, TypeOK
  <2>2. CASE Crash
    BY <2>1, <2>2 DEF Crash
  <2>3. CASE FailureStep
    <3>1. Fault
      BY <2>3 DEF FailureStep, HandlerFails, PutUnacknowledged, WorkerFails, UpdateFails
    <3> QED
      BY <2>1, <3>1 DEF Fault
  <2>4. CASE ~Crash /\ ~FailureStep
    BY <1>1, <2>4, LeftStep
  <2> QED
    BY <2>2, <2>3, <2>4
<1>2. IInv /\ IInv' /\ [Next]_vars =>
        [\A id \in OpIDs : ~LeftBehind(id) /\ LeftBehind(id)' =>
           \/ crashes' > crashes
           \/ faults' > faults
           \/ \E t \in Threads : handler[t].op = id /\ RejectPlan(t)]_vars
  BY <1>1
<1> QED
  BY <1>2, Invariance, PTL DEF Spec, LeftByFailure
=============================================================================
