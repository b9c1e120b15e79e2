--------------------------- MODULE Binding_proofs ---------------------------
(***************************************************************************)
(* Binding for every value of its constants: the invariant BindInv, from   *)
(* which type correctness, the exclusion of concurrent bind operations and *)
(* what is said of credentials follow.                                     *)
(***************************************************************************)
EXTENDS Binding, TLAPS

-----------------------------------------------------------------------------
(* The inductive invariant.                                                *)

(* Where Bind is while it holds the mutex of bindService.                  *)
BindPCs == {"isBindingInProgress", "isBound", "inputAgain", "getData", "insert", "put", "input"}

(* A handler in Bind holds the mutex, so that there is one at a time, and  *)
(* has the locals it has set so far.                                       *)
HandlerInv ==
  \A t \in Threads :
    /\ handler[t].pc = "idle" => handler[t] = Idle
    /\ handler[t].pc # "idle" => handler[t].inst \in Instances /\ handler[t].bind \in Bindings
    /\ handler[t].pc \in BindPCs => handler[t].plan \in Plans /\ mu = t
    /\ handler[t].pc \in {"inputAgain", "insert", "put", "input"} => handler[t].op \in OpIDs
    /\ handler[t].pc = "removeData" => handler[t].creds \in Lives

(* An operation is stored once it is executed, is not yet stored when its  *)
(* Insert is under way, and what Insert has checked still holds at its put. *)
OperationInv ==
  /\ \A g \in Routines : routine[g] # Nil => bindOps[routine[g].op] # Nil
  /\ \A t \in Threads :
       /\ handler[t].pc \in {"insert", "put"} => bindOps[handler[t].op] = Nil
       /\ handler[t].pc = "put" => ~isOperationInProgress(handler[t].inst, handler[t].bind)
       /\ handler[t].pc = "input" => bindOps[handler[t].op] # Nil
       /\ handler[t].pc = "inputAgain" => bindOps[handler[t].op] # Nil

(* The platform waits with a removal until nothing is done for the         *)
(* bindings of the instance.                                               *)
Patient == "hasty" \notin Platform

(* Then what is being rendered, held and returned is of the instance as it *)
(* is, since an instance that is being removed has none of these.          *)
LifeInv ==
  /\ \A i \in Instances : removing[i] # Nil => ~Busy(i) /\ instances[i] # Nil
  /\ \A i \in Instances : removing[i] = "instance" => bindData[i] = Nil
  /\ \A g \in Routines : routine[g] # Nil => routine[g].life = instances[routine[g].inst]
  /\ \A t \in Threads : handler[t].pc = "removeData"
                          => handler[t].creds = instances[handler[t].inst]
  /\ DataOfInstance

BindInv ==
  /\ BindingTypeOK
  /\ HandlerInv
  /\ OperationInv
  /\ OneBindingInProgress
  /\ Patient => LifeInv

-----------------------------------------------------------------------------
(* The state of a thread that serves nothing is a handler state.           *)
LEMMA IdleFacts ==
  /\ Idle \in Handler
  /\ Idle.pc = "idle" /\ Idle.inst = Nil /\ Idle.op = Nil
  BY DEF Idle, Handler, HandlerPCs

(* The check of Insert (bindOperation of either driver) in terms of the    *)
(* operations: one in progress of the binding, or of the instance in       *)
(* memory.                                                                 *)
LEMMA CheckOfInsert ==
  ASSUME BindingTypeOK, NEW i \in Instances, NEW b \in Bindings
  PROVE  isOperationInProgress(i, b) <=>
           \E id \in OpIDs : /\ InProgress(id)
                             /\ bindOps[id].inst = i
                             /\ Driver = "memory" \/ bindOps[id].bind = b
<1>1. \A id \in OpIDs : InProgress(id) => bindOps[id] \in BindOperation
  BY DEF InProgress, BindingTypeOK
<1>2. ASSUME NEW other \in Bindings
      PROVE  IsBindingInProgress(i, other) <=>
               \E id \in OpIDs : InProgress(id) /\ bindOps[id].inst = i /\ bindOps[id].bind = other
  <2> DEFINE new == [inst |-> i, bind |-> other, state |-> "in progress"]
  <2>0. new \in BindOperation /\ new.inst = i /\ new.bind = other /\ new.state = "in progress"
    BY DEF BindOperation, OpStates
  <2>1. ASSUME NEW id \in OpIDs, bindOps[id] = new
        PROVE  InProgress(id) /\ bindOps[id].inst = i /\ bindOps[id].bind = other
    <3> HIDE DEF new
    <3> QED
      BY <2>0, <2>1, NilAssumption DEF InProgress
  <2>2. ASSUME NEW id \in OpIDs, InProgress(id), bindOps[id].inst = i, bindOps[id].bind = other
        PROVE  bindOps[id] = [inst |-> i, bind |-> other, state |-> "in progress"]
    BY <1>1, <2>2 DEF InProgress, BindOperation
  <2> QED
    BY <2>1, <2>2 DEF IsBindingInProgress, OpsOf
<1>3. \A id \in OpIDs : InProgress(id) => bindOps[id].bind \in Bindings
  BY <1>1 DEF BindOperation
<1> QED
  BY <1>2, <1>3, ConstantsAssumption DEF isOperationInProgress

(* What is said of the operations depends on bindOps only.                 *)
LEMMA OperationsUnchanged ==
  ASSUME UNCHANGED bindOps
  PROVE  /\ \A id : InProgress(id)' <=> InProgress(id)
         /\ \A i, b : isOperationInProgress(i, b)' <=> isOperationInProgress(i, b)
         /\ OneBindingInProgress => OneBindingInProgress'
  BY DEF InProgress, isOperationInProgress, IsBindingInProgress, OpsOf, OneBindingInProgress

(* A handler moves on, with other locals, and nothing else changes.        *)
LEMMA MoveKeeps ==
  ASSUME BindInv, NEW t \in Threads, NEW h \in Handler,
         handler' = [handler EXCEPT ![t] = h],
         UNCHANGED <<mu, bindOps, bindData, routine, faults, envVars>>,
         handler[t].pc \notin {"idle", "input"}, h.pc \notin {"idle", "input"},
         h.inst = handler[t].inst, h.bind = handler[t].bind, h.plan = handler[t].plan,
         h.pc \in BindPCs => handler[t].pc \in BindPCs,
         h.pc \in {"inputAgain", "insert", "put"} => h.op \in OpIDs,
         h.pc = "removeData" => h.creds \in Lives /\ (Patient => h.creds = instances[h.inst]),
         h.pc \in {"insert", "put"} => bindOps[h.op] = Nil,
         h.pc = "inputAgain" => bindOps[h.op] # Nil,
         h.pc = "put" => ~isOperationInProgress(h.inst, h.bind)
  PROVE  BindInv'
<1> USE DEF BindInv
<1>1. /\ handler'[t] = h
      /\ \A u \in Threads : u # t => handler'[u] = handler[u]
  BY DEF BindingTypeOK
<1>2. UNCHANGED <<instances, removing, lives, crashes>>
  BY DEF envVars
<1>3. BindingTypeOK'
  BY <1>2 DEF BindingTypeOK
<1>4. HandlerInv'
  BY <1>1 DEF HandlerInv, BindPCs
<1>5. OperationInv'
  BY <1>1, OperationsUnchanged DEF OperationInv
<1>6. OneBindingInProgress'
  BY OperationsUnchanged
<1>7. Patient => LifeInv'
  <2>1. \A i : Busy(i)' <=> Busy(i)
    BY <1>1 DEF Busy
  <2> QED
    BY <1>1, <1>2, <2>1 DEF LifeInv, DataOfInstance
<1> QED
  BY <1>3, <1>4, <1>5, <1>6, <1>7 DEF Patient

(* A handler returns without touching the operations; who has read         *)
(* credentials removes them (bind.go, getBindData).                        *)
LEMMA AnswerKeeps ==
  ASSUME BindInv, NEW t \in Threads, handler[t].pc # "idle", Answer(t),
         UNCHANGED <<bindOps, routine, envVars>>, faults' \in 0..MaxFaults,
         \/ UNCHANGED bindData
         \/ bindData' = [bindData EXCEPT ![handler[t].inst] = Nil]
  PROVE  BindInv'
<1> USE DEF BindInv
<1>1. /\ handler'[t] = Idle
      /\ \A u \in Threads : u # t => handler'[u] = handler[u]
      /\ handler' \in [Threads -> Handler]
      /\ mu' = IF mu = t THEN Nil ELSE mu
  BY IdleFacts DEF BindingTypeOK, Answer
<1>2. UNCHANGED <<instances, removing, lives, crashes>>
  BY DEF envVars
<1>3. /\ bindData' \in [Instances -> Lives \cup {Nil}]
      /\ \A i \in Instances : bindData'[i] # Nil => bindData'[i] = bindData[i]
  BY DEF BindingTypeOK
<1>4. BindingTypeOK'
  BY <1>1, <1>2, <1>3 DEF BindingTypeOK
<1>5. HandlerInv'
  BY <1>1, IdleFacts DEF HandlerInv, BindPCs
<1>6. OperationInv'
  BY <1>1, IdleFacts, OperationsUnchanged DEF OperationInv
<1>7. OneBindingInProgress'
  BY OperationsUnchanged
<1>8. Patient => LifeInv'
  <2>1. \A i \in Instances : Busy(i)' => Busy(i)
    BY <1>1, IdleFacts, NilAssumption DEF Busy
  <2> QED
    BY <1>1, <1>2, <1>3, <2>1, IdleFacts DEF LifeInv, DataOfInstance
<1> QED
  BY <1>4, <1>5, <1>6, <1>7, <1>8 DEF Patient

(* Bind is in one thread at a time.                                        *)
LEMMA OneBinder ==
  ASSUME BindInv, NEW t \in Threads, handler[t].pc \in BindPCs,
         NEW u \in Threads, u # t
  PROVE  handler[u].pc \notin BindPCs
  BY DEF BindInv, HandlerInv

(* A request comes in: Bind locks the mutex, GetBindData does not.         *)
LEMMA EnterKeeps ==
  ASSUME BindInv, NEW t \in Threads, NEW h \in Handler,
         handler[t].pc = "idle", handler' = [handler EXCEPT ![t] = h],
         h.inst \in Instances, h.bind \in Bindings, PlatformAsks(h.inst),
         UNCHANGED <<bindOps, bindData, routine, faults, envVars>>,
         \/ h.pc = "fetch" /\ UNCHANGED mu
         \/ /\ h.pc = "isBindingInProgress" /\ h.plan \in Plans
            /\ mu = Nil /\ mu' = t
            /\ "stray" \in Platform \/ (instances[h.inst] # Nil /\ h.plan \in Offered)
  PROVE  BindInv'
<1> USE DEF BindInv
<1>1. /\ handler'[t] = h
      /\ \A u \in Threads : u # t => handler'[u] = handler[u]
      /\ handler' \in [Threads -> Handler]
  BY DEF BindingTypeOK
<1>2. UNCHANGED <<instances, removing, lives, crashes>>
  BY DEF envVars
<1>3. BindingTypeOK'
  BY <1>1, <1>2 DEF BindingTypeOK
<1>4. HandlerInv'
  BY <1>1, NilAssumption DEF HandlerInv, BindPCs
<1>5. OperationInv'
  BY <1>1, OperationsUnchanged DEF OperationInv
<1>6. OneBindingInProgress'
  BY OperationsUnchanged
<1>7. Patient => LifeInv'
  <2> SUFFICES ASSUME Patient PROVE LifeInv'
    OBVIOUS
  <2>1. removing[h.inst] = Nil
    BY DEF PlatformAsks, Patient
  <2>2. \A i \in Instances : i # h.inst => (Busy(i)' => Busy(i))
    BY <1>1 DEF Busy
  <2> QED
    BY <1>1, <1>2, <2>1, <2>2 DEF LifeInv, DataOfInstance
<1> QED
  BY <1>3, <1>4, <1>5, <1>6, <1>7 DEF Patient

(* What the put of Insert leaves: the new operation in progress, the       *)
(* others as they were, and no second one of the binding.                  *)
LEMMA PutFacts ==
  ASSUME BindInv, NEW t \in Threads, handler[t].pc \in {"insert", "put"},
         ~isOperationInProgress(handler[t].inst, handler[t].bind), putOperation(t)
  PROVE  /\ bindOps' \in [OpIDs -> BindOperation \cup {Nil}]
         /\ handler[t].op \in OpIDs /\ bindOps'[handler[t].op] # Nil
         /\ \A id \in OpIDs : id # handler[t].op => bindOps'[id] = bindOps[id]
         /\ OneBindingInProgress'
<1> DEFINE h == handler[t]
           new == [inst |-> h.inst, bind |-> h.bind, state |-> "in progress"]
<1>1. h.op \in OpIDs /\ h.inst \in Instances /\ h.bind \in Bindings
  BY DEF BindInv, HandlerInv
<1>2. new \in BindOperation
  BY <1>1 DEF BindOperation, OpStates
<1>3. new # Nil /\ new.inst = h.inst /\ new.bind = h.bind
  BY <1>2, NilAssumption
<1> HIDE DEF new
<1>4. bindOps \in [OpIDs -> BindOperation \cup {Nil}]
  BY DEF BindInv, BindingTypeOK
<1>5. bindOps' = [bindOps EXCEPT ![h.op] = new]
  BY DEF putOperation, new
<1>6. /\ bindOps' \in [OpIDs -> BindOperation \cup {Nil}]
      /\ bindOps'[h.op] = new
      /\ \A id \in OpIDs : id # h.op => bindOps'[id] = bindOps[id]
  BY <1>1, <1>2, <1>4, <1>5
<1>7. \A id \in OpIDs :
        ~(InProgress(id) /\ bindOps[id].inst = h.inst
          /\ (Driver = "memory" \/ bindOps[id].bind = h.bind))
  BY <1>1, CheckOfInsert DEF BindInv
<1>8. OneBindingInProgress'
  <2>1. \A id \in OpIDs : id # h.op => (InProgress(id)' <=> InProgress(id))
    BY <1>6 DEF InProgress
  <2> QED
    BY <1>1, <1>3, <1>6, <1>7, <2>1 DEF BindInv, OneBindingInProgress
<1> QED
  BY <1>1, <1>3, <1>6, <1>8

(* Insert stores the operation: the handler goes on, or, when the put had  *)
(* its effect and failed all the same, returns.                            *)
LEMMA PutKeeps ==
  ASSUME BindInv, NEW t \in Threads, handler[t].pc \in {"insert", "put"},
         ~isOperationInProgress(handler[t].inst, handler[t].bind), putOperation(t),
         UNCHANGED <<bindData, routine, envVars>>, faults' \in 0..MaxFaults,
         Goto(t, "input") \/ Answer(t)
  PROVE  BindInv'
<1> USE DEF BindInv
<1>0. /\ bindOps' \in [OpIDs -> BindOperation \cup {Nil}]
      /\ handler[t].op \in OpIDs /\ bindOps'[handler[t].op] # Nil
      /\ \A id \in OpIDs : id # handler[t].op => bindOps'[id] = bindOps[id]
      /\ OneBindingInProgress'
      /\ bindOps[handler[t].op] = Nil
  BY PutFacts DEF OperationInv
<1>1. \A u \in Threads : u # t => handler'[u] = handler[u] /\ handler[u].pc \notin BindPCs
  BY OneBinder DEF BindingTypeOK, Goto, Answer, BindPCs
<1>2. UNCHANGED <<instances, removing, lives, crashes>>
  BY DEF envVars
<1>3. \/ /\ handler'[t].pc = "input" /\ handler'[t].inst = handler[t].inst
         /\ handler'[t].bind = handler[t].bind /\ handler'[t].plan = handler[t].plan
         /\ handler'[t].op = handler[t].op /\ handler'[t] \in Handler /\ mu' = mu
      \/ handler'[t] = Idle /\ mu' = Nil
  <2>1. handler[t] \in Handler
    BY DEF BindingTypeOK
  <2>2. CASE Goto(t, "input")
    <3>1. handler'[t] = [handler[t] EXCEPT !.pc = "input"] /\ mu' = mu
      BY <2>2 DEF BindingTypeOK, Goto
    <3> QED
      BY <2>1, <3>1 DEF Handler, HandlerPCs
  <2>3. CASE Answer(t)
    BY <2>3 DEF BindingTypeOK, Answer, HandlerInv, BindPCs
  <2> QED
    BY <2>2, <2>3
<1>4. handler' \in [Threads -> Handler]
  BY <1>1, <1>3, IdleFacts DEF BindingTypeOK, Goto, Answer
<1>5. BindingTypeOK'
  BY <1>0, <1>2, <1>3, <1>4 DEF BindingTypeOK
<1>6. HandlerInv'
  BY <1>0, <1>1, <1>3, IdleFacts DEF HandlerInv, BindPCs
<1>7. OperationInv'
  <2>1. \A id \in OpIDs : bindOps[id] # Nil => bindOps'[id] # Nil
    BY <1>0
  <2>2. \A g \in Routines : routine[g] # Nil => routine[g].op \in OpIDs
    BY DEF BindingTypeOK, Routine
  <2> QED
    BY <1>0, <1>1, <1>3, <2>1, <2>2, IdleFacts DEF OperationInv, BindPCs
<1>8. Patient => LifeInv'
  <2>1. \A i \in Instances : Busy(i)' => Busy(i)
    BY <1>1, <1>3, IdleFacts, NilAssumption DEF Busy
  <2> QED
    BY <1>1, <1>2, <1>3, <2>1, IdleFacts DEF LifeInv, DataOfInstance
<1> QED
  BY <1>0, <1>5, <1>6, <1>7, <1>8 DEF Patient

(* A goroutine starts for the operation of its handler: Bind returns, or,  *)
(* for a binding that is bound already, reads the bind data.               *)
LEMMA StartKeeps ==
  ASSUME BindInv, NEW t \in Threads, HasInput(t), doAsync(t),
         UNCHANGED <<bindOps, bindData, faults, envVars>>,
         \/ handler[t].pc = "input" /\ Answer(t)
         \/ handler[t].pc = "inputAgain" /\ Goto(t, "getData")
  PROVE  BindInv'
<1> USE DEF BindInv
<1> DEFINE h == handler[t]
           new == [pc |-> "render", op |-> h.op, inst |-> h.inst,
                   plan |-> h.plan, life |-> instances[h.inst]]
<1>1. h.op \in OpIDs /\ h.inst \in Instances /\ h.bind \in Bindings /\ h.plan \in Plans
      /\ bindOps[h.op] # Nil /\ instances[h.inst] \in Lives /\ mu = t
  BY DEF HandlerInv, OperationInv, HasInput, BindingTypeOK, BindPCs
<1>2. new \in Routine /\ new # Nil
  <2>1. new \in Routine
    BY <1>1 DEF Routine
  <2> QED
    BY <2>1, NilAssumption
<1>3. new.op = h.op /\ new.inst = h.inst /\ new.life = instances[h.inst]
  OBVIOUS
<1>4. PICK g \in Routines : routine[g] = Nil /\ routine' = [routine EXCEPT ![g] = new]
  BY DEF doAsync
<1> HIDE DEF new
<1>5. /\ routine' \in [Routines -> Routine \cup {Nil}]
      /\ routine'[g] = new
      /\ \A r \in Routines : r # g => routine'[r] = routine[r]
  BY <1>2, <1>4 DEF BindingTypeOK
<1>6. \A u \in Threads : u # t => handler'[u] = handler[u] /\ handler[u].pc \notin BindPCs
  BY OneBinder DEF BindingTypeOK, Goto, Answer, BindPCs
<1>7. UNCHANGED <<instances, removing, lives, crashes>>
  BY DEF envVars
<1>8. \/ /\ h.pc = "inputAgain" /\ handler'[t].pc = "getData"
         /\ handler'[t].inst = h.inst /\ handler'[t].bind = h.bind
         /\ handler'[t].plan = h.plan /\ handler'[t] \in Handler /\ mu' = mu
      \/ h.pc = "input" /\ handler'[t] = Idle /\ mu' = Nil
  <2>1. handler[t] \in Handler
    BY DEF BindingTypeOK
  <2>2. CASE h.pc = "inputAgain" /\ Goto(t, "getData")
    <3>1. handler'[t] = [handler[t] EXCEPT !.pc = "getData"] /\ mu' = mu
      BY <2>2 DEF BindingTypeOK, Goto
    <3> QED
      BY <2>1, <2>2, <3>1 DEF Handler, HandlerPCs
  <2>3. CASE h.pc = "input" /\ Answer(t)
    BY <1>1, <2>3 DEF BindingTypeOK, Answer
  <2> QED
    BY <2>2, <2>3
<1>9. handler' \in [Threads -> Handler]
  BY <1>6, <1>8, IdleFacts DEF BindingTypeOK, Goto, Answer
<1>10. BindingTypeOK'
  BY <1>5, <1>7, <1>8, <1>9 DEF BindingTypeOK
<1>11. HandlerInv'
  BY <1>1, <1>6, <1>8, IdleFacts DEF HandlerInv, BindPCs
<1>12. OperationInv'
  BY <1>1, <1>3, <1>5, <1>6, <1>8, IdleFacts, OperationsUnchanged DEF OperationInv, BindPCs
<1>13. OneBindingInProgress'
  BY OperationsUnchanged
<1>14. Patient => LifeInv'
  <2>1. Busy(h.inst)
    BY DEF Busy
  <2>2. \A i \in Instances : Busy(i)' => Busy(i)
    BY <1>1, <1>3, <1>5, <1>6, <1>8, <2>1, IdleFacts, NilAssumption DEF Busy
  <2> QED
    BY <1>3, <1>5, <1>6, <1>7, <1>8, <2>2, IdleFacts DEF LifeInv, DataOfInstance
<1> QED
  BY <1>10, <1>11, <1>12, <1>13, <1>14 DEF Patient

(* A goroutine has rendered the credentials, or not: it stores those of    *)
(* the instance it was started for if none are stored.                     *)
LEMMA RenderKeeps ==
  ASSUME BindInv, NEW g \in Routines, NEW pc \in {"succeed", "fail"},
         RoutineAt(g, "render"), RoutineGoto(g, pc),
         UNCHANGED <<bindOps, mu, handler, faults, envVars>>,
         \/ UNCHANGED bindData
         \/ bindData' = [bindData EXCEPT ![routine[g].inst] = routine[g].life]
  PROVE  BindInv'
<1> USE DEF BindInv
<1>1. routine[g] \in Routine
  BY DEF BindingTypeOK, RoutineAt
<1>2. routine'[g] = [routine[g] EXCEPT !.pc = pc]
  BY DEF BindingTypeOK, RoutineGoto
<1>3. /\ routine'[g] \in Routine /\ routine'[g].op = routine[g].op
      /\ routine'[g].inst = routine[g].inst /\ routine'[g].life = routine[g].life
      /\ routine[g].inst \in Instances /\ routine[g].life \in Lives
  BY <1>1, <1>2 DEF Routine
<1>4. /\ routine' \in [Routines -> Routine \cup {Nil}]
      /\ \A r \in Routines : r # g => routine'[r] = routine[r]
  BY <1>3 DEF BindingTypeOK, RoutineGoto
<1>5. routine'[g] # Nil /\ routine[g] # Nil
  BY <1>3, NilAssumption DEF RoutineAt
<1>6. UNCHANGED <<instances, removing, lives, crashes>>
  BY DEF envVars
<1>7. /\ bindData' \in [Instances -> Lives \cup {Nil}]
      /\ \A i \in Instances : \/ bindData'[i] = bindData[i]
                              \/ i = routine[g].inst /\ bindData'[i] = routine[g].life
  BY <1>3 DEF BindingTypeOK
<1>8. BindingTypeOK'
  BY <1>4, <1>6, <1>7 DEF BindingTypeOK
<1>9. HandlerInv'
  BY DEF HandlerInv
<1>10. OperationInv'
  BY <1>3, <1>4, <1>5, OperationsUnchanged DEF OperationInv
<1>11. OneBindingInProgress'
  BY OperationsUnchanged
<1>12. Patient => LifeInv'
  <2>1. \A i : Busy(i)' <=> Busy(i)
    BY <1>3, <1>4, <1>5 DEF Busy
  <2>2. Busy(routine[g].inst)
    BY <1>5 DEF Busy
  <2> QED
    BY <1>3, <1>4, <1>5, <1>6, <1>7, <2>1, <2>2, NilAssumption DEF LifeInv, DataOfInstance
<1> QED
  BY <1>8, <1>9, <1>10, <1>11, <1>12 DEF Patient

(* A goroutine ends; unless the update of its operation has failed, the    *)
(* operation is no longer in progress.                                     *)
LEMMA EndKeeps ==
  ASSUME BindInv, NEW g \in Routines, NEW state \in {"succeeded", "failed"},
         routine[g] # Nil, routine' = [routine EXCEPT ![g] = Nil],
         UNCHANGED <<bindData, mu, handler, envVars>>, faults' \in 0..MaxFaults,
         \/ bindOps' = [bindOps EXCEPT ![routine[g].op].state = state]
         \/ UNCHANGED bindOps
  PROVE  BindInv'
<1> USE DEF BindInv
<1>1. PICK op \in OpIDs : op = routine[g].op /\ bindOps[op] \in BindOperation
  BY DEF BindingTypeOK, Routine, OperationInv
<1>2. /\ routine' \in [Routines -> Routine \cup {Nil}]
      /\ routine'[g] = Nil
      /\ \A r \in Routines : r # g => routine'[r] = routine[r]
  BY DEF BindingTypeOK
<1>3. UNCHANGED <<instances, removing, lives, crashes>>
  BY DEF envVars
<1>4. /\ bindOps' \in [OpIDs -> BindOperation \cup {Nil}]
      /\ bindOps'[op] # Nil
      /\ bindOps'[op].inst = bindOps[op].inst /\ bindOps'[op].bind = bindOps[op].bind
      /\ \A id \in OpIDs : id # op => bindOps'[id] = bindOps[id]
      /\ bindOps'[op].state # "in progress" \/ bindOps'[op] = bindOps[op]
  <2>1. CASE UNCHANGED bindOps
    BY <1>1, <2>1, NilAssumption DEF BindingTypeOK
  <2>2. CASE bindOps' = [bindOps EXCEPT ![routine[g].op].state = state]
    <3> DEFINE new == [bindOps[op] EXCEPT !.state = state]
    <3>1. /\ new \in BindOperation /\ new.inst = bindOps[op].inst
          /\ new.bind = bindOps[op].bind /\ new.state = state
      BY <1>1 DEF BindOperation, OpStates
    <3>2. bindOps' = [bindOps EXCEPT ![op] = new]
      BY <1>1, <2>2
    <3> HIDE DEF new
    <3>3. /\ bindOps' \in [OpIDs -> BindOperation \cup {Nil}]
          /\ bindOps'[op] = new
          /\ \A id \in OpIDs : id # op => bindOps'[id] = bindOps[id]
      BY <1>1, <3>1, <3>2 DEF BindingTypeOK
    <3> QED
      BY <3>1, <3>3, NilAssumption
  <2> QED
    BY <2>1, <2>2
<1>5. \A id \in OpIDs : /\ InProgress(id)' => InProgress(id)
                        /\ bindOps[id] = Nil <=> bindOps'[id] = Nil
                        /\ bindOps'[id].inst = bindOps[id].inst
                        /\ bindOps'[id].bind = bindOps[id].bind
  BY <1>1, <1>4, NilAssumption DEF InProgress
<1>6. BindingTypeOK'
  BY <1>2, <1>3, <1>4 DEF BindingTypeOK
<1>7. HandlerInv'
  BY DEF HandlerInv
<1>8. OperationInv'
  <2>1. \A i \in Instances, b \in Bindings :
          isOperationInProgress(i, b)' => isOperationInProgress(i, b)
    <3>1. ASSUME NEW i \in Instances, NEW b \in Bindings, NEW id \in OpIDs,
                 bindOps'[id] = [inst |-> i, bind |-> b, state |-> "in progress"]
          PROVE  bindOps[id] = [inst |-> i, bind |-> b, state |-> "in progress"]
      <4> DEFINE old == [inst |-> i, bind |-> b, state |-> "in progress"]
      <4>1. old.state = "in progress"
        OBVIOUS
      <4>2. bindOps'[id] = old
        BY <3>1
      <4> HIDE DEF old
      <4>3. bindOps[id] = old
        BY <1>1, <1>4, <4>1, <4>2
      <4> QED
        BY <4>3 DEF old
    <3> QED
      BY <3>1 DEF isOperationInProgress, IsBindingInProgress, OpsOf
  <2>2. \A t \in Threads : handler[t].pc \in {"insert", "put", "input", "inputAgain"} =>
          handler[t].inst \in Instances /\ handler[t].bind \in Bindings /\ handler[t].op \in OpIDs
    BY DEF HandlerInv
  <2>3. \A r \in Routines : routine[r] # Nil => routine[r].op \in OpIDs
    BY DEF BindingTypeOK, Routine
  <2> QED
    BY <1>2, <1>5, <2>1, <2>2, <2>3 DEF OperationInv
<1>9. OneBindingInProgress'
  BY <1>5 DEF OneBindingInProgress
<1>10. Patient => LifeInv'
  <2>1. \A i : Busy(i)' => Busy(i)
    BY <1>2 DEF Busy
  <2> QED
    BY <1>2, <1>3, <2>1 DEF LifeInv, DataOfInstance
<1> QED
  BY <1>6, <1>7, <1>8, <1>9, <1>10 DEF Patient

-----------------------------------------------------------------------------
(* The steps that are not those of a request.                              *)

(* The life of an instance (deprovisionService.do removes the bind data    *)
(* and then the instance) touches no operation, handler or goroutine.      *)
LEMMA InstanceStepKeeps ==
  ASSUME BindInv, NEW i \in Instances, InstanceStep(i)
  PROVE  BindInv'
<1> USE DEF BindInv
<1>1. /\ UNCHANGED <<bindOps, mu, handler, routine, crashes, faults>>
      /\ instances' \in [Instances -> Lives \cup {Nil}]
      /\ bindData' \in [Instances -> Lives \cup {Nil}]
      /\ removing' \in [Instances -> {"bindData", "instance", Nil}]
      /\ lives' \in 0..MaxLives
  BY ConstantsAssumption DEF InstanceStep, ProvisionInstance, StartRemoval, RemoveBindData,
     RemoveInstance, BindingTypeOK, Lives
<1>2. BindingTypeOK'
  BY <1>1 DEF BindingTypeOK
<1>3. HandlerInv'
  BY <1>1 DEF HandlerInv
<1>4. OperationInv'
  BY <1>1, OperationsUnchanged DEF OperationInv
<1>5. OneBindingInProgress'
  BY <1>1, OperationsUnchanged
<1>6. \A j : Busy(j)' <=> Busy(j)
  BY <1>1 DEF Busy
<1>7. \A j \in Instances : j # i => /\ instances'[j] = instances[j]
                                    /\ bindData'[j] = bindData[j]
                                    /\ removing'[j] = removing[j]
  BY DEF InstanceStep, ProvisionInstance, StartRemoval, RemoveBindData,
     RemoveInstance, BindingTypeOK
<1>8. ASSUME Patient
      PROVE  /\ LifeInv'
             /\ instances[i] # Nil /\ Busy(i) => instances'[i] = instances[i]
  <2>1. LifeInv
    BY <1>8
  <2>2. /\ \A g \in Routines : routine[g] # Nil => routine[g].inst \in Instances
                                                  /\ routine[g].life # Nil /\ Busy(routine[g].inst)
        /\ \A t \in Threads : handler[t].pc = "removeData" =>
             handler[t].inst \in Instances /\ handler[t].creds # Nil /\ Busy(handler[t].inst)
    BY NilAssumption DEF HandlerInv, BindingTypeOK, Routine, Busy
  <2>3. CASE ProvisionInstance(i)
    <3>1. /\ instances[i] = Nil /\ removing[i] = Nil /\ bindData[i] = Nil
          /\ UNCHANGED <<bindData, removing>>
      BY <2>1, <2>3 DEF ProvisionInstance, LifeInv, DataOfInstance
    <3> QED
      BY <1>1, <1>6, <1>7, <2>1, <2>2, <3>1 DEF LifeInv, DataOfInstance
  <2>4. CASE StartRemoval(i)
    <3>1. /\ ~Busy(i) /\ instances[i] # Nil /\ removing'[i] = "bindData"
          /\ UNCHANGED <<bindData, instances>>
      BY <1>8, <2>4 DEF StartRemoval, Patient, BindingTypeOK
    <3> QED
      BY <1>1, <1>6, <1>7, <2>1, <2>2, <3>1 DEF LifeInv, DataOfInstance
  <2>5. CASE RemoveBindData(i)
    <3>1. /\ removing[i] # Nil /\ bindData'[i] = Nil /\ UNCHANGED instances
      BY <2>5, NilAssumption DEF RemoveBindData, BindingTypeOK
    <3> QED
      BY <1>1, <1>6, <1>7, <2>1, <2>2, <3>1 DEF LifeInv, DataOfInstance
  <2>6. CASE RemoveInstance(i)
    <3>1. /\ removing[i] = "instance" /\ removing[i] # Nil
          /\ removing'[i] = Nil /\ UNCHANGED bindData
      BY <2>6, NilAssumption DEF RemoveInstance, BindingTypeOK
    <3>2. ~Busy(i) /\ bindData[i] = Nil
      BY <2>1, <3>1 DEF LifeInv
    <3> QED
      BY <1>1, <1>6, <1>7, <2>1, <2>2, <3>1, <3>2 DEF LifeInv, DataOfInstance
  <2> QED
    BY <2>3, <2>4, <2>5, <2>6 DEF InstanceStep
<1> QED
  BY <1>2, <1>3, <1>4, <1>5, <1>8 DEF Patient

(* A restart forgets the requests, the goroutines and the bind data, and   *)
(* with the in-memory driver everything.                                   *)
LEMMA CrashKeeps ==
  ASSUME BindInv, Crash
  PROVE  BindInv'
<1> USE DEF BindInv
<1>1. /\ \A t \in Threads : handler'[t] = Idle
      /\ \A g \in Routines : routine'[g] = Nil
      /\ \A i \in Instances : bindData'[i] = Nil /\ removing'[i] = Nil
      /\ handler' \in [Threads -> Handler]
      /\ routine' \in [Routines -> Routine \cup {Nil}]
      /\ bindData' \in [Instances -> Lives \cup {Nil}]
      /\ removing' \in [Instances -> {"bindData", "instance", Nil}]
      /\ mu' = Nil /\ UNCHANGED <<lives, faults>>
  BY IdleFacts DEF Crash
<1>2. crashes < MaxCrashes /\ crashes' = crashes + 1 /\ crashes' \in 0..MaxCrashes
  BY ConstantsAssumption DEF Crash, BindingTypeOK
<1>3. \/ UNCHANGED <<bindOps, instances>> /\ Driver # "memory"
      \/ bindOps' = [id \in OpIDs |-> Nil] /\ instances' = [i \in Instances |-> Nil]
  BY DEF Crash
<1>4. BindingTypeOK'
  BY <1>1, <1>2, <1>3 DEF BindingTypeOK
<1>5. HandlerInv'
  BY <1>1, IdleFacts DEF HandlerInv, BindPCs
<1>6. OperationInv'
  BY <1>1, IdleFacts DEF OperationInv
<1>7. OneBindingInProgress'
  <2>1. CASE UNCHANGED bindOps
    BY <2>1, OperationsUnchanged
  <2>2. CASE bindOps' = [id \in OpIDs |-> Nil]
    BY <2>2 DEF OneBindingInProgress, InProgress
  <2> QED
    BY <1>3, <2>1, <2>2
<1>8. LifeInv'
  BY <1>1, IdleFacts, NilAssumption DEF LifeInv, DataOfInstance
<1> QED
  BY <1>4, <1>5, <1>6, <1>7, <1>8 DEF Patient

(* Every step of a goroutine.                                              *)
LEMMA RoutineStepKeeps ==
  ASSUME BindInv, NEW g \in Routines, RoutineStep(g) \/ UpdateFails(g)
  PROVE  BindInv'
<1>0. BindingTypeOK
  BY DEF BindInv
<1>1. CASE SkipRendering(g)
  BY <1>1, RenderKeeps DEF SkipRendering
<1>2. CASE renderAndResolveBindData(g)
  BY <1>2, RenderKeeps DEF renderAndResolveBindData
<1>3. CASE FailRendering(g)
  BY <1>3, RenderKeeps DEF FailRendering
<1>4. CASE UpdateStateDesc(g)
  <2> DEFINE state == IF routine[g].pc = "succeed" THEN "succeeded" ELSE "failed"
  <2>1. state \in {"succeeded", "failed"}
    OBVIOUS
  <2>2. /\ routine[g] # Nil /\ routine' = [routine EXCEPT ![g] = Nil]
        /\ UNCHANGED <<bindData, mu, handler, envVars>> /\ faults' \in 0..MaxFaults
        /\ bindOps' = [bindOps EXCEPT ![routine[g].op].state = state]
    BY <1>0, <1>4 DEF UpdateStateDesc, RoutineAt, BindingTypeOK
  <2> QED
    BY <2>1, <2>2, EndKeeps
<1>5. CASE UpdateFails(g)
  <2>1. /\ routine[g] # Nil /\ routine' = [routine EXCEPT ![g] = Nil]
        /\ UNCHANGED <<bindOps, bindData, mu, handler, envVars>> /\ faults' \in 0..MaxFaults
    BY <1>0, <1>5, ConstantsAssumption DEF UpdateFails, RoutineAt, BindingTypeOK, Fault
  <2> QED
    BY <2>1, EndKeeps
<1> QED
  BY <1>1, <1>2, <1>3, <1>4, <1>5 DEF RoutineStep

-----------------------------------------------------------------------------
(* The steps of a request.                                                 *)

(* A handler goes to pc and keeps its locals.                              *)
LEMMA GotoFacts ==
  ASSUME BindingTypeOK, NEW t \in Threads, NEW pc \in HandlerPCs, Goto(t, pc)
  PROVE  \E h \in Handler :
           /\ handler' = [handler EXCEPT ![t] = h]
           /\ h.pc = pc /\ h.inst = handler[t].inst /\ h.bind = handler[t].bind
           /\ h.plan = handler[t].plan /\ h.op = handler[t].op /\ h.creds = handler[t].creds
<1> DEFINE new == [handler[t] EXCEPT !.pc = pc]
<1>1. handler[t] \in Handler
  BY DEF BindingTypeOK
<1>2. /\ new \in Handler
      /\ new.pc = pc /\ new.inst = handler[t].inst /\ new.bind = handler[t].bind
      /\ new.plan = handler[t].plan /\ new.op = handler[t].op /\ new.creds = handler[t].creds
  BY <1>1 DEF Handler
<1>3. handler' = [handler EXCEPT ![t] = new]
  BY DEF Goto
<1> HIDE DEF new
<1> QED
  BY <1>2, <1>3

(* Every step in which Bind or GetBindData goes on without a change of the *)
(* storages.                                                               *)
LEMMA MovesKeep ==
  ASSUME BindInv, NEW t \in Threads,
         \/ CheckBinding(t) \/ CheckBound(t) \/ GetData(t) \/ PrepareBindOperation(t)
         \/ CheckInEtcd(t) \/ CheckFetch(t)
  PROVE  BindInv'
<1>1. /\ BindingTypeOK /\ handler[t] \in Handler
      /\ UNCHANGED <<mu, bindOps, bindData, routine, faults, envVars>>
      /\ "isBound" \in HandlerPCs /\ "inputAgain" \in HandlerPCs /\ "removeData" \in HandlerPCs
      /\ "insert" \in HandlerPCs /\ "put" \in HandlerPCs /\ "fetchData" \in HandlerPCs
  BY DEF BindInv, BindingTypeOK, CheckBinding, CheckBound, GetData, PrepareBindOperation, CheckInEtcd,
     CheckFetch, Goto, HandlerPCs
<1>2. CASE CheckBinding(t)
  <2>1. handler[t].pc = "isBindingInProgress" /\ Goto(t, "isBound")
    BY <1>2 DEF CheckBinding, At
  <2>2. PICK h \in Handler :
          /\ handler' = [handler EXCEPT ![t] = h]
          /\ h.pc = "isBound" /\ h.inst = handler[t].inst /\ h.bind = handler[t].bind
          /\ h.plan = handler[t].plan
    BY <1>1, <2>1, GotoFacts
  <2> QED
    BY <1>1, <2>1, <2>2, MoveKeeps DEF BindPCs
<1>3. CASE CheckBound(t)
  <2>1. PICK id \in OpIDs :
          /\ bindOps[id] = [inst |-> handler[t].inst, bind |-> handler[t].bind, state |-> "succeeded"]
          /\ handler' = [handler EXCEPT ![t].pc = "inputAgain", ![t].op = id]
    BY <1>3 DEF CheckBound, OpsOf
  <2>2. handler[t].pc = "isBound"
    BY <1>3 DEF CheckBound, At
  <2>3. bindOps[id] # Nil
    <3> DEFINE old == [inst |-> handler[t].inst, bind |-> handler[t].bind, state |-> "succeeded"]
    <3>1. handler[t].inst \in Instances /\ handler[t].bind \in Bindings
      BY <2>2 DEF BindInv, HandlerInv
    <3>2. old \in BindOperation
      BY <3>1 DEF BindOperation, OpStates
    <3> QED
      BY <2>1, <3>2, NilAssumption
  <2> DEFINE h == [handler[t] EXCEPT !.pc = "inputAgain", !.op = id]
  <2>4. /\ h \in Handler
        /\ h.pc = "inputAgain" /\ h.inst = handler[t].inst /\ h.bind = handler[t].bind
        /\ h.plan = handler[t].plan /\ h.op = id
    BY <1>1 DEF Handler, HandlerPCs
  <2>5. handler' = [handler EXCEPT ![t] = h]
    BY <1>1, <2>1 DEF BindingTypeOK
  <2> HIDE DEF h
  <2> QED
    BY <1>1, <2>2, <2>3, <2>4, <2>5, MoveKeeps DEF BindPCs
<1>4. CASE GetData(t)
  <2>1. /\ handler[t].pc \in {"getData", "fetchData"}
        /\ bindData[handler[t].inst] # Nil
    BY <1>4 DEF GetData, At
  <2>2. PICK creds \in Lives : creds = bindData[handler[t].inst]
    BY <2>1 DEF BindInv, HandlerInv, BindingTypeOK
  <2>3. handler' = [handler EXCEPT ![t].pc = "removeData", ![t].creds = creds]
    BY <1>4, <2>2 DEF GetData
  <2>4. Patient => creds = instances[handler[t].inst]
    BY <2>1, <2>2 DEF BindInv, HandlerInv, LifeInv, DataOfInstance
  <2> DEFINE h == [handler[t] EXCEPT !.pc = "removeData", !.creds = creds]
  <2>5. /\ h \in Handler
        /\ h.pc = "removeData" /\ h.inst = handler[t].inst /\ h.bind = handler[t].bind
        /\ h.plan = handler[t].plan /\ h.creds = creds
    BY <1>1 DEF Handler, HandlerPCs
  <2>6. handler' = [handler EXCEPT ![t] = h]
    BY <1>1, <2>3 DEF BindingTypeOK
  <2> HIDE DEF h
  <2> QED
    BY <1>1, <2>1, <2>4, <2>5, <2>6, MoveKeeps DEF BindPCs
<1>5. CASE PrepareBindOperation(t)
  <2>1. handler[t].pc = "isBound"
    BY <1>5 DEF PrepareBindOperation, At
  <2>2. PICK id \in OpIDs : /\ bindOps[id] = Nil
                            /\ handler' = [handler EXCEPT ![t].pc = "insert", ![t].op = id]
    BY <1>5 DEF PrepareBindOperation
  <2> DEFINE h == [handler[t] EXCEPT !.pc = "insert", !.op = id]
  <2>3. /\ h \in Handler
        /\ h.pc = "insert" /\ h.inst = handler[t].inst /\ h.bind = handler[t].bind
        /\ h.plan = handler[t].plan /\ h.op = id
    BY <1>1 DEF Handler, HandlerPCs
  <2>4. handler' = [handler EXCEPT ![t] = h]
    BY <1>1, <2>2 DEF BindingTypeOK
  <2> HIDE DEF h
  <2>5. bindOps[id] = Nil
    BY <2>2
  <2> QED
    BY <1>1, <2>1, <2>3, <2>4, <2>5, MoveKeeps DEF BindPCs
<1>6. CASE CheckInEtcd(t)
  <2>1. /\ handler[t].pc = "insert" /\ Goto(t, "put")
        /\ ~isOperationInProgress(handler[t].inst, handler[t].bind)
    BY <1>6 DEF CheckInEtcd, At
  <2>2. handler[t].op \in OpIDs /\ bindOps[handler[t].op] = Nil
    BY <2>1 DEF BindInv, HandlerInv, OperationInv
  <2>3. PICK h \in Handler :
          /\ handler' = [handler EXCEPT ![t] = h]
          /\ h.pc = "put" /\ h.inst = handler[t].inst /\ h.bind = handler[t].bind
          /\ h.plan = handler[t].plan /\ h.op = handler[t].op
    BY <1>1, <2>1, GotoFacts
  <2> QED
    BY <1>1, <2>1, <2>2, <2>3, MoveKeeps DEF BindPCs
<1>7. CASE CheckFetch(t)
  <2>1. handler[t].pc = "fetch" /\ Goto(t, "fetchData")
    BY <1>7 DEF CheckFetch, At
  <2>2. PICK h \in Handler :
          /\ handler' = [handler EXCEPT ![t] = h]
          /\ h.pc = "fetchData" /\ h.inst = handler[t].inst /\ h.bind = handler[t].bind
          /\ h.plan = handler[t].plan
    BY <1>1, <2>1, GotoFacts
  <2> QED
    BY <1>1, <2>1, <2>2, MoveKeeps DEF BindPCs
<1> QED
  BY <1>2, <1>3, <1>4, <1>5, <1>6, <1>7

(* Every step in which a request is answered and no operation is touched.  *)
LEMMA AnswersKeep ==
  ASSUME BindInv, NEW t \in Threads,
         \/ AnswerBinding(t) \/ RejectAgain(t) \/ AnswerNoData(t) \/ AnswerCredentials(t)
         \/ RejectBind(t) \/ RejectInsert(t) \/ RejectInput(t) \/ AnswerFetchLater(t)
  PROVE  BindInv'
<1>1. /\ handler[t].pc # "idle" /\ Answer(t)
      /\ UNCHANGED <<bindOps, routine, envVars>>
  BY DEF AnswerBinding, RejectAgain, AnswerNoData, AnswerCredentials, RejectBind,
     RejectInsert, RejectInput, AnswerFetchLater, At
<1>2. faults' \in 0..MaxFaults
  BY DEF BindInv, BindingTypeOK, AnswerBinding, RejectAgain, AnswerNoData, AnswerCredentials,
     RejectBind, RejectInsert, RejectInput, AnswerFetchLater
<1>3. \/ UNCHANGED bindData
      \/ bindData' = [bindData EXCEPT ![handler[t].inst] = Nil]
  BY DEF AnswerBinding, RejectAgain, AnswerNoData, AnswerCredentials, RejectBind,
     RejectInsert, RejectInput, AnswerFetchLater
<1> QED
  BY <1>1, <1>2, <1>3, AnswerKeeps

(* Every step of a request, an error of etcd included.                     *)
LEMMA HandlerStepKeeps ==
  ASSUME BindInv, NEW t \in Threads, HandlerStep(t) \/ HandlerFails(t)
  PROVE  BindInv'
<1>0. BindingTypeOK
  BY DEF BindInv
<1>1. CASE StartAgain(t)
  BY <1>1, StartKeeps DEF StartAgain, At
<1>2. CASE StartBinding(t)
  BY <1>2, StartKeeps DEF StartBinding, At
<1>3. CASE InsertInMemory(t)
  BY <1>0, <1>3, PutKeeps DEF InsertInMemory, At, BindingTypeOK
<1>4. CASE PutInEtcd(t)
  BY <1>0, <1>4, PutKeeps DEF PutInEtcd, At, BindingTypeOK, BindInv, OperationInv
<1>5. CASE HandlerFails(t)
  <2>1. /\ handler[t].pc # "idle" /\ Answer(t)
        /\ UNCHANGED <<bindData, routine, envVars>> /\ faults' \in 0..MaxFaults
    BY <1>0, <1>5, ConstantsAssumption DEF HandlerFails, Fault, BindingTypeOK
  <2>2. CASE UNCHANGED bindOps
    BY <2>1, <2>2, AnswerKeeps
  <2>3. CASE At(t, "put") /\ putOperation(t)
    BY <2>1, <2>3, PutKeeps DEF At, BindInv, OperationInv
  <2> QED
    BY <1>5, <2>2, <2>3 DEF HandlerFails
<1> QED
  BY <1>1, <1>2, <1>3, <1>4, <1>5, MovesKeep, AnswersKeep DEF HandlerStep

(* A request comes in.                                                     *)
LEMMA RequestStepKeeps ==
  ASSUME BindInv, NEW t \in Threads, RequestStep(t)
  PROVE  BindInv'
<1>1. PICK i \in Instances, b \in Bindings :
        (\E p \in Plans : StartBind(t, i, b, p)) \/ StartFetch(t, i, b)
  BY DEF RequestStep
<1>2. CASE \E p \in Plans : StartBind(t, i, b, p)
  <2>1. PICK p \in Plans : StartBind(t, i, b, p)
    BY <1>2
  <2> DEFINE new == [pc |-> "isBindingInProgress", inst |-> i, bind |-> b,
                     plan |-> p, op |-> Nil, creds |-> Nil]
  <2>2. new \in Handler /\ new.pc = "isBindingInProgress"
        /\ new.inst = i /\ new.bind = b /\ new.plan = p
    BY DEF Handler, HandlerPCs
  <2>3. /\ handler[t].pc = "idle" /\ handler' = [handler EXCEPT ![t] = new]
        /\ PlatformAsks(i) /\ UNCHANGED <<bindOps, bindData, routine, faults, envVars>>
        /\ mu = Nil /\ mu' = t
        /\ "stray" \in Platform \/ (instances[i] # Nil /\ p \in Offered)
    BY <2>1 DEF StartBind, At
  <2> HIDE DEF new
  <2> QED
    BY <2>2, <2>3, EnterKeeps
<1>3. CASE StartFetch(t, i, b)
  <2> DEFINE new == [pc |-> "fetch", inst |-> i, bind |-> b,
                     plan |-> Nil, op |-> Nil, creds |-> Nil]
  <2>1. new \in Handler /\ new.pc = "fetch" /\ new.inst = i /\ new.bind = b
    BY DEF Handler, HandlerPCs
  <2>2. /\ handler[t].pc = "idle" /\ handler' = [handler EXCEPT ![t] = new]
        /\ PlatformAsks(i) /\ UNCHANGED <<bindOps, bindData, mu, routine, faults, envVars>>
    BY <1>3 DEF StartFetch, At
  <2> HIDE DEF new
  <2> QED
    BY <2>1, <2>2, EnterKeeps
<1> QED
  BY <1>1, <1>2, <1>3

-----------------------------------------------------------------------------
(* The broker starts with nothing stored and nothing under way.            *)
LEMMA BindInit == Init => BindInv
<1> SUFFICES ASSUME Init PROVE BindInv
  OBVIOUS
<1>1. BindingTypeOK
  BY IdleFacts, ConstantsAssumption DEF Init, BindingTypeOK
<1>2. /\ \A t \in Threads : handler[t] = Idle
      /\ \A g \in Routines : routine[g] = Nil
      /\ \A id \in OpIDs : bindOps[id] = Nil /\ ~InProgress(id)
      /\ \A i \in Instances : bindData[i] = Nil /\ removing[i] = Nil
  BY DEF Init, InProgress
<1>3. HandlerInv /\ OperationInv /\ OneBindingInProgress
  BY <1>2, IdleFacts DEF HandlerInv, BindPCs, OperationInv, OneBindingInProgress
<1>4. LifeInv
  BY <1>2, IdleFacts, NilAssumption DEF LifeInv, DataOfInstance
<1> QED
  BY <1>1, <1>3, <1>4 DEF BindInv

(* Every step of the broker and of the platform keeps the invariant.       *)
LEMMA BindNext == BindInv /\ [Next]_vars => BindInv'
<1> SUFFICES ASSUME BindInv, [Next]_vars PROVE BindInv'
  OBVIOUS
<1>1. CASE UNCHANGED vars
  <2> USE <1>1 DEF vars, BindInv
  <2>1. BindingTypeOK' /\ HandlerInv'
    BY DEF BindingTypeOK, HandlerInv
  <2>2. OperationInv' /\ OneBindingInProgress'
    BY OperationsUnchanged DEF OperationInv
  <2>3. Patient => LifeInv'
    BY DEF LifeInv, DataOfInstance, Busy
  <2> QED
    BY <2>1, <2>2, <2>3 DEF Patient
<1>2. CASE Next
  BY <1>2, RequestStepKeeps, HandlerStepKeeps, RoutineStepKeeps, InstanceStepKeeps,
     CrashKeeps DEF Next
<1> QED
  BY <1>1, <1>2

(* The invariant of the bindings, from which the theorems below follow.    *)
THEOREM Bindings_Invariant == Spec => []BindInv
  BY BindInit, BindNext, PTL DEF Spec

(* Every variable of the bindings keeps its type, whatever the platform,   *)
(* the driver and the number of threads and goroutines.                    *)
THEOREM Bindings_TypeOK == Spec => []BindingTypeOK
<1>1. BindInv => BindingTypeOK
  BY DEF BindInv
<1> QED
  BY <1>1, Bindings_Invariant, PTL

(* The mutex of bindService (bind.go:45) keeps Insert's get and put of     *)
(* etcd together with the checks before them: no binding, and with the     *)
(* in-memory driver no instance, has two operations in progress, whatever  *)
(* the platform sends and however often etcd fails or the broker restarts. *)
THEOREM Bindings_OneInProgress == Spec => []OneBindingInProgress
<1>1. BindInv => OneBindingInProgress
  BY DEF BindInv
<1> QED
  BY <1>1, Bindings_Invariant, PTL

(* A platform that removes no instance while a binding of it is served:    *)
(* the bind data held in memory are those of the instance as it is.        *)
THEOREM Bindings_DataOfInstance ==
  ASSUME Patient PROVE Spec => []DataOfInstance
<1>1. BindInv => DataOfInstance
  BY DEF BindInv, LifeInv
<1> QED
  BY <1>1, Bindings_Invariant, PTL

-----------------------------------------------------------------------------
(* Who leaves an operation behind.                                         *)

(* A step of a handler, unless it answers at "input".                      *)
LEMMA LeftByHandlers ==
  ASSUME BindInv, NEW t \in Threads, RequestStep(t) \/ HandlerStep(t),
         NEW id \in OpIDs, LeftBehind(id)',
         ~(handler[t].op = id /\ RejectInput(t))
  PROVE  LeftBehind(id)
<1>0. BindingTypeOK /\ HandlerInv
  BY DEF BindInv
<1>1. \A u \in Threads : u # t => handler'[u] = handler[u]
  BY <1>0 DEF BindingTypeOK, RequestStep, HandlerStep, StartBind, StartFetch, AnswerBinding,
     CheckBinding, CheckBound, StartAgain, RejectAgain, GetData, AnswerNoData, AnswerCredentials,
     PrepareBindOperation, RejectBind, RejectInsert, InsertInMemory, CheckInEtcd, PutInEtcd,
     StartBinding, RejectInput, AnswerFetchLater, CheckFetch, Goto, Answer
<1>2. CASE RequestStep(t)
  <2>1. UNCHANGED <<bindOps, routine>> /\ handler[t].pc = "idle"
    BY <1>2 DEF RequestStep, StartBind, StartFetch, At
  <2> QED
    BY <1>1, <2>1 DEF LeftBehind, InProgress, At
<1>3. CASE InsertInMemory(t) \/ PutInEtcd(t)
  <2>1. handler[t].op \in OpIDs /\ handler[t] \in Handler /\ handler[t].pc # "input"
    BY <1>0, <1>3 DEF HandlerInv, BindingTypeOK, InsertInMemory, PutInEtcd, At
  <2>2. putOperation(t) /\ Goto(t, "input") /\ UNCHANGED routine
    BY <1>3 DEF InsertInMemory, PutInEtcd
  <2>3. handler'[t] = [handler[t] EXCEPT !.pc = "input"]
    BY <1>0, <2>2 DEF Goto, BindingTypeOK
  <2>4. handler'[t].pc = "input" /\ handler'[t].op = handler[t].op
    BY <2>1, <2>3 DEF Handler
  <2>5. id # handler[t].op
    BY <2>4 DEF LeftBehind, At
  <2>6. bindOps'[id] = bindOps[id]
    BY <1>0, <2>2, <2>5 DEF putOperation, BindingTypeOK
  <2> QED
    BY <1>1, <2>1, <2>2, <2>6 DEF LeftBehind, InProgress, At
<1>4. CASE StartAgain(t) \/ StartBinding(t)
  <2>1. PICK g \in Routines :
          /\ routine[g] = Nil
          /\ routine' = [routine EXCEPT ![g] =
                           [pc |-> "render", op |-> handler[t].op, inst |-> handler[t].inst,
                            plan |-> handler[t].plan, life |-> instances[handler[t].inst]]]
    BY <1>4 DEF StartAgain, StartBinding, doAsync
  <2> DEFINE new == [pc |-> "render", op |-> handler[t].op, inst |-> handler[t].inst,
                     plan |-> handler[t].plan, life |-> instances[handler[t].inst]]
  <2>2. /\ routine'[g] = new
        /\ \A q \in Routines : q # g => routine'[q] = routine[q]
    BY <1>0, <2>1 DEF BindingTypeOK
  <2>3. new \in Routine
    <3>1. handler[t].pc \in {"inputAgain", "input"} /\ instances[handler[t].inst] # Nil
      BY <1>4 DEF StartAgain, StartBinding, At, HasInput
    <3> QED
      BY <1>0, <3>1 DEF Routine, HandlerInv, BindingTypeOK, BindPCs
  <2>4. routine'[g] # Nil /\ routine'[g].op = handler[t].op
    BY <2>2, <2>3, NilAssumption
  <2>5. id # handler[t].op
    BY <2>4 DEF LeftBehind
  <2>6. UNCHANGED bindOps
    BY <1>4 DEF StartAgain, StartBinding
  <2>7. \A q \in Routines : routine[q] # Nil => routine'[q] = routine[q]
    BY <2>1, <2>2
  <2> QED
    BY <1>1, <2>5, <2>6, <2>7 DEF LeftBehind, InProgress, At
<1>5. CASE RejectInput(t)
  <2>1. UNCHANGED <<bindOps, routine>> /\ handler[t].op # id
    BY <1>5 DEF RejectInput
  <2> QED
    BY <1>1, <2>1 DEF LeftBehind, InProgress, At
<1>6. CASE /\ HandlerStep(t)
           /\ ~(InsertInMemory(t) \/ PutInEtcd(t) \/ StartAgain(t) \/ StartBinding(t) \/ RejectInput(t))
  <2>1. UNCHANGED <<bindOps, routine>> /\ handler[t].pc # "input"
    BY <1>6 DEF HandlerStep, AnswerBinding, CheckBinding, CheckBound, RejectAgain, GetData,
       AnswerNoData, AnswerCredentials, PrepareBindOperation, RejectBind, RejectInsert,
       CheckInEtcd, AnswerFetchLater, CheckFetch, At
  <2> QED
    BY <1>1, <2>1 DEF LeftBehind, InProgress, At
<1> QED
  BY <1>2, <1>3, <1>4, <1>5, <1>6

(* A step of a goroutine: it goes on, or ends its operation.               *)
LEMMA LeftByRoutines ==
  ASSUME BindInv, NEW g \in Routines, RoutineStep(g), NEW id \in OpIDs, LeftBehind(id)'
  PROVE  LeftBehind(id)
<1>0. BindingTypeOK
  BY DEF BindInv
<1>1. UNCHANGED handler
  BY DEF RoutineStep, SkipRendering, renderAndResolveBindData, FailRendering, UpdateStateDesc
<1>2. routine[g] \in Routine /\ routine[g] # Nil
  BY <1>0 DEF RoutineStep, SkipRendering, renderAndResolveBindData, FailRendering,
     UpdateStateDesc, RoutineAt, BindingTypeOK
<1>3. CASE UpdateStateDesc(g)
  <2>1. PICK op \in OpIDs : op = routine[g].op /\ bindOps[op] \in BindOperation
    BY <1>0, <1>2 DEF Routine, BindInv, OperationInv, BindingTypeOK
  <2> DEFINE state == IF routine[g].pc = "succeed" THEN "succeeded" ELSE "failed"
  <2>2. bindOps' = [bindOps EXCEPT ![op].state = state]
    BY <1>3, <2>1 DEF UpdateStateDesc
  <2>3. bindOps'[op] = [bindOps[op] EXCEPT !.state = state]
        /\ \A o \in OpIDs : o # op => bindOps'[o] = bindOps[o]
    BY <1>0, <2>1, <2>2 DEF BindingTypeOK
  <2>4. bindOps'[op].state = state
    BY <2>1, <2>3 DEF BindOperation
  <2>5. id # op
    BY <2>4 DEF LeftBehind, InProgress
  <2>6. \A q \in Routines : q # g => routine'[q] = routine[q]
    BY <1>0, <1>3 DEF UpdateStateDesc, BindingTypeOK
  <2> QED
    BY <1>1, <2>1, <2>3, <2>5, <2>6 DEF LeftBehind, InProgress, At
<1>4. ASSUME NEW pc \in {"succeed", "fail"}, RoutineGoto(g, pc), UNCHANGED bindOps
      PROVE  LeftBehind(id)
  <2>1. routine'[g] = [routine[g] EXCEPT !.pc = pc]
        /\ \A q \in Routines : q # g => routine'[q] = routine[q]
    BY <1>0, <1>4 DEF RoutineGoto, BindingTypeOK
  <2>2. [routine[g] EXCEPT !.pc = pc] \in Routine
    BY <1>2, <1>4 DEF Routine
  <2>3. routine'[g] # Nil /\ routine'[g].op = routine[g].op
    BY <1>2, <2>1, <2>2, NilAssumption DEF Routine
  <2>4. \A q \in Routines : routine[q] # Nil => routine'[q] # Nil /\ routine'[q].op = routine[q].op
    BY <2>1, <2>3
  <2> QED
    BY <1>1, <1>4, <2>4 DEF LeftBehind, InProgress, At
<1> QED
  BY <1>3, <1>4 DEF RoutineStep, SkipRendering, renderAndResolveBindData, FailRendering

(* Whatever the platform sends, the driver and the number of restarts and  *)
(* errors: a bind operation that is reported as running is left without a  *)
(* goroutine only by a restart, a failed call to etcd, or the return of    *)
(* Bind for an instance, addon or plan that is missing (bind.go:105).      *)
THEOREM Bindings_LeftByFailure == Spec => BindingLeftByFailure
<1>1. ASSUME BindInv, Next, NEW id \in OpIDs, ~LeftBehind(id), LeftBehind(id)'
      PROVE  \/ crashes' > crashes
             \/ faults' > faults
             \/ \E t \in Threads : handler[t].op = id /\ RejectInput(t)
  <2>1. crashes \in Nat /\ faults \in Nat
    BY <1>1, ConstantsAssumption DEF BindInv, BindingTypeOK
  <2>2. CASE Crash
    BY <2>1, <2>2 DEF Crash
  <2>3. CASE (\E t \in Threads : HandlerFails(t)) \/ (\E g \in Routines : UpdateFails(g))
    <3>1. Fault
      BY <2>3 DEF HandlerFails, UpdateFails
    <3> QED
      BY <2>1, <3>1 DEF Fault
  <2>4. ASSUME NEW t \in Threads, RequestStep(t) \/ HandlerStep(t)
        PROVE  handler[t].op = id /\ RejectInput(t)
    BY <1>1, <2>4, LeftByHandlers
  <2>5. \A g \in Routines : ~RoutineStep(g)
    BY <1>1, LeftByRoutines
  <2>6. ASSUME NEW i \in Instances, InstanceStep(i)
        PROVE  FALSE
    <3>1. UNCHANGED <<bindOps, routine, handler>>
      BY <2>6 DEF InstanceStep, ProvisionInstance, StartRemoval, RemoveBindData, RemoveInstance
    <3> QED
      BY <1>1, <3>1 DEF LeftBehind, InProgress, At
  <2> QED
    BY <1>1, <2>2, <2>3, <2>4, <2>5, <2>6 DEF Next
<1>2. BindInv /\ [Next]_vars =>
        [\A id \in OpIDs : ~LeftBehind(id) /\ LeftBehind(id)' =>
           \/ crashes' > crashes
           \/ faults' > faults
           \/ \E t \in Threads : handler[t].op = id /\ RejectInput(t)]_vars
  BY <1>1
<1> QED
  BY <1>2, Bindings_Invariant, PTL DEF Spec, BindingLeftByFailure
=============================================================================
