---------------------------- MODULE OperationLog ----------------------------
(***************************************************************************)
(* What the broker promises about the operations it reports through        *)
(* last_operation, independently of how requests, goroutines and storage   *)
(* calls interleave: an operation enters the log as "in progress", ends    *)
(* once, never changes afterwards, and is never started next to another    *)
(* operation of its own kind on the same service instance.  When the log   *)
(* is Exclusive it is not started next to any running operation of that    *)
(* instance.  A Volatile log (the in-memory driver) is lost on a restart.  *)
(***************************************************************************)
CONSTANTS OpIDs,      \* identifiers of operations
          Instances,  \* identifiers of service instances
          NoOp,       \* the value of an identifier that is not in the log
          Exclusive,  \* TRUE: one running operation per instance
          Volatile    \* TRUE: a restart loses the log

VARIABLE log          \* log[id]: the operation stored under id, or NoOp

OpTypes == {"create", "remove"}
OpStates == {"in progress", "succeeded", "failed"}
Operation == [inst : Instances, type : OpTypes, state : OpStates]

Running(i, type) == \E id \in OpIDs :
                      log[id] = [inst |-> i, type |-> type, state |-> "in progress"]

LogTypeOK == log \in [OpIDs -> Operation \cup {NoOp}]

LogInit == log \in [OpIDs -> {o \in Operation : o.state = "succeeded"} \cup {NoOp}]

Open(id, i, type) ==
  /\ log[id] = NoOp
  /\ ~Running(i, type)
  /\ Exclusive => \A other \in OpTypes : ~Running(i, other)
  /\ log' = [log EXCEPT ![id] = [inst |-> i, type |-> type, state |-> "in progress"]]

Close(id, state) ==
  /\ log[id] # NoOp
  /\ log[id].state = "in progress"
  /\ log' = [log EXCEPT ![id].state = state]

Lose ==
  /\ Volatile
  /\ log' = [id \in OpIDs |-> NoOp]

LogNext ==
  \/ \E id \in OpIDs, i \in Instances, type \in OpTypes : Open(id, i, type)
  \/ \E id \in OpIDs, state \in {"succeeded", "failed"} : Close(id, state)
  \/ Lose

LogSpec == LogInit /\ [][LogNext]_log
=============================================================================
