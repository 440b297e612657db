------------------------------- MODULE Store -------------------------------
(***************************************************************************)
(* The durable store behind the engine: one row per workflow execution and *)
(* one append-only event history per workflow (internal/store).  Input,    *)
(* result, timestamps and the version column are data no caller branches   *)
(* on and are left out; an event keeps its type and, in "ref", the one     *)
(* datum of its payload that replay compares (the timer id), else 0.       *)
(*                                                                         *)
(* Each operator is one call of the Store interface.  MemoryStore never    *)
(* fails once the row exists; PostgresStore can (lost connection, expired  *)
(* context, idx collision), and then the call changes nothing and returns  *)
(* an error.  "faults" counts such failures, at most MaxFaults of them, so *)
(* MaxFaults = 0 is MemoryStore.                                           *)
(***************************************************************************)
EXTENDS Naturals, Sequences

CONSTANTS Workflow,    \* workflow ids
          MaxFaults    \* bound on failing store and queue calls

ASSUME MaxFaultsAssumption == MaxFaults \in Nat

VARIABLES status,      \* workflow_executions.status, "none" without a row
          history,     \* workflow_events, in idx order
          faults       \* failed calls so far

storeVars == <<status, history, faults>>

Status == {"none", "RUNNING", "COMPLETED", "FAILED", "CANCELED", "TIMED_OUT"}

EventType ==
  {"WorkflowStarted", "WorkflowCompleted", "WorkflowFailed",
   "ActivityScheduled", "ActivityCompleted", "ActivityFailed",
   "ActivityRetryScheduled", "TimerScheduled", "TimerFired",
   "SignalReceived", "WorkflowTimedOut", "WorkflowCancelRequested",
   "WorkflowCanceled", "WorkflowTaskYielded"}

Event == [type : EventType, ref : Nat]

Ev(type) == [type |-> type, ref |-> 0]

EvOf(type, ref) == [type |-> type, ref |-> ref]

StoreInit ==
  /\ status = [w \in Workflow |-> "none"]
  /\ history = [w \in Workflow |-> <<>>]
  /\ faults = 0

StoreTypeOK ==
  /\ status \in [Workflow -> Status]
  /\ history \in [Workflow -> Seq(Event)]
  /\ faults \in 0 .. MaxFaults

(* A call that returns an error.                                           *)
Fault == faults < MaxFaults /\ faults' = faults + 1

NoFault == faults' = faults

CreateWorkflow(w) ==
  /\ status[w] = "none"
  /\ status' = [status EXCEPT ![w] = "RUNNING"]
  /\ UNCHANGED history

(* The new event gets idx = number of events + 1.                          *)
AppendEvent(w, e) ==
  /\ status[w] # "none"
  /\ history' = [history EXCEPT ![w] = Append(@, e)]

(* Unconditional: the row's present status is not looked at.               *)
CompleteWorkflow(w, s) ==
  /\ status[w] # "none"
  /\ status' = [status EXCEPT ![w] = s]

(* An append whose error the caller drops (`_ = store.AppendEvent`) or     *)
(* only logs.                                                              *)
TryAppendEvent(w, e) ==
  \/ AppendEvent(w, e) /\ NoFault
  \/ UNCHANGED history /\ Fault

TryCompleteWorkflow(w, s) ==
  \/ CompleteWorkflow(w, s) /\ NoFault
  \/ UNCHANGED status /\ Fault

=============================================================================
