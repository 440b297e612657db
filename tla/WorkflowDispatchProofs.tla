----------------------- MODULE WorkflowDispatchProofs -----------------------
(***************************************************************************)
(* Proofs about WorkflowDispatch, for every set of workflows, every        *)
(* workflow function and every bound: its types, the rights to dispatch a  *)
(* workflow, and what a step does to the histories, the runs and the ids,  *)
(* which the modules that extend this one build on.                        *)
(***************************************************************************)
EXTENDS WorkflowDispatch, FiniteSetTheorems, WellFoundedInduction, TLAPS

(* A leaf goes to Zenon unless it names another prover.                    *)
USE Zenon

-----------------------------------------------------------------------------
(* The scans of the replay code return a position or 0.                    *)

LEMMA MinNat ==
  ASSUME NEW S \in SUBSET Nat, S # {}
  PROVE  Min(S) \in S /\ \A y \in S : Min(S) <= y
<1>1. PICK m \in S : \A y \in S : <<y, m>> \notin OpToRel(<, Nat)
  BY NatLessThanWellFounded, WFMin
<1>2. \A y \in S : ~(y < m)
  BY <1>1 DEF OpToRel
<1>3. \A y \in S : m <= y
  BY <1>2, SMT
<1> QED  BY <1>3 DEF Min

LEMMA FirstNat ==
  ASSUME NEW S \in SUBSET Nat
  PROVE  First(S) \in Nat
BY MinNat DEF First

LEMMA InitType == Init => TypeOK
BY MaxFaultsAssumption, DispatchAssumption, SMT
   DEF Init, TypeOK, StoreInit, QueueInit, TimerInit, StoreTypeOK, TimerTypeOK,
       Status, Entry, StartStep, SignalStep, CancelStep

(* Store and queue calls keep their types.                                 *)

LEMMA FaultType ==
  ASSUME StoreTypeOK, Fault
  PROVE  faults' \in 0 .. MaxFaults
BY MaxFaultsAssumption, SMT DEF StoreTypeOK, Fault

LEMMA AppendType ==
  ASSUME StoreTypeOK, NEW w \in Workflow, NEW e \in Event,
         history' = [history EXCEPT ![w] = Append(@, e)]
  PROVE  history' \in [Workflow -> Seq(Event)]
BY SMT DEF StoreTypeOK

LEMMA TryAppendType ==
  ASSUME StoreTypeOK, NEW w \in Workflow, NEW e \in Event, TryAppendEvent(w, e)
  PROVE  history' \in [Workflow -> Seq(Event)] /\ faults' \in 0 .. MaxFaults
BY AppendType, FaultType DEF TryAppendEvent, AppendEvent, NoFault, StoreTypeOK

LEMMA EventTypes ==
  /\ \A type \in EventType : Ev(type) \in Event
  /\ \A type \in EventType, ref \in Nat : EvOf(type, ref) \in Event
BY DEF Ev, EvOf, Event

LEMMA EnqueueType ==
  ASSUME stream \in Seq(Entry), nextId \in Nat \ {0}, NEW body \in Envelope, Enqueue(body)
  PROVE  stream' \in Seq(Entry) /\ nextId' \in Nat \ {0}
BY SMT DEF Enqueue, Entry

LEMMA TryEnqueueType ==
  ASSUME StoreTypeOK, stream \in Seq(Entry), nextId \in Nat \ {0},
         NEW body \in Envelope, TryEnqueue(body)
  PROVE  stream' \in Seq(Entry) /\ nextId' \in Nat \ {0} /\ faults' \in 0 .. MaxFaults
BY EnqueueType, FaultType DEF TryEnqueue, NoFault, StoreTypeOK

LEMMA InsertType ==
  ASSUME TimerTypeOK, NEW t \in Timer, InsertTimer(t)
  PROVE  TimerTypeOK'
BY SMT DEF TimerTypeOK, InsertTimer, ArmStep

(* Every way a run moves on keeps it a run.                                *)
LEMMA RunType ==
  ASSUME NEW r \in Run, NEW c \in Nat, NEW t \in Nat, NEW out \in Outcome,
         NEW b \in BOOLEAN
  PROVE  /\ [r EXCEPT !.k = @ + 1, !.cursor = c] \in Run
         /\ [r EXCEPT !.k = @ + 1] \in Run
         /\ [r EXCEPT !.k = @ + 1, !.sched = b] \in Run
         /\ [r EXCEPT !.k = @ + 1, !.timer = t, !.sched = b] \in Run
         /\ [r EXCEPT !.timer = t, !.out = out] \in Run
         /\ [r EXCEPT !.out = out] \in Run
         /\ [r EXCEPT !.timer = t] \in Run
         /\ [r EXCEPT !.sched = b] \in Run
<1>1. r.k + 1 \in Nat
  BY SMT DEF Run
<1>2. out \in Outcome \cup {"none"}
  OBVIOUS
<1>3. [r EXCEPT !.k = @ + 1, !.cursor = c] \in Run
  BY <1>1 DEF Run
<1>4. [r EXCEPT !.k = @ + 1, !.sched = b] \in Run
  BY <1>1 DEF Run
<1>5. [r EXCEPT !.k = @ + 1, !.timer = t, !.sched = b] \in Run
  BY <1>1 DEF Run
<1>6. [r EXCEPT !.timer = t, !.out = out] \in Run
  BY <1>2 DEF Run
<1>7. [r EXCEPT !.k = @ + 1] \in Run /\ [r EXCEPT !.out = out] \in Run
  BY <1>1, <1>2 DEF Run
<1>8. [r EXCEPT !.timer = t] \in Run /\ [r EXCEPT !.sched = b] \in Run
  BY DEF Run
<1> QED  BY <1>3, <1>4, <1>5, <1>6, <1>7, <1>8

LEMMA CountType ==
  ASSUME NEW f \in [Workflow -> Nat], NEW w \in Workflow
  PROVE  [f EXCEPT ![w] = @ + 1] \in [Workflow -> Nat]
BY SMT

LEMMA AckType ==
  ASSUME StoreTypeOK, pel \subseteq Entry, NEW id, TryAck(id)
  PROVE  pel' \subseteq Entry /\ faults' \in 0 .. MaxFaults
BY FaultType DEF TryAck, Ack, NoFault, StoreTypeOK

LEMMA StatusType ==
  ASSUME StoreTypeOK, NEW w \in Workflow, NEW s \in Status, TryCompleteWorkflow(w, s)
  PROVE  status' \in [Workflow -> Status] /\ faults' \in 0 .. MaxFaults
BY FaultType DEF TryCompleteWorkflow, CompleteWorkflow, NoFault, StoreTypeOK

LEMMA LoseType ==
  ASSUME losses \in 0 .. MaxLosses, NEW n \in Nat, Lose(n)
  PROVE  losses' \in 0 .. MaxLosses
BY DispatchAssumption, SMT DEF Lose

LEMMA NextType ==
  ASSUME TypeOK, Next
  PROVE  TypeOK'
<1>1. ASSUME NEW w \in Workflow, StartWorkflow(w) PROVE TypeOK'
  <2> USE <1>1
  <2> USE DEF TypeOK, storeVars, queueVars, timerVars, memVars, envVars
  <2>1. CASE StartCreate(w)
    BY <2>1 DEF StartCreate, CreateWorkflow, StoreTypeOK, TimerTypeOK, Status, StartStep
  <2>2. CASE StartAppend(w)
    <3>1. StoreTypeOK'
      BY <2>2, AppendType, FaultType, EventTypes
         DEF StartAppend, AppendEvent, NoFault, StoreTypeOK, EventType
    <3>2. startPc' \in [Workflow -> StartStep]
      BY <2>2 DEF StartAppend, StartStep
    <3> QED  BY <2>2, <3>1, <3>2 DEF StartAppend, TimerTypeOK
  <2>3. CASE StartEnqueue(w)
    <3>1. StoreTypeOK'
      BY <2>3, FaultType DEF StartEnqueue, NoFault, StoreTypeOK
    <3>2. stream' \in Seq(Entry) /\ nextId' \in Nat \ {0}
      BY <2>3, EnqueueType DEF StartEnqueue, Envelope
    <3>3. startPc' \in [Workflow -> StartStep]
      BY <2>3 DEF StartEnqueue, StartStep
    <3> QED  BY <2>3, <3>1, <3>2, <3>3 DEF StartEnqueue, TimerTypeOK
  <2>4. CASE StartTimeout(w)
    <3>1. StoreTypeOK'
      BY <2>4, FaultType DEF StartTimeout, NoFault, StoreTypeOK
    <3>2. TimerTypeOK'
      <4>1. [id |-> nextTimer, wf |-> w, kind |-> "timeout"] \in Timer
        BY DEF TimerTypeOK, Timer, Kind
      <4> QED  BY <2>4, <4>1, InsertType DEF StartTimeout, TimerTypeOK
    <3>3. startPc' \in [Workflow -> StartStep]
      BY <2>4 DEF StartTimeout, StartStep
    <3> QED  BY <2>4, <3>1, <3>2, <3>3 DEF StartTimeout
  <2> QED  BY <2>1, <2>2, <2>3, <2>4 DEF StartWorkflow
<1>2. ASSUME PollWorkflowTask PROVE TypeOK'
  <2> USE <1>2
  <2> USE DEF TypeOK, storeVars, queueVars, timerVars, memVars, envVars
  <2>1. ASSUME NEW i \in DOMAIN stream, PollDequeue(stream[i])
        PROVE  TypeOK'
    <3>1. stream # <<>> /\ stream[i] = Head(stream) /\ stream[i] \in Entry
      BY <2>1, SMT DEF PollDequeue, Dequeue
    <3>2. stream' \in Seq(Entry) /\ pel' \subseteq Entry
      BY <2>1, <3>1, SMT DEF PollDequeue, Dequeue
    <3>3. [id |-> stream[i].id, wf |-> stream[i].body.wf] \in PendingTask
      BY <3>1 DEF Entry, Envelope, PendingTask
    <3>4. pendingWfTasks' \subseteq PendingTask /\ polls' \subseteq Entry
      BY <2>1, <3>1, <3>3 DEF PollDequeue
    <3> QED  BY <2>1, <3>2, <3>4 DEF PollDequeue, StoreTypeOK, TimerTypeOK
  <2>3. ASSUME NEW i \in DOMAIN stream, PollDequeueFails(stream[i])
        PROVE  TypeOK'
    <3>1. stream # <<>> /\ stream[i] = Head(stream) /\ stream[i] \in Entry
      BY <2>3, SMT DEF PollDequeueFails, Dequeue
    <3>2. stream' \in Seq(Entry) /\ pel' \subseteq Entry
      BY <2>3, <3>1, SMT DEF PollDequeueFails, Dequeue
    <3> QED  BY <2>3, <3>2, FaultType DEF PollDequeueFails, StoreTypeOK, TimerTypeOK, callVars
  <2>2. ASSUME NEW e \in polls, PollRespond(e)
        PROVE  TypeOK'
    <3>1. StoreTypeOK'
      BY <2>2, FaultType DEF PollRespond, NoFault, StoreTypeOK
    <3>2. Len(history[e.body.wf]) \in Nat /\ e.id \in Nat /\ e.body.wf \in Workflow
      BY <2>2, SMT DEF StoreTypeOK, Entry, Envelope
    <3>3. \A seen \in Nat :
            [id |-> e.id, wf |-> e.body.wf, seen |-> seen, k |-> 1, cursor |-> 1,
             timer |-> 0, sched |-> FALSE, out |-> "none"] \in Run
      BY <3>2 DEF Run
    <3>4. running' \subseteq Run
      BY <2>2, <3>2, <3>3, SMT DEF PollRespond
    <3> QED  BY <2>2, <3>1, <3>4 DEF PollRespond, TimerTypeOK
  <2> QED  BY <2>1, <2>2, <2>3 DEF PollWorkflowTask
<1>3. ASSUME NEW r \in running, Worker(r) PROVE TypeOK'
  <2> USE <1>3
  <2>find. ASSUME NEW h, Len(h) \in Nat, NEW c \in Nat, NEW n
           PROVE  /\ findActivityScheduled(h, c, n) \in Nat
                  /\ findSignalReceived(h, c) \in Nat
                  /\ findTimerScheduled(h, c) \in Nat
                  /\ findTimerFired(h, n, c) \in Nat
    BY <2>find, FirstNat, SMT DEF findActivityScheduled, findSignalReceived, findTimerScheduled, findTimerFired
  <2>seen. Len(Snapshot(r)) \in Nat /\ r \in Run
    <3>1. r \in Run
      BY DEF TypeOK
    <3>2. r.seen \in Nat
      BY <3>1 DEF Run
    <3>3. Len(SubSeq(history[r.wf], 1, r.seen)) = r.seen
      BY <3>2, SMT
    <3> QED  BY <3>1, <3>2, <3>3 DEF Snapshot
  <2>advance. ASSUME NEW c \in Nat, NEW i \in Nat PROVE advance(c, i) \in Nat
    BY SMT DEF advance
  <2>becomes. ASSUME running \subseteq Run, NEW q \in Run, Becomes(r, q) PROVE running' \subseteq Run
    BY <2>becomes DEF Becomes
  <2> USE DEF TypeOK, storeVars, queueVars, timerVars, memVars, callVars, WorkerOnly
  <2>0. r \in Run /\ Len(Snapshot(r)) \in Nat /\ r.cursor \in Nat /\ r.wf \in Workflow
    BY <2>seen DEF Run
  <2>a. /\ \A c \in Nat : [r EXCEPT !.k = @ + 1, !.cursor = c] \in Run
        /\ [r EXCEPT !.k = @ + 1] \in Run
        /\ [r EXCEPT !.sched = TRUE] \in Run
        /\ [r EXCEPT !.k = @ + 1, !.sched = FALSE] \in Run
        /\ \A out \in Outcome : [r EXCEPT !.out = out] \in Run
    BY <2>0, RunType DEF Outcome
  <2>1. CASE WaitForSignal(r)
    <3>1. running' \subseteq Run
      BY <2>0, <2>a, <2>1, <2>find, <2>advance, <2>becomes DEF WaitForSignal, Outcome
    <3> QED  BY <2>1, <3>1 DEF WaitForSignal, StoreTypeOK, TimerTypeOK
  <2>2. CASE SleepReplayed(r)
    <3>1. running' \subseteq Run
      BY <2>0, <2>a, <2>2, <2>find, <2>advance, <2>becomes DEF SleepReplayed, Outcome
    <3> QED  BY <2>2, <3>1 DEF SleepReplayed, StoreTypeOK, TimerTypeOK
  <2>3. CASE SleepFresh(r)
    <3>1. StoreTypeOK'
      BY <2>3, FaultType DEF SleepFresh, NoFault, StoreTypeOK
    <3>2. TimerTypeOK'
      <4>1. nextTimer \in Nat
        BY DEF TimerTypeOK
      <4>2. [id |-> nextTimer, wf |-> r.wf, kind |-> "sleep"] \in Timer
        BY <2>0, <4>1 DEF Timer, Kind
      <4> QED  BY <2>3, <4>2, InsertType DEF SleepFresh, TimerTypeOK
    <3>3. running' \subseteq Run
      <4>1. nextTimer \in Nat
        BY DEF TimerTypeOK
      <4>2. [r EXCEPT !.timer = nextTimer] \in Run /\ [r EXCEPT !.k = @ + 1] \in Run
        BY <2>0, <4>1, RunType DEF Outcome
      <4> QED  BY <2>3, <4>2, <2>becomes DEF SleepFresh
    <3> QED  BY <2>3, <3>1, <3>2, <3>3 DEF SleepFresh
  <2>4. CASE QueueActivityReplayed(r)
    <3>1. running' \subseteq Run
      BY <2>0, <2>a, <2>4, <2>find, <2>advance, <2>becomes DEF QueueActivityReplayed
    <3> QED  BY <2>4, <3>1 DEF QueueActivityReplayed, StoreTypeOK, TimerTypeOK
  <2>5. CASE ScheduleActivityRecord(r)
    <3>1. EvOf("ActivityScheduled", ActivityName) \in Event
      BY EventTypes DEF ActivityName, EventType
    <3>2. StoreTypeOK'
      BY <2>0, <2>5, <3>1, AppendType, FaultType
         DEF ScheduleActivityRecord, AppendEvent, NoFault, StoreTypeOK
    <3>3. running' \subseteq Run
      BY <2>a, <2>5, <2>becomes DEF ScheduleActivityRecord
    <3> QED  BY <2>5, <3>2, <3>3 DEF ScheduleActivityRecord, TimerTypeOK
  <2>6. CASE ScheduleActivityEnqueue(r)
    <3>1. StoreTypeOK'
      BY <2>6, FaultType DEF ScheduleActivityEnqueue, NoFault, StoreTypeOK
    <3>2. running' \subseteq Run
      BY <2>a, <2>6, <2>becomes DEF ScheduleActivityEnqueue
    <3>3. activityTasks' \in [Workflow -> Nat]
      <4>1. activityTasks' \in {activityTasks, [activityTasks EXCEPT ![r.wf] = @ + 1]}
        BY <2>6 DEF ScheduleActivityEnqueue
      <4>2. activityTasks \in [Workflow -> Nat] /\ r.wf \in Workflow
        BY <2>0
      <4>3. [activityTasks EXCEPT ![r.wf] = @ + 1] \in [Workflow -> Nat]
        BY <4>2, CountType
      <4> QED  BY <4>1, <4>2, <4>3
    <3> QED  BY <2>6, <3>1, <3>2, <3>3 DEF ScheduleActivityEnqueue, TimerTypeOK
  <2>7. CASE FunctionReturns(r)
    <3>1. running' \subseteq Run
      BY <2>a, <2>7, <2>becomes DEF FunctionReturns, Outcome
    <3> QED  BY <2>7, <3>1 DEF FunctionReturns, StoreTypeOK, TimerTypeOK
  <2> QED  BY <2>1, <2>2, <2>3, <2>4, <2>5, <2>6, <2>7 DEF Worker
<1>4. ASSUME CompleteWorkflowTask PROVE TypeOK'
  <2> USE <1>4
  <2> USE DEF TypeOK, storeVars, queueVars, timerVars, memVars, envVars
  <2>1. ASSUME NEW r \in running, CompleteTake(r)
        PROVE  TypeOK'
    <3>1. [id |-> r.id, wf |-> r.wf, out |-> r.out, pc |-> "append"] \in Completion
      BY <2>1 DEF CompleteTake, DropTasks, Run, Completion
    <3>2. completing' \subseteq Completion
      BY <2>1, <3>1 DEF CompleteTake, DropTasks
    <3> QED  BY <2>1, <3>2 DEF CompleteTake, DropTasks, StoreTypeOK, TimerTypeOK
  <2>2. ASSUME NEW c \in completing, NEW pc \in {"append", "apply", "ack"}, Step(c, pc)
        PROVE  completing' \subseteq Completion
    BY <2>2 DEF Step, Completion
  <2>3. ASSUME NEW c \in completing, CompleteAppend(c)
        PROVE  TypeOK'
    <3>1. c.wf \in Workflow /\ Ev(OutcomeEvent(c.out)) \in Event
      BY EventTypes DEF Completion, Outcome, OutcomeEvent, EventType
    <3> QED  BY <2>2, <2>3, <3>1, TryAppendType DEF CompleteAppend, StoreTypeOK, TimerTypeOK
  <2>4. ASSUME NEW c \in completing, CompleteApply(c)
        PROVE  TypeOK'
    <3>1. c.wf \in Workflow
      BY DEF Completion
    <3>2. status' \in [Workflow -> Status] /\ faults' \in 0 .. MaxFaults
      BY <2>4, <3>1, StatusType DEF CompleteApply, MarkAwaitingDispatch, Status, StoreTypeOK
    <3> QED  BY <2>2, <2>4, <3>1, <3>2 DEF CompleteApply, MarkAwaitingDispatch, StoreTypeOK, TimerTypeOK
  <2>5. ASSUME NEW c \in completing, CompleteAck(c)
        PROVE  TypeOK'
    BY <2>5, AckType DEF CompleteAck, StoreTypeOK, TimerTypeOK
  <2> QED  BY <2>1, <2>3, <2>4, <2>5 DEF CompleteWorkflowTask
<1>5. ASSUME NEW s \in Signal, SignalWorkflow(s) PROVE TypeOK'
  <2> USE <1>5
  <2> USE DEF TypeOK, storeVars, queueVars, timerVars, memVars, envVars
  <2>0. s[1] \in Workflow
    BY DEF Signal
  <2>1. CASE SignalRecord(s)
    <3>1. StoreTypeOK'
      BY <2>0, <2>1, AppendType, FaultType, EventTypes
         DEF SignalRecord, AppendEvent, NoFault, StoreTypeOK, EventType
    <3>2. signalPc' \in [Signal -> SignalStep]
      BY <2>1 DEF SignalRecord, SignalStep
    <3> QED  BY <2>1, <3>1, <3>2 DEF SignalRecord, TimerTypeOK
  <2>2. CASE SignalClaim(s)
    <3>1. signalQueues' \in [Workflow -> Nat]
      BY <2>0, <2>2, CountType DEF SignalClaim, ClaimAwaitingDispatch
    <3>2. signalPc' \in [Signal -> SignalStep]
      BY <2>2 DEF SignalClaim, ClaimAwaitingDispatch, SignalStep
    <3> QED  BY <2>2, <3>1, <3>2 DEF SignalClaim, ClaimAwaitingDispatch, StoreTypeOK, TimerTypeOK
  <2>3. CASE SignalRedispatch(s)
    <3>1. signalPc' \in [Signal -> SignalStep]
      BY <2>3 DEF SignalRedispatch, SignalStep
    <3>2. [wf |-> s[1], input |-> TRUE] \in Envelope
      BY <2>0 DEF Envelope
    <3>3. stream' \in Seq(Entry) /\ nextId' \in Nat \ {0} /\ faults' \in 0 .. MaxFaults
      BY <2>3, <3>2, TryEnqueueType DEF SignalRedispatch, redispatchWorkflowTask
    <3> QED  BY <2>3, <3>1, <3>3 DEF SignalRedispatch, StoreTypeOK, TimerTypeOK
  <2> QED  BY <2>1, <2>2, <2>3 DEF SignalWorkflow
<1>6. ASSUME NEW c \in Cancel, CancelWorkflow(c) PROVE TypeOK'
  <2> USE <1>6
  <2> USE DEF TypeOK, storeVars, queueVars, timerVars, memVars, envVars
  <2>0. c[1] \in Workflow
    BY DEF Cancel
  <2>1. CASE CancelLookup(c)
    BY <2>1 DEF CancelLookup, CancelStep, StoreTypeOK, TimerTypeOK
  <2>2. CASE CancelMark(c)
    BY <2>0, <2>2 DEF CancelMark, CancelStep, StoreTypeOK, TimerTypeOK
  <2>3. CASE CancelRecord(c)
    <3>1. cancelPc' \in [Cancel -> CancelStep]
      BY <2>3 DEF CancelRecord, CancelStep
    <3>2. Ev("WorkflowCancelRequested") \in Event
      BY EventTypes DEF EventType
    <3> QED  BY <2>0, <2>3, <3>1, <3>2, TryAppendType DEF CancelRecord, StoreTypeOK, TimerTypeOK
  <2> QED  BY <2>1, <2>2, <2>3 DEF CancelWorkflow
<1>7. ASSUME ScheduleTimer PROVE TypeOK'
  <2> USE <1>7
  <2> USE DEF TypeOK, storeVars, queueVars, memVars, callVars, DispatchUnchanged
  <2> PICK a \in arming : TimerHook(a.timer) \/ TimerScheduled(a.timer)
    BY DEF ScheduleTimer
  <2>0. a.timer \in Timer /\ a.timer.id \in Nat /\ a.timer.wf \in Workflow
    BY DEF TimerTypeOK, Timer
  <2>1. CASE TimerHook(a.timer)
    <3>1. TimerTypeOK'
      BY <2>0, <2>1, SMT DEF TimerHook, HookCallback, TimerTypeOK, ArmStep
    <3> QED  BY <2>1, <3>1 DEF TimerHook, HookCallback, StoreTypeOK
  <2>2. CASE TimerScheduled(a.timer)
    <3>1. StoreTypeOK'
      BY <2>0, <2>2, TryAppendType, EventTypes
         DEF TimerScheduled, AppendTimerScheduled, StoreTypeOK, EventType
    <3>2. TimerTypeOK'
      BY <2>2 DEF TimerScheduled, AppendTimerScheduled, TimerTypeOK
    <3>3. \A r \in running : [r EXCEPT !.timer = 0, !.out = "yield"] \in Run
      BY RunType DEF Outcome
    <3>4. running' \subseteq Run
      BY <2>2, <3>3 DEF TimerScheduled
    <3> QED  BY <2>2, <3>1, <3>2, <3>4 DEF TimerScheduled
  <2> QED  BY <2>1, <2>2
<1>8. ASSUME fireDue PROVE TypeOK'
  <2> USE <1>8
  <2> USE DEF TypeOK, storeVars, queueVars, memVars, callVars, DispatchUnchanged
  <2>1. ASSUME NEW due \in SUBSET unfired, TimerFetch(due)
        PROVE  TypeOK'
    BY <2>1 DEF TimerFetch, FetchDueTimers, StoreTypeOK, TimerTypeOK
  <2>2. ASSUME NEW t \in firing, TimerFire(t)
        PROVE  TypeOK'
    <3>0. t \in Timer /\ t.id \in Nat /\ t.wf \in Workflow
      BY DEF TimerTypeOK, Timer
    <3>1. StoreTypeOK'
      BY <3>0, <2>2, TryAppendType, EventTypes DEF TimerFire, FireTimer, StoreTypeOK, EventType
    <3>2. TimerTypeOK'
      BY <3>0, <2>2, SMT DEF TimerFire, FireTimer, TimerTypeOK, CallbackPc
    <3> QED  BY <2>2, <3>1, <3>2 DEF TimerFire
  <2> QED  BY <2>1, <2>2 DEF fireDue
<1>9. ASSUME Callback PROVE TypeOK'
  <2> USE <1>9
  <2>goto. ASSUME TimerTypeOK, NEW g \in goroutines, NEW pc \in CallbackPc,
                  CallbackGoto(g, pc) \/ CallbackEnd(g),
                  UNCHANGED <<unfired, nextTimer, arming, callbacks, firing>>
           PROVE  TimerTypeOK'
    BY <2>goto DEF TimerTypeOK, CallbackGoto, CallbackEnd
  <2> USE DEF TypeOK, storeVars, queueVars, memVars, callVars, envVars
  <2> PICK g \in goroutines : \/ SleepClaim(g) \/ SleepRedispatch(g)
                              \/ TimeoutCheck(g) \/ TimeoutRecord(g) \/ TimeoutApply(g)
    BY DEF Callback
  <2>0. g.timer.wf \in Workflow
    BY DEF TimerTypeOK, Timer
  <2>1. CASE SleepClaim(g)
    <3>1. TimerTypeOK'
      BY <2>1, <2>goto DEF SleepClaim, ClaimAwaitingDispatch, CallbackPc
    <3> QED  BY <2>1, <3>1 DEF SleepClaim, ClaimAwaitingDispatch, StoreTypeOK
  <2>2. CASE SleepRedispatch(g)
    <3>1. TimerTypeOK'
      BY <2>2, <2>goto DEF SleepRedispatch, CallbackPc
    <3>2. [wf |-> g.timer.wf, input |-> TRUE] \in Envelope
      BY <2>0 DEF Envelope
    <3>3. stream' \in Seq(Entry) /\ nextId' \in Nat \ {0} /\ faults' \in 0 .. MaxFaults
      BY <2>2, <3>2, TryEnqueueType DEF SleepRedispatch, redispatchWorkflowTask
    <3> QED  BY <2>2, <3>1, <3>3 DEF SleepRedispatch, StoreTypeOK
  <2>3. CASE TimeoutCheck(g)
    <3>1. TimerTypeOK'
      BY <2>3, <2>goto DEF TimeoutCheck, CallbackPc
    <3>2. StoreTypeOK'
      BY <2>3, FaultType DEF TimeoutCheck, NoFault, StoreTypeOK
    <3> QED  BY <2>3, <3>1, <3>2 DEF TimeoutCheck
  <2>4. CASE TimeoutRecord(g)
    <3>1. TimerTypeOK'
      BY <2>4, <2>goto DEF TimeoutRecord, CallbackPc
    <3>2. Ev("WorkflowTimedOut") \in Event
      BY EventTypes DEF EventType
    <3>3. StoreTypeOK'
      BY <2>0, <2>4, <3>2, TryAppendType DEF TimeoutRecord, StoreTypeOK
    <3> QED  BY <2>4, <3>1, <3>3 DEF TimeoutRecord
  <2>5. CASE TimeoutApply(g)
    <3>1. TimerTypeOK'
      BY <2>5, <2>goto DEF TimeoutApply, CallbackPc
    <3>2. StoreTypeOK'
      BY <2>0, <2>5, StatusType DEF TimeoutApply, Status, StoreTypeOK
    <3> QED  BY <2>5, <3>1, <3>2 DEF TimeoutApply
  <2> QED  BY <2>1, <2>2, <2>3, <2>4, <2>5
<1>10. ASSUME reclaimExpired PROVE TypeOK'
  <2> USE <1>10
  <2> USE DEF TypeOK, storeVars, queueVars, timerVars, memVars, envVars
  <2>1. ASSUME NEW expired \in SUBSET pendingWfTasks, ReclaimCollect(expired)
        PROVE  TypeOK'
    <3>1. \A p \in expired : [id |-> p.id, wf |-> p.wf, by |-> "loop", pc |-> "ack"] \in Requeue
      BY DEF PendingTask, Requeue
    <3>2. requeueing' \subseteq Requeue
      BY <2>1, <3>1 DEF ReclaimCollect, DropTasks
    <3>3. losses' \in 0 .. MaxLosses
      BY <2>1, LoseType DEF ReclaimCollect, DropTasks
    <3> QED  BY <2>1, <3>2, <3>3 DEF ReclaimCollect, DropTasks, StoreTypeOK, TimerTypeOK
  <2>2. ASSUME NEW q \in requeueing, RequeueAck(q)
        PROVE  TypeOK'
    <3>1. requeueing' \subseteq Requeue
      BY <2>2 DEF RequeueAck, Requeue
    <3> QED  BY <2>2, <3>1, AckType DEF RequeueAck, StoreTypeOK, TimerTypeOK
  <2>3. ASSUME NEW q \in requeueing, RequeueEnqueue(q)
        PROVE  TypeOK'
    <3>1. [wf |-> q.wf, input |-> FALSE] \in Envelope
      BY DEF Requeue, Envelope
    <3>2. stream' \in Seq(Entry) /\ nextId' \in Nat \ {0} /\ faults' \in 0 .. MaxFaults
      BY <2>3, <3>1, TryEnqueueType DEF RequeueEnqueue
    <3> QED  BY <2>3, <3>2 DEF RequeueEnqueue, StoreTypeOK, TimerTypeOK
  <2> QED  BY <2>1, <2>2, <2>3 DEF reclaimExpired
<1>11. ASSUME Losses PROVE TypeOK'
  <2> USE <1>11
  <2> USE DEF TypeOK, storeVars, queueVars, timerVars, memVars, callVars
  <2>1. ASSUME NEW e \in polls, PollLost(e)
        PROVE  TypeOK'
    BY <2>1, LoseType DEF PollLost, StoreTypeOK, TimerTypeOK
  <2>2. ASSUME NEW e \in polls, StreamSendFails(e)
        PROVE  TypeOK'
    <3>1. [id |-> e.id, wf |-> e.body.wf, by |-> "stream", pc |-> "ack"] \in Requeue
      BY DEF Entry, Envelope, Requeue
    <3>2. requeueing' \subseteq Requeue
      BY <2>2, <3>1 DEF StreamSendFails, DropTasks
    <3>3. losses' \in 0 .. MaxLosses
      BY <2>2, LoseType DEF StreamSendFails, DropTasks
    <3> QED  BY <2>2, <3>2, <3>3 DEF StreamSendFails, DropTasks, StoreTypeOK, TimerTypeOK
  <2>3. ASSUME NEW r \in running, WorkerDies(r)
        PROVE  TypeOK'
    BY <2>3, LoseType DEF WorkerDies, StoreTypeOK, TimerTypeOK
  <2> QED  BY <2>1, <2>2, <2>3 DEF Losses
<1>12. ASSUME EngineCrash PROVE TypeOK'
  <2> USE <1>12
  <2>count. ASSUME crashes \in 0 .. MaxCrashes, crashes < MaxCrashes, crashes' = crashes + 1
            PROVE  crashes' \in 0 .. MaxCrashes
    <3> USE <2>count
    <3>1. MaxCrashes \in Nat
      BY DispatchAssumption
    <3> QED  BY <3>1, SMT
  <2> USE DEF TypeOK, storeVars, queueVars, EngineCrash
  <2>1. StoreTypeOK' /\ TimerTypeOK'
    BY DEF StoreTypeOK, TimerTypeOK, TimerCrash
  <2>2. startPc' \in [Workflow -> StartStep]
    BY DEF Abandon, StartStep
  <2>3. signalPc' \in [Signal -> SignalStep]
    BY DEF Abandon, SignalStep
  <2>4. cancelPc' \in [Cancel -> CancelStep]
    BY DEF Abandon, CancelStep
  <2>5. \A r \in running : [r EXCEPT !.k = @ + 1, !.timer = 0, !.sched = FALSE] \in Run
    BY RunType DEF Outcome
  <2>6. running' \subseteq Run
    BY <2>5
  <2>7. crashes' \in 0 .. MaxCrashes
    BY <2>count
  <2> QED  BY <2>1, <2>2, <2>3, <2>4, <2>6, <2>7
<1> QED  BY <1>1, <1>2, <1>3, <1>4, <1>5, <1>6, <1>7,
         <1>8, <1>9, <1>10, <1>11, <1>12
         DEF Next

(* Every variable keeps its type; in particular no counter leaves its      *)
(* bound and every event appended is one of the engine's event types.      *)
THEOREM TypeCorrect == Spec => []TypeOK
<1>1. TypeOK /\ [Next]_vars => TypeOK'
  <2> SUFFICES ASSUME TypeOK, [Next]_vars
               PROVE  TypeOK'
    OBVIOUS
  <2>1. CASE UNCHANGED vars
    BY <2>1 DEF vars, TypeOK, StoreTypeOK, TimerTypeOK, storeVars, queueVars,
                timerVars, memVars, callVars, envVars
  <2> QED  BY <2>1, NextType
<1> QED  BY <1>1, InitType, PTL DEF Spec

-----------------------------------------------------------------------------
(* A workflow has one right to run at a time, none once it finished, and   *)
(* does not lose it while no call fails and the engine lives.              *)
(*                                                                         *)
(* What a step may do to the rights of a workflow: leave them alone,       *)
(* exchange one for another, drop some because a call failed or the engine *)
(* died, give one up for an outcome in the history, or (CreateWorkflow)    *)
(* bring the first one into being.  A step that does one of these keeps    *)
(* the workflow safe (MoveSafe), and every action does one of these.       *)

(* Entry ids of the stream are fresh, so an entry is delivered once.       *)
StreamUnique ==
  /\ \A i \in DOMAIN stream : stream[i].id < nextId
  /\ \A i, j \in DOMAIN stream : stream[i].id = stream[j].id => i = j

Safe(w) ==
  /\ \A x, y \in Rights(w) : x = y
  /\ Finishes(w) # {} => Rights(w) = {}
  /\ \A i, j \in Finishes(w) : i = j
  /\ (status[w] = "none") <=> (startPc[w] = "idle")
  /\ status[w] = "none" => Rights(w) = {} /\ Finishes(w) = {}
  /\ faults = 0 /\ crashes = 0 /\ status[w] # "none" => Rights(w) # {} \/ Finishes(w) # {}

IInv == TypeOK /\ StreamUnique /\ \A w \in Workflow : Safe(w)

-----------------------------------------------------------------------------
(* What a step does to the rights of w.                                    *)

Keeps(w) == Rights(w)' = Rights(w) /\ Finishes(w)' = Finishes(w)

Exchanges(w) ==
  /\ \E x \in Rights(w) : \E y : Rights(w)' = (Rights(w) \ {x}) \cup {y}
  /\ Finishes(w)' = Finishes(w)

Drops(w) ==
  /\ faults' # 0 \/ crashes' # 0
  /\ Rights(w)' \subseteq Rights(w)
  /\ Finishes(w)' = Finishes(w)

Ends(w) ==
  /\ \E x \in Rights(w) : Rights(w)' = Rights(w) \ {x}
  /\ \E n : Finishes(w)' = Finishes(w) \cup {n}

Ages(w) ==
  /\ (status'[w] = "none") <=> (status[w] = "none")
  /\ (startPc'[w] = "idle") <=> (startPc[w] = "idle")

Born(w) ==
  /\ startPc[w] = "idle" /\ startPc'[w] # "idle" /\ status'[w] # "none"
  /\ \E y : Rights(w)' = Rights(w) \cup {y}
  /\ Finishes(w)' = Finishes(w)

Moves(w) == Ages(w) /\ (Keeps(w) \/ Exchanges(w) \/ Drops(w) \/ Ends(w))

Clock == faults' = 0 /\ crashes' = 0 => faults = 0 /\ crashes = 0

(* Those are the only moves, and each keeps the workflow safe.             *)
LEMMA MoveSafe ==
  ASSUME NEW w \in Workflow, Safe(w), Clock, Moves(w) \/ Born(w)
  PROVE  Safe(w)'
<1>1. CASE Ages(w) /\ Keeps(w)
  BY <1>1 DEF Safe, Ages, Keeps, Clock
<1>2. CASE Ages(w) /\ Exchanges(w)
  BY <1>2 DEF Safe, Ages, Exchanges, Clock
<1>3. CASE Ages(w) /\ Drops(w)
  BY <1>3 DEF Safe, Ages, Drops, Clock
<1>4. CASE Ages(w) /\ Ends(w)
  BY <1>4 DEF Safe, Ages, Ends, Clock
<1>5. CASE Born(w)
  BY <1>5 DEF Safe, Born, Clock
<1> QED  BY <1>1, <1>2, <1>3, <1>4, <1>5 DEF Moves

(* The parts of Rights(w) carry tags of their own.                         *)
LEMMA Tags ==
  ASSUME NEW w
  PROVE  /\ \A x \in Starting(w) : x[1] = "starting"
         /\ \A x \in Queued(w) : x[1] = "queued"
         /\ \A x \in Pending(w) : x[1] = "pending"
         /\ \A x \in Completing(w) : x[1] = "completing"
         /\ \A x \in Requeueing(w) : x[1] = "requeueing"
         /\ \A x \in Parked(w) : x[1] = "parked"
         /\ \A x \in Signalled(w) : x[1] = "signalled"
         /\ \A x \in Woken(w) : x[1] = "woken"
BY SMT DEF Starting, Queued, Pending, Completing, Requeueing, Parked, Signalled, Woken

(* A part changes only with the variable it is read from.                  *)
LEMMA Parts ==
  ASSUME NEW w
  PROVE  /\ startPc' = startPc => Starting(w)' = Starting(w)
         /\ stream' = stream => Queued(w)' = Queued(w)
         /\ pendingWfTasks' = pendingWfTasks => Pending(w)' = Pending(w)
         /\ completing' = completing => Completing(w)' = Completing(w)
         /\ requeueing' = requeueing => Requeueing(w)' = Requeueing(w)
         /\ awaiting' = awaiting => Parked(w)' = Parked(w)
         /\ signalPc' = signalPc => Signalled(w)' = Signalled(w)
         /\ goroutines' = goroutines => Woken(w)' = Woken(w)
BY DEF Starting, Queued, Pending, Completing, Requeueing, Parked, Signalled, Woken, Undecided

LEMMA QueuedAppend ==
  ASSUME NEW w, stream \in Seq(Entry), NEW body \in Envelope, Enqueue(body), nextId \in Nat
  PROVE  Queued(w)' = Queued(w) \cup (IF body.wf = w
                                        THEN {<<"queued", [id |-> nextId, body |-> body]>>}
                                        ELSE {})
<1> DEFINE z == [id |-> nextId, body |-> body]
<1>1. z \in Entry /\ z.body = body
  BY DEF Entry
<1>2. stream' = Append(stream, z)
  BY DEF Enqueue
<1> HIDE DEF z
<1>3. /\ DOMAIN stream' = DOMAIN stream \cup {Len(stream) + 1}
      /\ \A i \in DOMAIN stream : stream'[i] = stream[i]
      /\ stream'[Len(stream) + 1] = z
  BY <1>1, <1>2, SMT
<1>4. Queued(w)' = Queued(w) \cup (IF body.wf = w THEN {<<"queued", z>>} ELSE {})
  BY <1>1, <1>3 DEF Queued
<1> QED  BY <1>4 DEF z

LEMMA QueuedTail ==
  ASSUME NEW w, stream \in Seq(Entry), StreamUnique, stream # <<>>, stream' = Tail(stream)
  PROVE  /\ Head(stream).body.wf = w => <<"queued", Head(stream)>> \in Queued(w)
         /\ Queued(w)' = Queued(w) \ {<<"queued", Head(stream)>>}
<1>1. /\ 1 \in DOMAIN stream /\ Head(stream) = stream[1]
      /\ \A i \in DOMAIN stream' : i + 1 \in DOMAIN stream /\ i + 1 # 1 /\ stream'[i] = stream[i + 1]
      /\ \A i \in DOMAIN stream : i # 1 => i - 1 \in DOMAIN stream' /\ stream'[i - 1] = stream[i]
  BY SMT
<1>2. \A i \in DOMAIN stream : i # 1 => stream[i] # stream[1]
  BY <1>1 DEF StreamUnique
<1>3. Head(stream).body.wf = w => <<"queued", Head(stream)>> \in Queued(w)
  BY <1>1 DEF Queued
<1>4. ASSUME NEW x \in Queued(w)' PROVE x \in Queued(w) \ {<<"queued", Head(stream)>>}
  <2>1. PICK i \in DOMAIN stream' : x = <<"queued", stream'[i]>> /\ stream'[i].body.wf = w
    BY <1>4 DEF Queued
  <2>2. x = <<"queued", stream[i + 1]>> /\ stream[i + 1].body.wf = w
    BY <1>1, <2>1
  <2>3. x \in Queued(w)
    BY <1>1, <2>1, <2>2 DEF Queued
  <2> QED  BY <1>1, <1>2, <2>1, <2>2, <2>3, SMT
<1>5. ASSUME NEW x \in Queued(w), x # <<"queued", Head(stream)>> PROVE x \in Queued(w)'
  <2>1. PICK i \in DOMAIN stream : x = <<"queued", stream[i]>> /\ stream[i].body.wf = w
    BY <1>5 DEF Queued
  <2>2. i # 1
    BY <1>1, <1>5, <2>1
  <2>3. i - 1 \in DOMAIN stream' /\ stream'[i - 1] = stream[i]
    BY <1>1, <2>1, <2>2
  <2> QED  BY <2>1, <2>3 DEF Queued
<1> QED  BY <1>3, <1>4, <1>5

LEMMA EnqueueUnique ==
  ASSUME stream \in Seq(Entry), nextId \in Nat, StreamUnique,
         NEW body \in Envelope, Enqueue(body)
  PROVE  StreamUnique'
<1> DEFINE z == [id |-> nextId, body |-> body]
<1>1. z \in Entry /\ z.id = nextId
  BY DEF Entry
<1>2. stream' = Append(stream, z) /\ nextId' = nextId + 1
  BY DEF Enqueue
<1> HIDE DEF z
<1>3. /\ DOMAIN stream' = DOMAIN stream \cup {Len(stream) + 1}
      /\ \A i \in DOMAIN stream : stream'[i] = stream[i]
      /\ stream'[Len(stream) + 1] = z
  BY <1>1, <1>2, SMT
<1>4. ASSUME NEW i \in DOMAIN stream PROVE stream[i].id \in Nat
  <2>1. stream[i] \in Entry
    BY SMT
  <2> QED  BY <2>1 DEF Entry
<1> QED  BY <1>1, <1>2, <1>3, <1>4, SMT DEF StreamUnique

(* Only the outcome of a run adds to Finishes(w).                          *)
LEMMA FinishKept ==
  ASSUME StoreTypeOK, NEW v \in Workflow, NEW e \in Event, e.type \notin FinishEvents,
         TryAppendEvent(v, e) \/ AppendEvent(v, e), NEW w \in Workflow
  PROVE  Finishes(w)' = Finishes(w)
<1>1. CASE UNCHANGED history
  BY <1>1 DEF Finishes
<1>2. CASE history' = [history EXCEPT ![v] = Append(@, e)]
  <2>1. CASE v = w
    <3>1. /\ DOMAIN history'[w] = DOMAIN history[w] \cup {Len(history[w]) + 1}
          /\ \A i \in DOMAIN history[w] : history'[w][i] = history[w][i]
          /\ history'[w][Len(history[w]) + 1] = e
      BY <1>2, <2>1, SMT DEF StoreTypeOK
    <3> QED  BY <3>1 DEF Finishes
  <2>2. CASE v # w
    <3>1. history'[w] = history[w]
      BY <1>2, <2>2 DEF StoreTypeOK
    <3> QED  BY <3>1 DEF Finishes
  <2> QED  BY <2>1, <2>2
<1> QED  BY <1>1, <1>2 DEF TryAppendEvent, AppendEvent

LEMMA FinishAdded ==
  ASSUME StoreTypeOK, NEW v \in Workflow, NEW e \in Event, e.type \in FinishEvents,
         AppendEvent(v, e)
  PROVE  /\ \E n : Finishes(v)' = Finishes(v) \cup {n}
         /\ \A w \in Workflow : w # v => Finishes(w)' = Finishes(w)
<1>1. /\ DOMAIN history'[v] = DOMAIN history[v] \cup {Len(history[v]) + 1}
      /\ \A i \in DOMAIN history[v] : history'[v][i] = history[v][i]
      /\ history'[v][Len(history[v]) + 1] = e
  BY SMT DEF StoreTypeOK, AppendEvent
<1>2. Finishes(v)' = Finishes(v) \cup {Len(history[v]) + 1}
  BY <1>1 DEF Finishes
<1>3. \A w \in Workflow : w # v => history'[w] = history[w]
  BY DEF StoreTypeOK, AppendEvent
<1> QED  BY <1>2, <1>3 DEF Finishes

LEMMA FinishSame ==
  ASSUME NEW w, UNCHANGED history
  PROVE  Finishes(w)' = Finishes(w)
BY DEF Finishes

(* A row, once there, stays, and so does the call that made it.            *)
LEMMA AgesSame ==
  ASSUME StoreTypeOK, NEW w \in Workflow, UNCHANGED startPc,
         \/ UNCHANGED status
         \/ \E v \in Workflow, s \in Status \ {"none"} : TryCompleteWorkflow(v, s)
  PROVE  Ages(w)
BY DEF Ages, StoreTypeOK, TryCompleteWorkflow, CompleteWorkflow

(* A step that touches no part of Rights(w).                               *)
LEMMA Quiet ==
  ASSUME NEW w, Ages(w), Finishes(w)' = Finishes(w),
         UNCHANGED <<startPc, stream, pendingWfTasks, completing, requeueing, awaiting>>,
         Signalled(w)' = Signalled(w), Woken(w)' = Woken(w)
  PROVE  Moves(w)
BY Parts DEF Moves, Keeps, Rights

StepOK == Clock /\ StreamUnique' /\ \A w \in Workflow : Moves(w) \/ Born(w)

LEMMA FaultsOnly ==
  ASSUME TypeOK, NoFault \/ Fault, crashes' = crashes
  PROVE  Clock
BY SMT DEF TypeOK, StoreTypeOK, NoFault, Fault, Clock

LEMMA QueueSame ==
  ASSUME StreamUnique, UNCHANGED <<stream, nextId>>
  PROVE  StreamUnique'
BY DEF StreamUnique

Held(w) ==
  Starting(w) \cup Pending(w) \cup Completing(w) \cup Requeueing(w)
    \cup Parked(w) \cup Signalled(w) \cup Woken(w)

(* Putting a claimed workflow back on the queue, or failing to.            *)
LEMMA Redispatched ==
  ASSUME IInv, NEW v \in Workflow, NEW body \in Envelope, body.wf = v, TryEnqueue(body),
         NEW x \in Held(v), Held(v)' = Held(v) \ {x},
         \A w \in Workflow : w # v => Held(w)' = Held(w),
         UNCHANGED <<status, history, startPc, crashes>>
  PROVE  StepOK
<1>0. /\ TypeOK /\ StoreTypeOK /\ StreamUnique /\ stream \in Seq(Entry) /\ nextId \in Nat
  BY DEF IInv, TypeOK
<1>1. Clock /\ StreamUnique'
  BY <1>0, QueueSame, FaultsOnly, EnqueueUnique DEF TryEnqueue
<1>2. \A w : Rights(w) = Held(w) \cup Queued(w) /\ Rights(w)' = Held(w)' \cup Queued(w)'
  BY DEF Rights, Held
<1>3. x \notin Queued(v)
  BY Tags, SMT DEF Held
<1>4. ASSUME NEW w \in Workflow PROVE Moves(w)
  <2>1. Finishes(w)' = Finishes(w) /\ Ages(w)
    BY FinishSame DEF Ages
  <2>2. CASE UNCHANGED stream /\ Fault
    <3>1. Rights(w)' \subseteq Rights(w)
      BY <1>2, <2>2, Parts
    <3>2. faults' # 0
      BY <1>0, <2>2, SMT DEF Fault, StoreTypeOK
    <3> QED  BY <2>1, <3>1, <3>2 DEF Moves, Drops
  <2>3. CASE Enqueue(body)
    <3> DEFINE y == <<"queued", [id |-> nextId, body |-> body]>>
    <3>1. Queued(w)' = Queued(w) \cup (IF v = w THEN {y} ELSE {})
      BY <1>0, <2>3, QueuedAppend
    <3> HIDE DEF y
    <3>2. CASE w # v
      BY <1>2, <2>1, <3>1, <3>2 DEF Moves, Keeps
    <3>3. CASE w = v
      <4>1. x \in Rights(w) /\ Rights(w)' = (Rights(w) \ {x}) \cup {y}
        BY <1>2, <1>3, <3>1, <3>3, SMT
      <4> QED  BY <2>1, <4>1 DEF Moves, Exchanges
    <3> QED  BY <3>2, <3>3
  <2> QED  BY <2>2, <2>3 DEF TryEnqueue
<1> QED  BY <1>1, <1>4 DEF StepOK

(* ClaimAwaitingDispatch takes the parked right away, and no other.        *)
LEMMA ParkedClaim ==
  ASSUME NEW v, NEW w, ClaimAwaitingDispatch(v)
  PROVE  Parked(w)' = Parked(w) \ {<<"parked", v>>}
<1>1. CASE v = w
  BY <1>1 DEF ClaimAwaitingDispatch, Parked
<1>2. CASE v # w
  <2>1. <<"parked", w>> # <<"parked", v>>
    BY <1>2, SMT
  <2>2. (w \in awaiting') <=> (w \in awaiting)
    BY <1>2 DEF ClaimAwaitingDispatch
  <2> QED  BY <2>1, <2>2 DEF Parked
<1> QED  BY <1>1, <1>2

-----------------------------------------------------------------------------
(* Every action is one of the moves.                                       *)

-----------------------------------------------------------------------------
LEMMA InitSafe == Init => IInv
<1> SUFFICES ASSUME Init
             PROVE  IInv
  OBVIOUS
<1>1. TypeOK
  BY InitType
<1>2. StreamUnique
  <2>1. stream = <<>>
    BY DEF Init, QueueInit
  <2> QED  BY <2>1, SMT DEF StreamUnique
<1>3. ASSUME NEW w \in Workflow PROVE Safe(w)
  <2>1. Finishes(w) = {}
    BY SMT DEF Init, StoreInit, Finishes
  <2>2. Starting(w) = {} /\ Signalled(w) = {}
    BY DEF Init, Starting, Signalled
  <2>3. Queued(w) = {} /\ Woken(w) = {}
    BY SMT DEF Init, QueueInit, TimerInit, Queued, Woken
  <2>4. Pending(w) = {} /\ Completing(w) = {} /\ Requeueing(w) = {} /\ Parked(w) = {}
    BY DEF Init, Pending, Completing, Requeueing, Parked
  <2>5. Rights(w) = {}
    BY <2>2, <2>3, <2>4 DEF Rights
  <2> QED  BY <2>1, <2>5 DEF Safe, Init, StoreInit
<1> QED  BY <1>1, <1>2, <1>3 DEF IInv

LEMMA NextMoves ==
  ASSUME IInv, Next
  PROVE  StepOK
<1>1. ASSUME NEW v \in Workflow, StartWorkflow(v) PROVE StepOK
  <2> USE <1>1
  <2> USE DEF IInv, storeVars, queueVars, timerVars, memVars, envVars
  <2>0. TypeOK /\ StoreTypeOK /\ stream \in Seq(Entry) /\ nextId \in Nat /\ StreamUnique
        /\ startPc \in [Workflow -> StartStep] /\ status \in [Workflow -> Status]
        /\ \A w \in Workflow : Safe(w)
    BY DEF TypeOK, StoreTypeOK
  <2>1. CASE StartCreate(v)
    <3>1. Clock /\ StreamUnique'
      BY <2>1, QueueSame DEF StartCreate, Clock
    <3>2. Born(v)
      <4>1. Finishes(v)' = Finishes(v)
        BY <2>1 DEF StartCreate, CreateWorkflow, Finishes
      <4>2. Starting(v) = {} /\ Starting(v)' = {<<"starting", v>>}
        BY <2>0, <2>1 DEF StartCreate, Starting
      <4>3. Rights(v)' = Rights(v) \cup {<<"starting", v>>}
        BY <2>1, <4>2, Parts DEF StartCreate, Rights
      <4> QED  BY <2>0, <2>1, <4>1, <4>3 DEF StartCreate, CreateWorkflow, Born
    <3>3. ASSUME NEW w \in Workflow, w # v PROVE Moves(w)
      <4>1. Finishes(w)' = Finishes(w)
        BY <2>1 DEF StartCreate, CreateWorkflow, Finishes
      <4>2. Starting(w)' = Starting(w)
        BY <2>0, <2>1, <3>3 DEF StartCreate, Starting
      <4>3. Rights(w)' = Rights(w)
        BY <2>1, <4>2, Parts DEF StartCreate, Rights
      <4>4. Ages(w)
        BY <2>0, <2>1, <3>3 DEF StartCreate, CreateWorkflow, Ages
      <4> QED  BY <4>1, <4>3, <4>4 DEF Moves, Keeps
    <3> QED  BY <3>1, <3>2, <3>3 DEF StepOK
  <2>2. CASE StartAppend(v)
    <3>1. Clock /\ StreamUnique'
      BY <2>0, <2>2, QueueSame, FaultsOnly DEF StartAppend
    <3>2. ASSUME NEW w \in Workflow PROVE Moves(w)
      <4>1. Finishes(w)' = Finishes(w)
        <5>1. Ev("WorkflowStarted") \in Event /\ Ev("WorkflowStarted").type \notin FinishEvents
          BY EventTypes DEF EventType, Ev, FinishEvents
        <5> QED  BY <2>0, <2>2, <5>1, FinishKept, FinishSame DEF StartAppend
      <4>2. Ages(w)
        BY <2>0, <2>2 DEF StartAppend, Ages
      <4>3. CASE Starting(w)' = Starting(w)
        <5>1. Rights(w)' = Rights(w)
          BY <2>2, <4>3, Parts DEF StartAppend, Rights
        <5> QED  BY <4>1, <4>2, <5>1 DEF Moves, Keeps
      <4>4. CASE Starting(w)' # Starting(w)
        <5>1. Fault /\ Starting(w)' = {}
          BY <2>0, <2>2, <4>4 DEF StartAppend, Starting
        <5>2. Rights(w)' \subseteq Rights(w)
          BY <2>2, <5>1, Parts DEF StartAppend, Rights
        <5>3. faults' # 0
          BY <2>0, <5>1, SMT DEF Fault, StoreTypeOK
        <5> QED  BY <4>1, <4>2, <5>2, <5>3 DEF Moves, Drops
      <4> QED  BY <4>3, <4>4
    <3> QED  BY <3>1, <3>2 DEF StepOK
  <2>3. CASE StartEnqueue(v)
    <3>0. [wf |-> v, input |-> TRUE] \in Envelope
      BY DEF Envelope
    <3>1. Clock /\ StreamUnique'
      BY <2>0, <2>3, <3>0, QueueSame, FaultsOnly, EnqueueUnique DEF StartEnqueue
    <3>2. ASSUME NEW w \in Workflow PROVE Moves(w)
      <4>1. Finishes(w)' = Finishes(w)
        BY <2>3, FinishSame DEF StartEnqueue
      <4>2. Ages(w)
        BY <2>0, <2>3 DEF StartEnqueue, Ages
      <4>3. w # v => Starting(w)' = Starting(w)
        BY <2>0, <2>3 DEF StartEnqueue, Starting
      <4>4. w = v => Starting(w) = {<<"starting", v>>} /\ Starting(w)' = {}
        BY <2>0, <2>3 DEF StartEnqueue, Starting
      <4>5. CASE Fault /\ UNCHANGED stream
        <5>1. Rights(w)' \subseteq Rights(w)
          BY <2>3, <4>3, <4>4, <4>5, Parts DEF StartEnqueue, Rights
        <5>2. faults' # 0
          BY <2>0, <4>5, SMT DEF Fault, StoreTypeOK
        <5> QED  BY <4>1, <4>2, <5>1, <5>2 DEF Moves, Drops
      <4>6. CASE Enqueue([wf |-> v, input |-> TRUE])
        <5> DEFINE y == <<"queued", [id |-> nextId, body |-> [wf |-> v, input |-> TRUE]]>>
        <5>1. Queued(w)' = Queued(w) \cup (IF v = w THEN {y} ELSE {})
          BY <2>0, <3>0, <4>6, QueuedAppend
        <5> HIDE DEF y
        <5>2. CASE w # v
          <6>1. Rights(w)' = Rights(w)
            BY <2>3, <4>3, <5>1, <5>2, Parts DEF StartEnqueue, Rights
          <6> QED  BY <4>1, <4>2, <6>1 DEF Moves, Keeps
        <5>3. CASE w = v
          <6>1. Rights(w)' = (Rights(w) \ {<<"starting", v>>}) \cup {y}
            BY <2>3, <4>4, <5>1, <5>3, Parts, Tags, SMT DEF StartEnqueue, Rights
          <6>2. <<"starting", v>> \in Rights(w)
            BY <4>4, <5>3 DEF Rights
          <6> QED  BY <4>1, <4>2, <6>1, <6>2 DEF Moves, Exchanges
        <5> QED  BY <5>2, <5>3
      <4> QED  BY <2>3, <4>5, <4>6 DEF StartEnqueue
    <3> QED  BY <3>1, <3>2 DEF StepOK
  <2>4. CASE StartTimeout(v)
    <3>1. Clock /\ StreamUnique'
      BY <2>0, <2>4, QueueSame, FaultsOnly DEF StartTimeout
    <3>2. ASSUME NEW w \in Workflow PROVE Moves(w)
      <4>1. Finishes(w)' = Finishes(w)
        BY <2>4, FinishSame DEF StartTimeout
      <4>2. Ages(w)
        BY <2>0, <2>4 DEF StartTimeout, Ages
      <4>3. Starting(w)' = Starting(w) /\ goroutines' = goroutines
        BY <2>0, <2>4 DEF StartTimeout, Starting, InsertTimer
      <4>4. Rights(w)' = Rights(w)
        BY <2>4, <4>3, Parts DEF StartTimeout, Rights
      <4> QED  BY <4>1, <4>2, <4>4 DEF Moves, Keeps
    <3> QED  BY <3>1, <3>2 DEF StepOK
  <2> QED  BY <2>1, <2>2, <2>3, <2>4 DEF StartWorkflow
<1>2. ASSUME PollWorkflowTask PROVE StepOK
  <2> USE <1>2
  <2>tail. ASSUME stream \in Seq(Entry), StreamUnique, stream # <<>>, stream' = Tail(stream),
                  nextId' = nextId
           PROVE  StreamUnique'
    <3> USE <2>tail
    <3>1. \A i \in DOMAIN stream' : i + 1 \in DOMAIN stream /\ stream'[i] = stream[i + 1] /\ i \in Nat
      BY SMT
    <3> QED  BY <3>1, SMT DEF StreamUnique
  <2> USE DEF IInv, storeVars, queueVars, timerVars, memVars, callVars, envVars
  <2>0. TypeOK /\ StoreTypeOK /\ stream \in Seq(Entry) /\ StreamUnique
    BY DEF TypeOK
  <2>1. ASSUME NEW i \in DOMAIN stream, PollDequeue(stream[i])
        PROVE  StepOK
    <3> DEFINE e == Head(stream)
               x == <<"queued", e>>
               p == [id |-> e.id, wf |-> e.body.wf]
               y == <<"pending", p>>
    <3>0. /\ stream # <<>> /\ stream' = Tail(stream) /\ nextId' = nextId
          /\ pendingWfTasks' = pendingWfTasks \cup {p}
          /\ UNCHANGED <<storeVars, startPc, completing, requeueing, awaiting, signalPc,
                         goroutines, crashes>>
      BY <2>1 DEF PollDequeue, Dequeue
    <3>a. p.wf = e.body.wf
      OBVIOUS
    <3> HIDE DEF p
    <3>1. Clock /\ StreamUnique'
      BY <2>0, <3>0, <2>tail DEF Clock
    <3>2. ASSUME NEW w \in Workflow PROVE Moves(w)
      <4>1. Finishes(w)' = Finishes(w) /\ Ages(w)
        BY <3>0, FinishSame DEF Ages
      <4>2. Queued(w)' = Queued(w) \ {x} /\ (e.body.wf = w => x \in Queued(w))
        BY <2>0, <3>0, QueuedTail
      <4>3. Pending(w)' = Pending(w) \cup (IF e.body.wf = w THEN {y} ELSE {})
        BY <3>0, <3>a DEF Pending
      <4>4. CASE e.body.wf = w
        <5>1. x \in Rights(w) /\ Rights(w)' = (Rights(w) \ {x}) \cup {y}
          BY <3>0, <4>2, <4>3, <4>4, Parts, Tags, SMT DEF Rights
        <5> QED  BY <4>1, <5>1 DEF Moves, Exchanges
      <4>5. CASE e.body.wf # w
        <5>1. x \notin Queued(w)
          BY <4>5 DEF Queued
        <5>2. Rights(w)' = Rights(w)
          BY <3>0, <4>2, <4>3, <4>5, <5>1, Parts DEF Rights
        <5> QED  BY <4>1, <5>2 DEF Moves, Keeps
      <4> QED  BY <4>4, <4>5
    <3> QED  BY <3>1, <3>2 DEF StepOK
  <2>3. ASSUME NEW i \in DOMAIN stream, PollDequeueFails(stream[i])
        PROVE  StepOK
    <3>0. /\ stream # <<>> /\ stream' = Tail(stream) /\ nextId' = nextId /\ Fault
          /\ UNCHANGED <<status, history, startPc, pendingWfTasks, completing, requeueing, awaiting,
                         signalPc, goroutines, crashes>>
      BY <2>3 DEF PollDequeueFails, Dequeue
    <3>1. Clock /\ StreamUnique'
      BY <2>0, <3>0, <2>tail, FaultsOnly
    <3>2. faults' # 0
      BY <2>0, <3>0, SMT DEF Fault, StoreTypeOK
    <3>3. ASSUME NEW w \in Workflow PROVE Moves(w)
      <4>1. Finishes(w)' = Finishes(w) /\ Ages(w)
        BY <3>0, FinishSame DEF Ages
      <4>2. Queued(w)' \subseteq Queued(w)
        BY <2>0, <3>0, QueuedTail
      <4>3. Rights(w)' \subseteq Rights(w)
        BY <3>0, <4>2, Parts DEF Rights
      <4> QED  BY <3>2, <4>1, <4>3 DEF Moves, Drops
    <3> QED  BY <3>1, <3>3 DEF StepOK
  <2>2. ASSUME NEW e \in polls, PollRespond(e)
        PROVE  StepOK
    <3>1. Clock /\ StreamUnique'
      BY <2>0, <2>2, QueueSame, FaultsOnly DEF PollRespond
    <3> QED  BY <2>2, <3>1, Quiet, FinishSame, Parts DEF PollRespond, StepOK, Ages
  <2> QED  BY <2>1, <2>2, <2>3 DEF PollWorkflowTask
<1>3. ASSUME NEW r \in running, Worker(r) PROVE StepOK
  <2> USE <1>3
  <2> USE DEF IInv, storeVars, queueVars, timerVars, memVars, callVars, envVars
  <2>0. TypeOK /\ StoreTypeOK /\ StreamUnique /\ r.wf \in Workflow
    BY DEF TypeOK, Run
  <2>1. /\ UNCHANGED <<status, queueVars, memVars, callVars, crashes>>
        /\ NoFault \/ Fault
        /\ UNCHANGED goroutines
    BY DEF Worker, WorkerOnly, WaitForSignal, SleepReplayed, SleepFresh, QueueActivityReplayed,
           ScheduleActivityRecord, ScheduleActivityEnqueue, FunctionReturns, NoFault, InsertTimer
  <2>2. Clock /\ StreamUnique'
    BY <2>0, <2>1, QueueSame, FaultsOnly
  <2>3. \/ UNCHANGED history
        \/ AppendEvent(r.wf, EvOf("ActivityScheduled", ActivityName))
    BY DEF Worker, WaitForSignal, SleepReplayed, SleepFresh, QueueActivityReplayed,
           ScheduleActivityRecord, ScheduleActivityEnqueue, FunctionReturns
  <2>4. /\ EvOf("ActivityScheduled", ActivityName) \in Event
        /\ EvOf("ActivityScheduled", ActivityName).type \notin FinishEvents
    BY EventTypes DEF ActivityName, EventType, EvOf, FinishEvents
  <2>5. \A w \in Workflow : Finishes(w)' = Finishes(w)
    BY <2>0, <2>3, <2>4, FinishSame, FinishKept
  <2> QED  BY <2>1, <2>2, <2>5, Quiet, Parts DEF StepOK, Ages
<1>4. ASSUME NEW c \in Cancel, CancelWorkflow(c) PROVE StepOK
  <2> USE <1>4
  <2> USE DEF IInv, storeVars, queueVars, timerVars, memVars, callVars, envVars
  <2>0. TypeOK /\ StoreTypeOK /\ StreamUnique /\ c[1] \in Workflow
    BY DEF TypeOK, Cancel
  <2>1. /\ UNCHANGED <<status, queueVars, timerVars, pendingWfTasks, awaiting, startPc,
                       signalPc, polls, completing, requeueing, crashes>>
        /\ NoFault \/ Fault
    BY DEF CancelWorkflow, CancelLookup, CancelMark, CancelRecord, NoFault, TryAppendEvent
  <2>2. Clock /\ StreamUnique'
    BY <2>0, <2>1, QueueSame, FaultsOnly
  <2>3. UNCHANGED history \/ TryAppendEvent(c[1], Ev("WorkflowCancelRequested"))
    BY DEF CancelWorkflow, CancelLookup, CancelMark, CancelRecord
  <2>4. /\ Ev("WorkflowCancelRequested") \in Event
        /\ Ev("WorkflowCancelRequested").type \notin FinishEvents
    BY EventTypes DEF EventType, Ev, FinishEvents
  <2>5. \A w \in Workflow : Finishes(w)' = Finishes(w)
    BY <2>0, <2>3, <2>4, FinishSame, FinishKept
  <2> QED  BY <2>1, <2>2, <2>5, Quiet, Parts DEF StepOK, Ages
<1>5. ASSUME ScheduleTimer \/ fireDue PROVE StepOK
  <2> USE <1>5
  <2> USE DEF IInv, storeVars, queueVars, timerVars, memVars, callVars, envVars
  <2>0. TypeOK /\ StoreTypeOK /\ StreamUnique
    BY DEF TypeOK
  <2>1. /\ UNCHANGED <<status, queueVars, memVars, callVars, crashes>>
        /\ NoFault \/ Fault
    BY DEF ScheduleTimer, fireDue, TimerHook, TimerScheduled, TimerFetch, TimerFire,
           HookCallback, AppendTimerScheduled, FetchDueTimers, FireTimer,
           DispatchUnchanged, NoFault, TryAppendEvent
  <2>2. Clock /\ StreamUnique'
    BY <2>0, <2>1, QueueSame, FaultsOnly
  <2>3. \/ UNCHANGED history
        \/ \E t \in Timer, type \in {"TimerScheduled", "TimerFired"} :
             TryAppendEvent(t.wf, EvOf(type, t.id))
    <3>1. (\A a \in arming : a.timer \in Timer) /\ firing \subseteq Timer
      BY <2>0 DEF TypeOK, TimerTypeOK
    <3> QED  BY <3>1 DEF ScheduleTimer, fireDue, TimerHook, TimerScheduled, TimerFetch, TimerFire,
                  HookCallback, AppendTimerScheduled, FetchDueTimers, FireTimer
  <2>4. \A w \in Workflow : Finishes(w)' = Finishes(w)
    <3>1. CASE UNCHANGED history
      BY <3>1, FinishSame
    <3>2. ASSUME NEW t \in Timer, NEW type \in {"TimerScheduled", "TimerFired"},
                 TryAppendEvent(t.wf, EvOf(type, t.id))
          PROVE  \A w \in Workflow : Finishes(w)' = Finishes(w)
      <4>1. t.wf \in Workflow /\ EvOf(type, t.id) \in Event /\ EvOf(type, t.id).type \notin FinishEvents
        BY EventTypes DEF Timer, EventType, EvOf, FinishEvents
      <4> QED  BY <2>0, <3>2, <4>1, FinishKept
    <3> QED  BY <2>3, <3>1, <3>2
  <2>5. \/ UNCHANGED goroutines
        \/ \E t \in firing : goroutines' = goroutines \cup {[timer |-> t, pc |-> "spawned"]}
    BY DEF ScheduleTimer, fireDue, TimerHook, TimerScheduled, TimerFetch, TimerFire,
           HookCallback, AppendTimerScheduled, FetchDueTimers, FireTimer
  <2>6. \A w \in Workflow : Woken(w)' = Woken(w)
    BY <2>5, SMT DEF Woken
  <2> QED  BY <2>1, <2>2, <2>4, <2>6, Quiet, Parts DEF StepOK, Ages
<1>6. ASSUME CompleteWorkflowTask PROVE StepOK
  <2> USE <1>6
  <2> USE DEF IInv, storeVars, queueVars, timerVars, memVars, callVars, envVars
  <2>0. /\ TypeOK /\ StoreTypeOK /\ StreamUnique
        /\ \A c \in completing : c \in Completion /\ c.wf \in Workflow
    BY DEF TypeOK, Completion
  <2>1. ASSUME NEW r \in running, CompleteTake(r)
        PROVE  StepOK
    <3> DEFINE p == [id |-> r.id, wf |-> r.wf]
               c == [id |-> r.id, wf |-> r.wf, out |-> r.out, pc |-> "append"]
               x == <<"pending", p>>
               y == <<"completing", c>>
    <3>0. /\ pendingWfTasks' = pendingWfTasks \ {p}
          /\ completing' = IF p \in pendingWfTasks THEN completing \cup {c} ELSE completing
          /\ UNCHANGED <<storeVars, queueVars, goroutines, awaiting, startPc, signalPc,
                         requeueing, crashes>>
      BY <2>1 DEF CompleteTake, DropTasks
    <3>a. p.wf = r.wf /\ c.wf = r.wf /\ Undecided(c)
      BY DEF Undecided
    <3> HIDE DEF p, c
    <3>1. Clock /\ StreamUnique'
      BY <2>0, <3>0, QueueSame DEF Clock
    <3>2. ASSUME NEW w \in Workflow PROVE Moves(w)
      <4>1. Finishes(w)' = Finishes(w) /\ Ages(w)
        BY <3>0, FinishSame DEF Ages
      <4>2. Pending(w)' = Pending(w) \ {x}
        BY <3>0, SMT DEF Pending
      <4>3. CASE p \in pendingWfTasks /\ r.wf = w
        <5>1. x \in Pending(w) /\ Completing(w)' = Completing(w) \cup {y}
          BY <3>0, <3>a, <4>3 DEF Pending, Completing, Undecided
        <5>2. x \in Rights(w) /\ Rights(w)' = (Rights(w) \ {x}) \cup {y}
          BY <3>0, <4>2, <5>1, Parts, Tags, SMT DEF Rights
        <5> QED  BY <4>1, <5>2 DEF Moves, Exchanges
      <4>4. CASE ~(p \in pendingWfTasks /\ r.wf = w)
        <5>1. x \notin Pending(w) /\ Completing(w)' = Completing(w)
          BY <3>0, <3>a, <4>4 DEF Pending, Completing, Undecided
        <5>2. Rights(w)' = Rights(w)
          BY <3>0, <4>2, <5>1, Parts DEF Rights
        <5> QED  BY <4>1, <5>2 DEF Moves, Keeps
      <4> QED  BY <4>3, <4>4
    <3> QED  BY <3>1, <3>2 DEF StepOK
  <2>2. ASSUME NEW c \in completing, CompleteAppend(c)
        PROVE  StepOK
    <3> DEFINE d == [c EXCEPT !.pc = "apply"]
               x == <<"completing", c>>
               y == <<"completing", d>>
               e == Ev(OutcomeEvent(c.out))
    <3>0. /\ completing' = (completing \ {c}) \cup {d}
          /\ TryAppendEvent(c.wf, e) /\ c.pc = "append"
          /\ UNCHANGED <<status, queueVars, goroutines, pendingWfTasks, awaiting, startPc,
                         signalPc, requeueing, crashes>>
      BY <2>2 DEF CompleteAppend, Step
    <3>a. /\ c \in Completion /\ c.wf \in Workflow /\ Undecided(c)
          /\ d.wf = c.wf /\ (Undecided(d) <=> c.out = "yield") /\ d # c
      BY <2>0, <3>0 DEF Undecided, Completion
    <3>b. /\ e \in Event
          /\ c.out = "yield" <=> e.type \notin FinishEvents
      BY <3>a, EventTypes DEF Completion, Outcome, OutcomeEvent, EventType, Ev, FinishEvents
    <3> HIDE DEF d, e
    <3>1. Clock /\ StreamUnique'
      BY <2>0, <3>0, QueueSame, FaultsOnly DEF TryAppendEvent
    <3>2. ASSUME NEW w \in Workflow, c.wf # w PROVE Moves(w)
      <4>1. Finishes(w)' = Finishes(w)
        BY <2>0, <3>0, <3>a, <3>b, <3>2, FinishAdded, FinishKept, FinishSame DEF TryAppendEvent
      <4>2. Completing(w)' = Completing(w)
        BY <3>0, <3>a, <3>2 DEF Completing, Undecided
      <4>3. Rights(w)' = Rights(w)
        BY <3>0, <4>2, Parts DEF Rights
      <4> QED  BY <3>0, <4>1, <4>3 DEF Moves, Keeps, Ages
    <3>3. Moves(c.wf)
      <4> DEFINE w == c.wf
      <4>0. w \in Workflow /\ Ages(w)
        BY <3>0, <3>a DEF Ages
      <4>1. x \in Completing(w) /\ x \in Rights(w)
        BY <3>a DEF Completing, Rights
      <4>2. CASE c.out = "yield"
        <5>1. Completing(w)' = (Completing(w) \ {x}) \cup {y}
          BY <3>0, <3>a, <4>2, SMT DEF Completing, Undecided
        <5>2. Rights(w)' = (Rights(w) \ {x}) \cup {y}
          BY <3>0, <5>1, Parts, Tags, SMT DEF Rights
        <5>3. Finishes(w)' = Finishes(w)
          BY <2>0, <3>0, <3>a, <3>b, <4>2, FinishKept
        <5> QED  BY <4>0, <4>1, <5>2, <5>3 DEF Moves, Exchanges
      <4>3. CASE c.out # "yield"
        <5>1. Completing(w)' = Completing(w) \ {x}
          BY <3>0, <3>a, <4>3, SMT DEF Completing, Undecided
        <5>2. Rights(w)' = Rights(w) \ {x}
          BY <3>0, <4>1, <5>1, Parts, Tags, SMT DEF Rights
        <5>3. CASE AppendEvent(c.wf, e)
          <6>1. \E n : Finishes(w)' = Finishes(w) \cup {n}
            BY <2>0, <3>a, <3>b, <4>3, <5>3, FinishAdded
          <6> QED  BY <4>0, <4>1, <5>2, <6>1 DEF Moves, Ends
        <5>4. CASE UNCHANGED history /\ Fault
          <6>1. Finishes(w)' = Finishes(w) /\ faults' # 0
            BY <2>0, <5>4, FinishSame, SMT DEF Fault, StoreTypeOK
          <6> QED  BY <4>0, <5>2, <6>1 DEF Moves, Drops
        <5> QED  BY <3>0, <5>3, <5>4 DEF TryAppendEvent
      <4> QED  BY <4>2, <4>3
    <3> QED  BY <3>1, <3>2, <3>3 DEF StepOK
  <2>3. ASSUME NEW c \in completing, CompleteApply(c)
        PROVE  StepOK
    <3> DEFINE d == [c EXCEPT !.pc = "ack"]
               x == <<"completing", c>>
               y == <<"parked", c.wf>>
    <3>0. /\ completing' = (completing \ {c}) \cup {d}
          /\ c.pc = "apply"
          /\ awaiting' = IF c.out = "yield" THEN awaiting \cup {c.wf} ELSE awaiting
          /\ NoFault \/ Fault
          /\ UNCHANGED <<history, queueVars, goroutines, pendingWfTasks, startPc,
                         signalPc, requeueing, crashes>>
      BY <2>3 DEF CompleteApply, MarkAwaitingDispatch, Step, TryCompleteWorkflow, NoFault
    <3>a. /\ c.wf \in Workflow /\ d.wf = c.wf /\ ~Undecided(d)
          /\ Undecided(c) <=> c.out = "yield"
      BY <2>0, <3>0 DEF Undecided, Completion
    <3> HIDE DEF d
    <3>1. Clock /\ StreamUnique'
      BY <2>0, <3>0, QueueSame, FaultsOnly
    <3>2. ASSUME NEW w \in Workflow PROVE Moves(w)
      <4>1. Finishes(w)' = Finishes(w)
        BY <3>0, FinishSame
      <4>2. Ages(w)
        BY <2>0, <2>3, <3>0, <3>a, AgesSame DEF CompleteApply, MarkAwaitingDispatch, Status
      <4>3. CASE c.wf = w /\ c.out = "yield"
        <5>1. x \in Completing(w) /\ Completing(w)' = Completing(w) \ {x}
          BY <3>0, <3>a, <4>3, SMT DEF Completing, Undecided
        <5>2. Parked(w)' = Parked(w) \cup {y}
          BY <3>0, <4>3 DEF Parked
        <5>3. x \in Rights(w) /\ Rights(w)' = (Rights(w) \ {x}) \cup {y}
          BY <3>0, <5>1, <5>2, Parts, Tags, SMT DEF Rights
        <5> QED  BY <4>1, <4>2, <5>3 DEF Moves, Exchanges
      <4>4. CASE ~(c.wf = w /\ c.out = "yield")
        <5>1. Completing(w)' = Completing(w) /\ Parked(w)' = Parked(w)
          BY <3>0, <3>a, <4>4 DEF Completing, Parked, Undecided
        <5>2. Rights(w)' = Rights(w)
          BY <3>0, <5>1, Parts DEF Rights
        <5> QED  BY <4>1, <4>2, <5>2 DEF Moves, Keeps
      <4> QED  BY <4>3, <4>4
    <3> QED  BY <3>1, <3>2 DEF StepOK
  <2>4. ASSUME NEW c \in completing, CompleteAck(c)
        PROVE  StepOK
    <3>1. Clock /\ StreamUnique'
      BY <2>0, <2>4, QueueSame, FaultsOnly DEF CompleteAck, TryAck
    <3>2. ASSUME NEW w \in Workflow PROVE Moves(w)
      <4>1. Completing(w)' = Completing(w)
        BY <2>4 DEF CompleteAck, Completing, Undecided
      <4>2. Rights(w)' = Rights(w)
        BY <2>4, <4>1, Parts DEF CompleteAck, Rights
      <4>3. Finishes(w)' = Finishes(w) /\ Ages(w)
        BY <2>4, FinishSame DEF CompleteAck, Ages
      <4> QED  BY <4>2, <4>3 DEF Moves, Keeps
    <3> QED  BY <3>1, <3>2 DEF StepOK
  <2> QED  BY <2>1, <2>2, <2>3, <2>4 DEF CompleteWorkflowTask
<1>7. ASSUME NEW s \in Signal, SignalWorkflow(s) PROVE StepOK
  <2> USE <1>7
  (* A signal call that has put its workflow back holds the claim no longer. *)
  <2>done. ASSUME signalPc \in [Signal -> SignalStep], signalPc[s] = "claimed",
                  signalPc' = [signalPc EXCEPT ![s] = "done"]
           PROVE  /\ <<"signalled", s>> \in Signalled(s[1])
                  /\ Signalled(s[1])' = Signalled(s[1]) \ {<<"signalled", s>>}
    <3> USE <2>done
    <3>1. signalPc'[s] # "claimed" /\ \A t \in Signal : t # s => signalPc'[t] = signalPc[t]
      OBVIOUS
    <3>2. \A t \in Signal : <<"signalled", t>> = <<"signalled", s>> => t = s
      BY SMT
    <3>3. <<"signalled", s>> \in Signalled(s[1])
      BY DEF Signalled
    <3>4. ASSUME NEW x \in Signalled(s[1])' PROVE x \in Signalled(s[1]) \ {<<"signalled", s>>}
      BY <3>1, <3>2 DEF Signalled
    <3>5. ASSUME NEW x \in Signalled(s[1]) \ {<<"signalled", s>>} PROVE x \in Signalled(s[1])'
      BY <3>1 DEF Signalled
    <3> QED  BY <3>3, <3>4, <3>5
  <2> USE DEF IInv, storeVars, queueVars, timerVars, memVars, callVars, envVars
  <2>0. /\ TypeOK /\ StoreTypeOK /\ StreamUnique /\ s[1] \in Workflow
        /\ signalPc \in [Signal -> SignalStep]
    BY DEF TypeOK, Signal
  <2>1. CASE SignalRecord(s)
    <3>1. Clock /\ StreamUnique'
      BY <2>0, <2>1, QueueSame, FaultsOnly DEF SignalRecord
    <3>2. Ev("SignalReceived") \in Event /\ Ev("SignalReceived").type \notin FinishEvents
      BY EventTypes DEF EventType, Ev, FinishEvents
    <3>3. ASSUME NEW w \in Workflow PROVE Moves(w)
      <4>1. Finishes(w)' = Finishes(w)
        BY <2>0, <2>1, <3>2, FinishKept, FinishSame DEF SignalRecord
      <4>2. Signalled(w)' = Signalled(w)
        BY <2>0, <2>1 DEF SignalRecord, Signalled
      <4> QED  BY <2>1, <4>1, <4>2, Quiet, Parts DEF SignalRecord, Ages
    <3> QED  BY <3>1, <3>3 DEF StepOK
  <2>2. CASE SignalClaim(s)
    <3> DEFINE x == <<"parked", s[1]>>
               y == <<"signalled", s>>
    <3>1. Clock /\ StreamUnique'
      BY <2>0, <2>2, QueueSame DEF SignalClaim, ClaimAwaitingDispatch, Clock
    <3>2. ASSUME NEW w \in Workflow PROVE Moves(w)
      <4>1. Finishes(w)' = Finishes(w) /\ Ages(w)
        BY <2>2, FinishSame DEF SignalClaim, ClaimAwaitingDispatch, Ages
      <4>2. Parked(w)' = Parked(w) \ {x}
        BY <2>2, ParkedClaim DEF SignalClaim
      <4>3. CASE s[1] = w /\ w \in awaiting
        <5>1. x \in Parked(w) /\ Signalled(w)' = Signalled(w) \cup {y}
          BY <2>0, <2>2, <4>3 DEF SignalClaim, ClaimAwaitingDispatch, Parked, Signalled
        <5>2. x \in Rights(w) /\ Rights(w)' = (Rights(w) \ {x}) \cup {y}
          BY <2>2, <4>2, <5>1, Parts, Tags, SMT DEF SignalClaim, ClaimAwaitingDispatch, Rights
        <5> QED  BY <4>1, <5>2 DEF Moves, Exchanges
      <4>4. CASE ~(s[1] = w /\ w \in awaiting)
        <5>1. x \notin Parked(w)
          BY <4>4 DEF Parked
        <5>2. Signalled(w)' = Signalled(w)
          BY <2>0, <2>2, <4>4 DEF SignalClaim, ClaimAwaitingDispatch, Signalled
        <5>3. Rights(w)' = Rights(w)
          BY <2>2, <4>2, <5>1, <5>2, Parts DEF SignalClaim, ClaimAwaitingDispatch, Rights
        <5> QED  BY <4>1, <5>3 DEF Moves, Keeps
      <4> QED  BY <4>3, <4>4
    <3> QED  BY <3>1, <3>2 DEF StepOK
  <2>3. CASE SignalRedispatch(s)
    <3> DEFINE x == <<"signalled", s>>
               body == [wf |-> s[1], input |-> TRUE]
    <3>1. x \in Signalled(s[1]) /\ Signalled(s[1])' = Signalled(s[1]) \ {x}
      BY <2>0, <2>3, <2>done DEF SignalRedispatch
    <3>2. \A w \in Workflow : w # s[1] => Signalled(w)' = Signalled(w)
      BY <2>0, <2>3 DEF SignalRedispatch, Signalled
    <3>3. x \in Held(s[1]) /\ Held(s[1])' = Held(s[1]) \ {x}
      BY <2>3, <3>1, Parts, Tags, SMT DEF SignalRedispatch, Held
    <3>4. \A w \in Workflow : w # s[1] => Held(w)' = Held(w)
      BY <2>3, <3>2, Parts DEF SignalRedispatch, Held
    <3>5. body \in Envelope /\ body.wf = s[1] /\ TryEnqueue(body)
      BY <2>0, <2>3 DEF Envelope, SignalRedispatch, redispatchWorkflowTask
    <3>6. UNCHANGED <<status, history, startPc, crashes>>
      BY <2>3 DEF SignalRedispatch
    <3> HIDE DEF x, body
    <3> QED  BY <2>0, <3>3, <3>4, <3>5, <3>6, Redispatched
  <2> QED  BY <2>1, <2>2, <2>3 DEF SignalWorkflow
<1>8. ASSUME Callback PROVE StepOK
  <2> USE <1>8
  <2> USE DEF IInv, storeVars, queueVars, timerVars, memVars, callVars, envVars
  <2> PICK g \in goroutines : \/ SleepClaim(g) \/ SleepRedispatch(g)
                              \/ TimeoutCheck(g) \/ TimeoutRecord(g) \/ TimeoutApply(g)
    BY DEF Callback
  <2>0. /\ TypeOK /\ StoreTypeOK /\ StreamUnique
        /\ g.timer.wf \in Workflow /\ g \in [timer : Timer, pc : CallbackPc]
    BY DEF TypeOK, TimerTypeOK, Timer
  <2>1. CASE SleepClaim(g)
    <3> DEFINE v == g.timer.wf
               h == [g EXCEPT !.pc = "claimed"]
               x == <<"parked", v>>
               y == <<"woken", h>>
    <3>0. h.timer = g.timer /\ h.pc = "claimed" /\ g.pc = "spawned"
      BY <2>0, <2>1 DEF SleepClaim, ClaimAwaitingDispatch
    <3>a. goroutines' = IF v \in awaiting THEN (goroutines \ {g}) \cup {h} ELSE goroutines \ {g}
      BY <2>1 DEF SleepClaim, ClaimAwaitingDispatch, CallbackGoto, CallbackEnd
    <3> HIDE DEF h
    <3>1. Clock /\ StreamUnique'
      BY <2>0, <2>1, QueueSame DEF SleepClaim, ClaimAwaitingDispatch, Clock
    <3>2. ASSUME NEW w \in Workflow PROVE Moves(w)
      <4>1. Finishes(w)' = Finishes(w) /\ Ages(w)
        BY <2>1, FinishSame DEF SleepClaim, ClaimAwaitingDispatch, Ages
      <4>2. Parked(w)' = Parked(w) \ {x}
        BY <2>1, ParkedClaim DEF SleepClaim
      <4>3. CASE v = w /\ w \in awaiting
        <5>1. x \in Parked(w) /\ Woken(w)' = Woken(w) \cup {y}
          BY <3>0, <3>a, <4>3 DEF Parked, Woken
        <5>2. /\ Starting(w)' = Starting(w) /\ Queued(w)' = Queued(w) /\ Pending(w)' = Pending(w)
              /\ Completing(w)' = Completing(w) /\ Requeueing(w)' = Requeueing(w)
              /\ Signalled(w)' = Signalled(w)
          BY <2>1, Parts DEF SleepClaim
        <5>3. /\ x \notin Starting(w) /\ x \notin Queued(w) /\ x \notin Pending(w)
              /\ x \notin Completing(w) /\ x \notin Requeueing(w) /\ x \notin Signalled(w)
              /\ x \notin Woken(w)
          <6>1. x[1] = "parked"
            BY SMT
          <6> QED  BY <6>1, Tags, SMT
        <5>4. x \in Rights(w) /\ Rights(w)' = (Rights(w) \ {x}) \cup {y}
          <6> HIDE DEF x, y
          <6> QED  BY <4>2, <5>1, <5>2, <5>3 DEF Rights
        <5> QED  BY <4>1, <5>4 DEF Moves, Exchanges
      <4>4. CASE ~(v = w /\ w \in awaiting)
        <5>1. x \notin Parked(w)
          BY <4>4 DEF Parked
        <5>2. Woken(w)' = Woken(w)
          BY <3>0, <3>a, <4>4 DEF Woken
        <5>3. Rights(w)' = Rights(w)
          BY <2>1, <4>2, <5>1, <5>2, Parts DEF SleepClaim, ClaimAwaitingDispatch, Rights
        <5> QED  BY <4>1, <5>3 DEF Moves, Keeps
      <4> QED  BY <4>3, <4>4
    <3> QED  BY <3>1, <3>2 DEF StepOK
  <2>2. CASE SleepRedispatch(g)
    <3> DEFINE v == g.timer.wf
               x == <<"woken", g>>
               body == [wf |-> v, input |-> TRUE]
    <3>0. g \in goroutines /\ g.pc = "claimed" /\ goroutines' = goroutines \ {g}
      BY <2>2 DEF SleepRedispatch, CallbackEnd
    <3>a. Woken(v)' = Woken(v) \ {x}
      BY <3>0, SMT DEF Woken
    <3>1. x \in Woken(v) /\ Woken(v)' = Woken(v) \ {x}
      BY <2>0, <3>0, <3>a DEF Woken
    <3>2. \A w \in Workflow : w # v => Woken(w)' = Woken(w)
      BY <3>0 DEF Woken
    <3>3. x \in Held(v) /\ Held(v)' = Held(v) \ {x}
      BY <2>2, <3>1, Parts, Tags, SMT DEF SleepRedispatch, Held
    <3>4. \A w \in Workflow : w # v => Held(w)' = Held(w)
      BY <2>2, <3>2, Parts DEF SleepRedispatch, Held
    <3>5. body \in Envelope /\ body.wf = v /\ TryEnqueue(body)
      BY <2>0, <2>2 DEF Envelope, SleepRedispatch, redispatchWorkflowTask
    <3>6. UNCHANGED <<status, history, startPc, crashes>>
      BY <2>2 DEF SleepRedispatch
    <3> HIDE DEF x, body
    <3> QED  BY <2>0, <3>3, <3>4, <3>5, <3>6, Redispatched
  <2>3. CASE TimeoutCheck(g) \/ TimeoutRecord(g) \/ TimeoutApply(g)
    <3>1. /\ UNCHANGED <<queueVars, memVars, callVars, crashes>>
          /\ NoFault \/ Fault
      BY <2>3 DEF TimeoutCheck, TimeoutRecord, TimeoutApply, TryAppendEvent, TryCompleteWorkflow
    <3>2. Clock /\ StreamUnique'
      BY <2>0, <3>1, QueueSame, FaultsOnly
    <3>3. Ev("WorkflowTimedOut") \in Event /\ Ev("WorkflowTimedOut").type \notin FinishEvents
      BY EventTypes DEF EventType, Ev, FinishEvents
    <3>4. g.pc # "claimed"
      BY <2>3 DEF TimeoutCheck, TimeoutRecord, TimeoutApply
    <3>5. \/ goroutines' = goroutines \ {g}
          \/ \E pc \in {"expired", "recorded"} :
               goroutines' = (goroutines \ {g}) \cup {[g EXCEPT !.pc = pc]}
      BY <2>3 DEF TimeoutCheck, TimeoutRecord, TimeoutApply, CallbackGoto, CallbackEnd
    <3>6. \A pc \in {"expired", "recorded"} : [g EXCEPT !.pc = pc].pc # "claimed"
      BY <2>0
    <3>7. ASSUME NEW w \in Workflow PROVE Moves(w)
      <4>1. Finishes(w)' = Finishes(w)
        BY <2>0, <2>3, <3>3, FinishKept, FinishSame DEF TimeoutCheck, TimeoutRecord, TimeoutApply
      <4>2. Woken(w)' = Woken(w)
        BY <3>4, <3>5, <3>6 DEF Woken
      <4>3. Ages(w)
        BY <2>0, <2>3, <3>1, AgesSame DEF TimeoutCheck, TimeoutRecord, TimeoutApply, Status
      <4> QED  BY <3>1, <4>1, <4>2, <4>3, Quiet, Parts
    <3> QED  BY <3>2, <3>7 DEF StepOK
  <2> QED  BY <2>1, <2>2, <2>3
<1>9. ASSUME reclaimExpired PROVE StepOK
  <2> USE <1>9
  <2> USE DEF IInv, storeVars, queueVars, timerVars, memVars, callVars, envVars
  <2>0. /\ TypeOK /\ StoreTypeOK /\ StreamUnique
        /\ pendingWfTasks \subseteq PendingTask /\ requeueing \subseteq Requeue
        /\ \A w \in Workflow : Safe(w)
    BY DEF TypeOK
  <2>1. ASSUME NEW expired \in SUBSET pendingWfTasks, ReclaimCollect(expired)
        PROVE  StepOK
    <3> DEFINE R(p) == [id |-> p.id, wf |-> p.wf, by |-> "loop", pc |-> "ack"]
    <3>0. /\ pendingWfTasks' = pendingWfTasks \ expired
          /\ requeueing' = requeueing \cup {R(p) : p \in expired}
          /\ UNCHANGED <<storeVars, queueVars, goroutines, awaiting, startPc, signalPc,
                         completing, crashes>>
      BY <2>1 DEF ReclaimCollect, DropTasks
    <3>a. \A p \in expired : R(p).wf = p.wf
      OBVIOUS
    <3> HIDE DEF R
    <3>1. Clock /\ StreamUnique'
      BY <2>0, <3>0, QueueSame DEF Clock
    <3>2. ASSUME NEW w \in Workflow PROVE Moves(w)
      <4>1. Finishes(w)' = Finishes(w) /\ Ages(w)
        BY <3>0, FinishSame DEF Ages
      <4>2. CASE \A p \in expired : p.wf # w
        <5>1. Pending(w)' = Pending(w)
          BY <3>0, <4>2 DEF Pending
        <5>2. Requeueing(w)' = Requeueing(w)
          BY <3>0, <3>a, <4>2 DEF Requeueing
        <5>3. Rights(w)' = Rights(w)
          BY <3>0, <5>1, <5>2, Parts DEF Rights
        <5> QED  BY <4>1, <5>3 DEF Moves, Keeps
      <4>3. CASE \E p \in expired : p.wf = w
        <5> PICK p \in expired : p.wf = w
          BY <4>3
        <5> DEFINE x == <<"pending", p>>
                   y == <<"requeueing", R(p)>>
        <5>1. \A o \in pendingWfTasks : o.wf = w => o = p
          <6> TAKE o \in pendingWfTasks
          <6> HAVE o.wf = w
          <6>1. <<"pending", o>> \in Rights(w) /\ x \in Rights(w)
            BY DEF Rights, Pending
          <6>2. <<"pending", o>> = x
            BY <2>0, <6>1 DEF Safe
          <6> QED  BY <6>2
        <5>2. x \in Pending(w) /\ Pending(w)' = Pending(w) \ {x}
          BY <3>0, <5>1 DEF Pending
        <5>3. Requeueing(w)' = Requeueing(w) \cup {y}
          BY <3>0, <3>a, <5>1, SMT DEF Requeueing
        <5>4. x \in Rights(w) /\ Rights(w)' = (Rights(w) \ {x}) \cup {y}
          BY <3>0, <5>2, <5>3, Parts, Tags, SMT DEF Rights
        <5> QED  BY <4>1, <5>4 DEF Moves, Exchanges
      <4> QED  BY <4>2, <4>3
    <3> QED  BY <3>1, <3>2 DEF StepOK
  <2>2. ASSUME NEW q \in requeueing, RequeueAck(q)
        PROVE  StepOK
    <3> DEFINE o == [q EXCEPT !.pc = "enqueue"]
               x == <<"requeueing", q>>
               y == <<"requeueing", o>>
    <3>0. /\ requeueing' = (requeueing \ {q}) \cup {o}
          /\ NoFault \/ Fault
          /\ UNCHANGED <<status, history, stream, nextId, goroutines, pendingWfTasks, awaiting,
                         startPc, signalPc, completing, crashes>>
      BY <2>2 DEF RequeueAck, TryAck
    <3>a. o.wf = q.wf
      BY <2>0 DEF Requeue
    <3> HIDE DEF o
    <3>1. Clock /\ StreamUnique'
      BY <2>0, <3>0, QueueSame, FaultsOnly
    <3>2. ASSUME NEW w \in Workflow PROVE Moves(w)
      <4>1. Finishes(w)' = Finishes(w) /\ Ages(w)
        BY <3>0, FinishSame DEF Ages
      <4>2. CASE q.wf = w
        <5>1. x \in Requeueing(w) /\ Requeueing(w)' = (Requeueing(w) \ {x}) \cup {y}
          BY <3>0, <3>a, <4>2, SMT DEF Requeueing
        <5>2. x \in Rights(w) /\ Rights(w)' = (Rights(w) \ {x}) \cup {y}
          BY <3>0, <5>1, Parts, Tags, SMT DEF Rights
        <5> QED  BY <4>1, <5>2 DEF Moves, Exchanges
      <4>3. CASE q.wf # w
        <5>1. Requeueing(w)' = Requeueing(w)
          BY <3>0, <3>a, <4>3 DEF Requeueing
        <5>2. Rights(w)' = Rights(w)
          BY <3>0, <5>1, Parts DEF Rights
        <5> QED  BY <4>1, <5>2 DEF Moves, Keeps
      <4> QED  BY <4>2, <4>3
    <3> QED  BY <3>1, <3>2 DEF StepOK
  <2>3. ASSUME NEW q \in requeueing, RequeueEnqueue(q)
        PROVE  StepOK
    <3> DEFINE v == q.wf
               x == <<"requeueing", q>>
               body == [wf |-> v, input |-> FALSE]
    <3>0. v \in Workflow /\ requeueing' = requeueing \ {q}
      BY <2>0, <2>3 DEF Requeue, RequeueEnqueue
    <3>1. x \in Requeueing(v) /\ Requeueing(v)' = Requeueing(v) \ {x}
      BY <3>0, SMT DEF Requeueing
    <3>2. \A w \in Workflow : w # v => Requeueing(w)' = Requeueing(w)
      BY <3>0 DEF Requeueing
    <3>3. x \in Held(v) /\ Held(v)' = Held(v) \ {x}
      BY <2>3, <3>1, Parts, Tags, SMT DEF RequeueEnqueue, Held
    <3>4. \A w \in Workflow : w # v => Held(w)' = Held(w)
      BY <2>3, <3>2, Parts DEF RequeueEnqueue, Held
    <3>5. body \in Envelope /\ body.wf = v /\ TryEnqueue(body)
      BY <2>3, <3>0 DEF Envelope, RequeueEnqueue
    <3>6. UNCHANGED <<status, history, startPc, crashes>>
      BY <2>3 DEF RequeueEnqueue
    <3> HIDE DEF x, body, v
    <3> QED  BY <3>0, <3>3, <3>4, <3>5, <3>6, Redispatched
  <2> QED  BY <2>1, <2>2, <2>3 DEF reclaimExpired
<1>10. ASSUME Losses PROVE StepOK
  <2> USE <1>10
  <2> USE DEF IInv, storeVars, queueVars, timerVars, memVars, callVars, envVars
  <2>0. TypeOK /\ StreamUnique
    OBVIOUS
  <2>1. ASSUME NEW e \in polls, PollLost(e)
        PROVE  StepOK
    BY <2>0, <2>1, QueueSame, Quiet, FinishSame, Parts DEF PollLost, StepOK, Ages, Clock
  <2>2. ASSUME NEW e \in polls, StreamSendFails(e)
        PROVE  StepOK
    <3> DEFINE p == [id |-> e.id, wf |-> e.body.wf]
               q == [id |-> p.id, wf |-> p.wf, by |-> "stream", pc |-> "ack"]
               x == <<"pending", p>>
               y == <<"requeueing", q>>
    <3>0. /\ pendingWfTasks' = pendingWfTasks \ {p}
          /\ requeueing' = IF p \in pendingWfTasks THEN requeueing \cup {q} ELSE requeueing
          /\ UNCHANGED <<storeVars, queueVars, goroutines, awaiting, startPc, signalPc,
                         completing, crashes>>
      BY <2>2 DEF StreamSendFails, DropTasks
    <3>a. q.wf = p.wf
      OBVIOUS
    <3> HIDE DEF p, q
    <3>1. Clock /\ StreamUnique'
      BY <2>0, <3>0, QueueSame DEF Clock
    <3>2. ASSUME NEW w \in Workflow PROVE Moves(w)
      <4>1. Finishes(w)' = Finishes(w) /\ Ages(w)
        BY <3>0, FinishSame DEF Ages
      <4>2. Pending(w)' = Pending(w) \ {x}
        BY <3>0, SMT DEF Pending
      <4>3. CASE p \in pendingWfTasks /\ p.wf = w
        <5>1. x \in Pending(w) /\ Requeueing(w)' = Requeueing(w) \cup {y}
          BY <3>0, <3>a, <4>3 DEF Pending, Requeueing
        <5>2. x \in Rights(w) /\ Rights(w)' = (Rights(w) \ {x}) \cup {y}
          BY <3>0, <4>2, <5>1, Parts, Tags, SMT DEF Rights
        <5> QED  BY <4>1, <5>2 DEF Moves, Exchanges
      <4>4. CASE ~(p \in pendingWfTasks /\ p.wf = w)
        <5>1. x \notin Pending(w) /\ Requeueing(w)' = Requeueing(w)
          BY <3>0, <3>a, <4>4 DEF Pending, Requeueing
        <5>2. Rights(w)' = Rights(w)
          BY <3>0, <4>2, <5>1, Parts DEF Rights
        <5> QED  BY <4>1, <5>2 DEF Moves, Keeps
      <4> QED  BY <4>3, <4>4
    <3> QED  BY <3>1, <3>2 DEF StepOK
  <2>3. ASSUME NEW r \in running, WorkerDies(r)
        PROVE  StepOK
    BY <2>0, <2>3, QueueSame, Quiet, FinishSame, Parts DEF WorkerDies, StepOK, Ages, Clock
  <2> QED  BY <2>1, <2>2, <2>3 DEF Losses
<1>11. ASSUME EngineCrash PROVE StepOK
  <2> USE <1>11
  <2> USE DEF IInv, storeVars, queueVars
  <2>0. /\ StreamUnique /\ crashes \in Nat
        /\ startPc \in [Workflow -> StartStep] /\ signalPc \in [Signal -> SignalStep]
    BY SMT DEF TypeOK
  <2>1. /\ UNCHANGED <<status, history, stream, nextId>>
        /\ pendingWfTasks' = {} /\ awaiting' = {} /\ completing' = {} /\ requeueing' = {}
        /\ goroutines' = {} /\ crashes' = crashes + 1
        /\ startPc' = Abandon(startPc) /\ signalPc' = Abandon(signalPc)
    BY DEF EngineCrash, TimerCrash
  <2>2. crashes' # 0
    BY <2>0, <2>1, SMT
  <2>3. Clock /\ StreamUnique'
    BY <2>0, <2>1, <2>2, QueueSame DEF Clock
  <2>4. ASSUME NEW w \in Workflow PROVE Moves(w)
    <3>1. Finishes(w)' = Finishes(w)
      BY <2>1, FinishSame
    <3>2. Ages(w)
      BY <2>0, <2>1 DEF Ages, Abandon
    <3>3. Starting(w)' = {} /\ Signalled(w)' = {}
      BY <2>0, <2>1 DEF Starting, Signalled, Abandon
    <3>4. /\ Queued(w)' = Queued(w)
          /\ Pending(w)' = {} /\ Completing(w)' = {} /\ Requeueing(w)' = {}
          /\ Parked(w)' = {} /\ Woken(w)' = {}
      BY <2>1, Parts DEF Pending, Completing, Requeueing, Parked, Woken
    <3>5. Rights(w)' \subseteq Rights(w)
      BY <3>3, <3>4 DEF Rights
    <3> QED  BY <2>2, <3>1, <3>2, <3>5 DEF Moves, Drops
  <2> QED  BY <2>3, <2>4 DEF StepOK
<1> QED  BY <1>1, <1>2, <1>3, <1>6, <1>7, <1>4, <1>5,
         <1>8, <1>9, <1>10, <1>11 DEF Next

LEMMA NextSafe ==
  ASSUME IInv, Next
  PROVE  IInv'
<1>1. StepOK
  BY NextMoves
<1>2. TypeOK'
  BY NextType DEF IInv
<1>3. \A w \in Workflow : Safe(w)'
  BY <1>1, MoveSafe DEF StepOK, IInv
<1> QED  BY <1>1, <1>2, <1>3 DEF IInv, StepOK

LEMMA StutterSafe ==
  ASSUME IInv, UNCHANGED vars
  PROVE  IInv'
<1>1. /\ UNCHANGED <<status, history, faults, stream, nextId, pendingWfTasks, awaiting, startPc,
                     signalPc, completing, requeueing, goroutines, crashes>>
      /\ TypeOK'
  BY DEF IInv, vars, TypeOK, StoreTypeOK, TimerTypeOK, storeVars, queueVars,
         timerVars, memVars, callVars, envVars
<1>2. StreamUnique'
  BY <1>1, QueueSame DEF IInv
<1>3. \A w \in Workflow : Moves(w) /\ Clock
  BY <1>1, Quiet, FinishSame, Parts DEF Ages, Clock
<1>4. \A w \in Workflow : Safe(w)'
  BY <1>3, MoveSafe DEF IInv
<1> QED  BY <1>1, <1>2, <1>4 DEF IInv

LEMMA SafetyInvariant == Spec => []IInv
<1>1. IInv /\ [Next]_vars => IInv'
  BY NextSafe, StutterSafe
<1> QED  BY <1>1, InitSafe, PTL DEF Spec

(* A workflow never has two tasks at a time: StartWorkflow, the poll       *)
(* handlers, CompleteWorkflowTask, SignalWorkflow, the timer callbacks and *)
(* reclaimExpired only ever hand the one right to run on.                  *)
THEOREM SingleDispatchHolds == Spec => []SingleDispatch
<1>1. IInv => SingleDispatch
  BY DEF IInv, Safe, SingleDispatch
<1> QED  BY <1>1, SafetyInvariant, PTL

(* After WorkflowCompleted or WorkflowFailed is recorded no handler,       *)
(* callback or loop can dispatch the workflow again.                       *)
THEOREM NoDispatchAfterFinishHolds == Spec => []NoDispatchAfterFinish
<1>1. IInv => NoDispatchAfterFinish
  BY DEF IInv, Safe, NoDispatchAfterFinish
<1> QED  BY <1>1, SafetyInvariant, PTL

(* CompleteWorkflowTask records at most one outcome per workflow.          *)
THEOREM FinishedOnceHolds == Spec => []FinishedOnce
<1>1. IInv => FinishedOnce
  BY DEF IInv, Safe, FinishedOnce
<1> QED  BY <1>1, SafetyInvariant, PTL

(* Without failing calls and engine crashes a started workflow is never    *)
(* stranded, however many workers die and however many responses are lost. *)
THEOREM NeverStrandedHolds == Spec => []NeverStranded
<1>1. IInv => NeverStranded
  BY DEF IInv, Safe, NeverStranded
<1> QED  BY <1>1, SafetyInvariant, PTL

-----------------------------------------------------------------------------
(* Facts about finite sets.                                                *)

(* One more on the left, one more on the right.                            *)
LEMMA OneMore ==
  ASSUME NEW S, NEW T, NEW S2, NEW T2, NEW x, NEW y, IsFiniteSet(S), IsFiniteSet(T2),
         Cardinality(S) <= Cardinality(T), S2 \subseteq S \cup {x},
         T \cup {y} \subseteq T2, y \notin T
  PROVE  Cardinality(S2) <= Cardinality(T2)
<1>1. IsFiniteSet(T) /\ IsFiniteSet(T \cup {y})
  BY FS_Subset
<1>2. Cardinality(T \cup {y}) = Cardinality(T) + 1 /\ Cardinality(T \cup {y}) <= Cardinality(T2)
  BY <1>1, FS_AddElement, FS_Subset
<1>3. IsFiniteSet(S \cup {x}) /\ Cardinality(S2) <= Cardinality(S \cup {x}) /\ IsFiniteSet(S2)
  BY FS_AddElement, FS_Subset
<1>4. Cardinality(S \cup {x}) <= Cardinality(S) + 1
  <2>1. Cardinality(S) \in Nat
    BY FS_CardinalityType
  <2>2. Cardinality(S \cup {x}) \in {Cardinality(S), Cardinality(S) + 1}
    BY FS_AddElement
  <2> QED  BY <2>1, <2>2, SMT
<1>5. {Cardinality(S), Cardinality(T), Cardinality(S2), Cardinality(T2), Cardinality(S \cup {x})}
        \subseteq Nat
  BY <1>1, <1>3, FS_CardinalityType
<1> QED  BY <1>2, <1>3, <1>4, <1>5, SMT

LEMMA NoMore ==
  ASSUME NEW S, NEW T, NEW S2, NEW T2, IsFiniteSet(S), IsFiniteSet(T2),
         Cardinality(S) <= Cardinality(T), S2 \subseteq S, T \subseteq T2
  PROVE  Cardinality(S2) <= Cardinality(T2)
<1>1. IsFiniteSet(T) /\ IsFiniteSet(S2)
  BY FS_Subset
<1>2. Cardinality(S2) <= Cardinality(S) /\ Cardinality(T) <= Cardinality(T2)
  BY FS_Subset
<1>3. {Cardinality(S), Cardinality(T), Cardinality(S2), Cardinality(T2)} \subseteq Nat
  BY <1>1, FS_CardinalityType
<1> QED  BY <1>2, <1>3, SMT

-----------------------------------------------------------------------------
(* Histories only grow, by one event of one workflow at a time.            *)

Records(w, e) == history' = [history EXCEPT ![w] = Append(@, e)]

HistoryStep == UNCHANGED history \/ \E w \in Workflow, e \in Event : Records(w, e)

Grows(w) ==
  /\ Len(history[w]) \in Nat /\ Len(history'[w]) \in Nat
  /\ Len(history[w]) <= Len(history'[w])
  /\ DOMAIN history[w] = 1 .. Len(history[w]) /\ DOMAIN history'[w] = 1 .. Len(history'[w])
  /\ \A i \in DOMAIN history[w] : i \in DOMAIN history'[w] /\ history'[w][i] = history[w][i]

LEMMA StepGrows ==
  ASSUME TypeOK, HistoryStep, NEW w \in Workflow
  PROVE  Grows(w)
<1>0. history \in [Workflow -> Seq(Event)] /\ history[w] \in Seq(Event)
  BY DEF TypeOK, StoreTypeOK
<1>1. CASE history'[w] = history[w]
  BY <1>0, <1>1, SMT DEF Grows
<1>2. ASSUME NEW e \in Event, history'[w] = Append(history[w], e) PROVE Grows(w)
  BY <1>0, <1>2, SMT DEF Grows
<1>3. ASSUME NEW v \in Workflow, NEW e \in Event, Records(v, e)
      PROVE  history'[w] = history[w] \/ history'[w] = Append(history[w], e)
  BY <1>0, <1>3 DEF Records
<1> QED  BY <1>1, <1>2, <1>3 DEF HistoryStep

(* The events that other tables must agree with, and the steps that record *)
(* none of these.                                                          *)
Booked == {"ActivityScheduled", "TimerScheduled"} \cup FinishEvents

PlainStep ==
  UNCHANGED history \/ \E w \in Workflow, e \in Event : e.type \notin Booked /\ Records(w, e)

LEMMA PlainKeeps ==
  ASSUME TypeOK, PlainStep, NEW w \in Workflow
  PROVE  /\ Recorded(w, "ActivityScheduled")' = Recorded(w, "ActivityScheduled")
         /\ Recorded(w, "TimerScheduled")' = Recorded(w, "TimerScheduled")
         /\ Finishes(w)' = Finishes(w)
<1>0. history \in [Workflow -> Seq(Event)] /\ history[w] \in Seq(Event)
  BY DEF TypeOK, StoreTypeOK
<1>1. CASE history'[w] = history[w]
  BY <1>1 DEF Recorded, Finishes
<1>2. ASSUME NEW e \in Event, e.type \notin Booked, history'[w] = Append(history[w], e)
      PROVE  /\ Recorded(w, "ActivityScheduled")' = Recorded(w, "ActivityScheduled")
             /\ Recorded(w, "TimerScheduled")' = Recorded(w, "TimerScheduled")
             /\ Finishes(w)' = Finishes(w)
  <2>1. \A i : /\ i \in DOMAIN history[w] => i \in DOMAIN history'[w] /\ history'[w][i] = history[w][i]
               /\ i \in DOMAIN history'[w] => i \in DOMAIN history[w] \/ history'[w][i] = e
    BY <1>0, <1>2, SMT
  <2> QED  BY <1>2, <2>1 DEF Recorded, Finishes, Booked
<1>3. ASSUME NEW v \in Workflow, NEW e \in Event, Records(v, e)
      PROVE  history'[w] = history[w] \/ history'[w] = Append(history[w], e)
  BY <1>0, <1>3 DEF Records
<1> QED  BY <1>1, <1>2, <1>3 DEF PlainStep

LEMMA NextPlain ==
  ASSUME TypeOK, Next
  PROVE  \/ PlainStep
         \/ \E r \in running : ScheduleActivityRecord(r)
         \/ \E a \in arming : TimerScheduled(a.timer)
         \/ \E c \in completing : CompleteAppend(c)
<1>try. ASSUME NEW w \in Workflow, NEW e \in Event, TryAppendEvent(w, e) \/ AppendEvent(w, e),
               e.type \notin Booked
        PROVE  PlainStep
  BY <1>try DEF TryAppendEvent, AppendEvent, PlainStep, Records
<1> USE DEF storeVars
<1>e. /\ Ev("WorkflowStarted") \in Event /\ Ev("SignalReceived") \in Event
      /\ Ev("WorkflowCancelRequested") \in Event /\ Ev("WorkflowTimedOut") \in Event
      /\ \A n \in Nat : EvOf("TimerFired", n) \in Event
  BY EventTypes DEF EventType
<1>p. /\ Ev("WorkflowStarted").type \notin Booked /\ Ev("SignalReceived").type \notin Booked
      /\ Ev("WorkflowCancelRequested").type \notin Booked
      /\ Ev("WorkflowTimedOut").type \notin Booked
      /\ \A n : EvOf("TimerFired", n).type \notin Booked
  BY SMT DEF Ev, EvOf, Booked, FinishEvents
<1>1. ASSUME NEW w \in Workflow, StartWorkflow(w) PROVE PlainStep
  BY <1>1, <1>e, <1>p, <1>try
     DEF StartWorkflow, StartCreate, StartAppend, StartEnqueue, StartTimeout, CreateWorkflow, PlainStep
<1>2. CASE PollWorkflowTask
  BY <1>2 DEF PollWorkflowTask, PollDequeue, PollDequeueFails, PollRespond, PlainStep
<1>3. ASSUME NEW r \in running, Worker(r) PROVE PlainStep \/ ScheduleActivityRecord(r)
  BY <1>3
     DEF Worker, WaitForSignal, SleepReplayed, SleepFresh, QueueActivityReplayed,
         ScheduleActivityEnqueue, FunctionReturns, PlainStep
<1>4. ASSUME CompleteWorkflowTask PROVE PlainStep \/ \E c \in completing : CompleteAppend(c)
  BY <1>4
     DEF CompleteWorkflowTask, CompleteTake, CompleteApply, CompleteAck, PlainStep
<1>5. ASSUME NEW s \in Signal, SignalWorkflow(s) PROVE PlainStep
  <2>1. s[1] \in Workflow
    BY DEF Signal
  <2> QED  BY <1>5, <2>1, <1>e, <1>p, <1>try
     DEF SignalWorkflow, SignalRecord, SignalClaim, SignalRedispatch, PlainStep
<1>6. ASSUME NEW c \in Cancel, CancelWorkflow(c) PROVE PlainStep
  <2>1. c[1] \in Workflow
    BY DEF Cancel
  <2> QED  BY <1>6, <2>1, <1>e, <1>p, <1>try
     DEF CancelWorkflow, CancelLookup, CancelMark, CancelRecord, PlainStep
<1>7. ASSUME ScheduleTimer PROVE PlainStep \/ \E a \in arming : TimerScheduled(a.timer)
  BY <1>7 DEF ScheduleTimer, TimerHook, HookCallback, PlainStep
<1>8. CASE fireDue
  <2>1. \A t \in firing : t.wf \in Workflow /\ t.id \in Nat
    BY DEF TypeOK, TimerTypeOK, Timer
  <2> QED  BY <1>8, <2>1, <1>e, <1>p, <1>try
     DEF fireDue, TimerFetch, TimerFire, FetchDueTimers, FireTimer, PlainStep
<1>9. CASE Callback
  <2>1. \A g \in goroutines : g.timer.wf \in Workflow
    BY DEF TypeOK, TimerTypeOK, Timer
  <2> QED  BY <1>9, <2>1, <1>e, <1>p, <1>try
     DEF Callback, SleepClaim, SleepRedispatch, TimeoutCheck, TimeoutRecord, TimeoutApply, PlainStep
<1>10. CASE reclaimExpired \/ Losses \/ EngineCrash
  BY <1>10 DEF reclaimExpired, ReclaimCollect, RequeueAck, RequeueEnqueue,
     Losses, PollLost, StreamSendFails, WorkerDies, EngineCrash, PlainStep
<1> QED  BY <1>1, <1>2, <1>3, <1>4, <1>5, <1>6, <1>7, <1>8, <1>9, <1>10 DEF Next

LEMMA NextHistory ==
  ASSUME TypeOK, Next
  PROVE  HistoryStep
<1>try. ASSUME NEW w \in Workflow, NEW e \in Event, TryAppendEvent(w, e) \/ AppendEvent(w, e)
        PROVE  HistoryStep
  BY <1>try DEF TryAppendEvent, AppendEvent, HistoryStep, Records
<1>1. /\ \A n \in Nat : EvOf("ActivityScheduled", n) \in Event /\ EvOf("TimerScheduled", n) \in Event
      /\ \A out \in Outcome : Ev(OutcomeEvent(out)) \in Event
  BY EventTypes DEF EventType, Outcome, OutcomeEvent
<1>2. CASE PlainStep
  BY <1>2 DEF PlainStep, HistoryStep
<1>3. ASSUME NEW r \in running, ScheduleActivityRecord(r) PROVE HistoryStep
  <2>1. r.wf \in Workflow /\ ActivityName \in Nat
    BY SMT DEF TypeOK, Run, ActivityName
  <2> QED  BY <1>1, <1>3, <2>1, <1>try DEF ScheduleActivityRecord, HistoryStep
<1>4. ASSUME NEW c \in completing, CompleteAppend(c) PROVE HistoryStep
  <2>1. c.wf \in Workflow /\ c.out \in Outcome
    BY DEF TypeOK, Completion
  <2> QED  BY <1>1, <1>4, <2>1, <1>try DEF CompleteAppend
<1>5. ASSUME NEW a \in arming, TimerScheduled(a.timer) PROVE HistoryStep
  <2>1. a.timer.wf \in Workflow /\ a.timer.id \in Nat
    BY DEF TypeOK, TimerTypeOK, Timer
  <2> QED  BY <1>1, <1>5, <2>1, <1>try DEF TimerScheduled, AppendTimerScheduled
<1> QED  BY <1>2, <1>3, <1>4, <1>5, NextPlain

-----------------------------------------------------------------------------
(* The commands a run is done with, and the steps that touch a run.        *)

Cmd == {"signal", "sleep", "activity"}

(* The commands of a kind the run is done with, one being scheduled by the *)
(* second half of a ScheduleActivity call included.                        *)
Done(r, cmd) == {i \in DOMAIN Program : (i < r.k \/ (r.sched /\ i = r.k)) /\ Program[i] = cmd}

LEMMA SnapshotIs ==
  ASSUME TypeOK, NEW r \in Run, r.seen <= Len(history[r.wf])
  PROVE  /\ Len(Snapshot(r)) = r.seen
         /\ \A i \in 1 .. r.seen : Snapshot(r)[i] = history[r.wf][i] /\ i \in DOMAIN history[r.wf]
<1>1. r.seen \in Nat /\ history[r.wf] \in Seq(Event)
  BY DEF Run, TypeOK, StoreTypeOK
<1> QED  BY <1>1, SMT DEF Snapshot

(* Which steps touch the runs and the polls.                               *)
RunsSame == UNCHANGED <<running, activityTasks>> /\ polls' \subseteq polls

LEMMA NextRuns ==
  ASSUME Next
  PROVE  \/ RunsSame
         \/ \E e : PollDequeue(e)
         \/ \E e \in polls : PollRespond(e)
         \/ \E r \in running : Worker(r) \/ CompleteTake(r) \/ WorkerDies(r)
         \/ \E a \in arming : TimerScheduled(a.timer)
         \/ EngineCrash
<1> USE DEF callVars, envVars, RunsSame
<1>1. ASSUME NEW w, StartWorkflow(w) PROVE RunsSame
  BY <1>1 DEF StartWorkflow, StartCreate, StartAppend, StartEnqueue, StartTimeout
<1>2. ASSUME NEW e, PollDequeueFails(e) PROVE RunsSame
  BY <1>2 DEF PollDequeueFails
<1>3. ASSUME NEW c, CompleteAppend(c) \/ CompleteApply(c) \/ CompleteAck(c) PROVE RunsSame
  BY <1>3 DEF CompleteAppend, CompleteApply, CompleteAck
<1>4. ASSUME NEW s, SignalWorkflow(s) PROVE RunsSame
  BY <1>4 DEF SignalWorkflow, SignalRecord, SignalClaim, SignalRedispatch
<1>5. ASSUME NEW c, CancelWorkflow(c) PROVE RunsSame
  BY <1>5 DEF CancelWorkflow, CancelLookup, CancelMark, CancelRecord
<1>6. ASSUME NEW t, TimerHook(t) PROVE RunsSame
  BY <1>6 DEF TimerHook, DispatchUnchanged
<1>7. ASSUME fireDue PROVE RunsSame
  BY <1>7 DEF fireDue, TimerFetch, TimerFire, DispatchUnchanged
<1>8. ASSUME Callback PROVE RunsSame
  BY <1>8 DEF Callback, SleepClaim, SleepRedispatch, TimeoutCheck, TimeoutRecord, TimeoutApply
<1>9. ASSUME reclaimExpired PROVE RunsSame
  BY <1>9 DEF reclaimExpired, ReclaimCollect, RequeueAck, RequeueEnqueue
<1>10. ASSUME NEW e, PollLost(e) \/ StreamSendFails(e) PROVE RunsSame
  BY <1>10 DEF PollLost, StreamSendFails
<1> HIDE DEF RunsSame
<1> QED  BY <1>1, <1>2, <1>3, <1>4, <1>5, <1>6, <1>7, <1>8, <1>9, <1>10
            DEF Next, PollWorkflowTask, CompleteWorkflowTask, ScheduleTimer, Losses

-----------------------------------------------------------------------------
(* Entry ids: at most one holder each in the engine's tables.              *)

Apart(S, T, R) ==
  /\ \A x, y \in S : x.id = y.id => x = y
  /\ \A x, y \in T : x.id = y.id => x = y
  /\ \A x, y \in R : x.id = y.id => x = y
  /\ \A x \in S, y \in T : x.id # y.id
  /\ \A x \in S, y \in R : x.id # y.id
  /\ \A x \in T, y \in R : x.id # y.id

LEMMA ApartSwap ==
  ASSUME NEW S, NEW T, NEW R, Apart(S, T, R)
  PROVE  Apart(T, S, R) /\ Apart(S, R, T)
BY DEF Apart

LEMMA ApartAdd ==
  ASSUME NEW S, NEW T, NEW R, Apart(S, T, R), NEW x,
         \A y \in S \cup T \cup R : y.id # x.id
  PROVE  Apart(S \cup {x}, T, R)
<1>1. \A y \in S \cup {x} : y \in S \/ y = x
  BY SMT
<1> QED  BY <1>1 DEF Apart

LEMMA ApartMove ==
  ASSUME NEW S, NEW T, NEW R, Apart(S, T, R), NEW E \in SUBSET S, NEW N,
         \A x \in N : \E p \in E : x.id = p.id,
         \A x, y \in N : x.id = y.id => x = y
  PROVE  Apart(S \ E, T \cup N, R)
<1>1. \A y \in T \cup N : y \in T \/ y \in N
  OBVIOUS
<1>2. ASSUME NEW x \in N PROVE \A y \in T \cup R : x.id # y.id
  <2>1. PICK p \in E : x.id = p.id
    OBVIOUS
  <2>2. \A y \in T \cup R : p.id # y.id
    BY DEF Apart
  <2> QED  BY <2>1, <2>2
<1>3. \A x, y \in T \cup N : x.id = y.id => x = y
  <2>1. \A x, y \in T : x.id = y.id => x = y
    BY DEF Apart
  <2> QED  BY <1>1, <1>2, <2>1
<1>4. \A x \in S \ E, y \in T \cup N : x.id # y.id
  BY <1>1 DEF Apart
<1>5. \A x \in T \cup N, y \in R : x.id # y.id
  <2>1. \A x \in T, y \in R : x.id # y.id
    BY DEF Apart
  <2> QED  BY <1>1, <1>2, <2>1
<1> QED  BY <1>3, <1>4, <1>5 DEF Apart

LEMMA ApartTurn ==
  ASSUME NEW S, NEW T, NEW R, Apart(S, T, R), NEW x \in S, NEW y, y.id = x.id
  PROVE  Apart((S \ {x}) \cup {y}, T, R)
<1>1. Apart(S \ {x}, T, R) /\ \A z \in (S \ {x}) \cup T \cup R : z.id # y.id
  BY DEF Apart
<1> QED  BY <1>1, ApartAdd

(* An id that the stream has given out: no later entry will have it.       *)
InUse(n) == n \in Nat /\ n < nextId /\ \A i \in DOMAIN stream : stream[i].id # n

QueueStep ==
  \/ UNCHANGED <<stream, nextId>>
  \/ \E body : Enqueue(body)
  \/ \E e : Dequeue(e) /\ nextId' = nextId

LEMMA InUseKept ==
  ASSUME TypeOK, QueueStep, NEW n, InUse(n)
  PROVE  InUse(n)'
<1>0. stream \in Seq(Entry) /\ nextId \in Nat
  BY SMT DEF TypeOK
<1>1. CASE UNCHANGED <<stream, nextId>>
  BY <1>1 DEF InUse
<1>2. ASSUME NEW body, Enqueue(body) PROVE InUse(n)'
  <2>1. PICK e : e = [id |-> nextId, body |-> body]
    OBVIOUS
  <2>2. e.id = nextId /\ stream' = Append(stream, e) /\ nextId' = nextId + 1
    BY <1>2, <2>1 DEF Enqueue
  <2>3. \A i \in DOMAIN stream' : stream'[i] = e \/ (i \in DOMAIN stream /\ stream'[i] = stream[i])
    BY <1>0, <2>2, SMT
  <2>4. n # nextId /\ n < nextId'
    BY <1>0, <2>2, SMT DEF InUse
  <2> QED  BY <2>2, <2>3, <2>4 DEF InUse
<1>3. ASSUME NEW e, Dequeue(e), nextId' = nextId PROVE InUse(n)'
  <2>1. \A i \in DOMAIN stream' : \E j \in DOMAIN stream : stream'[i] = stream[j]
    BY <1>0, <1>3, SMT DEF Dequeue
  <2> QED  BY <1>3, <2>1 DEF InUse
<1> QED  BY <1>1, <1>2, <1>3 DEF QueueStep

LEMMA Delivered ==
  ASSUME TypeOK, StreamUnique, NEW e, Dequeue(e), nextId' = nextId
  PROVE  /\ e \in Entry /\ InUse(e.id)'
         /\ \A n : InUse(n) => n # e.id
<1>0. stream \in Seq(Entry) /\ nextId \in Nat /\ stream # <<>>
  BY SMT DEF TypeOK, Dequeue
<1>1. e \in Entry /\ 1 \in DOMAIN stream /\ e = stream[1]
  BY <1>0, SMT DEF Dequeue
<1>2. \A i \in DOMAIN stream' : i + 1 \in DOMAIN stream /\ i + 1 # 1 /\ stream'[i] = stream[i + 1]
  BY <1>0, SMT DEF Dequeue
<1>3. e.id \in Nat /\ e.id < nextId
  BY <1>1, SMT DEF StreamUnique, Entry
<1>4. \A i \in DOMAIN stream' : stream'[i].id # e.id
  BY <1>1, <1>2 DEF StreamUnique
<1> QED  BY <1>1, <1>3, <1>4 DEF InUse

LEMMA NextQueue ==
  ASSUME Next
  PROVE  QueueStep
<1> USE DEF queueVars, QueueStep
<1>1. ASSUME NEW w, StartWorkflow(w) PROVE QueueStep
  BY <1>1 DEF StartWorkflow, StartCreate, StartAppend, StartEnqueue, StartTimeout
<1>2. CASE PollWorkflowTask
  BY <1>2 DEF PollWorkflowTask, PollDequeue, PollDequeueFails, PollRespond
<1>3. ASSUME NEW r, Worker(r) PROVE QueueStep
  BY <1>3
     DEF Worker, WaitForSignal, SleepReplayed, SleepFresh, QueueActivityReplayed, WorkerOnly,
         ScheduleActivityRecord, ScheduleActivityEnqueue, FunctionReturns
<1>4. CASE CompleteWorkflowTask
  BY <1>4 DEF CompleteWorkflowTask, CompleteTake, CompleteAppend, CompleteApply, CompleteAck
<1>5. ASSUME NEW x, SignalWorkflow(x) PROVE QueueStep
  BY <1>5 DEF SignalWorkflow, SignalRecord, SignalClaim, SignalRedispatch,
                     redispatchWorkflowTask, TryEnqueue
<1>6. ASSUME NEW x, CancelWorkflow(x) PROVE QueueStep
  BY <1>6 DEF CancelWorkflow, CancelLookup, CancelMark, CancelRecord
<1>7. CASE ScheduleTimer \/ fireDue
  BY <1>7 DEF ScheduleTimer, TimerHook, TimerScheduled, fireDue, TimerFetch, TimerFire,
                     DispatchUnchanged
<1>8. CASE Callback
  BY <1>8 DEF Callback, SleepClaim, SleepRedispatch, TimeoutCheck, TimeoutRecord,
                     TimeoutApply, redispatchWorkflowTask, TryEnqueue
<1>9. CASE reclaimExpired
  BY <1>9 DEF reclaimExpired, ReclaimCollect, RequeueAck, RequeueEnqueue, TryEnqueue
<1>10. CASE Losses \/ EngineCrash
  BY <1>10 DEF Losses, PollLost, StreamSendFails, WorkerDies, EngineCrash
<1> QED  BY <1>1, <1>2, <1>3, <1>4, <1>5, <1>6, <1>7, <1>8, <1>9, <1>10 DEF Next

-----------------------------------------------------------------------------
(* Runs and ScheduleTimer calls.                                           *)

(* A run in the middle of ScheduleActivity does nothing else.              *)
SchedOK(r) == r.sched => r.out = "none" /\ r.timer = 0 /\ r.k \in DOMAIN Program

WorkInv ==
  /\ Apart(polls, running, {})
  /\ \A x \in polls \cup running : InUse(x.id)
  /\ IsFiniteSet(running)
  /\ \A r \in running : SchedOK(r)
  /\ \A a \in arming : a.timer.id # 0

(* One step of a run, as far as the queue of activities can tell.          *)
Turns(r, q) == Becomes(r, q) /\ q.id = r.id /\ q.wf = r.wf /\ SchedOK(q)

LEMMA WorkerTurns ==
  ASSUME TypeOK, NEW r \in running, Worker(r), SchedOK(r)
  PROVE  \/ /\ ~r.sched /\ activityTasks' = activityTasks
            /\ \E q : Turns(r, q) /\ ~q.sched
         \/ ScheduleActivityRecord(r) /\ ~r.sched /\ \E q : Turns(r, q) /\ q.sched
         \/ ScheduleActivityEnqueue(r) /\ r.sched /\ \E q : Turns(r, q) /\ ~q.sched
<1>0. r \in Run
  BY DEF TypeOK
<1> USE DEF WorkerOnly
<1> DEFINE Plain == \E q : Turns(r, q) /\ ~q.sched
<1>1. ASSUME NEW q, Becomes(r, q), ~r.sched, q.id = r.id, q.wf = r.wf, q.sched = r.sched
      PROVE  Plain
  BY <1>1 DEF Turns, SchedOK
<1> HIDE DEF Plain
<1>a. ASSUME ~r.sched, NEW c, Becomes(r, [r EXCEPT !.k = @ + 1, !.cursor = c]) PROVE Plain
  <2>1. PICK q : q = [r EXCEPT !.k = @ + 1, !.cursor = c]
    OBVIOUS
  <2>2. q.id = r.id /\ q.wf = r.wf /\ q.sched = r.sched
    BY <1>0, <2>1, SMT DEF Run
  <2> QED  BY <1>1, <1>a, <2>1, <2>2
<1>b. ASSUME ~r.sched, Becomes(r, [r EXCEPT !.k = @ + 1]) PROVE Plain
  <2>1. PICK q : q = [r EXCEPT !.k = @ + 1]
    OBVIOUS
  <2>2. q.id = r.id /\ q.wf = r.wf /\ q.sched = r.sched
    BY <1>0, <2>1, SMT DEF Run
  <2> QED  BY <1>1, <1>b, <2>1, <2>2
<1>c. ASSUME ~r.sched, NEW out, Becomes(r, [r EXCEPT !.out = out]) PROVE Plain
  <2>1. PICK q : q = [r EXCEPT !.out = out]
    OBVIOUS
  <2>2. q.id = r.id /\ q.wf = r.wf /\ q.sched = r.sched
    BY <1>0, <2>1, SMT DEF Run
  <2> QED  BY <1>1, <1>c, <2>1, <2>2
<1>d. ASSUME ~r.sched, NEW t, Becomes(r, [r EXCEPT !.timer = t]) PROVE Plain
  <2>1. PICK q : q = [r EXCEPT !.timer = t]
    OBVIOUS
  <2>2. q.id = r.id /\ q.wf = r.wf /\ q.sched = r.sched
    BY <1>0, <2>1, SMT DEF Run
  <2> QED  BY <1>1, <1>d, <2>1, <2>2
<1>2. CASE WaitForSignal(r)
  BY <1>a, <1>c, <1>2 DEF WaitForSignal, AtCommand, Plain
<1>3. CASE SleepReplayed(r)
  BY <1>a, <1>c, <1>3 DEF SleepReplayed, AtCommand, Plain
<1>4. CASE SleepFresh(r)
  BY <1>b, <1>d, <1>4 DEF SleepFresh, AtCommand, Plain
<1>5. CASE QueueActivityReplayed(r)
  BY <1>a, <1>5 DEF QueueActivityReplayed, AtCommand, Plain
<1>6. CASE ScheduleActivityRecord(r)
  <2>1. ~r.sched /\ r.out = "none" /\ r.timer = 0 /\ r.k \in DOMAIN Program
    BY <1>6 DEF ScheduleActivityRecord, AtCommand
  <2>2. CASE Becomes(r, [r EXCEPT !.sched = TRUE])
    <3>1. PICK q : q = [r EXCEPT !.sched = TRUE]
      OBVIOUS
    <3>2. q.id = r.id /\ q.wf = r.wf /\ q.sched /\ q.out = r.out /\ q.timer = r.timer /\ q.k = r.k
      BY <1>0, <3>1, SMT DEF Run
    <3>3. Turns(r, q)
      BY <2>1, <2>2, <3>1, <3>2 DEF Turns, SchedOK
    <3> QED  BY <1>6, <2>1, <3>2, <3>3
  <2>3. CASE Becomes(r, [r EXCEPT !.k = @ + 1])
    BY <1>b, <1>6, <2>1, <2>3 DEF ScheduleActivityRecord, Plain
  <2> QED  BY <1>6, <2>2, <2>3 DEF ScheduleActivityRecord
<1>7. CASE ScheduleActivityEnqueue(r)
  <2>1. PICK q : q = [r EXCEPT !.k = @ + 1, !.sched = FALSE]
    OBVIOUS
  <2>2. q.id = r.id /\ q.wf = r.wf /\ ~q.sched
    BY <1>0, <2>1, SMT DEF Run
  <2>3. r.sched /\ Becomes(r, q)
    BY <1>7, <2>1 DEF ScheduleActivityEnqueue
  <2> QED  BY <1>7, <2>2, <2>3 DEF Turns, SchedOK
<1>8. CASE FunctionReturns(r)
  <2>1. ~r.sched
    <3>1. Program \in Seq({"signal", "sleep", "activity"}) /\ r.k \in Nat
      BY <1>0, DispatchAssumption DEF Run
    <3>2. r.k > Len(Program) => r.k \notin DOMAIN Program
      BY <3>1, SMT
    <3> QED  BY <1>8, <3>2 DEF FunctionReturns, SchedOK
  <2> QED  BY <1>c, <1>8, <2>1 DEF FunctionReturns, Plain
<1> QED  BY <1>2, <1>3, <1>4, <1>5, <1>6, <1>7, <1>8 DEF Worker

(* Steps that turn every run r into F(r) of the same id.                   *)
LEMMA ScheduledTurns ==
  ASSUME TypeOK, WorkInv, NEW a \in arming, TimerScheduled(a.timer)
  PROVE  \E F \in [running -> running'] :
           /\ running' = {F[r] : r \in running}
           /\ \A r \in running : F[r].id = r.id /\ F[r].wf = r.wf /\ F[r].sched = r.sched
                                 /\ SchedOK(F[r]) /\ (r.sched => F[r] = r)
<1>1. PICK F : F = [r \in running |-> IF r.timer = a.timer.id
                                        THEN [r EXCEPT !.timer = 0, !.out = "yield"] ELSE r]
  OBVIOUS
<1>2. running' = {F[r] : r \in running} /\ F \in [running -> running']
  BY <1>1 DEF TimerScheduled
<1>3. \A r \in running : r.sched => r.timer # a.timer.id
  BY DEF WorkInv, SchedOK
<1>4. ASSUME NEW r \in running PROVE F[r].id = r.id /\ F[r].wf = r.wf /\ F[r].sched = r.sched
  <2>1. PICK q : q = [r EXCEPT !.timer = 0, !.out = "yield"]
    OBVIOUS
  <2>2. q.id = r.id /\ q.wf = r.wf /\ q.sched = r.sched
    BY <2>1, SMT DEF TypeOK, Run
  <2>3. F[r] = q \/ F[r] = r
    BY <1>1, <2>1
  <2> QED  BY <2>2, <2>3
<1>5. \A r \in running : r.sched => F[r] = r
  BY <1>1, <1>3
<1>6. \A r \in running : SchedOK(F[r])
  BY <1>4, <1>5 DEF WorkInv, SchedOK
<1> QED  BY <1>2, <1>4, <1>5, <1>6

LEMMA CrashTurns ==
  ASSUME TypeOK, EngineCrash
  PROVE  \E F \in [running -> running'] :
           /\ running' = {F[r] : r \in running}
           /\ \A r \in running : F[r].id = r.id /\ F[r].wf = r.wf /\ ~F[r].sched
<1>1. PICK F : F = [r \in running |-> IF r.timer = 0 /\ ~r.sched THEN r
                                        ELSE [r EXCEPT !.k = @ + 1, !.timer = 0, !.sched = FALSE]]
  OBVIOUS
<1>2. running' = {F[r] : r \in running} /\ F \in [running -> running']
  BY <1>1 DEF EngineCrash
<1>3. ASSUME NEW r \in running PROVE F[r].id = r.id /\ F[r].wf = r.wf /\ ~F[r].sched
  <2>1. PICK q : q = [r EXCEPT !.k = @ + 1, !.timer = 0, !.sched = FALSE]
    OBVIOUS
  <2>2. q.id = r.id /\ q.wf = r.wf /\ ~q.sched
    BY <2>1, SMT DEF TypeOK, Run
  <2>3. F[r] = q \/ (F[r] = r /\ ~r.sched)
    BY <1>1, <2>1
  <2> QED  BY <2>2, <2>3
<1> QED  BY <1>2, <1>3

(* How the table of ScheduleTimer calls changes.                           *)
ArmingStep ==
  \/ arming' \subseteq arming /\ nextTimer' = nextTimer
  \/ \E t : HookCallback(t) /\ UNCHANGED running
  \/ ExecTimeout /\ \E t : InsertTimer(t)
  \/ \E r \in running : SleepFresh(r) /\ \E t : InsertTimer(t)

LEMMA NextArming ==
  ASSUME Next
  PROVE  ArmingStep
<1> USE DEF timerVars
<1>s. ASSUME arming' \subseteq arming, nextTimer' = nextTimer PROVE ArmingStep
  BY <1>s DEF ArmingStep
<1>1. ASSUME NEW w, StartWorkflow(w) PROVE ArmingStep
  BY <1>1, <1>s
     DEF StartWorkflow, StartCreate, StartAppend, StartEnqueue, StartTimeout, ArmingStep
<1>2. ASSUME PollWorkflowTask PROVE ArmingStep
  BY <1>2, <1>s DEF PollWorkflowTask, PollDequeue, PollDequeueFails, PollRespond
<1>3. ASSUME NEW r \in running, Worker(r) PROVE ArmingStep
  <2>1. CASE SleepFresh(r)
    BY <1>s, <2>1 DEF SleepFresh, ArmingStep
  <2> QED  BY <1>3, <1>s, <2>1
     DEF Worker, WaitForSignal, SleepReplayed, QueueActivityReplayed,
         ScheduleActivityRecord, ScheduleActivityEnqueue, FunctionReturns
<1>4. ASSUME CompleteWorkflowTask PROVE ArmingStep
  BY <1>4, <1>s
     DEF CompleteWorkflowTask, CompleteTake, CompleteAppend, CompleteApply, CompleteAck
<1>5. ASSUME NEW x, SignalWorkflow(x) PROVE ArmingStep
  BY <1>5, <1>s DEF SignalWorkflow, SignalRecord, SignalClaim, SignalRedispatch
<1>6. ASSUME NEW x, CancelWorkflow(x) PROVE ArmingStep
  BY <1>6, <1>s DEF CancelWorkflow, CancelLookup, CancelMark, CancelRecord
<1>7. ASSUME ScheduleTimer \/ fireDue PROVE ArmingStep
  <2>1. ASSUME NEW t, TimerHook(t) PROVE ArmingStep
    BY <2>1 DEF TimerHook, ArmingStep
  <2> QED  BY <1>7, <1>s, <2>1
     DEF ScheduleTimer, TimerScheduled, AppendTimerScheduled,
         fireDue, TimerFetch, TimerFire, FetchDueTimers, FireTimer
<1>8. ASSUME Callback PROVE ArmingStep
  BY <1>8, <1>s DEF Callback, SleepClaim, SleepRedispatch, TimeoutCheck, TimeoutRecord,
                           TimeoutApply
<1>9. ASSUME reclaimExpired \/ Losses PROVE ArmingStep
  BY <1>9, <1>s DEF reclaimExpired, ReclaimCollect, RequeueAck, RequeueEnqueue,
                           Losses, PollLost, StreamSendFails, WorkerDies
<1>10. ASSUME EngineCrash PROVE ArmingStep
  BY <1>10, <1>s DEF EngineCrash, TimerCrash
<1> QED  BY <1>1, <1>2, <1>3, <1>4, <1>5, <1>6, <1>7, <1>8, <1>9, <1>10 DEF Next

(* A call of ScheduleTimer is about one timer, from its row to its event.  *)
LEMMA InsertArms ==
  ASSUME NEW t, InsertTimer(t)
  PROVE  /\ t.id = nextTimer /\ nextTimer' = nextTimer + 1
         /\ \E b : b.timer = t /\ arming' = arming \cup {b}
<1>1. PICK b : b = [timer |-> t, step |-> "inserted"]
  OBVIOUS
<1>2. b.timer = t
  BY <1>1, SMT
<1> QED  BY <1>1, <1>2 DEF InsertTimer

LEMMA HookArms ==
  ASSUME NEW t, HookCallback(t)
  PROVE  /\ nextTimer' = nextTimer
         /\ \E b \in arming : \E c : b.timer = t /\ c.timer = t /\ arming' = (arming \ {b}) \cup {c}
<1>1. PICK b, c : b = [timer |-> t, step |-> "inserted"] /\ c = [timer |-> t, step |-> "hooked"]
  OBVIOUS
<1>2. b.timer = t /\ c.timer = t
  BY <1>1, SMT
<1> QED  BY <1>1, <1>2 DEF HookCallback

LEMMA NextWork ==
  ASSUME TypeOK, StreamUnique, WorkInv, Next
  PROVE  WorkInv'
<1>less. ASSUME NEW S, NEW T, NEW R, Apart(S, T, R), NEW S2 \in SUBSET S PROVE Apart(S2, T, R)
  BY <1>less DEF Apart
<1>nonzero. ASSUME \A a \in arming : a.timer.id # 0 PROVE \A a \in arming' : a.timer.id # 0
  <2> USE <1>nonzero
  <2>1. nextTimer # 0
    BY SMT DEF TypeOK, TimerTypeOK
  <2>2. ASSUME NEW t, InsertTimer(t) PROVE \A a \in arming' : a.timer.id # 0
    <3>1. PICK b : b.timer = t /\ arming' = arming \cup {b} /\ t.id = nextTimer
      BY <2>2, InsertArms
    <3> QED  BY <2>1, <3>1
  <2>3. ASSUME NEW t, HookCallback(t) PROVE \A a \in arming' : a.timer.id # 0
    <3>1. PICK b \in arming : \E c : b.timer = t /\ c.timer = t /\ arming' = (arming \ {b}) \cup {c}
      BY <2>3, HookArms
    <3> QED  BY <3>1
  <2> QED  BY <2>2, <2>3, NextArming DEF ArmingStep
(* No id is new: the parts of WorkInv that are left to show.               *)
<1>parts. ASSUME QueueStep, \A a \in arming' : a.timer.id # 0, Apart(polls', running', {}),
                 IsFiniteSet(running'), \A r \in running' : SchedOK(r),
                 \A x \in polls' \cup running' : \E y \in polls \cup running : x.id = y.id
          PROVE  WorkInv'
  <2> USE <1>parts
  <2>1. \A x \in polls' \cup running' : InUse(x.id)'
    BY InUseKept DEF WorkInv
  <2>2. Apart(polls, running, {})'
    BY DEF Apart
  <2> QED  BY <2>1, <2>2 DEF WorkInv, SchedOK
<1>mapped. ASSUME QueueStep, \A a \in arming' : a.timer.id # 0, polls' \subseteq polls,
                  NEW F \in [running -> running'], running' = {F[r] : r \in running},
                  \A r \in running : F[r].id = r.id /\ SchedOK(F[r])
           PROVE  WorkInv'
  <2> USE <1>mapped
  <2>0. /\ \A r, q \in running : r.id = q.id => r = q
        /\ \A e, f \in polls : e.id = f.id => e = f
        /\ \A e \in polls, r \in running : e.id # r.id
    BY DEF WorkInv, Apart
  <2>1. ASSUME NEW x \in running' PROVE \E y \in running : x = F[y] /\ x.id = y.id
    <3>1. PICK y \in running : x = F[y]
      OBVIOUS
    <3>2. F[y].id = y.id
      OBVIOUS
    <3> QED  BY <3>1, <3>2
  <2>2. \A x, y \in running' : x.id = y.id => x = y
    <3> SUFFICES ASSUME NEW x \in running', NEW y \in running', x.id = y.id PROVE x = y
      OBVIOUS
    <3>1. PICK r \in running : x = F[r] /\ x.id = r.id
      BY <2>1
    <3>2. PICK s \in running : y = F[s] /\ y.id = s.id
      BY <2>1
    <3>3. r.id = s.id
      BY <3>1, <3>2, SMT
    <3>4. r = s
      BY <2>0, <3>3
    <3> QED  BY <3>1, <3>2, <3>4
  <2>3. Apart(polls', running', {})
    <3>1. ASSUME NEW x \in polls', NEW y \in running' PROVE x.id # y.id
      <4>1. PICK r \in running : y.id = r.id
        BY <2>1
      <4>2. x \in polls
        OBVIOUS
      <4> QED  BY <2>0, <4>1, <4>2
    <3>2. \A x, y \in polls' : x.id = y.id => x = y
      BY <2>0
    <3> QED  BY <2>2, <3>1, <3>2 DEF Apart
  <2>4. IsFiniteSet(running')
    <3>1. F \in Surjection(running, running')
      BY DEF Surjection
    <3> QED  BY <3>1, FS_Surjection DEF WorkInv
  <2>5. \A r \in running' : SchedOK(r)
    OBVIOUS
  <2>6. \A x \in polls' \cup running' : \E y \in polls \cup running : x.id = y.id
    BY <2>1
  <2> QED  BY <2>3, <2>4, <2>5, <2>6, <1>parts
<1>0. QueueStep /\ \A a \in arming' : a.timer.id # 0
  BY NextQueue, <1>nonzero DEF WorkInv
<1>a. /\ Apart(polls, running, {}) /\ Apart(running, polls, {}) /\ IsFiniteSet(running)
      /\ \A r \in running : SchedOK(r)
  BY ApartSwap DEF WorkInv
<1>1. CASE RunsSame
  <2>1. polls' \in SUBSET polls /\ running' = running
    BY <1>1 DEF RunsSame
  <2>2. Apart(polls', running', {})
    BY <1>a, <2>1, <1>less
  <2> QED  BY <1>0, <1>a, <2>1, <2>2, <1>parts
<1>2. ASSUME NEW e, PollDequeue(e) PROVE WorkInv'
  <2>1. Dequeue(e) /\ nextId' = nextId /\ polls' = polls \cup {e} /\ running' = running
    BY <1>2 DEF PollDequeue, envVars
  <2>2. InUse(e.id)' /\ \A x \in polls \cup running : x.id # e.id
    BY <2>1, Delivered DEF WorkInv
  <2>3. Apart(polls \cup {e}, running, {})
    BY <1>a, <2>2, ApartAdd
  <2>4. Apart(polls, running, {})'
    BY <2>1, <2>3 DEF Apart
  <2>5. \A x \in polls' \cup running' : InUse(x.id)'
    BY <1>0, <2>1, <2>2, InUseKept DEF WorkInv
  <2> QED  BY <1>0, <1>a, <2>1, <2>4, <2>5 DEF WorkInv, SchedOK
<1>3. ASSUME NEW e \in polls, PollRespond(e) PROVE WorkInv'
  <2>1. PICK seen : running' = running \cup
            {[id |-> e.id, wf |-> e.body.wf, seen |-> seen, k |-> 1,
              cursor |-> 1, timer |-> 0, sched |-> FALSE, out |-> "none"]}
    BY <1>3 DEF PollRespond
  <2>2. PICK q : q = [id |-> e.id, wf |-> e.body.wf, seen |-> seen, k |-> 1,
                      cursor |-> 1, timer |-> 0, sched |-> FALSE, out |-> "none"]
    OBVIOUS
  <2>3. q.id = e.id /\ SchedOK(q) /\ running' = running \cup {q} /\ polls' = polls \ {e}
    BY <1>3, <2>1, <2>2 DEF PollRespond, SchedOK
  <2>4. Apart(polls', running', {})
    <3>1. {e} \in SUBSET polls
      OBVIOUS
    <3>2. (\A y \in {q} : \E z \in {e} : y.id = z.id) /\ \A y, z \in {q} : y.id = z.id => y = z
      BY <2>3
    <3> QED  BY <1>a, <2>3, <3>1, <3>2, ApartMove
  <2>5. IsFiniteSet(running') /\ \A r \in running' : SchedOK(r)
    BY <1>a, <2>3, FS_AddElement
  <2>6. \A x \in polls' \cup running' : \E y \in polls \cup running : x.id = y.id
    BY <2>3
  <2> QED  BY <1>0, <2>4, <2>5, <2>6, <1>parts
<1>4. ASSUME NEW r \in running, Worker(r) PROVE WorkInv'
  <2>1. PICK q : Turns(r, q)
    BY <1>4, <1>a, WorkerTurns
  <2>2. /\ running' = (running \ {r}) \cup {q} /\ q.id = r.id /\ SchedOK(q)
        /\ polls' = polls
    <3>1. polls' = polls
      BY <1>4 DEF Worker, WaitForSignal, SleepReplayed, SleepFresh, QueueActivityReplayed,
         ScheduleActivityRecord, ScheduleActivityEnqueue, FunctionReturns, WorkerOnly, callVars
    <3> QED  BY <2>1, <3>1 DEF Turns, Becomes
  <2>3. Apart(polls', running', {})
    BY <1>a, <2>2, ApartTurn, ApartSwap
  <2>4. IsFiniteSet(running')
    BY <1>a, <2>2, FS_AddElement, FS_RemoveElement
  <2>5. \A x \in running' : SchedOK(x)
    BY <1>a, <2>2
  <2>6. \A x \in polls' \cup running' : \E y \in polls \cup running : x.id = y.id
    BY <2>2
  <2> QED  BY <1>0, <2>3, <2>4, <2>5, <2>6, <1>parts
<1>5. ASSUME NEW r \in running, CompleteTake(r) \/ WorkerDies(r) PROVE WorkInv'
  <2>1. running' = running \ {r} /\ polls' = polls
    BY <1>5 DEF CompleteTake, WorkerDies, callVars
  <2>2. running' \in SUBSET running /\ IsFiniteSet(running')
    BY <1>a, <2>1, FS_RemoveElement
  <2>3. Apart(polls', running', {})
    BY <1>a, <2>1, <2>2, <1>less, ApartSwap
  <2> QED  BY <1>0, <1>a, <2>1, <2>2, <2>3, <1>parts
<1>6. ASSUME NEW a \in arming, TimerScheduled(a.timer) PROVE WorkInv'
  <2>1. polls' = polls
    BY <1>6 DEF TimerScheduled, DispatchUnchanged, callVars
  <2> QED  BY <1>0, <1>6, <2>1, ScheduledTurns, <1>mapped
<1>7. ASSUME EngineCrash PROVE WorkInv'
  <2>1. polls' = {}
    BY <1>7 DEF EngineCrash
  <2>2. \A r : ~r.sched => SchedOK(r)
    BY DEF SchedOK
  <2> QED  BY <1>0, <1>7, <2>1, <2>2, CrashTurns, <1>mapped
<1> QED  BY <1>1, <1>2, <1>3, <1>4, <1>5, <1>6, <1>7, NextRuns

LEMMA NextLosses ==
  ASSUME TypeOK, Next, losses' = 0
  PROVE  losses = 0 /\ ~Lose(1) /\ \A r : ~WorkerDies(r)
<1>1. losses \in Nat /\ (Lose(1) => losses' = losses + 1)
  BY DispatchAssumption, SMT DEF TypeOK, Lose
<1>2. ~Lose(1)
  BY <1>1, SMT
<1>3. losses' = losses
  <2> USE DEF envVars
  <2>1. ASSUME NEW w, StartWorkflow(w) PROVE losses' = losses
    BY <2>1 DEF StartWorkflow, StartCreate, StartAppend, StartEnqueue, StartTimeout
  <2>2. CASE PollWorkflowTask
    BY <2>2 DEF PollWorkflowTask, PollDequeue, PollDequeueFails, PollRespond
  <2>3. ASSUME NEW r, Worker(r) PROVE losses' = losses
    BY <2>3
       DEF Worker, WaitForSignal, SleepReplayed, SleepFresh, QueueActivityReplayed, WorkerOnly,
           ScheduleActivityRecord, ScheduleActivityEnqueue, FunctionReturns
  <2>4. CASE CompleteWorkflowTask
    BY <2>4 DEF CompleteWorkflowTask, CompleteTake, CompleteAppend, CompleteApply, CompleteAck
  <2>5. ASSUME NEW x, SignalWorkflow(x) PROVE losses' = losses
    BY <2>5 DEF SignalWorkflow, SignalRecord, SignalClaim, SignalRedispatch
  <2>6. ASSUME NEW x, CancelWorkflow(x) PROVE losses' = losses
    BY <2>6 DEF CancelWorkflow, CancelLookup, CancelMark, CancelRecord
  <2>7. CASE ScheduleTimer \/ fireDue
    BY <2>7 DEF ScheduleTimer, TimerHook, TimerScheduled, fireDue, TimerFetch, TimerFire,
                       DispatchUnchanged
  <2>8. CASE Callback
    BY <2>8 DEF Callback, SleepClaim, SleepRedispatch, TimeoutCheck, TimeoutRecord,
                       TimeoutApply
  <2>9. CASE reclaimExpired \/ Losses
    BY <1>2, <2>9 DEF reclaimExpired, ReclaimCollect, RequeueAck, RequeueEnqueue,
                             Losses, PollLost, StreamSendFails, WorkerDies
  <2>10. CASE EngineCrash
    BY <2>10 DEF EngineCrash
  <2> QED  BY <2>1, <2>2, <2>3, <2>4, <2>5, <2>6, <2>7, <2>8, <2>9, <2>10 DEF Next
<1> QED  BY <1>2, <1>3 DEF WorkerDies

LEMMA RecordedOne ==
  ASSUME TypeOK, NEW v \in Workflow, NEW e, AppendEvent(v, e), NEW w \in Workflow, NEW type
  PROVE  /\ \E n : Recorded(w, type)' \subseteq Recorded(w, type) \cup {n}
         /\ w # v => Recorded(w, type)' = Recorded(w, type)
<1>0. history \in [Workflow -> Seq(Event)]
  BY DEF TypeOK, StoreTypeOK
<1>1. w # v => history'[w] = history[w]
  BY <1>0 DEF AppendEvent
<1>2. \A i \in DOMAIN history'[w] : i = Len(history[w]) + 1
                                     \/ (i \in DOMAIN history[w] /\ history'[w][i] = history[w][i])
  <2>1. history[w] \in Seq(Event)
    BY <1>0
  <2>2. history'[w] = history[w] \/ history'[w] = Append(history[w], e)
    BY <1>0 DEF AppendEvent
  <2> QED  BY <2>1, <2>2, SMT
<1>3. Recorded(w, type)' \subseteq Recorded(w, type) \cup {Len(history[w]) + 1}
  BY <1>2 DEF Recorded
<1> QED  BY <1>1, <1>3 DEF Recorded

LEMMA RecordedNot ==
  ASSUME TypeOK, NEW v \in Workflow, NEW e \in Event, TryAppendEvent(v, e), NEW w \in Workflow,
         NEW type, e.type # type
  PROVE  Recorded(w, type)' = Recorded(w, type)
<1>1. history \in [Workflow -> Seq(Event)] /\ history[w] \in Seq(Event)
  BY DEF TypeOK, StoreTypeOK
<1>2. history'[w] = history[w] \/ history'[w] = Append(history[w], e)
  BY <1>1 DEF TryAppendEvent, AppendEvent
<1>3. CASE history'[w] = history[w]
  BY <1>3 DEF Recorded
<1>4. CASE history'[w] = Append(history[w], e)
  <2>1. \A i : /\ i \in DOMAIN history[w] => i \in DOMAIN history'[w] /\ history'[w][i] = history[w][i]
               /\ i \in DOMAIN history'[w] => i \in DOMAIN history[w] \/ history'[w][i] = e
    BY <1>1, <1>4, SMT
  <2> QED  BY <2>1 DEF Recorded
<1> QED  BY <1>2, <1>3, <1>4

-----------------------------------------------------------------------------
(* Steps while no call fails and no worker is given up on.                 *)

LEMMA NextFaults ==
  ASSUME TypeOK, Next, faults' = 0
  PROVE  faults = 0 /\ ~Fault
<1>1. faults \in Nat /\ (Fault => faults' = faults + 1)
  BY SMT DEF TypeOK, StoreTypeOK, Fault
<1>2. ~Fault
  BY <1>1, SMT
<1>3. faults' = faults
  <2> USE DEF storeVars, NoFault
  <2>1. ASSUME NEW w, StartWorkflow(w) PROVE faults' = faults
    BY <1>2, <2>1 DEF StartWorkflow, StartCreate, StartAppend, StartEnqueue, StartTimeout
  <2>2. ASSUME PollWorkflowTask PROVE faults' = faults
    BY <1>2, <2>2 DEF PollWorkflowTask, PollDequeue, PollDequeueFails, PollRespond
  <2>3. ASSUME NEW r, Worker(r) PROVE faults' = faults
    BY <1>2, <2>3
       DEF Worker, WaitForSignal, SleepReplayed, SleepFresh, QueueActivityReplayed,
           ScheduleActivityRecord, ScheduleActivityEnqueue, FunctionReturns
  <2>4. ASSUME CompleteWorkflowTask PROVE faults' = faults
    BY <1>2, <2>4 DEF CompleteWorkflowTask, CompleteTake, CompleteAppend, CompleteApply,
                             CompleteAck, TryAppendEvent, TryCompleteWorkflow, TryAck
  <2>5. ASSUME NEW x, SignalWorkflow(x) PROVE faults' = faults
    BY <1>2, <2>5 DEF SignalWorkflow, SignalRecord, SignalClaim, SignalRedispatch,
                             redispatchWorkflowTask, TryEnqueue
  <2>6. ASSUME NEW x, CancelWorkflow(x) PROVE faults' = faults
    BY <1>2, <2>6 DEF CancelWorkflow, CancelLookup, CancelMark, CancelRecord, TryAppendEvent
  <2>7. ASSUME ScheduleTimer \/ fireDue PROVE faults' = faults
    BY <1>2, <2>7 DEF ScheduleTimer, TimerHook, TimerScheduled, fireDue, TimerFetch, TimerFire,
                             HookCallback, AppendTimerScheduled, FetchDueTimers, FireTimer, TryAppendEvent
  <2>8. ASSUME Callback PROVE faults' = faults
    BY <1>2, <2>8 DEF Callback, SleepClaim, SleepRedispatch, TimeoutCheck, TimeoutRecord,
                             TimeoutApply, redispatchWorkflowTask, TryEnqueue, TryAppendEvent,
                             TryCompleteWorkflow
  <2>9. ASSUME reclaimExpired \/ Losses PROVE faults' = faults
    BY <1>2, <2>9 DEF reclaimExpired, ReclaimCollect, RequeueAck, RequeueEnqueue,
                             Losses, PollLost, StreamSendFails, WorkerDies, TryAck, TryEnqueue
  <2>10. ASSUME EngineCrash PROVE faults' = faults
    BY <2>10 DEF EngineCrash
  <2> QED  BY <2>1, <2>2, <2>3, <2>4, <2>5, <2>6, <2>7, <2>8, <2>9, <2>10 DEF Next
<1> QED  BY <1>2, <1>3

(* Who takes a task out of the token table.                                *)
Leaves(p) ==
  \/ EngineCrash
  \/ \E r \in running : r.id = p.id /\ CompleteTake(r)
  \/ ~WorkedOn(p) /\ UNCHANGED <<polls, running>>

LEMMA NextTable ==
  ASSUME Next, ~Lose(1), NEW p \in pendingWfTasks, p \notin pendingWfTasks'
  PROVE  Leaves(p)
<1> USE DEF memVars
<1>1. \A w : ~StartWorkflow(w)
  BY DEF StartWorkflow, StartCreate, StartAppend, StartEnqueue, StartTimeout
<1>2. ~PollWorkflowTask
  BY DEF PollWorkflowTask, PollDequeue, PollDequeueFails, PollRespond
<1>3. \A r : ~Worker(r)
  BY DEF Worker, WaitForSignal, SleepReplayed, SleepFresh, QueueActivityReplayed, WorkerOnly,
               ScheduleActivityRecord, ScheduleActivityEnqueue, FunctionReturns
<1>4. ASSUME CompleteWorkflowTask PROVE Leaves(p)
  <2>1. PICK r \in running : CompleteTake(r)
    BY <1>4 DEF CompleteWorkflowTask, CompleteAppend, CompleteApply, CompleteAck
  <2>2. PICK q : q = [id |-> r.id, wf |-> r.wf] /\ pendingWfTasks' = pendingWfTasks \ {q}
    BY <2>1 DEF CompleteTake, DropTasks
  <2>3. q.id = r.id /\ p = q
    BY <2>2, SMT
  <2> QED  BY <2>1, <2>3 DEF Leaves
<1>5. \A x : ~SignalWorkflow(x)
  BY DEF SignalWorkflow, SignalRecord, SignalClaim, SignalRedispatch
<1>6. \A x : ~CancelWorkflow(x)
  BY DEF CancelWorkflow, CancelLookup, CancelMark, CancelRecord
<1>7. ~ScheduleTimer /\ ~fireDue
  BY DEF ScheduleTimer, TimerHook, TimerScheduled, fireDue, TimerFetch, TimerFire,
               DispatchUnchanged
<1>8. ~Callback
  BY DEF Callback, SleepClaim, SleepRedispatch, TimeoutCheck, TimeoutRecord, TimeoutApply
<1>9. ASSUME reclaimExpired PROVE Leaves(p)
  <2>1. PICK expired : ReclaimCollect(expired)
    BY <1>9 DEF reclaimExpired, RequeueAck, RequeueEnqueue
  <2>2. p \in expired /\ UNCHANGED <<polls, running>>
    BY <2>1 DEF ReclaimCollect, DropTasks
  <2>3. ~WorkedOn(p)
    BY <2>1, <2>2 DEF ReclaimCollect
  <2> QED  BY <2>2, <2>3 DEF Leaves
<1>10. ~Losses
  BY DEF Losses, PollLost, StreamSendFails, WorkerDies
<1> QED  BY <1>1, <1>2, <1>3, <1>4, <1>5, <1>6, <1>7, <1>8, <1>9, <1>10 DEF Next, Leaves

-----------------------------------------------------------------------------
(* At most one poll or run per workflow.                                   *)

(* A poll or a run of w that holds entry n.                                *)
Works(n, w) ==
  \/ \E e \in polls : e.id = n /\ e.body.wf = w
  \/ \E r \in running : r.id = n /\ r.wf = w

Token(n, w) == <<"pending", [id |-> n, wf |-> w]>>

(* It is the only one, and the only right of w is its own.  After a crash  *)
(* it has none, and w will never get one again.                            *)
Alone(w) ==
  \A n : Works(n, w) =>
    /\ \A m : Works(m, w) => m = n
    /\ \A x \in Rights(w) : x = Token(n, w)
    /\ startPc[w] # "idle"

PollsHeld == \A e \in polls : [id |-> e.id, wf |-> e.body.wf] \in pendingWfTasks

LEMMA NextWorks ==
  ASSUME TypeOK, TypeOK', WorkInv, Next, NEW n, NEW w, Works(n, w)'
  PROVE  Works(n, w) \/ \E e : PollDequeue(e) /\ n = e.id /\ w = e.body.wf
<1>1. CASE RunsSame
  BY <1>1 DEF RunsSame, Works
<1>2. ASSUME NEW e, PollDequeue(e) PROVE Works(n, w) \/ (n = e.id /\ w = e.body.wf)
  BY <1>2 DEF PollDequeue, envVars, Works
<1>3. ASSUME NEW e \in polls, PollRespond(e) PROVE Works(n, w)
  <2>1. PICK q : q.id = e.id /\ q.wf = e.body.wf /\ running' = running \cup {q} /\ polls' \subseteq polls
    BY <1>3 DEF PollRespond
  <2> QED  BY <2>1 DEF Works
<1>4. ASSUME NEW r \in running, Worker(r) PROVE Works(n, w)
  <2>1. PICK q : running' = (running \ {r}) \cup {q} /\ q.id = r.id /\ q.wf = r.wf
    BY <1>4, WorkerTurns DEF WorkInv, Turns, Becomes
  <2>2. polls' = polls
    BY <1>4 DEF Worker, WaitForSignal, SleepReplayed, SleepFresh, QueueActivityReplayed,
       ScheduleActivityRecord, ScheduleActivityEnqueue, FunctionReturns, WorkerOnly, callVars
  <2> QED  BY <2>1, <2>2 DEF Works
<1>5. ASSUME NEW r, CompleteTake(r) \/ WorkerDies(r) PROVE Works(n, w)
  <2>1. running' \subseteq running /\ polls' = polls
    BY <1>5 DEF CompleteTake, WorkerDies, callVars
  <2> QED  BY <2>1 DEF Works
<1>6. ASSUME NEW F, running' = {F[r] : r \in running},
             \A r \in running : F[r].id = r.id /\ F[r].wf = r.wf,
             polls' \subseteq polls
      PROVE  Works(n, w)
  <2>1. ASSUME NEW q \in running' PROVE \E r \in running : q.id = r.id /\ q.wf = r.wf
    BY <1>6
  <2>2. \A e \in polls' : e \in polls
    BY <1>6
  <2> QED  BY <2>1, <2>2 DEF Works
<1>7. ASSUME NEW a \in arming, TimerScheduled(a.timer) PROVE Works(n, w)
  <2>1. polls' \subseteq polls
    BY <1>7 DEF TimerScheduled, DispatchUnchanged, callVars
  <2> QED  BY <1>6, <1>7, <2>1, ScheduledTurns
<1>8. ASSUME EngineCrash PROVE Works(n, w)
  <2>1. polls' \subseteq polls
    BY <1>8 DEF EngineCrash
  <2> QED  BY <1>6, <1>8, <2>1, CrashTurns
<1> QED  BY <1>1, <1>2, <1>3, <1>4, <1>5, <1>7, <1>8, NextRuns

LEMMA RightsGone ==
  ASSUME IInv, Next, NEW w \in Workflow, startPc[w] # "idle"
  PROVE  startPc'[w] # "idle" /\ (Rights(w) = {} => Rights(w)' = {})
<1>1. Moves(w)
  BY NextMoves DEF StepOK, Born
<1>2. startPc'[w] # "idle"
  BY <1>1 DEF Moves, Ages
<1>3. ASSUME Rights(w) = {} PROVE Rights(w)' = {}
  BY <1>1, <1>3 DEF Moves, Keeps, Exchanges, Drops, Ends
<1> QED  BY <1>2, <1>3

LEMMA CrashGone ==
  ASSUME TypeOK, EngineCrash, NEW w \in Workflow, \A x \in Rights(w) : x[1] = "pending"
  PROVE  Rights(w)' = {}
<1>1. /\ pendingWfTasks' = {} /\ awaiting' = {} /\ completing' = {} /\ requeueing' = {}
      /\ goroutines' = {} /\ stream' = stream
      /\ startPc' = Abandon(startPc) /\ signalPc' = Abandon(signalPc)
      /\ startPc \in [Workflow -> StartStep] /\ signalPc \in [Signal -> SignalStep]
  BY DEF EngineCrash, TimerCrash, queueVars, TypeOK
<1>2. Starting(w)' = {} /\ Signalled(w)' = {}
  BY <1>1 DEF Starting, Signalled, Abandon
<1>3. /\ Queued(w)' = Queued(w) /\ Woken(w)' = {}
      /\ Pending(w)' = {} /\ Completing(w)' = {} /\ Requeueing(w)' = {} /\ Parked(w)' = {}
  BY <1>1, Parts DEF Pending, Completing, Requeueing, Parked, Woken
<1>4. "queued" # "pending"
  BY SMT
<1>5. Queued(w) = {}
  BY <1>4, Tags DEF Rights
<1> QED  BY <1>2, <1>3, <1>5 DEF Rights

LEMMA TokenIs ==
  ASSUME NEW n, NEW w
  PROVE  Token(n, w)[1] = "pending" /\ (Token(n, w) \in Rights(w) => [id |-> n, wf |-> w] \in pendingWfTasks)
<1>1. PICK p : p = [id |-> n, wf |-> w]
  OBVIOUS
<1>2. Token(n, w) = <<"pending", p>> /\ Token(n, w)[1] = "pending" /\ Token(n, w)[2] = p
  BY <1>1, SMT DEF Token
<1>3. ASSUME Token(n, w) \in Rights(w) PROVE Token(n, w) \in Pending(w)
  <2>1. /\ "starting" # "pending" /\ "queued" # "pending" /\ "completing" # "pending"
        /\ "requeueing" # "pending" /\ "parked" # "pending" /\ "signalled" # "pending"
        /\ "woken" # "pending"
    BY SMT
  <2> QED  BY <1>2, <1>3, <2>1, Tags DEF Rights
<1>4. ASSUME Token(n, w) \in Pending(w) PROVE p \in pendingWfTasks
  <2>1. PICK q \in pendingWfTasks : Token(n, w) = <<"pending", q>>
    BY <1>4 DEF Pending
  <2>2. q = p
    BY <1>2, <2>1, SMT
  <2> QED  BY <2>1, <2>2
<1> QED  BY <1>1, <1>2, <1>3, <1>4

LEMMA NextAlone ==
  ASSUME IInv, IInv', WorkInv, Next, ~Lose(1), NEW w \in Workflow, Alone(w)
  PROVE  Alone(w)'
<1>held. ASSUME Safe(w)', NEW n, [id |-> n, wf |-> w] \in pendingWfTasks'
         PROVE  \A x \in Rights(w)' : x = Token(n, w)
  <2> USE <1>held
  <2>1. PICK p : p = [id |-> n, wf |-> w]
    OBVIOUS
  <2>2. p.wf = w /\ p \in pendingWfTasks' /\ Token(n, w) = <<"pending", p>>
    BY <2>1, SMT DEF Token
  <2>3. Token(n, w) \in Rights(w)'
    BY <2>2 DEF Rights, Pending
  <2> QED  BY <2>3 DEF Safe
<1>dequeue. ASSUME NEW e, PollDequeue(e), e.body.wf = w PROVE Alone(w)'
  <2> USE <1>dequeue
  <2>1. Dequeue(e) /\ stream' = Tail(stream) /\ e = Head(stream) /\ stream # <<>> /\ startPc' = startPc
    BY DEF PollDequeue, Dequeue
  <2>2. <<"queued", e>> \in Queued(w)
    BY <2>1, QueuedTail DEF IInv, TypeOK
  <2>3. <<"queued", e>> \in Rights(w) /\ <<"queued", e>>[1] = "queued"
    BY <2>2, SMT DEF Rights
  <2>4. "queued" # "pending"
    BY SMT
  <2>5. \A n : ~Works(n, w)
    BY <2>3, <2>4, TokenIs DEF Alone
  <2>6. ASSUME NEW n, Works(n, w)' PROVE n = e.id
    <3>0. TypeOK /\ TypeOK'
      BY DEF IInv
    <3>1. PICK f : PollDequeue(f) /\ n = f.id
      BY <2>5, <2>6, <3>0, NextWorks
    <3>2. f = e
      BY <2>1, <3>1 DEF PollDequeue, Dequeue
    <3> QED  BY <3>1, <3>2
  <2>7. [id |-> e.id, wf |-> w] \in pendingWfTasks'
    BY DEF PollDequeue
  <2>8. \A x \in Rights(w)' : x = Token(e.id, w)
    BY <2>7, <1>held DEF IInv
  <2>9. startPc'[w] # "idle"
    BY <2>1, <2>3 DEF IInv, Safe
  <2> QED  BY <2>6, <2>8, <2>9 DEF Alone, Token
<1>works. ASSUME NEW n, Works(n, w), NEW p, p.id = n PROVE WorkedOn(p)
  BY <1>works DEF Works, WorkedOn
<1>taken. ASSUME NEW r \in running, CompleteTake(r) PROVE ~Works(r.id, w)'
  <2> USE <1>taken
  <2>1. running' = running \ {r} /\ polls' = polls
    BY DEF CompleteTake
  <2>2. /\ \A q \in running : q.id = r.id => q = r
        /\ \A e \in polls : e.id # r.id
    BY DEF WorkInv, Apart
  <2> QED  BY <2>1, <2>2 DEF Works
<1>1. CASE \E e : PollDequeue(e) /\ e.body.wf = w
  BY <1>1, <1>dequeue
<1>2. CASE ~\E e : PollDequeue(e) /\ e.body.wf = w
  <2>0. TypeOK /\ TypeOK'
    BY DEF IInv
  <2>1. ASSUME NEW n, Works(n, w)' PROVE Works(n, w)
    <3>1. Works(n, w) \/ \E e : PollDequeue(e) /\ n = e.id /\ w = e.body.wf
      BY <2>0, <2>1, NextWorks, SMT
    <3> QED  BY <1>2, <3>1
  <2>2. ASSUME NEW n, Works(n, w)'
        PROVE  startPc'[w] # "idle" /\ \A x \in Rights(w)' : x = Token(n, w)
    <3>1. Works(n, w) /\ startPc[w] # "idle" /\ \A x \in Rights(w) : x = Token(n, w)
      BY <2>1, <2>2 DEF Alone
    <3>2. startPc'[w] # "idle" /\ (Rights(w) = {} => Rights(w)' = {})
      BY <3>1, RightsGone
    <3>3. PICK p : p = [id |-> n, wf |-> w]
      OBVIOUS
    <3>4. p.id = n
      BY <3>3, SMT
    <3>5. Rights(w) # {} => p \in pendingWfTasks
      BY <3>1, <3>3, TokenIs
    <3>6. p \in pendingWfTasks' => \A x \in Rights(w)' : x = Token(n, w)
      BY <3>3, <1>held DEF IInv
    <3>7. ASSUME p \in pendingWfTasks, p \notin pendingWfTasks' PROVE Rights(w)' = {}
      <4>1. Leaves(p)
        BY <3>7, NextTable
      <4>2. ~\E r \in running : r.id = p.id /\ CompleteTake(r)
        BY <2>2, <3>4, <1>taken
      <4>3. WorkedOn(p)
        BY <3>1, <3>4, <1>works
      <4>4. EngineCrash
        BY <4>1, <4>2, <4>3 DEF Leaves
      <4>5. \A x \in Rights(w) : x[1] = "pending"
        BY <3>1, TokenIs
      <4> QED  BY <4>4, <4>5, CrashGone DEF IInv
    <3> QED  BY <3>2, <3>5, <3>6, <3>7
  <2> QED  BY <2>1, <2>2 DEF Alone, Token
<1> QED  BY <1>1, <1>2

LEMMA NextHeld ==
  ASSUME IInv, WorkInv, Next, ~Lose(1), PollsHeld
  PROVE  PollsHeld'
<1> SUFFICES ASSUME NEW e \in polls' PROVE [id |-> e.id, wf |-> e.body.wf] \in pendingWfTasks'
  BY DEF PollsHeld
<1>1. CASE e \notin polls
  <2>1. PICK f : PollDequeue(f)
    <3>1. \A r \in running : ~Worker(r)
      BY <1>1 DEF Worker, WaitForSignal, SleepReplayed, SleepFresh, QueueActivityReplayed,
         ScheduleActivityRecord, ScheduleActivityEnqueue, FunctionReturns, WorkerOnly, callVars
    <3> QED  BY <1>1, <3>1, NextRuns DEF RunsSame, PollRespond, CompleteTake, WorkerDies,
                TimerScheduled, DispatchUnchanged, EngineCrash, callVars
  <2> QED  BY <1>1, <2>1 DEF PollDequeue
<1>2. CASE e \in polls
  <2>1. PICK p : p = [id |-> e.id, wf |-> e.body.wf]
    OBVIOUS
  <2>2. p.id = e.id /\ p \in pendingWfTasks /\ WorkedOn(p)
    BY <1>2, <2>1, SMT DEF PollsHeld, WorkedOn
  <2>3. ~EngineCrash
    BY DEF EngineCrash
  <2>4. \A r \in running : r.id # p.id
    BY <1>2, <2>2 DEF WorkInv, Apart
  <2>5. ~Leaves(p)
    BY <2>2, <2>3, <2>4 DEF Leaves
  <2> QED  BY <2>1, <2>2, <2>5, NextTable
<1> QED  BY <1>1, <1>2

-----------------------------------------------------------------------------
(* ScheduleTimer calls and the Sleeps that wait for them.                  *)

LEMMA ProgramIs ==
  /\ Len(Program) \in Nat /\ DOMAIN Program = 1 .. Len(Program)
  /\ \A k \in DOMAIN Program : k \in Nat /\ Program[k] \in Cmd
BY DispatchAssumption, SMT DEF Cmd

Asleep(r) == r.timer # 0 => /\ ~r.sched /\ r.out = "none"
                            /\ r.k \in DOMAIN Program /\ Program[r.k] = "sleep"

ArmInv ==
  /\ \A a \in arming : a.timer.id < nextTimer
  /\ \A a, b \in arming : a.timer.id = b.timer.id => a = b
  /\ \A a \in arming : \E r \in running : r.wf = a.timer.wf /\ r.timer = a.timer.id
  /\ \A r \in running : Asleep(r)

(* Steps that leave the waiting runs alone.                                *)
RunsAwake ==
  /\ \A r \in running : r.timer # 0 => r \in running'
  /\ \A q \in running' : q \in running \/ q.timer = 0

(* The end of ScheduleTimer, and what it does to the runs.                 *)
LEMMA ScheduledWakes ==
  ASSUME TypeOK, NEW t, TimerScheduled(t), NEW q \in running'
  PROVE  \/ q \in running /\ q.timer # t.id
         \/ q.timer = 0 /\ q.out = "yield"
<1>1. PICK r \in running : q = IF r.timer = t.id THEN [r EXCEPT !.timer = 0, !.out = "yield"] ELSE r
  BY DEF TimerScheduled
<1>2. CASE r.timer = t.id
  <2>1. r \in Run /\ q = [r EXCEPT !.timer = 0, !.out = "yield"]
    BY <1>1, <1>2 DEF TypeOK
  <2>2. q.timer = 0 /\ q.out = "yield"
    BY <2>1, SMT DEF Run
  <2> QED  BY <2>2
<1>3. CASE r.timer # t.id
  BY <1>1, <1>3
<1> QED  BY <1>2, <1>3

(* What a crash does to the runs.                                          *)
LEMMA CrashRuns ==
  ASSUME TypeOK, EngineCrash, NEW q \in running'
  PROVE  \E r \in running :
           /\ q.id = r.id /\ q.wf = r.wf /\ q.seen = r.seen /\ q.cursor = r.cursor /\ q.out = r.out
           /\ q.timer = 0 /\ ~q.sched /\ q \in Run
           /\ IF r.timer = 0 /\ ~r.sched THEN q = r ELSE q.k = r.k + 1
<1>1. PICK r \in running : q = IF r.timer = 0 /\ ~r.sched THEN r
                               ELSE [r EXCEPT !.k = @ + 1, !.timer = 0, !.sched = FALSE]
  BY DEF EngineCrash
<1>2. r \in Run
  BY DEF TypeOK
<1>3. CASE r.timer = 0 /\ ~r.sched
  BY <1>1, <1>2, <1>3
<1>4. CASE ~(r.timer = 0 /\ ~r.sched)
  <2>1. q = [r EXCEPT !.k = @ + 1, !.timer = 0, !.sched = FALSE]
    BY <1>1, <1>4
  <2>2. 0 \in Nat
    BY SMT
  <2>3. q \in Run
    BY <1>2, <2>1, <2>2, RunType DEF Outcome
  <2>4. /\ q.id = r.id /\ q.wf = r.wf /\ q.seen = r.seen /\ q.cursor = r.cursor /\ q.out = r.out
        /\ q.timer = 0 /\ ~q.sched /\ q.k = r.k + 1
    BY <1>2, <2>1, SMT DEF Run
  <2> QED  BY <1>4, <2>3, <2>4
<1> QED  BY <1>3, <1>4

LEMMA NextArm ==
  ASSUME TypeOK, WorkInv, ArmInv, Next, ~Fault, ~Lose(1), ~ExecTimeout
  PROVE  ArmInv'
(* While it waits for its timer a run does nothing.                        *)
<1>idle. ASSUME NEW r \in running, Asleep(r), Worker(r), SchedOK(r) PROVE r.timer = 0
  <2> USE <1>idle
  <2>1. ASSUME r.timer # 0 PROVE FALSE
    <3>1. r.k \in DOMAIN Program /\ ~r.sched
      BY <2>1 DEF Asleep
    <3>2. ~(r.k > Len(Program))
      BY <3>1, ProgramIs, SMT
    <3> QED  BY <2>1, <3>1, <3>2
          DEF Worker, WaitForSignal, SleepReplayed, SleepFresh, QueueActivityReplayed, AtCommand,
              ScheduleActivityRecord, ScheduleActivityEnqueue, FunctionReturns
  <2> QED  BY <2>1
(* Only a fresh Sleep starts to wait.                                      *)
<1>awake. ASSUME NEW r \in running, Worker(r), r.timer = 0, ~SleepFresh(r)
          PROVE  \E q : Becomes(r, q) /\ q.timer = 0
  <2> USE <1>awake
  <2>1. r \in Run
    BY DEF TypeOK
  <2>2. ASSUME NEW q, Becomes(r, q), q.timer = r.timer PROVE \E z : Becomes(r, z) /\ z.timer = 0
    BY <2>2
  <2>3. \A c, out : /\ [r EXCEPT !.k = @ + 1, !.cursor = c].timer = r.timer
                    /\ [r EXCEPT !.out = out].timer = r.timer
                    /\ [r EXCEPT !.sched = TRUE].timer = r.timer
                    /\ [r EXCEPT !.k = @ + 1].timer = r.timer
                    /\ [r EXCEPT !.k = @ + 1, !.sched = FALSE].timer = r.timer
    BY <2>1, SMT DEF Run
  <2>4. CASE WaitForSignal(r) \/ SleepReplayed(r)
    <3>1. \E q : Becomes(r, q) /\ \/ \E c : q = [r EXCEPT !.k = @ + 1, !.cursor = c]
                                  \/ q = [r EXCEPT !.out = "yield"]
      BY <2>4 DEF WaitForSignal, SleepReplayed
    <3> QED  BY <2>2, <2>3, <3>1
  <2>5. CASE QueueActivityReplayed(r)
    BY <2>2, <2>3, <2>5 DEF QueueActivityReplayed
  <2>6. CASE ScheduleActivityRecord(r) \/ ScheduleActivityEnqueue(r) \/ FunctionReturns(r)
    BY <2>2, <2>3, <2>6 DEF ScheduleActivityRecord, ScheduleActivityEnqueue, FunctionReturns
  <2> QED  BY <2>4, <2>5, <2>6 DEF Worker
<1>sleep. ASSUME NEW r \in running, SleepFresh(r) PROVE ArmInv'
  <2> USE <1>sleep
  <2>1. r \in Run /\ nextTimer \in Nat /\ nextTimer # 0
    BY SMT DEF TypeOK, TimerTypeOK
  <2>2. PICK t : t = [id |-> nextTimer, wf |-> r.wf, kind |-> "sleep"] /\ InsertTimer(t)
    BY DEF SleepFresh
  <2>3. t.wf = r.wf
    BY <2>2, SMT
  <2>4. PICK b : /\ t.id = nextTimer /\ nextTimer' = nextTimer + 1
                 /\ b.timer = t /\ arming' = arming \cup {b}
    BY <2>2, InsertArms
  <2>5. PICK q : q = [r EXCEPT !.timer = nextTimer] /\ running' = (running \ {r}) \cup {q}
    BY DEF SleepFresh, Becomes
  <2>6. q.timer = nextTimer /\ q.wf = r.wf /\ q.k = r.k /\ q.sched = r.sched /\ q.out = r.out
    BY <2>1, <2>5, SMT DEF Run
  <2>7. r.timer = 0 /\ ~r.sched /\ r.out = "none" /\ r.k \in DOMAIN Program /\ Program[r.k] = "sleep"
    BY DEF SleepFresh, AtCommand
  <2>8. \A a \in arming : a.timer.id \in Nat /\ a.timer.id < nextTimer
    BY DEF TypeOK, TimerTypeOK, Timer, ArmInv
  <2>9. \A a \in arming : a.timer.id < nextTimer' /\ a.timer.id # nextTimer
    BY <2>1, <2>4, <2>8, SMT
  <2>10. nextTimer < nextTimer'
    BY <2>1, <2>4, SMT
  <2>11. \A a \in arming' : a.timer.id < nextTimer'
    BY <2>4, <2>9, <2>10
  <2>12. \A a, c \in arming' : a.timer.id = c.timer.id => a = c
    BY <2>4, <2>9 DEF ArmInv
  <2>13. ASSUME NEW a \in arming' PROVE \E x \in running' : x.wf = a.timer.wf /\ x.timer = a.timer.id
    <3>1. CASE a = b
      BY <2>3, <2>4, <2>5, <2>6, <3>1
    <3>2. CASE a \in arming
      <4>1. PICK x \in running : x.wf = a.timer.wf /\ x.timer = a.timer.id
        BY <3>2 DEF ArmInv
      <4>2. CASE x = r
        BY <2>7, <3>2, <4>1, <4>2 DEF WorkInv
      <4>3. CASE x # r
        BY <2>5, <4>1, <4>3
      <4> QED  BY <4>2, <4>3
    <3> QED  BY <2>4, <3>1, <3>2
  <2>14. \A x \in running' : Asleep(x)
    BY <2>5, <2>6, <2>7 DEF ArmInv, Asleep
  <2> QED  BY <2>11, <2>12, <2>13, <2>14 DEF ArmInv, Asleep
<1>kept. ASSUME RunsAwake, nextTimer' = nextTimer,
                \/ arming' \subseteq arming
                \/ \E b \in arming : \E c : c.timer = b.timer /\ arming' = (arming \ {b}) \cup {c}
         PROVE  ArmInv'
  <2> USE <1>kept
  <2>1. \A x \in running' : Asleep(x)
    BY DEF RunsAwake, ArmInv, Asleep
  <2>2. ASSUME NEW a \in arming PROVE \E x \in running' : x.wf = a.timer.wf /\ x.timer = a.timer.id
    BY DEF WorkInv, ArmInv, RunsAwake
  <2>3. CASE arming' \subseteq arming
    <3>1. \A a \in arming' : a \in arming
      BY <2>3
    <3> QED  BY <2>1, <2>2, <3>1 DEF ArmInv, Asleep
  <2>4. ASSUME NEW b \in arming, NEW c, c.timer = b.timer, arming' = (arming \ {b}) \cup {c}
        PROVE  ArmInv'
    <3>0. \A a \in arming' : (a \in arming /\ a # b) \/ a = c
      BY <2>4
    <3>1. \A a \in arming' : \E x \in arming : x.timer = a.timer
      BY <2>4, <3>0
    <3>2. \A a \in arming' : a.timer.id < nextTimer'
      BY <3>1, SMT DEF ArmInv
    <3>3. ASSUME NEW a \in arming', NEW d \in arming', a.timer.id = d.timer.id PROVE a = d
      <4>1. \A x \in arming : x.timer.id = c.timer.id => x = b
        BY <2>4, SMT DEF ArmInv
      <4>2. \A x, y \in arming : x.timer.id = y.timer.id => x = y
        BY DEF ArmInv
      <4> QED  BY <3>0, <3>3, <4>1, <4>2
    <3>4. ASSUME NEW a \in arming' PROVE \E x \in running' : x.wf = a.timer.wf /\ x.timer = a.timer.id
      <4>1. PICK x \in arming : x.timer = a.timer
        BY <3>1
      <4>2. \E y \in running' : y.wf = x.timer.wf /\ y.timer = x.timer.id
        BY <2>2
      <4> QED  BY <4>1, <4>2, SMT
    <3> QED  BY <2>1, <3>2, <3>3, <3>4 DEF ArmInv, Asleep
  <2> QED  BY <2>3, <2>4
<1>scheduled. ASSUME NEW a \in arming, TimerScheduled(a.timer) PROVE ArmInv'
  <2> USE <1>scheduled
  <2>1. PICK c : c = [timer |-> a.timer, step |-> "hooked"]
    OBVIOUS
  <2>2. c \in arming /\ arming' = arming \ {c} /\ nextTimer' = nextTimer
    BY <2>1 DEF TimerScheduled, AppendTimerScheduled
  <2>3. c.timer = a.timer
    BY <2>1, SMT
  <2>4. \A b \in arming' : b \in arming /\ b.timer.id # a.timer.id
    BY <2>2, <2>3 DEF ArmInv
  <2>5. \A q \in running' : Asleep(q)
    BY ScheduledWakes DEF ArmInv, Asleep
  <2>6. ASSUME NEW b \in arming' PROVE \E x \in running' : x.wf = b.timer.wf /\ x.timer = b.timer.id
    <3>1. PICK r \in running : r.wf = b.timer.wf /\ r.timer = b.timer.id
      BY <2>4 DEF ArmInv
    <3>2. r.timer # a.timer.id
      BY <2>4, <3>1
    <3>3. r \in running'
      BY <3>2 DEF TimerScheduled
    <3> QED  BY <3>1, <3>3
  <2> QED  BY <2>2, <2>4, <2>5, <2>6 DEF ArmInv, Asleep
<1>1. CASE \E r \in running : SleepFresh(r)
  BY <1>1, <1>sleep
<1>2. CASE EngineCrash
  <2>1. arming' = {} /\ \A q \in running' : q.timer = 0
    BY <1>2, CrashRuns DEF EngineCrash, TimerCrash
  <2> QED  BY <2>1 DEF ArmInv, Asleep
<1>3. CASE \E a \in arming : TimerScheduled(a.timer)
  BY <1>3, <1>scheduled
<1>4. ASSUME ~EngineCrash, ~(\E r \in running : SleepFresh(r)), ~(\E a \in arming : TimerScheduled(a.timer))
      PROVE  ArmInv'
  <2>1. RunsAwake
    <3>1. CASE running' = running
      BY <3>1 DEF RunsAwake
    <3>2. ASSUME NEW e, PollRespond(e) PROVE RunsAwake
      <4>1. PICK seen : running' = running \cup
                {[id |-> e.id, wf |-> e.body.wf, seen |-> seen, k |-> 1,
                  cursor |-> 1, timer |-> 0, sched |-> FALSE, out |-> "none"]}
        BY <3>2 DEF PollRespond
      <4>2. PICK q : q = [id |-> e.id, wf |-> e.body.wf, seen |-> seen, k |-> 1,
                          cursor |-> 1, timer |-> 0, sched |-> FALSE, out |-> "none"]
        OBVIOUS
      <4>3. running' = running \cup {q} /\ q.timer = 0
        BY <4>1, <4>2
      <4> QED  BY <4>3 DEF RunsAwake
    <3>3. ASSUME NEW r \in running, Worker(r) PROVE RunsAwake
      <4>1. r.timer = 0
        BY <3>3, <1>idle DEF ArmInv, WorkInv
      <4>2. PICK q : running' = (running \ {r}) \cup {q} /\ q.timer = 0
        BY <1>4, <3>3, <4>1, <1>awake DEF Becomes
      <4> QED  BY <4>1, <4>2 DEF RunsAwake
    <3>4. ASSUME NEW r \in running, CompleteTake(r) PROVE RunsAwake
      <4>1. r.timer = 0 /\ running' = running \ {r}
        BY <3>4 DEF CompleteTake, ArmInv, Asleep
      <4> QED  BY <4>1 DEF RunsAwake
    <3>5. \A r : ~WorkerDies(r)
      BY DEF WorkerDies
    <3> QED  BY <1>4, <3>1, <3>2, <3>3, <3>4, <3>5, NextRuns DEF RunsSame, PollDequeue, envVars
  <2>2. CASE arming' \subseteq arming /\ nextTimer' = nextTimer
    BY <2>1, <2>2, <1>kept
  <2>3. ASSUME NEW t, HookCallback(t) PROVE ArmInv'
    <3>1. nextTimer' = nextTimer
      BY <2>3, HookArms
    <3>2. PICK b \in arming : \E c : c.timer = b.timer /\ arming' = (arming \ {b}) \cup {c}
      BY <2>3, HookArms
    <3> QED  BY <2>1, <3>1, <3>2, <1>kept
  <2> QED  BY <1>4, <2>2, <2>3, NextArming DEF ArmingStep
<1> QED  BY <1>1, <1>2, <1>3, <1>4
=============================================================================
