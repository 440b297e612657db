-------------------------- MODULE WorkflowDispatch --------------------------
(***************************************************************************)
(* The life of workflow tasks: the handlers of engine/api.go that create,  *)
(* hand out, settle, park and re-dispatch them, the callbacks and loops    *)
(* that race with the handlers, the worker that runs the workflow function *)
(* (sdk), and the death and restart of the engine process.                 *)
(*                                                                         *)
(* A handler is split where another goroutine can get in between: one step *)
(* per store call, queue call or critical section.  The task token of a    *)
(* dequeued entry is a fresh uuid; an entry is delivered once, so the      *)
(* entry id stands for the token as well.                                  *)
(***************************************************************************)
EXTENDS TimerManager, TaskQueue, Replay

CONSTANTS Program,      \* commands of the workflow function, in order
          ExecTimeout,  \* StartWorkflow requests carry an execution timeout
          MaxSignals,   \* SignalWorkflow calls per workflow
          MaxCancels,   \* CancelWorkflow calls per workflow
          MaxLosses,    \* bound on dead or slow workers and lost responses
          MaxCrashes    \* bound on engine crashes

ASSUME DispatchAssumption ==
  /\ Program \in Seq({"signal", "sleep", "activity"})
  /\ ExecTimeout \in BOOLEAN
  /\ {MaxSignals, MaxCancels, MaxLosses, MaxCrashes} \subseteq Nat

VARIABLES
  pendingWfTasks,   \* EngineServer.pendingWfTasks
  awaiting,         \* Engine.awaitingDispatch
  cancelRequested,  \* Engine.cancelRequested
  signalQueues,     \* Engine.signalQueues, only their lengths
  startPc,          \* StartWorkflow calls
  signalPc,         \* SignalWorkflow calls
  cancelPc,         \* CancelWorkflow calls
  polls,            \* dequeueWorkflowTask calls that hold an entry
  completing,       \* CompleteWorkflowTask calls past the token check
  requeueing,       \* entries dropped from the table, being put back
  running,          \* workflow functions running in workers
  activityTasks,    \* activity tasks enqueued by ScheduleActivity
  losses, crashes

memVars  == <<pendingWfTasks, awaiting, cancelRequested, signalQueues>>
callVars == <<startPc, signalPc, cancelPc, polls, completing, requeueing>>
envVars  == <<running, losses, crashes, activityTasks>>
vars == <<storeVars, queueVars, timerVars, memVars, callVars, envVars>>

Signal == Workflow \X (1 .. MaxSignals)

Cancel == Workflow \X (1 .. MaxCancels)

Envelope == [wf : Workflow, input : BOOLEAN]

Entry == [id : Nat, body : Envelope]

(* pendingWorkflowTask: the envelope's Input is not kept.                  *)
PendingTask == [id : Nat, wf : Workflow]

Outcome == {"yield", "complete", "error"}

StartStep  == {"idle", "created", "started", "enqueued", "done"}
SignalStep == {"idle", "recorded", "claimed", "done"}
CancelStep == {"idle", "looked", "marked", "done"}

Completion == [id : Nat, wf : Workflow, out : Outcome, pc : {"append", "apply", "ack"}]

Requeue == [id : Nat, wf : Workflow, by : {"loop", "stream"}, pc : {"ack", "enqueue"}]

(* One run of the workflow function: the length of the history it was      *)
(* given, the next command, the replay cursor, the timer whose             *)
(* registration it waits for (0 for none), whether it waits for the second *)
(* half of a ScheduleActivity call, and how it ended.                      *)
Run == [id : Nat, wf : Workflow, seen : Nat, k : Nat, cursor : Nat,
        timer : Nat, sched : BOOLEAN, out : Outcome \cup {"none"}]

TypeOK ==
  /\ StoreTypeOK
  /\ TimerTypeOK
  /\ stream \in Seq(Entry) /\ pel \subseteq Entry /\ nextId \in Nat \ {0}
  /\ pendingWfTasks \subseteq PendingTask
  /\ awaiting \subseteq Workflow
  /\ cancelRequested \subseteq Workflow
  /\ signalQueues \in [Workflow -> Nat]
  /\ startPc \in [Workflow -> StartStep]
  /\ signalPc \in [Signal -> SignalStep]
  /\ cancelPc \in [Cancel -> CancelStep]
  /\ polls \subseteq Entry
  /\ completing \subseteq Completion
  /\ requeueing \subseteq Requeue
  /\ running \subseteq Run
  /\ activityTasks \in [Workflow -> Nat]
  /\ losses \in 0 .. MaxLosses
  /\ crashes \in 0 .. MaxCrashes

Init ==
  /\ StoreInit
  /\ QueueInit
  /\ TimerInit
  /\ pendingWfTasks = {}
  /\ awaiting = {}
  /\ cancelRequested = {}
  /\ signalQueues = [w \in Workflow |-> 0]
  /\ startPc = [w \in Workflow |-> "idle"]
  /\ signalPc = [s \in Signal |-> "idle"]
  /\ cancelPc = [c \in Cancel |-> "idle"]
  /\ polls = {}
  /\ completing = {}
  /\ requeueing = {}
  /\ running = {}
  /\ activityTasks = [w \in Workflow |-> 0]
  /\ losses = 0
  /\ crashes = 0

Lose(n) == losses + n <= MaxLosses /\ losses' = losses + n

(* Engine.awaitingDispatch: set when a run yields, taken by whoever wakes  *)
(* the workflow.                                                           *)
MarkAwaitingDispatch(w) == awaiting' = awaiting \cup {w}

ClaimAwaitingDispatch(w) == awaiting' = awaiting \ {w}

(* Mutant of DropTasks: the token stays valid.                             *)
DropNothing(tasks) == UNCHANGED pendingWfTasks

(* delete(s.pendingWfTasks, token), under s.mu.                            *)
DropTasks(tasks) == pendingWfTasks' = pendingWfTasks \ tasks

-----------------------------------------------------------------------------
(* StartWorkflow: row, WorkflowStarted, first task, and the optional       *)
(* execution timeout, each a call of its own; an error of the first three  *)
(* ends the handler and leaves what was done before it.                    *)

StartCreate(w) ==
  /\ startPc[w] = "idle"
  /\ startPc' = [startPc EXCEPT ![w] = "created"]
  /\ CreateWorkflow(w)
  /\ UNCHANGED <<faults, queueVars, timerVars, memVars, signalPc, cancelPc,
                 polls, completing, requeueing, envVars>>

StartAppend(w) ==
  /\ startPc[w] = "created"
  /\ \/ /\ AppendEvent(w, Ev("WorkflowStarted")) /\ NoFault
        /\ startPc' = [startPc EXCEPT ![w] = "started"]
     \/ /\ Fault /\ UNCHANGED history
        /\ startPc' = [startPc EXCEPT ![w] = "done"]
  /\ UNCHANGED <<status, queueVars, timerVars, memVars, signalPc, cancelPc,
                 polls, completing, requeueing, envVars>>

StartEnqueue(w) ==
  /\ startPc[w] = "started"
  /\ \/ /\ Enqueue([wf |-> w, input |-> TRUE]) /\ NoFault
        /\ startPc' = [startPc EXCEPT ![w] = "enqueued"]
     \/ /\ Fault /\ UNCHANGED <<stream, nextId>>
        /\ startPc' = [startPc EXCEPT ![w] = "done"]
  /\ UNCHANGED <<status, history, pel, timerVars, memVars, signalPc, cancelPc,
                 polls, completing, requeueing, envVars>>

(* scheduleExecutionTimeout starts a ScheduleTimer call, whose other steps *)
(* follow in HookCallback and AppendTimerScheduled; an InsertTimer error   *)
(* is only logged.                                                         *)
StartTimeout(w) ==
  /\ startPc[w] = "enqueued"
  /\ startPc' = [startPc EXCEPT ![w] = "done"]
  /\ \/ /\ ExecTimeout /\ NoFault
        /\ InsertTimer([id |-> nextTimer, wf |-> w, kind |-> "timeout"])
     \/ ExecTimeout /\ Fault /\ UNCHANGED timerVars
     \/ ~ExecTimeout /\ NoFault /\ UNCHANGED timerVars
  /\ UNCHANGED <<status, history, queueVars, memVars, signalPc, cancelPc,
                 polls, completing, requeueing, envVars>>

-----------------------------------------------------------------------------
(* PollWorkflowTask and StreamWorkflowTasks, through dequeueWorkflowTask.  *)

(* The stream handler puts an unsent task back while it holds s.mu.        *)
MuFree == \A q \in requeueing : q.by # "stream"

(* Dequeue and the entry in pendingWfTasks; no one can tell the two apart. *)
PollDequeue(e) ==
  /\ MuFree
  /\ Dequeue(e)
  /\ pendingWfTasks' = pendingWfTasks \cup {[id |-> e.id, wf |-> e.body.wf]}
  /\ polls' = polls \cup {e}
  /\ UNCHANGED <<storeVars, nextId, timerVars, awaiting, cancelRequested,
                 signalQueues, startPc, signalPc, cancelPc, completing,
                 requeueing, envVars>>

(* The reply of XREADGROUP is lost (broken connection, cancelled poll):    *)
(* Redis has delivered the entry, the engine never heard of it.            *)
PollDequeueFails(e) ==
  /\ Dequeue(e)
  /\ Fault
  /\ UNCHANGED <<status, history, nextId, timerVars, memVars, callVars, envVars>>

(* GetHistory, read after the entry left the queue, and the response.  On  *)
(* an error the task is sent with an empty history.                        *)
PollRespond(e) ==
  /\ e \in polls
  /\ polls' = polls \ {e}
  /\ \E seen \in {0, Len(history[e.body.wf])} :
       /\ IF seen = Len(history[e.body.wf]) THEN NoFault ELSE Fault
       /\ running' = running \cup
            {[id |-> e.id, wf |-> e.body.wf, seen |-> seen, k |-> 1,
              cursor |-> 1, timer |-> 0, sched |-> FALSE, out |-> "none"]}
  /\ UNCHANGED <<status, history, queueVars, timerVars, memVars, startPc,
                 signalPc, cancelPc, completing, requeueing, losses, crashes, activityTasks>>

(* The caller is gone: the response is lost, the entry stays pending.      *)
PollLost(e) ==
  /\ e \in polls
  /\ polls' = polls \ {e}
  /\ Lose(1)
  /\ UNCHANGED <<storeVars, queueVars, timerVars, memVars, startPc, signalPc,
                 cancelPc, completing, requeueing, running, crashes, activityTasks>>

(* stream.Send fails: the task goes back to the queue, unless reclaim took *)
(* it first.                                                               *)
StreamSendFails(e) ==
  /\ MuFree
  /\ e \in polls
  /\ polls' = polls \ {e}
  /\ Lose(1)
  /\ LET p == [id |-> e.id, wf |-> e.body.wf]
     IN  /\ DropTasks({p})
         /\ requeueing' = IF p \in pendingWfTasks
                            THEN requeueing \cup {[id |-> p.id, wf |-> p.wf,
                                                   by |-> "stream", pc |-> "ack"]}
                            ELSE requeueing
  /\ UNCHANGED <<storeVars, queueVars, timerVars, awaiting, cancelRequested,
                 signalQueues, startPc, signalPc, cancelPc, completing,
                 running, crashes, activityTasks>>

-----------------------------------------------------------------------------
(* The worker: executeWorkflowTask runs the function command by command    *)
(* against the history of the task.                                        *)

(* Workflow functions here queue one activity, by this name.               *)
ActivityName == 1

Snapshot(r) == SubSeq(history[r.wf], 1, r.seen)

Becomes(r, q) == running' = (running \ {r}) \cup {q}

WorkerOnly == UNCHANGED <<queueVars, memVars, callVars, losses, crashes, activityTasks>>

AtCommand(r, cmd) ==
  /\ r \in running /\ r.out = "none" /\ r.timer = 0 /\ ~r.sched
  /\ r.k \in DOMAIN Program
  /\ Program[r.k] = cmd

WaitForSignal(r) ==
  /\ AtCommand(r, "signal")
  /\ LET idx == findSignalReceived(Snapshot(r), r.cursor)
     IN  Becomes(r, IF idx # 0
                      THEN [r EXCEPT !.k = @ + 1, !.cursor = advance(@, idx)]
                      ELSE [r EXCEPT !.out = "yield"])
  /\ WorkerOnly /\ UNCHANGED <<storeVars, timerVars>>

(* An activity the history already holds is skipped.                       *)
QueueActivityReplayed(r) ==
  /\ AtCommand(r, "activity")
  /\ LET idx == findActivityScheduled(Snapshot(r), r.cursor, ActivityName)
     IN  /\ idx # 0
         /\ Becomes(r, [r EXCEPT !.k = @ + 1, !.cursor = advance(@, idx)])
  /\ WorkerOnly /\ UNCHANGED <<storeVars, timerVars>>

(* A fresh one calls ScheduleActivity: record, then enqueue.  QueueActivity *)
(* prints an error of the call and returns as if it had succeeded.         *)
ScheduleActivityRecord(r) ==
  /\ AtCommand(r, "activity")
  /\ findActivityScheduled(Snapshot(r), r.cursor, ActivityName) = 0
  /\ \/ /\ AppendEvent(r.wf, EvOf("ActivityScheduled", ActivityName)) /\ NoFault
        /\ Becomes(r, [r EXCEPT !.sched = TRUE])
     \/ /\ Fault /\ UNCHANGED history
        /\ Becomes(r, [r EXCEPT !.k = @ + 1])
  /\ WorkerOnly /\ UNCHANGED <<status, timerVars>>

(* Mutant of ScheduleActivityEnqueue: the call is never made.              *)
ScheduleActivityForgotten(r) ==
  /\ r \in running /\ r.sched
  /\ Becomes(r, [r EXCEPT !.k = @ + 1, !.sched = FALSE])
  /\ UNCHANGED <<storeVars, queueVars, timerVars, memVars, callVars,
                 losses, crashes, activityTasks>>

ScheduleActivityEnqueue(r) ==
  /\ r \in running /\ r.sched
  /\ \/ /\ activityTasks' = [activityTasks EXCEPT ![r.wf] = @ + 1] /\ NoFault
     \/ UNCHANGED activityTasks /\ Fault
  /\ Becomes(r, [r EXCEPT !.k = @ + 1, !.sched = FALSE])
  /\ UNCHANGED <<status, history, queueVars, timerVars, memVars, callVars,
                 losses, crashes>>

(* A Sleep whose timer the history already holds: done, or still waiting.  *)
SleepReplayed(r) ==
  /\ AtCommand(r, "sleep")
  /\ LET h     == Snapshot(r)
         sched == findTimerScheduled(h, r.cursor)
         fired == findTimerFired(h, h[sched].ref, sched)
     IN  /\ sched # 0
         /\ Becomes(r, IF fired # 0
                         THEN [r EXCEPT !.k = @ + 1, !.cursor = advance(@, fired)]
                         ELSE [r EXCEPT !.out = "yield"])
  /\ WorkerOnly /\ UNCHANGED <<storeVars, timerVars>>

(* A fresh Sleep calls RegisterWorkflowTimer and waits for ScheduleTimer;  *)
(* on an error the SDK sleeps in the worker and goes on.                   *)
SleepFresh(r) ==
  /\ AtCommand(r, "sleep")
  /\ findTimerScheduled(Snapshot(r), r.cursor) = 0
  /\ \/ /\ InsertTimer([id |-> nextTimer, wf |-> r.wf, kind |-> "sleep"])
        /\ NoFault
        /\ Becomes(r, [r EXCEPT !.timer = nextTimer])
     \/ /\ Fault /\ UNCHANGED timerVars
        /\ Becomes(r, [r EXCEPT !.k = @ + 1])
  /\ WorkerOnly /\ UNCHANGED <<status, history>>

(* The function returns, or the worker cannot run it at all (unknown name, *)
(* undecodable input).                                                     *)
FunctionReturns(r) ==
  /\ r \in running /\ r.out = "none"
  /\ \/ r.k > Len(Program) /\ \E out \in {"complete", "error"} :
                                Becomes(r, [r EXCEPT !.out = out])
     \/ r.k = 1 /\ r.timer = 0 /\ ~r.sched /\ Becomes(r, [r EXCEPT !.out = "error"])
  /\ WorkerOnly /\ UNCHANGED <<storeVars, timerVars>>

WorkerDies(r) ==
  /\ r \in running
  /\ running' = running \ {r}
  /\ Lose(1)
  /\ UNCHANGED <<storeVars, queueVars, timerVars, memVars, callVars, crashes, activityTasks>>

-----------------------------------------------------------------------------
(* CompleteWorkflowTask: the token is taken out of the table under s.mu;   *)
(* what follows runs without the lock and drops every store error.         *)

CompleteTake(r) ==
  /\ MuFree
  /\ r \in running /\ r.out # "none"
  /\ running' = running \ {r}
  /\ LET p == [id |-> r.id, wf |-> r.wf]
     IN  /\ DropTasks({p})
         /\ completing' = IF p \in pendingWfTasks
                            THEN completing \cup {[id |-> r.id, wf |-> r.wf,
                                                   out |-> r.out, pc |-> "append"]}
                            ELSE completing  \* "workflow task not found"
  /\ UNCHANGED <<storeVars, queueVars, timerVars, awaiting, cancelRequested,
                 signalQueues, startPc, signalPc, cancelPc, polls, requeueing,
                 losses, crashes, activityTasks>>

(* Mutant of OutcomeEvent: an event type the store does not know.          *)
OutcomeEventUnknown(out) == IF out = "yield" THEN "WorkflowYielded" ELSE "WorkflowCompleted"

OutcomeEvent(out) ==
  CASE out = "yield"    -> "WorkflowTaskYielded"
    [] out = "complete" -> "WorkflowCompleted"
    [] out = "error"    -> "WorkflowFailed"

Step(c, pc) == completing' = (completing \ {c}) \cup {[c EXCEPT !.pc = pc]}

(* Mutant of CompleteAppend: the failure branch falls through.             *)
CompleteAppendBoth(c) ==
  /\ c \in completing /\ c.pc = "append"
  /\ IF c.out = "error"
       THEN /\ history' = [history EXCEPT ![c.wf] =
                             @ \o <<Ev("WorkflowFailed"), Ev("WorkflowCompleted")>>]
            /\ NoFault
       ELSE TryAppendEvent(c.wf, Ev(OutcomeEvent(c.out)))
  /\ Step(c, "apply")
  /\ UNCHANGED <<status, queueVars, timerVars, memVars, startPc, signalPc,
                 cancelPc, polls, requeueing, envVars>>

CompleteAppend(c) ==
  /\ c \in completing /\ c.pc = "append"
  /\ TryAppendEvent(c.wf, Ev(OutcomeEvent(c.out)))
  /\ Step(c, "apply")
  /\ UNCHANGED <<status, queueVars, timerVars, memVars, startPc, signalPc,
                 cancelPc, polls, requeueing, envVars>>

(* Mutant of CompleteApply: the yield branch does not return early, every  *)
(* outcome parks the workflow.                                             *)
CompleteApplyParks(c) ==
  /\ c \in completing /\ c.pc = "apply"
  /\ MarkAwaitingDispatch(c.wf)
  /\ IF c.out = "yield" THEN UNCHANGED <<status, faults>>
     ELSE TryCompleteWorkflow(c.wf, IF c.out = "error" THEN "FAILED" ELSE "COMPLETED")
  /\ Step(c, "ack")
  /\ UNCHANGED <<history, queueVars, timerVars, pendingWfTasks, cancelRequested,
                 signalQueues, startPc, signalPc, cancelPc, polls, requeueing,
                 envVars>>

(* Mutant of CompleteApply: only a success reaches the row.                *)
CompleteApplySuccess(c) ==
  /\ c \in completing /\ c.pc = "apply"
  /\ IF c.out = "yield" THEN MarkAwaitingDispatch(c.wf) ELSE UNCHANGED awaiting
  /\ IF c.out = "complete" THEN TryCompleteWorkflow(c.wf, "COMPLETED")
                           ELSE UNCHANGED <<status, faults>>
  /\ Step(c, "ack")
  /\ UNCHANGED <<history, queueVars, timerVars, pendingWfTasks, cancelRequested,
                 signalQueues, startPc, signalPc, cancelPc, polls, requeueing,
                 envVars>>

(* MarkAwaitingDispatch for a yield, else the terminal status of the row.  *)
CompleteApply(c) ==
  /\ c \in completing /\ c.pc = "apply"
  /\ \/ /\ c.out = "yield"
        /\ MarkAwaitingDispatch(c.wf)
        /\ UNCHANGED <<status, faults>>
     \/ /\ c.out # "yield"
        /\ TryCompleteWorkflow(c.wf, IF c.out = "error" THEN "FAILED" ELSE "COMPLETED")
        /\ UNCHANGED awaiting
  /\ Step(c, "ack")
  /\ UNCHANGED <<history, queueVars, timerVars, pendingWfTasks, cancelRequested,
                 signalQueues, startPc, signalPc, cancelPc, polls, requeueing,
                 envVars>>

CompleteAck(c) ==
  /\ c \in completing /\ c.pc = "ack"
  /\ TryAck(c.id)
  /\ completing' = completing \ {c}
  /\ UNCHANGED <<status, history, stream, nextId, timerVars, memVars, startPc,
                 signalPc, cancelPc, polls, requeueing, envVars>>

-----------------------------------------------------------------------------
(* SignalWorkflow.  DeliverSignal and ClaimAwaitingDispatch are one step:  *)
(* nothing of this module reads the signal buffer.                         *)

SignalRecord(s) ==
  /\ signalPc[s] = "idle"
  /\ status[s[1]] # "none"
  /\ \/ /\ AppendEvent(s[1], Ev("SignalReceived")) /\ NoFault
        /\ signalPc' = [signalPc EXCEPT ![s] = "recorded"]
     \/ /\ Fault /\ UNCHANGED history
        /\ signalPc' = [signalPc EXCEPT ![s] = "done"]
  /\ UNCHANGED <<status, queueVars, timerVars, memVars, startPc, cancelPc,
                 polls, completing, requeueing, envVars>>

SignalClaim(s) ==
  /\ signalPc[s] = "recorded"
  /\ signalQueues' = [signalQueues EXCEPT ![s[1]] = @ + 1]
  /\ ClaimAwaitingDispatch(s[1])
  /\ signalPc' = [signalPc EXCEPT ![s] = IF s[1] \in awaiting THEN "claimed"
                                                             ELSE "done"]
  /\ UNCHANGED <<storeVars, queueVars, timerVars, pendingWfTasks,
                 cancelRequested, startPc, cancelPc, polls, completing,
                 requeueing, envVars>>

(* redispatchWorkflowTask; an error of the lookup or the enqueue is only   *)
(* logged, and the claimed flag is gone.                                   *)
redispatchWorkflowTask(w) == TryEnqueue([wf |-> w, input |-> TRUE])

SignalRedispatch(s) ==
  /\ signalPc[s] = "claimed"
  /\ signalPc' = [signalPc EXCEPT ![s] = "done"]
  /\ redispatchWorkflowTask(s[1])
  /\ UNCHANGED <<status, history, pel, timerVars, memVars, startPc, cancelPc,
                 polls, completing, requeueing, envVars>>

-----------------------------------------------------------------------------
(* CancelWorkflow: look at the row, set the flag, record the request.      *)

CancelLookup(c) ==
  /\ cancelPc[c] = "idle"
  /\ status[c[1]] # "none"
  /\ cancelPc' = [cancelPc EXCEPT ![c] =
                    IF status[c[1]] = "RUNNING" THEN "looked" ELSE "done"]
  /\ UNCHANGED <<storeVars, queueVars, timerVars, memVars, startPc, signalPc,
                 polls, completing, requeueing, envVars>>

CancelMark(c) ==
  /\ cancelPc[c] = "looked"
  /\ cancelPc' = [cancelPc EXCEPT ![c] = "marked"]
  /\ cancelRequested' = cancelRequested \cup {c[1]}
  /\ UNCHANGED <<storeVars, queueVars, timerVars, pendingWfTasks, awaiting,
                 signalQueues, startPc, signalPc, polls, completing,
                 requeueing, envVars>>

CancelRecord(c) ==
  /\ cancelPc[c] = "marked"
  /\ cancelPc' = [cancelPc EXCEPT ![c] = "done"]
  /\ TryAppendEvent(c[1], Ev("WorkflowCancelRequested"))
  /\ UNCHANGED <<status, queueVars, timerVars, memVars, startPc, signalPc,
                 polls, completing, requeueing, envVars>>

-----------------------------------------------------------------------------
(* Timers.  The steps of TimerManager leave dispatch state alone, except   *)
(* that the end of ScheduleTimer lets a waiting Sleep yield.               *)

DispatchUnchanged == UNCHANGED <<queueVars, memVars, callVars, losses, crashes, activityTasks>>

TimerHook(t) == HookCallback(t) /\ DispatchUnchanged /\ UNCHANGED running

TimerScheduled(t) ==
  /\ AppendTimerScheduled(t)
  /\ running' = {IF r.timer = t.id THEN [r EXCEPT !.timer = 0, !.out = "yield"]
                                   ELSE r : r \in running}
  /\ DispatchUnchanged

TimerFetch(due) == FetchDueTimers(due) /\ DispatchUnchanged /\ UNCHANGED running

TimerFire(t) == FireTimer(t) /\ DispatchUnchanged /\ UNCHANGED running

(* RegisterWorkflowTimer's callback: claim the parked workflow, if it is   *)
(* parked, and re-dispatch it.                                             *)
SleepClaim(g) ==
  /\ g \in goroutines /\ g.timer.kind = "sleep" /\ g.pc = "spawned"
  /\ ClaimAwaitingDispatch(g.timer.wf)
  /\ IF g.timer.wf \in awaiting THEN CallbackGoto(g, "claimed") ELSE CallbackEnd(g)
  /\ UNCHANGED <<storeVars, queueVars, unfired, nextTimer, arming, callbacks,
                 firing, pendingWfTasks, cancelRequested, signalQueues,
                 callVars, envVars>>

SleepRedispatch(g) ==
  /\ g \in goroutines /\ g.pc = "claimed"
  /\ CallbackEnd(g)
  /\ redispatchWorkflowTask(g.timer.wf)
  /\ UNCHANGED <<status, history, pel, unfired, nextTimer, arming, callbacks,
                 firing, memVars, callVars, envVars>>

(* The callback of scheduleExecutionTimeout: check, record, overwrite.     *)
(* A failed lookup ends it.                                                *)
TimeoutCheck(g) ==
  /\ g \in goroutines /\ g.timer.kind = "timeout" /\ g.pc = "spawned"
  /\ \/ status[g.timer.wf] = "RUNNING" /\ NoFault /\ CallbackGoto(g, "expired")
     \/ status[g.timer.wf] # "RUNNING" /\ NoFault /\ CallbackEnd(g)
     \/ Fault /\ CallbackEnd(g)
  /\ UNCHANGED <<status, history, queueVars, unfired, nextTimer, arming,
                 callbacks, firing, memVars, callVars, envVars>>

TimeoutRecord(g) ==
  /\ g \in goroutines /\ g.pc = "expired"
  /\ TryAppendEvent(g.timer.wf, Ev("WorkflowTimedOut"))
  /\ CallbackGoto(g, "recorded")
  /\ UNCHANGED <<status, queueVars, unfired, nextTimer, arming, callbacks,
                 firing, memVars, callVars, envVars>>

TimeoutApply(g) ==
  /\ g \in goroutines /\ g.pc = "recorded"
  /\ TryCompleteWorkflow(g.timer.wf, "TIMED_OUT")
  /\ CallbackEnd(g)
  /\ UNCHANGED <<history, queueVars, unfired, nextTimer, arming, callbacks,
                 firing, memVars, callVars, envVars>>

-----------------------------------------------------------------------------
(* reclaimExpired: drop the expired tasks from the table in one critical   *)
(* section, then ack and re-enqueue each.  A task nobody works on any more *)
(* expires for certain; one that is still worked on may, if its worker is  *)
(* slow.                                                                   *)

WorkedOn(p) == (\E e \in polls : e.id = p.id) \/ (\E r \in running : r.id = p.id)

ReclaimCollect(expired) ==
  /\ MuFree
  /\ \A q \in requeueing : q.by # "loop"
  /\ expired # {} /\ expired \subseteq pendingWfTasks
  /\ IF \E p \in expired : WorkedOn(p) THEN Lose(1) ELSE UNCHANGED losses
  /\ DropTasks(expired)
  /\ requeueing' = requeueing \cup
       {[id |-> p.id, wf |-> p.wf, by |-> "loop", pc |-> "ack"] : p \in expired}
  /\ UNCHANGED <<storeVars, queueVars, timerVars, awaiting, cancelRequested,
                 signalQueues, startPc, signalPc, cancelPc, polls, completing,
                 running, crashes, activityTasks>>

RequeueAck(q) ==
  /\ q \in requeueing /\ q.pc = "ack"
  /\ TryAck(q.id)
  /\ requeueing' = (requeueing \ {q}) \cup {[q EXCEPT !.pc = "enqueue"]}
  /\ UNCHANGED <<status, history, stream, nextId, timerVars, memVars, startPc,
                 signalPc, cancelPc, polls, completing, envVars>>

(* The envelope is rebuilt from the table entry, which has no Input.       *)
RequeueEnqueue(q) ==
  /\ q \in requeueing /\ q.pc = "enqueue"
  /\ TryEnqueue([wf |-> q.wf, input |-> FALSE])
  /\ requeueing' = requeueing \ {q}
  /\ UNCHANGED <<status, history, pel, timerVars, memVars, startPc, signalPc,
                 cancelPc, polls, completing, envVars>>

-----------------------------------------------------------------------------
(* The engine process dies and another one takes over.  Rows, histories,   *)
(* timers and the Redis stream stay; every table and every call in flight  *)
(* is gone.  Workers live on; a Sleep waiting for its registration gets an *)
(* RPC error and falls back to sleeping locally, a QueueActivity goes on.  *)

Abandon(pc) == [x \in DOMAIN pc |-> IF pc[x] = "idle" THEN "idle" ELSE "done"]

EngineCrash ==
  /\ crashes < MaxCrashes
  /\ crashes' = crashes + 1
  /\ TimerCrash
  /\ pendingWfTasks' = {} /\ awaiting' = {} /\ cancelRequested' = {}
  /\ signalQueues' = [w \in Workflow |-> 0]
  /\ startPc' = Abandon(startPc)
  /\ signalPc' = Abandon(signalPc)
  /\ cancelPc' = Abandon(cancelPc)
  /\ polls' = {} /\ completing' = {} /\ requeueing' = {}
  /\ running' = {IF r.timer = 0 /\ ~r.sched THEN r
                 ELSE [r EXCEPT !.k = @ + 1, !.timer = 0, !.sched = FALSE]
                   : r \in running}
  /\ UNCHANGED <<storeVars, queueVars, losses, activityTasks>>

-----------------------------------------------------------------------------
StartWorkflow(w) ==
  StartCreate(w) \/ StartAppend(w) \/ StartEnqueue(w) \/ StartTimeout(w)

PollWorkflowTask ==
  \/ \E i \in DOMAIN stream : PollDequeue(stream[i]) \/ PollDequeueFails(stream[i])
  \/ \E e \in polls : PollRespond(e)

Worker(r) ==
  \/ WaitForSignal(r)
  \/ SleepReplayed(r) \/ SleepFresh(r)
  \/ QueueActivityReplayed(r) \/ ScheduleActivityRecord(r) \/ ScheduleActivityEnqueue(r)
  \/ FunctionReturns(r)

CompleteWorkflowTask ==
  \/ \E r \in running : CompleteTake(r)
  \/ \E c \in completing : CompleteAppend(c) \/ CompleteApply(c) \/ CompleteAck(c)

SignalWorkflow(s) == SignalRecord(s) \/ SignalClaim(s) \/ SignalRedispatch(s)

CancelWorkflow(c) == CancelLookup(c) \/ CancelMark(c) \/ CancelRecord(c)

ScheduleTimer == \E a \in arming : TimerHook(a.timer) \/ TimerScheduled(a.timer)

fireDue ==
  \/ \E due \in SUBSET unfired : TimerFetch(due)
  \/ \E t \in firing : TimerFire(t)

Callback ==
  \E g \in goroutines : \/ SleepClaim(g) \/ SleepRedispatch(g)
                        \/ TimeoutCheck(g) \/ TimeoutRecord(g) \/ TimeoutApply(g)

reclaimExpired ==
  \/ \E expired \in SUBSET pendingWfTasks : ReclaimCollect(expired)
  \/ \E q \in requeueing : RequeueAck(q) \/ RequeueEnqueue(q)

Losses ==
  \/ \E e \in polls : PollLost(e) \/ StreamSendFails(e)
  \/ \E r \in running : WorkerDies(r)

Next ==
  \/ \E w \in Workflow : StartWorkflow(w)
  \/ PollWorkflowTask
  \/ \E r \in running : Worker(r)
  \/ CompleteWorkflowTask
  \/ \E s \in Signal : SignalWorkflow(s)
  \/ \E c \in Cancel : CancelWorkflow(c)
  \/ ScheduleTimer
  \/ fireDue
  \/ Callback
  \/ reclaimExpired
  \/ Losses
  \/ EngineCrash

Spec == Init /\ [][Next]_vars

(* Fairness: what the processes do by themselves.  A handler, goroutine or *)
(* loop that is running goes on, workers poll and finish what they run.    *)
(* Clients, failures and the reclaim of a task still worked on are not     *)
(* forced.                                                                 *)
ReclaimAbandoned ==
  \E expired \in SUBSET pendingWfTasks :
    (\A p \in expired : ~WorkedOn(p)) /\ ReclaimCollect(expired)

Fairness ==
  /\ WF_vars(\E w \in Workflow : StartAppend(w) \/ StartEnqueue(w) \/ StartTimeout(w))
  /\ WF_vars(\E i \in DOMAIN stream : PollDequeue(stream[i]))
  /\ WF_vars(\E e \in polls : PollRespond(e))
  /\ WF_vars(\E r \in running : Worker(r))
  /\ WF_vars(CompleteWorkflowTask)
  /\ WF_vars(\E x \in Signal : SignalClaim(x) \/ SignalRedispatch(x))
  /\ WF_vars(\E c \in Cancel : CancelMark(c) \/ CancelRecord(c))
  /\ WF_vars(ScheduleTimer)
  /\ WF_vars(fireDue)
  /\ WF_vars(Callback)
  /\ WF_vars(ReclaimAbandoned)
  /\ WF_vars(\E q \in requeueing : RequeueAck(q) \/ RequeueEnqueue(q))

FairSpec == Spec /\ Fairness

-----------------------------------------------------------------------------
(* A completion that has not yet recorded its outcome, or parked its       *)
(* workflow.                                                               *)
Undecided(c) == c.pc = "append" \/ (c.pc = "apply" /\ c.out = "yield")

(* A right to run w: everything that is, or without any further event      *)
(* becomes, a task of w.                                                   *)
Starting(w)   == IF startPc[w] \in {"created", "started"} THEN {<<"starting", w>>} ELSE {}
Queued(w)     == {<<"queued", stream[i]>> : i \in {j \in DOMAIN stream : stream[j].body.wf = w}}
Pending(w)    == {<<"pending", p>> : p \in {q \in pendingWfTasks : q.wf = w}}
Completing(w) == {<<"completing", c>> : c \in {d \in completing : d.wf = w /\ Undecided(d)}}
Requeueing(w) == {<<"requeueing", q>> : q \in {x \in requeueing : x.wf = w}}
Parked(w)     == IF w \in awaiting THEN {<<"parked", w>>} ELSE {}
Signalled(w)  == {<<"signalled", x>> : x \in {s \in Signal : s[1] = w /\ signalPc[s] = "claimed"}}
Woken(w)      == {<<"woken", g>> : g \in {x \in goroutines : x.timer.wf = w /\ x.pc = "claimed"}}

Rights(w) ==
  Starting(w) \cup Queued(w) \cup Pending(w) \cup Completing(w) \cup Requeueing(w)
    \cup Parked(w) \cup Signalled(w) \cup Woken(w)

FinishEvents == {"WorkflowCompleted", "WorkflowFailed"}

Finishes(w) == {i \in DOMAIN history[w] : history[w][i].type \in FinishEvents}

(* A workflow never has two tasks at a time, whatever the order in which   *)
(* signals, timers, the reclaim loop and failed sends claim it, and        *)
(* whatever calls fail: the parked flag, the token table and the queue     *)
(* hand one right to run from one to the other.                            *)
SingleDispatch == \A w \in Workflow : \A x, y \in Rights(w) : x = y

(* Once WorkflowCompleted or WorkflowFailed is in the history nothing can  *)
(* dispatch the workflow again: not a late signal or timer, not reclaim,   *)
(* not a worker with an old token.                                         *)
NoDispatchAfterFinish == \A w \in Workflow : Finishes(w) # {} => Rights(w) = {}

(* At most one outcome is recorded, though two workers may run the same    *)
(* workflow at a time (one of them reclaimed) and both report.             *)
FinishedOnce == \A w \in Workflow : \A i, j \in Finishes(w) : i = j

(* As long as no store or queue call failed and the engine did not die, a  *)
(* workflow that has not finished is about to start, queued, held by the   *)
(* token table, being settled or put back, parked, or being woken: losing  *)
(* workers and responses never strands it.                                 *)
NeverStranded ==
  faults = 0 /\ crashes = 0 =>
    \A w \in Workflow : status[w] # "none" => Rights(w) # {} \/ Finishes(w) # {}

(* Under the same conditions the pending-entries list of Redis, which no   *)
(* one ever claims from, holds exactly the entries the engine still knows: *)
(* none leaks, none is acked while its task can still be completed.        *)
PelMatchesTables ==
  faults = 0 /\ crashes = 0 =>
    {e.id : e \in pel} = {p.id : p \in pendingWfTasks} \cup {c.id : c \in completing}
                         \cup {q.id : q \in {x \in requeueing : x.pc = "ack"}}

Passed(r, cmd) == {i \in DOMAIN Program : i < r.k /\ Program[i] = cmd}

Commands(cmd) == {i \in DOMAIN Program : Program[i] = cmd}

Recorded(w, type) == {i \in DOMAIN history[w] : history[w][i].type = type}

(* Replay lets a command pass only on an event of its own: each Sleep left *)
(* behind has a TimerFired, each WaitForSignal a SignalReceived, each      *)
(* QueueActivity an ActivityScheduled, and no event serves two commands,   *)
(* in any worker, also one that was reclaimed.                             *)
CommandsBacked ==
  faults = 0 /\ crashes = 0 =>
    \A r \in running :
      /\ Cardinality(Passed(r, "sleep")) <= Cardinality(Recorded(r.wf, "TimerFired"))
      /\ Cardinality(Passed(r, "signal")) <= Cardinality(Recorded(r.wf, "SignalReceived"))
      /\ Cardinality(Passed(r, "activity")) <= Cardinality(Recorded(r.wf, "ActivityScheduled"))

(* No WaitForSignal comes right behind a QueueActivity.  A fresh activity  *)
(* leaves the cursor where it was, so in that order the wait may take a    *)
(* signal older than the activity, which the re-run has passed already.    *)
SignalsLead ==
  \A k \in DOMAIN Program : k > 1 /\ Program[k] = "signal" => Program[k - 1] # "activity"

(* For such functions, without an execution timeout (whose timer replay    *)
(* takes for that of a Sleep), re-running re-issues nothing: as long as no *)
(* call failed and no worker was given up on, an activity or timer is      *)
(* recorded at most once per command, over all the runs that the yields of *)
(* the workflow cause.                                                     *)
IssuedOnce ==
  faults = 0 /\ losses = 0 /\ ~ExecTimeout /\ SignalsLead =>
    \A w \in Workflow :
      /\ Cardinality(Recorded(w, "ActivityScheduled")) <= Cardinality(Commands("activity"))
      /\ Cardinality(Recorded(w, "TimerScheduled")) <= Cardinality(Commands("sleep"))

(* The outcome event and the status of the row are two calls, and the row  *)
(* follows the event: as long as no call failed and the engine lives, a    *)
(* workflow with an outcome and no completion in flight is not RUNNING.    *)
OutcomeReachesRow ==
  faults = 0 /\ crashes = 0 =>
    \A w \in Workflow :
      Finishes(w) # {} /\ ~(\E c \in completing : c.wf = w) => status[w] # "RUNNING"

(* ActivityScheduled and the task on the activity queue are two calls as   *)
(* well: without a failing call, a dead worker or a dead engine every      *)
(* activity that replay will skip has got its task.                        *)
ScheduledReachesQueue ==
  faults = 0 /\ crashes = 0 /\ losses = 0 =>
    \A w \in Workflow :
      Cardinality(Recorded(w, "ActivityScheduled"))
        <= activityTasks[w] + Cardinality({r \in running : r.wf = w /\ r.sched})

(* The state of a workflow as its clients could know it.                   *)
Phase(w) ==
  CASE status[w] = "none"                                         -> "absent"
    [] status[w] # "none" /\ Finishes(w) # {}                     -> "finished"
    [] status[w] # "none" /\ Finishes(w) = {} /\ Rights(w) # {}   -> "open"
    [] status[w] # "none" /\ Finishes(w) = {} /\ Rights(w) = {}   -> "stranded"

Life == INSTANCE WorkflowLife
          WITH phase <- [w \in Workflow |-> Phase(w)], upset <- ~(faults = 0 /\ crashes = 0)

(* Behind all the handlers a workflow is created, has one outcome or is    *)
(* stranded by a failing call or a crash, and stays so: a late waker,      *)
(* retry or restart neither reopens nor revives it.                        *)
ImplementsLife == Life!Spec

(* A task handed out is settled in the end, also when its worker died or   *)
(* its response was lost: its entry leaves the pending-entries list.       *)
TasksSettled ==
  \A w \in Workflow :
    (\E e \in pel : e.body.wf = w) ~> ~(\E e \in pel : e.body.wf = w)

(* A workflow parked on a Sleep whose timer is armed, row and callback, is *)
(* woken in the end, also when a reclaimed run has armed a timer as well.  *)
SleepWakes ==
  \A w \in Workflow :
    (w \in awaiting /\ \E t \in unfired \cap callbacks : t.wf = w /\ t.kind = "sleep")
      ~> w \notin awaiting

(* Every workflow that gets a first task ends up finished, or parked.      *)
Progress ==
  \A w \in Workflow :
    Rights(w) # {} ~> (w \in awaiting \/ Finishes(w) # {})
=============================================================================
