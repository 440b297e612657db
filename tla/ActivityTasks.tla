--------------------------- MODULE ActivityTasks ---------------------------
(***************************************************************************)
(* The life of activity tasks: ScheduleActivity, the polls and streams     *)
(* that hand a task out, heartbeats, CompleteActivity with its retries,    *)
(* the reclaim loop, and the death and restart of the engine.  As in       *)
(* WorkflowDispatch a handler is split where another goroutine can get in, *)
(* and the id of a stream entry stands for the task token.                 *)
(*                                                                         *)
(* An activity is one ScheduleActivity call of a running workflow; the     *)
(* name in its events and envelopes tells it from the others.              *)
(***************************************************************************)
EXTENDS TimerManager, TaskQueue, FiniteSets

CONSTANTS MaxActivities,    \* ScheduleActivity calls per workflow
          MaximumAttempts,  \* of DefaultRetryPolicy
          MaxLosses,        \* bound on dead or slow workers and lost responses
          MaxCrashes        \* bound on engine crashes

ASSUME ActivityAssumption ==
  /\ {MaxActivities, MaxLosses, MaxCrashes} \subseteq Nat
  /\ MaximumAttempts \in Nat \ {0}

VARIABLES
  schedPc,          \* ScheduleActivity calls
  pendingActTasks,  \* EngineServer.pendingActTasks
  fresh,            \* tokens dequeued or heartbeaten since the last reclaim tick
  polls,            \* dequeueActivityTask calls that hold an entry
  running,          \* activity functions running in workers
  completing,       \* CompleteActivity calls past the token check
  requeueing,       \* entries dropped from the table, being put back
  retries,          \* closures of the retry timers: what each will enqueue
  losses, crashes

callVars == <<schedPc, polls, completing, requeueing>>
vars == <<storeVars, queueVars, timerVars, callVars, pendingActTasks, fresh,
          running, retries, losses, crashes>>

Activity == Workflow \X (1 .. MaxActivities)

(* activityEnvelope: Attempt, MaxAttempts, and whether the input and the   *)
(* retry policy are there.                                                 *)
Envelope == [act : Activity, attempt : Nat, max : Nat, data : BOOLEAN]

Entry == [id : Nat, body : Envelope]

Outcome == {"complete", "error"}

ActRun == [id : Nat, body : Envelope, out : Outcome \cup {"none"}]

Completion ==
  [id : Nat, body : Envelope, out : Outcome, timer : Nat,
   pc : {"append", "retry", "arm", "arming", "ack"}]

(* "body" is the envelope to put back.                                     *)
Requeue == [id : Nat, body : Envelope, by : {"loop", "stream"}, pc : {"ack", "enqueue"}]

TypeOK ==
  /\ StoreTypeOK
  /\ TimerTypeOK
  /\ stream \in Seq(Entry) /\ pel \subseteq Entry /\ nextId \in Nat \ {0}
  /\ schedPc \in [Activity -> {"idle", "recorded", "done"}]
  /\ pendingActTasks \subseteq Entry
  /\ fresh \subseteq Nat
  /\ polls \subseteq Entry
  /\ running \subseteq ActRun
  /\ completing \subseteq Completion
  /\ requeueing \subseteq Requeue
  /\ retries \subseteq [timer : Nat, body : Envelope]
  /\ losses \in 0 .. MaxLosses
  /\ crashes \in 0 .. MaxCrashes

(* The workflows have been started.                                        *)
Init ==
  /\ status = [w \in Workflow |-> "RUNNING"]
  /\ history = [w \in Workflow |-> <<Ev("WorkflowStarted")>>]
  /\ faults = 0
  /\ QueueInit
  /\ TimerInit
  /\ schedPc = [a \in Activity |-> "idle"]
  /\ pendingActTasks = {}
  /\ fresh = {}
  /\ polls = {}
  /\ running = {}
  /\ completing = {}
  /\ requeueing = {}
  /\ retries = {}
  /\ losses = 0
  /\ crashes = 0

Lose(n) == losses + n <= MaxLosses /\ losses' = losses + n

EventOf(type, a) == EvOf(type, a[2])

(* Mutant of Drop: the token stays valid.                                  *)
DropNothing(tasks) == UNCHANGED pendingActTasks

(* delete(s.pendingActTasks, token), under s.mu.                           *)
Drop(tasks) == pendingActTasks' = pendingActTasks \ tasks

-----------------------------------------------------------------------------
(* ScheduleActivity: record, then enqueue the first attempt.  An error     *)
(* ends the handler and leaves what was done.                              *)

ScheduleRecord(a) ==
  /\ schedPc[a] = "idle"
  /\ \/ /\ AppendEvent(a[1], EventOf("ActivityScheduled", a)) /\ NoFault
        /\ schedPc' = [schedPc EXCEPT ![a] = "recorded"]
     \/ /\ Fault /\ UNCHANGED history
        /\ schedPc' = [schedPc EXCEPT ![a] = "done"]
  /\ UNCHANGED <<status, queueVars, timerVars, pendingActTasks, fresh, polls,
                 running, completing, requeueing, retries, losses, crashes>>

FirstAttempt(a) == [act |-> a, attempt |-> 1, max |-> MaximumAttempts, data |-> TRUE]

ScheduleEnqueue(a) ==
  /\ schedPc[a] = "recorded"
  /\ schedPc' = [schedPc EXCEPT ![a] = "done"]
  /\ TryEnqueue(FirstAttempt(a))
  /\ UNCHANGED <<status, history, pel, timerVars, pendingActTasks, fresh, polls,
                 running, completing, requeueing, retries, losses, crashes>>

-----------------------------------------------------------------------------
(* PollActivityTask and StreamActivityTasks, through dequeueActivityTask.  *)

(* The stream handler puts an unsent task back while it holds s.mu.        *)
MuFree == \A q \in requeueing : q.by # "stream"

PollDequeue(e) ==
  /\ MuFree
  /\ Dequeue(e)
  /\ pendingActTasks' = pendingActTasks \cup {e}
  /\ fresh' = fresh \cup {e.id}
  /\ polls' = polls \cup {e}
  /\ UNCHANGED <<storeVars, nextId, timerVars, schedPc, running, completing,
                 requeueing, retries, losses, crashes>>

(* The reply of XREADGROUP is lost: the engine never heard of the entry.   *)
PollDequeueFails(e) ==
  /\ Dequeue(e)
  /\ Fault
  /\ UNCHANGED <<status, history, nextId, timerVars, callVars, pendingActTasks,
                 fresh, running, retries, losses, crashes>>

PollRespond(e) ==
  /\ e \in polls
  /\ polls' = polls \ {e}
  /\ running' = running \cup {[id |-> e.id, body |-> e.body, out |-> "none"]}
  /\ UNCHANGED <<storeVars, queueVars, timerVars, schedPc, completing,
                 requeueing, pendingActTasks, fresh, retries, losses, crashes>>

PollLost(e) ==
  /\ e \in polls
  /\ polls' = polls \ {e}
  /\ Lose(1)
  /\ UNCHANGED <<storeVars, queueVars, timerVars, schedPc, completing,
                 requeueing, pendingActTasks, fresh, running, retries, crashes>>

(* stream.Send fails: the whole envelope goes back, unless reclaim took    *)
(* the task first.                                                         *)
StreamSendFails(e) ==
  /\ MuFree
  /\ e \in polls
  /\ polls' = polls \ {e}
  /\ Lose(1)
  /\ Drop({e})
  /\ requeueing' = IF e \in pendingActTasks
                     THEN requeueing \cup {[id |-> e.id, body |-> e.body,
                                            by |-> "stream", pc |-> "ack"]}
                     ELSE requeueing
  /\ UNCHANGED <<storeVars, queueVars, timerVars, schedPc, completing, fresh,
                 running, retries, crashes>>

-----------------------------------------------------------------------------
(* The worker runs the activity; a panic is not caught and kills it.       *)

(* RecordActivityHeartbeat; without the token it only returns an error.    *)
Heartbeat(r) ==
  /\ MuFree
  /\ r \in running /\ r.out = "none"
  /\ \E p \in pendingActTasks : p.id = r.id
  /\ fresh' = fresh \cup {r.id}
  /\ UNCHANGED <<storeVars, queueVars, timerVars, callVars, pendingActTasks,
                 running, retries, losses, crashes>>

ActivityReturns(r, out) ==
  /\ r \in running /\ r.out = "none"
  /\ running' = (running \ {r}) \cup {[r EXCEPT !.out = out]}
  /\ UNCHANGED <<storeVars, queueVars, timerVars, callVars, pendingActTasks,
                 fresh, retries, losses, crashes>>

WorkerDies(r) ==
  /\ r \in running
  /\ running' = running \ {r}
  /\ Lose(1)
  /\ UNCHANGED <<storeVars, queueVars, timerVars, callVars, pendingActTasks,
                 fresh, retries, crashes>>

-----------------------------------------------------------------------------
(* CompleteActivity: the token is taken under s.mu, the rest runs without  *)
(* the lock and drops store errors.                                        *)

Step(c, pc) == completing' = (completing \ {c}) \cup {[c EXCEPT !.pc = pc]}

CompleteTake(r) ==
  /\ MuFree
  /\ r \in running /\ r.out # "none"
  /\ running' = running \ {r}
  /\ LET p == [id |-> r.id, body |-> r.body]
     IN  /\ Drop({p})
         /\ completing' = IF p \in pendingActTasks
                            THEN completing \cup {[id |-> r.id, body |-> r.body, out |-> r.out,
                                                   timer |-> 0, pc |-> "append"]}
                            ELSE completing  \* "task not found"
  /\ UNCHANGED <<storeVars, queueVars, timerVars, schedPc, polls, requeueing,
                 fresh, retries, losses, crashes>>

(* Mutant of MayRetry: one attempt too many.                               *)
MayRetryInclusive(body) == body.attempt <= body.max

(* Attempts are counted from 1 and MaxAttempts is inclusive.               *)
MayRetry(body) == body.attempt < body.max

(* Mutant of CompleteAppend: the retry is not limited to the error branch. *)
CompleteAppendRetries(c) ==
  /\ c \in completing /\ c.pc = "append"
  /\ TryAppendEvent(c.body.act[1],
       EventOf(IF c.out = "error" THEN "ActivityFailed" ELSE "ActivityCompleted", c.body.act))
  /\ Step(c, IF MayRetry(c.body) THEN "retry" ELSE "ack")
  /\ UNCHANGED <<status, queueVars, timerVars, schedPc, polls, requeueing,
                 pendingActTasks, fresh, running, retries, losses, crashes>>

CompleteAppend(c) ==
  /\ c \in completing /\ c.pc = "append"
  /\ TryAppendEvent(c.body.act[1],
       EventOf(IF c.out = "error" THEN "ActivityFailed" ELSE "ActivityCompleted", c.body.act))
  /\ Step(c, IF c.out = "error" /\ MayRetry(c.body) THEN "retry" ELSE "ack")
  /\ UNCHANGED <<status, queueVars, timerVars, schedPc, polls, requeueing,
                 pendingActTasks, fresh, running, retries, losses, crashes>>

(* scheduleActivityRetry: the event, then ScheduleTimer, whose steps are   *)
(* RetryArm, TimerHook and TimerScheduled.  An error of InsertTimer is     *)
(* only logged.                                                            *)
RetryRecord(c) ==
  /\ c \in completing /\ c.pc = "retry"
  /\ TryAppendEvent(c.body.act[1], EventOf("ActivityRetryScheduled", c.body.act))
  /\ Step(c, "arm")
  /\ UNCHANGED <<status, queueVars, timerVars, schedPc, polls, requeueing,
                 pendingActTasks, fresh, running, retries, losses, crashes>>

NextAttempt(body) == [body EXCEPT !.attempt = @ + 1]

RetryArm(c) ==
  /\ c \in completing /\ c.pc = "arm"
  /\ \/ /\ InsertTimer([id |-> nextTimer, wf |-> c.body.act[1], kind |-> "retry"])
        /\ NoFault
        /\ retries' = retries \cup {[timer |-> nextTimer, body |-> NextAttempt(c.body)]}
        /\ completing' = (completing \ {c})
                           \cup {[c EXCEPT !.pc = "arming", !.timer = nextTimer]}
     \/ /\ Fault /\ UNCHANGED <<timerVars, retries>>
        /\ Step(c, "ack")
  /\ UNCHANGED <<status, history, queueVars, schedPc, polls, requeueing,
                 pendingActTasks, fresh, running, losses, crashes>>

CompleteAck(c) ==
  /\ c \in completing /\ c.pc = "ack"
  /\ TryAck(c.id)
  /\ completing' = completing \ {c}
  /\ UNCHANGED <<status, history, stream, nextId, timerVars, schedPc, polls,
                 requeueing, pendingActTasks, fresh, running, retries, losses, crashes>>

-----------------------------------------------------------------------------
(* Timers.                                                                 *)

TasksUnchanged == UNCHANGED <<queueVars, schedPc, polls, requeueing,
                              pendingActTasks, fresh, running, retries, losses, crashes>>

TimerHook(t) == HookCallback(t) /\ TasksUnchanged /\ UNCHANGED completing

(* The end of ScheduleTimer lets its CompleteActivity go on.               *)
TimerScheduled(t) ==
  /\ AppendTimerScheduled(t)
  /\ completing' = {IF c.timer = t.id /\ c.pc = "arming" THEN [c EXCEPT !.pc = "ack"]
                                                         ELSE c : c \in completing}
  /\ TasksUnchanged

TimerFetch(due) == FetchDueTimers(due) /\ TasksUnchanged /\ UNCHANGED completing

TimerFire(t) == FireTimer(t) /\ TasksUnchanged /\ UNCHANGED completing

(* The callback of scheduleActivityRetry.                                  *)
RetryEnqueue(g) ==
  /\ g \in goroutines /\ g.pc = "spawned"
  /\ CallbackEnd(g)
  /\ \E c \in retries :
       /\ c.timer = g.timer.id
       /\ retries' = retries \ {c}
       /\ TryEnqueue(c.body)
  /\ UNCHANGED <<status, history, pel, unfired, nextTimer, arming, callbacks,
                 firing, callVars, pendingActTasks, fresh, running, losses, crashes>>

-----------------------------------------------------------------------------
(* One tick of reclaimExpired.  Ticks come every half visibility timeout,  *)
(* so a task touched since the last tick cannot have expired, and one that *)
(* nobody touches does in the end.                                         *)

WorkedOn(p) == (\E e \in polls : e.id = p.id) \/ (\E r \in running : r.id = p.id)

(* Mutant of Stripped: hands the lost attempt back, below zero in the end. *)
StrippedRefund(body) == [body EXCEPT !.attempt = @ - 1]

(* The envelope is rebuilt with the workflow id and the name alone: input, *)
(* policy, attempt and maximum are gone.                                   *)
Stripped(body) == [act |-> body.act, attempt |-> 0, max |-> 0, data |-> FALSE]

(* Mutant of ReclaimCollect: heartbeats do not count.                      *)
ReclaimCollectEager(expired) ==
  /\ MuFree
  /\ \A q \in requeueing : q.by # "loop"
  /\ expired # {} \/ fresh # {}
  /\ fresh' = {}
  /\ Drop(expired)
  /\ requeueing' = requeueing \cup
       {[id |-> p.id, body |-> Stripped(p.body), by |-> "loop", pc |-> "ack"] : p \in expired}
  /\ UNCHANGED <<storeVars, queueVars, timerVars, schedPc, polls, completing,
                 running, retries, losses, crashes>>

(* Mutant of ReclaimCollect: a task once touched counts as alive for ever. *)
ReclaimCollectSpares(expired) ==
  /\ MuFree
  /\ \A q \in requeueing : q.by # "loop"
  /\ expired # {} \/ fresh # {}
  /\ \A p \in expired : p.id \notin fresh
  /\ IF \E p \in expired : WorkedOn(p) THEN Lose(1) ELSE UNCHANGED losses
  /\ Drop(expired)
  /\ requeueing' = requeueing \cup
       {[id |-> p.id, body |-> Stripped(p.body), by |-> "loop", pc |-> "ack"] : p \in expired}
  /\ UNCHANGED <<storeVars, queueVars, timerVars, schedPc, polls, completing,
                 running, retries, fresh, crashes>>

ReclaimCollect(expired) ==
  /\ MuFree
  /\ \A q \in requeueing : q.by # "loop"
  /\ expired # {} \/ fresh # {}
  /\ \A p \in expired : p.id \notin fresh
  /\ IF \E p \in expired : WorkedOn(p) THEN Lose(1) ELSE UNCHANGED losses
  /\ fresh' = {}
  /\ Drop(expired)
  /\ requeueing' = requeueing \cup
       {[id |-> p.id, body |-> Stripped(p.body), by |-> "loop", pc |-> "ack"] : p \in expired}
  /\ UNCHANGED <<storeVars, queueVars, timerVars, schedPc, polls, completing,
                 running, retries, crashes>>

RequeueAck(q) ==
  /\ q \in requeueing /\ q.pc = "ack"
  /\ TryAck(q.id)
  /\ requeueing' = (requeueing \ {q}) \cup {[q EXCEPT !.pc = "enqueue"]}
  /\ UNCHANGED <<status, history, stream, nextId, timerVars, schedPc, polls,
                 completing, pendingActTasks, fresh, running, retries, losses, crashes>>

RequeueEnqueue(q) ==
  /\ q \in requeueing /\ q.pc = "enqueue"
  /\ TryEnqueue(q.body)
  /\ requeueing' = requeueing \ {q}
  /\ UNCHANGED <<status, history, pel, timerVars, schedPc, polls, completing,
                 pendingActTasks, fresh, running, retries, losses, crashes>>

-----------------------------------------------------------------------------
(* The engine dies and another one takes over: tables, calls in flight and *)
(* closures are gone; rows, timers, stream and workers stay.               *)
EngineCrash ==
  /\ crashes < MaxCrashes
  /\ crashes' = crashes + 1
  /\ TimerCrash
  /\ schedPc' = [a \in Activity |-> IF schedPc[a] = "idle" THEN "idle" ELSE "done"]
  /\ pendingActTasks' = {} /\ fresh' = {} /\ retries' = {}
  /\ polls' = {} /\ completing' = {} /\ requeueing' = {}
  /\ UNCHANGED <<storeVars, queueVars, running, losses>>

-----------------------------------------------------------------------------
ScheduleActivity(a) == ScheduleRecord(a) \/ ScheduleEnqueue(a)

Poll ==
  \/ \E i \in DOMAIN stream : PollDequeue(stream[i]) \/ PollDequeueFails(stream[i])
  \/ \E e \in polls : PollRespond(e)

Worker == \E r \in running : Heartbeat(r) \/ \E out \in Outcome : ActivityReturns(r, out)

CompleteActivity ==
  \/ \E r \in running : CompleteTake(r)
  \/ \E c \in completing :
       CompleteAppend(c) \/ RetryRecord(c) \/ RetryArm(c) \/ CompleteAck(c)

ScheduleTimer == \E x \in arming : TimerHook(x.timer) \/ TimerScheduled(x.timer)

fireDue ==
  \/ \E due \in SUBSET unfired : TimerFetch(due)
  \/ \E t \in firing : TimerFire(t)

Callback == \E g \in goroutines : RetryEnqueue(g)

reclaimExpired ==
  \/ \E expired \in SUBSET pendingActTasks : ReclaimCollect(expired)
  \/ \E q \in requeueing : RequeueAck(q) \/ RequeueEnqueue(q)

Losses ==
  \/ \E e \in polls : PollLost(e) \/ StreamSendFails(e)
  \/ \E r \in running : WorkerDies(r)

Next ==
  \/ \E a \in Activity : ScheduleActivity(a)
  \/ Poll \/ Worker \/ CompleteActivity
  \/ ScheduleTimer \/ fireDue \/ Callback
  \/ reclaimExpired \/ Losses \/ EngineCrash

Spec == Init /\ [][Next]_vars

(* Handlers, goroutines, loops and workers go on.  A scheduled call is     *)
(* finished, but none has to be made; nobody has to heartbeat.             *)
Fairness ==
  /\ WF_vars(\E a \in Activity : ScheduleEnqueue(a))
  /\ WF_vars(\E i \in DOMAIN stream : PollDequeue(stream[i]))
  /\ WF_vars(\E e \in polls : PollRespond(e))
  /\ WF_vars(\E r \in running, out \in Outcome : ActivityReturns(r, out))
  /\ WF_vars(CompleteActivity)
  /\ WF_vars(ScheduleTimer)
  /\ WF_vars(fireDue)
  /\ WF_vars(Callback)
  /\ WF_vars(ReclaimCollect({}))
  /\ WF_vars(\E expired \in SUBSET pendingActTasks :
               expired # {} /\ (\A p \in expired : ~WorkedOn(p)) /\ ReclaimCollect(expired))
  /\ WF_vars(\E q \in requeueing : RequeueAck(q) \/ RequeueEnqueue(q))

FairSpec == Spec /\ Fairness

-----------------------------------------------------------------------------
Undecided(c) == c.pc \in {"append", "retry", "arm"}

(* A right to run a: everything that is, or becomes by itself, a task of a. *)
Starting(a)   == IF schedPc[a] = "recorded" THEN {<<"starting", a>>} ELSE {}
Queued(a)     == {<<"queued", stream[i]>> : i \in {j \in DOMAIN stream : stream[j].body.act = a}}
Pending(a)    == {<<"pending", p>> : p \in {q \in pendingActTasks : q.body.act = a}}
Completing(a) == {<<"completing", c>> : c \in {d \in completing : d.body.act = a /\ Undecided(d)}}
Requeueing(a) == {<<"requeueing", q>> : q \in {x \in requeueing : x.body.act = a}}
Retrying(a)   == {<<"retrying", c>> : c \in {x \in retries : x.body.act = a}}

Rights(a) == Starting(a) \cup Queued(a) \cup Pending(a) \cup Completing(a)
               \cup Requeueing(a) \cup Retrying(a)

Recorded(a, type) ==
  {i \in DOMAIN history[a[1]] : history[a[1]][i] = EventOf(type, a)}

Outcomes(a) == Recorded(a, "ActivityCompleted") \cup Recorded(a, "ActivityFailed")

(* A retry timer was fetched before its callback was in the table, so the  *)
(* callback stays there and never runs.                                    *)
LateHook ==
  \E t \in callbacks \cup {x.timer : x \in {y \in arming : y.step = "inserted"}} :
    t \notin unfired \cup firing

(* An activity never has two tasks: heartbeats, reclaim, failed sends,     *)
(* late completions and retry timers hand one right to run from one to the *)
(* other.                                                                  *)
SingleTask == \A a \in Activity : \A x, y \in Rights(a) : x = y

(* The attempts an activity is charged for never exceed the policy: with   *)
(* MaximumAttempts = n the history gets at most n outcomes, also when      *)
(* tasks are reclaimed (which restarts the count) and workers report late. *)
AttemptsBounded ==
  \A a \in Activity : Cardinality(Outcomes(a)) <= MaximumAttempts

(* Nothing follows a success: no second outcome, no task left to run.      *)
SuccessIsFinal ==
  \A a \in Activity : \A i \in Recorded(a, "ActivityCompleted") :
    /\ Rights(a) = {}
    /\ \A j \in Outcomes(a) : j <= i

(* The timer of a retry will start it: its callback is in the table, or    *)
(* about to be, before the row is done with, or it was started already.    *)
Armed(c) ==
  \/ \E g \in goroutines : g.timer.id = c.timer /\ g.pc = "spawned"
  \/ \E t \in unfired \cup firing :
       /\ t.id = c.timer
       /\ t \in callbacks \/ [timer |-> t, step |-> "inserted"] \in arming

(* As long as no call failed, the engine did not die and no timer outran   *)
(* its callback, a scheduled activity still has a task, or a retry whose   *)
(* timer is going to start it, or it has its outcome: a success, or as     *)
(* many failures as the policy allows; fewer only if a worker or a         *)
(* response was lost.                                                      *)
NeverDropped ==
  faults = 0 /\ crashes = 0 /\ ~LateHook =>
    \A a \in Activity :
      Recorded(a, "ActivityScheduled") # {} =>
        \/ \E x \in Rights(a) : x[1] = "retrying" => Armed(x[2])
        \/ Recorded(a, "ActivityCompleted") # {}
        \/ Cardinality(Outcomes(a)) = MaximumAttempts
        \/ losses > 0 /\ Outcomes(a) # {}

(* As long as every worker heartbeats in time (losses count the ones that  *)
(* do not) and the engine lives, no two workers run the same activity.     *)
OneWorker ==
  losses = 0 /\ crashes = 0 =>
    \A r, q \in running : r.body.act = q.body.act => r = q

(* An activity that was scheduled and has no right to run any more is      *)
(* closed.                                                                 *)
Phase(a) ==
  CASE schedPc[a] = "idle"                                                -> "absent"
    [] schedPc[a] # "idle" /\ Rights(a) # {}                              -> "due"
    [] schedPc[a] # "idle" /\ Rights(a) = {}
         /\ Recorded(a, "ActivityCompleted") # {}                         -> "completed"
    [] schedPc[a] # "idle" /\ Rights(a) = {}
         /\ Recorded(a, "ActivityCompleted") = {}                         -> "ended"

Life == INSTANCE ActivityLife
          WITH phase <- [a \in Activity |-> Phase(a)],
               outcomes <- [a \in Activity |-> Cardinality(Outcomes(a))],
               upset <- ~(faults = 0 /\ crashes = 0)

(* Every outcome is that of an activity that was due, and closes it unless *)
(* the policy leaves an attempt; a closed activity stays closed, late      *)
(* workers, retry timers, reclaims and restarts notwithstanding.           *)
ImplementsLife == Life!Spec

(* A scheduled activity gets its last outcome in the end, dead workers and *)
(* lost responses notwithstanding, unless a call fails, the engine dies or *)
(* a timer outruns its callback.                                           *)
ActivitySettles ==
  \A a \in Activity :
    Rights(a) # {} ~> \/ Rights(a) = {} /\ Outcomes(a) # {}
                      \/ faults > 0 \/ crashes > 0 \/ LateHook
=============================================================================
