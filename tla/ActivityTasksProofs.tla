------------------------ MODULE ActivityTasksProofs ------------------------
(***************************************************************************)
(* Proofs about ActivityTasks, for every set of workflows, every retry     *)
(* policy and every bound.                                                 *)
(***************************************************************************)
EXTENDS ActivityTasks, FiniteSetTheorems, TLAPS

(* A leaf goes to Zenon unless it names another prover.                    *)
USE Zenon

-----------------------------------------------------------------------------
(* Type correctness.                                                       *)

LEMMA ActivityPair ==
  ASSUME NEW a \in Activity
  PROVE  a[1] \in Workflow /\ a[2] \in Nat /\ a = <<a[1], a[2]>>
BY ActivityAssumption, SMT DEF Activity

LEMMA Bodies ==
  /\ \A a \in Activity : FirstAttempt(a) \in Envelope
  /\ \A b \in Envelope : Stripped(b) \in Envelope /\ NextAttempt(b) \in Envelope /\ b.act \in Activity
BY ActivityAssumption, SMT DEF Envelope, FirstAttempt, Stripped, NextAttempt

LEMMA Events ==
  ASSUME NEW a \in Activity, NEW type \in EventType
  PROVE  EventOf(type, a) \in Event
BY ActivityPair DEF EventOf, EvOf, Event

LEMMA FaultType ==
  ASSUME StoreTypeOK, Fault \/ NoFault
  PROVE  faults' \in 0 .. MaxFaults
BY MaxFaultsAssumption, SMT DEF StoreTypeOK, Fault, NoFault

LEMMA AppendType ==
  ASSUME StoreTypeOK, NEW w \in Workflow, NEW e \in Event, AppendEvent(w, e)
  PROVE  history' \in [Workflow -> Seq(Event)]
BY SMT DEF StoreTypeOK, AppendEvent

LEMMA TryAppendType ==
  ASSUME StoreTypeOK, NEW w \in Workflow, NEW e \in Event, TryAppendEvent(w, e), UNCHANGED status
  PROVE  StoreTypeOK'
BY AppendType, FaultType DEF TryAppendEvent, StoreTypeOK

LEMMA TryEnqueueType ==
  ASSUME StoreTypeOK, stream \in Seq(Entry), nextId \in Nat \ {0},
         NEW body \in Envelope, TryEnqueue(body), UNCHANGED <<status, history>>
  PROVE  StoreTypeOK' /\ stream' \in Seq(Entry) /\ nextId' \in Nat \ {0}
<1>1. StoreTypeOK'
  BY FaultType DEF TryEnqueue, StoreTypeOK
<1>2. CASE Enqueue(body)
  BY <1>1, <1>2, SMT DEF Enqueue, Entry
<1>3. CASE UNCHANGED <<stream, nextId>>
  BY <1>1, <1>3
<1> QED  BY <1>2, <1>3 DEF TryEnqueue

LEMMA TryAckType ==
  ASSUME StoreTypeOK, pel \subseteq Entry, NEW id, TryAck(id), UNCHANGED <<status, history>>
  PROVE  StoreTypeOK' /\ pel' \subseteq Entry
BY FaultType DEF TryAck, Ack, StoreTypeOK

LEMMA LoseType ==
  ASSUME losses \in 0 .. MaxLosses, Lose(1)
  PROVE  losses' \in 0 .. MaxLosses /\ losses' # 0
BY ActivityAssumption, SMT DEF Lose

LEMMA DequeueType ==
  ASSUME stream \in Seq(Entry), pel \subseteq Entry, NEW i \in DOMAIN stream, Dequeue(stream[i])
  PROVE  /\ stream # <<>> /\ stream[i] = Head(stream) /\ stream[i] \in Entry
         /\ stream' \in Seq(Entry) /\ pel' \subseteq Entry
BY SMT DEF Dequeue

LEMMA StepType ==
  ASSUME completing \subseteq Completion, NEW c \in completing,
         NEW pc \in {"append", "retry", "arm", "arming", "ack"}, Step(c, pc)
  PROVE  completing' \subseteq Completion
BY DEF Step, Completion

LEMMA ScheduleType ==
  ASSUME TypeOK, NEW a \in Activity, ScheduleActivity(a)
  PROVE  TypeOK'
<1> USE DEF TypeOK, queueVars, timerVars
<1>1. CASE ScheduleRecord(a)
  <2>1. StoreTypeOK'
    <3>1. a[1] \in Workflow /\ EventOf("ActivityScheduled", a) \in Event
      BY ActivityPair, Events DEF EventType
    <3> QED  BY <1>1, <3>1, AppendType, FaultType DEF ScheduleRecord, StoreTypeOK
  <2>2. schedPc' \in [Activity -> {"idle", "recorded", "done"}]
    BY <1>1 DEF ScheduleRecord
  <2> QED  BY <1>1, <2>1, <2>2 DEF ScheduleRecord, TimerTypeOK
<1>2. CASE ScheduleEnqueue(a)
  <2>1. StoreTypeOK' /\ stream' \in Seq(Entry) /\ nextId' \in Nat \ {0}
    BY <1>2, Bodies, TryEnqueueType DEF ScheduleEnqueue
  <2>2. schedPc' \in [Activity -> {"idle", "recorded", "done"}]
    BY <1>2 DEF ScheduleEnqueue
  <2> QED  BY <1>2, <2>1, <2>2 DEF ScheduleEnqueue, TimerTypeOK
<1> QED  BY <1>1, <1>2 DEF ScheduleActivity

LEMMA PollType ==
  ASSUME TypeOK, Poll
  PROVE  TypeOK'
<1> USE DEF TypeOK, storeVars, queueVars, timerVars, callVars
<1>1. ASSUME NEW i \in DOMAIN stream, PollDequeue(stream[i]) PROVE TypeOK'
  <2>1. stream[i] \in Entry /\ stream' \in Seq(Entry) /\ pel' \subseteq Entry
    BY <1>1, DequeueType DEF PollDequeue
  <2>2. stream[i].id \in Nat
    BY <2>1 DEF Entry
  <2> QED  BY <1>1, <2>1, <2>2 DEF PollDequeue, StoreTypeOK, TimerTypeOK
<1>2. ASSUME NEW i \in DOMAIN stream, PollDequeueFails(stream[i]) PROVE TypeOK'
  <2>1. stream' \in Seq(Entry) /\ pel' \subseteq Entry
    BY <1>2, DequeueType DEF PollDequeueFails
  <2>2. StoreTypeOK'
    BY <1>2, FaultType DEF PollDequeueFails, StoreTypeOK
  <2> QED  BY <1>2, <2>1, <2>2 DEF PollDequeueFails, TimerTypeOK
<1>3. ASSUME NEW e \in polls, PollRespond(e) PROVE TypeOK'
  <2>1. [id |-> e.id, body |-> e.body, out |-> "none"] \in ActRun
    BY DEF Entry, ActRun
  <2> QED  BY <1>3, <2>1 DEF PollRespond, StoreTypeOK, TimerTypeOK
<1> QED  BY <1>1, <1>2, <1>3 DEF Poll

LEMMA WorkerType ==
  ASSUME TypeOK, Worker
  PROVE  TypeOK'
<1> USE DEF TypeOK, storeVars, queueVars, timerVars, callVars
<1>1. ASSUME NEW r \in running, Heartbeat(r) PROVE TypeOK'
  <2>1. r.id \in Nat
    BY DEF ActRun
  <2> QED  BY <1>1, <2>1 DEF Heartbeat, StoreTypeOK, TimerTypeOK
<1>2. ASSUME NEW r \in running, NEW out \in Outcome, ActivityReturns(r, out) PROVE TypeOK'
  <2>1. [r EXCEPT !.out = out] \in ActRun
    BY DEF ActRun
  <2> QED  BY <1>2, <2>1 DEF ActivityReturns, StoreTypeOK, TimerTypeOK
<1> QED  BY <1>1, <1>2 DEF Worker

LEMMA CompleteType ==
  ASSUME TypeOK, CompleteActivity
  PROVE  TypeOK'
<1> USE DEF TypeOK, storeVars, queueVars, timerVars
<1>0. \A c \in completing : c \in Completion /\ c.body \in Envelope /\ c.body.act \in Activity
                            /\ c.body.act[1] \in Workflow
  BY Bodies, ActivityPair DEF Completion
<1>1. ASSUME NEW r \in running, CompleteTake(r) PROVE TypeOK'
  <2>1. r \in ActRun /\ (r.out # "none" => r.out \in Outcome)
    BY DEF ActRun
  <2>2. r.out # "none" /\ 0 \in Nat
    BY <1>1, SMT DEF CompleteTake
  <2>3. [id |-> r.id, body |-> r.body, out |-> r.out, timer |-> 0, pc |-> "append"] \in Completion
    BY <2>1, <2>2 DEF ActRun, Completion
  <2>4. pendingActTasks' \subseteq Entry /\ running' \subseteq ActRun /\ completing' \subseteq Completion
    BY <1>1, <2>3 DEF CompleteTake, Drop
  <2> QED  BY <1>1, <2>4 DEF CompleteTake, StoreTypeOK, TimerTypeOK
<1>2. ASSUME NEW c \in completing, CompleteAppend(c) PROVE TypeOK'
  <2>1. StoreTypeOK'
    <3>1. EventOf(IF c.out = "error" THEN "ActivityFailed" ELSE "ActivityCompleted", c.body.act) \in Event
      BY <1>0, Events DEF EventType
    <3> QED  BY <1>0, <1>2, <3>1, TryAppendType DEF CompleteAppend
  <2>2. completing' \subseteq Completion
    BY <1>2, StepType DEF CompleteAppend
  <2> QED  BY <1>2, <2>1, <2>2 DEF CompleteAppend, TimerTypeOK
<1>3. ASSUME NEW c \in completing, RetryRecord(c) PROVE TypeOK'
  <2>1. StoreTypeOK'
    <3>1. EventOf("ActivityRetryScheduled", c.body.act) \in Event
      BY <1>0, Events DEF EventType
    <3> QED  BY <1>0, <1>3, <3>1, TryAppendType DEF RetryRecord
  <2>2. completing' \subseteq Completion
    BY <1>3, StepType DEF RetryRecord
  <2> QED  BY <1>3, <2>1, <2>2 DEF RetryRecord, TimerTypeOK
<1>4. ASSUME NEW c \in completing, RetryArm(c) PROVE TypeOK'
  <2>0. StoreTypeOK'
    BY <1>4, FaultType DEF RetryArm, StoreTypeOK
  <2>1. CASE Fault /\ UNCHANGED <<timerVars, retries>> /\ Step(c, "ack")
    <3>1. completing' \subseteq Completion
      BY <2>1, StepType
    <3> QED  BY <1>4, <2>0, <2>1, <3>1 DEF RetryArm, TimerTypeOK
  <2> DEFINE t == [id |-> nextTimer, wf |-> c.body.act[1], kind |-> "retry"]
             d == [c EXCEPT !.pc = "arming", !.timer = nextTimer]
             n == [timer |-> nextTimer, body |-> NextAttempt(c.body)]
  <2>2. CASE /\ InsertTimer(t)
             /\ retries' = retries \cup {n}
             /\ completing' = (completing \ {c}) \cup {d}
    <3>1. nextTimer \in Nat
      BY SMT DEF TimerTypeOK
    <3>2. t \in Timer
      BY <1>0, <3>1 DEF Timer, Kind
    <3>3. d \in Completion
      BY <1>0, <3>1 DEF Completion
    <3>4. n \in [timer : Nat, body : Envelope]
      BY <1>0, <3>1, Bodies
    <3> HIDE DEF t, d, n
    <3>5. TimerTypeOK'
      BY <2>2, <3>2, SMT DEF TimerTypeOK, InsertTimer, ArmStep
    <3>6. completing' \subseteq Completion /\ retries' \subseteq [timer : Nat, body : Envelope]
      BY <2>2, <3>3, <3>4
    <3> QED  BY <1>4, <2>0, <3>5, <3>6 DEF RetryArm
  <2> QED  BY <1>4, <2>1, <2>2 DEF RetryArm
<1>5. ASSUME NEW c \in completing, CompleteAck(c) PROVE TypeOK'
  <2>1. StoreTypeOK' /\ pel' \subseteq Entry
    BY <1>5, TryAckType DEF CompleteAck
  <2> QED  BY <1>5, <2>1 DEF CompleteAck, TimerTypeOK
<1> QED  BY <1>1, <1>2, <1>3, <1>4, <1>5 DEF CompleteActivity

LEMMA TimerType ==
  ASSUME TypeOK, ScheduleTimer \/ fireDue \/ Callback
  PROVE  TypeOK'
<1> USE DEF TypeOK, storeVars, queueVars, timerVars, callVars
<1>0. /\ \A x \in arming : x.timer \in Timer
      /\ firing \subseteq Timer
      /\ \A t \in Timer : t.id \in Nat /\ t.wf \in Workflow
      /\ \A t \in Timer : \A type \in {"TimerScheduled", "TimerFired"} : EvOf(type, t.id) \in Event
  BY DEF TimerTypeOK, Timer, EvOf, Event, EventType
<1>1. ASSUME NEW x \in arming, TimerHook(x.timer) PROVE TypeOK'
  <2>0. x.timer \in Timer /\ [timer |-> x.timer, step |-> "hooked"] \in [timer : Timer, step : ArmStep]
    BY <1>0 DEF ArmStep
  <2>1. TimerTypeOK'
    BY <1>1, <2>0 DEF TimerHook, HookCallback, TimerTypeOK
  <2> QED  BY <1>1, <2>1 DEF TimerHook, HookCallback, TasksUnchanged, StoreTypeOK
<1>2. ASSUME NEW x \in arming, TimerScheduled(x.timer) PROVE TypeOK'
  <2>1. StoreTypeOK'
    BY <1>0, <1>2, TryAppendType DEF TimerScheduled, AppendTimerScheduled
  <2>2. TimerTypeOK'
    BY <1>2 DEF TimerScheduled, AppendTimerScheduled, TimerTypeOK
  <2>3. \A c \in completing : [c EXCEPT !.pc = "ack"] \in Completion
    BY DEF Completion
  <2>4. completing' \subseteq Completion
    BY <1>2, <2>3 DEF TimerScheduled
  <2> QED  BY <1>2, <2>1, <2>2, <2>4 DEF TimerScheduled, TasksUnchanged
<1>3. ASSUME NEW due \in SUBSET unfired, TimerFetch(due) PROVE TypeOK'
  <2>1. TimerTypeOK'
    BY <1>3 DEF TimerFetch, FetchDueTimers, TimerTypeOK
  <2> QED  BY <1>3, <2>1 DEF TimerFetch, FetchDueTimers, TasksUnchanged, StoreTypeOK
<1>4. ASSUME NEW t \in firing, TimerFire(t) PROVE TypeOK'
  <2>1. StoreTypeOK'
    BY <1>0, <1>4, TryAppendType DEF TimerFire, FireTimer
  <2>2. [timer |-> t, pc |-> "spawned"] \in [timer : Timer, pc : CallbackPc]
    BY <1>0 DEF CallbackPc
  <2>3. TimerTypeOK'
    BY <1>4, <2>2 DEF TimerFire, FireTimer, TimerTypeOK
  <2> QED  BY <1>4, <2>1, <2>3 DEF TimerFire, TasksUnchanged
<1>5. ASSUME NEW g \in goroutines, RetryEnqueue(g) PROVE TypeOK'
  <2>1. PICK c \in retries : retries' = retries \ {c} /\ TryEnqueue(c.body)
    BY <1>5 DEF RetryEnqueue
  <2>2. c.body \in Envelope
    OBVIOUS
  <2>3. StoreTypeOK' /\ stream' \in Seq(Entry) /\ nextId' \in Nat \ {0}
    BY <1>5, <2>1, <2>2, TryEnqueueType DEF RetryEnqueue
  <2>4. TimerTypeOK'
    BY <1>5 DEF RetryEnqueue, CallbackEnd, TimerTypeOK
  <2> QED  BY <1>5, <2>1, <2>3, <2>4 DEF RetryEnqueue
<1> QED  BY <1>1, <1>2, <1>3, <1>4, <1>5 DEF ScheduleTimer, fireDue, Callback

LEMMA ReclaimType ==
  ASSUME TypeOK, reclaimExpired
  PROVE  TypeOK'
<1> USE DEF TypeOK, storeVars, queueVars, timerVars
<1>1. ASSUME NEW expired \in SUBSET pendingActTasks, ReclaimCollect(expired) PROVE TypeOK'
  <2>1. losses' \in 0 .. MaxLosses
    BY <1>1, LoseType DEF ReclaimCollect
  <2>2. \A p \in expired :
          [id |-> p.id, body |-> Stripped(p.body), by |-> "loop", pc |-> "ack"] \in Requeue
    BY Bodies DEF Entry, Requeue
  <2>3. requeueing' \subseteq Requeue /\ pendingActTasks' \subseteq Entry /\ fresh' \subseteq Nat
    BY <1>1, <2>2 DEF ReclaimCollect, Drop
  <2> QED  BY <1>1, <2>1, <2>3 DEF ReclaimCollect, StoreTypeOK, TimerTypeOK
<1>2. ASSUME NEW q \in requeueing, RequeueAck(q) PROVE TypeOK'
  <2>1. StoreTypeOK' /\ pel' \subseteq Entry
    BY <1>2, TryAckType DEF RequeueAck
  <2>2. [q EXCEPT !.pc = "enqueue"] \in Requeue
    BY DEF Requeue
  <2>3. requeueing' \subseteq Requeue
    BY <1>2, <2>2 DEF RequeueAck
  <2> QED  BY <1>2, <2>1, <2>3 DEF RequeueAck, TimerTypeOK
<1>3. ASSUME NEW q \in requeueing, RequeueEnqueue(q) PROVE TypeOK'
  <2>1. q.body \in Envelope
    BY DEF Requeue
  <2>2. StoreTypeOK' /\ stream' \in Seq(Entry) /\ nextId' \in Nat \ {0}
    BY <1>3, <2>1, TryEnqueueType DEF RequeueEnqueue
  <2> QED  BY <1>3, <2>2 DEF RequeueEnqueue, TimerTypeOK
<1> QED  BY <1>1, <1>2, <1>3 DEF reclaimExpired

LEMMA LossType ==
  ASSUME TypeOK, Losses \/ EngineCrash
  PROVE  TypeOK'
<1> USE DEF TypeOK, storeVars, queueVars, timerVars, callVars
<1>1. ASSUME NEW e \in polls, PollLost(e) PROVE TypeOK'
  <2>1. losses' \in 0 .. MaxLosses
    BY <1>1, LoseType DEF PollLost
  <2> QED  BY <1>1, <2>1 DEF PollLost, StoreTypeOK, TimerTypeOK
<1>2. ASSUME NEW e \in polls, StreamSendFails(e) PROVE TypeOK'
  <2>1. losses' \in 0 .. MaxLosses
    BY <1>2, LoseType DEF StreamSendFails
  <2>2. [id |-> e.id, body |-> e.body, by |-> "stream", pc |-> "ack"] \in Requeue
    BY DEF Entry, Requeue
  <2>3. requeueing' \subseteq Requeue /\ pendingActTasks' \subseteq Entry
    BY <1>2, <2>2 DEF StreamSendFails, Drop
  <2> QED  BY <1>2, <2>1, <2>3 DEF StreamSendFails, StoreTypeOK, TimerTypeOK
<1>3. ASSUME NEW r \in running, WorkerDies(r) PROVE TypeOK'
  <2>1. losses' \in 0 .. MaxLosses
    BY <1>3, LoseType DEF WorkerDies
  <2> QED  BY <1>3, <2>1 DEF WorkerDies, StoreTypeOK, TimerTypeOK
<1>4. CASE EngineCrash
  <2>1. crashes' \in 0 .. MaxCrashes
    BY <1>4, ActivityAssumption, SMT DEF EngineCrash
  <2>2. schedPc' \in [Activity -> {"idle", "recorded", "done"}]
    BY <1>4 DEF EngineCrash
  <2> QED  BY <1>4, <2>1, <2>2 DEF EngineCrash, TimerCrash, StoreTypeOK, TimerTypeOK
<1> QED  BY <1>1, <1>2, <1>3, <1>4 DEF Losses

LEMMA NextType ==
  ASSUME TypeOK, Next
  PROVE  TypeOK'
BY ScheduleType, PollType, WorkerType, CompleteType, TimerType, ReclaimType, LossType DEF Next

LEMMA InitType == Init => TypeOK
BY MaxFaultsAssumption, ActivityAssumption, SMT
   DEF Init, TypeOK, QueueInit, TimerInit, StoreTypeOK, TimerTypeOK, Status, Event, EventType, Ev, Entry

-----------------------------------------------------------------------------
(* The inductive invariant.                                                *)

(* Entry ids are fresh: an entry is in the stream or in the token table,   *)
(* and there once.                                                         *)
Fresh ==
  /\ \A i \in DOMAIN stream : stream[i].id < nextId
  /\ \A i, j \in DOMAIN stream : stream[i].id = stream[j].id => i = j
  /\ \A p \in pendingActTasks : p.id < nextId /\ \A i \in DOMAIN stream : stream[i].id # p.id
  /\ \A p, q \in pendingActTasks : p.id = q.id => p = q

(* As long as nothing was lost, a worker has the token of what it runs,    *)
(* and somebody works on every token.                                      *)
Manned ==
  losses = 0 /\ crashes = 0 =>
    /\ \A p \in pendingActTasks : WorkedOn(p)
    /\ \A r \in running : [id |-> r.id, body |-> r.body] \in pendingActTasks
    /\ polls \subseteq pendingActTasks
    /\ \A e \in polls, r \in running : e.id # r.id
    /\ \A r, q \in running : r.id = q.id => r = q

(* The envelope a right to run will be run with.                           *)
Due(x) ==
  IF x[1] = "starting" THEN FirstAttempt(x[2])
  ELSE IF x[1] = "completing" /\ x[2].pc # "append" THEN NextAttempt(x[2].body)
  ELSE x[2].body

(* There is room for one more outcome, and the count in the envelope is    *)
(* ahead of the outcomes recorded, unless a reclaim reset it.              *)
Fits(b, n) ==
  /\ b \in Envelope
  /\ n < MaximumAttempts
  /\ b.max # 0 => n < b.attempt /\ b.attempt <= b.max /\ b.max <= MaximumAttempts

Completed(a) == Recorded(a, "ActivityCompleted")

Safe(a) ==
  /\ IsFiniteSet(Outcomes(a)) /\ Cardinality(Outcomes(a)) <= MaximumAttempts
  /\ \A x, y \in Rights(a) : x = y
  /\ \A x \in Rights(a) : Fits(Due(x), Cardinality(Outcomes(a)))
  /\ \A i \in Completed(a) : Rights(a) = {} /\ \A j \in Outcomes(a) : j <= i
  /\ schedPc[a] = "idle" => Rights(a) = {} /\ Outcomes(a) = {}

IInv == TypeOK /\ Fresh /\ Manned /\ \A a \in Activity : Safe(a)

-----------------------------------------------------------------------------
(* What a step may do to the rights of a.                                  *)

SameOutcomes(a) == Outcomes(a)' = Outcomes(a) /\ Completed(a)' = Completed(a)

Keeps(a) == Rights(a)' = Rights(a) /\ SameOutcomes(a)

Exchanges(a) ==
  /\ \E x \in Rights(a) : \E y : /\ Rights(a)' = (Rights(a) \ {x}) \cup {y}
                                 /\ \/ Due(y) = Due(x)
                                    \/ Due(y) = Stripped(Due(x)) /\ (losses' # 0 \/ crashes' # 0)
  /\ SameOutcomes(a)

(* Only a failed call or a crash loses a right.                            *)
Drops(a) ==
  /\ Rights(a)' \subseteq Rights(a) /\ SameOutcomes(a)
  /\ faults' # 0 \/ crashes' # 0

(* A failed attempt is recorded and the next one is due.                   *)
Retries(a) ==
  \E x \in Rights(a) : \E y, n :
    /\ Rights(a)' = (Rights(a) \ {x}) \cup {y}
    /\ MayRetry(Due(x)) /\ Due(y) = NextAttempt(Due(x))
    /\ Outcomes(a)' \subseteq Outcomes(a) \cup {n}
    /\ Completed(a)' = Completed(a)
    /\ faults' = 0 => Outcomes(a)' = Outcomes(a) \cup {n} /\ n \notin Outcomes(a)

(* The last outcome is recorded.                                           *)
Ends(a) ==
  \E x \in Rights(a) : \E n :
    /\ Rights(a)' = Rights(a) \ {x}
    /\ Outcomes(a)' \subseteq Outcomes(a) \cup {n}
    /\ Completed(a)' \subseteq Completed(a) \cup {n}
    /\ \A j \in Outcomes(a)' : j <= n
    /\ faults' = 0 => /\ Outcomes(a)' = Outcomes(a) \cup {n} /\ n \notin Outcomes(a)
                      /\ n \in Completed(a)' \/ ~MayRetry(Due(x))

Born(a) ==
  /\ schedPc[a] = "idle" /\ schedPc'[a] # "idle"
  /\ \E y : Rights(a)' \subseteq Rights(a) \cup {y} /\ Due(y) = FirstAttempt(a)
  /\ SameOutcomes(a)
  /\ faults' = 0 => Rights(a)' # {}

Ages(a) == schedPc'[a] = "idle" <=> schedPc[a] = "idle"

Moves(a) == Ages(a) /\ (Keeps(a) \/ Exchanges(a) \/ Drops(a) \/ Retries(a) \/ Ends(a))

(* One more outcome is one more at most.                                   *)
LEMMA OneMore ==
  ASSUME NEW S, IsFiniteSet(S), NEW n, NEW T, T \subseteq S \cup {n}
  PROVE  IsFiniteSet(T) /\ Cardinality(T) \in Nat /\ Cardinality(T) <= Cardinality(S) + 1
         /\ Cardinality(S) \in Nat
<1>1. IsFiniteSet(S \cup {n}) /\ Cardinality(S \cup {n}) <= Cardinality(S) + 1 /\ Cardinality(S) \in Nat
      /\ Cardinality(S \cup {n}) \in Nat
  BY FS_AddElement, FS_CardinalityType, SMT
<1>2. IsFiniteSet(T) /\ Cardinality(T) <= Cardinality(S \cup {n})
  BY <1>1, FS_Subset
<1>3. Cardinality(T) \in Nat
  BY <1>2, FS_CardinalityType
<1> QED  BY <1>1, <1>2, <1>3, SMT

LEMMA FitsNext ==
  ASSUME NEW b, NEW n \in Nat, NEW m \in Nat, Fits(b, n), m <= n + 1
  PROVE  /\ m <= MaximumAttempts
         /\ MayRetry(b) => Fits(NextAttempt(b), m)
         /\ Fits(Stripped(b), n)
<1>1. b \in Envelope /\ b.attempt \in Nat /\ b.max \in Nat
  BY SMT DEF Fits, Envelope
<1>2. /\ NextAttempt(b) \in Envelope /\ NextAttempt(b).attempt = b.attempt + 1
      /\ NextAttempt(b).max = b.max
  BY <1>1, Bodies, SMT DEF NextAttempt, Envelope
<1>3. Stripped(b) \in Envelope /\ Stripped(b).max = 0
  BY <1>1, Bodies DEF Stripped
<1> QED  BY <1>1, <1>2, <1>3, ActivityAssumption, SMT DEF Fits, MayRetry

LEMMA MoveSafe ==
  ASSUME NEW a \in Activity, Safe(a), Moves(a) \/ Born(a)
  PROVE  Safe(a)'
<1>1. CASE Ages(a) /\ Keeps(a)
  BY <1>1 DEF Safe, Ages, Keeps, SameOutcomes
<1>2. CASE Ages(a) /\ Exchanges(a)
  <2>1. PICK x \in Rights(a) : \E y : /\ Rights(a)' = (Rights(a) \ {x}) \cup {y}
                                      /\ Due(y) = Due(x) \/ Due(y) = Stripped(Due(x))
    BY <1>2 DEF Exchanges
  <2>2. PICK y : Rights(a)' = (Rights(a) \ {x}) \cup {y} /\ (Due(y) = Due(x) \/ Due(y) = Stripped(Due(x)))
    BY <2>1
  <2>3. Cardinality(Outcomes(a)) \in Nat /\ Fits(Due(x), Cardinality(Outcomes(a)))
    BY FS_CardinalityType DEF Safe
  <2>4. Fits(Stripped(Due(x)), Cardinality(Outcomes(a)))
    BY <2>3, FitsNext, SMT
  <2> QED  BY <1>2, <2>2, <2>3, <2>4 DEF Safe, Ages, Exchanges, SameOutcomes
<1>3. CASE Ages(a) /\ Drops(a)
  BY <1>3 DEF Safe, Ages, Drops, SameOutcomes
<1>4. CASE Ages(a) /\ Retries(a)
  <2>1. PICK x, y, n :
          /\ x \in Rights(a)
          /\ Rights(a)' = (Rights(a) \ {x}) \cup {y}
          /\ MayRetry(Due(x)) /\ Due(y) = NextAttempt(Due(x))
          /\ Outcomes(a)' \subseteq Outcomes(a) \cup {n}
          /\ Completed(a)' = Completed(a)
    BY <1>4 DEF Retries
  <2>2. /\ IsFiniteSet(Outcomes(a)') /\ Cardinality(Outcomes(a)') \in Nat
        /\ Cardinality(Outcomes(a)') <= Cardinality(Outcomes(a)) + 1 /\ Cardinality(Outcomes(a)) \in Nat
    BY <2>1, OneMore DEF Safe
  <2>3. Fits(Due(x), Cardinality(Outcomes(a)))
    BY <2>1 DEF Safe
  <2>4. Cardinality(Outcomes(a)') <= MaximumAttempts /\ Fits(Due(y), Cardinality(Outcomes(a)'))
    BY <2>1, <2>2, <2>3, FitsNext
  <2>5. Completed(a) = {} /\ schedPc[a] # "idle"
    BY <2>1 DEF Safe
  <2> QED  BY <1>4, <2>1, <2>2, <2>4, <2>5 DEF Safe, Ages
<1>5. CASE Ages(a) /\ Ends(a)
  <2>1. PICK x, n :
          /\ x \in Rights(a)
          /\ Rights(a)' = Rights(a) \ {x}
          /\ Outcomes(a)' \subseteq Outcomes(a) \cup {n}
          /\ Completed(a)' \subseteq Completed(a) \cup {n}
          /\ \A j \in Outcomes(a)' : j <= n
    BY <1>5 DEF Ends
  <2>2. /\ IsFiniteSet(Outcomes(a)') /\ Cardinality(Outcomes(a)') \in Nat
        /\ Cardinality(Outcomes(a)') <= Cardinality(Outcomes(a)) + 1 /\ Cardinality(Outcomes(a)) \in Nat
    BY <2>1, OneMore DEF Safe
  <2>3. Fits(Due(x), Cardinality(Outcomes(a)))
    BY <2>1 DEF Safe
  <2>4. Cardinality(Outcomes(a)') <= MaximumAttempts
    BY <2>2, <2>3, FitsNext
  <2>5. Completed(a) = {} /\ schedPc[a] # "idle" /\ Rights(a)' = {}
    BY <2>1 DEF Safe
  <2> QED  BY <1>5, <2>1, <2>2, <2>4, <2>5 DEF Safe, Ages
<1>6. CASE Born(a)
  <2>1. PICK y : Rights(a)' \subseteq Rights(a) \cup {y} /\ Due(y) = FirstAttempt(a)
    BY <1>6 DEF Born
  <2>2. Outcomes(a) = {} /\ Outcomes(a)' = {} /\ Cardinality(Outcomes(a)) = 0
    BY <1>6, FS_EmptySet DEF Safe, Born, SameOutcomes
  <2>3. Fits(FirstAttempt(a), 0)
    BY ActivityAssumption, Bodies, SMT DEF Fits, FirstAttempt
  <2>4. Completed(a)' = {}
    BY <2>2 DEF Completed, Outcomes
  <2> QED  BY <1>6, <2>1, <2>2, <2>3, <2>4 DEF Safe, Born, SameOutcomes
<1> QED  BY <1>1, <1>2, <1>3, <1>4, <1>5, <1>6 DEF Moves

(* The parts of Rights(a) carry tags of their own.                         *)
LEMMA Tags ==
  ASSUME NEW a
  PROVE  /\ \A x \in Starting(a) : x[1] = "starting"
         /\ \A x \in Queued(a) : x[1] = "queued"
         /\ \A x \in Pending(a) : x[1] = "pending"
         /\ \A x \in Completing(a) : x[1] = "completing"
         /\ \A x \in Requeueing(a) : x[1] = "requeueing"
         /\ \A x \in Retrying(a) : x[1] = "retrying"
BY SMT DEF Starting, Queued, Pending, Completing, Requeueing, Retrying

(* A part changes only with the variable it is read from.                  *)
LEMMA Parts ==
  ASSUME NEW a
  PROVE  /\ schedPc' = schedPc => Starting(a)' = Starting(a)
         /\ stream' = stream => Queued(a)' = Queued(a)
         /\ pendingActTasks' = pendingActTasks => Pending(a)' = Pending(a)
         /\ completing' = completing => Completing(a)' = Completing(a)
         /\ requeueing' = requeueing => Requeueing(a)' = Requeueing(a)
         /\ retries' = retries => Retrying(a)' = Retrying(a)
BY DEF Starting, Queued, Pending, Completing, Requeueing, Retrying, Undecided

(* What is due of each kind of right.                                      *)
LEMMA Dues ==
  /\ \A a : Due(<<"starting", a>>) = FirstAttempt(a)
  /\ \A e : Due(<<"queued", e>>) = e.body /\ Due(<<"pending", e>>) = e.body
  /\ \A q : Due(<<"requeueing", q>>) = q.body /\ Due(<<"retrying", q>>) = q.body
  /\ \A c : Due(<<"completing", c>>) = IF c.pc = "append" THEN c.body ELSE NextAttempt(c.body)
BY SMT DEF Due

LEMMA QueuedAppend ==
  ASSUME NEW a, stream \in Seq(Entry), NEW body \in Envelope, Enqueue(body), nextId \in Nat
  PROVE  Queued(a)' = Queued(a) \cup (IF body.act = a
                                        THEN {<<"queued", [id |-> nextId, body |-> body]>>}
                                        ELSE {})
<1> DEFINE z == [id |-> nextId, body |-> body]
<1>1. z \in Entry /\ z.body = body
  BY DEF Entry
<1>2. stream' = Append(stream, z)
  BY DEF Enqueue
<1> HIDE DEF z
<1>3. /\ DOMAIN stream' = DOMAIN stream \cup {Len(stream) + 1}
      /\ \A i \in DOMAIN stream : stream'[i] = stream[i]
      /\ stream'[Len(stream) + 1] = z
  BY <1>1, <1>2, SMT
<1>4. Queued(a)' = Queued(a) \cup (IF body.act = a THEN {<<"queued", z>>} ELSE {})
  BY <1>1, <1>3 DEF Queued
<1> QED  BY <1>4 DEF z

LEMMA QueuedTail ==
  ASSUME NEW a, stream \in Seq(Entry), Fresh, stream # <<>>, stream' = Tail(stream)
  PROVE  /\ Head(stream).body.act = a => <<"queued", Head(stream)>> \in Queued(a)
         /\ Queued(a)' = Queued(a) \ {<<"queued", Head(stream)>>}
<1>1. /\ 1 \in DOMAIN stream /\ Head(stream) = stream[1]
      /\ \A i \in DOMAIN stream' : i + 1 \in DOMAIN stream /\ i + 1 # 1 /\ stream'[i] = stream[i + 1]
      /\ \A i \in DOMAIN stream : i # 1 => i - 1 \in DOMAIN stream' /\ stream'[i - 1] = stream[i]
  BY SMT
<1>2. \A i \in DOMAIN stream : i # 1 => stream[i] # stream[1]
  BY <1>1 DEF Fresh
<1>3. Head(stream).body.act = a => <<"queued", Head(stream)>> \in Queued(a)
  BY <1>1 DEF Queued
<1>4. ASSUME NEW x \in Queued(a)' PROVE x \in Queued(a) \ {<<"queued", Head(stream)>>}
  <2>1. PICK i \in DOMAIN stream' : x = <<"queued", stream'[i]>> /\ stream'[i].body.act = a
    BY <1>4 DEF Queued
  <2>2. x = <<"queued", stream[i + 1]>> /\ stream[i + 1].body.act = a
    BY <1>1, <2>1
  <2>3. x \in Queued(a)
    BY <1>1, <2>1, <2>2 DEF Queued
  <2> QED  BY <1>1, <1>2, <2>1, <2>2, <2>3, SMT
<1>5. ASSUME NEW x \in Queued(a), x # <<"queued", Head(stream)>> PROVE x \in Queued(a)'
  <2>1. PICK i \in DOMAIN stream : x = <<"queued", stream[i]>> /\ stream[i].body.act = a
    BY <1>5 DEF Queued
  <2>2. i # 1
    BY <1>1, <1>5, <2>1
  <2>3. i - 1 \in DOMAIN stream' /\ stream'[i - 1] = stream[i]
    BY <1>1, <2>1, <2>2
  <2> QED  BY <2>1, <2>3 DEF Queued
<1> QED  BY <1>3, <1>4, <1>5

LEMMA FaultCounts ==
  ASSUME StoreTypeOK, Fault
  PROVE  faults' # 0
BY MaxFaultsAssumption, SMT DEF StoreTypeOK, Fault

(* Only an outcome of a adds to Outcomes(a).                               *)
LEMMA RecordedKept ==
  ASSUME StoreTypeOK, NEW w \in Workflow, NEW e \in Event, TryAppendEvent(w, e) \/ AppendEvent(w, e),
         NEW a \in Activity, NEW type, a[1] # w \/ e # EventOf(type, a)
  PROVE  Recorded(a, type)' = Recorded(a, type)
<1>0. a[1] \in Workflow
  BY ActivityPair
<1>1. CASE UNCHANGED history
  BY <1>1 DEF Recorded
<1>2. CASE history' = [history EXCEPT ![w] = Append(@, e)]
  <2>1. CASE a[1] = w
    <3>1. /\ DOMAIN history'[w] = DOMAIN history[w] \cup {Len(history[w]) + 1}
          /\ \A i \in DOMAIN history[w] : history'[w][i] = history[w][i]
          /\ history'[w][Len(history[w]) + 1] = e
      BY <1>2, <2>1, SMT DEF StoreTypeOK
    <3> QED  BY <2>1, <3>1 DEF Recorded
  <2>2. CASE a[1] # w
    <3>1. history'[a[1]] = history[a[1]]
      BY <1>0, <1>2, <2>2 DEF StoreTypeOK
    <3> QED  BY <3>1 DEF Recorded
  <2> QED  BY <2>1, <2>2
<1> QED  BY <1>1, <1>2 DEF TryAppendEvent, AppendEvent

LEMMA OutcomesSame ==
  ASSUME NEW a, UNCHANGED history
  PROVE  SameOutcomes(a)
BY DEF SameOutcomes, Outcomes, Completed, Recorded

LEMMA OutcomesKept ==
  ASSUME StoreTypeOK, NEW w \in Workflow, NEW e \in Event, TryAppendEvent(w, e) \/ AppendEvent(w, e),
         e.type \notin {"ActivityCompleted", "ActivityFailed"}, NEW a \in Activity
  PROVE  SameOutcomes(a)
<1>1. e # EventOf("ActivityCompleted", a) /\ e # EventOf("ActivityFailed", a)
  BY SMT DEF EventOf, EvOf
<1> QED  BY <1>1, RecordedKept DEF SameOutcomes, Outcomes, Completed

LEMMA OutcomeAdded ==
  ASSUME StoreTypeOK, NEW a \in Activity, NEW type \in {"ActivityCompleted", "ActivityFailed"},
         TryAppendEvent(a[1], EventOf(type, a))
  PROVE  /\ \A b \in Activity : b # a => SameOutcomes(b)
         /\ type = "ActivityFailed" => Completed(a)' = Completed(a)
         /\ \E n : /\ Outcomes(a)' \subseteq Outcomes(a) \cup {n}
                   /\ Completed(a)' \subseteq Completed(a) \cup {n}
                   /\ \A j \in Outcomes(a)' : j <= n
                   /\ faults' = 0 => /\ Outcomes(a)' = Outcomes(a) \cup {n} /\ n \notin Outcomes(a)
                                     /\ type = "ActivityCompleted" => n \in Completed(a)'
<1> DEFINE e == EventOf(type, a)
<1>0. a[1] \in Workflow /\ a[2] \in Nat /\ e \in Event /\ e.type = type /\ e.ref = a[2]
  BY ActivityPair, Events DEF EventType, EventOf, EvOf
<1>1. ASSUME NEW b \in Activity, b # a PROVE SameOutcomes(b)
  <2>1. b[1] # a[1] \/ b[2] # a[2]
    BY <1>1, ActivityPair
  <2>2. \A t : EventOf(t, b).ref = b[2]
    BY DEF EventOf, EvOf
  <2>3. \A t : b[1] # a[1] \/ e # EventOf(t, b)
    BY <1>0, <2>1, <2>2
  <2>4. TryAppendEvent(a[1], e)
    BY SMT
  <2> HIDE DEF e
  <2>5. \A t : Recorded(b, t)' = Recorded(b, t)
    BY <1>0, <2>3, <2>4, RecordedKept
  <2> QED  BY <2>5 DEF SameOutcomes, Outcomes, Completed
<1>2. type = "ActivityFailed" => Completed(a)' = Completed(a)
  <2>1. type = "ActivityFailed" => e # EventOf("ActivityCompleted", a)
    BY <1>0, SMT DEF EventOf, EvOf
  <2> QED  BY <1>0, <2>1, RecordedKept DEF Completed
<1>3. CASE UNCHANGED history /\ Fault
  <2>0. faults' # 0
    BY <1>3, FaultCounts
  <2>1. Outcomes(a)' = Outcomes(a) /\ Completed(a)' = Completed(a)
    BY <1>3, OutcomesSame DEF SameOutcomes
  <2>2. \A j \in Outcomes(a) : j <= Len(history[a[1]])
    BY <1>0, SMT DEF Outcomes, Recorded, StoreTypeOK
  <2> QED  BY <1>1, <1>2, <2>0, <2>1, <2>2
<1>4. CASE AppendEvent(a[1], e)
  <2> HIDE DEF e
  <2>1. /\ DOMAIN history'[a[1]] = DOMAIN history[a[1]] \cup {Len(history[a[1]]) + 1}
        /\ \A i \in DOMAIN history[a[1]] : history'[a[1]][i] = history[a[1]][i]
        /\ \A i \in DOMAIN history'[a[1]] : i <= Len(history[a[1]]) + 1
        /\ history'[a[1]][Len(history[a[1]]) + 1] = e
        /\ Len(history[a[1]]) + 1 \notin DOMAIN history[a[1]]
    BY <1>0, <1>4, SMT DEF StoreTypeOK, AppendEvent
  <2>2. \A t : Recorded(a, t)' \subseteq Recorded(a, t) \cup {Len(history[a[1]]) + 1}
    BY <2>1 DEF Recorded
  <2>3. \A j \in Outcomes(a)' : j <= Len(history[a[1]]) + 1
    BY <2>1 DEF Outcomes, Recorded
  <2>4. /\ Outcomes(a)' \subseteq Outcomes(a) \cup {Len(history[a[1]]) + 1}
        /\ Completed(a)' \subseteq Completed(a) \cup {Len(history[a[1]]) + 1}
    BY <2>2 DEF Outcomes, Completed
  <2>5. \A t : Recorded(a, t) \subseteq Recorded(a, t)'
    BY <2>1 DEF Recorded
  <2>6. Len(history[a[1]]) + 1 \in Recorded(a, type)'
    BY <2>1 DEF Recorded, e
  <2>7. /\ Outcomes(a)' = Outcomes(a) \cup {Len(history[a[1]]) + 1}
        /\ type = "ActivityCompleted" => Len(history[a[1]]) + 1 \in Completed(a)'
    BY <2>4, <2>5, <2>6 DEF Outcomes, Completed
  <2>8. Len(history[a[1]]) + 1 \notin Outcomes(a)
    BY <2>1 DEF Outcomes, Recorded
  <2> QED  BY <1>1, <1>2, <2>3, <2>4, <2>7, <2>8
<1> QED  BY <1>3, <1>4 DEF TryAppendEvent

-----------------------------------------------------------------------------
(* The ids.                                                                *)

LEMMA FreshKept ==
  ASSUME Fresh, UNCHANGED <<stream, nextId>>, pendingActTasks' \subseteq pendingActTasks
  PROVE  Fresh'
BY DEF Fresh

LEMMA FreshEnqueue ==
  ASSUME TypeOK, Fresh, NEW body \in Envelope, TryEnqueue(body), UNCHANGED pendingActTasks
  PROVE  Fresh'
<1>1. CASE UNCHANGED <<stream, nextId>>
  BY <1>1, FreshKept
<1>2. CASE Enqueue(body)
  <2> DEFINE z == [id |-> nextId, body |-> body]
  <2>0. stream \in Seq(Entry) /\ nextId \in Nat /\ pendingActTasks \subseteq Entry
    BY SMT DEF TypeOK
  <2>1. z \in Entry /\ z.id = nextId
    BY <2>0 DEF Entry
  <2>2. stream' = Append(stream, z) /\ nextId' = nextId + 1
    BY <1>2 DEF Enqueue
  <2> HIDE DEF z
  <2>3. /\ DOMAIN stream' = DOMAIN stream \cup {Len(stream) + 1}
        /\ \A i \in DOMAIN stream : stream'[i] = stream[i]
        /\ stream'[Len(stream) + 1] = z
        /\ \A i \in DOMAIN stream : stream[i] \in Entry
    BY <2>0, <2>1, <2>2, SMT
  <2>4. (\A i \in DOMAIN stream : stream[i].id \in Nat) /\ (\A p \in pendingActTasks : p.id \in Nat)
    BY <2>0, <2>3 DEF Entry
  <2>5. /\ \A i \in DOMAIN stream : stream[i].id < nextId' /\ stream[i].id # nextId
        /\ nextId < nextId'
        /\ \A p \in pendingActTasks : p.id < nextId' /\ p.id # nextId
    BY <2>0, <2>2, <2>4, SMT DEF Fresh
  <2>6. \A i \in DOMAIN stream' : stream'[i].id < nextId'
    BY <2>1, <2>3, <2>5
  <2>7. \A i, j \in DOMAIN stream' : stream'[i].id = stream'[j].id => i = j
    <3>1. \A i, j \in DOMAIN stream : stream[i].id = stream[j].id => i = j
      BY DEF Fresh
    <3> QED  BY <2>1, <2>3, <2>5, <3>1
  <2>8. \A p \in pendingActTasks : p.id < nextId' /\ \A i \in DOMAIN stream' : stream'[i].id # p.id
    BY <2>1, <2>3, <2>5 DEF Fresh
  <2> QED  BY <2>6, <2>7, <2>8 DEF Fresh
<1> QED  BY <1>1, <1>2 DEF TryEnqueue

LEMMA FreshDequeue ==
  ASSUME TypeOK, Fresh, NEW i \in DOMAIN stream, Dequeue(stream[i]), UNCHANGED nextId,
         pendingActTasks' \subseteq pendingActTasks \cup {stream[i]}
  PROVE  Fresh'
<1>1. /\ stream # <<>> /\ stream' = Tail(stream) /\ stream[i] = stream[1] /\ 1 \in DOMAIN stream
      /\ \A j \in DOMAIN stream' : j \in Nat /\ j + 1 \in DOMAIN stream /\ j + 1 # 1 /\ stream'[j] = stream[j + 1]
  BY SMT DEF TypeOK, Dequeue
<1>2. \A j, k \in DOMAIN stream' : j + 1 = k + 1 => j = k
  BY <1>1, SMT
<1>3. ASSUME NEW j \in DOMAIN stream' PROVE stream'[j].id # stream[i].id /\ stream'[j].id < nextId'
  BY <1>1 DEF Fresh
<1>4. ASSUME NEW j \in DOMAIN stream', NEW k \in DOMAIN stream', stream'[j].id = stream'[k].id
      PROVE  j = k
  <2>1. stream[j + 1].id = stream[k + 1].id /\ j + 1 \in DOMAIN stream /\ k + 1 \in DOMAIN stream
    BY <1>1, <1>4
  <2>2. j + 1 = k + 1
    BY <2>1 DEF Fresh
  <2> QED  BY <1>2, <2>2
<1>5. ASSUME NEW p \in pendingActTasks'
      PROVE  p.id < nextId' /\ \A j \in DOMAIN stream' : stream'[j].id # p.id
  <2>1. CASE p = stream[i]
    BY <1>3, <2>1 DEF Fresh
  <2>2. CASE p \in pendingActTasks
    <3>1. p.id < nextId /\ \A j \in DOMAIN stream : stream[j].id # p.id
      BY <2>2 DEF Fresh
    <3> QED  BY <1>1, <3>1
  <2> QED  BY <2>1, <2>2
<1>6. ASSUME NEW p \in pendingActTasks', NEW q \in pendingActTasks', p.id = q.id PROVE p = q
  BY <1>6 DEF Fresh
<1> QED  BY <1>3, <1>4, <1>5, <1>6 DEF Fresh

LEMMA MannedKept ==
  ASSUME Manned, UNCHANGED <<running, polls, pendingActTasks>>,
         losses' = 0 /\ crashes' = 0 => losses = 0 /\ crashes = 0
  PROVE  Manned'
BY DEF Manned, WorkedOn

LEMMA MannedVoid ==
  ASSUME losses' # 0 \/ crashes' # 0
  PROVE  Manned'
BY DEF Manned

StepOK == Fresh' /\ Manned' /\ \A a \in Activity : Moves(a) \/ Born(a)

Held(a) == Starting(a) \cup Pending(a) \cup Completing(a) \cup Requeueing(a) \cup Retrying(a)

(* A step that touches no part of Rights(a).                               *)
LEMMA Quiet ==
  ASSUME NEW a, SameOutcomes(a),
         UNCHANGED <<schedPc, stream, pendingActTasks, requeueing, retries>>,
         Completing(a)' = Completing(a)
  PROVE  Moves(a)
BY Parts DEF Moves, Keeps, Ages, Rights

(* Putting an activity on the queue, or failing to.                        *)
LEMMA Redispatched ==
  ASSUME TypeOK, NEW v \in Activity, NEW body \in Envelope, body.act = v, TryEnqueue(body),
         NEW x \in Held(v), Due(x) = body, Held(v)' = Held(v) \ {x},
         \A a \in Activity : a # v => Held(a)' = Held(a),
         \A a \in Activity : Ages(a),
         UNCHANGED history
  PROVE  \A a \in Activity : Moves(a)
<1>0. stream \in Seq(Entry) /\ nextId \in Nat
  BY DEF TypeOK
<1>1. \A a : Rights(a) = Held(a) \cup Queued(a) /\ Rights(a)' = Held(a)' \cup Queued(a)'
  BY DEF Rights, Held
<1>2. x \notin Queued(v)
  BY Tags, SMT DEF Held
<1>3. ASSUME NEW a \in Activity PROVE Moves(a)
  <2>1. SameOutcomes(a) /\ Ages(a)
    BY OutcomesSame
  <2>2. CASE UNCHANGED stream /\ Fault
    <3>1. Rights(a)' \subseteq Rights(a)
      BY <1>1, <2>2, Parts
    <3>2. faults' # 0
      BY <2>2, FaultCounts DEF TypeOK
    <3> QED  BY <2>1, <3>1, <3>2 DEF Moves, Drops
  <2>3. CASE Enqueue(body)
    <3> DEFINE z == [id |-> nextId, body |-> body]
               y == <<"queued", z>>
    <3>1. Queued(a)' = Queued(a) \cup (IF v = a THEN {y} ELSE {})
      BY <1>0, <2>3, QueuedAppend
    <3>2. z.body = body
      OBVIOUS
    <3> HIDE DEF z
    <3>3. Due(y) = Due(x)
      BY <3>2, Dues
    <3> HIDE DEF y
    <3>4. CASE a # v
      BY <1>1, <2>1, <3>1, <3>4 DEF Moves, Keeps
    <3>5. CASE a = v
      <4>1. x \in Rights(a) /\ Rights(a)' = (Rights(a) \ {x}) \cup {y}
        BY <1>1, <1>2, <3>1, <3>5, SMT
      <4> QED  BY <2>1, <3>3, <4>1 DEF Moves, Exchanges
    <3> QED  BY <3>4, <3>5
  <2> QED  BY <2>2, <2>3 DEF TryEnqueue
<1> QED  BY <1>3

-----------------------------------------------------------------------------
(* Every action is one of the moves.                                       *)

LEMMA ScheduleSafe ==
  ASSUME IInv, NEW v \in Activity, ScheduleActivity(v)
  PROVE  StepOK
<1> USE DEF storeVars, queueVars, timerVars
<1>0. /\ TypeOK /\ StoreTypeOK /\ Fresh /\ Manned /\ v[1] \in Workflow
      /\ schedPc \in [Activity -> {"idle", "recorded", "done"}]
  BY ActivityPair DEF IInv, TypeOK
<1>1. CASE ScheduleRecord(v)
  <2>0. /\ schedPc[v] = "idle" /\ UNCHANGED <<queueVars, pendingActTasks, polls, running, completing,
                                             requeueing, retries, losses, crashes>>
        /\ schedPc' = [schedPc EXCEPT ![v] = "recorded"] \/ schedPc' = [schedPc EXCEPT ![v] = "done"]
        /\ UNCHANGED history \/ AppendEvent(v[1], EventOf("ActivityScheduled", v))
        /\ schedPc' = [schedPc EXCEPT ![v] = "recorded"] \/ Fault
    BY <1>1 DEF ScheduleRecord
  <2>1. Fresh' /\ Manned'
    BY <1>0, <2>0, FreshKept, MannedKept
  <2>2. EventOf("ActivityScheduled", v) \in Event
        /\ EventOf("ActivityScheduled", v).type \notin {"ActivityCompleted", "ActivityFailed"}
    BY Events DEF EventType, EventOf, EvOf
  <2>3. \A a \in Activity : SameOutcomes(a)
    BY <1>0, <2>0, <2>2, OutcomesSame, OutcomesKept
  <2>4. ASSUME NEW a \in Activity, a # v PROVE Moves(a)
    <3>1. schedPc'[a] = schedPc[a]
      BY <1>0, <2>0, <2>4
    <3>2. Starting(a)' = Starting(a)
      BY <3>1 DEF Starting
    <3>3. Rights(a)' = Rights(a)
      BY <2>0, <3>2, Parts DEF Rights
    <3> QED  BY <2>3, <3>1, <3>3 DEF Moves, Ages, Keeps
  <2>5. Born(v)
    <3>1. schedPc'[v] # "idle"
      BY <1>0, <2>0, SMT
    <3>2. Starting(v)' \subseteq {<<"starting", v>>}
      BY DEF Starting
    <3>3. Rights(v)' \subseteq Rights(v) \cup {<<"starting", v>>}
      BY <2>0, <3>2, Parts DEF Rights
    <3>4. CASE schedPc' = [schedPc EXCEPT ![v] = "recorded"]
      <4>1. <<"starting", v>> \in Starting(v)'
        BY <1>0, <3>4, SMT DEF Starting
      <4> QED  BY <2>0, <2>3, <3>1, <3>3, <4>1, Dues DEF Born, Rights
    <3>5. CASE Fault
      BY <1>0, <2>0, <2>3, <3>1, <3>3, <3>5, FaultCounts, Dues DEF Born
    <3> QED  BY <2>0, <3>4, <3>5
  <2> QED  BY <2>1, <2>4, <2>5 DEF StepOK
<1>2. CASE ScheduleEnqueue(v)
  <2>0. /\ schedPc[v] = "recorded" /\ schedPc' = [schedPc EXCEPT ![v] = "done"]
        /\ TryEnqueue(FirstAttempt(v))
        /\ UNCHANGED <<history, pendingActTasks, polls, running, completing,
                       requeueing, retries, losses, crashes>>
    BY <1>2 DEF ScheduleEnqueue
  <2>1. FirstAttempt(v) \in Envelope /\ FirstAttempt(v).act = v
    BY Bodies DEF FirstAttempt
  <2>2. Fresh' /\ Manned'
    BY <1>0, <2>0, <2>1, FreshEnqueue, MannedKept
  <2>3. /\ \A a \in Activity : a # v => schedPc'[a] = schedPc[a]
        /\ schedPc'[v] = "done"
    BY <1>0, <2>0
  <2>4. /\ Starting(v) = {<<"starting", v>>} /\ Starting(v)' = {}
        /\ \A a \in Activity : a # v => Starting(a)' = Starting(a)
    BY <2>0, <2>3 DEF Starting
  <2>5. /\ <<"starting", v>> \in Held(v) /\ Due(<<"starting", v>>) = FirstAttempt(v)
    BY <2>4, Dues DEF Held
  <2>6. Held(v)' = Held(v) \ {<<"starting", v>>}
    BY <2>0, <2>4, Parts, Tags, SMT DEF Held
  <2>7. \A a \in Activity : a # v => Held(a)' = Held(a)
    BY <2>0, <2>4, Parts DEF Held
  <2>8. \A a \in Activity : Ages(a)
    BY <2>0, <2>3, SMT DEF Ages
  <2>9. \A a \in Activity : Moves(a)
    BY <1>0, <2>0, <2>1, <2>5, <2>6, <2>7, <2>8, Redispatched
  <2> QED  BY <2>2, <2>9 DEF StepOK
<1> QED  BY <1>1, <1>2 DEF ScheduleActivity

LEMMA PollSafe ==
  ASSUME IInv, Poll
  PROVE  StepOK
<1> USE DEF storeVars, queueVars, timerVars, callVars
<1>0. /\ TypeOK /\ StoreTypeOK /\ Fresh /\ Manned /\ stream \in Seq(Entry) /\ pel \subseteq Entry
      /\ polls \subseteq Entry /\ running \subseteq ActRun
  BY DEF IInv, TypeOK
<1>1. ASSUME NEW i \in DOMAIN stream, PollDequeue(stream[i]) PROVE StepOK
  <2> DEFINE e == stream[i]
             x == <<"queued", e>>
             y == <<"pending", e>>
  <2>0. /\ Dequeue(e) /\ UNCHANGED <<history, nextId, schedPc, running, completing, requeueing,
                                     retries, losses, crashes>>
        /\ pendingActTasks' = pendingActTasks \cup {e} /\ polls' = polls \cup {e}
    BY <1>1 DEF PollDequeue
  <2>1. stream # <<>> /\ e = Head(stream) /\ stream' = Tail(stream)
    BY <2>0 DEF Dequeue
  <2>2. Fresh'
    BY <1>0, <2>0, FreshDequeue
  <2>3. Manned'
    <3>1. \A p \in pendingActTasks : p.id # e.id
      BY <1>0 DEF Fresh
    <3>2. \A r : [id |-> r.id, body |-> r.body].id = r.id
      OBVIOUS
    <3>3. losses = 0 /\ crashes = 0 => \A r \in running : r.id # e.id
      BY <1>0, <3>1, <3>2 DEF Manned
    <3> HIDE DEF e
    <3>4. e \in polls' /\ polls \subseteq polls' /\ running' = running
      BY <2>0
    <3>5. losses = 0 /\ crashes = 0 => \A p \in pendingActTasks' : WorkedOn(p)'
      BY <1>0, <2>0, <3>4 DEF Manned, WorkedOn
    <3> QED  BY <1>0, <2>0, <3>3, <3>5 DEF Manned
  <2> HIDE DEF e
  <2>4. ASSUME NEW a \in Activity PROVE Moves(a)
    <3>1. SameOutcomes(a) /\ Ages(a)
      BY <2>0, OutcomesSame DEF Ages
    <3>2. Queued(a)' = Queued(a) \ {x} /\ (e.body.act = a => x \in Queued(a))
      BY <1>0, <2>1, QueuedTail
    <3>3. Pending(a)' = Pending(a) \cup (IF e.body.act = a THEN {y} ELSE {})
      BY <2>0 DEF Pending
    <3>4. Due(y) = Due(x)
      BY Dues
    <3>5. CASE e.body.act = a
      <4>1. x \in Rights(a) /\ Rights(a)' = (Rights(a) \ {x}) \cup {y}
        BY <2>0, <3>2, <3>3, <3>5, Parts, Tags, SMT DEF Rights
      <4> QED  BY <3>1, <3>4, <4>1 DEF Moves, Exchanges
    <3>6. CASE e.body.act # a
      <4>1. x \notin Queued(a)
        BY <3>6, SMT DEF Queued
      <4>2. Rights(a)' = Rights(a)
        BY <2>0, <3>2, <3>3, <3>6, <4>1, Parts DEF Rights
      <4> QED  BY <3>1, <4>2 DEF Moves, Keeps
    <3> QED  BY <3>5, <3>6
  <2> QED  BY <2>2, <2>3, <2>4 DEF StepOK
<1>2. ASSUME NEW i \in DOMAIN stream, PollDequeueFails(stream[i]) PROVE StepOK
  <2>0. /\ Dequeue(stream[i]) /\ stream # <<>> /\ stream' = Tail(stream)
        /\ UNCHANGED <<history, nextId, schedPc, polls, running, completing, requeueing,
                       pendingActTasks, retries, losses, crashes>>
        /\ faults' # 0
    BY <1>0, <1>2, FaultCounts DEF PollDequeueFails, Dequeue
  <2>1. Fresh' /\ Manned'
    BY <1>0, <2>0, FreshDequeue, MannedKept
  <2>2. ASSUME NEW a \in Activity PROVE Moves(a)
    <3>1. SameOutcomes(a) /\ Ages(a)
      BY <2>0, OutcomesSame DEF Ages
    <3>2. Queued(a)' \subseteq Queued(a)
      BY <1>0, <2>0, QueuedTail
    <3>3. Rights(a)' \subseteq Rights(a)
      BY <2>0, <3>2, Parts DEF Rights
    <3> QED  BY <2>0, <3>1, <3>3 DEF Moves, Drops
  <2> QED  BY <2>1, <2>2 DEF StepOK
<1>3. ASSUME NEW e \in polls, PollRespond(e) PROVE StepOK
  <2> DEFINE r == [id |-> e.id, body |-> e.body, out |-> "none"]
  <2>0. /\ polls' = polls \ {e} /\ running' = running \cup {r}
        /\ UNCHANGED <<history, stream, nextId, schedPc, completing, requeueing,
                       pendingActTasks, retries, losses, crashes>>
    BY <1>3 DEF PollRespond
  <2>1. Fresh'
    BY <1>0, <2>0, FreshKept
  <2>2. Manned'
    <3>1. r.id = e.id /\ r.body = e.body
      OBVIOUS
    <3>2. [id |-> r.id, body |-> r.body] = e
      BY <1>0, <3>1, SMT DEF Entry
    <3> HIDE DEF r
    <3>3. losses = 0 /\ crashes = 0 => e \in pendingActTasks /\ (\A q \in running : q.id # e.id)
                                       /\ (\A f \in polls : f.id = e.id => f = e)
      BY <1>0 DEF Manned, Fresh
    <3>4. ASSUME NEW p, WorkedOn(p) PROVE WorkedOn(p)'
      BY <2>0, <3>1, <3>4 DEF WorkedOn
    <3>5. losses = 0 /\ crashes = 0 => \A p \in pendingActTasks' : WorkedOn(p)'
      BY <1>0, <2>0, <3>4 DEF Manned
    <3> QED  BY <1>0, <2>0, <3>1, <3>2, <3>3, <3>5 DEF Manned
  <2> QED  BY <2>0, <2>1, <2>2, Quiet, OutcomesSame, Parts DEF StepOK
<1> QED  BY <1>1, <1>2, <1>3 DEF Poll

LEMMA WorkerSafe ==
  ASSUME IInv, Worker
  PROVE  StepOK
<1> USE DEF storeVars, queueVars, timerVars, callVars
<1>0. TypeOK /\ Fresh /\ Manned /\ running \subseteq ActRun
  BY DEF IInv, TypeOK
<1>1. UNCHANGED <<history, stream, nextId, schedPc, polls, completing, requeueing,
                  pendingActTasks, retries, losses, crashes>>
  BY DEF Worker, Heartbeat, ActivityReturns
<1>2. Fresh' /\ \A a \in Activity : Moves(a)
  BY <1>0, <1>1, FreshKept, Quiet, OutcomesSame, Parts
<1>3. ASSUME NEW r \in running, NEW out \in Outcome, ActivityReturns(r, out) PROVE Manned'
  <2> DEFINE s == [r EXCEPT !.out = out]
  <2>1. s.id = r.id /\ s.body = r.body
    BY <1>0 DEF ActRun
  <2>2. running' = (running \ {r}) \cup {s}
    BY <1>3 DEF ActivityReturns
  <2> HIDE DEF s
  <2>3. [id |-> s.id, body |-> s.body] = [id |-> r.id, body |-> r.body]
    BY <2>1
  <2> SUFFICES ASSUME losses' = 0 /\ crashes' = 0
               PROVE  /\ \A q \in running' : [id |-> q.id, body |-> q.body] \in pendingActTasks
                      /\ \A f \in polls, q \in running' : f.id # q.id
                      /\ \A q, p \in running' : q.id = p.id => q = p
    <3>1. ASSUME NEW p, WorkedOn(p) PROVE WorkedOn(p)'
      BY <1>1, <2>1, <2>2, <3>1 DEF WorkedOn
    <3> QED  BY <1>0, <1>1, <3>1 DEF Manned
  <2>4. /\ \A q \in running : [id |-> q.id, body |-> q.body] \in pendingActTasks
        /\ \A f \in polls, q \in running : f.id # q.id
        /\ \A q, p \in running : q.id = p.id => q = p
    BY <1>0, <1>1 DEF Manned
  <2>5. \A q \in running' : [id |-> q.id, body |-> q.body] \in pendingActTasks
    BY <2>2, <2>3, <2>4
  <2>6. \A f \in polls, q \in running' : f.id # q.id
    BY <2>1, <2>2, <2>4
  <2>7. \A q, p \in running' : q.id = p.id => q = p
    BY <2>1, <2>2, <2>4
  <2> QED  BY <2>5, <2>6, <2>7
<1>4. ASSUME NEW r \in running, Heartbeat(r) PROVE Manned'
  BY <1>0, <1>1, <1>4, MannedKept DEF Heartbeat
<1> QED  BY <1>2, <1>3, <1>4 DEF Worker, StepOK

LEMMA CompletingStep ==
  ASSUME NEW c \in completing, Undecided(c), NEW d, d.body = c.body, d # c,
         completing' = (completing \ {c}) \cup {d}, NEW a
  PROVE  /\ a # c.body.act => Completing(a)' = Completing(a)
         /\ a = c.body.act =>
              /\ <<"completing", c>> \in Completing(a)
              /\ Completing(a)' = (Completing(a) \ {<<"completing", c>>})
                                    \cup (IF Undecided(d) THEN {<<"completing", d>>} ELSE {})
<1>1. CASE a # c.body.act
  BY <1>1 DEF Completing, Undecided
<1>2. CASE a = c.body.act
  <2>1. <<"completing", c>> \in Completing(a)
    BY <1>2 DEF Completing
  <2>2. \A e : <<"completing", e>> = <<"completing", c>> => e = c
    BY SMT
  <2>3. \A x : x \in Completing(a)' <=>
                 \E e \in (completing \ {c}) \cup {d} :
                   x = <<"completing", e>> /\ e.body.act = a /\ Undecided(e)
    BY DEF Completing, Undecided
  <2>4. \A x : x \in Completing(a) <=>
                 \E e \in completing : x = <<"completing", e>> /\ e.body.act = a /\ Undecided(e)
    BY DEF Completing
  <2>5. ASSUME NEW x \in Completing(a)'
        PROVE  x \in (Completing(a) \ {<<"completing", c>>})
                       \cup (IF Undecided(d) THEN {<<"completing", d>>} ELSE {})
    BY <2>2, <2>3, <2>4
  <2>6. ASSUME NEW x \in (Completing(a) \ {<<"completing", c>>})
                           \cup (IF Undecided(d) THEN {<<"completing", d>>} ELSE {})
        PROVE  x \in Completing(a)'
    BY <1>2, <2>3, <2>4
  <2> QED  BY <1>2, <2>1, <2>5, <2>6
<1> QED  BY <1>1, <1>2

LEMMA TakeSafe ==
  ASSUME IInv, NEW r \in running, CompleteTake(r)
  PROVE  StepOK
<1> DEFINE p == [id |-> r.id, body |-> r.body]
           c == [id |-> r.id, body |-> r.body, out |-> r.out, timer |-> 0, pc |-> "append"]
           x == <<"pending", p>>
           y == <<"completing", c>>
<1>0. TypeOK /\ Fresh /\ Manned /\ running \subseteq ActRun
  BY DEF IInv, TypeOK
<1>1. /\ running' = running \ {r} /\ pendingActTasks' = pendingActTasks \ {p}
      /\ completing' = IF p \in pendingActTasks THEN completing \cup {c} ELSE completing
      /\ UNCHANGED <<history, stream, nextId, schedPc, polls, requeueing, retries, losses, crashes>>
  BY DEF CompleteTake, Drop, storeVars, queueVars
<1>2. /\ p.id = r.id /\ p.body = r.body /\ c.body = r.body /\ c.pc = "append" /\ Undecided(c)
  BY DEF Undecided
<1>3. Fresh'
  BY <1>0, <1>1, FreshKept
<1>4. Manned'
  <2>1. \A q \in running : [id |-> q.id, body |-> q.body] = p => q.id = r.id
    BY <1>2
  <2> HIDE DEF p, c
  <2> SUFFICES ASSUME losses = 0 /\ crashes = 0
               PROVE  /\ \A q \in running' : [id |-> q.id, body |-> q.body] \in pendingActTasks'
                      /\ polls \subseteq pendingActTasks'
                      /\ \A q \in pendingActTasks' : WorkedOn(q)'
    BY <1>0, <1>1 DEF Manned
  <2>2. \A q \in running' : [id |-> q.id, body |-> q.body] \in pendingActTasks'
    BY <1>0, <1>1, <2>1 DEF Manned
  <2>3. polls \subseteq pendingActTasks'
    BY <1>0, <1>1, <1>2 DEF Manned
  <2>4. ASSUME NEW q \in pendingActTasks' PROVE WorkedOn(q)'
    <3>1. p \in pendingActTasks /\ q \in pendingActTasks /\ q # p /\ WorkedOn(q)
      BY <1>0, <1>1 DEF Manned, p
    <3>2. q.id # r.id
      BY <1>0, <1>2, <3>1 DEF Fresh
    <3> QED  BY <1>1, <3>1, <3>2 DEF WorkedOn
  <2> QED  BY <2>2, <2>3, <2>4
<1> HIDE DEF p, c
<1>5. ASSUME NEW a \in Activity PROVE Moves(a)
  <2>1. SameOutcomes(a) /\ Ages(a)
    BY <1>1, OutcomesSame DEF Ages
  <2>2. Pending(a)' = Pending(a) \ {x}
    BY <1>1, SMT DEF Pending
  <2>3. CASE p \in pendingActTasks /\ r.body.act = a
    <3>1. x \in Pending(a) /\ Completing(a)' = Completing(a) \cup {y}
      BY <1>1, <1>2, <2>3 DEF Pending, Completing, Undecided
    <3>2. x \in Rights(a) /\ Rights(a)' = (Rights(a) \ {x}) \cup {y}
      BY <1>1, <2>2, <3>1, Parts, Tags, SMT DEF Rights
    <3>3. Due(y) = Due(x)
      BY <1>2, Dues
    <3> QED  BY <2>1, <3>2, <3>3 DEF Moves, Exchanges
  <2>4. CASE ~(p \in pendingActTasks /\ r.body.act = a)
    <3>1. Completing(a)' = Completing(a)
      BY <1>1, <1>2, <2>4 DEF Completing, Undecided
    <3>2. x \notin Pending(a)
      BY <1>2, <2>4, SMT DEF Pending
    <3>3. Rights(a)' = Rights(a)
      BY <1>1, <2>2, <3>1, <3>2, Parts DEF Rights
    <3> QED  BY <2>1, <3>3 DEF Moves, Keeps
  <2> QED  BY <2>3, <2>4
<1> QED  BY <1>3, <1>4, <1>5 DEF StepOK

LEMMA CompleteSafe ==
  ASSUME IInv, NEW c \in completing, CompleteAppend(c) \/ RetryRecord(c) \/ RetryArm(c) \/ CompleteAck(c)
  PROVE  StepOK
<1> DEFINE v == c.body.act
           x == <<"completing", c>>
<1>0. /\ TypeOK /\ StoreTypeOK /\ Fresh /\ Manned
      /\ c \in Completion /\ c.body \in Envelope /\ v \in Activity /\ v[1] \in Workflow
      /\ NextAttempt(c.body).act = v
  BY Bodies, ActivityPair DEF IInv, TypeOK, Completion, NextAttempt, Envelope
<1>1. UNCHANGED <<stream, nextId, schedPc, polls, requeueing, pendingActTasks, running, losses, crashes>>
  BY DEF CompleteAppend, RetryRecord, RetryArm, CompleteAck, queueVars
<1>2. Fresh' /\ Manned'
  BY <1>0, <1>1, FreshKept, MannedKept
<1>3. \A pc : LET d == [c EXCEPT !.pc = pc] IN d.body = c.body /\ d.pc = pc /\ (pc # c.pc => d # c)
  BY <1>0 DEF Completion
<1>4. CASE CompleteAppend(c)
  <2> DEFINE type == IF c.out = "error" THEN "ActivityFailed" ELSE "ActivityCompleted"
             pc == IF c.out = "error" /\ MayRetry(c.body) THEN "retry" ELSE "ack"
             d == [c EXCEPT !.pc = pc]
             y == <<"completing", d>>
  <2>0. /\ c.pc = "append" /\ completing' = (completing \ {c}) \cup {d} /\ retries' = retries
        /\ TryAppendEvent(v[1], EventOf(type, v))
    BY <1>4 DEF CompleteAppend, Step
  <2>1. /\ Undecided(c) /\ d.body = c.body /\ d # c /\ d.pc = pc
        /\ Undecided(d) <=> c.out = "error" /\ MayRetry(c.body)
    BY <1>3, <2>0 DEF Undecided
  <2>2. type \in {"ActivityCompleted", "ActivityFailed"}
    OBVIOUS
  <2>3. pc # "append"
    OBVIOUS
  <2>a. c.out = "error" => type = "ActivityFailed"
    OBVIOUS
  <2>b. c.out # "error" => type = "ActivityCompleted"
    OBVIOUS
  <2> HIDE DEF d, type, pc, v
  <2>4. /\ \A b \in Activity : b # v => SameOutcomes(b)
        /\ type = "ActivityFailed" => Completed(v)' = Completed(v)
        /\ \E n : /\ Outcomes(v)' \subseteq Outcomes(v) \cup {n}
                  /\ Completed(v)' \subseteq Completed(v) \cup {n}
                  /\ \A j \in Outcomes(v)' : j <= n
                  /\ faults' = 0 => /\ Outcomes(v)' = Outcomes(v) \cup {n} /\ n \notin Outcomes(v)
                                    /\ type = "ActivityCompleted" => n \in Completed(v)'
    BY <1>0, <2>0, <2>2, OutcomeAdded
  <2>5. \A a : a # v => Completing(a)' = Completing(a)
    BY <2>0, <2>1, CompletingStep DEF v
  <2>6. x \in Completing(v) /\ Completing(v)' = (Completing(v) \ {x}) \cup (IF Undecided(d) THEN {y} ELSE {})
    BY <2>0, <2>1, CompletingStep DEF v
  <2>7. ASSUME NEW a \in Activity, a # v PROVE Moves(a)
    BY <1>1, <2>0, <2>4, <2>5, <2>7, Quiet
  <2>8. x \in Rights(v) /\ Ages(v)
    BY <1>1, <2>6 DEF Rights, Ages
  <2>9. Due(x) = c.body /\ Due(y) = NextAttempt(c.body)
    BY <2>0, <2>1, <2>3, Dues
  <2>10. CASE Undecided(d)
    <3>1. Rights(v)' = (Rights(v) \ {x}) \cup {y}
      BY <1>1, <2>0, <2>6, <2>10, Parts, Tags, SMT DEF Rights
    <3>2. MayRetry(Due(x)) /\ Due(y) = NextAttempt(Due(x)) /\ Completed(v)' = Completed(v)
      BY <2>1, <2>4, <2>9, <2>10, <2>a
    <3>3. Retries(v)
      BY <2>4, <2>8, <3>1, <3>2 DEF Retries
    <3> QED  BY <1>2, <2>7, <2>8, <3>3 DEF Moves, StepOK
  <2>11. CASE ~Undecided(d)
    <3>1. Rights(v)' = Rights(v) \ {x}
      BY <1>1, <2>0, <2>6, <2>11, Parts, Tags, SMT DEF Rights
    <3>2. type = "ActivityCompleted" \/ ~MayRetry(Due(x))
      BY <2>1, <2>9, <2>11, <2>b
    <3>3. Ends(v)
      BY <2>4, <2>8, <3>1, <3>2 DEF Ends
    <3> QED  BY <1>2, <2>7, <2>8, <3>3 DEF Moves, StepOK
  <2> QED  BY <2>10, <2>11
<1>5. CASE RetryRecord(c)
  <2> DEFINE d == [c EXCEPT !.pc = "arm"]
             y == <<"completing", d>>
             e == EventOf("ActivityRetryScheduled", v)
  <2>0. /\ c.pc = "retry" /\ completing' = (completing \ {c}) \cup {d} /\ retries' = retries
        /\ TryAppendEvent(v[1], e)
    BY <1>5 DEF RetryRecord, Step
  <2>1. Undecided(c) /\ d.body = c.body /\ d # c /\ d.pc = "arm" /\ Undecided(d)
    BY <1>3, <2>0, SMT DEF Undecided
  <2>2. e \in Event /\ e.type \notin {"ActivityCompleted", "ActivityFailed"}
    BY <1>0, Events DEF EventType, EventOf, EvOf
  <2> HIDE DEF d, e, v
  <2>3. \A a \in Activity : SameOutcomes(a)
    BY <1>0, <2>0, <2>2, OutcomesKept
  <2>4. \A a : a # v => Completing(a)' = Completing(a)
    BY <2>0, <2>1, CompletingStep DEF v
  <2>5. x \in Completing(v) /\ Completing(v)' = (Completing(v) \ {x}) \cup {y}
    BY <2>0, <2>1, CompletingStep DEF v
  <2>6. Due(y) = Due(x)
    BY <2>0, <2>1, Dues, SMT
  <2>7. x \in Rights(v) /\ Rights(v)' = (Rights(v) \ {x}) \cup {y} /\ Ages(v)
    BY <1>1, <2>0, <2>5, Parts, Tags, SMT DEF Rights, Ages
  <2>8. Moves(v)
    BY <1>0, <2>3, <2>6, <2>7 DEF Moves, Exchanges
  <2> QED  BY <1>1, <1>2, <2>0, <2>3, <2>4, <2>8, Quiet DEF StepOK
<1>6. CASE RetryArm(c)
  <2> DEFINE n == [timer |-> nextTimer, body |-> NextAttempt(c.body)]
             y == <<"retrying", n>>
  <2>0. /\ c.pc = "arm" /\ history' = history
        /\ \E d : /\ d.body = c.body /\ d # c /\ ~Undecided(d)
                  /\ completing' = (completing \ {c}) \cup {d}
        /\ (retries' = retries /\ Fault) \/ retries' = retries \cup {n}
    <3>1. CASE Step(c, "ack") /\ retries' = retries /\ Fault
      BY <1>3, <1>6, <3>1 DEF RetryArm, Step, Undecided
    <3>2. CASE /\ completing' = (completing \ {c}) \cup {[c EXCEPT !.pc = "arming", !.timer = nextTimer]}
               /\ retries' = retries \cup {n}
      <4> DEFINE d == [c EXCEPT !.pc = "arming", !.timer = nextTimer]
      <4>1. c.pc = "arm" /\ history' = history
        BY <1>6 DEF RetryArm
      <4>2. d.body = c.body /\ d.pc = "arming"
        BY <1>0 DEF Completion
      <4> HIDE DEF d
      <4>3. d # c /\ ~Undecided(d)
        BY <4>1, <4>2, SMT DEF Undecided
      <4> QED  BY <3>2, <4>1, <4>2, <4>3 DEF d
    <3> QED  BY <1>6, <3>1, <3>2 DEF RetryArm
  <2>1. Undecided(c) /\ n.body = NextAttempt(c.body)
    BY <2>0 DEF Undecided
  <2>2. PICK d : /\ d.body = c.body /\ d # c /\ ~Undecided(d)
                 /\ completing' = (completing \ {c}) \cup {d}
    BY <2>0
  <2> HIDE DEF n, v
  <2>3. \A a : a # v => Completing(a)' = Completing(a)
    BY <2>1, <2>2, CompletingStep DEF v
  <2>4. x \in Completing(v) /\ Completing(v)' = Completing(v) \ {x}
    <3>1. /\ x \in Completing(v)
          /\ Completing(v)' = (Completing(v) \ {x}) \cup (IF Undecided(d) THEN {<<"completing", d>>} ELSE {})
      BY <2>1, <2>2, CompletingStep DEF v
    <3> QED  BY <2>2, <3>1
  <2>5. \A a \in Activity : SameOutcomes(a) /\ Ages(a)
    BY <1>1, <2>0, OutcomesSame DEF Ages
  <2>6. ASSUME NEW a \in Activity, a # v PROVE Moves(a)
    <3>1. Retrying(a)' = Retrying(a)
      BY <1>0, <2>0, <2>1, <2>6 DEF Retrying
    <3>2. Rights(a)' = Rights(a)
      BY <1>1, <2>3, <2>6, <3>1, Parts DEF Rights
    <3> QED  BY <2>5, <3>2 DEF Moves, Keeps
  <2>7. CASE retries' = retries /\ Fault
    <3>1. Rights(v)' \subseteq Rights(v) /\ faults' # 0
      BY <1>0, <1>1, <2>4, <2>7, FaultCounts, Parts DEF Rights
    <3> QED  BY <1>0, <1>2, <2>5, <2>6, <3>1 DEF Moves, Drops, StepOK
  <2>8. CASE retries' = retries \cup {n}
    <3>1. Retrying(v)' = Retrying(v) \cup {y}
      BY <1>0, <2>1, <2>8 DEF Retrying
    <3>2. x \in Rights(v) /\ Rights(v)' = (Rights(v) \ {x}) \cup {y}
      BY <1>1, <2>4, <3>1, Parts, Tags, SMT DEF Rights
    <3>3. Due(y) = Due(x)
      BY <2>0, <2>1, Dues, SMT
    <3> QED  BY <1>0, <1>2, <2>5, <2>6, <3>2, <3>3 DEF Moves, Exchanges, StepOK
  <2> QED  BY <2>0, <2>7, <2>8
<1>7. CASE CompleteAck(c)
  <2>1. /\ c.pc = "ack" /\ completing' = completing \ {c} /\ UNCHANGED <<history, retries>>
    BY <1>7 DEF CompleteAck
  <2>2. ~Undecided(c)
    BY <2>1, SMT DEF Undecided
  <2>3. \A a : Completing(a)' = Completing(a)
    BY <2>1, <2>2 DEF Completing, Undecided
  <2> QED  BY <1>1, <1>2, <2>1, <2>3, Quiet, OutcomesSame DEF StepOK
<1> QED  BY <1>4, <1>5, <1>6, <1>7

LEMMA TimerSafe ==
  ASSUME IInv, ScheduleTimer \/ fireDue \/ Callback
  PROVE  StepOK
<1> USE DEF storeVars, queueVars, timerVars, callVars
<1>0. /\ TypeOK /\ StoreTypeOK /\ Fresh /\ Manned /\ completing \subseteq Completion
      /\ \A x \in arming : x.timer \in Timer
      /\ firing \subseteq Timer
      /\ \A t \in Timer : t.wf \in Workflow
      /\ \A t \in Timer : \A type \in {"TimerScheduled", "TimerFired"} :
           EvOf(type, t.id) \in Event /\ EvOf(type, t.id).type = type
  BY DEF IInv, TypeOK, TimerTypeOK, Timer, EvOf, Event, EventType
<1>1. ASSUME UNCHANGED <<stream, nextId, schedPc, polls, requeueing, pendingActTasks,
                         running, retries, losses, crashes>>,
             \A a \in Activity : SameOutcomes(a) /\ Completing(a)' = Completing(a)
      PROVE  StepOK
  BY <1>0, <1>1, FreshKept, MannedKept, Quiet DEF StepOK
<1>2. ASSUME NEW x \in arming, TimerHook(x.timer) PROVE StepOK
  BY <1>1, <1>2, OutcomesSame, Parts DEF TimerHook, HookCallback, TasksUnchanged
<1>3. ASSUME NEW x \in arming, TimerScheduled(x.timer) PROVE StepOK
  <2>1. "TimerScheduled" \notin {"ActivityCompleted", "ActivityFailed"}
    OBVIOUS
  <2>2. \A a \in Activity : SameOutcomes(a)
    BY <1>0, <1>3, <2>1, OutcomesKept DEF TimerScheduled, AppendTimerScheduled
  <2>3. \A c \in completing : /\ [c EXCEPT !.pc = "ack"].pc = "ack"
                              /\ "ack" \notin {"append", "retry", "arm"}
                              /\ "arming" \notin {"append", "retry", "arm"}
    BY <1>0 DEF Completion
  <2>4. ASSUME NEW a \in Activity PROVE Completing(a)' = Completing(a)
    <3>1. completing' = {IF c.timer = x.timer.id /\ c.pc = "arming" THEN [c EXCEPT !.pc = "ack"]
                                                                    ELSE c : c \in completing}
      BY <1>3 DEF TimerScheduled
    <3>2. \A d : d \in completing' /\ Undecided(d) => d \in completing
      BY <2>3, <3>1 DEF Undecided
    <3>3. \A d : d \in completing /\ Undecided(d) => d \in completing'
      BY <2>3, <3>1 DEF Undecided
    <3> QED  BY <3>2, <3>3 DEF Completing, Undecided
  <2> QED  BY <1>1, <1>3, <2>2, <2>4 DEF TimerScheduled, TasksUnchanged
<1>4. ASSUME NEW due \in SUBSET unfired, TimerFetch(due) PROVE StepOK
  BY <1>1, <1>4, OutcomesSame, Parts DEF TimerFetch, FetchDueTimers, TasksUnchanged
<1>5. ASSUME NEW t \in firing, TimerFire(t) PROVE StepOK
  <2>1. "TimerFired" \notin {"ActivityCompleted", "ActivityFailed"}
    OBVIOUS
  <2>2. \A a \in Activity : SameOutcomes(a)
    BY <1>0, <1>5, <2>1, OutcomesKept DEF TimerFire, FireTimer
  <2> QED  BY <1>1, <1>5, <2>2, Parts DEF TimerFire, TasksUnchanged
<1>6. ASSUME NEW g \in goroutines, RetryEnqueue(g) PROVE StepOK
  <2>1. PICK c \in retries : retries' = retries \ {c} /\ TryEnqueue(c.body)
    BY <1>6 DEF RetryEnqueue
  <2> DEFINE v == c.body.act
             x == <<"retrying", c>>
  <2>2. c.body \in Envelope /\ v \in Activity
    BY DEF IInv, TypeOK, Envelope
  <2>3. UNCHANGED <<history, schedPc, polls, completing, requeueing, pendingActTasks,
                    running, losses, crashes>>
    BY <1>6 DEF RetryEnqueue
  <2>4. Fresh' /\ Manned'
    BY <1>0, <2>1, <2>2, <2>3, FreshEnqueue, MannedKept
  <2>5. /\ x \in Retrying(v) /\ Retrying(v)' = Retrying(v) \ {x}
        /\ \A a \in Activity : a # v => Retrying(a)' = Retrying(a)
    BY <2>1, SMT DEF Retrying
  <2>6. x \in Held(v) /\ Due(x) = c.body
    BY <2>5, Dues DEF Held
  <2>7. Held(v)' = Held(v) \ {x}
    BY <2>3, <2>5, Parts, Tags, SMT DEF Held
  <2>8. \A a \in Activity : (a # v => Held(a)' = Held(a)) /\ Ages(a)
    BY <2>3, <2>5, Parts DEF Held, Ages
  <2>9. \A a \in Activity : Moves(a)
    BY <1>0, <2>1, <2>2, <2>3, <2>6, <2>7, <2>8, Redispatched
  <2> QED  BY <2>4, <2>9 DEF StepOK
<1> QED  BY <1>2, <1>3, <1>4, <1>5, <1>6 DEF ScheduleTimer, fireDue, Callback

LEMMA CollectSafe ==
  ASSUME IInv, NEW expired \in SUBSET pendingActTasks, ReclaimCollect(expired)
  PROVE  StepOK
<1> USE DEF storeVars, queueVars, timerVars
<1> DEFINE Back(p) == [id |-> p.id, body |-> Stripped(p.body), by |-> "loop", pc |-> "ack"]
<1>0. /\ TypeOK /\ Fresh /\ Manned /\ losses \in 0 .. MaxLosses /\ pendingActTasks \subseteq Entry
      /\ \A a \in Activity : Safe(a)
  BY DEF IInv, TypeOK
<1>1. /\ pendingActTasks' = pendingActTasks \ expired
      /\ requeueing' = requeueing \cup {Back(p) : p \in expired}
      /\ UNCHANGED <<history, stream, nextId, schedPc, polls, completing, running, retries, crashes>>
      /\ IF \E p \in expired : WorkedOn(p) THEN Lose(1) ELSE UNCHANGED losses
  BY DEF ReclaimCollect, Drop
<1>2. \A p : Back(p).body = Stripped(p.body) /\ Back(p).body.act = p.body.act
  BY DEF Stripped
<1> HIDE DEF Back
<1>3. Fresh'
  BY <1>0, <1>1, FreshKept
<1>4. Manned'
  <2>1. CASE \E p \in expired : WorkedOn(p)
    BY <1>0, <1>1, <2>1, LoseType, MannedVoid
  <2>2. CASE ~ \E p \in expired : WorkedOn(p)
    <3>1. losses' = losses
      BY <1>1, <2>2
    <3>2. \A r : [id |-> r.id, body |-> r.body].id = r.id
      OBVIOUS
    <3>3. \A r \in running : [id |-> r.id, body |-> r.body] \notin expired
      BY <2>2, <3>2 DEF WorkedOn
    <3>4. \A e \in polls : e \notin expired
      BY <2>2 DEF WorkedOn
    <3>5. SUFFICES ASSUME losses = 0 /\ crashes = 0
                   PROVE  /\ \A r \in running : [id |-> r.id, body |-> r.body] \in pendingActTasks'
                          /\ polls \subseteq pendingActTasks'
      BY <1>0, <1>1, <3>1 DEF Manned, WorkedOn
    <3>6. \A r \in running : [id |-> r.id, body |-> r.body] \in pendingActTasks'
      BY <1>0, <1>1, <3>3, <3>5 DEF Manned
    <3>7. polls \subseteq pendingActTasks'
      BY <1>0, <1>1, <3>4, <3>5 DEF Manned
    <3> QED  BY <3>6, <3>7
  <2> QED  BY <2>1, <2>2
<1>5. ASSUME NEW a \in Activity PROVE Moves(a)
  <2>1. SameOutcomes(a) /\ Ages(a)
    BY <1>1, OutcomesSame DEF Ages
  <2>2. CASE \E p \in expired : p.body.act = a
    <3>0. losses' # 0 \/ crashes' # 0
      <4>1. CASE \E p \in expired : WorkedOn(p)
        BY <1>0, <1>1, <4>1, LoseType
      <4>2. CASE ~ \E p \in expired : WorkedOn(p)
        BY <1>0, <1>1, <2>2, <4>2 DEF Manned
      <4> QED  BY <4>1, <4>2
    <3>1. PICK p \in expired : p.body.act = a
      BY <2>2
    <3> DEFINE x == <<"pending", p>>
               y == <<"requeueing", Back(p)>>
    <3>2. x \in Pending(a)
      BY <3>1 DEF Pending
    <3>3. x \in Rights(a) /\ \A z \in Rights(a) : z = x
      BY <1>0, <3>2 DEF Rights, Safe
    <3>4. \A q \in pendingActTasks : q.body.act = a => q = p
      <4> SUFFICES ASSUME NEW q \in pendingActTasks, q.body.act = a PROVE q = p
        BY SMT
      <4>1. <<"pending", q>> \in Rights(a)
        BY DEF Rights, Pending
      <4>2. <<"pending", q>> = <<"pending", p>>
        BY <3>3, <4>1
      <4> QED  BY <4>2, SMT
    <3>5. Pending(a)' = {}
      BY <1>1, <3>4 DEF Pending
    <3>6. Requeueing(a)' = Requeueing(a) \cup {y}
      <4>1. ASSUME NEW q \in requeueing', q.body.act = a, q \notin requeueing PROVE q = Back(p)
        <5>1. PICK o \in expired : q = Back(o)
          BY <1>1, <4>1
        <5>2. o.body.act = a
          BY <1>2, <4>1, <5>1
        <5> QED  BY <3>4, <5>1, <5>2
      <4>2. Back(p) \in requeueing' /\ Back(p).body.act = a /\ requeueing \subseteq requeueing'
        BY <1>1, <1>2, <3>1
      <4> QED  BY <4>1, <4>2 DEF Requeueing
    <3>7. Starting(a)' = Starting(a) /\ Queued(a)' = Queued(a) /\ Completing(a)' = Completing(a)
          /\ Retrying(a)' = Retrying(a)
      BY <1>1, Parts
    <3>8. /\ x \notin Starting(a) /\ x \notin Queued(a) /\ x \notin Completing(a)
          /\ x \notin Requeueing(a) /\ x \notin Retrying(a)
      BY Tags, SMT
    <3> HIDE DEF x, y
    <3>9. Starting(a) = {} /\ Queued(a) = {} /\ Completing(a) = {} /\ Requeueing(a) = {} /\ Retrying(a) = {}
      BY <3>3, <3>8 DEF Rights
    <3>10. Rights(a)' = {y}
      BY <3>5, <3>6, <3>7, <3>9 DEF Rights
    <3>11. Rights(a)' = (Rights(a) \ {x}) \cup {y}
      BY <3>3, <3>10
    <3>12. Due(y) = Stripped(Due(x))
      BY <1>2, Dues DEF x, y
    <3> QED  BY <2>1, <3>0, <3>3, <3>11, <3>12 DEF Moves, Exchanges
  <2>3. CASE ~ \E p \in expired : p.body.act = a
    <3>1. Pending(a)' = Pending(a)
      BY <1>1, <2>3 DEF Pending
    <3>2. Requeueing(a)' = Requeueing(a)
      <4>1. ASSUME NEW q \in requeueing', q.body.act = a PROVE q \in requeueing
        <5>1. ASSUME NEW o \in expired PROVE q # Back(o)
          BY <1>2, <2>3, <4>1
        <5> QED  BY <1>1, <5>1
      <4>2. requeueing \subseteq requeueing'
        BY <1>1
      <4> QED  BY <4>1, <4>2 DEF Requeueing
    <3>3. Rights(a)' = Rights(a)
      BY <1>1, <3>1, <3>2, Parts DEF Rights
    <3> QED  BY <2>1, <3>3 DEF Moves, Keeps
  <2> QED  BY <2>2, <2>3
<1> QED  BY <1>3, <1>4, <1>5 DEF StepOK

LEMMA RequeueSafe ==
  ASSUME IInv, NEW q \in requeueing, RequeueAck(q) \/ RequeueEnqueue(q)
  PROVE  StepOK
<1> USE DEF storeVars, queueVars, timerVars
<1> DEFINE v == q.body.act
           x == <<"requeueing", q>>
<1>0. /\ TypeOK /\ Fresh /\ Manned /\ q \in Requeue /\ q.body \in Envelope /\ v \in Activity
  BY DEF IInv, TypeOK, Requeue, Envelope
<1>1. UNCHANGED <<history, schedPc, polls, completing, pendingActTasks, running, retries, losses, crashes>>
  BY DEF RequeueAck, RequeueEnqueue
<1>2. Manned' /\ \A a \in Activity : Ages(a) /\ SameOutcomes(a)
  BY <1>0, <1>1, MannedKept, OutcomesSame DEF Ages
<1>3. CASE RequeueAck(q)
  <2> DEFINE d == [q EXCEPT !.pc = "enqueue"]
             y == <<"requeueing", d>>
  <2>1. /\ q.pc = "ack" /\ requeueing' = (requeueing \ {q}) \cup {d} /\ UNCHANGED <<stream, nextId>>
    BY <1>3 DEF RequeueAck
  <2>2. d.body = q.body
    BY <1>0 DEF Requeue
  <2> HIDE DEF d
  <2>3. \A a \in Activity : a # v => Requeueing(a)' = Requeueing(a)
    BY <2>1, <2>2 DEF Requeueing
  <2>4. x \in Requeueing(v) /\ Requeueing(v)' = (Requeueing(v) \ {x}) \cup {y}
    BY <2>1, <2>2, SMT DEF Requeueing
  <2>5. x \in Rights(v) /\ Rights(v)' = (Rights(v) \ {x}) \cup {y}
    BY <1>1, <2>1, <2>4, Parts, Tags, SMT DEF Rights
  <2>6. Due(y) = Due(x)
    BY <2>2, Dues
  <2>7. Moves(v)
    BY <1>0, <1>2, <2>5, <2>6 DEF Moves, Exchanges
  <2>8. ASSUME NEW a \in Activity, a # v PROVE Moves(a)
    <3>1. Rights(a)' = Rights(a)
      BY <1>1, <2>1, <2>3, <2>8, Parts DEF Rights
    <3> QED  BY <1>2, <3>1 DEF Moves, Keeps
  <2>9. Fresh'
    BY <1>0, <1>1, <2>1, FreshKept
  <2> QED  BY <1>2, <2>7, <2>8, <2>9 DEF StepOK
<1>4. CASE RequeueEnqueue(q)
  <2>1. requeueing' = requeueing \ {q} /\ TryEnqueue(q.body)
    BY <1>4 DEF RequeueEnqueue
  <2>2. Fresh'
    BY <1>0, <1>1, <2>1, FreshEnqueue
  <2>3. /\ x \in Requeueing(v) /\ Requeueing(v)' = Requeueing(v) \ {x}
        /\ \A a \in Activity : a # v => Requeueing(a)' = Requeueing(a)
    BY <2>1, SMT DEF Requeueing
  <2>4. x \in Held(v) /\ Due(x) = q.body
    BY <2>3, Dues DEF Held
  <2>5. Held(v)' = Held(v) \ {x}
    BY <1>1, <2>3, Parts, Tags, SMT DEF Held
  <2>6. \A a \in Activity : a # v => Held(a)' = Held(a)
    BY <1>1, <2>3, Parts DEF Held
  <2>7. \A a \in Activity : Moves(a)
    BY <1>0, <1>1, <1>2, <2>1, <2>4, <2>5, <2>6, Redispatched
  <2> QED  BY <1>2, <2>2, <2>7 DEF StepOK
<1> QED  BY <1>3, <1>4

LEMMA LossSafe ==
  ASSUME IInv, Losses
  PROVE  StepOK
<1> USE DEF storeVars, queueVars, timerVars, callVars
<1>0. TypeOK /\ Fresh /\ losses \in 0 .. MaxLosses
  BY DEF IInv, TypeOK
<1>1. /\ Lose(1) /\ UNCHANGED <<history, stream, nextId, schedPc, completing, retries>>
      /\ pendingActTasks' \subseteq pendingActTasks
  BY DEF Losses, PollLost, StreamSendFails, WorkerDies, Drop
<1>2. Fresh' /\ Manned' /\ \A a \in Activity : SameOutcomes(a) /\ Ages(a)
  BY <1>0, <1>1, LoseType, FreshKept, MannedVoid, OutcomesSame DEF Ages
<1>3. CASE UNCHANGED <<pendingActTasks, requeueing>>
  BY <1>1, <1>2, <1>3, Quiet, Parts DEF StepOK
<1>4. ASSUME NEW e \in polls, StreamSendFails(e) PROVE StepOK
  <2> DEFINE b == [id |-> e.id, body |-> e.body, by |-> "stream", pc |-> "ack"]
             x == <<"pending", e>>
             y == <<"requeueing", b>>
  <2>1. /\ pendingActTasks' = pendingActTasks \ {e}
        /\ e \in pendingActTasks => requeueing' = requeueing \cup {b}
        /\ e \notin pendingActTasks => requeueing' = requeueing
    BY <1>4 DEF StreamSendFails, Drop
  <2>2. b.body = e.body
    OBVIOUS
  <2> HIDE DEF b
  <2>3. CASE e \notin pendingActTasks
    BY <1>3, <2>1, <2>3, SMT
  <2>4. CASE e \in pendingActTasks
    <3>1. ASSUME NEW a \in Activity, a = e.body.act PROVE Moves(a)
      <4>1. x \in Pending(a) /\ Pending(a)' = Pending(a) \ {x}
        BY <2>1, <2>4, <3>1, SMT DEF Pending
      <4>2. Requeueing(a)' = Requeueing(a) \cup {y}
        BY <2>1, <2>2, <2>4, <3>1 DEF Requeueing
      <4>3. x \in Rights(a) /\ Rights(a)' = (Rights(a) \ {x}) \cup {y}
        BY <1>1, <4>1, <4>2, Parts, Tags, SMT DEF Rights
      <4>4. Due(y) = Due(x)
        BY <2>2, Dues
      <4> QED  BY <1>2, <4>3, <4>4 DEF Moves, Exchanges
    <3>2. ASSUME NEW a \in Activity, a # e.body.act PROVE Moves(a)
      <4>1. Pending(a)' = Pending(a)
        BY <2>1, <3>2 DEF Pending
      <4>2. Requeueing(a)' = Requeueing(a)
        BY <2>1, <2>2, <2>4, <3>2 DEF Requeueing
      <4>3. Rights(a)' = Rights(a)
        BY <1>1, <4>1, <4>2, Parts DEF Rights
      <4> QED  BY <1>2, <4>3 DEF Moves, Keeps
    <3> QED  BY <1>2, <3>1, <3>2 DEF StepOK
  <2> QED  BY <2>3, <2>4
<1> QED  BY <1>3, <1>4 DEF Losses, PollLost, WorkerDies

LEMMA CrashSafe ==
  ASSUME IInv, EngineCrash
  PROVE  StepOK
<1> USE DEF storeVars, queueVars
<1>0. /\ Fresh /\ crashes \in 0 .. MaxCrashes
      /\ schedPc \in [Activity -> {"idle", "recorded", "done"}]
  BY DEF IInv, TypeOK
<1>1. /\ crashes' = crashes + 1 /\ UNCHANGED <<history, stream, nextId>>
      /\ pendingActTasks' = {} /\ retries' = {} /\ completing' = {} /\ requeueing' = {}
      /\ schedPc' = [a \in Activity |-> IF schedPc[a] = "idle" THEN "idle" ELSE "done"]
  BY DEF EngineCrash
<1>2. crashes' # 0
  BY <1>0, <1>1, ActivityAssumption, SMT
<1>3. Fresh' /\ Manned'
  BY <1>0, <1>1, <1>2, FreshKept, MannedVoid
<1>4. ASSUME NEW a \in Activity PROVE Moves(a)
  <2>1. SameOutcomes(a)
    BY <1>1, OutcomesSame
  <2>2. Ages(a) /\ schedPc'[a] # "recorded"
    BY <1>1, SMT DEF Ages
  <2>3. Starting(a)' = {}
    BY <2>2 DEF Starting
  <2>4. Pending(a)' = {} /\ Completing(a)' = {} /\ Requeueing(a)' = {} /\ Retrying(a)' = {}
    BY <1>1 DEF Pending, Completing, Requeueing, Retrying
  <2>5. Rights(a)' \subseteq Rights(a)
    BY <1>1, <2>3, <2>4, Parts DEF Rights
  <2> QED  BY <1>2, <2>1, <2>2, <2>5 DEF Moves, Drops
<1> QED  BY <1>3, <1>4 DEF StepOK

LEMMA InitSafe == Init => IInv
<1> SUFFICES ASSUME Init PROVE IInv
  BY SMT
<1>0. TypeOK
  BY InitType
<1>1. /\ stream = <<>> /\ pendingActTasks = {} /\ polls = {} /\ running = {} /\ completing = {}
      /\ requeueing = {} /\ retries = {} /\ schedPc = [a \in Activity |-> "idle"]
      /\ history = [w \in Workflow |-> <<Ev("WorkflowStarted")>>]
  BY DEF Init, QueueInit
<1>2. DOMAIN stream = {}
  BY <1>1, SMT
<1>3. Fresh /\ Manned
  BY <1>1, <1>2 DEF Fresh, Manned
<1>4. ASSUME NEW a \in Activity PROVE Safe(a)
  <2>1. schedPc[a] = "idle" /\ a[1] \in Workflow
    BY <1>1, ActivityPair
  <2>2. Starting(a) = {}
    BY <2>1, SMT DEF Starting
  <2>3. Rights(a) = {}
    BY <1>1, <1>2, <2>2 DEF Rights, Queued, Pending, Completing, Requeueing, Retrying
  <2>4. history[a[1]] = <<Ev("WorkflowStarted")>>
    BY <1>1, <2>1
  <2>5. Completed(a) = {} /\ Outcomes(a) = {}
    BY <2>4, SMT DEF Completed, Outcomes, Recorded, EventOf, EvOf, Ev
  <2>6. IsFiniteSet(Outcomes(a)) /\ Cardinality(Outcomes(a)) <= MaximumAttempts
    BY <2>5, FS_EmptySet, ActivityAssumption, SMT
  <2> QED  BY <2>3, <2>5, <2>6 DEF Safe
<1> QED  BY <1>0, <1>3, <1>4 DEF IInv

LEMMA StepSafe == IInv /\ [Next]_vars => IInv'
<1>1. ASSUME IInv, Next PROVE IInv'
  <2>1. StepOK
    BY <1>1, ScheduleSafe, PollSafe, WorkerSafe, TakeSafe, CompleteSafe, TimerSafe, CollectSafe,
       RequeueSafe, LossSafe, CrashSafe DEF Next, CompleteActivity, reclaimExpired
  <2>2. TypeOK'
    BY <1>1, NextType DEF IInv
  <2>3. \A a \in Activity : Safe(a)'
    BY <1>1, <2>1, MoveSafe DEF IInv, StepOK
  <2> QED  BY <2>1, <2>2, <2>3 DEF IInv, StepOK
<1>2. ASSUME IInv, UNCHANGED vars PROVE IInv'
  <2>1. /\ UNCHANGED <<history, stream, nextId, schedPc, polls, completing, requeueing,
                       pendingActTasks, running, retries, losses, crashes>>
    BY <1>2 DEF vars, storeVars, queueVars, callVars
  <2>2. TypeOK'
    BY <1>2 DEF IInv, vars, storeVars, queueVars, timerVars, callVars, TypeOK, StoreTypeOK, TimerTypeOK
  <2>3. Fresh' /\ Manned'
    BY <1>2, <2>1, FreshKept, MannedKept DEF IInv
  <2>4. \A a \in Activity : Safe(a)'
    BY <1>2, <2>1, Quiet, OutcomesSame, Parts, MoveSafe DEF IInv
  <2> QED  BY <2>2, <2>3, <2>4 DEF IInv
<1> QED  BY <1>1, <1>2

(* The inductive invariant holds in every reachable state.                 *)
THEOREM Invariance == Spec => []IInv
BY InitSafe, StepSafe, PTL DEF Spec

-----------------------------------------------------------------------------
(* The results.                                                            *)

(* Every call of the engine keeps its tables, the queue and the rows       *)
(* within their types.                                                     *)
THEOREM ActivityTypes == Spec => []TypeOK
<1>1. IInv => TypeOK
  BY DEF IInv
<1> QED  BY <1>1, Invariance, PTL

(* An activity never has two tasks, for any number of workflows,           *)
(* activities, failures, losses and crashes: dequeueActivityTask,          *)
(* CompleteActivity, the retry timer, a failed stream.Send and             *)
(* reclaimExpired each take the one right to run it and hand it on.        *)
THEOREM SingleTaskHolds == Spec => []SingleTask
<1>1. IInv => SingleTask
  BY DEF IInv, Safe, SingleTask
<1> QED  BY <1>1, Invariance, PTL

(* CompleteActivity never records more outcomes of an activity than its    *)
(* retry policy allows, although a reclaim forgets the attempt count.      *)
THEOREM AttemptsBoundedHolds == Spec => []AttemptsBounded
<1>1. IInv => AttemptsBounded
  BY DEF IInv, Safe, AttemptsBounded
<1> QED  BY <1>1, Invariance, PTL

(* Once CompleteActivity has recorded a success, no outcome follows and    *)
(* nothing is left that could run the activity again.                      *)
THEOREM SuccessIsFinalHolds == Spec => []SuccessIsFinal
<1>1. IInv => SuccessIsFinal
  BY DEF IInv, Safe, SuccessIsFinal, Completed
<1> QED  BY <1>1, Invariance, PTL

(* While every worker heartbeats in time and no response is lost, the      *)
(* token table lets no two workers run the same activity.                  *)
THEOREM OneWorkerHolds == Spec => []OneWorker
<1>1. IInv => OneWorker
  <2> SUFFICES ASSUME IInv, losses = 0, crashes = 0, NEW r \in running, NEW q \in running,
                      r.body.act = q.body.act
               PROVE  r = q
    BY DEF OneWorker
  <2> DEFINE p(s) == [id |-> s.id, body |-> s.body]
  <2>1. \A s : p(s).id = s.id /\ p(s).body = s.body
    OBVIOUS
  <2>2. p(r) \in pendingActTasks /\ p(q) \in pendingActTasks /\ (r.id = q.id => r = q)
    BY DEF IInv, Manned
  <2>3. r.body.act \in Activity
    BY DEF IInv, TypeOK, ActRun, Envelope
  <2> HIDE DEF p
  <2>4. <<"pending", p(r)>> \in Rights(r.body.act) /\ <<"pending", p(q)>> \in Rights(r.body.act)
    BY <2>1, <2>2 DEF Rights, Pending
  <2>5. <<"pending", p(r)>> = <<"pending", p(q)>>
    BY <2>3, <2>4 DEF IInv, Safe
  <2>6. p(r) = p(q)
    BY <2>5, SMT
  <2> QED  BY <2>1, <2>2, <2>6
<1> QED  BY <1>1, Invariance, PTL

-----------------------------------------------------------------------------
(* What no failed call and no crash can take away.                         *)

Settled(a) ==
  \/ Completed(a) # {}
  \/ Cardinality(Outcomes(a)) = MaximumAttempts
  \/ losses # 0 /\ Outcomes(a) # {}

(* The right to run a is there until a is settled, and as long as nothing  *)
(* was lost its envelope has the whole policy and counts every outcome.    *)
Kept(a) ==
  faults = 0 /\ crashes = 0 =>
    /\ schedPc[a] # "idle" => Rights(a) # {} \/ Settled(a)
    /\ losses = 0 => \A x \in Rights(a) : /\ Due(x).max = MaximumAttempts
                                          /\ Due(x).attempt = Cardinality(Outcomes(a)) + 1

(* Only a call of ScheduleActivity writes ActivityScheduled.               *)
Known(a) == Recorded(a, "ActivityScheduled") # {} => schedPc[a] # "idle"

(* A retry has a timer of its own, which its ScheduleTimer call, the       *)
(* callback table or a goroutine knows.                                    *)
Ticking(c) ==
  \/ \E g \in goroutines : g.timer.id = c.timer /\ g.pc = "spawned"
  \/ \E t \in callbacks : t.id = c.timer
  \/ \E x \in arming : x.timer.id = c.timer /\ x.step = "inserted"

Clocked ==
  /\ \A c \in retries : c.timer < nextTimer /\ Ticking(c)
  /\ \A c, d \in retries : c.timer = d.timer => c = d

KInv == IInv /\ Clocked /\ \A a \in Activity : Kept(a) /\ Known(a)

(* The counters only grow.                                                 *)
Counts ==
  /\ faults' = 0 => faults = 0
  /\ crashes' = 0 => crashes = 0
  /\ losses' = 0 => losses = 0

LEMMA FaultGrows ==
  ASSUME StoreTypeOK, Fault \/ NoFault
  PROVE  faults' = 0 => faults = 0
BY FaultCounts DEF NoFault

LEMMA StepCounts ==
  ASSUME TypeOK, Next
  PROVE  Counts
<1> USE DEF storeVars, queueVars, timerVars, callVars
<1>0. StoreTypeOK /\ losses \in 0 .. MaxLosses /\ crashes \in 0 .. MaxCrashes
  BY DEF TypeOK
<1>1. \A n : n = 1 => (Lose(n) => (losses' = 0 => losses = 0))
  BY <1>0, LoseType
<1>2. \/ Fault \/ NoFault
  BY DEF Next, ScheduleActivity, ScheduleRecord, ScheduleEnqueue, Poll, PollDequeue,
     PollDequeueFails, PollRespond, Worker, Heartbeat, ActivityReturns, CompleteActivity, CompleteTake,
     CompleteAppend, RetryRecord, RetryArm, CompleteAck, ScheduleTimer, TimerHook, HookCallback,
     TimerScheduled, AppendTimerScheduled, fireDue, TimerFetch, FetchDueTimers, TimerFire, FireTimer,
     Callback, RetryEnqueue, reclaimExpired, ReclaimCollect, RequeueAck, RequeueEnqueue, Losses,
     PollLost, StreamSendFails, WorkerDies, EngineCrash, TryAppendEvent, TryEnqueue, TryAck, NoFault
<1>3. \/ losses' = losses \/ Lose(1)
  BY DEF Next, ScheduleActivity, ScheduleRecord, ScheduleEnqueue, Poll, PollDequeue,
     PollDequeueFails, PollRespond, Worker, Heartbeat, ActivityReturns, CompleteActivity, CompleteTake,
     CompleteAppend, RetryRecord, RetryArm, CompleteAck, ScheduleTimer, TimerHook, TasksUnchanged,
     TimerScheduled, fireDue, TimerFetch, TimerFire,
     Callback, RetryEnqueue, reclaimExpired, ReclaimCollect, RequeueAck, RequeueEnqueue, Losses,
     PollLost, StreamSendFails, WorkerDies, EngineCrash
<1>4. \/ crashes' = crashes \/ crashes' = crashes + 1
  BY DEF Next, ScheduleActivity, ScheduleRecord, ScheduleEnqueue, Poll, PollDequeue,
     PollDequeueFails, PollRespond, Worker, Heartbeat, ActivityReturns, CompleteActivity, CompleteTake,
     CompleteAppend, RetryRecord, RetryArm, CompleteAck, ScheduleTimer, TimerHook, TasksUnchanged,
     TimerScheduled, fireDue, TimerFetch, TimerFire,
     Callback, RetryEnqueue, reclaimExpired, ReclaimCollect, RequeueAck, RequeueEnqueue, Losses,
     PollLost, StreamSendFails, WorkerDies, EngineCrash
<1>5. crashes' = 0 => crashes = 0
  BY <1>0, <1>4, ActivityAssumption, SMT
<1> QED  BY <1>0, <1>1, <1>2, <1>3, <1>5, FaultGrows DEF Counts

(* One more outcome, new, is one more.                                     *)
LEMMA JustOneMore ==
  ASSUME NEW S, IsFiniteSet(S), NEW n, n \notin S
  PROVE  Cardinality(S \cup {n}) = Cardinality(S) + 1 /\ Cardinality(S) \in Nat
BY FS_AddElement, FS_CardinalityType, SMT

LEMMA MoveKept ==
  ASSUME NEW a \in Activity, Safe(a), Kept(a), Counts, Moves(a) \/ Born(a)
  PROVE  Kept(a)'
<1> SUFFICES ASSUME faults' = 0, crashes' = 0
             PROVE  /\ schedPc'[a] # "idle" => Rights(a)' # {} \/ Settled(a)'
                    /\ losses' = 0 => \A x \in Rights(a)' :
                         /\ Due(x).max = MaximumAttempts
                         /\ Due(x).attempt = Cardinality(Outcomes(a)') + 1
  BY DEF Kept, Due, NextAttempt
<1>0. /\ schedPc[a] # "idle" => Rights(a) # {} \/ Settled(a)
      /\ losses = 0 => \A x \in Rights(a) : /\ Due(x).max = MaximumAttempts
                                            /\ Due(x).attempt = Cardinality(Outcomes(a)) + 1
      /\ losses' = 0 => losses = 0
  BY DEF Kept, Counts
<1>a. /\ IsFiniteSet(Outcomes(a)) /\ \A x, y \in Rights(a) : x = y
      /\ \A x \in Rights(a) : Due(x) \in Envelope /\ Completed(a) = {} /\ schedPc[a] # "idle"
      /\ \A b \in Envelope : b.attempt \in Nat /\ b.max \in Nat
  BY DEF Safe, Fits, Envelope
<1>1. CASE Ages(a) /\ Keeps(a)
  <2>1. Outcomes(a)' = Outcomes(a) /\ Completed(a)' = Completed(a) /\ Rights(a)' = Rights(a)
    BY <1>1 DEF Keeps, SameOutcomes
  <2> QED  BY <1>0, <1>1, <2>1 DEF Ages, Settled
<1>2. CASE Ages(a) /\ Exchanges(a)
  <2>1. PICK x, y : /\ x \in Rights(a) /\ Rights(a)' = (Rights(a) \ {x}) \cup {y}
                    /\ Due(y) = Due(x) \/ losses' # 0 \/ crashes' # 0
                    /\ SameOutcomes(a)
    BY <1>2 DEF Exchanges
  <2>2. Rights(a)' = {y} /\ Outcomes(a)' = Outcomes(a)
    BY <1>a, <2>1 DEF SameOutcomes
  <2> QED  BY <1>0, <2>1, <2>2
<1>3. CASE Ages(a) /\ Drops(a)
  BY <1>3 DEF Drops
<1>4. CASE Ages(a) /\ Retries(a)
  <2>1. PICK x, y, n :
          /\ x \in Rights(a)
          /\ Rights(a)' = (Rights(a) \ {x}) \cup {y}
          /\ Due(y) = NextAttempt(Due(x))
          /\ Outcomes(a)' = Outcomes(a) \cup {n} /\ n \notin Outcomes(a)
    BY <1>4 DEF Retries
  <2>2. Rights(a)' = {y}
    BY <1>a, <2>1
  <2>3. Cardinality(Outcomes(a)') = Cardinality(Outcomes(a)) + 1 /\ Cardinality(Outcomes(a)) \in Nat
    BY <1>a, <2>1, JustOneMore
  <2>4. Due(x) \in Envelope
    BY <1>a, <2>1
  <2>5. Due(y).max = Due(x).max /\ Due(y).attempt = Due(x).attempt + 1
    BY <2>1, <2>4, SMT DEF NextAttempt, Envelope
  <2>6. losses' = 0 => Due(x).max = MaximumAttempts /\ Due(x).attempt = Cardinality(Outcomes(a)) + 1
    BY <1>0, <2>1
  <2>7. losses' = 0 => Due(y).max = MaximumAttempts /\ Due(y).attempt = Cardinality(Outcomes(a)') + 1
    BY <2>3, <2>5, <2>6, SMT
  <2> QED  BY <2>2, <2>7
<1>5. CASE Ages(a) /\ Ends(a)
  <2>1. PICK x, n :
          /\ x \in Rights(a)
          /\ Rights(a)' = Rights(a) \ {x}
          /\ Outcomes(a)' = Outcomes(a) \cup {n} /\ n \notin Outcomes(a)
          /\ n \in Completed(a)' \/ ~MayRetry(Due(x))
    BY <1>5 DEF Ends
  <2>2. Rights(a)' = {}
    BY <1>a, <2>1
  <2>3. Cardinality(Outcomes(a)') = Cardinality(Outcomes(a)) + 1 /\ Cardinality(Outcomes(a)) \in Nat
    BY <1>a, <2>1, JustOneMore
  <2>4. Fits(Due(x), Cardinality(Outcomes(a)))
    BY <2>1 DEF Safe
  <2>5. CASE losses' = 0 /\ ~MayRetry(Due(x))
    <3>1. Due(x).max = MaximumAttempts /\ Due(x).attempt = Cardinality(Outcomes(a)) + 1
      BY <1>0, <2>1, <2>5
    <3>2. Cardinality(Outcomes(a)') = MaximumAttempts
      BY <2>3, <2>4, <2>5, <3>1, ActivityAssumption, SMT DEF MayRetry, Fits
    <3> QED  BY <2>2, <3>2 DEF Settled
  <2> QED  BY <2>1, <2>2, <2>5 DEF Settled
<1>6. CASE Born(a)
  <2>1. PICK y : Rights(a)' \subseteq Rights(a) \cup {y} /\ Due(y) = FirstAttempt(a)
    BY <1>6 DEF Born
  <2>2. Rights(a) = {} /\ Outcomes(a)' = {}
    BY <1>6 DEF Safe, Born, SameOutcomes
  <2>3. Cardinality(Outcomes(a)') = 0
    BY <2>2, FS_EmptySet
  <2>4. FirstAttempt(a).max = MaximumAttempts /\ FirstAttempt(a).attempt = 1 /\ 1 = 0 + 1
    BY SMT DEF FirstAttempt
  <2> QED  BY <1>6, <2>1, <2>2, <2>3, <2>4 DEF Born
<1> QED  BY <1>1, <1>2, <1>3, <1>4, <1>5, <1>6 DEF Moves

(* A step appends ActivityScheduled only for a call of ScheduleActivity.   *)
LEMMA Writes ==
  ASSUME TypeOK, Next
  PROVE  \/ UNCHANGED history
         \/ \E w \in Workflow, e \in Event : e.type # "ActivityScheduled" /\ TryAppendEvent(w, e)
         \/ \E v \in Activity : ScheduleRecord(v)
<1> USE DEF storeVars
<1> DEFINE Other == \E w \in Workflow, e \in Event : e.type # "ActivityScheduled" /\ TryAppendEvent(w, e)
<1>1. ASSUME NEW v \in Activity, NEW type \in EventType, type # "ActivityScheduled",
             TryAppendEvent(v[1], EventOf(type, v))
      PROVE  Other
  <2>1. EventOf(type, v) \in Event /\ EventOf(type, v).type = type /\ v[1] \in Workflow
    BY Events, ActivityPair DEF EventOf, EvOf
  <2> QED  BY <1>1, <2>1
<1>2. ASSUME NEW t \in Timer, NEW type \in EventType, type # "ActivityScheduled",
             TryAppendEvent(t.wf, EvOf(type, t.id))
      PROVE  Other
  <2>1. EvOf(type, t.id) \in Event /\ EvOf(type, t.id).type = type /\ t.wf \in Workflow
    BY DEF EvOf, Event, Timer
  <2> QED  BY <1>2, <2>1
<1>3. /\ \A type \in {"ActivityCompleted", "ActivityFailed", "ActivityRetryScheduled",
                       "TimerScheduled", "TimerFired"} : type \in EventType /\ type # "ActivityScheduled"
      /\ \A c \in completing : c.body.act \in Activity
      /\ \A x \in arming : x.timer \in Timer
      /\ firing \subseteq Timer
  BY DEF EventType, TypeOK, TimerTypeOK, Completion, Envelope
<1> HIDE DEF Other
<1>4. ASSUME NEW c \in completing, CompleteAppend(c) \/ RetryRecord(c) PROVE Other
  BY <1>1, <1>3, <1>4 DEF CompleteAppend, RetryRecord
<1>5. ASSUME NEW x \in arming, TimerScheduled(x.timer) PROVE Other
  BY <1>2, <1>3, <1>5 DEF TimerScheduled, AppendTimerScheduled
<1>6. ASSUME NEW t \in firing, TimerFire(t) PROVE Other
  BY <1>2, <1>3, <1>6 DEF TimerFire, FireTimer
<1>7. \/ UNCHANGED history
      \/ \E v \in Activity : ScheduleRecord(v)
      \/ \E c \in completing : CompleteAppend(c) \/ RetryRecord(c)
      \/ \E x \in arming : TimerScheduled(x.timer)
      \/ \E t \in firing : TimerFire(t)
  BY DEF Next, ScheduleActivity, ScheduleEnqueue, Poll, PollDequeue,
     PollDequeueFails, PollRespond, Worker, Heartbeat, ActivityReturns, CompleteActivity, CompleteTake,
     RetryArm, CompleteAck, ScheduleTimer, TimerHook, HookCallback, fireDue, TimerFetch, FetchDueTimers,
     Callback, RetryEnqueue, reclaimExpired, ReclaimCollect, RequeueAck, RequeueEnqueue, Losses,
     PollLost, StreamSendFails, WorkerDies, EngineCrash
<1> QED  BY <1>4, <1>5, <1>6, <1>7 DEF Other

LEMMA StepKnown ==
  ASSUME TypeOK, Next, NEW a \in Activity, Known(a), Moves(a) \/ Born(a)
  PROVE  Known(a)'
<1>0. StoreTypeOK /\ schedPc \in [Activity -> {"idle", "recorded", "done"}]
  BY DEF TypeOK
<1>1. schedPc'[a] = "idle" => schedPc[a] = "idle"
  BY DEF Moves, Ages, Born
<1>2. SUFFICES ASSUME schedPc'[a] = "idle"
               PROVE  Recorded(a, "ActivityScheduled")' = Recorded(a, "ActivityScheduled")
  BY <1>1 DEF Known
<1>3. CASE UNCHANGED history
  BY <1>3 DEF Recorded
<1>4. ASSUME NEW w \in Workflow, NEW e \in Event, e.type # "ActivityScheduled", TryAppendEvent(w, e)
      PROVE  Recorded(a, "ActivityScheduled")' = Recorded(a, "ActivityScheduled")
  <2>1. e # EventOf("ActivityScheduled", a)
    BY <1>4, SMT DEF EventOf, EvOf
  <2> QED  BY <1>0, <1>4, <2>1, RecordedKept
<1>5. ASSUME NEW v \in Activity, ScheduleRecord(v)
      PROVE  Recorded(a, "ActivityScheduled")' = Recorded(a, "ActivityScheduled")
  <2>1. v # a
    BY <1>0, <1>2, <1>5, SMT DEF ScheduleRecord
  <2>2. a[1] # v[1] \/ a[2] # v[2]
    BY <2>1, ActivityPair
  <2>3. /\ EventOf("ActivityScheduled", v).ref = v[2] /\ EventOf("ActivityScheduled", a).ref = a[2]
        /\ EventOf("ActivityScheduled", v) \in Event /\ v[1] \in Workflow
    BY Events, ActivityPair DEF EventOf, EvOf, EventType
  <2>4. a[1] # v[1] \/ EventOf("ActivityScheduled", v) # EventOf("ActivityScheduled", a)
    BY <2>2, <2>3
  <2>5. UNCHANGED history \/ AppendEvent(v[1], EventOf("ActivityScheduled", v))
    BY <1>5 DEF ScheduleRecord
  <2> QED  BY <1>0, <1>3, <2>3, <2>4, <2>5, RecordedKept
<1> QED  BY <1>3, <1>4, <1>5, Writes

LEMMA StepClocked ==
  ASSUME TypeOK, Next, Clocked
  PROVE  Clocked'
<1> USE DEF storeVars, queueVars, timerVars, callVars
<1>0. /\ TimerTypeOK /\ nextTimer \in Nat /\ retries \subseteq [timer : Nat, body : Envelope]
      /\ \A x \in arming : x = [timer |-> x.timer, step |-> x.step]
      /\ \A c \in retries : c.timer \in Nat
  BY SMT DEF TypeOK, TimerTypeOK
<1>1. ASSUME UNCHANGED nextTimer, retries' \subseteq retries, \A c \in retries' : Ticking(c)'
      PROVE  Clocked'
  BY <1>1 DEF Clocked
<1>2. CASE UNCHANGED <<timerVars, retries>>
  BY <1>1, <1>2 DEF Clocked, Ticking
<1>3. ASSUME NEW c \in completing, RetryArm(c) PROVE Clocked'
  <2>1. CASE UNCHANGED <<timerVars, retries>>
    BY <1>2, <2>1, SMT
  <2>2. CASE InsertTimer([id |-> nextTimer, wf |-> c.body.act[1], kind |-> "retry"])
    <3>t. PICK t : t = [id |-> nextTimer, wf |-> c.body.act[1], kind |-> "retry"]
      OBVIOUS
    <3>n. PICK n : n = [timer |-> nextTimer, body |-> NextAttempt(c.body)]
      OBVIOUS
    <3>1. retries' = retries \cup {n}
      <4>1. nextTimer' = nextTimer + 1
        BY <2>2 DEF InsertTimer
      <4>2. nextTimer' # nextTimer
        BY <1>0, <4>1, SMT
      <4> QED  BY <1>3, <3>n, <4>2 DEF RetryArm
    <3>2. /\ nextTimer' = nextTimer + 1 /\ UNCHANGED <<callbacks, goroutines>>
          /\ arming' = arming \cup {[timer |-> t, step |-> "inserted"]}
      BY <2>2, <3>t DEF InsertTimer
    <3>3. /\ n.timer = nextTimer /\ t.id = nextTimer /\ [timer |-> t, step |-> "inserted"].timer = t
          /\ [timer |-> t, step |-> "inserted"].step = "inserted"
      BY <3>t, <3>n
    <3>4. Ticking(n)'
      BY <3>2, <3>3 DEF Ticking
    <3>5. \A d \in retries : Ticking(d)'
      BY <3>2 DEF Clocked, Ticking
    <3>6. (\A d \in retries : d.timer < nextTimer' /\ d.timer # nextTimer) /\ nextTimer < nextTimer'
      BY <1>0, <3>2, SMT DEF Clocked
    <3>7. \A d \in retries' : d.timer < nextTimer' /\ Ticking(d)'
      BY <3>1, <3>3, <3>4, <3>5, <3>6
    <3>8. \A d, f \in retries' : d.timer = f.timer => d = f
      BY <3>1, <3>3, <3>6 DEF Clocked
    <3> QED  BY <3>7, <3>8 DEF Clocked
  <2> QED  BY <1>3, <2>1, <2>2 DEF RetryArm
<1>4. ASSUME NEW x \in arming, TimerHook(x.timer) PROVE Clocked'
  <2>1. /\ UNCHANGED <<nextTimer, goroutines, retries>> /\ callbacks' = callbacks \cup {x.timer}
        /\ arming' = (arming \ {[timer |-> x.timer, step |-> "inserted"]})
                       \cup {[timer |-> x.timer, step |-> "hooked"]}
    BY <1>4 DEF TimerHook, HookCallback, TasksUnchanged
  <2>2. ASSUME NEW c \in retries PROVE Ticking(c)'
    <3>1. CASE \E y \in arming : y.timer.id = c.timer /\ y.step = "inserted"
      <4>1. PICK y \in arming : y.timer.id = c.timer /\ y.step = "inserted"
        BY <3>1
      <4>2. y = [timer |-> x.timer, step |-> "inserted"] => y.timer = x.timer
        BY SMT
      <4>3. y \in arming' \/ y.timer \in callbacks'
        BY <2>1, <4>2
      <4> QED  BY <4>1, <4>3 DEF Ticking
    <3>2. CASE ~ \E y \in arming : y.timer.id = c.timer /\ y.step = "inserted"
      BY <2>1, <3>2 DEF Clocked, Ticking
    <3> QED  BY <3>1, <3>2
  <2> QED  BY <1>1, <2>1, <2>2
<1>5. ASSUME NEW x \in arming, TimerScheduled(x.timer) PROVE Clocked'
  <2>1. /\ UNCHANGED <<nextTimer, goroutines, callbacks, retries>>
        /\ arming' = arming \ {[timer |-> x.timer, step |-> "hooked"]}
    BY <1>5 DEF TimerScheduled, AppendTimerScheduled, TasksUnchanged
  <2>2. [timer |-> x.timer, step |-> "hooked"].step # "inserted"
    BY SMT
  <2>3. \A c \in retries : Ticking(c)'
    BY <2>1, <2>2 DEF Clocked, Ticking
  <2> QED  BY <1>1, <2>1, <2>3
<1>6. ASSUME NEW due \in SUBSET unfired, TimerFetch(due) PROVE Clocked'
  BY <1>1, <1>6 DEF TimerFetch, FetchDueTimers, TasksUnchanged, Clocked, Ticking
<1>7. ASSUME NEW t \in firing, TimerFire(t) PROVE Clocked'
  <2> DEFINE g == [timer |-> t, pc |-> "spawned"]
  <2>1. /\ UNCHANGED <<nextTimer, arming, retries>> /\ callbacks' = callbacks \ {t}
        /\ goroutines \subseteq goroutines' /\ (t \in callbacks => g \in goroutines')
    BY <1>7 DEF TimerFire, FireTimer, TasksUnchanged
  <2>2. g.timer = t /\ g.pc = "spawned"
    OBVIOUS
  <2> HIDE DEF g
  <2>3. \A c \in retries : Ticking(c)'
    BY <2>1, <2>2 DEF Clocked, Ticking
  <2> QED  BY <1>1, <2>1, <2>3
<1>8. ASSUME NEW g \in goroutines, RetryEnqueue(g) PROVE Clocked'
  <2>1. PICK c \in retries : c.timer = g.timer.id /\ retries' = retries \ {c}
    BY <1>8 DEF RetryEnqueue
  <2>2. UNCHANGED <<nextTimer, arming, callbacks>> /\ goroutines' = goroutines \ {g}
    BY <1>8 DEF RetryEnqueue, CallbackEnd
  <2>3. \A d \in retries' : d.timer # g.timer.id
    BY <2>1 DEF Clocked
  <2>4. \A d \in retries' : Ticking(d)'
    BY <2>1, <2>2, <2>3 DEF Clocked, Ticking
  <2> QED  BY <1>1, <2>1, <2>2, <2>4
<1>9. CASE EngineCrash
  BY <1>9 DEF EngineCrash, Clocked
<1>10. \/ UNCHANGED <<timerVars, retries>> \/ EngineCrash
       \/ \E c \in completing : RetryArm(c)
       \/ \E x \in arming : TimerHook(x.timer) \/ TimerScheduled(x.timer)
       \/ \E due \in SUBSET unfired : TimerFetch(due)
       \/ \E t \in firing : TimerFire(t)
       \/ \E g \in goroutines : RetryEnqueue(g)
  BY DEF Next, ScheduleActivity, ScheduleRecord, ScheduleEnqueue, Poll, PollDequeue,
     PollDequeueFails, PollRespond, Worker, Heartbeat, ActivityReturns, CompleteActivity, CompleteTake,
     CompleteAppend, RetryRecord, CompleteAck, ScheduleTimer, fireDue, Callback,
     reclaimExpired, ReclaimCollect, RequeueAck, RequeueEnqueue, Losses,
     PollLost, StreamSendFails, WorkerDies
<1> QED  BY <1>2, <1>3, <1>4, <1>5, <1>6, <1>7, <1>8, <1>9, <1>10

LEMMA KeptInvariance == Spec => []KInv
<1>1. Init => KInv
  <2> SUFFICES ASSUME Init PROVE KInv
    BY SMT
  <2>1. IInv /\ Clocked
    BY InitSafe DEF Init, Clocked
  <2>2. ASSUME NEW a \in Activity PROVE Kept(a) /\ Known(a)
    <3>1. schedPc[a] = "idle" /\ a[1] \in Workflow
      BY ActivityPair DEF Init
    <3>2. history[a[1]] = <<Ev("WorkflowStarted")>>
      BY <3>1 DEF Init
    <3>3. Recorded(a, "ActivityScheduled") = {}
      BY <3>2, SMT DEF Recorded, EventOf, EvOf, Ev
    <3>4. Rights(a) = {}
      BY <2>1, <3>1 DEF IInv, Safe
    <3> QED  BY <3>1, <3>3, <3>4 DEF Kept, Known
  <2> QED  BY <2>1, <2>2 DEF KInv
<1>2. ASSUME KInv, Next PROVE KInv'
  <2>1. IInv /\ TypeOK /\ Clocked /\ IInv'
    BY <1>2, StepSafe DEF KInv, IInv
  <2>2. StepOK
    BY <1>2, <2>1, ScheduleSafe, PollSafe, WorkerSafe, TakeSafe, CompleteSafe, TimerSafe, CollectSafe,
       RequeueSafe, LossSafe, CrashSafe DEF Next, CompleteActivity, reclaimExpired
  <2>3. Counts /\ Clocked'
    BY <1>2, <2>1, StepCounts, StepClocked
  <2>4. \A a \in Activity : Safe(a) /\ Kept(a) /\ Known(a) /\ (Moves(a) \/ Born(a))
    BY <1>2, <2>1, <2>2 DEF KInv, IInv, StepOK
  <2>5. \A a \in Activity : Kept(a)' /\ Known(a)'
    BY <1>2, <2>1, <2>3, <2>4, MoveKept, StepKnown
  <2> QED  BY <2>1, <2>3, <2>5 DEF KInv
<1>3. ASSUME KInv, UNCHANGED vars PROVE KInv'
  <2>1. UNCHANGED <<history, stream, nextId, schedPc, polls, completing, requeueing,
                    pendingActTasks, running, retries, losses, crashes, faults>>
        /\ UNCHANGED timerVars
    BY <1>3 DEF vars, storeVars, queueVars, callVars
  <2>2. IInv' /\ Clocked'
    BY <1>3, <2>1, StepSafe DEF KInv, Clocked, Ticking, timerVars
  <2>3. \A a \in Activity : Moves(a) /\ Safe(a) /\ Kept(a)
    BY <1>3, <2>1, Quiet, OutcomesSame, Parts DEF KInv, IInv
  <2>4. Counts
    BY <2>1 DEF Counts
  <2>5. \A a \in Activity : Kept(a)' /\ Known(a)'
    BY <1>3, <2>1, <2>3, <2>4, MoveKept DEF KInv, Known, Recorded
  <2> QED  BY <2>2, <2>5 DEF KInv
<1> QED  BY <1>1, <1>2, <1>3, PTL DEF Spec

(* For any number of activities, attempts and losses: as long as no call   *)
(* failed, the engine did not die and no timer outran its callback, an     *)
(* activity that ScheduleActivity recorded has a task, a retry whose timer *)
(* will start it, or its last outcome.                                     *)
THEOREM NeverDroppedHolds == Spec => []NeverDropped
<1>1. ASSUME KInv PROVE NeverDropped
  <2> SUFFICES ASSUME faults = 0, crashes = 0, ~LateHook, NEW a \in Activity,
                      Recorded(a, "ActivityScheduled") # {}
               PROVE  \/ \E x \in Rights(a) : x[1] = "retrying" => Armed(x[2])
                      \/ Recorded(a, "ActivityCompleted") # {}
                      \/ Cardinality(Outcomes(a)) = MaximumAttempts
                      \/ losses > 0 /\ Outcomes(a) # {}
    BY DEF NeverDropped
  <2>1. Rights(a) # {} \/ Settled(a)
    BY <1>1 DEF KInv, Kept, Known
  <2>2. losses # 0 => losses > 0
    BY <1>1, SMT DEF KInv, IInv, TypeOK
  <2>3. ASSUME NEW c \in retries PROVE Armed(c)
    <3>1. Ticking(c) /\ TimerTypeOK
      BY <1>1 DEF KInv, Clocked, IInv, TypeOK
    <3>2. \A t \in callbacks : t \in unfired \cup firing
      BY DEF LateHook
    <3>3. ASSUME NEW x \in arming, x.step = "inserted"
          PROVE  x.timer \in unfired \cup firing /\ [timer |-> x.timer, step |-> "inserted"] = x
      <4>1. x.timer \in unfired \cup firing
        BY <3>3 DEF LateHook
      <4> QED  BY <3>1, <3>3, <4>1, SMT DEF TimerTypeOK
    <3> QED  BY <3>1, <3>2, <3>3 DEF Ticking, Armed
  <2>4. ASSUME NEW x \in Rights(a) PROVE x[1] = "retrying" => Armed(x[2])
    <3>1. x \in Retrying(a) \/ x[1] # "retrying"
      BY Tags, SMT DEF Rights
    <3>2. x \in Retrying(a) => x[2] \in retries
      BY SMT DEF Retrying
    <3> QED  BY <2>3, <3>1, <3>2
  <2> QED  BY <2>1, <2>2, <2>4 DEF Settled, Completed
<1> QED  BY <1>1, KeptInvariance, PTL

-----------------------------------------------------------------------------
(* The moves of the rights are the steps of ActivityLife.                  *)

(* Nothing recorded of a is taken back.                                    *)
LEMMA RecordedStays ==
  ASSUME TypeOK, Next, NEW a \in Activity, NEW type
  PROVE  Recorded(a, type) \subseteq Recorded(a, type)'
<1>0. StoreTypeOK /\ a[1] \in Workflow
  BY ActivityPair DEF TypeOK
<1>1. ASSUME NEW w \in Workflow, NEW e \in Event, history' = [history EXCEPT ![w] = Append(@, e)]
      PROVE  Recorded(a, type) \subseteq Recorded(a, type)'
  <2>1. CASE a[1] = w
    <3>1. /\ DOMAIN history[w] \subseteq DOMAIN history'[w]
          /\ \A i \in DOMAIN history[w] : history'[w][i] = history[w][i]
      BY <1>0, <1>1, SMT DEF StoreTypeOK
    <3> QED  BY <2>1, <3>1 DEF Recorded
  <2>2. CASE a[1] # w
    <3>1. history'[a[1]] = history[a[1]]
      BY <1>0, <1>1, <2>2 DEF StoreTypeOK
    <3> QED  BY <3>1 DEF Recorded
  <2> QED  BY <2>1, <2>2
<1>2. CASE UNCHANGED history
  BY <1>2 DEF Recorded
<1>3. ASSUME NEW v \in Activity, ScheduleRecord(v)
      PROVE  UNCHANGED history \/ AppendEvent(v[1], EventOf("ActivityScheduled", v))
  BY <1>3 DEF ScheduleRecord
<1>4. \A v \in Activity : v[1] \in Workflow /\ EventOf("ActivityScheduled", v) \in Event
  BY Events, ActivityPair DEF EventType
<1> QED  BY <1>1, <1>2, <1>3, <1>4, Writes DEF TryAppendEvent, AppendEvent

(* One outcome more, or none.                                              *)
LEMMA OutcomesCount ==
  ASSUME NEW S, NEW T, NEW n, IsFiniteSet(S), S \subseteq T, T \subseteq S \cup {n}
  PROVE  \/ T = S
         \/ n \notin S /\ Cardinality(T) = Cardinality(S) + 1
<1>1. T = S \/ (n \notin S /\ T = S \cup {n})
  OBVIOUS
<1> QED  BY <1>1, JustOneMore

LEMMA Phases ==
  ASSUME NEW a
  PROVE  /\ schedPc[a] = "idle" => Phase(a) = "absent"
         /\ schedPc[a] # "idle" /\ Rights(a) # {} => Phase(a) = "due"
         /\ schedPc[a] # "idle" /\ Rights(a) = {} /\ Completed(a) # {} => Phase(a) = "completed"
         /\ schedPc[a] # "idle" /\ Rights(a) = {} /\ Completed(a) = {} => Phase(a) = "ended"
BY SMT DEF Phase, Completed

LEMMA PhasesNext ==
  ASSUME NEW a
  PROVE  /\ schedPc'[a] = "idle" => Phase(a)' = "absent"
         /\ schedPc'[a] # "idle" /\ Rights(a)' # {} => Phase(a)' = "due"
         /\ schedPc'[a] # "idle" /\ Rights(a)' = {} /\ Completed(a)' # {} => Phase(a)' = "completed"
         /\ schedPc'[a] # "idle" /\ Rights(a)' = {} /\ Completed(a)' = {} => Phase(a)' = "ended"
BY SMT DEF Phase, Completed

(* What ActivityLife asks of one activity: its phase goes from p to q and  *)
(* the number of its outcomes from m to n.                                 *)
LifeStep(p, q, m, n) ==
  \/ q = p /\ n = m
  \/ p = "absent" /\ q = "due" /\ n = m
  \/ p = "due" /\ q = "due" /\ n = m + 1 /\ n < MaximumAttempts
  \/ p = "due" /\ q \in {"completed", "ended"} /\ n = m + 1 /\ n <= MaximumAttempts
  \/ ~(faults' = 0 /\ crashes' = 0) /\ p \in {"absent", "due"} /\ q = "ended" /\ n = m

LEMMA PhaseStep ==
  ASSUME IInv, IInv', Next, NEW a \in Activity, Moves(a) \/ Born(a)
  PROVE  LifeStep(Phase(a), Phase(a)', Cardinality(Outcomes(a)), Cardinality(Outcomes(a))')
<1>0. TypeOK /\ Safe(a) /\ Safe(a)'
  BY DEF IInv
<1>1. Outcomes(a) \subseteq Outcomes(a)'
  BY <1>0, RecordedStays DEF Outcomes
<1>2. CASE Ages(a) /\ Keeps(a)
  BY <1>2, Phases, PhasesNext DEF Ages, Keeps, SameOutcomes, LifeStep
<1>3. CASE Ages(a) /\ Exchanges(a)
  BY <1>3, Phases, PhasesNext DEF Ages, Exchanges, SameOutcomes, LifeStep
<1>4. CASE Ages(a) /\ Drops(a)
  <2>1. Rights(a) # {} => Completed(a) = {} /\ schedPc[a] # "idle"
    BY <1>0 DEF Safe
  <2>2. CASE Rights(a)' # {} \/ Rights(a) = {}
    BY <1>4, <2>2, Phases, PhasesNext DEF Ages, Drops, SameOutcomes, LifeStep
  <2>3. CASE Rights(a)' = {} /\ Rights(a) # {}
    BY <1>4, <2>1, <2>3, Phases, PhasesNext DEF Ages, Drops, SameOutcomes, LifeStep
  <2> QED  BY <2>2, <2>3
<1>5. CASE Ages(a) /\ Retries(a)
  <2>1. PICK x, y, n : /\ x \in Rights(a) /\ Rights(a)' = (Rights(a) \ {x}) \cup {y}
                       /\ Outcomes(a)' \subseteq Outcomes(a) \cup {n}
    BY <1>5 DEF Retries
  <2>2. schedPc[a] # "idle" /\ schedPc'[a] # "idle"
    BY <1>0, <1>5, <2>1 DEF Safe, Ages
  <2>3. Phase(a) = "due" /\ Phase(a)' = "due"
    BY <2>1, <2>2, Phases, PhasesNext
  <2>4. Cardinality(Outcomes(a))' < MaximumAttempts
    BY <1>0, <2>1 DEF Safe, Fits
  <2>5. \/ Outcomes(a)' = Outcomes(a)
        \/ Cardinality(Outcomes(a))' = Cardinality(Outcomes(a)) + 1
    BY <1>0, <1>1, <2>1, OutcomesCount DEF Safe
  <2> QED  BY <2>3, <2>4, <2>5 DEF LifeStep
<1>6. CASE Ages(a) /\ Ends(a)
  <2>1. PICK x, n : /\ x \in Rights(a) /\ Rights(a)' = Rights(a) \ {x}
                    /\ Outcomes(a)' \subseteq Outcomes(a) \cup {n}
                    /\ Completed(a)' \subseteq Completed(a) \cup {n}
                    /\ faults' = 0 => Outcomes(a)' = Outcomes(a) \cup {n} /\ n \notin Outcomes(a)
    BY <1>6 DEF Ends
  <2>2. /\ schedPc[a] # "idle" /\ schedPc'[a] # "idle" /\ Rights(a)' = {} /\ Completed(a) = {}
        /\ Cardinality(Outcomes(a))' <= MaximumAttempts
    BY <1>0, <1>6, <2>1 DEF Safe, Ages
  <2>3. Phase(a) = "due" /\ Phase(a)' \in {"completed", "ended"}
    BY <2>1, <2>2, Phases, PhasesNext
  <2>4. CASE Cardinality(Outcomes(a))' = Cardinality(Outcomes(a)) + 1
    BY <2>2, <2>3, <2>4 DEF LifeStep
  <2>5. CASE Cardinality(Outcomes(a))' # Cardinality(Outcomes(a)) + 1
    <3>1. Outcomes(a)' = Outcomes(a)
      BY <1>0, <1>1, <2>1, <2>5, OutcomesCount DEF Safe
    <3>2. faults' # 0
      BY <2>1, <3>1
    <3>3. Completed(a)' = {}
      <4> SUFFICES ASSUME NEW i \in Completed(a)' PROVE FALSE
        OBVIOUS
      <4>1. i \in Recorded(a, "ActivityFailed")
        BY <2>2, <3>1 DEF Outcomes, Completed
      <4>2. i \in Recorded(a, "ActivityFailed")'
        BY <1>0, <4>1, RecordedStays
      <4>3. EventOf("ActivityFailed", a) = EventOf("ActivityCompleted", a)
        BY <4>2 DEF Completed, Recorded
      <4> QED  BY <4>3, SMT DEF EventOf, EvOf
    <3>4. Phase(a)' = "ended"
      BY <2>2, <3>3, PhasesNext
    <3> QED  BY <2>3, <3>1, <3>2, <3>4 DEF LifeStep
  <2> QED  BY <2>4, <2>5
<1>7. CASE Born(a)
  <2>1. Phase(a) = "absent" /\ Outcomes(a)' = Outcomes(a)
    BY <1>7, Phases DEF Born, SameOutcomes
  <2>2. Outcomes(a) = {} /\ Completed(a)' = {}
    BY <1>0, <1>7, <2>1 DEF Safe, Born, SameOutcomes, Completed, Outcomes
  <2>3. Phase(a)' = "due" \/ (faults' # 0 /\ Phase(a)' = "ended")
    BY <1>7, <2>2, PhasesNext DEF Born
  <2> QED  BY <2>1, <2>3 DEF LifeStep
<1> QED  BY <1>2, <1>3, <1>4, <1>5, <1>6, <1>7 DEF Moves

(* The handlers implement ActivityLife: for every retry policy, whatever   *)
(* is lost, reclaimed, reported late or crashes, an outcome is recorded    *)
(* only of an activity that is due, and one that is closed stays closed.   *)
THEOREM ActivityLifeImplemented == Spec => ImplementsLife
<1> DEFINE phases == [a \in Activity |-> Phase(a)]
           counts == [a \in Activity |-> Cardinality(Outcomes(a))]
<1>1. Init => Life!Init
  <2> SUFFICES ASSUME Init PROVE Life!Init
    OBVIOUS
  <2>1. faults = 0 /\ crashes = 0 /\ \A a \in Activity : schedPc[a] = "idle"
    BY DEF Init, StoreInit
  <2>2. \A a \in Activity : Phase(a) = "absent"
    BY <2>1, Phases
  <2>3. \A a \in Activity : Cardinality(Outcomes(a)) = 0
    BY <2>1, InitSafe, FS_EmptySet DEF IInv, Safe
  <2> QED  BY <2>1, <2>2, <2>3 DEF Life!Init
<1>2. IInv /\ [Next]_vars => [Life!Next]_<<phases, counts, ~(faults = 0 /\ crashes = 0)>>
  <2>1. ASSUME IInv, Next PROVE Life!Next
    <3>1. StepOK /\ IInv' /\ Counts /\ TypeOK
      BY <2>1, StepSafe, StepCounts, ScheduleSafe, PollSafe, WorkerSafe, TakeSafe, CompleteSafe,
         TimerSafe, CollectSafe, RequeueSafe, LossSafe, CrashSafe
         DEF Next, CompleteActivity, reclaimExpired, IInv
    <3>2. ASSUME NEW a \in Activity
          PROVE  \/ Life!Stay(a) \/ Life!Schedule(a) \/ Life!Retry(a) \/ Life!Settle(a)
                 \/ Life!Lose(a)
      <4>1. LifeStep(Phase(a), Phase(a)', Cardinality(Outcomes(a)), Cardinality(Outcomes(a))')
        BY <2>1, <3>1, PhaseStep DEF StepOK
      <4>2. phases[a] = Phase(a) /\ counts[a] = Cardinality(Outcomes(a))
        OBVIOUS
      <4>3. phases'[a] = Phase(a)' /\ counts'[a] = Cardinality(Outcomes(a))'
        OBVIOUS
      <4> QED  BY <4>1, <4>2, <4>3
                  DEF LifeStep, Life!Stay, Life!Schedule, Life!Retry, Life!Settle, Life!Lose
    <3> QED  BY <3>1, <3>2 DEF Counts, Life!Next
  <2>2. ASSUME UNCHANGED vars PROVE UNCHANGED <<phases, counts, ~(faults = 0 /\ crashes = 0)>>
    <3>1. UNCHANGED <<history, stream, schedPc, completing, requeueing, pendingActTasks, retries,
                      faults, crashes>>
      BY <2>2 DEF vars, storeVars, queueVars, callVars
    <3>2. ASSUME NEW a \in Activity PROVE Phase(a)' = Phase(a) /\ Outcomes(a)' = Outcomes(a)
      <4>1. Rights(a)' = Rights(a) /\ SameOutcomes(a)
        BY <3>1, Parts, OutcomesSame DEF Rights
      <4> QED  BY <3>1, <4>1, Phases, PhasesNext DEF SameOutcomes
    <3> QED  BY <3>1, <3>2
  <2> QED  BY <2>1, <2>2
<1> QED  BY <1>1, <1>2, Invariance, PTL DEF Spec, ImplementsLife, Life!Spec
=============================================================================
