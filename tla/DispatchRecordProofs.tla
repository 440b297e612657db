------------------------ MODULE DispatchRecordProofs ------------------------
(***************************************************************************)
(* WorkflowDispatch implements WorkflowLife, and its books agree with each *)
(* other: the commands a run has passed and the history, the outcome and   *)
(* the row, the activities recorded and the activity queue, the token      *)
(* table and the pending-entries list.                                     *)
(***************************************************************************)
EXTENDS WorkflowDispatchProofs

(* A leaf goes to Zenon unless it names another prover.                    *)
USE Zenon

-----------------------------------------------------------------------------
(* The moves of the rights are the steps of WorkflowLife.                  *)

LEMMA Phases ==
  ASSUME NEW w
  PROVE  /\ status[w] = "none" => Phase(w) = "absent"
         /\ status[w] # "none" /\ Finishes(w) # {} => Phase(w) = "finished"
         /\ status[w] # "none" /\ Finishes(w) = {} /\ Rights(w) # {} => Phase(w) = "open"
         /\ status[w] # "none" /\ Finishes(w) = {} /\ Rights(w) = {} => Phase(w) = "stranded"
BY SMT DEF Phase

LEMMA PhasesNext ==
  ASSUME NEW w
  PROVE  /\ status'[w] = "none" => Phase(w)' = "absent"
         /\ status'[w] # "none" /\ Finishes(w)' # {} => Phase(w)' = "finished"
         /\ status'[w] # "none" /\ Finishes(w)' = {} /\ Rights(w)' # {} => Phase(w)' = "open"
         /\ status'[w] # "none" /\ Finishes(w)' = {} /\ Rights(w)' = {} => Phase(w)' = "stranded"
BY SMT DEF Phase

LEMMA PhaseStep ==
  ASSUME NEW w \in Workflow, Safe(w), Moves(w) \/ Born(w)
  PROVE  \/ Phase(w)' = Phase(w)
         \/ Phase(w) = "absent" /\ Phase(w)' = "open"
         \/ Phase(w) = "open" /\ Phase(w)' = "finished"
         \/ ~(faults' = 0 /\ crashes' = 0) /\ Phase(w) = "open" /\ Phase(w)' = "stranded"
<1>1. CASE Ages(w) /\ Keeps(w)
  BY <1>1, Phases, PhasesNext DEF Ages, Keeps
<1>2. CASE Ages(w) /\ Exchanges(w)
  BY <1>2, Phases, PhasesNext DEF Ages, Exchanges
<1>3. CASE Ages(w) /\ Drops(w)
  BY <1>3, Phases, PhasesNext DEF Ages, Drops
<1>4. CASE Ages(w) /\ Ends(w)
  BY <1>4, Phases, PhasesNext DEF Safe, Ages, Ends
<1>5. CASE Born(w)
  BY <1>5, Phases, PhasesNext DEF Safe, Born
<1> QED  BY <1>1, <1>2, <1>3, <1>4, <1>5 DEF Moves

(* Workflow dispatch implements WorkflowLife: whatever the handlers,       *)
(* workers, timers, failures and crashes do, a workflow is created once,   *)
(* leaves the open state once, strands only after a failing call or a      *)
(* crash, and is neither reopened nor revived.                             *)
THEOREM LifeImplemented == Spec => ImplementsLife
<1>1. Init => Life!Init
  <2> SUFFICES ASSUME Init PROVE Life!Init
    OBVIOUS
  <2>1. faults = 0 /\ crashes = 0
    BY DEF Init, StoreInit
  <2>2. \A w \in Workflow : status[w] = "none"
    BY DEF Init, StoreInit
  <2>3. [w \in Workflow |-> Phase(w)] = [w \in Workflow |-> "absent"]
    BY <2>2, Phases
  <2> QED  BY <2>1, <2>3 DEF Life!Init
<1>2. IInv /\ [Next]_vars =>
        [Life!Next]_<<[w \in Workflow |-> Phase(w)], ~(faults = 0 /\ crashes = 0)>>
  <2>1. ASSUME IInv, Next PROVE Life!Next
    <3>1. StepOK
      BY <2>1, NextMoves
    <3>2. ASSUME NEW w \in Workflow
          PROVE  Phase(w)' = Phase(w) \/ Life!Start(w) \/ Life!Finish(w) \/ Life!Strand(w)
      BY <2>1, <3>1, PhaseStep DEF IInv, StepOK, Life!Start, Life!Finish, Life!Strand
    <3> QED  BY <3>1, <3>2 DEF StepOK, Clock, Life!Next
  <2>2. ASSUME UNCHANGED vars
        PROVE  UNCHANGED <<[w \in Workflow |-> Phase(w)], ~(faults = 0 /\ crashes = 0)>>
    <3>1. UNCHANGED <<status, history, faults, stream, pendingWfTasks, awaiting, startPc,
                      signalPc, completing, requeueing, goroutines, crashes>>
      BY <2>2 DEF vars, storeVars, queueVars, timerVars, memVars, callVars, envVars
    <3>2. ASSUME NEW w \in Workflow PROVE Phase(w)' = Phase(w)
      <4>1. Rights(w)' = Rights(w) /\ Finishes(w)' = Finishes(w)
        BY <3>1, Parts, FinishSame DEF Rights
      <4> QED  BY <3>1, <4>1, Phases, PhasesNext
    <3> QED  BY <3>1, <3>2
  <2> QED  BY <2>1, <2>2
<1> QED  BY <1>1, <1>2, SafetyInvariant, PTL DEF Spec, ImplementsLife, Life!Spec

-----------------------------------------------------------------------------
(* The positions of the events of one type.                                *)

LEMMA RecordedFinite ==
  ASSUME TypeOK, NEW w \in Workflow, NEW type
  PROVE  IsFiniteSet(Recorded(w, type)) /\ Recorded(w, type) \subseteq 1 .. Len(history[w])
         /\ Len(history[w]) \in Nat
<1>1. history[w] \in Seq(Event)
  BY DEF TypeOK, StoreTypeOK
<1>2. Len(history[w]) \in Nat /\ DOMAIN history[w] = 1 .. Len(history[w])
  BY <1>1, SMT
<1>3. IsFiniteSet(1 .. Len(history[w]))
  BY <1>2, FS_Interval, SMT
<1>4. Recorded(w, type) \subseteq 1 .. Len(history[w])
  BY <1>2 DEF Recorded
<1> QED  BY <1>2, <1>3, <1>4, FS_Subset

LEMMA RecordedGrows ==
  ASSUME TypeOK, HistoryStep, NEW w \in Workflow, NEW type
  PROVE  Recorded(w, type) \subseteq Recorded(w, type)'
BY StepGrows DEF Grows, Recorded

-----------------------------------------------------------------------------
(* Replay: what a run has passed is backed by events.                      *)

(* The event a command needs to pass.                                      *)
Backing == [signal |-> "SignalReceived", sleep |-> "TimerFired", activity |-> "ActivityScheduled"]

(* The events that can stand for them: left behind by the cursor, or       *)
(* younger than the history the run was given.                             *)
Backs(r, cmd) == {i \in Recorded(r.wf, Backing[cmd]) : i < r.cursor \/ i > r.seen}

Backed(r) ==
  /\ r.seen <= Len(history[r.wf])
  /\ r.cursor \in 1 .. r.seen + 1
  /\ \A cmd \in Cmd : Cardinality(Done(r, cmd)) <= Cardinality(Backs(r, cmd))

BackedInv == faults = 0 /\ crashes = 0 => \A r \in running : Backed(r)

LEMMA DoneFinite ==
  ASSUME NEW r, NEW cmd
  PROVE  IsFiniteSet(Done(r, cmd))
<1>1. Len(Program) \in Nat /\ DOMAIN Program = 1 .. Len(Program)
  BY DispatchAssumption, SMT
<1>2. IsFiniteSet(1 .. Len(Program))
  BY <1>1, FS_Interval, SMT
<1> QED  BY <1>1, <1>2, FS_Subset DEF Done

LEMMA BacksFinite ==
  ASSUME TypeOK, HistoryStep, NEW r \in Run, NEW cmd
  PROVE  IsFiniteSet(Backs(r, cmd)')
<1>1. r.wf \in Workflow
  BY DEF Run
<1>2. DOMAIN history'[r.wf] = 1 .. Len(history'[r.wf]) /\ Len(history'[r.wf]) \in Nat
  BY <1>1, StepGrows DEF Grows
<1>3. IsFiniteSet(1 .. Len(history'[r.wf]))
  BY <1>2, FS_Interval, SMT
<1> QED  BY <1>2, <1>3, FS_Subset DEF Backs, Recorded

(* A run that moves neither its cursor nor its command counter stays       *)
(* backed while histories grow.                                            *)
LEMMA BackedKept ==
  ASSUME TypeOK, HistoryStep, NEW r \in Run, NEW q \in Run, Backed(r),
         q.wf = r.wf, q.seen = r.seen, q.cursor = r.cursor,
         \A cmd \in Cmd : Done(q, cmd) \subseteq Done(r, cmd)
  PROVE  Backed(q)'
<1>1. r.wf \in Workflow /\ r.seen \in Nat /\ r.cursor \in Nat
  BY DEF Run
<1>2. q.seen <= Len(history'[q.wf])
  BY <1>1, StepGrows, SMT DEF Backed, Grows
<1>3. ASSUME NEW cmd \in Cmd PROVE Cardinality(Done(q, cmd)) <= Cardinality(Backs(q, cmd)')
  <2>1. Backs(r, cmd) \subseteq Backs(q, cmd)'
    BY <1>1, RecordedGrows DEF Backs
  <2>2. IsFiniteSet(Backs(q, cmd)')
    BY BacksFinite
  <2> QED  BY <1>3, <2>1, <2>2, DoneFinite, NoMore DEF Backed
<1> QED  BY <1>2, <1>3 DEF Backed, Done

(* A run that passes its command on an event it had not used.              *)
LEMMA BackedPass ==
  ASSUME TypeOK, HistoryStep, NEW r \in Run, NEW q \in Run, Backed(r),
         r.k \in DOMAIN Program, NEW n,
         n \in Recorded(r.wf, Backing[Program[r.k]])', n \notin Backs(r, Program[r.k]),
         q.wf = r.wf, q.seen = r.seen, r.cursor <= q.cursor, q.cursor <= r.seen + 1,
         n < q.cursor \/ n > q.seen,
         \A cmd \in Cmd : Done(q, cmd) \subseteq Done(r, cmd) \cup (IF Program[r.k] = cmd THEN {r.k} ELSE {})
  PROVE  Backed(q)'
<1>1. r.wf \in Workflow /\ r.seen \in Nat /\ r.cursor \in Nat /\ q.cursor \in Nat
  BY DEF Run
<1>2. q.seen <= Len(history'[q.wf])
  BY <1>1, StepGrows, SMT DEF Backed, Grows
<1>3. q.cursor \in 1 .. q.seen + 1
  BY <1>1, SMT DEF Backed
<1>4. ASSUME NEW cmd \in Cmd PROVE Cardinality(Done(q, cmd)) <= Cardinality(Backs(q, cmd)')
  <2>1. Backs(r, cmd) \subseteq Backs(q, cmd)'
    <3>1. \A i \in Recorded(r.wf, Backing[cmd]) : i < r.cursor => i < q.cursor
      <4>1. Recorded(r.wf, Backing[cmd]) \subseteq 1 .. Len(history[r.wf]) /\ Len(history[r.wf]) \in Nat
        BY <1>1, RecordedFinite
      <4> QED  BY <1>1, <4>1, SMT
    <3> QED  BY <1>1, <3>1, RecordedGrows DEF Backs
  <2>2. IsFiniteSet(Backs(q, cmd)')
    BY BacksFinite
  <2>3. CASE Program[r.k] = cmd
    <3>1. n \in Backs(q, cmd)'
      BY <2>3 DEF Backs
    <3>2. Done(q, cmd) \subseteq Done(r, cmd) \cup {r.k}
      BY <2>3
    <3>3. Cardinality(Done(r, cmd)) <= Cardinality(Backs(r, cmd))
      BY DEF Backed
    <3>4. Backs(r, cmd) \cup {n} \subseteq Backs(q, cmd)' /\ n \notin Backs(r, cmd)
      BY <2>1, <2>3, <3>1
    <3>5. IsFiniteSet(Done(r, cmd))
      BY DoneFinite
    <3> QED  BY <2>2, <3>2, <3>3, <3>4, <3>5, OneMore
  <2>4. CASE Program[r.k] # cmd
    <3>1. Done(q, cmd) \subseteq Done(r, cmd)
      BY <2>4
    <3> QED  BY <2>1, <2>2, <3>1, DoneFinite, NoMore DEF Backed
  <2> QED  BY <2>3, <2>4
<1> QED  BY <1>2, <1>3, <1>4 DEF Backed, Done

(* What the scans of replay find.                                          *)
LEMMA FirstHit ==
  ASSUME NEW S \in SUBSET Nat, First(S) # 0
  PROVE  First(S) \in S
BY MinNat DEF First

(* A hit lies between the cursor and the end of the snapshot.              *)
LEMMA FindHit ==
  ASSUME TypeOK, NEW r \in Run, Backed(r)
  PROVE  /\ LET n == findSignalReceived(Snapshot(r), r.cursor)
            IN  n # 0 => n \in r.cursor .. r.seen /\ n \in Recorded(r.wf, "SignalReceived")
         /\ \A a : LET n == findActivityScheduled(Snapshot(r), r.cursor, a)
            IN  n # 0 => n \in r.cursor .. r.seen /\ n \in Recorded(r.wf, "ActivityScheduled")
         /\ LET n == findTimerScheduled(Snapshot(r), r.cursor)
            IN  n # 0 => n \in r.cursor .. r.seen /\ n \in Recorded(r.wf, "TimerScheduled")
         /\ \A id, m : m \in r.cursor .. r.seen =>
              LET n == findTimerFired(Snapshot(r), id, m)
              IN  n # 0 => n \in r.cursor .. r.seen /\ n \in Recorded(r.wf, "TimerFired")
<1>1. r.seen \in Nat /\ r.cursor \in Nat /\ r.cursor >= 1
  BY SMT DEF Run, Backed
<1>2. /\ Len(Snapshot(r)) = r.seen
      /\ \A i \in 1 .. r.seen : Snapshot(r)[i] = history[r.wf][i] /\ i \in DOMAIN history[r.wf]
  BY SnapshotIs DEF Backed
<1>3. \A i \in r.cursor .. r.seen : i \in 1 .. r.seen /\ i \in Nat
  BY <1>1, SMT
<1>4. \A type : \A i \in r.cursor .. r.seen : Snapshot(r)[i].type = type => i \in Recorded(r.wf, type)
  BY <1>2, <1>3 DEF Recorded
<1>5. ASSUME NEW type, NEW S \in SUBSET {i \in r.cursor .. r.seen : Snapshot(r)[i].type = type}, First(S) # 0
      PROVE  First(S) \in r.cursor .. r.seen /\ First(S) \in Recorded(r.wf, type)
  <2>1. S \in SUBSET Nat
    BY <1>3
  <2>2. First(S) \in S
    BY <1>5, <2>1, FirstHit
  <2> QED  BY <1>4, <2>2
<1>6. LET n == findSignalReceived(Snapshot(r), r.cursor)
      IN  n # 0 => n \in r.cursor .. r.seen /\ n \in Recorded(r.wf, "SignalReceived")
  BY <1>2, <1>5 DEF findSignalReceived
<1>7. LET n == findTimerScheduled(Snapshot(r), r.cursor)
      IN  n # 0 => n \in r.cursor .. r.seen /\ n \in Recorded(r.wf, "TimerScheduled")
  BY <1>2, <1>5 DEF findTimerScheduled
<1>8. ASSUME NEW a, findActivityScheduled(Snapshot(r), r.cursor, a) # 0
      PROVE  /\ findActivityScheduled(Snapshot(r), r.cursor, a) \in r.cursor .. r.seen
             /\ findActivityScheduled(Snapshot(r), r.cursor, a) \in Recorded(r.wf, "ActivityScheduled")
  BY <1>2, <1>5, <1>8 DEF findActivityScheduled
<1>9. ASSUME NEW id, NEW m \in r.cursor .. r.seen, findTimerFired(Snapshot(r), id, m) # 0
      PROVE  /\ findTimerFired(Snapshot(r), id, m) \in r.cursor .. r.seen
             /\ findTimerFired(Snapshot(r), id, m) \in Recorded(r.wf, "TimerFired")
  <2>1. \A i \in m + 1 .. r.seen : i \in r.cursor .. r.seen
    BY <1>1, SMT
  <2> QED  BY <1>2, <1>5, <1>9, <2>1 DEF findTimerFired
<1> QED  BY <1>6, <1>7, <1>8, <1>9

LEMMA DonePass ==
  ASSUME NEW r \in Run, NEW q \in Run, q.k = r.k + 1, ~q.sched, NEW cmd
  PROVE  /\ r.sched => Done(q, cmd) \subseteq Done(r, cmd)
         /\ Done(q, cmd) \subseteq Done(r, cmd) \cup (IF Program[r.k] = cmd THEN {r.k} ELSE {})
<1>1. r.k \in Nat
  BY DEF Run
<1>2. \A i \in DOMAIN Program : i \in Nat
  BY DispatchAssumption, SMT
<1>3. \A i \in DOMAIN Program : i < q.k => i < r.k \/ i = r.k
  BY <1>1, <1>2, SMT
<1> QED  BY <1>3 DEF Done

LEMMA MatchPass ==
  ASSUME TypeOK, UNCHANGED history, NEW r \in Run, Backed(r), ~r.sched, r.k \in DOMAIN Program,
         NEW n \in r.cursor .. r.seen, n \in Recorded(r.wf, Backing[Program[r.k]])
  PROVE  Backed([r EXCEPT !.k = @ + 1, !.cursor = advance(@, n)])'
<1>1. r.seen \in Nat /\ r.cursor \in Nat /\ r.wf \in Workflow
  BY DEF Run
<1>2. advance(r.cursor, n) = n + 1 /\ n + 1 \in Nat
  BY <1>1, SMT DEF advance
<1>3. PICK q : q = [r EXCEPT !.k = @ + 1, !.cursor = advance(@, n)]
  BY SMT
<1>4. q \in Run /\ q.k = r.k + 1 /\ q.cursor = n + 1 /\ q.wf = r.wf /\ q.seen = r.seen /\ ~q.sched
  <2>1. q \in Run
    BY <1>2, <1>3, RunType DEF Outcome
  <2>2. q.k = r.k + 1 /\ q.cursor = n + 1 /\ q.wf = r.wf /\ q.seen = r.seen /\ ~q.sched
    BY <1>2, <1>3, SMT DEF Run
  <2> QED  BY <2>1, <2>2
<1>5. HistoryStep
  BY DEF HistoryStep
<1>6. n \in Recorded(r.wf, Backing[Program[r.k]])'
  BY <1>1, <1>5, RecordedGrows
<1>7. n \notin Backs(r, Program[r.k])
  BY <1>1, SMT DEF Backs
<1>8. r.cursor <= q.cursor /\ q.cursor <= r.seen + 1 /\ n < q.cursor
  BY <1>1, <1>4, SMT
<1>9. \A cmd \in Cmd : Done(q, cmd) \subseteq Done(r, cmd) \cup (IF Program[r.k] = cmd THEN {r.k} ELSE {})
  BY <1>4, DonePass
<1>10. Backed(q)'
  BY <1>4, <1>5, <1>6, <1>7, <1>8, <1>9, BackedPass
<1> QED  BY <1>3, <1>10

LEMMA RunsKept ==
  ASSUME TypeOK, HistoryStep, NEW r \in running, Backed(r)
  PROVE  Backed(r)'
<1>1. r \in Run
  BY DEF TypeOK
<1> QED  BY <1>1, BackedKept

LEMMA WorkerBacked ==
  ASSUME TypeOK, HistoryStep, \A r \in running : Backed(r), NEW r \in running, Worker(r), ~Fault
  PROVE  \A q \in running' : Backed(q)'
<1>0. /\ r \in Run /\ r.wf \in Workflow /\ Backed(r) /\ r.seen \in Nat /\ r.cursor \in Nat
      /\ r.k \in Nat
  BY DEF TypeOK, Run
<1>1. ASSUME NEW z, Becomes(r, z), Backed(z)'
      PROVE  \A q \in running' : Backed(q)'
  BY <1>1, RunsKept DEF Becomes
<1>2. /\ Backing["signal"] = "SignalReceived" /\ Backing["sleep"] = "TimerFired"
      /\ Backing["activity"] = "ActivityScheduled"
  BY SMT DEF Backing
<1>3. \A out \in Outcome : Backed([r EXCEPT !.out = out])'
  <2> SUFFICES ASSUME NEW out \in Outcome PROVE Backed([r EXCEPT !.out = out])'
    OBVIOUS
  <2>1. PICK q : q = [r EXCEPT !.out = out]
    OBVIOUS
  <2>2. q \in Run
    BY <1>0, <2>1, RunType
  <2>3. q.wf = r.wf /\ q.seen = r.seen /\ q.cursor = r.cursor /\ q.k = r.k /\ q.sched = r.sched
    BY <1>0, <2>1, SMT DEF Run
  <2>4. \A cmd \in Cmd : Done(q, cmd) \subseteq Done(r, cmd)
    BY <2>3 DEF Done
  <2>5. Backed(q)'
    BY <1>0, <2>2, <2>3, <2>4, BackedKept
  <2> QED  BY <2>1, <2>5
<1>4. CASE WaitForSignal(r)
  <2>1. PICK n : n = findSignalReceived(Snapshot(r), r.cursor)
    BY SMT
  <2>2. CASE n # 0
    <3>1. n \in r.cursor .. r.seen /\ n \in Recorded(r.wf, "SignalReceived")
      BY <1>0, <2>1, <2>2, FindHit
    <3>2. Backed([r EXCEPT !.k = @ + 1, !.cursor = advance(@, n)])'
      BY <1>0, <1>2, <1>4, <3>1, MatchPass DEF WaitForSignal, AtCommand, storeVars
    <3> QED  BY <1>1, <1>4, <2>1, <2>2, <3>2 DEF WaitForSignal
  <2>3. CASE n = 0
    BY <1>1, <1>3, <1>4, <2>1, <2>3 DEF WaitForSignal, Outcome
  <2> QED  BY <2>2, <2>3
<1>5. CASE SleepReplayed(r)
  <2>1. PICK m, n : /\ m = findTimerScheduled(Snapshot(r), r.cursor)
                    /\ n = findTimerFired(Snapshot(r), Snapshot(r)[m].ref, m)
    BY SMT
  <2>2. m # 0
    BY <1>5, <2>1 DEF SleepReplayed
  <2>3. m \in r.cursor .. r.seen
    BY <1>0, <2>1, <2>2, FindHit
  <2>4. CASE n # 0
    <3>1. n \in r.cursor .. r.seen /\ n \in Recorded(r.wf, "TimerFired")
      BY <1>0, <2>1, <2>3, <2>4, FindHit
    <3>2. Backed([r EXCEPT !.k = @ + 1, !.cursor = advance(@, n)])'
      BY <1>0, <1>2, <1>5, <3>1, MatchPass DEF SleepReplayed, AtCommand, storeVars
    <3> QED  BY <1>1, <1>5, <2>1, <2>4, <3>2 DEF SleepReplayed
  <2>5. CASE n = 0
    BY <1>1, <1>3, <1>5, <2>1, <2>5 DEF SleepReplayed, Outcome
  <2> QED  BY <2>4, <2>5
<1>6. CASE SleepFresh(r)
  <2>1. PICK q : q = [r EXCEPT !.timer = nextTimer]
    OBVIOUS
  <2>2. q \in Run
    BY <1>0, <2>1, RunType DEF Outcome, TypeOK, TimerTypeOK
  <2>3. q.wf = r.wf /\ q.seen = r.seen /\ q.cursor = r.cursor /\ q.k = r.k /\ q.sched = r.sched
    BY <1>0, <2>1, SMT DEF Run
  <2>4. \A cmd \in Cmd : Done(q, cmd) \subseteq Done(r, cmd)
    BY <2>3 DEF Done
  <2>5. Backed(q)'
    BY <1>0, <2>2, <2>3, <2>4, BackedKept
  <2> QED  BY <1>1, <1>6, <2>1, <2>5 DEF SleepFresh
<1>7. CASE QueueActivityReplayed(r)
  <2>1. PICK n : n = findActivityScheduled(Snapshot(r), r.cursor, ActivityName)
    BY SMT
  <2>2. n # 0
    BY <1>7, <2>1 DEF QueueActivityReplayed
  <2>3. n \in r.cursor .. r.seen /\ n \in Recorded(r.wf, "ActivityScheduled")
    BY <1>0, <2>1, <2>2, FindHit
  <2>4. Backed([r EXCEPT !.k = @ + 1, !.cursor = advance(@, n)])'
    BY <1>0, <1>2, <1>7, <2>3, MatchPass DEF QueueActivityReplayed, AtCommand, storeVars
  <2> QED  BY <1>1, <1>7, <2>1, <2>4 DEF QueueActivityReplayed
<1>8. CASE ScheduleActivityRecord(r)
  <2>1. PICK q : q = [r EXCEPT !.sched = TRUE]
    OBVIOUS
  <2>2. q \in Run
    BY <1>0, <2>1, RunType DEF Outcome
  <2>3. q.wf = r.wf /\ q.seen = r.seen /\ q.cursor = r.cursor /\ q.k = r.k
    BY <1>0, <2>1, SMT DEF Run
  <2>4. r.k \in DOMAIN Program /\ Program[r.k] = "activity"
    BY <1>8 DEF ScheduleActivityRecord, AtCommand
  <2>5. history' = [history EXCEPT ![r.wf] = Append(@, EvOf("ActivityScheduled", ActivityName))]
    BY <1>8 DEF ScheduleActivityRecord, AppendEvent
  <2>6. history[r.wf] \in Seq(Event) /\ history \in [Workflow -> Seq(Event)]
    BY <1>0 DEF TypeOK, StoreTypeOK
  <2>7. PICK n : n = Len(history[r.wf]) + 1
    BY SMT
  <2>8. n \in Recorded(r.wf, "ActivityScheduled")'
    <3>1. history'[r.wf] = Append(history[r.wf], EvOf("ActivityScheduled", ActivityName))
      BY <1>0, <2>5, <2>6
    <3>2. n \in DOMAIN history'[r.wf] /\ history'[r.wf][n] = EvOf("ActivityScheduled", ActivityName)
      BY <2>6, <2>7, <3>1, SMT
    <3>3. EvOf("ActivityScheduled", ActivityName).type = "ActivityScheduled"
      BY SMT DEF EvOf
    <3> QED  BY <3>2, <3>3 DEF Recorded
  <2>9. n \notin Recorded(r.wf, "ActivityScheduled") /\ n > q.seen /\ r.cursor <= q.cursor
        /\ q.cursor <= r.seen + 1
    BY <1>0, <2>3, <2>6, <2>7, SMT DEF Recorded, Backed
  <2>10. \A cmd \in Cmd : Done(q, cmd) \subseteq Done(r, cmd) \cup (IF Program[r.k] = cmd THEN {r.k} ELSE {})
    BY <2>3 DEF Done
  <2>11. n \notin Backs(r, Program[r.k]) /\ n \in Recorded(r.wf, Backing[Program[r.k]])'
    BY <1>2, <2>4, <2>8, <2>9 DEF Backs
  <2>12. Backed(q)'
    BY <1>0, <2>2, <2>3, <2>4, <2>9, <2>10, <2>11, BackedPass
  <2> QED  BY <1>1, <1>8, <2>1, <2>12 DEF ScheduleActivityRecord
<1>9. CASE ScheduleActivityEnqueue(r)
  <2>1. PICK q : q = [r EXCEPT !.k = @ + 1, !.sched = FALSE]
    BY SMT
  <2>2. q \in Run
    BY <1>0, <2>1, RunType DEF Outcome
  <2>3. q.wf = r.wf /\ q.seen = r.seen /\ q.cursor = r.cursor /\ q.k = r.k + 1 /\ ~q.sched
    BY <1>0, <2>1, SMT DEF Run
  <2>4. \A cmd \in Cmd : Done(q, cmd) \subseteq Done(r, cmd)
    BY <1>0, <1>9, <2>2, <2>3, DonePass DEF ScheduleActivityEnqueue
  <2>5. Backed(q)'
    BY <1>0, <2>2, <2>3, <2>4, BackedKept
  <2> QED  BY <1>1, <1>9, <2>1, <2>5 DEF ScheduleActivityEnqueue
<1>10. CASE FunctionReturns(r)
  BY <1>1, <1>3, <1>10 DEF FunctionReturns, Outcome
<1> QED  BY <1>4, <1>5, <1>6, <1>7, <1>8, <1>9, <1>10 DEF Worker

LEMMA RespondBacked ==
  ASSUME TypeOK, HistoryStep, \A r \in running : Backed(r), NEW e \in polls, PollRespond(e), ~Fault
  PROVE  \A q \in running' : Backed(q)'
<1>0. e.body.wf \in Workflow /\ e.id \in Nat /\ history[e.body.wf] \in Seq(Event)
  BY DEF TypeOK, StoreTypeOK, Entry, Envelope
<1>1. PICK q : q = [id |-> e.id, wf |-> e.body.wf, seen |-> Len(history[e.body.wf]), k |-> 1,
                    cursor |-> 1, timer |-> 0, sched |-> FALSE, out |-> "none"]
  OBVIOUS
<1>2. running' = running \cup {q}
  BY <1>1 DEF PollRespond
<1>3. /\ q.wf = e.body.wf /\ q.seen = Len(history[e.body.wf]) /\ q.k = 1 /\ q.cursor = 1 /\ ~q.sched
  BY <1>1
<1>4. q \in Run
  <2>1. Len(history[e.body.wf]) \in Nat
    BY <1>0, SMT
  <2> QED  BY <1>0, <1>1, <2>1 DEF Run
<1>5. \A cmd : Done(q, cmd) = {}
  <2>1. \A i \in DOMAIN Program : ~(i < 1)
    BY DispatchAssumption, SMT
  <2> QED  BY <1>3, <2>1 DEF Done
<1>6. \A cmd \in Cmd : Cardinality(Done(q, cmd)) <= Cardinality(Backs(q, cmd)')
  <2> SUFFICES ASSUME NEW cmd \in Cmd PROVE Cardinality(Done(q, cmd)) <= Cardinality(Backs(q, cmd)')
    OBVIOUS
  <2>1. Cardinality(Done(q, cmd)) = 0
    BY <1>5, FS_EmptySet
  <2>2. Cardinality(Backs(q, cmd)') \in Nat
    BY <1>4, BacksFinite, FS_CardinalityType
  <2> QED  BY <2>1, <2>2, SMT
<1>7. history' = history
  BY DEF PollRespond
<1>8. q.seen <= Len(history'[q.wf]) /\ q.cursor \in 1 .. q.seen + 1
  BY <1>0, <1>3, <1>7, SMT
<1>9. Backed(q)'
  BY <1>6, <1>8 DEF Backed, Done
<1> QED  BY <1>2, <1>9, RunsKept

LEMMA ScheduledBacked ==
  ASSUME TypeOK, HistoryStep, \A r \in running : Backed(r), NEW t, TimerScheduled(t)
  PROVE  \A q \in running' : Backed(q)'
<1> SUFFICES ASSUME NEW r \in running PROVE Backed([r EXCEPT !.timer = 0, !.out = "yield"])'
  BY RunsKept DEF TimerScheduled
<1>1. r \in Run
  BY DEF TypeOK
<1>2. PICK q : q = [r EXCEPT !.timer = 0, !.out = "yield"]
  OBVIOUS
<1>3. q \in Run
  BY <1>1, <1>2, RunType DEF Outcome
<1>4. q.wf = r.wf /\ q.seen = r.seen /\ q.cursor = r.cursor /\ q.k = r.k /\ q.sched = r.sched
  BY <1>1, <1>2, SMT DEF Run
<1>5. \A cmd \in Cmd : Done(q, cmd) \subseteq Done(r, cmd)
  BY <1>4 DEF Done
<1>6. Backed(q)'
  BY <1>1, <1>3, <1>4, <1>5, BackedKept
<1> QED  BY <1>2, <1>6

LEMMA NextAlive ==
  ASSUME TypeOK, faults' = 0, crashes' = 0
  PROVE  ~Fault /\ ~EngineCrash
<1>1. /\ faults \in 0 .. MaxFaults /\ (Fault => faults' = faults + 1)
      /\ crashes \in 0 .. MaxCrashes /\ (EngineCrash => crashes' = crashes + 1)
  BY DEF TypeOK, StoreTypeOK, Fault, EngineCrash
<1> QED  BY <1>1, SMT

LEMMA NextBacked ==
  ASSUME IInv, BackedInv, Next
  PROVE  BackedInv'
<1> SUFFICES ASSUME faults' = 0, crashes' = 0 PROVE \A q \in running' : Backed(q)'
  BY DEF BackedInv
<1>1. TypeOK /\ HistoryStep
  BY NextHistory DEF IInv
<1>2. \A r \in running : Backed(r)
  BY NextMoves DEF BackedInv, StepOK, Clock
<1>3. ~Fault /\ ~EngineCrash
  BY <1>1, NextAlive
<1>4. CASE running' \subseteq running
  BY <1>1, <1>2, <1>4, RunsKept
<1>5. ASSUME NEW r, CompleteTake(r) \/ WorkerDies(r) \/ PollDequeue(r) PROVE running' \subseteq running
  BY <1>5 DEF CompleteTake, WorkerDies, PollDequeue, envVars
<1> QED  BY <1>1, <1>2, <1>3, <1>4, <1>5, NextRuns, WorkerBacked, RespondBacked, ScheduledBacked DEF RunsSame

LEMMA BackedEnough ==
  ASSUME TypeOK, BackedInv
  PROVE  CommandsBacked
<1> SUFFICES ASSUME faults = 0, crashes = 0, NEW r \in running, NEW cmd \in Cmd
             PROVE  Cardinality(Passed(r, cmd)) <= Cardinality(Recorded(r.wf, Backing[cmd]))
  <2>1. /\ Backing["signal"] = "SignalReceived" /\ Backing["sleep"] = "TimerFired"
        /\ Backing["activity"] = "ActivityScheduled"
    BY SMT DEF Backing
  <2> QED  BY <2>1 DEF CommandsBacked, Cmd
<1>1. r.wf \in Workflow
  BY DEF TypeOK, Run
<1>2. Passed(r, cmd) \subseteq Done(r, cmd) /\ Backs(r, cmd) \subseteq Recorded(r.wf, Backing[cmd])
  BY DEF Passed, Done, Backs
<1>3. Cardinality(Done(r, cmd)) <= Cardinality(Backs(r, cmd))
  BY DEF BackedInv, Backed
<1>4. IsFiniteSet(Done(r, cmd)) /\ IsFiniteSet(Recorded(r.wf, Backing[cmd]))
  BY <1>1, DoneFinite, RecordedFinite
<1>5. IsFiniteSet(Passed(r, cmd)) /\ IsFiniteSet(Backs(r, cmd))
  BY <1>2, <1>4, FS_Subset
<1>6. /\ Cardinality(Passed(r, cmd)) <= Cardinality(Done(r, cmd))
      /\ Cardinality(Backs(r, cmd)) <= Cardinality(Recorded(r.wf, Backing[cmd]))
  BY <1>2, <1>4, FS_Subset
<1>7. /\ Cardinality(Passed(r, cmd)) \in Nat /\ Cardinality(Done(r, cmd)) \in Nat
      /\ Cardinality(Backs(r, cmd)) \in Nat
      /\ Cardinality(Recorded(r.wf, Backing[cmd])) \in Nat
  BY <1>4, <1>5, FS_CardinalityType
<1> QED  BY <1>3, <1>6, <1>7, SMT

(* Replay lets a command pass only on an event of its own: for every       *)
(* workflow function, whatever the order of events, and also for runs that *)
(* were reclaimed and go on beside a second one.                           *)
THEOREM CommandsBackedHolds == Spec => []CommandsBacked
<1>1. Init => BackedInv
  BY DEF Init, BackedInv
<1>2. IInv /\ BackedInv /\ [Next]_vars => BackedInv'
  <2>1. ASSUME BackedInv, UNCHANGED vars PROVE BackedInv'
    BY <2>1 DEF vars, storeVars, envVars, BackedInv, Backed, Done, Backs, Recorded
  <2> QED  BY <2>1, NextBacked
<1>3. IInv /\ BackedInv => CommandsBacked
  BY BackedEnough DEF IInv
<1> QED  BY <1>1, <1>2, <1>3, SafetyInvariant, PTL DEF Spec

-----------------------------------------------------------------------------
(* The outcome event and the status of the row.                            *)

(* The completion that wrote the outcome of w and has yet to set the row.  *)
Settling(w, c) == c.wf = w /\ c.pc = "apply" /\ c.out # "yield"

OutcomeInv ==
  faults = 0 /\ crashes = 0 =>
    \A w \in Workflow :
      Finishes(w) # {} => status[w] # "RUNNING" \/ \E c \in completing : Settling(w, c)

(* A row is set to RUNNING by its creation only, and CompleteApply is the  *)
(* one step that takes a settling completion further.                      *)
LEMMA RowStep ==
  ASSUME TypeOK, Next, ~EngineCrash, NEW w \in Workflow
  PROVE  /\ status[w] # "none" /\ status[w] # "RUNNING" => status'[w] # "RUNNING"
         /\ \A c \in completing : Settling(w, c) => c \in completing' \/ CompleteApply(c)
<1> USE DEF storeVars, callVars
<1>0. status \in [Workflow -> Status]
  BY DEF TypeOK, StoreTypeOK
<1> DEFINE Goal == /\ status[w] # "none" /\ status[w] # "RUNNING" => status'[w] # "RUNNING"
                   /\ \A c \in completing : Settling(w, c) => c \in completing' \/ CompleteApply(c)
<1>s. ASSUME UNCHANGED status, UNCHANGED completing PROVE Goal
  BY <1>s
<1>1. ASSUME NEW v \in Workflow, StartWorkflow(v) PROVE Goal
  <2>1. CASE StartCreate(v)
    BY <1>0, <2>1 DEF StartCreate, CreateWorkflow
  <2> QED  BY <1>1, <1>s, <2>1 DEF StartWorkflow, StartAppend, StartEnqueue, StartTimeout
<1>2. CASE PollWorkflowTask
  BY <1>2, <1>s DEF PollWorkflowTask, PollDequeue, PollDequeueFails, PollRespond
<1>3. ASSUME NEW r \in running, Worker(r) PROVE Goal
  BY <1>3, <1>s
     DEF Worker, WaitForSignal, SleepReplayed, SleepFresh, QueueActivityReplayed, WorkerOnly,
         ScheduleActivityRecord, ScheduleActivityEnqueue, FunctionReturns
<1>4. CASE CompleteWorkflowTask
  <2>1. ASSUME NEW r, CompleteTake(r) PROVE Goal
    BY <2>1 DEF CompleteTake
  <2>2. ASSUME NEW d \in completing, CompleteAppend(d) PROVE Goal
    <3>1. UNCHANGED status /\ completing' = (completing \ {d}) \cup {[d EXCEPT !.pc = "apply"]}
      BY <2>2 DEF CompleteAppend, Step
    <3>2. d.pc # "apply"
      BY <2>2, SMT DEF CompleteAppend
    <3> QED  BY <3>1, <3>2 DEF Settling
  <2>3. ASSUME NEW d \in completing, CompleteApply(d) PROVE Goal
    <3>1. completing' = (completing \ {d}) \cup {[d EXCEPT !.pc = "ack"]}
      BY <2>3 DEF CompleteApply, Step
    <3>2. \/ UNCHANGED status
          \/ \E s : s # "RUNNING" /\ status' = [status EXCEPT ![d.wf] = s]
      BY <2>3 DEF CompleteApply, TryCompleteWorkflow, CompleteWorkflow
    <3> QED  BY <1>0, <2>3, <3>1, <3>2
  <2>4. ASSUME NEW d \in completing, CompleteAck(d) PROVE Goal
    <3>1. UNCHANGED status /\ completing' = completing \ {d}
      BY <2>4 DEF CompleteAck
    <3>2. d.pc # "apply"
      BY <2>4, SMT DEF CompleteAck
    <3> QED  BY <3>1, <3>2 DEF Settling
  <2> QED  BY <1>4, <2>1, <2>2, <2>3, <2>4 DEF CompleteWorkflowTask
<1>5. ASSUME NEW x \in Signal, SignalWorkflow(x) PROVE Goal
  BY <1>5, <1>s DEF SignalWorkflow, SignalRecord, SignalClaim, SignalRedispatch
<1>6. ASSUME NEW x \in Cancel, CancelWorkflow(x) PROVE Goal
  BY <1>6, <1>s DEF CancelWorkflow, CancelLookup, CancelMark, CancelRecord
<1>7. CASE ScheduleTimer \/ fireDue
  BY <1>7, <1>s
     DEF ScheduleTimer, TimerHook, TimerScheduled, HookCallback, AppendTimerScheduled,
         fireDue, TimerFetch, TimerFire, FetchDueTimers, FireTimer, DispatchUnchanged
<1>8. CASE Callback
  <2>1. ASSUME NEW g \in goroutines, TimeoutApply(g) PROVE Goal
    <3>1. UNCHANGED completing /\
          (UNCHANGED status \/ status' = [status EXCEPT ![g.timer.wf] = "TIMED_OUT"])
      BY <2>1 DEF TimeoutApply, TryCompleteWorkflow, CompleteWorkflow
    <3> QED  BY <1>0, <3>1
  <2> QED  BY <1>8, <1>s, <2>1
              DEF Callback, SleepClaim, SleepRedispatch, TimeoutCheck, TimeoutRecord
<1>9. CASE reclaimExpired \/ Losses
  BY <1>9, <1>s DEF reclaimExpired, ReclaimCollect, RequeueAck, RequeueEnqueue,
     Losses, PollLost, StreamSendFails, WorkerDies
<1> QED  BY <1>1, <1>2, <1>3, <1>4, <1>5, <1>6, <1>7, <1>8, <1>9 DEF Next

LEMMA NextOutcome ==
  ASSUME IInv, OutcomeInv, Next
  PROVE  OutcomeInv'
<1> SUFFICES ASSUME faults' = 0, crashes' = 0, NEW w \in Workflow, Finishes(w)' # {}
             PROVE  status'[w] # "RUNNING" \/ \E c \in completing' : Settling(w, c)
  BY DEF OutcomeInv, Settling
<1>1. TypeOK /\ StoreTypeOK /\ ~Fault /\ ~EngineCrash
  BY NextAlive DEF IInv, TypeOK
<1>2. Finishes(w) # {} => status[w] # "RUNNING" \/ \E c \in completing : Settling(w, c)
  BY NextMoves DEF OutcomeInv, StepOK, Clock
<1>3. Finishes(w) # {} => status[w] # "none"
  BY DEF IInv, Safe
<1>4. ASSUME Finishes(w) # {} PROVE status'[w] # "RUNNING" \/ \E c \in completing' : Settling(w, c)
  <2>1. ASSUME NEW c \in completing, Settling(w, c), CompleteApply(c) PROVE status'[w] # "RUNNING"
    <3>1. \E s : s # "RUNNING" /\ status' = [status EXCEPT ![w] = s]
      BY <1>1, <2>1 DEF Settling, CompleteApply, TryCompleteWorkflow, CompleteWorkflow
    <3> QED  BY <1>1, <3>1 DEF StoreTypeOK
  <2> QED  BY <1>1, <1>2, <1>3, <1>4, <2>1, RowStep
<1>5. ASSUME Finishes(w) = {} PROVE \E c \in completing' : Settling(w, c)
  <2>1. ~PlainStep
    BY <1>1, <1>5, PlainKeeps
  <2>2. ASSUME NEW r \in running, ScheduleActivityRecord(r) PROVE FALSE
    <3>1. r.wf \in Workflow /\ ActivityName \in Nat
      BY <1>1, SMT DEF TypeOK, Run, ActivityName
    <3>2. /\ EvOf("ActivityScheduled", ActivityName) \in Event
          /\ EvOf("ActivityScheduled", ActivityName).type \notin FinishEvents
      BY <3>1, EventTypes, SMT DEF EventType, EvOf, FinishEvents
    <3> QED  BY <1>1, <1>5, <2>2, <3>1, <3>2, FinishKept, FinishSame DEF ScheduleActivityRecord
  <2>a. ASSUME NEW a \in arming, TimerScheduled(a.timer) PROVE FALSE
    <3>1. a.timer.wf \in Workflow /\ a.timer.id \in Nat
      BY <1>1 DEF TypeOK, TimerTypeOK, Timer
    <3>2. /\ EvOf("TimerScheduled", a.timer.id) \in Event
          /\ EvOf("TimerScheduled", a.timer.id).type \notin FinishEvents
      BY <3>1, EventTypes, SMT DEF EventType, EvOf, FinishEvents
    <3> QED  BY <1>1, <1>5, <2>a, <3>1, <3>2, FinishKept, FinishSame
                DEF TimerScheduled, AppendTimerScheduled, TryAppendEvent
  <2>3. PICK c \in completing : CompleteAppend(c)
    BY <1>1, <2>1, <2>2, <2>a, NextPlain
  <2>4. c \in Completion /\ AppendEvent(c.wf, Ev(OutcomeEvent(c.out)))
    BY <1>1, <2>3 DEF CompleteAppend, TryAppendEvent, TypeOK
  <2>5. c.wf \in Workflow /\ Ev(OutcomeEvent(c.out)) \in Event
        /\ (c.out = "yield" => Ev(OutcomeEvent(c.out)).type \notin FinishEvents)
    BY <2>4, EventTypes, SMT DEF Completion, Outcome, OutcomeEvent, Ev, EventType, FinishEvents
  <2>6. c.out # "yield" /\ c.wf = w
    BY <1>1, <1>5, <2>4, <2>5, FinishKept, FinishAdded
  <2>7. PICK d : d = [c EXCEPT !.pc = "apply"]
    OBVIOUS
  <2>8. d \in completing'
    BY <2>3, <2>7 DEF CompleteAppend, Step
  <2>9. Settling(w, d)
    BY <2>4, <2>6, <2>7, SMT DEF Settling, Completion
  <2> QED  BY <2>8, <2>9
<1> QED  BY <1>4, <1>5

(* What a worker reported reaches the row of the workflow, in whatever     *)
(* order completions, timeouts and signals run: for any number of          *)
(* workflows and calls.                                                    *)
THEOREM OutcomeReachesRowHolds == Spec => []OutcomeReachesRow
<1>1. Init => OutcomeInv
  BY InitSafe DEF Init, StoreInit, OutcomeInv, IInv, Safe
<1>2. IInv /\ OutcomeInv /\ [Next]_vars => OutcomeInv'
  <2>1. ASSUME OutcomeInv, UNCHANGED vars PROVE OutcomeInv'
    BY <2>1 DEF vars, storeVars, envVars, callVars, OutcomeInv, Settling, Finishes
  <2> QED  BY <2>1, NextOutcome
<1>3. OutcomeInv => OutcomeReachesRow
  BY DEF OutcomeInv, OutcomeReachesRow, Settling
<1> QED  BY <1>1, <1>2, <1>3, SafetyInvariant, PTL DEF Spec

(* The outcome of a workflow stays the only one and as it was recorded,    *)
(* and a row that left RUNNING does not come back to it.                   *)
OutcomeKept ==
  \A w \in Workflow :
    /\ Finishes(w) # {} => /\ Finishes(w)' = Finishes(w)
                           /\ \A i \in Finishes(w) : history'[w][i] = history[w][i]
    /\ status[w] \notin {"none", "RUNNING"} => status'[w] \notin {"none", "RUNNING"}

LEMMA NextKeeps ==
  ASSUME IInv, Next
  PROVE  OutcomeKept
<1> SUFFICES ASSUME NEW w \in Workflow
             PROVE  /\ Finishes(w) # {} => /\ Finishes(w)' = Finishes(w)
                                           /\ \A i \in Finishes(w) : history'[w][i] = history[w][i]
                    /\ status[w] # "none" /\ status[w] # "RUNNING" =>
                         status'[w] # "none" /\ status'[w] # "RUNNING"
  BY SMT DEF OutcomeKept
<1>1. TypeOK /\ Safe(w) /\ (Moves(w) \/ Born(w))
  BY NextMoves DEF IInv, StepOK
<1>2. Finishes(w) # {} => Finishes(w)' = Finishes(w)
  BY <1>1 DEF Safe, Moves, Keeps, Exchanges, Drops, Ends, Born
<1>3. \A i \in Finishes(w) : history'[w][i] = history[w][i]
  BY <1>1, NextHistory, StepGrows DEF Grows, Finishes
<1>4. status[w] # "none" => status'[w] # "none"
  BY <1>1 DEF Moves, Ages, Born
<1>5. EngineCrash => UNCHANGED status
  BY DEF EngineCrash, storeVars
<1> QED  BY <1>1, <1>2, <1>3, <1>4, <1>5, RowStep

(* No completion adds an outcome to a history that has one or changes it,  *)
(* not that of an old token, a reclaimed run or a cancelled workflow; and  *)
(* no handler, timeout or restart sets a closed row to RUNNING again,      *)
(* although the store takes any status for any row.                        *)
THEOREM OutcomeKeptHolds == Spec => [][OutcomeKept]_vars
<1>1. IInv /\ [Next]_vars => [OutcomeKept]_vars
  BY NextKeeps
<1> QED  BY <1>1, SafetyInvariant, PTL DEF Spec

-----------------------------------------------------------------------------
(* The token table and the pending-entries list.                           *)

Acking == {q \in requeueing : q.pc = "ack"}

HeldBy(n) ==
  \/ \E p \in pendingWfTasks : p.id = n
  \/ \E c \in completing : c.id = n
  \/ \E q \in Acking : q.id = n

TokenInv ==
  /\ Apart(pendingWfTasks, completing, Acking)
  /\ \A n : HeldBy(n) => InUse(n)

PelInv == \A n : (\E e \in pel : e.id = n) <=> HeldBy(n)

PelStep == PelInv /\ ~Fault => PelInv'

(* Tokens pass from one table to the other.                                *)
LEMMA TokensPass ==
  ASSUME TypeOK, QueueStep, TokenInv, Apart(pendingWfTasks, completing, Acking)',
         UNCHANGED pel, \A n : HeldBy(n)' <=> HeldBy(n)
  PROVE  TokenInv' /\ PelStep
<1>1. \A n : HeldBy(n)' => InUse(n)'
  BY InUseKept DEF TokenInv
<1>2. PelInv => PelInv'
  BY DEF PelInv
<1> QED  BY <1>1, <1>2 DEF TokenInv, PelStep

LEMMA TokensSame ==
  ASSUME TypeOK, QueueStep, TokenInv, UNCHANGED <<pel, pendingWfTasks, completing>>,
         Acking' = Acking
  PROVE  TokenInv' /\ PelStep
<1>1. Apart(pendingWfTasks, completing, Acking)'
  BY DEF TokenInv, Apart
<1>2. \A n : HeldBy(n)' <=> HeldBy(n)
  BY DEF HeldBy
<1> QED  BY <1>1, <1>2, TokensPass

LEMMA AckingSame ==
  ASSUME UNCHANGED requeueing
  PROVE  Acking' = Acking
BY DEF Acking

LEMMA DequeueTokens ==
  ASSUME TypeOK, StreamUnique, TokenInv, NEW e, PollDequeue(e)
  PROVE  TokenInv' /\ PelStep
<1>1. PICK p : p = [id |-> e.id, wf |-> e.body.wf]
  OBVIOUS
<1>2. /\ Dequeue(e) /\ nextId' = nextId /\ pel' = pel \cup {e} /\ p.id = e.id
      /\ pendingWfTasks' = pendingWfTasks \cup {p} /\ UNCHANGED completing
  BY <1>1 DEF PollDequeue, Dequeue
<1>3. Acking' = Acking
  BY AckingSame DEF PollDequeue
<1>4. \A n : HeldBy(n)' <=> HeldBy(n) \/ n = e.id
  BY <1>2, <1>3 DEF HeldBy
<1>5. \A n : HeldBy(n) => n # e.id
  BY <1>2, Delivered DEF TokenInv
<1>6. Apart(pendingWfTasks \cup {p}, completing, Acking)
  BY <1>2, <1>5, ApartAdd DEF TokenInv, HeldBy
<1>7. Apart(pendingWfTasks, completing, Acking)'
  BY <1>2, <1>3, <1>6 DEF Apart
<1>8. \A n : HeldBy(n)' => InUse(n)'
  BY <1>2, <1>4, Delivered, InUseKept DEF TokenInv, QueueStep
<1>9. PelInv => PelInv'
  BY <1>2, <1>4 DEF PelInv
<1> QED  BY <1>7, <1>8, <1>9 DEF TokenInv, PelStep

LEMMA DequeueFailsTokens ==
  ASSUME TypeOK, TokenInv, NEW e, PollDequeueFails(e)
  PROVE  TokenInv' /\ PelStep
<1>1. Dequeue(e) /\ nextId' = nextId /\ Fault /\ UNCHANGED <<pendingWfTasks, completing, requeueing>>
  BY DEF PollDequeueFails, memVars, callVars
<1>2. Acking' = Acking
  BY <1>1, AckingSame
<1>3. \A n : HeldBy(n)' <=> HeldBy(n)
  BY <1>1, <1>2 DEF HeldBy
<1>4. \A n : HeldBy(n)' => InUse(n)'
  BY <1>1, <1>3, InUseKept DEF TokenInv, QueueStep
<1>5. Apart(pendingWfTasks, completing, Acking)'
  BY <1>1, <1>2 DEF TokenInv, Apart
<1> QED  BY <1>1, <1>4, <1>5 DEF TokenInv, PelStep

(* One token leaves the table: CompleteWorkflowTask, a failed send.        *)
LEMMA TakeTokens ==
  ASSUME TypeOK, QueueStep, TokenInv, UNCHANGED pel, NEW p \in pendingWfTasks,
         pendingWfTasks' = pendingWfTasks \ {p}, NEW x, x.id = p.id,
         \/ completing' = completing \cup {x} /\ Acking' = Acking
         \/ UNCHANGED completing /\ Acking' = Acking \cup {x}
  PROVE  TokenInv' /\ PelStep
<1>1. Apart(pendingWfTasks, completing, Acking) /\ Apart(pendingWfTasks, Acking, completing)
  BY ApartSwap DEF TokenInv
<1>2. /\ Apart(pendingWfTasks \ {p}, completing \cup {x}, Acking)
      /\ Apart(pendingWfTasks \ {p}, Acking \cup {x}, completing)
  <2>1. {p} \in SUBSET pendingWfTasks
    OBVIOUS
  <2>2. (\A y \in {x} : \E z \in {p} : y.id = z.id) /\ \A y, z \in {x} : y.id = z.id => y = z
    OBVIOUS
  <2> QED  BY <1>1, <2>1, <2>2, ApartMove
<1>3. Apart(pendingWfTasks', completing', Acking')
  BY <1>2, ApartSwap
<1>4. Apart(pendingWfTasks, completing, Acking)'
  BY <1>3 DEF Apart
<1>5. \A y \in pendingWfTasks : y.id = p.id => y = p
  BY DEF TokenInv, Apart
<1>6. \A n : HeldBy(n)' <=> HeldBy(n)
  BY <1>5 DEF HeldBy
<1> QED  BY <1>4, <1>6, TokensPass

LEMMA CompleteTakeTokens ==
  ASSUME TypeOK, TokenInv, NEW r, CompleteTake(r), QueueStep
  PROVE  TokenInv' /\ PelStep
<1>1. PICK p : p = [id |-> r.id, wf |-> r.wf]
  OBVIOUS
<1>2. PICK x : x = [id |-> r.id, wf |-> r.wf, out |-> r.out, pc |-> "append"]
  OBVIOUS
<1>3. /\ pendingWfTasks' = pendingWfTasks \ {p} /\ UNCHANGED <<pel, requeueing>>
      /\ p \in pendingWfTasks => completing' = completing \cup {x}
      /\ p \notin pendingWfTasks => UNCHANGED completing
  BY <1>1, <1>2 DEF CompleteTake, DropTasks, queueVars
<1>4. Acking' = Acking /\ x.id = p.id
  BY <1>1, <1>2, <1>3, AckingSame
<1>5. CASE p \in pendingWfTasks
  BY <1>3, <1>4, <1>5, TakeTokens
<1>6. CASE p \notin pendingWfTasks
  BY <1>3, <1>4, <1>6, TokensSame
<1> QED  BY <1>5, <1>6

LEMMA SendFailsTokens ==
  ASSUME TypeOK, TokenInv, NEW e, StreamSendFails(e), QueueStep
  PROVE  TokenInv' /\ PelStep
<1>1. PICK p : p = [id |-> e.id, wf |-> e.body.wf]
  OBVIOUS
<1>2. PICK x : x = [id |-> p.id, wf |-> p.wf, by |-> "stream", pc |-> "ack"]
  OBVIOUS
<1>3. /\ pendingWfTasks' = pendingWfTasks \ {p} /\ UNCHANGED <<pel, completing>>
      /\ p \in pendingWfTasks => requeueing' = requeueing \cup {x}
      /\ p \notin pendingWfTasks => UNCHANGED requeueing
  BY <1>1, <1>2 DEF StreamSendFails, DropTasks, queueVars
<1>4. x.id = p.id /\ x.pc = "ack"
  BY <1>2
<1>5. CASE p \in pendingWfTasks
  <2>1. Acking' = Acking \cup {x}
    BY <1>3, <1>4, <1>5 DEF Acking
  <2> QED  BY <1>3, <1>4, <1>5, <2>1, TakeTokens
<1>6. CASE p \notin pendingWfTasks
  BY <1>3, <1>6, AckingSame, TokensSame
<1> QED  BY <1>5, <1>6

LEMMA StepTokens ==
  ASSUME TypeOK, TokenInv, NEW c \in completing, NEW pc, Step(c, pc), QueueStep,
         UNCHANGED <<pel, pendingWfTasks, requeueing>>
  PROVE  TokenInv' /\ PelStep
<1>1. PICK d : d = [c EXCEPT !.pc = pc]
  OBVIOUS
<1>2. c \in Completion
  BY DEF TypeOK
<1>3. d.id = c.id
  BY <1>1, <1>2, SMT DEF Completion
<1>4. completing' = (completing \ {c}) \cup {d} /\ Acking' = Acking
  BY <1>1, AckingSame DEF Step
<1>5. Apart(completing', pendingWfTasks', Acking')
  BY <1>3, <1>4, ApartSwap, ApartTurn DEF TokenInv
<1>6. Apart(pendingWfTasks, completing, Acking)'
  BY <1>5 DEF Apart
<1>7. \A n : HeldBy(n)' <=> HeldBy(n)
  BY <1>3, <1>4 DEF HeldBy
<1> QED  BY <1>6, <1>7, TokensPass

LEMMA CollectTokens ==
  ASSUME TypeOK, TokenInv, NEW expired, ReclaimCollect(expired), QueueStep
  PROVE  TokenInv' /\ PelStep
<1> DEFINE B(p) == [id |-> p.id, wf |-> p.wf, by |-> "loop", pc |-> "ack"]
<1>0. \A p : B(p).id = p.id /\ B(p).pc = "ack"
  BY SMT
<1>1. PICK N : N = {B(p) : p \in expired}
  OBVIOUS
<1>2. /\ expired \in SUBSET pendingWfTasks /\ pendingWfTasks' = pendingWfTasks \ expired
      /\ requeueing' = requeueing \cup N /\ UNCHANGED <<pel, completing>>
  BY <1>1 DEF ReclaimCollect, DropTasks, queueVars
<1> HIDE DEF B
<1>3. \A x \in N : x.pc = "ack" /\ \E p \in expired : x.id = p.id
  BY <1>0, <1>1
<1>4. \A p \in expired : \E x \in N : x.id = p.id
  BY <1>0, <1>1
<1>5. \A x, y \in N : x.id = y.id => x = y
  <2>1. \A p, q \in expired : p.id = q.id => p = q
    BY <1>2 DEF TokenInv, Apart
  <2> SUFFICES ASSUME NEW x \in N, NEW y \in N, x.id = y.id PROVE x = y
    OBVIOUS
  <2>2. PICK p \in expired : x = B(p)
    BY <1>1
  <2>3. PICK q \in expired : y = B(q)
    BY <1>1
  <2>4. p.id = q.id
    BY <1>0, <2>2, <2>3
  <2>5. p = q
    BY <2>1, <2>4
  <2> QED  BY <2>2, <2>3, <2>5
<1>6. Acking' = Acking \cup N
  BY <1>2, <1>3 DEF Acking
<1>7. Apart(pendingWfTasks', Acking', completing')
  BY <1>2, <1>3, <1>5, <1>6, ApartSwap, ApartMove DEF TokenInv
<1>8. Apart(pendingWfTasks, completing, Acking)'
  BY <1>7 DEF Apart
<1>9. \A n : HeldBy(n)' <=> HeldBy(n)
  <2>1. \A n : HeldBy(n)' => HeldBy(n)
    BY <1>2, <1>3, <1>6 DEF HeldBy
  <2>2. \A n : HeldBy(n) => HeldBy(n)'
    BY <1>2, <1>4, <1>6 DEF HeldBy
  <2> QED  BY <2>1, <2>2
<1> QED  BY <1>2, <1>8, <1>9, TokensPass

(* The two acks: the holder gives up the id, and the entry leaves the list. *)
LEMMA AckTokens ==
  ASSUME TypeOK, TokenInv, NEW n, TryAck(n), QueueStep,
         Apart(pendingWfTasks, completing, Acking)',
         \A m : HeldBy(m)' <=> HeldBy(m) /\ m # n
  PROVE  TokenInv' /\ PelStep
<1>1. \A m : HeldBy(m)' => InUse(m)'
  BY InUseKept DEF TokenInv
<1>2. PelStep
  BY DEF PelStep, PelInv, TryAck, Ack
<1> QED  BY <1>1, <1>2 DEF TokenInv

LEMMA CompleteAckTokens ==
  ASSUME TypeOK, TokenInv, NEW c, CompleteAck(c), QueueStep
  PROVE  TokenInv' /\ PelStep
<1>1. /\ c \in completing /\ TryAck(c.id) /\ completing' = completing \ {c}
      /\ UNCHANGED <<pendingWfTasks, requeueing>>
  BY DEF CompleteAck, memVars
<1>2. Acking' = Acking
  BY <1>1, AckingSame
<1>3. Apart(pendingWfTasks, completing, Acking)'
  BY <1>1, <1>2 DEF TokenInv, Apart
<1>4. /\ \A p \in pendingWfTasks : p.id # c.id
      /\ \A q \in Acking : q.id # c.id
      /\ \A d \in completing : d.id = c.id => d = c
  BY <1>1 DEF TokenInv, Apart
<1>5. \A m : HeldBy(m)' <=> HeldBy(m) /\ m # c.id
  BY <1>1, <1>2, <1>4 DEF HeldBy
<1> QED  BY <1>1, <1>3, <1>5, AckTokens

LEMMA RequeueAckTokens ==
  ASSUME TypeOK, TokenInv, NEW q, RequeueAck(q), QueueStep
  PROVE  TokenInv' /\ PelStep
<1>1. PICK x : x = [q EXCEPT !.pc = "enqueue"]
  OBVIOUS
<1>2. /\ q \in Acking /\ TryAck(q.id) /\ requeueing' = (requeueing \ {q}) \cup {x}
      /\ UNCHANGED <<pendingWfTasks, completing>>
  BY <1>1 DEF RequeueAck, memVars, Acking
<1>3. x.pc # "ack"
  <2>1. q \in Requeue
    BY <1>2 DEF Acking, TypeOK
  <2> QED  BY <1>1, <2>1, SMT DEF Requeue
<1>4. Acking' = Acking \ {q}
  BY <1>2, <1>3 DEF Acking
<1>5. Apart(pendingWfTasks, completing, Acking)'
  BY <1>2, <1>4 DEF TokenInv, Apart
<1>6. /\ \A p \in pendingWfTasks : p.id # q.id
      /\ \A c \in completing : c.id # q.id
      /\ \A y \in Acking : y.id = q.id => y = q
  BY <1>2 DEF TokenInv, Apart
<1>7. \A m : HeldBy(m)' <=> HeldBy(m) /\ m # q.id
  BY <1>2, <1>4, <1>6 DEF HeldBy
<1> QED  BY <1>2, <1>5, <1>7, AckTokens

LEMMA RequeueEnqueueTokens ==
  ASSUME TypeOK, TokenInv, NEW q, RequeueEnqueue(q), QueueStep
  PROVE  TokenInv' /\ PelStep
<1>1. requeueing' = requeueing \ {q} /\ UNCHANGED <<pel, pendingWfTasks, completing>>
  BY DEF RequeueEnqueue, memVars
<1>2. q.pc # "ack"
  BY SMT DEF RequeueEnqueue
<1>3. Acking' = Acking
  BY <1>1, <1>2, SMT DEF Acking
<1> QED  BY <1>1, <1>3, TokensSame

LEMMA NextTokens ==
  ASSUME TypeOK, StreamUnique, TokenInv, Next
  PROVE  TokenInv' /\ (~EngineCrash => PelStep)
<1> USE DEF queueVars, memVars, callVars
<1> DEFINE Tables == <<pel, pendingWfTasks, completing, requeueing>>
           Goal == TokenInv' /\ PelStep
<1>0. QueueStep
  BY NextQueue
<1>s. ASSUME UNCHANGED Tables PROVE Goal
  BY <1>0, <1>s, AckingSame, TokensSame
<1> HIDE DEF Goal
<1>1. ASSUME NEW w, StartWorkflow(w) PROVE Goal
  BY <1>1, <1>s DEF StartWorkflow, StartCreate, StartAppend, StartEnqueue, StartTimeout
<1>2. CASE PollWorkflowTask
  <2>1. ASSUME NEW e, PollRespond(e) PROVE Goal
    BY <2>1, <1>s DEF PollRespond
  <2> QED  BY <1>2, <2>1, DequeueTokens, DequeueFailsTokens DEF PollWorkflowTask, Goal
<1>3. ASSUME NEW r, Worker(r) PROVE Goal
  BY <1>3, <1>s
     DEF Worker, WaitForSignal, SleepReplayed, SleepFresh, QueueActivityReplayed, WorkerOnly,
         ScheduleActivityRecord, ScheduleActivityEnqueue, FunctionReturns
<1>4. CASE CompleteWorkflowTask
  <2>1. ASSUME NEW c \in completing, CompleteAppend(c) \/ CompleteApply(c) PROVE Goal
    <3>1. /\ Step(c, "apply") \/ Step(c, "ack")
          /\ UNCHANGED <<pel, pendingWfTasks, requeueing>>
      BY <2>1 DEF CompleteAppend, CompleteApply
    <3> QED  BY <1>0, <3>1, StepTokens DEF Goal
  <2> QED  BY <1>0, <1>4, <2>1, CompleteTakeTokens, CompleteAckTokens
              DEF CompleteWorkflowTask, Goal
<1>5. ASSUME NEW x, SignalWorkflow(x) PROVE Goal
  BY <1>5, <1>s DEF SignalWorkflow, SignalRecord, SignalClaim, SignalRedispatch
<1>6. ASSUME NEW x, CancelWorkflow(x) PROVE Goal
  BY <1>6, <1>s DEF CancelWorkflow, CancelLookup, CancelMark, CancelRecord
<1>7. CASE ScheduleTimer \/ fireDue
  BY <1>7, <1>s DEF ScheduleTimer, TimerHook, TimerScheduled, fireDue, TimerFetch, TimerFire,
                           DispatchUnchanged, Goal
<1>8. CASE Callback
  BY <1>8, <1>s DEF Callback, SleepClaim, SleepRedispatch, TimeoutCheck, TimeoutRecord,
                           TimeoutApply, Goal
<1>9. CASE reclaimExpired
  BY <1>0, <1>9, CollectTokens, RequeueAckTokens, RequeueEnqueueTokens DEF reclaimExpired, Goal
<1>10. CASE Losses
  <2>1. ASSUME NEW e, PollLost(e) \/ WorkerDies(e) PROVE Goal
    BY <2>1, <1>s DEF PollLost, WorkerDies
  <2> QED  BY <1>0, <1>10, <2>1, SendFailsTokens DEF Losses, Goal
<1>11. CASE EngineCrash
  <2>1. pendingWfTasks' = {} /\ completing' = {} /\ requeueing' = {}
    BY <1>11 DEF EngineCrash
  <2> QED  BY <1>11, <2>1 DEF TokenInv, Apart, Acking, HeldBy
<1> QED  BY <1>1, <1>2, <1>3, <1>4, <1>5, <1>6, <1>7, <1>8, <1>9, <1>10, <1>11 DEF Next, Goal

(* No delivered entry leaks and none is acked early: the id of every entry *)
(* of the list has exactly one holder, for any number of polls, workers,   *)
(* completions and reclaims in flight.                                     *)
THEOREM PelMatchesTablesHolds == Spec => []PelMatchesTables
<1> DEFINE Inv == TokenInv /\ (faults = 0 /\ crashes = 0 => PelInv)
<1>1. Init => Inv
  BY DEF Init, QueueInit, TokenInv, PelInv, HeldBy, Acking, Apart
<1>2. IInv /\ Inv /\ [Next]_vars => Inv'
  <2>1. ASSUME Inv, UNCHANGED vars PROVE Inv'
    BY <2>1 DEF vars, storeVars, queueVars, envVars, memVars, callVars, TokenInv, PelInv,
                       HeldBy, Acking, Apart, InUse
  <2>2. ASSUME IInv, Inv, Next PROVE Inv'
    <3>1. TokenInv' /\ (~EngineCrash => PelStep)
      BY <2>2, NextTokens DEF IInv
    <3>2. ASSUME faults' = 0, crashes' = 0 PROVE PelInv'
      <4>1. ~Fault /\ ~EngineCrash
        BY <2>2, <3>2, NextAlive DEF IInv
      <4>2. faults = 0 /\ crashes = 0
        BY <2>2, <3>2, NextMoves DEF StepOK, Clock
      <4> QED  BY <2>2, <3>1, <4>1, <4>2 DEF PelStep
    <3> QED  BY <3>1, <3>2
  <2> QED  BY <2>1, <2>2
<1>3. Inv => PelMatchesTables
  BY DEF PelInv, HeldBy, Acking, PelMatchesTables
<1> QED  BY <1>1, <1>2, <1>3, SafetyInvariant, PTL DEF Spec

-----------------------------------------------------------------------------
(* Activities recorded and the activity queue.                             *)

(* The calls of w between the two halves of ScheduleActivity.              *)
Waiting(w) == {r \in running : r.wf = w /\ r.sched}

LEMMA WaitingTurns ==
  ASSUME TypeOK, WorkInv, NEW r \in running, NEW q, Turns(r, q), NEW w
  PROVE  /\ q.sched /\ ~r.sched /\ r.wf = w => Waiting(w)' = Waiting(w) \cup {q} /\ q \notin Waiting(w)
         /\ ~q.sched /\ r.sched /\ r.wf = w => Waiting(w)' = Waiting(w) \ {r} /\ r \in Waiting(w)
         /\ (~q.sched /\ ~r.sched) \/ r.wf # w => Waiting(w)' = Waiting(w)
<1>1. running' = (running \ {r}) \cup {q} /\ q.id = r.id /\ q.wf = r.wf
  BY DEF Turns, Becomes
<1>2. \A s \in running : s.id = q.id => s = r
  BY <1>1 DEF WorkInv, Apart
<1>3. q.sched /\ ~r.sched => q \notin running
  BY <1>2
<1>4. ASSUME q.sched, ~r.sched, r.wf = w
      PROVE  Waiting(w)' = Waiting(w) \cup {q} /\ q \notin Waiting(w)
  BY <1>1, <1>3, <1>4 DEF Waiting
<1>5. ASSUME ~q.sched, r.sched, r.wf = w
      PROVE  Waiting(w)' = Waiting(w) \ {r} /\ r \in Waiting(w)
  BY <1>1, <1>5 DEF Waiting
<1>6. ASSUME (~q.sched /\ ~r.sched) \/ r.wf # w PROVE Waiting(w)' = Waiting(w)
  BY <1>1, <1>6 DEF Waiting
<1> QED  BY <1>4, <1>5, <1>6

(* The two sides of ScheduledReachesQueue for one workflow.                *)
Reaches(w) ==
  Cardinality(Recorded(w, "ActivityScheduled")) <= activityTasks[w] + Cardinality(Waiting(w))

LEMMA CountTypes ==
  ASSUME TypeOK, IsFiniteSet(running), NEW w \in Workflow
  PROVE  /\ IsFiniteSet(Recorded(w, "ActivityScheduled")) /\ IsFiniteSet(Waiting(w))
         /\ Cardinality(Recorded(w, "ActivityScheduled")) \in Nat
         /\ Cardinality(Waiting(w)) \in Nat /\ activityTasks[w] \in Nat
<1>1. Waiting(w) \subseteq running
  BY DEF Waiting
<1>2. IsFiniteSet(Recorded(w, "ActivityScheduled")) /\ IsFiniteSet(Waiting(w))
  BY <1>1, RecordedFinite, FS_Subset
<1>3. activityTasks[w] \in Nat
  BY DEF TypeOK
<1> QED  BY <1>2, <1>3, FS_CardinalityType

LEMMA ReachesSame ==
  ASSUME NEW w, Reaches(w), UNCHANGED activityTasks, Waiting(w)' = Waiting(w),
         Recorded(w, "ActivityScheduled")' = Recorded(w, "ActivityScheduled")
  PROVE  Reaches(w)'
BY DEF Reaches

LEMMA NextReaches ==
  ASSUME TypeOK, WorkInv, NEW w \in Workflow, Reaches(w), Next, ~Fault, ~EngineCrash,
         \A r : ~WorkerDies(r)
  PROVE  Reaches(w)'
<1> DEFINE A == Recorded(w, "ActivityScheduled")
<1>0. IsFiniteSet(running) /\ \A r \in running : SchedOK(r)
  BY DEF WorkInv
<1>c. /\ IsFiniteSet(A) /\ IsFiniteSet(Waiting(w))
      /\ Cardinality(A) \in Nat /\ Cardinality(Waiting(w)) \in Nat /\ activityTasks[w] \in Nat
  BY <1>0, CountTypes
<1>1. ASSUME NEW r \in running, ScheduleActivityRecord(r) PROVE Reaches(w)'
  <2>1. PICK q : Turns(r, q) /\ q.sched /\ ~r.sched
    <3>1. PICK q : q = [r EXCEPT !.sched = TRUE]
      OBVIOUS
    <3>2. r \in Run /\ Becomes(r, q) /\ ~r.sched /\ r.out = "none" /\ r.timer = 0 /\ r.k \in DOMAIN Program
      BY <1>1, <3>1 DEF ScheduleActivityRecord, AtCommand, TypeOK
    <3>3. q.id = r.id /\ q.wf = r.wf /\ q.sched /\ q.out = r.out /\ q.timer = r.timer /\ q.k = r.k
      BY <3>1, <3>2, SMT DEF Run
    <3> QED  BY <3>2, <3>3 DEF Turns, SchedOK
  <2>2. r.wf \in Workflow /\ AppendEvent(r.wf, EvOf("ActivityScheduled", ActivityName))
        /\ UNCHANGED activityTasks
    BY <1>1 DEF ScheduleActivityRecord, WorkerOnly, TypeOK, Run
  <2>3. CASE r.wf # w
    BY <2>1, <2>2, <2>3, RecordedOne, WaitingTurns, ReachesSame
  <2>4. CASE r.wf = w
    <3>1. PICK n : A' \subseteq A \cup {n}
      BY <2>2, RecordedOne
    <3>2. Waiting(w)' = Waiting(w) \cup {q} /\ q \notin Waiting(w)
      BY <2>1, <2>4, WaitingTurns
    <3>3. Cardinality(Waiting(w)') = Cardinality(Waiting(w)) + 1
      BY <1>c, <3>2, FS_AddElement
    <3>4. IsFiniteSet(A \cup {n}) /\ Cardinality(A \cup {n}) \in {Cardinality(A), Cardinality(A) + 1}
      BY <1>c, FS_AddElement
    <3>5. IsFiniteSet(A') /\ Cardinality(A') <= Cardinality(A \cup {n})
      BY <3>1, <3>4, FS_Subset
    <3>6. Cardinality(A') \in Nat
      BY <3>5, FS_CardinalityType
    <3>7. activityTasks'[w] = activityTasks[w]
      BY <2>2
    <3>8. Cardinality(A) <= activityTasks[w] + Cardinality(Waiting(w))
      BY DEF Reaches
    <3>9. Cardinality(A') <= activityTasks'[w] + Cardinality(Waiting(w)')
      BY <1>c, <3>3, <3>4, <3>5, <3>6, <3>7, <3>8, SMT
    <3> QED  BY <3>9 DEF Reaches
  <2> QED  BY <2>3, <2>4
<1>2. ASSUME \/ PlainStep \/ \E c \in completing : CompleteAppend(c)
             \/ \E a \in arming : TimerScheduled(a.timer)
      PROVE  A' = A
  <2>1. ASSUME NEW c \in completing, CompleteAppend(c) PROVE A' = A
    <3>1. c \in Completion
      BY DEF TypeOK
    <3>2. /\ c.wf \in Workflow /\ Ev(OutcomeEvent(c.out)) \in Event
          /\ Ev(OutcomeEvent(c.out)).type # "ActivityScheduled"
      BY <3>1, EventTypes, SMT DEF Completion, Outcome, OutcomeEvent, Ev, EventType
    <3> QED  BY <2>1, <3>2, RecordedNot DEF CompleteAppend
  <2>2. ASSUME NEW a \in arming, TimerScheduled(a.timer) PROVE A' = A
    <3>1. a.timer.wf \in Workflow /\ a.timer.id \in Nat
      BY DEF TypeOK, TimerTypeOK, Timer
    <3>2. /\ EvOf("TimerScheduled", a.timer.id) \in Event
          /\ EvOf("TimerScheduled", a.timer.id).type # "ActivityScheduled"
      BY <3>1, EventTypes, SMT DEF EventType, EvOf
    <3> QED  BY <2>2, <3>1, <3>2, RecordedNot DEF TimerScheduled, AppendTimerScheduled
  <2> QED  BY <1>2, <2>1, <2>2, PlainKeeps
<1>3. ASSUME NEW r \in running, ScheduleActivityEnqueue(r), A' = A PROVE Reaches(w)'
  <2>1. PICK q : Turns(r, q) /\ ~q.sched /\ r.sched
    <3>1. PICK q : q = [r EXCEPT !.k = @ + 1, !.sched = FALSE]
      OBVIOUS
    <3>2. r \in Run /\ Becomes(r, q) /\ r.sched
      BY <1>3, <3>1 DEF ScheduleActivityEnqueue, TypeOK
    <3>3. q.id = r.id /\ q.wf = r.wf /\ ~q.sched
      BY <3>1, <3>2, SMT DEF Run
    <3> QED  BY <3>2, <3>3 DEF Turns, SchedOK
  <2>2. /\ activityTasks \in [Workflow -> Nat] /\ r.wf \in Workflow
        /\ activityTasks' = [activityTasks EXCEPT ![r.wf] = @ + 1]
    BY <1>3 DEF ScheduleActivityEnqueue, TypeOK, Run
  <2>3. CASE r.wf # w
    <3>1. activityTasks'[w] = activityTasks[w] /\ Waiting(w)' = Waiting(w)
      BY <2>1, <2>2, <2>3, WaitingTurns
    <3> QED  BY <1>3, <3>1 DEF Reaches
  <2>4. CASE r.wf = w
    <3>1. Waiting(w)' = Waiting(w) \ {r} /\ r \in Waiting(w)
      BY <2>1, <2>4, WaitingTurns
    <3>2. Cardinality(Waiting(w)') = Cardinality(Waiting(w)) - 1
      BY <1>c, <3>1, FS_RemoveElement
    <3>3. activityTasks'[w] = activityTasks[w] + 1
      BY <2>2, <2>4
    <3>4. Cardinality(A') <= activityTasks[w] + Cardinality(Waiting(w))
      BY <1>3 DEF Reaches
    <3>5. Cardinality(A') <= activityTasks'[w] + Cardinality(Waiting(w)')
      BY <1>c, <1>3, <3>2, <3>3, <3>4, SMT
    <3> QED  BY <3>5 DEF Reaches
  <2> QED  BY <2>3, <2>4
<1> QED  PROOF
  <2> SUFFICES ASSUME ~\E r \in running : ScheduleActivityRecord(r) PROVE Reaches(w)'
    BY <1>1
  <2>1. A' = A
    BY <1>2, NextPlain
  <2>2. ASSUME UNCHANGED activityTasks, Waiting(w)' = Waiting(w) PROVE Reaches(w)'
    BY <2>1, <2>2, ReachesSame
  <2>3. ASSUME NEW r \in running, Worker(r) PROVE Reaches(w)'
    BY <1>0, <1>3, <2>1, <2>2, <2>3, WorkerTurns, WaitingTurns
  <2>4. ASSUME NEW r \in running, CompleteTake(r) PROVE Reaches(w)'
    <3>1. running' = running \ {r} /\ ~r.sched /\ UNCHANGED activityTasks
      BY <1>0, <2>4 DEF CompleteTake, SchedOK
    <3> QED  BY <2>2, <3>1 DEF Waiting
  <2>5. ASSUME NEW e \in polls, PollRespond(e) PROVE Reaches(w)'
    <3>1. PICK q : ~q.sched /\ running' = running \cup {q}
      BY <2>5 DEF PollRespond
    <3> QED  BY <2>2, <2>5, <3>1 DEF Waiting, PollRespond
  <2>6. ASSUME NEW a \in arming, TimerScheduled(a.timer) PROVE Reaches(w)'
    <3>1. PICK F \in [running -> running'] :
             /\ running' = {F[r] : r \in running}
             /\ \A r \in running : F[r].id = r.id /\ F[r].wf = r.wf /\ F[r].sched = r.sched
                                   /\ SchedOK(F[r]) /\ (r.sched => F[r] = r)
      BY <2>6, ScheduledTurns
    <3>2. ASSUME NEW x \in running', x.sched PROVE x \in running
      <4>1. PICK r \in running : x = F[r]
        BY <3>1
      <4>2. r.sched
        BY <3>1, <3>2, <4>1
      <4>3. F[r] = r
        BY <3>1, <4>2
      <4> QED  BY <4>1, <4>3
    <3>3. ASSUME NEW x \in running, x.sched PROVE x \in running'
      <4>1. F[x] = x
        BY <3>1, <3>3
      <4>2. F[x] \in running'
        BY <3>1
      <4> QED  BY <4>1, <4>2
    <3>4. Waiting(w)' = Waiting(w)
      BY <3>2, <3>3 DEF Waiting
    <3> QED  BY <2>2, <2>6, <3>4 DEF TimerScheduled, DispatchUnchanged
  <2>7. ASSUME RunsSame \/ \E e : PollDequeue(e) PROVE Reaches(w)'
    <3>1. UNCHANGED <<running, activityTasks>>
      BY <2>7 DEF RunsSame, PollDequeue, envVars
    <3> QED  BY <2>2, <3>1 DEF Waiting
  <2> QED  BY <2>3, <2>4, <2>5, <2>6, <2>7, NextRuns

(* An activity that replay will skip has got its task, or the call that    *)
(* recorded it is still at work: no interleaving of runs, of whatever      *)
(* workflow function, loses one between the two store calls.               *)
THEOREM ScheduledReachesQueueHolds == Spec => []ScheduledReachesQueue
<1> DEFINE Quiet0 == faults = 0 /\ crashes = 0 /\ losses = 0
           Inv == WorkInv /\ (Quiet0 => \A w \in Workflow : Reaches(w))
<1>1. Init => Inv
  <2> SUFFICES ASSUME Init PROVE Inv
    OBVIOUS
  <2>1. WorkInv
    BY FS_EmptySet DEF Init, TimerInit, WorkInv, Apart
  <2>2. ASSUME NEW w \in Workflow PROVE Reaches(w)
    <3>1. Recorded(w, "ActivityScheduled") = {} /\ Waiting(w) = {} /\ activityTasks[w] = 0
      BY SMT DEF Init, StoreInit, Recorded, Waiting
    <3>2. Cardinality({}) = 0
      BY FS_EmptySet
    <3>3. Cardinality(Recorded(w, "ActivityScheduled")) = 0 /\ Cardinality(Waiting(w)) = 0
      BY <3>1, <3>2
    <3> QED  BY <3>1, <3>3, SMT DEF Reaches
  <2> QED  BY <2>1, <2>2
<1>2. IInv /\ Inv /\ [Next]_vars => Inv'
  <2>1. ASSUME Inv, UNCHANGED vars PROVE Inv'
    BY <2>1 DEF vars, storeVars, queueVars, envVars, timerVars, callVars, WorkInv, SchedOK,
                       Apart, InUse, Reaches, Recorded, Waiting
  <2>2. ASSUME IInv, Inv, Next PROVE Inv'
    <3>1. WorkInv'
      BY <2>2, NextWork DEF IInv
    <3>2. ASSUME Quiet0' PROVE \A w \in Workflow : Reaches(w)'
      <4>1. ~Fault /\ ~EngineCrash
        BY <2>2, <3>2, NextAlive DEF IInv
      <4>2. losses = 0 /\ \A r : ~WorkerDies(r)
        BY <2>2, <3>2, NextLosses DEF IInv
      <4>3. faults = 0 /\ crashes = 0
        BY <2>2, <3>2, NextMoves DEF StepOK, Clock
      <4> QED  BY <2>2, <4>1, <4>2, <4>3, NextReaches DEF IInv
    <3> QED  BY <3>1, <3>2
  <2> QED  BY <2>1, <2>2
<1>3. Inv => ScheduledReachesQueue
  BY DEF ScheduledReachesQueue, Reaches, Waiting
<1> QED  BY <1>1, <1>2, <1>3, SafetyInvariant, PTL DEF Spec
=============================================================================
