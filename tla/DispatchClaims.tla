--------------------------- MODULE DispatchClaims ---------------------------
(***************************************************************************)
(* What the documentation and the comments of the repository say of the    *)
(* dispatch of workflow tasks and the code does not do.  Each operator     *)
(* states one sentence; the README quotes it and tells how the code        *)
(* departs from it.                                                        *)
(***************************************************************************)
EXTENDS MCWorkflowDispatch

(* The replay cursor after k commands of the workflow function run against *)
(* the whole history h; 0 when the function stops at or before command k.  *)
CursorAfter(h) ==
  LET cur[k \in 0 .. Len(Program)] ==
        IF k = 0 THEN 1
        ELSE IF cur[k - 1] = 0 THEN 0
        ELSE IF Program[k] = "signal"
          THEN LET idx == findSignalReceived(h, cur[k - 1])
               IN  IF idx = 0 THEN 0 ELSE advance(cur[k - 1], idx)
        ELSE IF Program[k] = "activity"
          THEN LET idx == findActivityScheduled(h, cur[k - 1], ActivityName)
               IN  IF idx = 0 THEN 0 ELSE advance(cur[k - 1], idx)
          ELSE LET sched == findTimerScheduled(h, cur[k - 1])
                   fired == IF sched = 0 THEN 0
                            ELSE findTimerFired(h, h[sched].ref, sched)
               IN  IF fired = 0 THEN 0 ELSE advance(cur[k - 1], fired)
  IN  cur

WakeInFlight(w) ==
  \/ \E s \in Signal : s[1] = w /\ signalPc[s] = "recorded"
  \/ \E g \in goroutines : g.timer.wf = w

(* timers.mdx, signals.mdx: a fired timer or a received signal resumes the *)
(* workflow.  So a workflow that is parked, with no call or callback left  *)
(* that would wake it, waits for something its history does not hold yet.  *)
ParkedIsBlocked ==
  \A w \in awaiting :
    WakeInFlight(w) \/ CursorAfter(history[w])[Len(Program)] = 0

(* timers.mdx: an engine restart mid-sleep loses nothing.  So a workflow   *)
(* that is parked on a Sleep whose timer is armed runs on to its finish    *)
(* (for a function that ends after that Sleep).                            *)
SleepEnds ==
  \A w \in Workflow :
    (w \in awaiting /\ \E t \in unfired \cap callbacks : t.wf = w /\ t.kind = "sleep")
      ~> Finishes(w) # {}

(* replay.go: a QueueActivity found in the history is skipped, so that     *)
(* re-runs do not reschedule activities.  So without failing calls, dead   *)
(* workers or a dead engine, the history holds at most one                 *)
(* ActivityScheduled per QueueActivity of the function.                    *)
NotRescheduled ==
  faults = 0 /\ losses = 0 /\ crashes = 0 =>
    \A w \in Workflow :
      Cardinality(Recorded(w, "ActivityScheduled")) <= Cardinality(Commands("activity"))
=============================================================================
