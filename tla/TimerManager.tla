--------------------------- MODULE TimerManager ---------------------------
(***************************************************************************)
(* engine/timer.go: durable timer rows, the in-memory callback table and   *)
(* the polling loop.  ScheduleTimer is three steps (row, callback, event); *)
(* one poll is FetchDueTimers, which commits the rows as fired, and then   *)
(* one FireTimer per row.  What a callback does belongs to the module that *)
(* schedules the timer ("kind" tells which closure it is); this module     *)
(* only starts its goroutine.                                              *)
(*                                                                         *)
(* Time is abstracted: every unfired row may be due.  A timer id is a      *)
(* uuid in the code and a fresh number here.                               *)
(***************************************************************************)
EXTENDS Store

VARIABLES unfired,     \* timers table: the rows with fired = FALSE
          nextTimer,   \* next timer id
          arming,      \* ScheduleTimer calls in flight
          callbacks,   \* TimerManager.callbacks
          firing,      \* rows fetched by the running fireDue, still to do
          goroutines   \* callbacks started by `go cb()`, with their pc

timerVars == <<unfired, nextTimer, arming, callbacks, firing, goroutines>>

Kind == {"sleep", "timeout", "retry"}

Timer == [id : Nat, wf : Workflow, kind : Kind]

ArmStep == {"inserted", "hooked"}

CallbackPc == {"spawned", "claimed", "expired", "recorded"}

TimerInit ==
  /\ unfired = {}
  /\ nextTimer = 1
  /\ arming = {}
  /\ callbacks = {}
  /\ firing = {}
  /\ goroutines = {}

TimerTypeOK ==
  /\ unfired \subseteq Timer
  /\ nextTimer \in Nat \ {0}
  /\ arming \subseteq [timer : Timer, step : ArmStep]
  /\ callbacks \subseteq Timer
  /\ firing \subseteq Timer
  /\ goroutines \subseteq [timer : Timer, pc : CallbackPc]

(* ScheduleTimer, first step: InsertTimer commits the row.  From here on   *)
(* the polling loop can see it.                                            *)
InsertTimer(t) ==
  /\ t.id = nextTimer
  /\ nextTimer' = nextTimer + 1
  /\ unfired' = unfired \cup {t}
  /\ arming' = arming \cup {[timer |-> t, step |-> "inserted"]}
  /\ UNCHANGED <<callbacks, firing, goroutines>>

(* Second step, under tm.mu.                                               *)
HookCallback(t) ==
  /\ [timer |-> t, step |-> "inserted"] \in arming
  /\ callbacks' = callbacks \cup {t}
  /\ arming' = (arming \ {[timer |-> t, step |-> "inserted"]})
                 \cup {[timer |-> t, step |-> "hooked"]}
  /\ UNCHANGED <<storeVars, unfired, nextTimer, firing, goroutines>>

(* Third step: a failed append is only logged, the call still succeeds.    *)
AppendTimerScheduled(t) ==
  /\ [timer |-> t, step |-> "hooked"] \in arming
  /\ arming' = arming \ {[timer |-> t, step |-> "hooked"]}
  /\ TryAppendEvent(t.wf, EvOf("TimerScheduled", t.id))
  /\ UNCHANGED <<status, unfired, nextTimer, callbacks, firing, goroutines>>

(* The loop runs one fireDue at a time.  The transaction marks the rows    *)
(* fired and commits before anything else is done for them.                *)
FetchDueTimers(due) ==
  /\ firing = {}
  /\ due # {}
  /\ due \subseteq unfired
  /\ unfired' = unfired \ due
  /\ firing' = due
  /\ UNCHANGED <<storeVars, nextTimer, arming, callbacks, goroutines>>

(* Mutant of FireTimer: the callback is taken out and not started.         *)
FireTimerSilent(t) ==
  /\ t \in firing
  /\ firing' = firing \ {t}
  /\ TryAppendEvent(t.wf, EvOf("TimerFired", t.id))
  /\ callbacks' = callbacks \ {t}
  /\ UNCHANGED <<status, unfired, nextTimer, arming, goroutines>>

(* The body of fireDue's loop: append TimerFired (a failure is logged),    *)
(* take the callback out of the table and start it.                        *)
FireTimer(t) ==
  /\ t \in firing
  /\ firing' = firing \ {t}
  /\ TryAppendEvent(t.wf, EvOf("TimerFired", t.id))
  /\ callbacks' = callbacks \ {t}
  /\ goroutines' = IF t \in callbacks
                     THEN goroutines \cup {[timer |-> t, pc |-> "spawned"]}
                     ELSE goroutines
  /\ UNCHANGED <<status, unfired, nextTimer, arming>>

(* A callback goroutine moves on, or ends.                                 *)
CallbackGoto(g, pc) == goroutines' = (goroutines \ {g}) \cup {[g EXCEPT !.pc = pc]}

CallbackEnd(g) == goroutines' = goroutines \ {g}

(* The process dies: rows stay.  RecoverPendingTimers of the next process  *)
(* counts the unfired rows and registers nothing, so its table is empty.   *)
TimerCrash ==
  /\ arming' = {}
  /\ callbacks' = {}
  /\ firing' = {}
  /\ goroutines' = {}
  /\ UNCHANGED <<unfired, nextTimer>>

=============================================================================
