------------------------------- MODULE Replay -------------------------------
(***************************************************************************)
(* sdk/replay.go: how the commands of a re-run workflow function are       *)
(* matched against the history the task carries.  The cursor is the        *)
(* 1-based position of the next event to look at; 0 stands for "no match". *)
(***************************************************************************)
EXTENDS Naturals, Sequences, FiniteSetsExt

(* The scans stop at the first match.                                      *)
First(hits) == IF hits = {} THEN 0 ELSE Min(hits)

(* Mutant of findActivityScheduled: only looks at the very next event.     *)
findActivityScheduledNext(h, cursor, name) ==
  First({i \in {cursor} \cap 1 .. Len(h) : h[i].type = "ActivityScheduled" /\ h[i].ref = name})

findActivityScheduled(h, cursor, name) ==
  First({i \in cursor .. Len(h) : h[i].type = "ActivityScheduled" /\ h[i].ref = name})

findSignalReceived(h, cursor) ==
  First({i \in cursor .. Len(h) : h[i].type = "SignalReceived"})

(* Any TimerScheduled: the event does not say what the timer is for.       *)
findTimerScheduled(h, cursor) ==
  First({i \in cursor .. Len(h) : h[i].type = "TimerScheduled"})

findTimerFired(h, timer, fromIdx) ==
  First({i \in fromIdx + 1 .. Len(h) : h[i].type = "TimerFired" /\ h[i].ref = timer})

(* Mutant of advance: the cursor stays, so an event can match twice.       *)
advanceNot(cursor, idx) == cursor

(* The cursor never moves back.                                            *)
advance(cursor, idx) == IF idx + 1 > cursor THEN idx + 1 ELSE cursor

=============================================================================
