---------------------------- MODULE ActivityLife ----------------------------
(***************************************************************************)
(* What the activity handlers promise about the life of an activity: while *)
(* it is due it may fail and stay due, as long as the retry policy leaves  *)
(* an attempt; its last outcome closes it.  A failing call or a crash may  *)
(* close it without one.  A closed activity stays closed: no late worker,  *)
(* retry timer, reclaim or restart adds an outcome or runs it again.       *)
(***************************************************************************)
EXTENDS Naturals

CONSTANTS Activity, MaximumAttempts

VARIABLES phase,       \* of each activity
          outcomes,    \* the number of outcomes recorded of each
          upset        \* a call has failed or the engine has died

Init ==
  /\ phase = [a \in Activity |-> "absent"]
  /\ outcomes = [a \in Activity |-> 0]
  /\ upset = FALSE

Stay(a) == phase'[a] = phase[a] /\ outcomes'[a] = outcomes[a]

Schedule(a) == phase[a] = "absent" /\ phase'[a] = "due" /\ outcomes'[a] = outcomes[a]

Retry(a) ==
  /\ phase[a] = "due" /\ phase'[a] = "due"
  /\ outcomes'[a] = outcomes[a] + 1 /\ outcomes'[a] < MaximumAttempts

Settle(a) ==
  /\ phase[a] = "due" /\ phase'[a] \in {"completed", "ended"}
  /\ outcomes'[a] = outcomes[a] + 1 /\ outcomes'[a] <= MaximumAttempts

Lose(a) ==
  /\ upset'
  /\ phase[a] \in {"absent", "due"} /\ phase'[a] = "ended"
  /\ outcomes'[a] = outcomes[a]

(* A crash may close several activities at once.                           *)
Next ==
  /\ upset => upset'
  /\ DOMAIN phase' = Activity /\ DOMAIN outcomes' = Activity
  /\ \A a \in Activity : Stay(a) \/ Schedule(a) \/ Retry(a) \/ Settle(a) \/ Lose(a)

Spec == Init /\ [][Next]_<<phase, outcomes, upset>>
=============================================================================
