---------------------------- MODULE WorkflowLife ----------------------------
(***************************************************************************)
(* What workflow dispatch promises about the life of a workflow, whatever  *)
(* its handlers, workers and timers do in between.  An open workflow has   *)
(* one right to run on and leaves that state once: for its outcome, or,    *)
(* after a call failed or the engine died, because the right is lost.      *)
(* Nothing reopens a finished workflow, and nothing revives a stranded     *)
(* one: no signal, timer, retry, reclaim or restart.                       *)
(***************************************************************************)
CONSTANTS Workflow

VARIABLES phase,       \* of each workflow
          upset        \* a call has failed or the engine has died

Init ==
  /\ phase = [w \in Workflow |-> "absent"]
  /\ upset = FALSE

Start(w) == phase[w] = "absent" /\ phase'[w] = "open"

Finish(w) == phase[w] = "open" /\ phase'[w] = "finished"

Strand(w) == upset' /\ phase[w] = "open" /\ phase'[w] = "stranded"

(* A crash may strand several workflows at once.                           *)
Next ==
  /\ upset => upset'
  /\ DOMAIN phase' = Workflow
  /\ \A w \in Workflow : phase'[w] = phase[w] \/ Start(w) \/ Finish(w) \/ Strand(w)

Spec == Init /\ [][Next]_<<phase, upset>>
=============================================================================
