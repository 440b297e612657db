---------------------------- MODULE EventHistory ----------------------------
(***************************************************************************)
(* What AppendEvent of the Store interface promises for one workflow: the  *)
(* history is a sequence, a call that succeeds adds its event at the end,  *)
(* once, and nothing else ever changes it.  A call that fails has added    *)
(* nothing, unless it was the answer to the commit that got lost.          *)
(***************************************************************************)
EXTENDS Naturals, Sequences

CONSTANTS Appender     \* AppendEvent calls; each appends one event

VARIABLES log,         \* the history, an event being named by its call
          answer       \* what each call returned

Init ==
  /\ log = <<>>
  /\ answer = [a \in Appender |-> "none"]

Succeed(a) ==
  /\ answer[a] = "none"
  /\ log' = Append(log, a)
  /\ answer' = [answer EXCEPT ![a] = "ok"]

Fail(a) ==
  /\ answer[a] = "none"
  /\ log' = log
  /\ answer' = [answer EXCEPT ![a] = "error"]

AnswerLost(a) ==
  /\ answer[a] = "none"
  /\ log' = Append(log, a)
  /\ answer' = [answer EXCEPT ![a] = "error"]

Next == \E a \in Appender : Succeed(a) \/ Fail(a) \/ AnswerLost(a)

Spec == Init /\ [][Next]_<<log, answer>>
=============================================================================
