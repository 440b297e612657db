--------------------------- MODULE SignalWaiters ---------------------------
(***************************************************************************)
(* The in-process signal table of one workflow (engine/engine.go): buffer, *)
(* waiters and the one-slot channel of each waiter.  Deliver is            *)
(* DeliverSignal, called by SignalWorkflow; a waiter is one WaitForSignal  *)
(* call of the engine API.  Both run under signalsMu; the select of a      *)
(* waiter does not.                                                        *)
(*                                                                         *)
(* Signals are numbered in the order of their delivery.                    *)
(***************************************************************************)
EXTENDS Naturals, SequencesExt

CONSTANTS Waiter,       \* WaitForSignal calls
          MaxSignals    \* bound on signals

ASSUME SignalsAssumption == MaxSignals \in Nat

VARIABLES delivered,      \* number of signals delivered so far
          signalQueues,   \* buffered signals, oldest first
          signalWaiters,  \* registered waiters, oldest first
          chan,           \* what the channel of a waiter holds, 0 for nothing
          pc,             \* where a WaitForSignal call is
          returned        \* the signal it returned, 0 for none

vars == <<delivered, signalQueues, signalWaiters, chan, pc, returned>>

Signal == 1 .. MaxSignals

TypeOK ==
  /\ delivered \in 0 .. MaxSignals
  /\ signalQueues \in Seq(Signal)
  /\ signalWaiters \in Seq(Waiter)
  /\ chan \in [Waiter -> {0} \cup Signal]
  /\ pc \in [Waiter -> {"idle", "select", "leaving", "done"}]
  /\ returned \in [Waiter -> {0} \cup Signal]

Init ==
  /\ delivered = 0
  /\ signalQueues = <<>>
  /\ signalWaiters = <<>>
  /\ chan = [w \in Waiter |-> 0]
  /\ pc = [w \in Waiter |-> "idle"]
  /\ returned = [w \in Waiter |-> 0]

(* Mutant of DeliverSignal: buffers the signal as well as handing it over. *)
DeliverTwice ==
  /\ delivered < MaxSignals
  /\ delivered' = delivered + 1
  /\ signalQueues' = Append(signalQueues, delivered + 1)
  /\ IF signalWaiters # <<>>
       THEN /\ chan' = [chan EXCEPT ![Head(signalWaiters)] = delivered + 1]
            /\ signalWaiters' = Tail(signalWaiters)
       ELSE UNCHANGED <<chan, signalWaiters>>
  /\ UNCHANGED <<pc, returned>>

(* Hand over to the oldest waiter, or buffer.                              *)
DeliverSignal ==
  /\ delivered < MaxSignals
  /\ delivered' = delivered + 1
  /\ IF signalWaiters # <<>>
       THEN /\ chan' = [chan EXCEPT ![Head(signalWaiters)] = delivered + 1]
            /\ signalWaiters' = Tail(signalWaiters)
            /\ UNCHANGED signalQueues
       ELSE /\ signalQueues' = Append(signalQueues, delivered + 1)
            /\ UNCHANGED <<chan, signalWaiters>>
  /\ UNCHANGED <<pc, returned>>

(* Mutant of WaitForSignal: registers without looking at the buffer.       *)
WaitBlindly(w) ==
  /\ pc[w] = "idle"
  /\ signalWaiters' = Append(signalWaiters, w)
  /\ pc' = [pc EXCEPT ![w] = "select"]
  /\ UNCHANGED <<delivered, signalQueues, chan, returned>>

(* Mutant of WaitForSignal: takes the newest signal of the buffer.         *)
WaitTakesNewest(w) ==
  /\ pc[w] = "idle"
  /\ IF signalQueues # <<>>
       THEN /\ returned' = [returned EXCEPT ![w] = Last(signalQueues)]
            /\ signalQueues' = Front(signalQueues)
            /\ pc' = [pc EXCEPT ![w] = "done"]
            /\ UNCHANGED signalWaiters
       ELSE /\ signalWaiters' = Append(signalWaiters, w)
            /\ pc' = [pc EXCEPT ![w] = "select"]
            /\ UNCHANGED <<signalQueues, returned>>
  /\ UNCHANGED <<delivered, chan>>

(* The critical section at the start of WaitForSignal.                     *)
WaitForSignal(w) ==
  /\ pc[w] = "idle"
  /\ IF signalQueues # <<>>
       THEN /\ returned' = [returned EXCEPT ![w] = Head(signalQueues)]
            /\ signalQueues' = Tail(signalQueues)
            /\ pc' = [pc EXCEPT ![w] = "done"]
            /\ UNCHANGED signalWaiters
       ELSE /\ signalWaiters' = Append(signalWaiters, w)
            /\ pc' = [pc EXCEPT ![w] = "select"]
            /\ UNCHANGED <<signalQueues, returned>>
  /\ UNCHANGED <<delivered, chan>>

Receive(w) ==
  /\ pc[w] = "select"
  /\ chan[w] # 0
  /\ returned' = [returned EXCEPT ![w] = chan[w]]
  /\ chan' = [chan EXCEPT ![w] = 0]
  /\ pc' = [pc EXCEPT ![w] = "done"]
  /\ UNCHANGED <<delivered, signalQueues, signalWaiters>>

(* Mutants of GiveUp: no timer is started, so only a call that has a       *)
(* signal leaves; and a state no one knows how to leave.                   *)
GiveUpWithoutTimer(w) ==
  /\ pc[w] = "select"
  /\ chan[w] # 0
  /\ pc' = [pc EXCEPT ![w] = "leaving"]
  /\ UNCHANGED <<delivered, signalQueues, signalWaiters, chan, returned>>

GiveUpForGood(w) ==
  /\ pc[w] = "select"
  /\ pc' = [pc EXCEPT ![w] = "cancelled"]
  /\ UNCHANGED <<delivered, signalQueues, signalWaiters, chan, returned>>

(* The timer or the caller's context wins the select; with a signal in the *)
(* channel at the same time the choice is random.                          *)
GiveUp(w) ==
  /\ pc[w] = "select"
  /\ pc' = [pc EXCEPT ![w] = "leaving"]
  /\ UNCHANGED <<delivered, signalQueues, signalWaiters, chan, returned>>

(* Mutant of removeWaiter: the waiter stays registered.                    *)
removeNothing(w) ==
  /\ pc[w] = "leaving"
  /\ pc' = [pc EXCEPT ![w] = "done"]
  /\ UNCHANGED <<delivered, signalQueues, signalWaiters, chan, returned>>

(* The first place of the waiter in the list, if it is there.              *)
PlaceOf(w) ==
  {i \in DOMAIN signalWaiters :
     signalWaiters[i] = w /\ \A j \in 1 .. i - 1 : signalWaiters[j] # w}

removeWaiter(w) ==
  /\ pc[w] = "leaving"
  /\ pc' = [pc EXCEPT ![w] = "done"]
  /\ IF PlaceOf(w) = {}
       THEN UNCHANGED signalWaiters
       ELSE \E i \in PlaceOf(w) : signalWaiters' = RemoveAt(signalWaiters, i)
  /\ UNCHANGED <<delivered, signalQueues, chan, returned>>

Next ==
  \/ DeliverSignal
  \/ \E w \in Waiter : WaitForSignal(w) \/ Receive(w) \/ GiveUp(w) \/ removeWaiter(w)

Spec == Init /\ [][Next]_vars

(* A waiter's timer always goes off, and a goroutine that can run does.    *)
FairSpec == Spec /\ \A w \in Waiter : WF_vars(Receive(w) \/ GiveUp(w) \/ removeWaiter(w))

-----------------------------------------------------------------------------
Buffered == {signalQueues[i] : i \in DOMAIN signalQueues}
HandedTo(w) == {chan[w], returned[w]} \ {0}

(* Nobody waits while a signal is buffered: a waiter registers only on an  *)
(* empty buffer, and DeliverSignal buffers only without waiters.           *)
NoWaitOnBuffered == signalQueues = <<>> \/ signalWaiters = <<>>

(* A signal goes to one place: two calls never return the same one, none   *)
(* is both handed over and buffered.                                       *)
DeliveredOnce ==
  /\ \A w \in Waiter : Buffered \cap HandedTo(w) = {}
  /\ \A v, w \in Waiter : v # w => HandedTo(v) \cap HandedTo(w) = {}
  /\ \A w \in Waiter : chan[w] = 0 \/ returned[w] = 0

(* Signals leave the buffer in the order of delivery: all that is handed   *)
(* over is older than all that is buffered.                                *)
OldestFirst ==
  \A s \in Buffered : \A w \in Waiter : \A t \in HandedTo(w) : t < s

(* A registered waiter is a call that can still take a signal or is about  *)
(* to sign off, so a signal is never handed to a call that has returned.   *)
WaitersLive ==
  \A i \in DOMAIN signalWaiters :
    pc[signalWaiters[i]] \in {"select", "leaving"} /\ chan[signalWaiters[i]] = 0

(* Every WaitForSignal call returns, with a signal or without.             *)
WaitReturns == \A w \in Waiter : pc[w] = "select" ~> pc[w] = "done"
=============================================================================
