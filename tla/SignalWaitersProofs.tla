------------------------ MODULE SignalWaitersProofs ------------------------
(***************************************************************************)
(* For any number of WaitForSignal calls and signals: a signal goes to one *)
(* place, the oldest first, and only to a call that can still take it.     *)
(*                                                                         *)
(* The invariant is about places: a call is registered once, the buffer is *)
(* sorted, and all that was handed over is older than all that is in it.   *)
(***************************************************************************)
EXTENDS SignalWaiters, SequenceTheorems, TLAPS

(* The table of waiters: each call once, able to take a signal.            *)
Registered ==
  /\ \A i, j \in DOMAIN signalWaiters : signalWaiters[i] = signalWaiters[j] => i = j
  /\ WaitersLive

(* The buffer: in order, nothing in it that is not delivered.              *)
Ordered ==
  /\ \A i, j \in DOMAIN signalQueues : i < j => signalQueues[i] < signalQueues[j]
  /\ \A i \in DOMAIN signalQueues : signalQueues[i] <= delivered

(* A call has nothing before it starts, and returns at most once.          *)
Calls ==
  \A w \in Waiter :
    /\ pc[w] = "idle" => chan[w] = 0
    /\ pc[w] # "done" => returned[w] = 0
    /\ chan[w] = 0 \/ returned[w] = 0

(* What is handed over: delivered, to one call, before all that is left.   *)
Handed ==
  \A w \in Waiter :
    /\ chan[w] <= delivered /\ returned[w] <= delivered
    /\ \A v \in Waiter :
         /\ chan[w] # 0 /\ chan[w] = chan[v] => v = w
         /\ returned[w] # 0 /\ returned[w] = returned[v] => v = w
         /\ chan[w] # 0 => chan[w] # returned[v]
    /\ \A i \in DOMAIN signalQueues : chan[w] < signalQueues[i] /\ returned[w] < signalQueues[i]

IInv == TypeOK /\ NoWaitOnBuffered /\ Registered /\ Ordered /\ Calls /\ Handed

-----------------------------------------------------------------------------
(* Removing one element closes the gap and keeps the order.                *)
LEMMA RemoveAtFacts ==
  ASSUME NEW S, NEW s \in Seq(S), NEW i \in DOMAIN s
  PROVE  /\ RemoveAt(s, i) \in Seq(S)
         /\ DOMAIN RemoveAt(s, i) = 1 .. Len(s) - 1
         /\ \A j \in 1 .. Len(s) - 1 :
              RemoveAt(s, i)[j] = IF j < i THEN s[j] ELSE s[j + 1]
<1> DEFINE a == SubSeq(s, 1, i - 1)
           b == SubSeq(s, i + 1, Len(s))
<1>1. Len(s) \in Nat /\ i \in 1 .. Len(s)
  OBVIOUS
<1>2. a \in Seq(S) /\ Len(a) = i - 1 /\ \A j \in 1 .. i - 1 : a[j] = s[j]
  BY <1>1, SubSeqProperties
<1>3. b \in Seq(S) /\ Len(b) = Len(s) - i /\ \A j \in 1 .. Len(s) - i : b[j] = s[i + j]
  BY <1>1, SubSeqProperties
<1>4. RemoveAt(s, i) = a \o b
  BY DEF RemoveAt
<1> HIDE DEF a, b
<1>5. /\ a \o b \in Seq(S) /\ Len(a \o b) = Len(s) - 1
      /\ \A j \in 1 .. Len(s) - 1 : (a \o b)[j] = IF j <= i - 1 THEN a[j] ELSE b[j - (i - 1)]
  BY <1>1, <1>2, <1>3, ConcatProperties, SMTT(30)
<1>6. ASSUME NEW j \in 1 .. Len(s) - 1
      PROVE  (a \o b)[j] = IF j < i THEN s[j] ELSE s[j + 1]
  <2>1. CASE j < i
    BY <1>1, <1>2, <1>5, <2>1
  <2>2. CASE ~(j < i)
    <3>1. j - (i - 1) \in 1 .. Len(s) - i /\ i + (j - (i - 1)) = j + 1
      BY <1>1, <2>2
    <3>2. (a \o b)[j] = b[j - (i - 1)]
      BY <1>1, <1>5, <2>2
    <3>3. b[j - (i - 1)] = s[i + (j - (i - 1))]
      BY <1>3, <3>1, Zenon
    <3> QED  BY <2>2, <3>1, <3>2, <3>3, Zenon
  <2> QED  BY <2>1, <2>2, Zenon
<1>7. DOMAIN (a \o b) = 1 .. Len(s) - 1
  BY <1>1, <1>5, LenProperties
<1> QED  BY <1>4, <1>5, <1>6, <1>7, Zenon

LEMMA InitIInv == Init => IInv
BY SignalsAssumption
   DEF Init, IInv, TypeOK, NoWaitOnBuffered, Registered, WaitersLive, Ordered, Calls, Handed, Signal

LEMMA DeliverIInv ==
  ASSUME IInv, DeliverSignal
  PROVE  IInv'
<1> USE DEF IInv
<1>0. delivered + 1 \in Signal /\ delivered + 1 \in 1 .. MaxSignals /\ delivered \in Nat
  BY SignalsAssumption DEF DeliverSignal, TypeOK, Signal
<1>1. CASE signalWaiters # <<>>
  <2> DEFINE h == Head(signalWaiters)
  <2>1. /\ signalQueues = <<>> /\ signalQueues' = signalQueues /\ delivered' = delivered + 1
        /\ chan' = [chan EXCEPT ![h] = delivered + 1]
        /\ signalWaiters' = Tail(signalWaiters) /\ pc' = pc /\ returned' = returned
    BY <1>1 DEF DeliverSignal, NoWaitOnBuffered
  <2>2. /\ h \in Waiter /\ h = signalWaiters[1] /\ Len(signalWaiters) \in Nat \ {0}
        /\ Tail(signalWaiters) \in Seq(Waiter)
        /\ DOMAIN Tail(signalWaiters) = 1 .. Len(signalWaiters) - 1
        /\ \A i \in 1 .. Len(signalWaiters) - 1 : Tail(signalWaiters)[i] = signalWaiters[i + 1]
    BY <1>1 DEF TypeOK
  <2>3. chan[h] = 0 /\ returned[h] = 0 /\ pc[h] \in {"select", "leaving"}
    BY <2>2 DEF Registered, WaitersLive, Calls, TypeOK
  <2> HIDE DEF h
  <2>4. TypeOK'
    BY <1>0, <2>1, <2>2 DEF TypeOK
  <2>5. Registered'
    BY <2>1, <2>2, SMTT(30) DEF Registered, WaitersLive, TypeOK
  <2>6. NoWaitOnBuffered' /\ Ordered'
    BY <2>1 DEF NoWaitOnBuffered, Ordered
  <2>7. Calls'
    BY <2>1, <2>2, <2>3 DEF Calls, TypeOK
  <2>8. Handed'
    BY <1>0, <2>1, <2>2, <2>3 DEF Handed, TypeOK, Signal
  <2> QED  BY <2>4, <2>5, <2>6, <2>7, <2>8
<1>2. CASE signalWaiters = <<>>
  <2>1. /\ delivered' = delivered + 1 /\ signalQueues' = Append(signalQueues, delivered + 1)
        /\ UNCHANGED <<chan, signalWaiters, pc, returned>>
    BY <1>2 DEF DeliverSignal
  <2> DEFINE n == Len(signalQueues)
  <2>2. /\ signalQueues' \in Seq(Signal) /\ n \in Nat
        /\ DOMAIN signalQueues = 1 .. n /\ DOMAIN signalQueues' = 1 .. n + 1
        /\ \A i \in 1 .. n : signalQueues'[i] = signalQueues[i] /\ signalQueues[i] \in Nat
        /\ signalQueues'[n + 1] = delivered + 1
    <3>1. signalQueues \in Seq(Signal)
      BY Zenon DEF TypeOK
    <3>2. n \in Nat /\ DOMAIN signalQueues = 1 .. n /\ \A i \in 1 .. n : signalQueues[i] \in Signal
      BY <3>1, LenProperties, ElementOfSeq
    <3>3. /\ signalQueues' \in Seq(Signal) /\ Len(signalQueues') = n + 1
          /\ signalQueues'[n + 1] = delivered + 1
          /\ \A i \in 1 .. n : signalQueues'[i] = signalQueues[i]
      BY <1>0, <2>1, <3>1, AppendProperties
    <3>4. DOMAIN signalQueues' = 1 .. n + 1
      BY <3>3, LenProperties
    <3>5. Signal \subseteq Nat
      BY SMTT(30) DEF Signal
    <3> QED  BY <3>2, <3>3, <3>4, <3>5, Zenon
  <2> HIDE DEF n
  <2>3. TypeOK'
    BY <1>0, <2>1, <2>2 DEF TypeOK
  <2>4. NoWaitOnBuffered' /\ Registered' /\ Calls'
    BY <1>2, <2>1, Zenon DEF NoWaitOnBuffered, Registered, WaitersLive, Calls
  <2>5. Ordered'
    <3>1. ASSUME NEW i \in 1 .. n + 1 PROVE i \in 1 .. n \/ i = n + 1
      BY <2>2
    <3>2. ASSUME NEW i \in 1 .. n PROVE signalQueues[i] < delivered + 1
      BY <1>0, <2>2 DEF Ordered
    <3> QED  BY <1>0, <2>1, <2>2, <3>1, <3>2, SMTT(30) DEF Ordered
  <2>6. Handed'
    BY <1>0, <2>1, <2>2, SMTT(30) DEF Handed, TypeOK, Signal
  <2> QED  BY <2>3, <2>4, <2>5, <2>6
<1> QED  BY <1>1, <1>2

LEMMA WaitIInv ==
  ASSUME IInv, NEW w \in Waiter, WaitForSignal(w)
  PROVE  IInv'
<1> USE DEF IInv
<1>0. pc[w] = "idle" /\ chan[w] = 0 /\ returned[w] = 0 /\ UNCHANGED <<delivered, chan>>
  BY DEF WaitForSignal, Calls
<1>1. CASE signalQueues # <<>>
  <2> DEFINE h == Head(signalQueues)
  <2>1. /\ signalWaiters = <<>> /\ signalWaiters' = signalWaiters
        /\ returned' = [returned EXCEPT ![w] = h]
        /\ signalQueues' = Tail(signalQueues)
        /\ pc' = [pc EXCEPT ![w] = "done"]
    BY <1>1 DEF WaitForSignal, NoWaitOnBuffered
  <2>2. /\ h \in Signal /\ h = signalQueues[1] /\ Len(signalQueues) \in Nat \ {0}
        /\ Tail(signalQueues) \in Seq(Signal)
        /\ DOMAIN Tail(signalQueues) = 1 .. Len(signalQueues) - 1
        /\ \A i \in 1 .. Len(signalQueues) - 1 : Tail(signalQueues)[i] = signalQueues[i + 1]
    BY <1>1 DEF TypeOK
  <2> HIDE DEF h
  <2>3. TypeOK'
    BY <1>0, <2>1, <2>2 DEF TypeOK
  <2>4. NoWaitOnBuffered' /\ Registered'
    BY <1>0, <2>1 DEF NoWaitOnBuffered, Registered, WaitersLive
  <2>5. Ordered'
    BY <1>0, <2>1, <2>2, SMTT(30) DEF Ordered, TypeOK, Signal
  <2>6. Calls'
    BY <1>0, <2>1 DEF Calls, TypeOK
  <2>7. h <= delivered /\ \A v \in Waiter : chan[v] < h /\ returned[v] < h
    BY <2>2 DEF Handed, Ordered, TypeOK
  <2>8. \A i \in DOMAIN Tail(signalQueues) : h < Tail(signalQueues)[i]
    BY <2>2 DEF Ordered, TypeOK
  <2>9. Handed'
    BY <1>0, <2>1, <2>2, <2>7, <2>8 DEF Handed, TypeOK, Signal
  <2> QED  BY <2>3, <2>4, <2>5, <2>6, <2>9
<1>2. CASE signalQueues = <<>>
  <2>1. /\ signalWaiters' = Append(signalWaiters, w)
        /\ pc' = [pc EXCEPT ![w] = "select"]
        /\ UNCHANGED <<signalQueues, returned>>
    BY <1>2 DEF WaitForSignal
  <2>2. /\ Append(signalWaiters, w) \in Seq(Waiter) /\ Len(signalWaiters) \in Nat
        /\ DOMAIN Append(signalWaiters, w) = 1 .. Len(signalWaiters) + 1
        /\ \A i \in 1 .. Len(signalWaiters) + 1 :
             Append(signalWaiters, w)[i] = IF i <= Len(signalWaiters) THEN signalWaiters[i] ELSE w
    BY DEF TypeOK
  <2>3. \A i \in DOMAIN signalWaiters : signalWaiters[i] # w
    BY <1>0 DEF Registered, WaitersLive
  <2>4. TypeOK'
    BY <1>0, <2>1, <2>2 DEF TypeOK
  <2>5. Registered'
    BY <1>0, <2>1, <2>2, <2>3 DEF Registered, WaitersLive, TypeOK
  <2>6. NoWaitOnBuffered' /\ Ordered' /\ Handed'
    BY <1>0, <1>2, <2>1, Zenon DEF NoWaitOnBuffered, Ordered, Handed
  <2>7. Calls'
    BY <1>0, <2>1 DEF Calls, TypeOK
  <2> QED  BY <2>4, <2>5, <2>6, <2>7
<1> QED  BY <1>1, <1>2

(* The two ways out of the select.                                         *)
LEMMA ReceiveIInv ==
  ASSUME IInv, NEW w \in Waiter, Receive(w)
  PROVE  IInv'
<1> USE DEF IInv, Receive
<1>1. TypeOK'
  BY DEF TypeOK
<1>2. NoWaitOnBuffered' /\ Ordered'
  BY Zenon DEF NoWaitOnBuffered, Ordered
<1>3. Registered'
  BY DEF Registered, WaitersLive, TypeOK
<1>4. Calls'
  BY DEF Calls, TypeOK
<1>5. Handed'
  BY DEF Handed, Calls, TypeOK, Signal
<1> QED  BY <1>1, <1>2, <1>3, <1>4, <1>5, Zenon

LEMMA GiveUpIInv ==
  ASSUME IInv, NEW w \in Waiter, GiveUp(w)
  PROVE  IInv'
<1> USE DEF IInv, GiveUp
<1>1. TypeOK'
  BY DEF TypeOK
<1>2. NoWaitOnBuffered' /\ Ordered' /\ Handed'
  BY Zenon DEF NoWaitOnBuffered, Ordered, Handed
<1>3. Registered' /\ Calls'
  BY DEF Registered, WaitersLive, Calls, TypeOK
<1> QED  BY <1>1, <1>2, <1>3, Zenon

LEMMA RemoveIInv ==
  ASSUME IInv, NEW w \in Waiter, removeWaiter(w)
  PROVE  IInv'
<1> USE DEF IInv
<1>0. /\ pc[w] = "leaving" /\ pc' = [pc EXCEPT ![w] = "done"]
      /\ UNCHANGED <<delivered, signalQueues, chan, returned>>
  BY DEF removeWaiter
<1>1. Ordered' /\ Handed'
  BY <1>0, Zenon DEF Ordered, Handed
<1>2. Calls'
  BY <1>0 DEF Calls, TypeOK
<1>3. CASE PlaceOf(w) = {}
  <2>1. signalWaiters' = signalWaiters
    BY <1>3, Zenon DEF removeWaiter
  <2>2. \A i \in DOMAIN signalWaiters : signalWaiters[i] # w
    <3>1. ASSUME NEW i \in DOMAIN signalWaiters, signalWaiters[i] = w
          PROVE  i \in PlaceOf(w)
      BY <3>1 DEF PlaceOf, Registered, TypeOK
    <3> QED  BY <1>3, <3>1, Zenon
  <2> QED  BY <1>0, <1>1, <1>2, <2>1, <2>2
           DEF TypeOK, NoWaitOnBuffered, Registered, WaitersLive
<1>4. CASE PlaceOf(w) # {}
  <2>1. PICK i \in PlaceOf(w) : signalWaiters' = RemoveAt(signalWaiters, i)
    BY <1>4, Zenon DEF removeWaiter
  <2>2. i \in DOMAIN signalWaiters /\ signalWaiters[i] = w /\ Len(signalWaiters) \in Nat
        /\ i \in 1 .. Len(signalWaiters)
    BY <2>1 DEF PlaceOf, TypeOK
  <2>3. /\ signalWaiters' \in Seq(Waiter)
        /\ DOMAIN signalWaiters' = 1 .. Len(signalWaiters) - 1
        /\ \A j \in 1 .. Len(signalWaiters) - 1 :
             signalWaiters'[j] = IF j < i THEN signalWaiters[j] ELSE signalWaiters[j + 1]
    BY <2>1, <2>2, RemoveAtFacts, Zenon DEF TypeOK
  <2>4. TypeOK'
    BY <1>0, <2>3 DEF TypeOK
  <2>5. NoWaitOnBuffered'
    BY <1>0, <2>2 DEF NoWaitOnBuffered
  <2>6. Registered'
    <3> DEFINE old(j) == IF j < i THEN j ELSE j + 1
    <3>1. ASSUME NEW j \in DOMAIN signalWaiters'
          PROVE  /\ old(j) \in DOMAIN signalWaiters /\ old(j) # i
                 /\ signalWaiters'[j] = signalWaiters[old(j)]
      BY <2>2, <2>3
    <3>2. ASSUME NEW j \in DOMAIN signalWaiters', NEW k \in DOMAIN signalWaiters', old(j) = old(k)
          PROVE  j = k
      BY <2>2, <2>3, <3>2
    <3> HIDE DEF old
    <3>3. ASSUME NEW j \in DOMAIN signalWaiters'
          PROVE  signalWaiters'[j] \in Waiter \ {w}
      BY <2>2, <3>1 DEF Registered, TypeOK
    <3>4. WaitersLive'
      BY <1>0, <3>1, <3>3, SMTT(30) DEF Registered, WaitersLive, TypeOK
    <3> QED  BY <3>1, <3>2, <3>4, Zenon DEF Registered
  <2> QED  BY <1>1, <1>2, <2>4, <2>5, <2>6
<1> QED  BY <1>3, <1>4

LEMMA Invariance == Spec => []IInv
<1>1. IInv /\ [Next]_vars => IInv'
  <2> SUFFICES ASSUME IInv, [Next]_vars PROVE IInv'
    OBVIOUS
  <2>1. CASE DeliverSignal
    BY <2>1, DeliverIInv, Zenon
  <2>2. ASSUME NEW w \in Waiter, WaitForSignal(w) \/ Receive(w) \/ GiveUp(w) \/ removeWaiter(w)
        PROVE  IInv'
    BY <2>2, WaitIInv, ReceiveIInv, GiveUpIInv, RemoveIInv, Zenon
  <2>3. CASE UNCHANGED vars
    BY <2>3, Zenon DEF vars, IInv, TypeOK, NoWaitOnBuffered, Registered, WaitersLive,
                       Ordered, Calls, Handed
  <2> QED  BY <2>1, <2>2, <2>3, Zenon DEF Next
<1> QED  BY <1>1, InitIInv, PTL DEF Spec

(* Type correctness.                                                       *)
THEOREM SignalTypes == Spec => []TypeOK
<1>1. IInv => TypeOK
  BY Zenon DEF IInv
<1> QED  BY <1>1, Invariance, PTL

(* No call of WaitForSignal is registered while a signal is buffered.      *)
THEOREM NoWaitOnBufferedHolds == Spec => []NoWaitOnBuffered
<1>1. IInv => NoWaitOnBuffered
  BY Zenon DEF IInv
<1> QED  BY <1>1, Invariance, PTL

(* DeliverSignal and WaitForSignal give a signal to one call at most, and  *)
(* never leave it in the buffer as well.                                   *)
THEOREM DeliveredOnceHolds == Spec => []DeliveredOnce
<1>1. IInv => DeliveredOnce
  <2> SUFFICES ASSUME IInv PROVE DeliveredOnce
    OBVIOUS
  <2>1. ASSUME NEW w \in Waiter PROVE Buffered \cap HandedTo(w) = {}
    BY DEF IInv, TypeOK, Signal, Handed, Buffered, HandedTo
  <2>2. ASSUME NEW v \in Waiter, NEW w \in Waiter, v # w
        PROVE  HandedTo(v) \cap HandedTo(w) = {}
    BY <2>2 DEF IInv, Handed, HandedTo
  <2> QED  BY <2>1, <2>2, Zenon DEF DeliveredOnce, IInv, Calls
<1> QED  BY <1>1, Invariance, PTL

(* Signals are handed over in the order DeliverSignal saw them.            *)
THEOREM OldestFirstHolds == Spec => []OldestFirst
<1>1. IInv => OldestFirst
  BY DEF IInv, Handed, OldestFirst, Buffered, HandedTo
<1> QED  BY <1>1, Invariance, PTL

(* removeWaiter runs before a call returns without a signal, so a signal   *)
(* is only handed to a call in its select or on its way out.               *)
THEOREM WaitersLiveHolds == Spec => []WaitersLive
<1>1. IInv => WaitersLive
  BY Zenon DEF IInv, Registered
<1> QED  BY <1>1, Invariance, PTL
=============================================================================
