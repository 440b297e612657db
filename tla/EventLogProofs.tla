--------------------------- MODULE EventLogProofs ---------------------------
(***************************************************************************)
(* PostgresStore.AppendEvent implements EventHistory, for any number of    *)
(* concurrent calls.                                                       *)
(***************************************************************************)
EXTENDS EventLog, SequenceTheorems, TLAPS

Open(a) == pc[a] \in {"inserted", "bumped"}

(* The inductive invariant: the committed rows are a sequence, an open     *)
(* transaction holds the next idx and is alone in that, and a call has its *)
(* answer exactly when it is done.                                         *)
IInv ==
  /\ TypeOK
  /\ events \in Seq(Appender)
  /\ \A a \in Appender : Open(a) => idx[a] = Len(events) + 1
  /\ \A a, b \in Appender : Open(a) /\ Open(b) => a = b
  /\ \A a \in Appender : pc[a] = "computed" => idx[a] \in 1 .. Len(events) + 1
  /\ \A a \in Appender : answer[a] # "none" <=> pc[a] = "done"

(* Adding the row behind the last one is an Append.                        *)
LEMMA AddRow ==
  ASSUME NEW a \in Appender, events \in Seq(Appender), idx[a] = Len(events) + 1
  PROVE  [i \in DOMAIN events \cup {idx[a]} |-> IF i = idx[a] THEN a ELSE events[i]]
           = Append(events, a)
<1> DEFINE new == [i \in DOMAIN events \cup {idx[a]} |-> IF i = idx[a] THEN a ELSE events[i]]
<1>1. DOMAIN events = 1 .. Len(events) /\ Len(events) \in Nat
  OBVIOUS
<1>2. DOMAIN new = 1 .. Len(events) + 1
  BY <1>1
<1>3. new \in Seq(Appender) /\ Len(new) = Len(events) + 1
  <2>1. \A i \in 1 .. Len(events) + 1 : new[i] \in Appender
    BY <1>1
  <2>2. new \in [1 .. Len(events) + 1 -> Appender]
    BY <1>2, <2>1
  <2> QED  BY <1>1, <1>2, <2>2
<1>4. Append(events, a) \in Seq(Appender) /\ Len(Append(events, a)) = Len(events) + 1
  OBVIOUS
<1>5. \A i \in 1 .. Len(events) + 1 : new[i] = Append(events, a)[i]
  BY <1>1
<1>6. \A s, t \in Seq(Appender) :
        Len(s) = Len(t) /\ (\A i \in 1 .. Len(s) : s[i] = t[i]) => s = t
  BY SeqEqual
<1> HIDE DEF new
<1>7. new = Append(events, a)
  BY <1>3, <1>4, <1>5, <1>6
<1> QED  BY <1>7 DEF new

(* The idx computed is the number of rows plus one.                        *)
LEMMA NextIdx ==
  ASSUME NEW n \in Nat, events \in Seq(Appender), IsNextIdx(n)
  PROVE  n = Len(events) + 1
<1>1. DOMAIN events = 1 .. Len(events) /\ Len(events) \in Nat
  OBVIOUS
<1>2. CASE DOMAIN events = {} /\ n = 1
  BY <1>1, <1>2
<1>3. CASE n - 1 \in DOMAIN events /\ \A i \in DOMAIN events : i < n
  <2>1. Len(events) \in DOMAIN events
    BY <1>1, <1>3
  <2> QED  BY <1>1, <1>3, <2>1
<1> QED  BY <1>2, <1>3 DEF IsNextIdx

(* The invariant holds at the start and every step of a call keeps it.     *)
LEMMA InitInvariant == Init => IInv
<1> SUFFICES ASSUME Init PROVE IInv
  OBVIOUS
<1>1. events = <<>> /\ DOMAIN events = {} /\ events \in Seq(Appender)
  BY DEF Init
<1> QED  BY <1>1 DEF Init, IInv, TypeOK, Open, Pc

LEMMA NextInvariant == IInv /\ [Next]_vars => IInv'
<1> SUFFICES ASSUME IInv, [Next]_vars PROVE IInv'
  OBVIOUS
<1> USE DEF IInv, TypeOK, Open, Pc
<1>1. ASSUME NEW a \in Appender, Begin(a) PROVE IInv'
  BY <1>1 DEF Begin, Goto
<1>2. ASSUME NEW a \in Appender, Compute(a) PROVE IInv'
  <2>1. PICK n \in {i + 1 : i \in DOMAIN events \cup {0}} :
          IsNextIdx(n) /\ idx' = [idx EXCEPT ![a] = n]
    BY <1>2 DEF Compute
  <2>2. n \in Nat
    <3>1. DOMAIN events \subseteq Nat
      OBVIOUS
    <3> QED  BY <3>1
  <2>3. n = Len(events) + 1
    BY <2>1, <2>2, NextIdx
  <2>4. UNCHANGED <<events, rowLock, answer>> /\ pc[a] = "begun" /\ pc' = [pc EXCEPT ![a] = "computed"]
    BY <1>2 DEF Compute, Goto
  <2> QED  BY <2>1, <2>2, <2>3, <2>4
<1>3. ASSUME NEW a \in Appender, Insert(a) PROVE IInv'
  <2>1. DOMAIN events = 1 .. Len(events) /\ Len(events) \in Nat
    OBVIOUS
  <2>2. idx[a] = Len(events) + 1
    BY <1>3, <2>1 DEF Insert
  <2>3. \A b \in Appender : ~Open(b)
    BY <1>3, <2>2 DEF Insert, Holds
  <2> QED  BY <1>3, <2>2, <2>3 DEF Insert, Goto
<1>4. ASSUME NEW a \in Appender, Collide(a) PROVE IInv'
  BY <1>4 DEF Collide, Goto
<1>5. ASSUME NEW a \in Appender, BumpVersion(a) PROVE IInv'
  BY <1>5 DEF BumpVersion, Goto
<1>6. ASSUME NEW a \in Appender, Commit(a) PROVE IInv'
  <2>1. idx[a] = Len(events) + 1 /\ events' = Append(events, a)
    BY <1>6, AddRow DEF Commit
  <2>2. events' \in Seq(Appender) /\ Len(events') = Len(events) + 1
    BY <2>1
  <2>3. \A b \in Appender : ~Open(b)'
    BY <1>6 DEF Commit, Goto
  <2>4. /\ DOMAIN events' = 1 .. Len(events') /\ Len(events) \in Nat
        /\ \A i \in DOMAIN events' : events'[i] \in Appender
    BY <2>2
  <2>5. DOMAIN events' \subseteq Nat \ {0}
    BY <2>4
  <2>6. /\ idx' = idx /\ rowLock' \in Appender \cup {Unlocked}
        /\ pc' = [pc EXCEPT ![a] = "done"] /\ pc[a] = "bumped"
        /\ \E r \in {"ok", "error"} : answer' = [answer EXCEPT ![a] = r]
    BY <1>6 DEF Commit, Goto, Unlock
  <2>7. TypeOK'
    BY <2>4, <2>5, <2>6
  <2>8. \A b \in Appender : pc'[b] = "computed" => idx'[b] \in 1 .. Len(events') + 1
    BY <2>2, <2>4, <2>6
  <2>9. \A b \in Appender : answer'[b] # "none" <=> pc'[b] = "done"
    BY <2>6
  <2> QED  BY <2>2, <2>3, <2>7, <2>8, <2>9
<1>7. ASSUME NEW a \in Appender, Abort(a) PROVE IInv'
  BY <1>7 DEF Abort, Goto, Unlock
<1>8. CASE UNCHANGED vars
  BY <1>8 DEF vars
<1> QED  BY <1>1, <1>2, <1>3, <1>4, <1>5, <1>6, <1>7, <1>8 DEF Next, AppendEvent

(* IInv is an invariant of the append protocol.                            *)
THEOREM InvariantHolds == Spec => []IInv
<1> QED  BY InitInvariant, NextInvariant, PTL DEF Spec

(* The rows of workflow_events have no gap, and an uncommitted row is the  *)
(* only one right behind them, however many AppendEvent calls race.        *)
THEOREM GaplessHolds == Spec => []Gapless
<1>1. IInv => Gapless
  <2> SUFFICES ASSUME IInv PROVE Gapless
    OBVIOUS
  <2>1. DOMAIN events = 1 .. Len(events) /\ Len(events) \in Nat
    BY DEF IInv
  <2>2. \A i \in DOMAIN events : 1 .. i \subseteq DOMAIN events
    BY <2>1
  <2>3. \A a \in Appender : pc[a] \in {"inserted", "bumped"} =>
          idx[a] \notin DOMAIN events /\ (idx[a] = 1 \/ idx[a] - 1 \in DOMAIN events)
    BY <2>1 DEF IInv, Open
  <2>4. \A a, b \in Appender :
          pc[a] \in {"inserted", "bumped"} /\ Holds(b, idx[a]) => a = b
    BY DEF IInv, Open, Holds
  <2> QED  BY <2>2, <2>3, <2>4 DEF Gapless
<1> QED  BY <1>1, InvariantHolds, PTL

(* Every step of the transactions keeps the rows, the lock and the answers *)
(* within their types.                                                     *)
THEOREM LogTypes == Spec => []TypeOK
<1>1. IInv => TypeOK
  BY DEF IInv
<1> QED  BY <1>1, InvariantHolds, PTL

(* Racing AppendEvent transactions implement the append-only history that  *)
(* the Store interface promises: each commit is one append at the end,     *)
(* each failure changes nothing, every other step is invisible.            *)
THEOREM HistoryImplemented == Spec => ImplementsHistory
<1>1. Init => Abstract!Init
  BY DEF Init, Abstract!Init
<1>2. IInv /\ [Next]_vars => [Abstract!Next]_<<events, answer>>
  <2> SUFFICES ASSUME IInv, [Next]_vars PROVE Abstract!Next \/ UNCHANGED <<events, answer>>
    OBVIOUS
  <2>1. ASSUME NEW a \in Appender, Commit(a) PROVE Abstract!Next
    <3>1. events' = Append(events, a) /\ answer[a] = "none"
      BY <2>1, AddRow DEF Commit, IInv, Open
    <3>2. Abstract!Succeed(a) \/ Abstract!AnswerLost(a)
      BY <2>1, <3>1 DEF Commit, Abstract!Succeed, Abstract!AnswerLost
    <3> QED  BY <3>2 DEF Abstract!Next
  <2>2. ASSUME NEW a \in Appender, Collide(a) \/ Abort(a) PROVE Abstract!Next
    <3>1. Abstract!Fail(a)
      BY <2>2 DEF Collide, Abort, IInv, Abstract!Fail
    <3> QED  BY <3>1 DEF Abstract!Next
  <2>3. ASSUME NEW a \in Appender, Begin(a) \/ Compute(a) \/ Insert(a) \/ BumpVersion(a)
        PROVE  UNCHANGED <<events, answer>>
    BY <2>3 DEF Begin, Compute, Insert, BumpVersion
  <2>4. CASE UNCHANGED vars
    BY <2>4 DEF vars
  <2> QED  BY <2>1, <2>2, <2>3, <2>4 DEF Next, AppendEvent
<1> QED  BY <1>1, <1>2, InvariantHolds, PTL DEF Spec, ImplementsHistory, Abstract!Spec
=============================================================================
