------------------------------ MODULE EventLog ------------------------------
(***************************************************************************)
(* PostgresStore.AppendEvent (internal/store/postgres.go and its SQL) for  *)
(* one workflow, called by several handlers at once, as a transaction at   *)
(* isolation level READ COMMITTED: BEGIN and the existence check, the      *)
(* statement snapshot that gives MAX(idx) + 1, the insert under the        *)
(* primary key (workflow_id, idx), BumpVersion, which locks the row of the *)
(* workflow, and COMMIT.  The insert waits for a transaction that holds    *)
(* the same key, and fails once that one has committed.                    *)
(***************************************************************************)
EXTENDS Naturals, Sequences

CONSTANTS Appender,    \* AppendEvent calls; each appends one event
          Unlocked     \* no transaction holds the row

ASSUME UnlockedAssumption == Unlocked \notin Appender

VARIABLES events,      \* committed rows of workflow_events: idx |-> event
          idx,         \* the idx a call has computed
          rowLock,     \* who holds the row of workflow_executions
          pc,          \* how far each transaction is
          answer       \* what each call returned

vars == <<events, idx, rowLock, pc, answer>>

Pc == {"idle", "begun", "computed", "inserted", "bumped", "done"}

TypeOK ==
  /\ DOMAIN events \subseteq Nat \ {0}
  /\ \A i \in DOMAIN events : events[i] \in Appender
  /\ idx \in [Appender -> Nat]
  /\ rowLock \in Appender \cup {Unlocked}
  /\ pc \in [Appender -> Pc]
  /\ answer \in [Appender -> {"none", "ok", "error"}]

Init ==
  /\ events = <<>>
  /\ idx = [a \in Appender |-> 0]
  /\ rowLock = Unlocked
  /\ pc = [a \in Appender |-> "idle"]
  /\ answer = [a \in Appender |-> "none"]

Goto(a, step) == pc' = [pc EXCEPT ![a] = step]

Begin(a) ==
  /\ pc[a] = "idle"
  /\ Goto(a, "begun")
  /\ UNCHANGED <<events, idx, rowLock, answer>>

(* COALESCE(MAX(idx), 0) + 1 over the rows committed when the statement    *)
(* takes its snapshot.                                                     *)
IsNextIdx(n) ==
  \/ DOMAIN events = {} /\ n = 1
  \/ n - 1 \in DOMAIN events /\ \A i \in DOMAIN events : i < n

Compute(a) ==
  /\ pc[a] = "begun"
  /\ \E n \in {i + 1 : i \in DOMAIN events \cup {0}} :
       IsNextIdx(n) /\ idx' = [idx EXCEPT ![a] = n]
  /\ Goto(a, "computed")
  /\ UNCHANGED <<events, rowLock, answer>>

Holds(b, n) == pc[b] \in {"inserted", "bumped"} /\ idx[b] = n

(* Mutant of Insert: no primary key on idx.                                *)
InsertUnchecked(a) ==
  /\ pc[a] = "computed"
  /\ Goto(a, "inserted")
  /\ UNCHANGED <<events, idx, rowLock, answer>>

(* The key is free; while another transaction holds it the insert waits.   *)
Insert(a) ==
  /\ pc[a] = "computed"
  /\ idx[a] \notin DOMAIN events
  /\ \A b \in Appender : ~Holds(b, idx[a])
  /\ Goto(a, "inserted")
  /\ UNCHANGED <<events, idx, rowLock, answer>>

(* Mutant of Collide: the error is swallowed.                              *)
CollideSilently(a) ==
  /\ pc[a] = "computed"
  /\ idx[a] \in DOMAIN events
  /\ Goto(a, "done")
  /\ answer' = [answer EXCEPT ![a] = "ok"]
  /\ UNCHANGED <<events, idx, rowLock>>

(* Unique violation: the transaction is rolled back, the call fails.       *)
Collide(a) ==
  /\ pc[a] = "computed"
  /\ idx[a] \in DOMAIN events
  /\ Goto(a, "done")
  /\ answer' = [answer EXCEPT ![a] = "error"]
  /\ UNCHANGED <<events, idx, rowLock>>

BumpVersion(a) ==
  /\ pc[a] = "inserted"
  /\ rowLock = Unlocked
  /\ rowLock' = a
  /\ Goto(a, "bumped")
  /\ UNCHANGED <<events, idx, answer>>

(* Mutant of Unlock: the lock outlives its transaction.                    *)
UnlockNever(a) == UNCHANGED rowLock

Unlock(a) == rowLock' = IF rowLock = a THEN Unlocked ELSE rowLock

(* The answer gets back to the caller, or the connection breaks first.     *)
Commit(a) ==
  /\ pc[a] = "bumped"
  /\ events' = [i \in DOMAIN events \cup {idx[a]} |-> IF i = idx[a] THEN a ELSE events[i]]
  /\ Unlock(a)
  /\ Goto(a, "done")
  /\ \E r \in {"ok", "error"} : answer' = [answer EXCEPT ![a] = r]
  /\ UNCHANGED idx

(* Mutant of Abort: passes on an answer the callers do not know.           *)
AbortUnknown(a) ==
  /\ pc[a] \in {"begun", "computed", "inserted", "bumped"}
  /\ Unlock(a)
  /\ Goto(a, "done")
  /\ answer' = [answer EXCEPT ![a] = "unknown"]
  /\ UNCHANGED <<events, idx>>

(* Connection lost or context expired before the commit: rolled back.      *)
Abort(a) ==
  /\ pc[a] \in {"begun", "computed", "inserted", "bumped"}
  /\ Unlock(a)
  /\ Goto(a, "done")
  /\ answer' = [answer EXCEPT ![a] = "error"]
  /\ UNCHANGED <<events, idx>>

AppendEvent(a) ==
  \/ Begin(a) \/ Compute(a) \/ Insert(a) \/ Collide(a)
  \/ BumpVersion(a) \/ Commit(a) \/ Abort(a)

Next == \E a \in Appender : AppendEvent(a)

Spec == Init /\ [][Next]_vars

(* A transaction that can go on does; none has to begin, fail or abort.    *)
FairSpec ==
  /\ Spec
  /\ \A a \in Appender :
       WF_vars(Compute(a) \/ Insert(a) \/ Collide(a) \/ BumpVersion(a) \/ Commit(a))

-----------------------------------------------------------------------------
Abstract == INSTANCE EventHistory WITH log <- events

(* The table is a history: idx runs from 1 without gaps, and every call    *)
(* adds its event at the end or nothing at all, though all compute their   *)
(* idx at the same time and none takes a lock before the insert.           *)
ImplementsHistory == Abstract!Spec

(* The strengthening: the rows have no gap; an uncommitted row sits right  *)
(* behind them, and is the only one.                                       *)
Gapless ==
  /\ \A i \in DOMAIN events : 1 .. i \subseteq DOMAIN events
  /\ \A a \in Appender :
       pc[a] \in {"inserted", "bumped"} =>
         idx[a] \notin DOMAIN events /\ (idx[a] = 1 \/ idx[a] - 1 \in DOMAIN events)
  /\ \A a, b \in Appender :
       pc[a] \in {"inserted", "bumped"} /\ Holds(b, idx[a]) => a = b

(* Waiting for the key and for the row lock never ends in a circle: every  *)
(* call that has begun is answered.                                        *)
AppendAnswered == \A a \in Appender : pc[a] = "begun" ~> answer[a] # "none"
=============================================================================
