------------------------ MODULE DispatchReplayProofs ------------------------
(***************************************************************************)
(* Re-running a workflow function re-issues nothing.                       *)
(*                                                                         *)
(* The history of a workflow carries a chain: the positions at which a     *)
(* cursor that starts at 1 stands behind the match of the first, second,   *)
(* ..., K-th command.  Every ActivityScheduled and every TimerScheduled    *)
(* belongs to a command of the chain, but for one TimerScheduled that has  *)
(* not fired and that the next command, a Sleep, waits for.  The one run a *)
(* workflow has at a time walks along this chain, or it is past its end    *)
(* and issues the commands that prolong it.                                *)
(***************************************************************************)
EXTENDS WorkflowDispatchProofs

(* A leaf goes to Zenon unless it names another prover.                    *)
USE Zenon

-----------------------------------------------------------------------------
(* Chains.                                                                 *)

Hits(h, type) == {i \in DOMAIN h : h[i].type = type}

Fired(h, timer) == {i \in Hits(h, "TimerFired") : h[i].ref = timer}

FirstFrom(S, c, n) == n \in S /\ c <= n /\ \A i \in S : c <= i => n <= i

(* From cursor c the command takes event n.                                *)
Matched(h, cmd, c, n) ==
  \/ cmd = "signal" /\ FirstFrom(Hits(h, "SignalReceived"), c, n)
  \/ cmd = "activity" /\ FirstFrom(Hits(h, "ActivityScheduled"), c, n)
  \/ cmd = "sleep" /\ \E s \in Hits(h, "TimerScheduled") :
       /\ FirstFrom(Hits(h, "TimerScheduled"), c, s)
       /\ FirstFrom(Fired(h, h[s].ref), s + 1, n)

(* cert[k] is where the cursor stands before command k.                    *)
Chain(h, K, cert) ==
  /\ K \in 0 .. Len(Program)
  /\ cert \in [1 .. K + 1 -> 1 .. Len(h) + 1]
  /\ cert[1] = 1
  /\ \A k \in 1 .. K + 1 : cert[k] <= cert[K + 1]
  /\ \A k \in 1 .. K : Matched(h, Program[k], cert[k], cert[k + 1] - 1)

(* h2 is h and what was appended to it.                                    *)
Extended(h, h2) ==
  /\ Len(h) <= Len(h2)
  /\ \A i \in 1 .. Len(h) : h2[i] = h[i]

LEMMA HitsIn ==
  ASSUME NEW h \in Seq(Event), NEW type
  PROVE  /\ Hits(h, type) \subseteq 1 .. Len(h) /\ Hits(h, type) \subseteq Nat
         /\ Len(h) \in Nat /\ DOMAIN h = 1 .. Len(h)
         /\ IsFiniteSet(Hits(h, type))
<1>1. Len(h) \in Nat /\ DOMAIN h = 1 .. Len(h)
  BY SMT
<1>2. Hits(h, type) \subseteq 1 .. Len(h)
  BY <1>1 DEF Hits
<1>3. IsFiniteSet(1 .. Len(h)) /\ 1 .. Len(h) \subseteq Nat
  BY <1>1, FS_Interval, SMT
<1> QED  BY <1>1, <1>2, <1>3, FS_Subset

LEMMA FirstOnly ==
  ASSUME NEW S \in SUBSET Nat, NEW c, NEW m, NEW n, FirstFrom(S, c, m), FirstFrom(S, c, n)
  PROVE  m = n
<1>1. m \in Nat /\ n \in Nat /\ m <= n /\ n <= m
  BY DEF FirstFrom
<1> QED  BY <1>1, SMT

(* A command takes at most one event.                                      *)
LEMMA MatchedOnly ==
  ASSUME NEW h \in Seq(Event), NEW cmd, NEW c, NEW m, NEW n,
         Matched(h, cmd, c, m), Matched(h, cmd, c, n)
  PROVE  m = n
<1>1. \A type : Hits(h, type) \in SUBSET Nat
  BY HitsIn
<1>2. CASE cmd = "signal"
  BY <1>1, <1>2, FirstOnly, SMT DEF Matched
<1>3. CASE cmd = "activity"
  BY <1>1, <1>3, FirstOnly, SMT DEF Matched
<1>4. CASE cmd = "sleep"
  <2>1. PICK s : FirstFrom(Hits(h, "TimerScheduled"), c, s) /\ FirstFrom(Fired(h, h[s].ref), s + 1, m)
    BY <1>4, SMT DEF Matched
  <2>2. PICK t : FirstFrom(Hits(h, "TimerScheduled"), c, t) /\ FirstFrom(Fired(h, h[t].ref), t + 1, n)
    BY <1>4, SMT DEF Matched
  <2>3. s = t
    BY <1>1, <2>1, <2>2, FirstOnly
  <2>4. Fired(h, h[s].ref) \in SUBSET Nat
    BY <1>1 DEF Fired
  <2> QED  BY <2>1, <2>2, <2>3, <2>4, FirstOnly
<1> QED  BY <1>2, <1>3, <1>4 DEF Matched

(* ... and lies between the cursor and the end of the history.             *)
LEMMA MatchedIn ==
  ASSUME NEW h \in Seq(Event), NEW cmd, NEW c \in Nat, NEW n, Matched(h, cmd, c, n)
  PROVE  /\ n \in 1 .. Len(h) /\ c <= n
         /\ cmd = "activity" => n \in Hits(h, "ActivityScheduled")
         /\ cmd = "sleep" => \E s \in Hits(h, "TimerScheduled") :
                               FirstFrom(Hits(h, "TimerScheduled"), c, s) /\ s < n
<1>1. \A type : Hits(h, type) \subseteq 1 .. Len(h) /\ Hits(h, type) \subseteq Nat
  BY HitsIn
<1>2. CASE cmd = "signal"
  BY <1>1, <1>2, SMT DEF Matched, FirstFrom
<1>3. CASE cmd = "activity"
  BY <1>1, <1>3, SMT DEF Matched, FirstFrom
<1>4. CASE cmd = "sleep"
  <2>1. PICK s \in Hits(h, "TimerScheduled") :
          /\ FirstFrom(Hits(h, "TimerScheduled"), c, s)
          /\ FirstFrom(Fired(h, h[s].ref), s + 1, n)
    BY <1>4, SMT DEF Matched
  <2>2. s \in Nat /\ c <= s /\ n \in 1 .. Len(h) /\ n \in Nat /\ s + 1 <= n
    BY <1>1, <2>1 DEF FirstFrom, Fired
  <2>3. c <= n /\ s < n
    BY <2>2, SMT
  <2> QED  BY <1>4, <2>1, <2>2, <2>3, SMT
<1> QED  BY <1>2, <1>3, <1>4 DEF Matched

(* Events that are appended come too late to change a match.               *)
LEMMA FirstStays ==
  ASSUME NEW S \in SUBSET Nat, NEW T \in SUBSET Nat, S \subseteq T, NEW N \in Nat, S \subseteq 1 .. N,
         \A i \in T : i \in S \/ N < i, NEW c, NEW n, FirstFrom(S, c, n)
  PROVE  FirstFrom(T, c, n)
<1>1. n \in S /\ n \in T /\ c <= n /\ n <= N /\ n \in Nat
  BY SMT DEF FirstFrom
<1>2. ASSUME NEW i \in T, c <= i PROVE n <= i
  BY <1>1, <1>2, SMT DEF FirstFrom
<1> QED  BY <1>1, <1>2 DEF FirstFrom

LEMMA MatchedStays ==
  ASSUME NEW h \in Seq(Event), NEW h2 \in Seq(Event), Extended(h, h2), NEW cmd, NEW c, NEW n,
         Matched(h, cmd, c, n)
  PROVE  Matched(h2, cmd, c, n)
<1>hits. ASSUME NEW type
         PROVE  /\ Hits(h, type) \subseteq Hits(h2, type)
                /\ \A i \in Hits(h2, type) : i \in Hits(h, type) \/ Len(h) < i
  <2>1. /\ DOMAIN h = 1 .. Len(h) /\ DOMAIN h2 = 1 .. Len(h2) /\ Len(h) \in Nat /\ Len(h2) \in Nat
        /\ Len(h) <= Len(h2)
    BY SMT DEF Extended
  <2>2. /\ \A i \in DOMAIN h : i \in DOMAIN h2 /\ h2[i] = h[i]
        /\ \A i \in DOMAIN h2 : i \in DOMAIN h \/ Len(h) < i
    BY <2>1, SMT DEF Extended
  <2> QED  BY <2>2 DEF Hits
<1>0. Len(h) \in Nat /\ DOMAIN h = 1 .. Len(h)
  BY HitsIn
<1>1. ASSUME NEW type
      PROVE  /\ Hits(h, type) \in SUBSET Nat /\ Hits(h2, type) \in SUBSET Nat
             /\ Hits(h, type) \subseteq Hits(h2, type) /\ Hits(h, type) \subseteq 1 .. Len(h)
             /\ \A i \in Hits(h2, type) : i \in Hits(h, type) \/ Len(h) < i
  BY HitsIn, <1>hits
<1>2. ASSUME NEW type, NEW m, FirstFrom(Hits(h, type), c, m)
      PROVE  FirstFrom(Hits(h2, type), c, m)
  BY <1>0, <1>1, <1>2, FirstStays
<1>3. CASE cmd = "sleep"
  <2>1. PICK s \in Hits(h, "TimerScheduled") :
          /\ FirstFrom(Hits(h, "TimerScheduled"), c, s)
          /\ FirstFrom(Fired(h, h[s].ref), s + 1, n)
    BY <1>3, SMT DEF Matched
  <2>2. s \in Hits(h2, "TimerScheduled") /\ FirstFrom(Hits(h2, "TimerScheduled"), c, s)
    BY <1>1, <1>2, <2>1
  <2>3. \A i \in 1 .. Len(h) : h2[i] = h[i]
    BY SMT DEF Extended
  <2>4. h2[s].ref = h[s].ref
    BY <1>1, <2>1, <2>3
  <2>5. \A timer : /\ Fired(h, timer) \in SUBSET Nat /\ Fired(h2, timer) \in SUBSET Nat
                   /\ Fired(h, timer) \subseteq 1 .. Len(h)
    BY <1>1 DEF Fired
  <2>6. \A timer : /\ Fired(h, timer) \subseteq Fired(h2, timer)
                   /\ \A i \in Fired(h2, timer) : i \in Fired(h, timer) \/ Len(h) < i
    BY <1>1, <2>3 DEF Fired
  <2>7. ASSUME NEW timer, NEW d, FirstFrom(Fired(h, timer), d, n)
        PROVE  FirstFrom(Fired(h2, timer), d, n)
    BY <1>0, <2>5, <2>6, <2>7, FirstStays
  <2>8. FirstFrom(Fired(h2, h2[s].ref), s + 1, n)
    BY <2>1, <2>4, <2>7
  <2> QED  BY <1>3, <2>2, <2>8 DEF Matched
<1> QED  BY <1>2, <1>3 DEF Matched

LEMMA ChainStays ==
  ASSUME NEW h \in Seq(Event), NEW h2 \in Seq(Event), Extended(h, h2), NEW K, NEW cert,
         Chain(h, K, cert)
  PROVE  Chain(h2, K, cert)
<1>1. 1 .. Len(h) + 1 \subseteq 1 .. Len(h2) + 1
  BY SMT DEF Extended
<1>2. cert \in [1 .. K + 1 -> 1 .. Len(h2) + 1]
  BY <1>1 DEF Chain
<1> QED  BY <1>2, MatchedStays DEF Chain

(* The next command prolongs the chain by its match.                       *)
LEMMA ChainProlonged ==
  ASSUME NEW h \in Seq(Event), NEW K, NEW cert, Chain(h, K, cert), K + 1 \in DOMAIN Program,
         NEW n, Matched(h, Program[K + 1], cert[K + 1], n)
  PROVE  \E cert2 : Chain(h, K + 1, cert2) /\ cert2[K + 2] = n + 1
                    /\ \A k \in 1 .. K + 1 : cert2[k] = cert[k]
<1>0. /\ K \in Nat /\ DOMAIN Program = 1 .. Len(Program) /\ Len(Program) \in Nat
      /\ Len(h) \in Nat
  BY DispatchAssumption, SMT DEF Chain
<1>1. \A k \in 1 .. K + 1 : cert[k] \in Nat /\ cert[k] \in 1 .. Len(h) + 1 /\ cert[k] <= cert[K + 1]
  BY <1>0, SMT DEF Chain
<1>2. K + 1 \in 1 .. K + 1 /\ cert[K + 1] \in Nat
  BY <1>0, <1>1, SMT
<1>3. n \in 1 .. Len(h) /\ cert[K + 1] <= n
  BY <1>2, MatchedIn
<1>4. PICK cert2 : cert2 = [k \in 1 .. K + 2 |-> IF k = K + 2 THEN n + 1 ELSE cert[k]]
  OBVIOUS
<1>5. cert2[K + 2] = n + 1 /\ \A k \in 1 .. K + 1 : cert2[k] = cert[k]
  BY <1>0, <1>4, SMT
<1>6. cert2 \in [1 .. K + 2 -> 1 .. Len(h) + 1]
  BY <1>0, <1>1, <1>3, <1>4, SMT
<1>7. cert2[1] = 1
  BY <1>0, <1>5, SMT DEF Chain
<1>8. \A k \in 1 .. K + 2 : cert2[k] <= cert2[K + 2]
  BY <1>0, <1>1, <1>2, <1>3, <1>5, SMT
<1>9. ASSUME NEW k \in 1 .. K + 1 PROVE Matched(h, Program[k], cert2[k], cert2[k + 1] - 1)
  <2>1. CASE k = K + 1
    <3>1. k + 1 = K + 2 /\ (n + 1) - 1 = n
      BY <1>0, <1>3, <2>1, SMT
    <3>2. cert2[k] = cert[K + 1] /\ cert2[k + 1] - 1 = n
      BY <1>5, <2>1, <3>1
    <3> QED  BY <2>1, <3>2
  <2>2. CASE k # K + 1
    <3>1. k \in 1 .. K /\ k + 1 \in 1 .. K + 1
      BY <1>0, <2>2, SMT
    <3>2. cert2[k] = cert[k] /\ cert2[k + 1] = cert[k + 1]
      BY <1>5, <3>1
    <3> QED  BY <3>1, <3>2 DEF Chain
  <2> QED  BY <2>1, <2>2
<1>10. K + 1 \in 0 .. Len(Program) /\ (K + 1) + 1 = K + 2
  BY <1>0, SMT
<1>11. Chain(h, K + 1, cert2)
  BY <1>6, <1>7, <1>8, <1>9, <1>10 DEF Chain
<1> QED  BY <1>5, <1>11

-----------------------------------------------------------------------------
(* What the chain accounts for, and the runs on it.                        *)

Prefix(n, cmd) == {i \in DOMAIN Program : i <= n /\ Program[i] = cmd}

(* Timers the chain has not passed.                                        *)
Open(h, c) == {i \in Hits(h, "TimerScheduled") : c <= i}

Ledger(h, K, c) ==
  /\ \A i \in Hits(h, "ActivityScheduled") : i < c /\ h[i].ref = ActivityName
  /\ \A i, j \in Open(h, c) : i = j
  /\ Open(h, c) # {} => K + 1 \in DOMAIN Program /\ Program[K + 1] = "sleep"
  /\ Cardinality(Hits(h, "ActivityScheduled")) <= Cardinality(Prefix(K, "activity"))
  /\ Cardinality(Hits(h, "TimerScheduled"))
       <= Cardinality(Prefix(IF Open(h, c) = {} THEN K ELSE K + 1, "sleep"))

(* The run can find nothing that was issued.                               *)
Clean(h, r) ==
  \A i \in Hits(h, "ActivityScheduled") \cup Hits(h, "TimerScheduled") : i < r.cursor \/ r.seen < i

(* Nobody but the run itself arms timers, and then it ends.                *)
Current(h, r) ==
  /\ r.seen <= Len(h) /\ 1 <= r.cursor
  /\ \A i \in Hits(h, "TimerScheduled") : i <= r.seen

(* On the chain, with the cursor of the command.                           *)
Replaying(h, K, cert, r) ==
  /\ r.timer = 0 /\ ~r.sched
  /\ r.k \in 1 .. K + 1 /\ r.cursor = cert[r.k]
  /\ cert[K + 1] <= r.seen + 1
  /\ \A i \in Hits(h, "ActivityScheduled") : i <= r.seen

(* At the end of the chain, in the ScheduleTimer call of a Sleep.          *)
Sleeping(h, K, cert, r) ==
  /\ r.timer # 0 /\ ~r.sched
  /\ r.k = K + 1 /\ r.k \in DOMAIN Program /\ Program[r.k] = "sleep"
  /\ Clean(h, r) /\ Open(h, cert[K + 1]) = {}

(* Behind an activity of its own, which its snapshot does not hold.        *)
Ahead(h, K, cert, r) ==
  /\ r.timer = 0
  /\ r.k = (IF r.sched THEN K ELSE K + 1)
  /\ K > 0 /\ Program[K] = "activity"
  /\ Clean(h, r) /\ r.seen < cert[K + 1]

OnChain(h, K, cert, r) ==
  /\ Current(h, r)
  /\ Replaying(h, K, cert, r) \/ Sleeping(h, K, cert, r) \/ Ahead(h, K, cert, r)

Certified(h, L) ==
  \E K, cert : /\ Chain(h, K, cert) /\ Ledger(h, K, cert[K + 1])
               /\ \A r \in L : OnChain(h, K, cert, r)

(* A run whose Sleep lost its ScheduleTimer call to a crash has no chain:  *)
(* it went on without its timer.  It is the last run of its workflow, and  *)
(* goes through the rest of the function for the first time.               *)
Spent(h, L) ==
  /\ Cardinality(Hits(h, "ActivityScheduled")) <= Cardinality(Commands("activity"))
  /\ Cardinality(Hits(h, "TimerScheduled")) <= Cardinality(Commands("sleep"))
  /\ \A r \in L :
       /\ Current(h, r) /\ Clean(h, r)
       /\ Cardinality(Hits(h, "ActivityScheduled")) <= Cardinality(Done(r, "activity"))
       /\ Cardinality(Hits(h, "TimerScheduled")) <= Cardinality(Done(r, "sleep"))

LEMMA CommandsFinite ==
  ASSUME NEW cmd
  PROVE  /\ IsFiniteSet(Commands(cmd))
         /\ \A n : IsFiniteSet(Prefix(n, cmd)) /\ Prefix(n, cmd) \subseteq Commands(cmd)
         /\ \A r : IsFiniteSet(Done(r, cmd)) /\ Done(r, cmd) \subseteq Commands(cmd)
<1>1. IsFiniteSet(DOMAIN Program)
  BY ProgramIs, FS_Interval, SMT
<1>2. Commands(cmd) \subseteq DOMAIN Program
  BY DEF Commands
<1>3. IsFiniteSet(Commands(cmd))
  BY <1>1, <1>2, FS_Subset
<1>4. \A n : Prefix(n, cmd) \subseteq Commands(cmd)
  BY DEF Prefix, Commands
<1>5. \A r : Done(r, cmd) \subseteq Commands(cmd)
  BY DEF Done, Commands
<1> QED  BY <1>3, <1>4, <1>5, FS_Subset

LEMMA PrefixGrows ==
  ASSUME NEW m \in Nat, NEW cmd
  PROVE  /\ Prefix(m, cmd) \subseteq Prefix(m + 1, cmd)
         /\ m + 1 \in DOMAIN Program /\ Program[m + 1] = cmd =>
              Prefix(m, cmd) \cup {m + 1} \subseteq Prefix(m + 1, cmd) /\ m + 1 \notin Prefix(m, cmd)
<1>1. \A i \in DOMAIN Program : i \in Nat /\ (i <= m => i <= m + 1)
  BY ProgramIs, SMT
<1>2. m + 1 <= m + 1 /\ ~(m + 1 <= m)
  BY SMT
<1> QED  BY <1>1, <1>2 DEF Prefix

(* A longer prefix has room for what the shorter one had, and for an event *)
(* of its last command.                                                    *)
LEMMA PrefixHolds ==
  ASSUME NEW m \in Nat, NEW cmd, NEW S, IsFiniteSet(S), Cardinality(S) <= Cardinality(Prefix(m, cmd))
  PROVE  /\ Cardinality(S) <= Cardinality(Prefix(m + 1, cmd))
         /\ \A S2, x : /\ m + 1 \in DOMAIN Program /\ Program[m + 1] = cmd
                       /\ S2 \subseteq S \cup {x}
                       => Cardinality(S2) <= Cardinality(Prefix(m + 1, cmd))
<1>1. IsFiniteSet(Prefix(m, cmd)) /\ IsFiniteSet(Prefix(m + 1, cmd))
  BY CommandsFinite
<1>2. Prefix(m, cmd) \subseteq Prefix(m + 1, cmd)
  BY PrefixGrows
<1>3. S \subseteq S
  OBVIOUS
<1>4. Cardinality(S) <= Cardinality(Prefix(m + 1, cmd))
  BY <1>1, <1>2, <1>3, NoMore
<1>5. ASSUME NEW S2, NEW x, m + 1 \in DOMAIN Program, Program[m + 1] = cmd, S2 \subseteq S \cup {x}
      PROVE  Cardinality(S2) <= Cardinality(Prefix(m + 1, cmd))
  <2>0. m + 1 \in DOMAIN Program /\ Program[m + 1] = cmd =>
          Prefix(m, cmd) \cup {m + 1} \subseteq Prefix(m + 1, cmd) /\ m + 1 \notin Prefix(m, cmd)
    BY PrefixGrows
  <2>1. Prefix(m, cmd) \cup {m + 1} \subseteq Prefix(m + 1, cmd) /\ m + 1 \notin Prefix(m, cmd)
    BY <1>5, <2>0
  <2>2. PICK T, T2, y : T = Prefix(m, cmd) /\ T2 = Prefix(m + 1, cmd) /\ y = m + 1
    OBVIOUS
  <2>3. /\ IsFiniteSet(S) /\ IsFiniteSet(T2) /\ Cardinality(S) <= Cardinality(T)
        /\ S2 \subseteq S \cup {x} /\ T \cup {y} \subseteq T2 /\ y \notin T
    BY <1>1, <1>5, <2>1, <2>2
  <2>4. Cardinality(S2) <= Cardinality(T2)
    BY <2>3, OneMore
  <2> QED  BY <2>2, <2>4
<1> QED  BY <1>4, <1>5

(* The facts of a chain that the steps below use.                          *)
LEMMA ChainIs ==
  ASSUME NEW h \in Seq(Event), NEW K, NEW cert, Chain(h, K, cert)
  PROVE  /\ K \in Nat /\ K \in 0 .. Len(Program)
         /\ \A k \in 1 .. K + 1 : cert[k] \in Nat /\ 1 <= cert[k] /\ cert[k] <= cert[K + 1]
         /\ cert[K + 1] \in Nat /\ 1 <= cert[K + 1] /\ cert[K + 1] <= Len(h) + 1
<1>1. K \in Nat /\ K \in 0 .. Len(Program) /\ Len(h) \in Nat /\ K + 1 \in 1 .. K + 1
  BY ProgramIs, SMT DEF Chain
<1>2. \A k \in 1 .. K + 1 : cert[k] \in Nat /\ 1 <= cert[k] /\ cert[k] <= cert[K + 1]
  BY <1>1, SMT DEF Chain
<1>3. cert[K + 1] \in 1 .. Len(h) + 1
  BY <1>1 DEF Chain
<1> QED  BY <1>1, <1>2, <1>3, SMT

(* A snapshot that starts the function anew.                               *)
LEMMA BooksOpen ==
  ASSUME NEW h \in Seq(Event), Certified(h, {}), NEW q \in Run,
         q.seen = Len(h), q.k = 1, q.cursor = 1, q.timer = 0, ~q.sched
  PROVE  Certified(h, {q})
<1>1. PICK K, cert : Chain(h, K, cert) /\ Ledger(h, K, cert[K + 1])
  BY DEF Certified
<1>2. \A type : \A i \in Hits(h, type) : i <= Len(h)
  BY HitsIn, SMT
<1>3. Len(h) <= Len(h) /\ 1 <= 1
  BY SMT
<1>4. Current(h, q)
  BY <1>2, <1>3 DEF Current
<1>5. q.k \in 1 .. K + 1 /\ cert[K + 1] <= q.seen + 1
  BY <1>1, ChainIs, SMT
<1>6. cert[1] = 1
  BY <1>1 DEF Chain
<1>7. Replaying(h, K, cert, q)
  BY <1>2, <1>5, <1>6 DEF Replaying
<1> QED  BY <1>1, <1>4, <1>7 DEF Certified, OnChain

(* Events that issue nothing, and runs that end.                           *)
LEMMA BooksKept ==
  ASSUME NEW h \in Seq(Event), NEW h2 \in Seq(Event), Extended(h, h2),
         Hits(h2, "ActivityScheduled") = Hits(h, "ActivityScheduled"),
         Hits(h2, "TimerScheduled") = Hits(h, "TimerScheduled"),
         NEW L \in SUBSET Run, NEW L2 \in SUBSET L
  PROVE  /\ Certified(h, L) => Certified(h2, L2)
         /\ Spent(h, L) => Spent(h2, L2)
<1>1. Len(h) \in Nat /\ Len(h2) \in Nat /\ Len(h) <= Len(h2)
  BY SMT DEF Extended
<1>2. \A c : Open(h2, c) = Open(h, c)
  BY DEF Open
<1>3. \A r : Clean(h, r) => Clean(h2, r)
  BY DEF Clean
<1>4. \A i \in Hits(h, "ActivityScheduled") : h2[i].ref = h[i].ref
  BY HitsIn DEF Extended
<1>5. \A K, c : Ledger(h, K, c) => Ledger(h2, K, c)
  BY <1>2, <1>4 DEF Ledger
<1>6. ASSUME NEW r \in Run, Current(h, r) PROVE Current(h2, r)
  <2>1. r.seen \in Nat /\ r.seen <= Len(h)
    BY <1>6 DEF Run, Current
  <2>2. r.seen <= Len(h2)
    BY <1>1, <2>1, SMT
  <2> QED  BY <1>6, <2>2 DEF Current
<1>7. ASSUME NEW K, NEW cert, NEW r \in Run, OnChain(h, K, cert, r) PROVE OnChain(h2, K, cert, r)
  BY <1>2, <1>3, <1>6, <1>7 DEF OnChain, Replaying, Sleeping, Ahead
<1>8. ASSUME Certified(h, L) PROVE Certified(h2, L2)
  BY <1>5, <1>7, <1>8, ChainStays DEF Certified
<1>9. ASSUME Spent(h, L) PROVE Spent(h2, L2)
  BY <1>3, <1>6, <1>9 DEF Spent
<1> QED  BY <1>8, <1>9

(* A command that takes its event from the history.                        *)
LEMMA BooksMatched ==
  ASSUME NEW h \in Seq(Event), SignalsLead, NEW r \in Run, NEW q \in Run, Certified(h, {r}),
         r.timer = 0, ~r.sched, r.k \in DOMAIN Program,
         NEW n, Matched(h, Program[r.k], r.cursor, n), n <= r.seen,
         q.timer = 0, ~q.sched, q.seen = r.seen, q.k = r.k + 1, q.cursor = n + 1
  PROVE  Certified(h, {q})
<1>0. r.seen \in Nat /\ r.cursor \in Nat /\ r.k \in Nat /\ q.cursor \in Nat
  BY DEF Run
<1>1. PICK K, cert : Chain(h, K, cert) /\ Ledger(h, K, cert[K + 1]) /\ OnChain(h, K, cert, r)
  BY DEF Certified
<1>2. /\ K \in Nat /\ cert[K + 1] \in Nat
      /\ \A k \in 1 .. K + 1 : cert[k] \in Nat /\ 1 <= cert[k] /\ cert[k] <= cert[K + 1]
  BY <1>1, ChainIs
<1>3. /\ n \in 1 .. Len(h) /\ n \in Nat /\ r.cursor <= n
      /\ Program[r.k] = "activity" => n \in Hits(h, "ActivityScheduled")
      /\ Program[r.k] = "sleep" => \E s \in Hits(h, "TimerScheduled") :
                                     FirstFrom(Hits(h, "TimerScheduled"), r.cursor, s) /\ s < n
  <2>1. 1 .. Len(h) \subseteq Nat
    BY HitsIn, SMT
  <2> QED  BY <1>0, <2>1, MatchedIn
<1>4. Current(h, q)
  <2>1. 1 <= q.cursor
    BY <1>3, SMT
  <2> QED  BY <1>1, <2>1 DEF OnChain, Current
<1>5. Replaying(h, K, cert, r)
  <2>1. ~Clean(h, r) \/ Program[r.k] = "signal"
    <3>1. CASE Program[r.k] = "activity"
      <4>1. ~(n < r.cursor) /\ ~(r.seen < n)
        BY <1>0, <1>3, SMT
      <4> QED  BY <1>3, <3>1, <4>1 DEF Clean
    <3>2. CASE Program[r.k] = "sleep"
      <4>1. PICK s \in Hits(h, "TimerScheduled") : r.cursor <= s /\ s < n
        BY <1>3, <3>2 DEF FirstFrom
      <4>2. s \in Nat
        BY HitsIn
      <4>3. ~(s < r.cursor) /\ ~(r.seen < s)
        BY <1>0, <1>3, <4>1, <4>2, SMT
      <4> QED  BY <4>3 DEF Clean
    <3> QED  BY <3>1, <3>2, ProgramIs DEF Cmd
  <2>2. ~Ahead(h, K, cert, r)
    <3> SUFFICES ASSUME Ahead(h, K, cert, r) PROVE FALSE
      OBVIOUS
    <3>1. Program[K + 1] = "signal" /\ Program[K] = "activity" /\ K + 1 \in DOMAIN Program /\ K > 0
      BY <2>1 DEF Ahead
    <3>2. K + 1 > 1 /\ (K + 1) - 1 = K
      BY <1>2, <3>1, SMT
    <3> QED  BY <3>1, <3>2 DEF SignalsLead
  <2> QED  BY <1>1, <2>2 DEF OnChain, Sleeping
<1>6. r.k \in 1 .. K + 1 /\ r.cursor = cert[r.k] /\ cert[K + 1] <= r.seen + 1
  BY <1>5 DEF Replaying
<1>7. CASE r.k # K + 1
  <2>1. r.k \in 1 .. K /\ q.k \in 1 .. K + 1
    BY <1>2, <1>6, <1>7, SMT
  <2>2. Matched(h, Program[r.k], cert[r.k], cert[r.k + 1] - 1)
    BY <1>1, <2>1 DEF Chain
  <2>3. n = cert[r.k + 1] - 1
    BY <1>6, <2>2, MatchedOnly
  <2>4. q.cursor = cert[q.k]
    BY <1>2, <2>1, <2>3, SMT
  <2>5. Replaying(h, K, cert, q)
    BY <1>5, <2>1, <2>4 DEF Replaying
  <2> QED  BY <1>1, <1>4, <2>5 DEF Certified, OnChain
<1>8. CASE r.k = K + 1
  <2>1. PICK cert2 : Chain(h, K + 1, cert2) /\ cert2[K + 2] = n + 1
    <3>1. K + 1 \in DOMAIN Program /\ Matched(h, Program[K + 1], cert[K + 1], n)
      BY <1>6, <1>8
    <3> QED  BY <1>1, <3>1, ChainProlonged, SMT
  <2>2. (K + 1) + 1 = K + 2 /\ cert[K + 1] <= n + 1 /\ n + 1 <= q.seen + 1 /\ K + 2 \in 1 .. K + 2
        /\ ~(n < cert[K + 1])
    BY <1>0, <1>2, <1>3, <1>6, <1>8, SMT
  <2>3. Program[r.k] # "activity"
    BY <1>1, <1>3, <2>2 DEF Ledger
  <2>4. Open(h, n + 1) = {}
    <3> SUFFICES ASSUME NEW i \in Hits(h, "TimerScheduled"), n + 1 <= i PROVE FALSE
      BY DEF Open
    <3>1. i \in Nat
      BY HitsIn
    <3>2. i \in Open(h, cert[K + 1])
      <4>1. cert[K + 1] <= i
        BY <1>2, <1>3, <2>2, <3>1, SMT
      <4> QED  BY <4>1 DEF Open
    <3>3. Program[r.k] = "sleep"
      BY <1>1, <1>8, <3>2 DEF Ledger
    <3>4. PICK s \in Hits(h, "TimerScheduled") : r.cursor <= s /\ s < n
      BY <1>3, <3>3 DEF FirstFrom
    <3>5. s \in Open(h, cert[K + 1]) /\ s \in Nat
      BY <1>6, <1>8, <3>4, HitsIn DEF Open
    <3>6. s = i
      BY <1>1, <3>2, <3>5 DEF Ledger
    <3> QED  BY <1>3, <3>1, <3>4, <3>6, SMT
  <2>5. Ledger(h, K + 1, n + 1)
    <3>1. \A i \in Hits(h, "ActivityScheduled") : i < n + 1 /\ h[i].ref = ActivityName
      <4>1. \A i \in Nat : i < cert[K + 1] => i < n + 1
        BY <1>2, <1>3, <2>2, SMT
      <4>2. Hits(h, "ActivityScheduled") \subseteq Nat
        BY HitsIn
      <4> QED  BY <1>1, <4>1, <4>2 DEF Ledger
    <3>2. Cardinality(Hits(h, "ActivityScheduled")) <= Cardinality(Prefix(K + 1, "activity"))
      BY <1>1, <1>2, PrefixHolds, HitsIn DEF Ledger
    <3>3. Cardinality(Hits(h, "TimerScheduled")) <= Cardinality(Prefix(K + 1, "sleep"))
      <4>1. CASE Open(h, cert[K + 1]) = {}
        BY <1>1, <1>2, <4>1, PrefixHolds, HitsIn DEF Ledger
      <4>2. CASE Open(h, cert[K + 1]) # {}
        BY <1>1, <4>2 DEF Ledger
      <4> QED  BY <4>1, <4>2
    <3> QED  BY <2>4, <3>1, <3>2, <3>3 DEF Ledger
  <2>6. Replaying(h, K + 1, cert2, q)
    <3>1. q.k = K + 2 /\ q.k \in 1 .. (K + 1) + 1
      BY <1>8, <2>2, SMT
    <3> QED  BY <1>5, <2>1, <2>2, <3>1 DEF Replaying
  <2> QED  BY <1>4, <2>1, <2>2, <2>5, <2>6 DEF Certified, OnChain
<1> QED  BY <1>7, <1>8

(* A command that finds nothing to take stands at the end of the chain.    *)
LEMMA ChainEnds ==
  ASSUME NEW h \in Seq(Event), NEW r \in Run, NEW K, NEW cert, Chain(h, K, cert),
         Ledger(h, K, cert[K + 1]), OnChain(h, K, cert, r),
         r.timer = 0, ~r.sched, r.k \in DOMAIN Program,
         \/ /\ Program[r.k] = "activity"
            /\ \A i \in Hits(h, "ActivityScheduled") : i < r.cursor \/ r.seen < i
         \/ /\ Program[r.k] = "sleep"
            /\ \A i \in Hits(h, "TimerScheduled") : i < r.cursor \/ r.seen < i
  PROVE  r.k = K + 1 /\ Open(h, cert[K + 1]) = {} /\ Clean(h, r)
<1>0. r.seen \in Nat /\ r.cursor \in Nat /\ r.k \in Nat
  BY DEF Run
<1>1. /\ K \in Nat /\ cert[K + 1] \in Nat
      /\ \A k \in 1 .. K + 1 : cert[k] \in Nat /\ 1 <= cert[k] /\ cert[k] <= cert[K + 1]
  BY ChainIs
<1>2. \A type : Hits(h, type) \subseteq Nat
  BY HitsIn
<1>3. Replaying(h, K, cert, r) \/ Ahead(h, K, cert, r)
  BY DEF OnChain, Sleeping
<1>4. r.k = K + 1
  <2>1. CASE Ahead(h, K, cert, r)
    BY <2>1 DEF Ahead
  <2>2. CASE Replaying(h, K, cert, r) /\ r.k # K + 1
    <3>1. r.k \in 1 .. K + 1 /\ r.cursor = cert[r.k] /\ cert[K + 1] <= r.seen + 1
      BY <2>2 DEF Replaying
    <3>2. r.k \in 1 .. K /\ r.k + 1 \in 1 .. K + 1
      BY <1>1, <2>2, <3>1, SMT
    <3>3. PICK n : n = cert[r.k + 1] - 1
      OBVIOUS
    <3>4. Matched(h, Program[r.k], r.cursor, n)
      BY <3>1, <3>2, <3>3 DEF Chain
    <3>5. /\ n \in 1 .. Len(h) /\ r.cursor <= n
          /\ Program[r.k] = "activity" => n \in Hits(h, "ActivityScheduled")
          /\ Program[r.k] = "sleep" => \E s \in Hits(h, "TimerScheduled") :
                                         FirstFrom(Hits(h, "TimerScheduled"), r.cursor, s) /\ s < n
      BY <1>0, <3>4, MatchedIn
    <3>6. n <= r.seen /\ n \in Nat
      <4>1. cert[r.k + 1] \in Nat /\ cert[r.k + 1] <= cert[K + 1] /\ 1 <= cert[r.k + 1]
        BY <1>1, <3>2
      <4>2. \A x, y, z \in Nat : 1 <= x /\ x <= y /\ y <= z + 1 => x - 1 <= z /\ x - 1 \in Nat
        BY SMT
      <4> QED  BY <1>0, <1>1, <3>1, <3>3, <4>1, <4>2
    <3>7. CASE Program[r.k] = "activity"
      <4>1. ~(n < r.cursor) /\ ~(r.seen < n)
        BY <1>0, <3>5, <3>6, SMT
      <4> QED  BY <3>5, <3>7, <4>1, SMT
    <3>8. CASE Program[r.k] = "sleep"
      <4>1. PICK s \in Hits(h, "TimerScheduled") : r.cursor <= s /\ s < n
        BY <3>5, <3>8 DEF FirstFrom
      <4>2. s \in Nat
        BY <1>2
      <4>3. ~(s < r.cursor) /\ ~(r.seen < s)
        BY <1>0, <3>6, <4>1, <4>2, SMT
      <4> QED  BY <3>8, <4>3, SMT
    <3> QED  BY <3>7, <3>8
  <2> QED  BY <1>3, <2>1, <2>2
<1>5. CASE Replaying(h, K, cert, r)
  <2>1. r.cursor = cert[K + 1]
    BY <1>4, <1>5 DEF Replaying
  <2>2. Open(h, cert[K + 1]) = {}
    <3>1. CASE Program[r.k] = "activity"
      BY <1>4, <3>1, SMT DEF Ledger
    <3>2. CASE Program[r.k] = "sleep"
      <4> SUFFICES ASSUME NEW i \in Hits(h, "TimerScheduled"), r.cursor <= i PROVE FALSE
        BY <2>1 DEF Open
      <4>1. i \in Nat /\ i <= r.seen
        BY <1>2 DEF OnChain, Current
      <4>2. ~(i < r.cursor) /\ ~(r.seen < i)
        BY <1>0, <4>1, SMT
      <4> QED  BY <3>2, <4>2, SMT
    <3> QED  BY <3>1, <3>2
  <2>3. \A i \in Hits(h, "TimerScheduled") : i < r.cursor
    BY <1>0, <1>2, <2>1, <2>2, SMT DEF Open
  <2>4. \A i \in Hits(h, "ActivityScheduled") : i < r.cursor
    BY <2>1 DEF Ledger
  <2> QED  BY <1>4, <2>2, <2>3, <2>4 DEF Clean
<1>6. CASE Ahead(h, K, cert, r)
  <2>1. Clean(h, r) /\ r.seen < cert[K + 1]
    BY <1>6 DEF Ahead
  <2>2. Open(h, cert[K + 1]) = {}
    <3> SUFFICES ASSUME NEW i \in Hits(h, "TimerScheduled"), cert[K + 1] <= i PROVE FALSE
      BY DEF Open
    <3>1. i \in Nat /\ i <= r.seen
      BY <1>2 DEF OnChain, Current
    <3> QED  BY <1>0, <1>1, <2>1, <3>1, SMT
  <2> QED  BY <1>4, <2>1, <2>2
<1> QED  BY <1>3, <1>5, <1>6

(* h2 is h and one event of the type.                                      *)
Longer(h, type, h2) ==
  /\ h2 \in Seq(Event) /\ Extended(h, h2) /\ Len(h2) = Len(h) + 1
  /\ Hits(h2, type) = Hits(h, type) \cup {Len(h) + 1}
  /\ \A other : other # type => Hits(h2, other) = Hits(h, other)

LEMMA Appended ==
  ASSUME NEW h \in Seq(Event), NEW e \in Event
  PROVE  Longer(h, e.type, Append(h, e)) /\ Append(h, e)[Len(h) + 1] = e
<1>1. PICK h2 : h2 = Append(h, e)
  OBVIOUS
<1>2. /\ h2 \in Seq(Event) /\ Len(h2) = Len(h) + 1 /\ h2[Len(h) + 1] = e
      /\ DOMAIN h2 = DOMAIN h \cup {Len(h) + 1} /\ Len(h) <= Len(h2)
      /\ \A i \in 1 .. Len(h) : h2[i] = h[i]
      /\ DOMAIN h = 1 .. Len(h)
  BY <1>1, SMT
<1>3. Extended(h, h2)
  BY <1>2 DEF Extended
<1>4. \A type : e.type # type => Hits(h2, type) = Hits(h, type)
  BY <1>2 DEF Hits
<1>5. Hits(h2, e.type) = Hits(h, e.type) \cup {Len(h) + 1}
  BY <1>2 DEF Hits
<1> QED  BY <1>1, <1>2, <1>3, <1>4, <1>5 DEF Longer

(* A fresh activity is recorded, and prolongs the chain.                   *)
LEMMA BooksIssued ==
  ASSUME NEW h \in Seq(Event), NEW r \in Run, NEW q \in Run, Certified(h, {r}),
         r.timer = 0, ~r.sched, r.k \in DOMAIN Program, Program[r.k] = "activity",
         \A i \in Hits(h, "ActivityScheduled") :
           h[i].ref = ActivityName => i < r.cursor \/ r.seen < i,
         q.timer = 0, q.sched, q.seen = r.seen, q.k = r.k, q.cursor = r.cursor,
         NEW h2, Longer(h, "ActivityScheduled", h2), h2[Len(h) + 1].ref = ActivityName
  PROVE  Certified(h2, {q})
<1> DEFINE A == Hits(h, "ActivityScheduled")
           A2 == Hits(h2, "ActivityScheduled")
<1>n. PICK N : N = Len(h) + 1
  OBVIOUS
<1>0. r.seen \in Nat /\ r.cursor \in Nat /\ r.k \in Nat /\ Len(h) \in Nat /\ N \in Nat
  <2>1. r.seen \in Nat /\ r.cursor \in Nat /\ r.k \in Nat /\ Len(h) \in Nat
    BY HitsIn DEF Run
  <2> QED  BY <1>n, <2>1, SMT
<1>1. PICK K, cert : Chain(h, K, cert) /\ Ledger(h, K, cert[K + 1]) /\ OnChain(h, K, cert, r)
  BY DEF Certified
<1>2. K \in Nat /\ cert[K + 1] \in Nat /\ cert[K + 1] <= N
  BY <1>n, <1>1, ChainIs
<1>3. r.k = K + 1 /\ Open(h, cert[K + 1]) = {} /\ Clean(h, r)
  <2>1. \A i \in A : i < r.cursor \/ r.seen < i
    BY <1>1 DEF Ledger
  <2> QED  BY <1>1, <2>1, ChainEnds
<1>4. /\ h2 \in Seq(Event) /\ Extended(h, h2) /\ Len(h2) = N /\ h2[N].ref = ActivityName
      /\ A2 = A \cup {N} /\ Hits(h2, "TimerScheduled") = Hits(h, "TimerScheduled")
  BY <1>n, SMT DEF Longer
<1>5. /\ A \subseteq 1 .. Len(h) /\ A \subseteq Nat /\ IsFiniteSet(A)
      /\ Hits(h, "TimerScheduled") \subseteq 1 .. Len(h)
      /\ IsFiniteSet(Hits(h, "TimerScheduled"))
  BY HitsIn
<1> HIDE DEF A, A2
<1>6. PICK cert2 : Chain(h2, K + 1, cert2) /\ cert2[K + 2] = N + 1
  <2>1. FirstFrom(A2, cert[K + 1], N)
    <3>1. ASSUME NEW i \in A2, cert[K + 1] <= i PROVE N <= i
      <4>1. CASE i \in A
        <5>1. i < cert[K + 1] /\ i \in Nat
          BY <1>1, <1>5, <4>1 DEF Ledger, A
        <5> QED  BY <1>2, <3>1, <5>1, SMT
      <4> QED  BY <1>0, <1>4, <4>1, SMT
    <3> QED  BY <1>2, <1>4, <3>1 DEF FirstFrom
  <2>2. Matched(h2, Program[K + 1], cert[K + 1], N)
    BY <1>3, <2>1 DEF Matched, A2
  <2>3. Chain(h2, K, cert) /\ K + 1 \in DOMAIN Program
    BY <1>1, <1>3, <1>4, ChainStays
  <2> QED  BY <1>4, <2>2, <2>3, ChainProlonged, SMT
<1>7. Ledger(h2, K + 1, N + 1)
  <2>1. \A i \in A2 : i < N + 1 /\ h2[i].ref = ActivityName
    <3>1. ASSUME NEW i \in A PROVE i < N + 1 /\ h2[i].ref = ActivityName
      <4>1. i < N + 1
        BY <1>n, <1>0, <1>5, SMT
      <4>2. h2[i] = h[i] /\ h[i].ref = ActivityName
        BY <1>1, <1>4, <1>5 DEF Extended, Ledger, A
      <4> QED  BY <4>1, <4>2
    <3>2. N < N + 1
      BY <1>0, SMT
    <3> QED  BY <1>4, <3>1, <3>2
  <2>2. Open(h2, N + 1) = {}
    BY <1>n, <1>0, <1>4, <1>5, SMT DEF Open
  <2>3. Cardinality(A2) <= Cardinality(Prefix(K + 1, "activity"))
    <3>1. Cardinality(A) <= Cardinality(Prefix(K, "activity")) /\ A2 \subseteq A \cup {N}
      BY <1>1, <1>4 DEF Ledger, A
    <3> QED  BY <1>2, <1>3, <1>5, <3>1, PrefixHolds
  <2>4. Cardinality(Hits(h2, "TimerScheduled")) <= Cardinality(Prefix(K + 1, "sleep"))
    BY <1>1, <1>2, <1>3, <1>4, <1>5, PrefixHolds DEF Ledger
  <2> QED  BY <2>1, <2>2, <2>3, <2>4 DEF Ledger, A2
<1>8. OnChain(h2, K + 1, cert2, q)
  <2>1. r.seen <= Len(h) /\ 1 <= r.cursor /\ \A i \in Hits(h, "TimerScheduled") : i <= r.seen
    BY <1>1 DEF OnChain, Current
  <2>2. q.seen <= Len(h2) /\ q.seen < N /\ q.seen < N + 1 /\ K + 1 > 0 /\ (K + 1) + 1 = K + 2
    BY <1>n, <1>0, <1>2, <1>4, <2>1, SMT
  <2>3. Current(h2, q)
    BY <1>4, <2>1, <2>2 DEF Current
  <2>4. Clean(h2, q)
    BY <1>3, <1>4, <2>2 DEF Clean, A, A2
  <2>5. Ahead(h2, K + 1, cert2, q)
    BY <1>3, <1>6, <2>2, <2>4 DEF Ahead
  <2> QED  BY <2>3, <2>5 DEF OnChain
<1>9. (K + 1) + 1 = K + 2
  BY <1>2, SMT
<1> QED  BY <1>6, <1>7, <1>8, <1>9 DEF Certified

(* A fresh Sleep enters its ScheduleTimer call.                            *)
LEMMA BooksAsleep ==
  ASSUME NEW h \in Seq(Event), NEW r \in Run, NEW q \in Run, Certified(h, {r}),
         r.timer = 0, ~r.sched, r.k \in DOMAIN Program, Program[r.k] = "sleep",
         \A i \in Hits(h, "TimerScheduled") : i < r.cursor \/ r.seen < i,
         q.timer # 0, ~q.sched, q.seen = r.seen, q.k = r.k, q.cursor = r.cursor
  PROVE  Certified(h, {q})
<1>1. PICK K, cert : Chain(h, K, cert) /\ Ledger(h, K, cert[K + 1]) /\ OnChain(h, K, cert, r)
  BY DEF Certified
<1>2. r.k = K + 1 /\ Open(h, cert[K + 1]) = {} /\ Clean(h, r)
  BY <1>1, ChainEnds
<1>3. Current(h, q) /\ Clean(h, q)
  BY <1>1, <1>2 DEF OnChain, Current, Clean
<1>4. Sleeping(h, K, cert, q)
  BY <1>2, <1>3 DEF Sleeping
<1> QED  BY <1>1, <1>3, <1>4 DEF Certified, OnChain

(* The second half of ScheduleActivity, or the death of its engine, lets   *)
(* the function go on.                                                     *)
LEMMA BooksPassed ==
  ASSUME NEW h, NEW r, NEW q, Certified(h, {r}), r.sched,
         q.timer = 0, ~q.sched, q.seen = r.seen, q.k = r.k + 1, q.cursor = r.cursor
  PROVE  Certified(h, {q})
<1>1. PICK K, cert : Chain(h, K, cert) /\ Ledger(h, K, cert[K + 1]) /\ OnChain(h, K, cert, r)
  BY DEF Certified
<1>2. Ahead(h, K, cert, r) /\ Current(h, r)
  BY <1>1 DEF OnChain, Replaying, Sleeping
<1>3. Current(h, q) /\ Clean(h, q)
  BY <1>2 DEF Ahead, Current, Clean
<1>4. Ahead(h, K, cert, q)
  BY <1>2, <1>3 DEF Ahead
<1> QED  BY <1>1, <1>3, <1>4 DEF Certified, OnChain

(* The ScheduleTimer call ends, and with it the run: the new timer is the  *)
(* one the next command waits for.                                         *)
LEMMA BooksArmed ==
  ASSUME NEW h \in Seq(Event), NEW r, Certified(h, {r}), r.timer # 0,
         NEW h2, Longer(h, "TimerScheduled", h2)
  PROVE  Certified(h2, {})
<1>n. PICK N : N = Len(h) + 1
  OBVIOUS
<1>1. PICK K, cert : Chain(h, K, cert) /\ Ledger(h, K, cert[K + 1]) /\ OnChain(h, K, cert, r)
  BY DEF Certified
<1>2. K \in Nat /\ cert[K + 1] \in Nat /\ cert[K + 1] <= N
  BY <1>n, <1>1, ChainIs
<1>3. K + 1 \in DOMAIN Program /\ Program[K + 1] = "sleep" /\ Open(h, cert[K + 1]) = {}
  BY <1>1 DEF OnChain, Replaying, Sleeping, Ahead
<1>4. /\ h2 \in Seq(Event) /\ Extended(h, h2)
      /\ Hits(h2, "TimerScheduled") = Hits(h, "TimerScheduled") \cup {N}
      /\ Hits(h2, "ActivityScheduled") = Hits(h, "ActivityScheduled")
  BY <1>n, SMT DEF Longer
<1>5. Open(h2, cert[K + 1]) = {N}
  BY <1>2, <1>3, <1>4 DEF Open
<1>6. Cardinality(Hits(h2, "TimerScheduled")) <= Cardinality(Prefix(K + 1, "sleep"))
  <2>1. Cardinality(Hits(h, "TimerScheduled")) <= Cardinality(Prefix(K, "sleep"))
    BY <1>1, <1>3 DEF Ledger
  <2>2. Hits(h2, "TimerScheduled") \subseteq Hits(h, "TimerScheduled") \cup {N}
        /\ IsFiniteSet(Hits(h, "TimerScheduled"))
    BY <1>4, HitsIn
  <2> QED  BY <1>2, <1>3, <2>1, <2>2, PrefixHolds
<1>7. Ledger(h2, K, cert[K + 1])
  <2>1. \A i \in Hits(h, "ActivityScheduled") : i < cert[K + 1] /\ h2[i].ref = ActivityName
    <3>1. \A i \in Hits(h, "ActivityScheduled") : h2[i] = h[i]
      BY <1>4, HitsIn DEF Extended
    <3> QED  BY <1>1, <3>1 DEF Ledger
  <2>2. Cardinality(Hits(h, "ActivityScheduled")) <= Cardinality(Prefix(K, "activity"))
    BY <1>1 DEF Ledger
  <2>3. Open(h2, cert[K + 1]) # {} /\ \A i, j \in Open(h2, cert[K + 1]) : i = j
    BY <1>5
  <2> QED  BY <1>3, <1>4, <1>6, <2>1, <2>2, <2>3 DEF Ledger
<1>8. Chain(h2, K, cert)
  BY <1>1, <1>4, ChainStays
<1> QED  BY <1>7, <1>8 DEF Certified

(* The counts that IssuedOnce is about.                                    *)
LEMMA BooksBound ==
  ASSUME NEW h \in Seq(Event), NEW L, Certified(h, L) \/ Spent(h, L)
  PROVE  /\ Cardinality(Hits(h, "ActivityScheduled")) <= Cardinality(Commands("activity"))
         /\ Cardinality(Hits(h, "TimerScheduled")) <= Cardinality(Commands("sleep"))
<1>1. CASE Spent(h, L)
  BY <1>1 DEF Spent
<1>2. CASE Certified(h, L)
  <2>1. PICK K, cert : Ledger(h, K, cert[K + 1])
    BY <1>2 DEF Certified
  <2>2. ASSUME NEW type, NEW cmd, NEW n, Cardinality(Hits(h, type)) <= Cardinality(Prefix(n, cmd))
        PROVE  Cardinality(Hits(h, type)) <= Cardinality(Commands(cmd))
    <3>1. /\ IsFiniteSet(Hits(h, type)) /\ IsFiniteSet(Commands(cmd))
          /\ Hits(h, type) \subseteq Hits(h, type) /\ Prefix(n, cmd) \subseteq Commands(cmd)
      BY HitsIn, CommandsFinite
    <3> QED  BY <2>2, <3>1, NoMore
  <2> QED  BY <2>1, <2>2 DEF Ledger
<1> QED  BY <1>1, <1>2

(* The engine dies inside the ScheduleTimer call, and the function goes on *)
(* without the timer.                                                      *)
LEMMA BooksCut ==
  ASSUME NEW h \in Seq(Event), NEW r \in Run, NEW q \in Run, Certified(h, {r}), r.timer # 0,
         ~q.sched, q.seen = r.seen, q.k = r.k + 1, q.cursor = r.cursor
  PROVE  Spent(h, {q})
<1>1. PICK K, cert : Chain(h, K, cert) /\ Ledger(h, K, cert[K + 1]) /\ OnChain(h, K, cert, r)
  BY DEF Certified
<1>2. Current(h, r) /\ Clean(h, r) /\ r.k = K + 1 /\ Open(h, cert[K + 1]) = {} /\ K \in Nat
  BY <1>1, ChainIs DEF OnChain, Replaying, Sleeping, Ahead
<1>3. Current(h, q) /\ Clean(h, q)
  BY <1>2 DEF Current, Clean
<1>4. ASSUME NEW cmd PROVE Prefix(K, cmd) \subseteq Done(q, cmd)
  <2>1. \A i \in DOMAIN Program : i <= K => i < q.k
    BY <1>2, ProgramIs, SMT
  <2> QED  BY <2>1 DEF Prefix, Done
<1>5. ASSUME NEW type, NEW cmd, Cardinality(Hits(h, type)) <= Cardinality(Prefix(K, cmd))
      PROVE  Cardinality(Hits(h, type)) <= Cardinality(Done(q, cmd))
  <2>1. /\ IsFiniteSet(Hits(h, type)) /\ IsFiniteSet(Done(q, cmd))
        /\ Hits(h, type) \subseteq Hits(h, type)
    BY HitsIn, CommandsFinite
  <2> QED  BY <1>4, <1>5, <2>1, NoMore
<1>6. /\ Cardinality(Hits(h, "ActivityScheduled")) <= Cardinality(Done(q, "activity"))
      /\ Cardinality(Hits(h, "TimerScheduled")) <= Cardinality(Done(q, "sleep"))
  BY <1>1, <1>2, <1>5 DEF Ledger
<1> QED  BY <1>3, <1>6, BooksBound DEF Spent

(* The steps of such a run: it passes a command, ...                       *)
LEMMA SpentPassed ==
  ASSUME NEW h \in Seq(Event), NEW r \in Run, NEW q \in Run, Spent(h, {r}),
         q.seen = r.seen, r.cursor <= q.cursor,
         \A cmd \in Cmd : Done(r, cmd) \subseteq Done(q, cmd)
  PROVE  Spent(h, {q})
<1>1. r.cursor \in Nat /\ q.cursor \in Nat /\ r.seen \in Nat
  BY DEF Run
<1>2. Current(h, r) /\ Clean(h, r)
  BY DEF Spent
<1>3. Current(h, q)
  <2>1. 1 <= q.cursor
    BY <1>1, <1>2, SMT DEF Current
  <2> QED  BY <1>2, <2>1 DEF Current
<1>4. Clean(h, q)
  <2>1. \A i \in Nat : i < r.cursor => i < q.cursor
    BY <1>1, SMT
  <2>2. \A type : Hits(h, type) \subseteq Nat
    BY HitsIn
  <2> QED  BY <1>2, <2>1, <2>2 DEF Clean
<1>5. ASSUME NEW type, NEW cmd \in Cmd, Cardinality(Hits(h, type)) <= Cardinality(Done(r, cmd))
      PROVE  Cardinality(Hits(h, type)) <= Cardinality(Done(q, cmd))
  <2>1. /\ IsFiniteSet(Hits(h, type)) /\ IsFiniteSet(Done(q, cmd))
        /\ Hits(h, type) \subseteq Hits(h, type)
    BY HitsIn, CommandsFinite
  <2> QED  BY <1>5, <2>1, NoMore
<1> QED  BY <1>3, <1>4, <1>5 DEF Spent, Cmd

(* ... records an activity, ...                                            *)
LEMMA SpentIssued ==
  ASSUME NEW h \in Seq(Event), NEW r \in Run, NEW q \in Run, Spent(h, {r}),
         ~r.sched, r.k \in DOMAIN Program, Program[r.k] = "activity",
         q.sched, q.seen = r.seen, q.k = r.k, q.cursor = r.cursor,
         NEW h2, Longer(h, "ActivityScheduled", h2)
  PROVE  Spent(h2, {q})
<1>n. PICK N : N = Len(h) + 1
  OBVIOUS
<1>0. r.cursor \in Nat /\ r.seen \in Nat /\ r.k \in Nat /\ Len(h) \in Nat
  BY HitsIn DEF Run
<1>1. Current(h, r) /\ Clean(h, r)
  BY DEF Spent
<1>2. /\ h2 \in Seq(Event) /\ Extended(h, h2) /\ Len(h2) = N
      /\ Hits(h2, "ActivityScheduled") = Hits(h, "ActivityScheduled") \cup {N}
      /\ Hits(h2, "TimerScheduled") = Hits(h, "TimerScheduled")
  BY <1>n, SMT DEF Longer
<1>3. q.seen <= Len(h2) /\ q.seen < N
  BY <1>n, <1>0, <1>1, <1>2, SMT DEF Current
<1>4. Current(h2, q)
  BY <1>1, <1>2, <1>3 DEF Current
<1>5. Clean(h2, q)
  BY <1>1, <1>2, <1>3 DEF Clean
<1>6. Cardinality(Hits(h2, "ActivityScheduled")) <= Cardinality(Done(q, "activity"))
  <2>1. ~(r.k < r.k) /\ q.k = r.k
    BY <1>0, SMT
  <2>2. PICK S, T, S2, T2, y : /\ S = Hits(h, "ActivityScheduled") /\ T = Done(r, "activity")
                               /\ S2 = Hits(h2, "ActivityScheduled") /\ T2 = Done(q, "activity")
                               /\ y = r.k
    OBVIOUS
  <2>3. T \cup {y} \subseteq T2 /\ y \notin T
    BY <2>1, <2>2 DEF Done
  <2>4. IsFiniteSet(S) /\ IsFiniteSet(T2) /\ Cardinality(S) <= Cardinality(T)
    BY <2>2, HitsIn, CommandsFinite DEF Spent
  <2>5. S2 \subseteq S \cup {N}
    BY <1>2, <2>2
  <2>6. Cardinality(S2) <= Cardinality(T2)
    BY <2>3, <2>4, <2>5, OneMore
  <2> QED  BY <2>2, <2>6
<1>7. Cardinality(Hits(h2, "TimerScheduled")) <= Cardinality(Done(q, "sleep"))
  <2>1. Done(r, "sleep") \subseteq Done(q, "sleep") /\ IsFiniteSet(Done(q, "sleep"))
    BY CommandsFinite DEF Done
  <2>2. /\ IsFiniteSet(Hits(h, "TimerScheduled"))
        /\ Hits(h2, "TimerScheduled") \subseteq Hits(h, "TimerScheduled")
        /\ Cardinality(Hits(h, "TimerScheduled")) <= Cardinality(Done(r, "sleep"))
    BY <1>2, HitsIn DEF Spent
  <2> QED  BY <2>1, <2>2, NoMore
<1>8. ASSUME NEW type, NEW cmd, Cardinality(Hits(h2, type)) <= Cardinality(Done(q, cmd))
      PROVE  Cardinality(Hits(h2, type)) <= Cardinality(Commands(cmd))
  <2>1. /\ IsFiniteSet(Hits(h2, type)) /\ IsFiniteSet(Commands(cmd))
        /\ Hits(h2, type) \subseteq Hits(h2, type) /\ Done(q, cmd) \subseteq Commands(cmd)
    BY <1>2, HitsIn, CommandsFinite
  <2> QED  BY <1>8, <2>1, NoMore
<1> QED  BY <1>4, <1>5, <1>6, <1>7, <1>8 DEF Spent

(* ... or ends with a timer.                                               *)
LEMMA SpentArmed ==
  ASSUME NEW h \in Seq(Event), NEW r \in Run, Spent(h, {r}),
         ~r.sched, r.k \in DOMAIN Program, Program[r.k] = "sleep",
         NEW h2, Longer(h, "TimerScheduled", h2)
  PROVE  Spent(h2, {})
<1>n. PICK N : N = Len(h) + 1
  OBVIOUS
<1>1. /\ Hits(h2, "TimerScheduled") = Hits(h, "TimerScheduled") \cup {N}
      /\ Hits(h2, "ActivityScheduled") = Hits(h, "ActivityScheduled")
  BY <1>n, SMT DEF Longer
<1>2. Cardinality(Hits(h2, "TimerScheduled")) <= Cardinality(Commands("sleep"))
  <2>1. r.k \in Nat /\ ~(r.k < r.k)
    BY ProgramIs, SMT
  <2>2. PICK S, T, S2, T2, y : /\ S = Hits(h, "TimerScheduled") /\ T = Done(r, "sleep")
                               /\ S2 = Hits(h2, "TimerScheduled") /\ T2 = Commands("sleep")
                               /\ y = r.k
    OBVIOUS
  <2>3. T \cup {y} \subseteq T2 /\ y \notin T
    BY <2>1, <2>2 DEF Done, Commands
  <2>4. IsFiniteSet(S) /\ IsFiniteSet(T2) /\ Cardinality(S) <= Cardinality(T)
    BY <2>2, HitsIn, CommandsFinite DEF Spent
  <2>5. S2 \subseteq S \cup {N}
    BY <1>1, <2>2
  <2>6. Cardinality(S2) <= Cardinality(T2)
    BY <2>3, <2>4, <2>5, OneMore
  <2> QED  BY <2>2, <2>6
<1> QED  BY <1>1, <1>2 DEF Spent

-----------------------------------------------------------------------------
(* What the scans of replay find, in terms of the whole history.           *)

LEMMA ScanFirst ==
  ASSUME NEW T \in SUBSET Nat, NEW c \in Nat, 1 <= c, NEW m \in Nat,
         NEW S, \A i : i \in S <=> i \in c .. m /\ i \in T
  PROVE  /\ First(S) # 0 => FirstFrom(T, c, First(S)) /\ First(S) <= m
         /\ First(S) = 0 => \A i \in T : i < c \/ m < i
<1>1. \A i \in S : i \in Nat /\ i # 0 /\ c <= i /\ i <= m /\ i \in T
  BY SMT
<1>2. S \in SUBSET Nat
  BY <1>1
<1>3. S # {} => First(S) \in S /\ \A i \in S : First(S) <= i
  BY <1>2, MinNat DEF First
<1>4. ASSUME First(S) # 0 PROVE FirstFrom(T, c, First(S)) /\ First(S) <= m
  <2>1. PICK n : n = First(S)
    OBVIOUS
  <2>2. n \in S /\ \A i \in S : n <= i
    BY <1>3, <1>4, <2>1 DEF First
  <2>3. n \in T /\ c <= n /\ n <= m /\ n \in Nat
    BY <1>1, <2>2
  <2>4. ASSUME NEW i \in T, c <= i PROVE n <= i
    <3>1. CASE i <= m
      <4>1. i \in S
        BY <2>4, <3>1, SMT
      <4> QED  BY <2>2, <4>1
    <3>2. CASE ~(i <= m)
      BY <2>3, <3>2, SMT
    <3> QED  BY <3>1, <3>2
  <2> QED  BY <2>1, <2>3, <2>4 DEF FirstFrom
<1>5. ASSUME First(S) = 0, NEW i \in T PROVE i < c \/ m < i
  <2>1. i \notin S
    BY <1>1, <1>3, <1>5
  <2> QED  BY <2>1, SMT
<1> QED  BY <1>4, <1>5

LEMMA Scans ==
  ASSUME NEW h \in Seq(Event), NEW m \in Nat, m <= Len(h), NEW c \in Nat, 1 <= c,
         NEW g, Len(g) = m, \A i \in 1 .. m : g[i] = h[i]
  PROVE  /\ LET f == findSignalReceived(g, c)
            IN  f # 0 => FirstFrom(Hits(h, "SignalReceived"), c, f) /\ f <= m
         /\ LET f == findActivityScheduled(g, c, ActivityName)
                T == {i \in Hits(h, "ActivityScheduled") : h[i].ref = ActivityName}
            IN  /\ f # 0 => FirstFrom(T, c, f) /\ f <= m
                /\ f = 0 => \A i \in T : i < c \/ m < i
         /\ LET f == findTimerScheduled(g, c)
            IN  /\ f # 0 => FirstFrom(Hits(h, "TimerScheduled"), c, f) /\ f <= m
                /\ f = 0 => \A i \in Hits(h, "TimerScheduled") : i < c \/ m < i
         /\ \A timer : \A s \in Nat :
              LET f == findTimerFired(g, timer, s)
              IN  f # 0 => FirstFrom(Fired(h, timer), s + 1, f) /\ f <= m
<1>1. \A d \in Nat : 1 <= d => \A i \in d .. m : i \in DOMAIN h /\ g[i] = h[i]
  BY SMT
<1>2. \A type : Hits(h, type) \in SUBSET Nat
  BY HitsIn
<1>3. ASSUME NEW f, f = findSignalReceived(g, c), f # 0
      PROVE  FirstFrom(Hits(h, "SignalReceived"), c, f) /\ f <= m
  <2>1. PICK S : S = {i \in c .. m : g[i].type = "SignalReceived"}
    OBVIOUS
  <2>2. \A i : i \in S <=> i \in c .. m /\ i \in Hits(h, "SignalReceived")
    BY <1>1, <2>1 DEF Hits
  <2>3. f = First(S)
    BY <1>3, <2>1 DEF findSignalReceived
  <2> QED  BY <1>2, <1>3, <2>2, <2>3, ScanFirst
<1>4. ASSUME NEW f, f = findActivityScheduled(g, c, ActivityName),
             NEW T, T = {i \in Hits(h, "ActivityScheduled") : h[i].ref = ActivityName}
      PROVE  /\ f # 0 => FirstFrom(T, c, f) /\ f <= m
             /\ f = 0 => \A i \in T : i < c \/ m < i
  <2>1. PICK S : S = {i \in c .. m : g[i].type = "ActivityScheduled" /\ g[i].ref = ActivityName}
    OBVIOUS
  <2>2. \A i : i \in S <=> i \in c .. m /\ i \in T
    BY <1>1, <1>4, <2>1 DEF Hits
  <2>3. f = First(S) /\ T \in SUBSET Nat
    BY <1>2, <1>4, <2>1 DEF findActivityScheduled
  <2> QED  BY <2>2, <2>3, ScanFirst
<1>5. ASSUME NEW f, f = findTimerScheduled(g, c)
      PROVE  /\ f # 0 => FirstFrom(Hits(h, "TimerScheduled"), c, f) /\ f <= m
             /\ f = 0 => \A i \in Hits(h, "TimerScheduled") : i < c \/ m < i
  <2>1. PICK S : S = {i \in c .. m : g[i].type = "TimerScheduled"}
    OBVIOUS
  <2>2. \A i : i \in S <=> i \in c .. m /\ i \in Hits(h, "TimerScheduled")
    BY <1>1, <2>1 DEF Hits
  <2>3. f = First(S)
    BY <1>5, <2>1 DEF findTimerScheduled
  <2> QED  BY <1>2, <2>2, <2>3, ScanFirst
<1>6. ASSUME NEW timer, NEW s \in Nat, NEW f, f = findTimerFired(g, timer, s), f # 0
      PROVE  FirstFrom(Fired(h, timer), s + 1, f) /\ f <= m
  <2>1. PICK S : S = {i \in s + 1 .. m : g[i].type = "TimerFired" /\ g[i].ref = timer}
    OBVIOUS
  <2>2. s + 1 \in Nat /\ 1 <= s + 1
    BY SMT
  <2>3. \A i : i \in S <=> i \in s + 1 .. m /\ i \in Fired(h, timer)
    BY <1>1, <2>1, <2>2 DEF Hits, Fired
  <2>4. f = First(S) /\ Fired(h, timer) \in SUBSET Nat
    BY <1>2, <1>6, <2>1 DEF findTimerFired, Fired
  <2> QED  BY <1>6, <2>2, <2>3, <2>4, ScanFirst
<1> QED  BY <1>3, <1>4, <1>5, <1>6

-----------------------------------------------------------------------------
(* The steps of a worker keep the books of its workflow.                   *)

Follows(h, L, h2, L2) ==
  /\ Certified(h, L) => Certified(h2, L2)
  /\ Spent(h, L) => Spent(h2, L2)

LEMMA FollowsLess ==
  ASSUME NEW h \in Seq(Event), NEW L \in SUBSET Run, NEW L2 \in SUBSET L
  PROVE  Follows(h, L, h, L2)
<1>1. Extended(h, h)
  BY SMT DEF Extended
<1> QED  BY <1>1, BooksKept DEF Follows

LEMMA DoneGrows ==
  ASSUME NEW r \in Run, NEW q \in Run, q.k = r.k + 1
  PROVE  \A cmd : Done(r, cmd) \subseteq Done(q, cmd)
<1>1. r.k \in Nat
  BY DEF Run
<1>2. \A i \in DOMAIN Program : i < r.k \/ i = r.k => i < q.k
  BY <1>1, ProgramIs, SMT
<1> QED  BY <1>2 DEF Done

LEMMA FollowsMatch ==
  ASSUME NEW h \in Seq(Event), SignalsLead, NEW r \in Run, NEW q \in Run,
         r.timer = 0, ~r.sched, r.k \in DOMAIN Program, NEW n \in Nat, r.cursor <= n, n <= r.seen,
         Certified(h, {r}) => Matched(h, Program[r.k], r.cursor, n),
         \/ Program[r.k] = "signal"
         \/ \E i \in Hits(h, "ActivityScheduled") \cup Hits(h, "TimerScheduled") :
              i \in Nat /\ r.cursor <= i /\ i <= r.seen,
         q.timer = 0, ~q.sched, q.seen = r.seen, q.k = r.k + 1, q.cursor = n + 1
  PROVE  Follows(h, {r}, h, {q})
<1>1. r.cursor \in Nat /\ r.seen \in Nat
  BY DEF Run
<1>2. Certified(h, {r}) => Certified(h, {q})
  BY BooksMatched
<1>3. ASSUME Spent(h, {r}) PROVE Spent(h, {q})
  <2>1. Clean(h, r)
    BY <1>3 DEF Spent
  <2>2. Program[r.k] = "signal"
    BY <1>1, <2>1, SMT DEF Clean
  <2>3. r.cursor <= q.cursor
    BY <1>1, SMT
  <2> QED  BY <1>3, <2>3, DoneGrows, SpentPassed
<1> QED  BY <1>2, <1>3 DEF Follows

(* What a step of run r does to the books of its workflow.                 *)
Steps(r, q) ==
  /\ q \in Run /\ Becomes(r, q) /\ q.id = r.id /\ q.wf = r.wf
  /\ Follows(history[r.wf], {r}, history'[r.wf], {x \in {q} : x.out = "none"})

LEMMA StepsEnd ==
  ASSUME TypeOK, NEW r \in running, UNCHANGED history, NEW out \in Outcome,
         Becomes(r, [r EXCEPT !.out = out])
  PROVE  \E q : Steps(r, q)
<1>1. r \in Run /\ history[r.wf] \in Seq(Event)
  BY DEF TypeOK, Run, StoreTypeOK
<1>2. PICK q : q = [r EXCEPT !.out = out]
  OBVIOUS
<1>3. q \in Run
  BY <1>1, <1>2, RunType
<1>4. q.id = r.id /\ q.wf = r.wf /\ q.out # "none"
  BY <1>1, <1>2, SMT DEF Run, Outcome
<1>5. PICK L : L = {x \in {q} : x.out = "none"}
  OBVIOUS
<1>6. L \in SUBSET {r}
  BY <1>4, <1>5
<1>7. Follows(history[r.wf], {r}, history[r.wf], L)
  BY <1>1, <1>6, FollowsLess
<1> QED  BY <1>2, <1>3, <1>4, <1>5, <1>7 DEF Steps

LEMMA StepsOn ==
  ASSUME TypeOK, TypeOK', NEW r \in running, NEW q \in Run, Becomes(r, q),
         q.id = r.id, q.wf = r.wf,
         Follows(history[r.wf], {r}, history'[r.wf], {q})
  PROVE  \E z : Steps(r, z)
<1>1. history'[r.wf] \in Seq(Event)
  BY DEF TypeOK, Run, StoreTypeOK
<1>2. PICK L : L = {x \in {q} : x.out = "none"}
  OBVIOUS
<1>3. L \in SUBSET {q} /\ {q} \in SUBSET Run
  BY <1>2
<1>4. Follows(history'[r.wf], {q}, history'[r.wf], L)
  BY <1>1, <1>3, FollowsLess
<1>5. Follows(history[r.wf], {r}, history'[r.wf], L)
  BY <1>4 DEF Follows
<1> QED  BY <1>2, <1>5 DEF Steps

LEMMA StepsMatch ==
  ASSUME TypeOK, TypeOK', SignalsLead, NEW r \in running, UNCHANGED history, NEW cmd, AtCommand(r, cmd),
         NEW n \in Nat, r.cursor <= n, n <= r.seen,
         Becomes(r, [r EXCEPT !.k = @ + 1, !.cursor = advance(@, n)]),
         Certified(history[r.wf], {r}) => Matched(history[r.wf], cmd, r.cursor, n),
         \/ cmd = "signal"
         \/ \E i \in Hits(history[r.wf], "ActivityScheduled") \cup Hits(history[r.wf], "TimerScheduled") :
              i \in Nat /\ r.cursor <= i /\ i <= r.seen
  PROVE  \E z : Steps(r, z)
<1>1. r \in Run /\ history[r.wf] \in Seq(Event) /\ r.cursor \in Nat
  BY DEF TypeOK, Run, StoreTypeOK
<1>2. r.timer = 0 /\ ~r.sched /\ r.k \in DOMAIN Program /\ Program[r.k] = cmd
  BY DEF AtCommand
<1>3. advance(r.cursor, n) = n + 1 /\ n + 1 \in Nat
  BY <1>1, SMT DEF advance
<1>4. PICK q : q = [r EXCEPT !.k = @ + 1, !.cursor = advance(@, n)]
  OBVIOUS
<1>5. q \in Run
  BY <1>1, <1>3, <1>4, RunType DEF Outcome
<1>6. /\ q.k = r.k + 1 /\ q.cursor = n + 1 /\ q.wf = r.wf /\ q.seen = r.seen /\ q.id = r.id
      /\ q.sched = r.sched /\ q.timer = r.timer
  BY <1>1, <1>3, <1>4, SMT DEF Run
<1>7. Follows(history[r.wf], {r}, history[r.wf], {q})
  BY <1>1, <1>2, <1>5, <1>6, FollowsMatch
<1> QED  BY <1>4, <1>5, <1>6, <1>7, StepsOn

LEMMA WorkerSteps ==
  ASSUME TypeOK, TypeOK', SignalsLead, NEW r \in running, Worker(r), ~Fault, SchedOK(r),
         Certified(history[r.wf], {r}) \/ Spent(history[r.wf], {r})
  PROVE  \E z : Steps(r, z)
<1>replay. ASSUME Current(history[r.wf], r),
                  WaitForSignal(r) \/ SleepReplayed(r) \/ QueueActivityReplayed(r)
           PROVE  \E z : Steps(r, z)
  <2> USE <1>replay
  <2>1. /\ r \in Run /\ history[r.wf] \in Seq(Event) /\ r.cursor \in Nat /\ r.seen \in Nat
        /\ 1 <= r.cursor /\ r.seen <= Len(history[r.wf])
    BY DEF TypeOK, Run, StoreTypeOK, Current
  <2>2. PICK h, g : h = history[r.wf] /\ g = Snapshot(r)
    OBVIOUS
  <2>3. h \in Seq(Event) /\ Len(g) = r.seen /\ \A i \in 1 .. r.seen : g[i] = h[i]
    BY <2>1, <2>2, SnapshotIs
  <2>4. \A type : Hits(h, type) \subseteq Nat
    BY <2>3, HitsIn
  <2>5. "yield" \in Outcome
    BY SMT DEF Outcome
  <2>6. CASE WaitForSignal(r)
    <3>0. AtCommand(r, "signal") /\ UNCHANGED history
      BY <2>6 DEF WaitForSignal, storeVars
    <3>1. PICK n : n = findSignalReceived(g, r.cursor)
      OBVIOUS
    <3>2. CASE n # 0
      <4>1. FirstFrom(Hits(h, "SignalReceived"), r.cursor, n) /\ n <= r.seen
        BY <2>1, <2>2, <2>3, <3>1, <3>2, Scans
      <4>2. n \in Nat /\ r.cursor <= n /\ Matched(h, "signal", r.cursor, n)
        BY <2>4, <4>1 DEF FirstFrom, Matched
      <4>3. Becomes(r, [r EXCEPT !.k = @ + 1, !.cursor = advance(@, n)])
        BY <2>2, <2>6, <3>1, <3>2 DEF WaitForSignal
      <4> QED  BY <2>2, <3>0, <4>1, <4>2, <4>3, StepsMatch
    <3>3. CASE n = 0
      <4>1. Becomes(r, [r EXCEPT !.out = "yield"])
        BY <2>2, <2>6, <3>1, <3>3 DEF WaitForSignal
      <4> QED  BY <2>5, <3>0, <4>1, StepsEnd
    <3> QED  BY <3>2, <3>3
  <2>7. CASE SleepReplayed(r)
    <3>0. AtCommand(r, "sleep") /\ UNCHANGED history
      BY <2>7 DEF SleepReplayed, storeVars
    <3>1. PICK m : m = findTimerScheduled(g, r.cursor)
      OBVIOUS
    <3>2. m # 0
      BY <2>2, <2>7, <3>1 DEF SleepReplayed
    <3>3. FirstFrom(Hits(h, "TimerScheduled"), r.cursor, m) /\ m <= r.seen
      BY <2>1, <2>2, <2>3, <3>1, <3>2, Scans
    <3>4. m \in Nat /\ r.cursor <= m /\ m \in Hits(h, "TimerScheduled")
      BY <2>4, <3>3 DEF FirstFrom
    <3>5. m \in 1 .. r.seen
      BY <2>1, <3>3, <3>4, SMT
    <3>6. g[m] = h[m]
      BY <2>3, <3>5
    <3>7. PICK n : n = findTimerFired(g, g[m].ref, m)
      OBVIOUS
    <3>8. CASE n # 0
      <4>1. FirstFrom(Fired(h, h[m].ref), m + 1, n) /\ n <= r.seen
        BY <2>1, <2>2, <2>3, <3>4, <3>6, <3>7, <3>8, Scans
      <4>2. n \in Nat /\ m + 1 <= n /\ Matched(h, "sleep", r.cursor, n)
        BY <2>4, <3>3, <3>4, <4>1 DEF FirstFrom, Matched, Fired
      <4>3. r.cursor <= n
        BY <2>1, <3>4, <4>2, SMT
      <4>4. Becomes(r, [r EXCEPT !.k = @ + 1, !.cursor = advance(@, n)])
        BY <2>2, <2>7, <3>1, <3>7, <3>8 DEF SleepReplayed
      <4> QED  BY <2>2, <3>0, <3>3, <3>4, <4>1, <4>2, <4>3, <4>4, StepsMatch
    <3>9. CASE n = 0
      <4>1. Becomes(r, [r EXCEPT !.out = "yield"])
        BY <2>2, <2>7, <3>1, <3>7, <3>9 DEF SleepReplayed
      <4> QED  BY <2>5, <3>0, <4>1, StepsEnd
    <3> QED  BY <3>8, <3>9
  <2>8. CASE QueueActivityReplayed(r)
    <3>0. AtCommand(r, "activity") /\ UNCHANGED history
      BY <2>8 DEF QueueActivityReplayed, storeVars
    <3>1. PICK n, T : /\ n = findActivityScheduled(g, r.cursor, ActivityName)
                      /\ T = {i \in Hits(h, "ActivityScheduled") : h[i].ref = ActivityName}
      OBVIOUS
    <3>2. n # 0
      BY <2>2, <2>8, <3>1 DEF QueueActivityReplayed
    <3>3. FirstFrom(T, r.cursor, n) /\ n <= r.seen
      BY <2>1, <2>2, <2>3, <3>1, <3>2, Scans
    <3>4. n \in Nat /\ r.cursor <= n /\ n \in Hits(h, "ActivityScheduled")
      BY <2>4, <3>1, <3>3 DEF FirstFrom
    <3>5. ASSUME Certified(h, {r}) PROVE Matched(h, "activity", r.cursor, n)
      <4>1. T = Hits(h, "ActivityScheduled")
        BY <3>1, <3>5 DEF Certified, Ledger
      <4> QED  BY <3>3, <4>1 DEF Matched
    <3>6. Becomes(r, [r EXCEPT !.k = @ + 1, !.cursor = advance(@, n)])
      BY <2>2, <2>8, <3>1 DEF QueueActivityReplayed
    <3> QED  BY <2>2, <3>0, <3>3, <3>4, <3>5, <3>6, StepsMatch
  <2> QED  BY <2>6, <2>7, <2>8
<1>issue. ASSUME Current(history[r.wf], r), ScheduleActivityRecord(r) PROVE \E z : Steps(r, z)
  <2> USE <1>issue
  <2>1. /\ r \in Run /\ history[r.wf] \in Seq(Event) /\ r.cursor \in Nat /\ r.seen \in Nat
        /\ 1 <= r.cursor /\ r.seen <= Len(history[r.wf]) /\ r.wf \in Workflow
    BY DEF TypeOK, Run, StoreTypeOK, Current
  <2>2. PICK h, g, h2, e : /\ h = history[r.wf] /\ g = Snapshot(r) /\ h2 = history'[r.wf]
                           /\ e = EvOf("ActivityScheduled", ActivityName)
    OBVIOUS
  <2>3. h \in Seq(Event) /\ Len(g) = r.seen /\ \A i \in 1 .. r.seen : g[i] = h[i]
    BY <2>1, <2>2, SnapshotIs
  <2>4. /\ r.timer = 0 /\ ~r.sched /\ r.k \in DOMAIN Program /\ Program[r.k] = "activity"
        /\ findActivityScheduled(g, r.cursor, ActivityName) = 0
        /\ Becomes(r, [r EXCEPT !.sched = TRUE])
        /\ history' = [history EXCEPT ![r.wf] = Append(@, e)]
    BY <2>2 DEF ScheduleActivityRecord, AtCommand, AppendEvent
  <2>5. \A i \in Hits(h, "ActivityScheduled") : h[i].ref = ActivityName => i < r.cursor \/ r.seen < i
    <3>1. PICK T : T = {i \in Hits(h, "ActivityScheduled") : h[i].ref = ActivityName}
      OBVIOUS
    <3>2. r.seen <= Len(h)
      BY <2>1, <2>2
    <3>3. \A i \in T : i < r.cursor \/ r.seen < i
      BY <2>1, <2>3, <2>4, <3>1, <3>2, Scans
    <3> QED  BY <3>1, <3>3
  <2>6. e \in Event /\ e.type = "ActivityScheduled" /\ e.ref = ActivityName
    BY <2>2, SMT DEF EvOf, Event, EventType, ActivityName
  <2>7. h2 = Append(h, e)
    BY <2>1, <2>2, <2>4 DEF TypeOK, StoreTypeOK
  <2>8. Longer(h, "ActivityScheduled", h2) /\ h2[Len(h) + 1].ref = ActivityName
    BY <2>3, <2>6, <2>7, Appended
  <2>9. PICK q : q = [r EXCEPT !.sched = TRUE]
    OBVIOUS
  <2>10. q \in Run
    BY <2>1, <2>9, RunType DEF Outcome
  <2>11. /\ q.k = r.k /\ q.cursor = r.cursor /\ q.wf = r.wf /\ q.seen = r.seen /\ q.id = r.id
         /\ q.sched /\ q.timer = r.timer
    BY <2>1, <2>9, SMT DEF Run
  <2>12. Follows(h, {r}, h2, {q})
    <3>1. Certified(h, {r}) => Certified(h2, {q})
      BY <2>1, <2>3, <2>4, <2>5, <2>8, <2>10, <2>11, BooksIssued
    <3>2. Spent(h, {r}) => Spent(h2, {q})
      BY <2>1, <2>3, <2>4, <2>8, <2>10, <2>11, SpentIssued
    <3> QED  BY <3>1, <3>2 DEF Follows
  <2> QED  BY <2>2, <2>4, <2>9, <2>10, <2>11, <2>12, StepsOn
<1>sleep. ASSUME Current(history[r.wf], r), SleepFresh(r) PROVE \E z : Steps(r, z)
  <2> USE <1>sleep
  <2>1. /\ r \in Run /\ history[r.wf] \in Seq(Event) /\ r.cursor \in Nat /\ r.seen \in Nat
        /\ 1 <= r.cursor /\ r.seen <= Len(history[r.wf])
    BY DEF TypeOK, Run, StoreTypeOK, Current
  <2>2. PICK h, g : h = history[r.wf] /\ g = Snapshot(r)
    OBVIOUS
  <2>3. h \in Seq(Event) /\ Len(g) = r.seen /\ (\A i \in 1 .. r.seen : g[i] = h[i]) /\ r.seen <= Len(h)
    BY <2>1, <2>2, SnapshotIs
  <2>4. /\ r.timer = 0 /\ ~r.sched /\ r.k \in DOMAIN Program /\ Program[r.k] = "sleep"
        /\ findTimerScheduled(g, r.cursor) = 0
        /\ Becomes(r, [r EXCEPT !.timer = nextTimer])
        /\ UNCHANGED history
    BY <2>2 DEF SleepFresh, AtCommand
  <2>5. \A i \in Hits(h, "TimerScheduled") : i < r.cursor \/ r.seen < i
    BY <2>1, <2>3, <2>4, Scans
  <2>6. PICK q : q = [r EXCEPT !.timer = nextTimer]
    OBVIOUS
  <2>7. q \in Run
    BY <2>1, <2>6, RunType DEF Outcome, TypeOK, TimerTypeOK
  <2>8. /\ q.k = r.k /\ q.cursor = r.cursor /\ q.wf = r.wf /\ q.seen = r.seen /\ q.id = r.id
        /\ q.sched = r.sched /\ q.timer = nextTimer
    BY <2>1, <2>6, SMT DEF Run
  <2>9. q.timer # 0
    BY <2>8 DEF TypeOK, TimerTypeOK
  <2>10. Follows(h, {r}, h, {q})
    <3>1. Certified(h, {r}) => Certified(h, {q})
      BY <2>1, <2>3, <2>4, <2>5, <2>7, <2>8, <2>9, BooksAsleep
    <3>2. \A cmd \in Cmd : Done(r, cmd) \subseteq Done(q, cmd)
      BY <2>8 DEF Done
    <3>3. r.cursor <= q.cursor
      BY <2>1, <2>8, SMT
    <3>4. Spent(h, {r}) => Spent(h, {q})
      BY <2>1, <2>3, <2>7, <2>8, <3>2, <3>3, SpentPassed
    <3> QED  BY <3>1, <3>4 DEF Follows
  <2> QED  BY <2>2, <2>4, <2>6, <2>7, <2>8, <2>10, StepsOn
<1>enqueue. ASSUME ScheduleActivityEnqueue(r) PROVE \E z : Steps(r, z)
  <2> USE <1>enqueue
  <2>1. r \in Run /\ history[r.wf] \in Seq(Event) /\ r.cursor \in Nat
    BY DEF TypeOK, Run, StoreTypeOK
  <2>2. /\ r.sched /\ r.timer = 0 /\ UNCHANGED history
        /\ Becomes(r, [r EXCEPT !.k = @ + 1, !.sched = FALSE])
    BY DEF ScheduleActivityEnqueue, SchedOK
  <2>3. PICK q : q = [r EXCEPT !.k = @ + 1, !.sched = FALSE]
    OBVIOUS
  <2>4. q \in Run
    BY <2>1, <2>3, RunType DEF Outcome
  <2>5. /\ q.k = r.k + 1 /\ q.cursor = r.cursor /\ q.wf = r.wf /\ q.seen = r.seen /\ q.id = r.id
        /\ ~q.sched /\ q.timer = r.timer
    BY <2>1, <2>3, SMT DEF Run
  <2>6. r.cursor <= q.cursor
    BY <2>1, <2>5, SMT
  <2>7. PICK h : h = history[r.wf]
    OBVIOUS
  <2>8. Certified(h, {r}) => Certified(h, {q})
    BY <2>2, <2>5, BooksPassed
  <2>9. Spent(h, {r}) => Spent(h, {q})
    BY <2>1, <2>4, <2>5, <2>6, <2>7, DoneGrows, SpentPassed
  <2>10. Follows(h, {r}, h, {q})
    BY <2>8, <2>9 DEF Follows
  <2> QED  BY <2>2, <2>3, <2>4, <2>5, <2>7, <2>10, StepsOn
<1>1. Current(history[r.wf], r)
  BY DEF Certified, Spent, OnChain
<1>2. CASE FunctionReturns(r)
  <2>1. PICK out \in Outcome : Becomes(r, [r EXCEPT !.out = out]) /\ UNCHANGED history
    BY <1>2 DEF FunctionReturns, Outcome, storeVars
  <2> QED  BY <2>1, StepsEnd
<1> QED  BY <1>1, <1>2, <1>replay, <1>issue, <1>sleep, <1>enqueue DEF Worker

-----------------------------------------------------------------------------
(* The books of a workflow are kept.                                       *)

Live(w) == {r \in running : r.wf = w /\ r.out = "none"}

Books(w) ==
  \/ Certified(history[w], Live(w))
  \/ Rights(w) = {} /\ startPc[w] # "idle" /\ Spent(history[w], Live(w))

(* Nothing is issued for w.                                                *)
Unissued(w) ==
  /\ Extended(history[w], history'[w])
  /\ Hits(history'[w], "ActivityScheduled") = Hits(history[w], "ActivityScheduled")
  /\ Hits(history'[w], "TimerScheduled") = Hits(history[w], "TimerScheduled")

LEMMA NextIssues ==
  ASSUME TypeOK, Next, ~Fault, NEW w \in Workflow
  PROVE  \/ Unissued(w)
         \/ \E r \in running : r.wf = w /\ ScheduleActivityRecord(r)
         \/ \E a \in arming : a.timer.wf = w /\ TimerScheduled(a.timer)
<1>1. Extended(history[w], history'[w])
  <2>1. Grows(w)
    BY NextHistory, StepGrows
  <2> QED  BY <2>1 DEF Grows, Extended
<1>2. ASSUME /\ Recorded(w, "ActivityScheduled")' = Recorded(w, "ActivityScheduled")
             /\ Recorded(w, "TimerScheduled")' = Recorded(w, "TimerScheduled")
      PROVE  Unissued(w)
  BY <1>1, <1>2 DEF Unissued, Recorded, Hits
<1>3. CASE PlainStep
  BY <1>2, <1>3, PlainKeeps
<1>4. ASSUME NEW r \in running, ScheduleActivityRecord(r), r.wf # w PROVE Unissued(w)
  <2>1. r.wf \in Workflow /\ AppendEvent(r.wf, EvOf("ActivityScheduled", ActivityName))
    BY <1>4 DEF ScheduleActivityRecord, TypeOK, Run
  <2> QED  BY <1>2, <1>4, <2>1, RecordedOne
<1>5. ASSUME NEW a \in arming, TimerScheduled(a.timer), a.timer.wf # w PROVE Unissued(w)
  <2>1. a.timer.wf \in Workflow /\ AppendEvent(a.timer.wf, EvOf("TimerScheduled", a.timer.id))
    BY <1>5 DEF TimerScheduled, AppendTimerScheduled, TryAppendEvent, TypeOK, TimerTypeOK, Timer
  <2> QED  BY <1>2, <1>5, <2>1, RecordedOne
<1>6. ASSUME NEW c \in completing, CompleteAppend(c) PROVE Unissued(w)
  <2>1. c.wf \in Workflow /\ c.out \in Outcome /\ TryAppendEvent(c.wf, Ev(OutcomeEvent(c.out)))
    BY <1>6 DEF CompleteAppend, TypeOK, Completion
  <2>2. Ev(OutcomeEvent(c.out)) \in Event
    BY <2>1, EventTypes DEF EventType, Outcome, OutcomeEvent
  <2>3. /\ Ev(OutcomeEvent(c.out)).type # "ActivityScheduled"
        /\ Ev(OutcomeEvent(c.out)).type # "TimerScheduled"
    BY <2>1, SMT DEF Ev, EvOf, Outcome, OutcomeEvent
  <2> QED  BY <1>2, <2>1, <2>2, <2>3, RecordedNot
<1> QED  BY <1>3, <1>4, <1>5, <1>6, NextPlain

LEMMA LiveOne ==
  ASSUME WorkInv, NEW w, Alone(w), NEW r \in Live(w)
  PROVE  Live(w) = {r} /\ Works(r.id, w)
<1>1. \A q \in Live(w) : q \in running /\ Works(q.id, w)
  BY DEF Live, Works
<1>2. \A q \in Live(w) : q = r
  BY <1>1 DEF Alone, WorkInv, Apart
<1> QED  BY <1>1, <1>2

LEMMA BooksTurn ==
  ASSUME IInv, Next, NEW w \in Workflow, Books(w),
         Follows(history[w], Live(w), history'[w], Live(w)')
  PROVE  Books(w)'
<1>1. CASE Certified(history[w], Live(w))
  BY <1>1 DEF Books, Follows
<1>2. CASE Rights(w) = {} /\ startPc[w] # "idle" /\ Spent(history[w], Live(w))
  <2>1. Rights(w)' = {} /\ startPc'[w] # "idle"
    BY <1>2, RightsGone
  <2> QED  BY <1>2, <2>1 DEF Books, Follows
<1> QED  BY <1>1, <1>2 DEF Books

LEMMA BooksStay ==
  ASSUME IInv, IInv', Next, NEW w \in Workflow, Books(w), Unissued(w), Live(w)' \subseteq Live(w)
  PROVE  Books(w)'
<1>1. history[w] \in Seq(Event) /\ history'[w] \in Seq(Event) /\ Live(w) \in SUBSET Run
  BY DEF IInv, TypeOK, StoreTypeOK, Live
<1>2. Follows(history[w], Live(w), history'[w], Live(w)')
  BY <1>1, BooksKept DEF Unissued, Follows
<1> QED  BY <1>2, BooksTurn

LEMMA WorkerBooks ==
  ASSUME IInv, IInv', WorkInv, Next, ~Fault, SignalsLead, NEW r \in running, Worker(r),
         Alone(r.wf), Books(r.wf)
  PROVE  Books(r.wf)'
<1>1. PICK w : w = r.wf /\ w \in Workflow
  BY DEF IInv, TypeOK, Run
<1>2. TypeOK /\ TypeOK' /\ SchedOK(r)
  BY DEF IInv, WorkInv
<1>3. r.out = "none"
  BY <1>2
     DEF Worker, WaitForSignal, SleepReplayed, SleepFresh, QueueActivityReplayed, AtCommand, SchedOK,
         ScheduleActivityRecord, ScheduleActivityEnqueue, FunctionReturns
<1>4. Live(w) = {r}
  BY <1>1, <1>3, LiveOne DEF Live
<1>5. Certified(history[w], {r}) \/ Spent(history[w], {r})
  BY <1>1, <1>4 DEF Books
<1>6. PICK z : Steps(r, z)
  BY <1>1, <1>2, <1>5, WorkerSteps
<1>7. Live(w)' = {x \in {z} : x.out = "none"}
  <2>1. running' = (running \ {r}) \cup {z} /\ z.wf = w
    BY <1>1, <1>6 DEF Steps, Becomes
  <2>2. \A q \in running : q.wf = w /\ q.out = "none" => q = r
    BY <1>4 DEF Live
  <2>3. \A x : x \in Live(w)' <=> x \in running' /\ x.wf = w /\ x.out = "none"
    BY DEF Live
  <2> QED  BY <2>1, <2>2, <2>3
<1>8. Follows(history[w], Live(w), history'[w], Live(w)')
  BY <1>1, <1>4, <1>6, <1>7 DEF Steps
<1> QED  BY <1>1, <1>8, BooksTurn

LEMMA ScheduledBooks ==
  ASSUME IInv, WorkInv, ArmInv, Next, ~Fault, NEW a \in arming, TimerScheduled(a.timer),
         Alone(a.timer.wf), Books(a.timer.wf)
  PROVE  Books(a.timer.wf)'
<1>1. PICK w : w = a.timer.wf /\ w \in Workflow
  BY DEF IInv, TypeOK, TimerTypeOK, Timer
<1>2. PICK r \in running : r.wf = w /\ r.timer = a.timer.id /\ r.timer # 0
  BY <1>1 DEF ArmInv, WorkInv
<1>3. ~r.sched /\ r.out = "none" /\ r.k \in DOMAIN Program /\ Program[r.k] = "sleep"
  BY <1>2 DEF ArmInv, Asleep
<1>4. Live(w) = {r} /\ r \in Run
  BY <1>1, <1>2, <1>3, LiveOne DEF Live, IInv, TypeOK
<1>5. Live(w)' = {}
  <2>1. ASSUME NEW q \in Live(w)' PROVE FALSE
    <3>1. q \in running' /\ q.wf = w /\ q.out = "none"
      BY <2>1 DEF Live
    <3>2. "none" # "yield"
      BY SMT
    <3>3. q \in running /\ q.timer # a.timer.id
      BY <3>1, <3>2, ScheduledWakes DEF IInv
    <3>4. q \in Live(w)
      BY <3>1, <3>3 DEF Live
    <3> QED  BY <1>2, <1>4, <3>3, <3>4
  <2> QED  BY <2>1
<1>6. PICK h, h2, e : h = history[w] /\ h2 = history'[w] /\ e = EvOf("TimerScheduled", a.timer.id)
  OBVIOUS
<1>7. history \in [Workflow -> Seq(Event)] /\ a.timer.id \in Nat
  BY DEF IInv, TypeOK, StoreTypeOK, TimerTypeOK, Timer
<1>8. history' = [history EXCEPT ![w] = Append(@, e)]
  BY <1>1, <1>6 DEF TimerScheduled, AppendTimerScheduled, TryAppendEvent, AppendEvent
<1>9. h2 = Append(h, e) /\ h \in Seq(Event)
  BY <1>1, <1>6, <1>7, <1>8
<1>10. e \in Event /\ e.type = "TimerScheduled"
  BY <1>6, <1>7, SMT DEF EvOf, Event, EventType
<1>11. Longer(h, "TimerScheduled", h2)
  BY <1>9, <1>10, Appended
<1>12. Certified(h, {r}) => Certified(h2, {})
  BY <1>2, <1>9, <1>11, BooksArmed
<1>13. Spent(h, {r}) => Spent(h2, {})
  BY <1>3, <1>4, <1>9, <1>11, SpentArmed
<1>14. Follows(history[w], Live(w), history'[w], Live(w)')
  BY <1>4, <1>5, <1>6, <1>12, <1>13 DEF Follows
<1> QED  BY <1>1, <1>14, BooksTurn

LEMMA RespondBooks ==
  ASSUME IInv, WorkInv, Next, ~Fault, PollsHeld, NEW e \in polls, PollRespond(e),
         Alone(e.body.wf), Books(e.body.wf)
  PROVE  Books(e.body.wf)'
<1>1. PICK w, n : w = e.body.wf /\ w \in Workflow /\ n = e.id /\ n \in Nat
  BY DEF IInv, TypeOK, Entry, Envelope
<1>2. PICK h : h = history[w] /\ h \in Seq(Event)
  BY <1>1 DEF IInv, TypeOK, StoreTypeOK
<1>3. Len(h) \in Nat
  BY <1>2, SMT
<1>4. PICK q : q = [id |-> n, wf |-> w, seen |-> Len(h), k |-> 1,
                    cursor |-> 1, timer |-> 0, sched |-> FALSE, out |-> "none"]
  OBVIOUS
<1>5. running' = running \cup {q} /\ UNCHANGED history
  BY <1>1, <1>2, <1>4 DEF PollRespond
<1>6. /\ q.wf = w /\ q.out = "none" /\ q.seen = Len(h) /\ q.k = 1 /\ q.cursor = 1 /\ q.timer = 0
      /\ ~q.sched /\ q \in Run
  BY <1>1, <1>3, <1>4, SMT DEF Run
<1>7. Works(n, w)
  BY <1>1 DEF Works
<1>8. Live(w) = {}
  <2>1. ASSUME NEW r \in Live(w) PROVE FALSE
    <3>1. r \in running /\ Works(r.id, w)
      BY <2>1 DEF Live, Works
    <3>2. r.id = n
      BY <1>1, <1>7, <3>1 DEF Alone
    <3> QED  BY <1>1, <3>1, <3>2 DEF WorkInv, Apart
  <2> QED  BY <2>1
<1>9. Live(w)' = {q}
  <2>1. \A x : x \in Live(w)' <=> x \in running' /\ x.wf = w /\ x.out = "none"
    BY DEF Live
  <2>2. \A x \in running : ~(x.wf = w /\ x.out = "none")
    BY <1>8 DEF Live
  <2> QED  BY <1>5, <1>6, <2>1, <2>2
<1>10. Rights(w) # {}
  <2>1. PICK p : p = [id |-> n, wf |-> w]
    OBVIOUS
  <2>2. p.wf = w /\ p \in pendingWfTasks
    BY <1>1, <2>1, SMT DEF PollsHeld
  <2> QED  BY <2>2 DEF Rights, Pending
<1>11. Certified(h, {})
  BY <1>1, <1>2, <1>8, <1>10 DEF Books
<1>12. Certified(h, {q})
  BY <1>2, <1>6, <1>11, BooksOpen
<1>13. Certified(history'[w], Live(w)')
  BY <1>2, <1>5, <1>9, <1>12
<1> QED  BY <1>1, <1>13 DEF Books

LEMMA CrashBooks ==
  ASSUME IInv, WorkInv, WorkInv', Next, EngineCrash, NEW w \in Workflow, Alone(w), Books(w)
  PROVE  Books(w)'
<1>1. PICK h : h = history[w] /\ h \in Seq(Event) /\ history'[w] = h
  BY DEF IInv, TypeOK, StoreTypeOK, EngineCrash, storeVars
<1>2. \A x : x \in Live(w)' <=> x \in running' /\ x.wf = w /\ x.out = "none"
  BY DEF Live
<1>3. CASE Live(w)' = {}
  <2>1. Live(w) \in SUBSET Run /\ {} \in SUBSET Live(w)
    BY DEF IInv, TypeOK, Live
  <2>2. Follows(h, Live(w), h, {})
    BY <1>1, <2>1, FollowsLess
  <2> QED  BY <1>1, <1>3, <2>2, BooksTurn
<1>4. ASSUME NEW q \in Live(w)' PROVE Books(w)'
  <2>1. q \in running' /\ q.wf = w /\ q.out = "none"
    BY <1>2, <1>4
  <2>2. PICK r \in running :
           /\ q.id = r.id /\ q.wf = r.wf /\ q.seen = r.seen /\ q.cursor = r.cursor /\ q.out = r.out
           /\ q.timer = 0 /\ ~q.sched /\ q \in Run
           /\ IF r.timer = 0 /\ ~r.sched THEN q = r ELSE q.k = r.k + 1
    BY <2>1, CrashRuns DEF IInv
  <2>3. r \in Live(w) /\ r \in Run /\ r.cursor \in Nat /\ SchedOK(r)
    BY <2>1, <2>2 DEF Live, IInv, TypeOK, Run, WorkInv
  <2>4. Live(w) = {r} /\ Works(r.id, w)
    BY <2>3, LiveOne
  <2>5. Live(w)' = {q}
    <3>1. ASSUME NEW x \in Live(w)' PROVE x = q
      <4>1. x \in running' /\ x.wf = w /\ x.out = "none"
        BY <1>2, <3>1
      <4>2. PICK s \in running : x.id = s.id /\ x.wf = s.wf /\ x.out = s.out
        BY <4>1, CrashRuns DEF IInv
      <4>3. s \in Live(w)
        BY <4>1, <4>2 DEF Live
      <4>4. x.id = q.id
        BY <2>2, <2>4, <4>2, <4>3
      <4> QED  BY <2>1, <4>1, <4>4 DEF WorkInv, Apart
    <3> QED  BY <1>4, <3>1
  <2>6. r.cursor <= q.cursor
    BY <2>2, <2>3, SMT
  <2>7. CASE r.timer = 0 /\ ~r.sched
    <3>1. q = r
      BY <2>2, <2>7
    <3>2. Follows(h, {r}, h, {q})
      BY <3>1 DEF Follows
    <3> QED  BY <1>1, <2>4, <2>5, <3>2, BooksTurn
  <2>8. CASE r.sched
    <3>1. q.k = r.k + 1
      BY <2>2, <2>8
    <3>2. Certified(h, {r}) => Certified(h, {q})
      BY <2>2, <2>8, <3>1, BooksPassed
    <3>3. Spent(h, {r}) => Spent(h, {q})
      BY <1>1, <2>2, <2>3, <2>6, <3>1, DoneGrows, SpentPassed
    <3>4. Follows(h, {r}, h, {q})
      BY <3>2, <3>3 DEF Follows
    <3> QED  BY <1>1, <2>4, <2>5, <3>4, BooksTurn
  <2>9. CASE r.timer # 0
    <3>1. q.k = r.k + 1
      BY <2>2, <2>9
    <3>2. Certified(h, {r}) => Spent(h, {q})
      BY <1>1, <2>2, <2>3, <2>9, <3>1, BooksCut
    <3>3. Spent(h, {r}) => Spent(h, {q})
      BY <1>1, <2>2, <2>3, <2>6, <3>1, DoneGrows, SpentPassed
    <3>4. Spent(history'[w], Live(w)')
      BY <1>1, <2>4, <2>5, <3>2, <3>3 DEF Books
    <3>5. startPc[w] # "idle" /\ \A x \in Rights(w) : x[1] = "pending"
      BY <2>4, TokenIs DEF Alone
    <3>6. Rights(w)' = {} /\ startPc'[w] # "idle"
      BY <3>5, CrashGone, RightsGone DEF IInv
    <3> QED  BY <3>4, <3>6 DEF Books
  <2> QED  BY <2>7, <2>8, <2>9
<1> QED  BY <1>3, <1>4

LEMMA NextBooks ==
  ASSUME IInv, IInv', WorkInv, WorkInv', ArmInv, PollsHeld, Next, ~Fault, ~Lose(1), SignalsLead,
         NEW w \in Workflow, Alone(w), Books(w)
  PROVE  Books(w)'
<1>1. CASE \E r \in running : Worker(r) /\ r.wf = w
  BY <1>1, WorkerBooks
<1>2. CASE \E a \in arming : TimerScheduled(a.timer) /\ a.timer.wf = w
  BY <1>2, ScheduledBooks
<1>3. CASE \E e \in polls : PollRespond(e) /\ e.body.wf = w
  BY <1>3, RespondBooks
<1>4. CASE EngineCrash
  BY <1>4, CrashBooks
<1>5. ASSUME ~(\E r \in running : Worker(r) /\ r.wf = w),
             ~(\E a \in arming : TimerScheduled(a.timer) /\ a.timer.wf = w),
             ~(\E e \in polls : PollRespond(e) /\ e.body.wf = w), ~EngineCrash
      PROVE  Books(w)'
  <2>0. TypeOK /\ TypeOK'
    BY DEF IInv
  <2>1. Unissued(w)
    BY <1>5, <2>0, NextIssues DEF Worker
  <2>2. ASSUME NEW q \in running', q.wf = w, q.out = "none" PROVE q \in running
    <3>1. CASE running' \subseteq running
      BY <3>1
    <3>2. ASSUME NEW e \in polls, PollRespond(e) PROVE q \in running
      <4>1. PICK x : x.wf = e.body.wf /\ running' = running \cup {x}
        BY <3>2 DEF PollRespond
      <4> QED  BY <1>5, <2>2, <3>2, <4>1
    <3>3. ASSUME NEW r \in running, Worker(r) PROVE q \in running
      <4>1. PICK x : x.wf = r.wf /\ running' = (running \ {r}) \cup {x}
        BY <2>0, <3>3, WorkerTurns DEF WorkInv, Turns, Becomes
      <4> QED  BY <1>5, <2>2, <3>3, <4>1
    <3>4. ASSUME NEW a, TimerScheduled(a.timer) PROVE q \in running
      <4>1. "none" # "yield"
        BY SMT
      <4> QED  BY <2>0, <2>2, <3>4, <4>1, ScheduledWakes
    <3>5. ASSUME NEW r, CompleteTake(r) \/ WorkerDies(r) \/ PollDequeue(r)
          PROVE  running' \subseteq running
      BY <3>5 DEF CompleteTake, WorkerDies, PollDequeue, envVars
    <3>6. RunsSame => running' \subseteq running
      BY DEF RunsSame
    <3> QED  BY <1>5, <3>1, <3>2, <3>3, <3>4, <3>5, <3>6, NextRuns
  <2>3. Live(w)' \subseteq Live(w)
    BY <2>2 DEF Live
  <2> QED  BY <2>1, <2>3, BooksStay
<1> QED  BY <1>1, <1>2, <1>3, <1>4, <1>5

Calm == faults = 0 /\ losses = 0 /\ ~ExecTimeout /\ SignalsLead

IssueInv ==
  /\ WorkInv
  /\ Calm => ArmInv /\ PollsHeld /\ \A w \in Workflow : Alone(w) /\ Books(w)

LEMMA InitBooks ==
  ASSUME Init, NEW w \in Workflow
  PROVE  Books(w)
<1>1. PICK h : h = history[w]
  OBVIOUS
<1>2. h = <<>> /\ Live(w) = {}
  BY <1>1, SMT DEF Init, StoreInit, Live
<1>3. Len(h) = 0 /\ \A type : Hits(h, type) = {}
  BY <1>2, SMT DEF Hits
<1>4. PICK cert : cert = [k \in 1 .. 1 |-> 1]
  OBVIOUS
<1>5. Chain(h, 0, cert)
  <2>1. 0 \in 0 .. Len(Program)
    BY ProgramIs, SMT
  <2>2. cert \in [1 .. 0 + 1 -> 1 .. Len(h) + 1] /\ cert[1] = 1 /\ 0 + 1 = 1
    BY <1>3, <1>4, SMT
  <2>3. \A k \in 1 .. 0 + 1 : cert[k] <= cert[0 + 1]
    BY <1>4, SMT
  <2>4. 1 .. 0 = {}
    BY SMT
  <2> QED  BY <2>1, <2>2, <2>3, <2>4 DEF Chain
<1>6. Ledger(h, 0, cert[0 + 1])
  <2>1. Open(h, cert[0 + 1]) = {}
    BY <1>3 DEF Open
  <2>2. \A cmd, n : Cardinality({}) <= Cardinality(Prefix(n, cmd))
    <3>1. \A cmd, n : Cardinality(Prefix(n, cmd)) \in Nat
      BY CommandsFinite, FS_CardinalityType
    <3>2. Cardinality({}) = 0
      BY FS_EmptySet
    <3> QED  BY <3>1, <3>2, SMT
  <2> QED  BY <1>3, <2>1, <2>2 DEF Ledger
<1>7. Certified(h, {})
  BY <1>5, <1>6 DEF Certified
<1> QED  BY <1>1, <1>2, <1>7 DEF Books

LEMMA NextIssued ==
  ASSUME IInv, IssueInv, Next
  PROVE  IssueInv'
<1>0. TypeOK /\ IInv' /\ WorkInv /\ WorkInv'
  BY NextSafe, NextWork DEF IInv, IssueInv
<1>1. ASSUME Calm' PROVE ArmInv' /\ PollsHeld' /\ \A w \in Workflow : Alone(w)' /\ Books(w)'
  <2>1. faults' = 0 /\ losses' = 0 /\ ~ExecTimeout /\ SignalsLead
    BY <1>1 DEF Calm, SignalsLead
  <2>2. faults = 0 /\ ~Fault /\ losses = 0 /\ ~Lose(1)
    BY <1>0, <2>1, NextFaults, NextLosses
  <2>3. ArmInv /\ PollsHeld /\ \A w \in Workflow : Alone(w) /\ Books(w)
    BY <2>1, <2>2 DEF IssueInv, Calm
  <2>4. ArmInv'
    BY <1>0, <2>1, <2>2, <2>3, NextArm
  <2>5. PollsHeld'
    BY <1>0, <2>2, <2>3, NextHeld
  <2>6. \A w \in Workflow : Alone(w)'
    BY <1>0, <2>2, <2>3, NextAlone
  <2>7. \A w \in Workflow : Books(w)'
    BY <1>0, <2>1, <2>2, <2>3, NextBooks
  <2> QED  BY <2>4, <2>5, <2>6, <2>7
<1> QED  BY <1>0, <1>1 DEF IssueInv

(* Re-running a workflow function re-issues nothing: as long as no call    *)
(* failed and no worker was given up on, every run of a function that does *)
(* not wait for a signal right behind an activity finds what the runs      *)
(* before it scheduled.  It holds for every such function, any number of   *)
(* workflows, signals and cancellations, and across engine crashes.        *)
THEOREM IssuedOnceHolds == Spec => []IssuedOnce
<1>1. Init => IssueInv
  <2> SUFFICES ASSUME Init PROVE IssueInv
    OBVIOUS
  <2>1. WorkInv
    BY FS_EmptySet DEF Init, TimerInit, WorkInv, Apart
  <2>2. ArmInv /\ PollsHeld /\ \A w \in Workflow : Alone(w)
    BY DEF Init, TimerInit, ArmInv, PollsHeld, Alone, Works
  <2> QED  BY <2>1, <2>2, InitBooks DEF IssueInv
<1>2. IInv /\ IssueInv /\ [Next]_vars => IssueInv'
  <2>1. ASSUME IssueInv, UNCHANGED vars PROVE IssueInv'
    <3>1. UNCHANGED <<polls, running, arming, stream, nextId, faults, losses, nextTimer, history,
                      startPc, pendingWfTasks, completing, requeueing, awaiting, signalPc, goroutines>>
      BY <2>1 DEF vars, storeVars, queueVars, envVars, timerVars, callVars, memVars
    <3>2. WorkInv'
      BY <2>1, <3>1 DEF IssueInv, WorkInv, SchedOK, Apart, InUse
    <3>3. ASSUME NEW w PROVE Rights(w)' = Rights(w)
      BY <3>1, Parts DEF Rights
    <3>4. ASSUME Calm' PROVE ArmInv' /\ PollsHeld' /\ \A w \in Workflow : Alone(w)' /\ Books(w)'
      <4>1. ArmInv /\ PollsHeld /\ \A w \in Workflow : Alone(w) /\ Books(w)
        BY <2>1, <3>1, <3>4 DEF IssueInv, Calm, SignalsLead
      <4>2. ArmInv' /\ PollsHeld'
        BY <3>1, <4>1 DEF ArmInv, PollsHeld, Asleep
      <4>3. ASSUME NEW w \in Workflow PROVE Alone(w)'
        <5>1. ASSUME NEW n PROVE Works(n, w)' = Works(n, w)
          BY <3>1 DEF Works
        <5>2. ASSUME NEW n PROVE Token(n, w)' = Token(n, w)
          BY <3>1, <3>3 DEF Token
        <5> QED  BY <3>1, <3>3, <4>1, <5>1, <5>2 DEF Alone
      <4>4. ASSUME NEW w \in Workflow PROVE Books(w)'
        <5>1. Live(w)' = Live(w)
          BY <3>1 DEF Live
        <5> QED  BY <3>1, <3>3, <4>1, <5>1 DEF Books
      <4> QED  BY <4>2, <4>3, <4>4
    <3> QED  BY <3>2, <3>4 DEF IssueInv
  <2> QED  BY <2>1, NextIssued
<1>3. IInv /\ IssueInv => IssuedOnce
  <2> SUFFICES ASSUME IInv, IssueInv, Calm, NEW w \in Workflow
               PROVE  /\ Cardinality(Recorded(w, "ActivityScheduled")) <= Cardinality(Commands("activity"))
                      /\ Cardinality(Recorded(w, "TimerScheduled")) <= Cardinality(Commands("sleep"))
    BY DEF IssuedOnce, Calm
  <2>1. history[w] \in Seq(Event) /\ \A type : Recorded(w, type) = Hits(history[w], type)
    BY DEF IInv, TypeOK, StoreTypeOK, Recorded, Hits
  <2>2. \E L : Certified(history[w], L) \/ Spent(history[w], L)
    BY DEF IssueInv, Books
  <2> QED  BY <2>1, <2>2, BooksBound
<1> QED  BY <1>1, <1>2, <1>3, SafetyInvariant, PTL DEF Spec
=============================================================================
