-------------------------- MODULE TaskStreamProofs --------------------------
(***************************************************************************)
(* For any number of workers, streams and tasks: a task is in one place    *)
(* and in one pair of hands, and a worker is only sent what it asked for.  *)
(*                                                                         *)
(* The three rest on each other: what is held is in the token table, so a  *)
(* queued task is in nobody's hands; a broken stream has nothing under     *)
(* way, and only the newest stream of a worker is not broken.              *)
(***************************************************************************)
EXTENDS TaskStream, SequenceTheorems, TLAPS

Queued == {queue[i] : i \in DOMAIN queue}

NoRepeats(q) == \A i, j \in DOMAIN q : q[i] = q[j] => i = j

(* Where tasks are.                                                        *)
Places ==
  /\ NoRepeats(queue)
  /\ Queued \cup pending \cup done = 1 .. arrived
  /\ Queued \cap pending = {} /\ Queued \cap done = {} /\ pending \cap done = {}

(* Whose hands they are in.                                                *)
Tokened ==
  /\ \A s \in Stream : holding[s] # 0 => holding[s] \in pending
  /\ \A s \in Stream : response[s] # 0 => response[s] \in pending
  /\ \A w \in Worker : executing[w] # 0 => executing[w] \in pending

Apart ==
  /\ \A r, s \in Stream : holding[s] # 0 /\ holding[r] = holding[s] => r = s
  /\ \A r, s \in Stream : response[s] # 0 /\ response[r] = response[s] => r = s
  /\ \A v, w \in Worker : executing[w] # 0 /\ executing[v] = executing[w] => v = w
  /\ \A r, s \in Stream : holding[s] # 0 => holding[s] # response[r]
  /\ \A s \in Stream, w \in Worker : holding[s] # 0 => holding[s] # executing[w]
  /\ \A s \in Stream, w \in Worker : response[s] # 0 => response[s] # executing[w]

(* How far the two ends of a stream are.                                   *)
Ends ==
  /\ \A s \in Stream : server[s] = "send" <=> holding[s] # 0
  /\ \A s \in Stream : s \notin up => response[s] = 0
  /\ \A s \in Stream : s[2] > current[s[1]] => server[s] = "none"
  /\ \A s \in up : s = Mine(s[1]) /\ client[s[1]] # "closed"
  /\ \A w \in Worker : executing[w] # 0 <=> client[w] = "exec"

IInv == TypeOK /\ Places /\ Tokened /\ Apart /\ Ends /\ OneCredit

-----------------------------------------------------------------------------
(* The queue as a set.                                                     *)
LEMMA QueueType ==
  ASSUME TypeOK
  PROVE  /\ queue \in Seq(Task) /\ Len(queue) \in Nat /\ DOMAIN queue = 1 .. Len(queue)
         /\ Queued \subseteq Task
  BY LenProperties, ElementOfSeq DEF TypeOK, Queued

LEMMA Appended ==
  ASSUME TypeOK, NEW t \in Task, queue' = Append(queue, t)
  PROVE  /\ queue' \in Seq(Task) /\ Queued' = Queued \cup {t}
         /\ NoRepeats(queue) /\ t \notin Queued => NoRepeats(queue')
<1> DEFINE n == Len(queue)
<1>1. queue \in Seq(Task) /\ n \in Nat /\ DOMAIN queue = 1 .. n
  BY QueueType
<1>2. /\ queue' \in Seq(Task) /\ Len(queue') = n + 1 /\ queue'[n + 1] = t
      /\ \A i \in 1 .. n : queue'[i] = queue[i]
  BY <1>1, AppendProperties
<1>3. DOMAIN queue' = 1 .. n + 1
  BY <1>2, LenProperties
<1> HIDE DEF n
<1>4. \A i \in 1 .. n + 1 : i \in 1 .. n \/ i = n + 1
  BY <1>1
<1>5. n + 1 \in 1 .. n + 1 /\ 1 .. n \subseteq 1 .. n + 1
  BY <1>1
<1>6. Queued' = Queued \cup {t}
  BY <1>1, <1>2, <1>3, <1>4, <1>5 DEF Queued
<1>7. ASSUME NoRepeats(queue), t \notin Queued PROVE NoRepeats(queue')
  BY <1>1, <1>2, <1>3, <1>4, <1>7 DEF NoRepeats, Queued
<1> QED  BY <1>2, <1>6, <1>7, Zenon

LEMMA Dequeued ==
  ASSUME TypeOK, queue # <<>>, queue' = Tail(queue), NoRepeats(queue)
  PROVE  /\ queue' \in Seq(Task) /\ Head(queue) \in Queued
         /\ Queued' = Queued \ {Head(queue)} /\ NoRepeats(queue')
<1> DEFINE n == Len(queue)
<1>1. queue \in Seq(Task) /\ n \in Nat /\ DOMAIN queue = 1 .. n
  BY QueueType
<1>2. /\ queue' \in Seq(Task) /\ Len(queue') = n - 1 /\ Head(queue) = queue[1] /\ n # 0
      /\ \A i \in 1 .. n - 1 : queue'[i] = queue[i + 1]
  BY <1>1, HeadTailProperties, EmptySeq
<1>3. DOMAIN queue' = 1 .. n - 1
  BY <1>2, LenProperties
<1> HIDE DEF n
<1>4. 1 \in 1 .. n /\ \A i \in 1 .. n : i = 1 \/ (i - 1 \in 1 .. n - 1 /\ i - 1 + 1 = i)
  BY <1>1, <1>2
<1>5. \A i \in 1 .. n - 1 : i + 1 \in 1 .. n /\ i + 1 # 1
  BY <1>1, <1>2
<1>6. Queued' = Queued \ {Head(queue)}
  <2>1. ASSUME NEW i \in 1 .. n - 1 PROVE queue'[i] \in Queued /\ queue'[i] # queue[1]
    <3>1. queue'[i] = queue[i + 1] /\ i + 1 \in DOMAIN queue /\ i + 1 # 1 /\ 1 \in DOMAIN queue
      BY <1>1, <1>2, <1>4, <1>5
    <3> QED  BY <3>1, Zenon DEF Queued, NoRepeats
  <2>2. ASSUME NEW i \in 1 .. n, i # 1 PROVE queue[i] \in Queued'
    <3>1. i - 1 \in DOMAIN queue' /\ queue'[i - 1] = queue[i]
      BY <1>2, <1>3, <1>4, <2>2
    <3> QED  BY <3>1, Zenon DEF Queued
  <2> QED  BY <1>1, <1>2, <1>3, <2>1, <2>2 DEF Queued
<1>7. NoRepeats(queue')
  BY <1>1, <1>2, <1>3, <1>5 DEF NoRepeats
<1> QED  BY <1>1, <1>2, <1>4, <1>6, <1>7, Zenon DEF Queued

LEMMA StreamParts ==
  /\ \A s \in Stream : s[1] \in Worker /\ s[2] \in 1 .. MaxStreams /\ s = <<s[1], s[2]>>
  /\ \A w \in Worker, k \in 1 .. MaxStreams : <<w, k>> \in Stream
BY DEF Stream

LEMMA ArriveIInv ==
  ASSUME IInv, Arrive
  PROVE  IInv'
<1> USE DEF IInv, Arrive, clientVars, serverVars
<1>1. TypeOK'
  BY StreamAssumption DEF TypeOK, Task
<1>2. Places'
  <2>0. arrived \in Nat /\ arrived + 1 \in Task /\ Queued \subseteq 1 .. arrived
    BY StreamAssumption DEF Places, TypeOK, Task
  <2>1. arrived + 1 \in Task /\ arrived + 1 \notin Queued /\ arrived \in Nat
    BY <2>0
  <2>2. Queued' = Queued \cup {arrived + 1} /\ NoRepeats(queue')
    BY <2>1, Appended, Zenon DEF Places
  <2>3. 1 .. arrived + 1 = (1 .. arrived) \cup {arrived + 1} /\ arrived + 1 \notin 1 .. arrived
    BY <2>1
  <2> QED  BY <2>2, <2>3 DEF Places
<1>3. Tokened'
  BY Zenon DEF Tokened
<1>4. Apart'
  BY Zenon DEF Apart
<1>5. Ends'
  BY Zenon DEF Ends, Mine
<1>6. OneCredit'
  BY Zenon DEF OneCredit, Credits, Mine
<1> QED  BY <1>1, <1>2, <1>3, <1>4, <1>5, <1>6, Zenon

LEMMA ServerRecvIInv ==
  ASSUME IInv, NEW s \in Stream, ServerRecv(s)
  PROVE  IInv'
<1> USE DEF IInv, ServerRecv, clientVars, serverVars
<1>1. TypeOK'
  BY DEF TypeOK
<1>2. Places'
  BY Zenon DEF Places, Queued
<1>3. Tokened'
  BY Zenon DEF Tokened
<1>4. Apart'
  BY Zenon DEF Apart
<1>5. Ends'
  BY StreamParts DEF Ends, TypeOK, Mine
<1>6. OneCredit'
  BY StreamParts DEF OneCredit, Credits, One, Ends, TypeOK, Mine
<1> QED  BY <1>1, <1>2, <1>3, <1>4, <1>5, <1>6, Zenon

LEMMA ServerDequeueIInv ==
  ASSUME IInv, NEW s \in Stream, ServerDequeue(s)
  PROVE  IInv'
<1> USE DEF IInv, ServerDequeue, clientVars, serverVars
<1>0. /\ queue' \in Seq(Task) /\ Head(queue) \in Queued
      /\ Queued' = Queued \ {Head(queue)} /\ NoRepeats(queue')
  BY Dequeued, Zenon DEF Places
<1> DEFINE h == Head(queue)
<1>h. /\ h \in Queued /\ h \in Task /\ h # 0 /\ h \notin pending
      /\ pending' = pending \cup {h} /\ holding' = [holding EXCEPT ![s] = h]
  BY <1>0, QueueType DEF Places, Task
<1> HIDE DEF h
<1>1. TypeOK'
  BY <1>0, <1>h DEF TypeOK
<1>2. Places'
  BY <1>0, <1>h DEF Places, h
<1>3. Tokened'
  BY <1>h DEF Tokened, TypeOK
<1>4. Apart'
  BY <1>h DEF Apart, Tokened, TypeOK
<1>5. Ends'
  BY <1>h DEF Ends, TypeOK, Mine
<1>6. OneCredit'
  BY DEF OneCredit, Credits, One, Ends, TypeOK, Mine
<1> QED  BY <1>1, <1>2, <1>3, <1>4, <1>5, <1>6, Zenon

LEMMA ServerIdleIInv ==
  ASSUME IInv, NEW s \in Stream, ServerIdle(s)
  PROVE  IInv'
<1> USE DEF IInv, ServerIdle, clientVars, serverVars
<1>1. TypeOK'
  BY StreamAssumption DEF TypeOK
<1>2. Places'
  BY Zenon DEF Places, Queued
<1>3. Tokened'
  BY Zenon DEF Tokened
<1>4. Apart'
  BY Zenon DEF Apart
<1>5. Ends'
  BY StreamParts DEF Ends, TypeOK, Mine
<1>6. OneCredit'
  BY StreamParts DEF OneCredit, Credits, One, Ends, TypeOK, Mine
<1> QED  BY <1>1, <1>2, <1>3, <1>4, <1>5, <1>6, Zenon

LEMMA ServerSendIInv ==
  ASSUME IInv, NEW s \in Stream, ServerSend(s)
  PROVE  IInv'
<1> USE DEF IInv, ServerSend, clientVars, serverVars
<1>1. TypeOK'
  BY DEF TypeOK
<1>2. Places'
  BY Zenon DEF Places, Queued
<1>3. Tokened'
  BY DEF Tokened, TypeOK
<1>4. Apart'
  BY DEF Apart, TypeOK, Ends
<1>5. Ends'
  BY StreamParts DEF Ends, TypeOK, Mine
<1>6. OneCredit'
  BY StreamParts DEF OneCredit, Credits, One, Ends, TypeOK, Mine
<1> QED  BY <1>1, <1>2, <1>3, <1>4, <1>5, <1>6, Zenon

LEMMA ServerSendFailsIInv ==
  ASSUME IInv, NEW s \in Stream, ServerSendFails(s)
  PROVE  IInv'
<1> USE DEF IInv, ServerSendFails, clientVars, serverVars
<1> DEFINE h == holding[s]
<1>0. h \in pending /\ h \in Task /\ h # 0 /\ h \notin Queued
  BY DEF Ends, Tokened, TypeOK, Task, Places
<1>h. /\ queue' \in Seq(Task) /\ Queued' = Queued \cup {h} /\ NoRepeats(queue')
      /\ pending' = pending \ {h}
  BY <1>0, Appended, Zenon DEF Places
<1> HIDE DEF h
<1>1. TypeOK'
  BY <1>h DEF TypeOK
<1>2. Places'
  BY <1>0, <1>h DEF Places
<1>3. Tokened'
  BY <1>0, <1>h DEF Tokened, Apart, TypeOK, h
<1>4. Apart'
  BY DEF Apart, TypeOK
<1>5. Ends'
  BY DEF Ends, TypeOK, Mine
<1>6. OneCredit'
  BY StreamParts DEF OneCredit, Credits, One, Ends, TypeOK, Mine
<1> QED  BY <1>1, <1>2, <1>3, <1>4, <1>5, <1>6, Zenon

LEMMA ServerEndsIInv ==
  ASSUME IInv, NEW s \in Stream, ServerEnds(s)
  PROVE  IInv'
<1> USE DEF IInv, ServerEnds, clientVars, serverVars
<1>1. TypeOK'
  BY DEF TypeOK
<1>2. Places'
  BY Zenon DEF Places, Queued
<1>3. Tokened'
  BY Zenon DEF Tokened
<1>4. Apart'
  BY Zenon DEF Apart
<1>5. Ends'
  BY StreamParts DEF Ends, TypeOK, Mine
<1>6. OneCredit'
  BY StreamParts DEF OneCredit, Credits, One, Ends, TypeOK, Mine
<1> QED  BY <1>1, <1>2, <1>3, <1>4, <1>5, <1>6, Zenon

LEMMA BreakIInv ==
  ASSUME IInv, NEW s \in Stream, Break(s)
  PROVE  IInv'
<1> USE DEF IInv, Break, clientVars, serverVars
<1>1. TypeOK'
  BY DEF TypeOK
<1>2. Places'
  BY Zenon DEF Places, Queued
<1>3. Tokened'
  BY DEF Tokened, TypeOK
<1>4. Apart'
  BY DEF Apart, TypeOK
<1>5. Ends'
  BY StreamParts DEF Ends, TypeOK, Mine
<1>6. OneCredit'
  BY StreamParts DEF OneCredit, Credits, One, Ends, TypeOK, Mine
<1> QED  BY <1>1, <1>2, <1>3, <1>4, <1>5, <1>6, Zenon

LEMMA ClientOpenIInv ==
  ASSUME IInv, NEW w \in Worker, ClientOpen(w)
  PROVE  IInv'
<1> USE DEF IInv, ClientOpen, clientVars, serverVars
<1>k. current[w] \in Nat /\ current[w] + 1 \in 1 .. MaxStreams
  BY StreamAssumption DEF TypeOK
<1>p. PICK n \in Stream : n = <<w, current[w] + 1>>
  BY <1>k, StreamParts, Zenon
<1>0. /\ n[1] = w /\ n[2] = current[w] + 1 /\ current[w] \in Nat
      /\ up' = up \cup {n} /\ server' = [server EXCEPT ![n] = "recv"]
      /\ ready' = [ready EXCEPT ![n] = 1]
  BY <1>k, <1>p
<1>n. server[n] = "none" /\ holding[n] = 0 /\ n \notin up /\ response[n] = 0
  BY <1>0 DEF Ends, TypeOK, Mine
<1>u. \A s \in up : s \in Stream /\ s # n /\ s[1] \in Worker /\ s[1] # w
  BY <1>n, StreamParts DEF Ends, TypeOK
<1>1. TypeOK'
  BY <1>0, <1>k DEF TypeOK
<1>2. Places'
  BY Zenon DEF Places, Queued
<1>3. Tokened'
  BY Zenon DEF Tokened
<1>4. Apart'
  BY Zenon DEF Apart
<1>5. Ends'
  <2>1. \A s \in up' : s = Mine(s[1])' /\ client'[s[1]] # "closed"
    <3>1. n = Mine(w)' /\ client'[w] # "closed"
      BY <1>k, <1>p DEF Mine, TypeOK
    <3>2. ASSUME NEW s \in up PROVE s = Mine(s[1])' /\ client'[s[1]] # "closed"
      BY <1>u DEF Ends, Mine, TypeOK
    <3> QED  BY <1>0, <3>1, <3>2, Zenon
  <2>2. \A s \in Stream : s[2] > current'[s[1]] => server'[s] = "none"
    BY <1>0, StreamParts DEF Ends, TypeOK
  <2> QED  BY <1>0, <1>n, <2>1, <2>2 DEF Ends, TypeOK
<1>6. OneCredit'
  <2>1. ASSUME NEW s \in up PROVE Credits(s)' = Credits(s)
    <3>1. /\ ready'[s] = ready[s] /\ server'[s] = server[s] /\ client'[s[1]] = client[s[1]]
          /\ Mine(s[1])' = Mine(s[1]) /\ response'[s] = response[s]
      BY <1>0, <1>u DEF TypeOK, Mine
    <3> QED  BY <3>1, Zenon DEF Credits
  <2>2. Credits(n)' = 1
    <3>1. ready'[n] = 1 /\ server'[n] = "recv" /\ response'[n] = 0 /\ client'[n[1]] = "recv"
      BY <1>0, <1>n DEF TypeOK
    <3> QED  BY <3>1 DEF Credits, One
  <2> QED  BY <1>0, <2>1, <2>2 DEF OneCredit
<1> QED  BY <1>1, <1>2, <1>3, <1>4, <1>5, <1>6, Zenon

LEMMA ClientRecvIInv ==
  ASSUME IInv, NEW w \in Worker, ClientRecv(w)
  PROVE  IInv'
<1> USE DEF IInv, ClientRecv, clientVars, serverVars
<1>p. PICK m : m = Mine(w)
  OBVIOUS
<1>0. /\ m \in Stream /\ m \in up /\ m[1] = w /\ response[m] # 0 /\ executing[w] = 0
      /\ executing' = [executing EXCEPT ![w] = response[m]]
      /\ response' = [response EXCEPT ![m] = 0] /\ client[w] = "recv"
  BY <1>p DEF TypeOK, Ends, Mine
<1>u. \A s \in up : s \in Stream /\ s[1] \in Worker /\ (s # m => s[1] # w)
  BY <1>p, StreamParts DEF Ends, TypeOK
<1>m. \A v \in Worker : Mine(v)' = Mine(v)
  BY DEF Mine
<1>1. TypeOK'
  BY <1>0 DEF TypeOK
<1>2. Places'
  BY Zenon DEF Places, Queued
<1>3. Tokened'
  BY <1>0 DEF Tokened, TypeOK
<1>4. Apart'
  <2>1. response[m] \notin {executing[v] : v \in Worker} /\ response[m] \notin {holding[s] : s \in Stream}
    BY <1>0 DEF Apart
  <2>2. \A s \in Stream : s # m => response[s] # response[m]
    BY <1>0 DEF Apart
  <2> QED  BY <1>0, <2>1, <2>2 DEF Apart, TypeOK
<1>5. Ends'
  BY <1>0, <1>u, <1>m, StreamParts DEF Ends, TypeOK
<1>6. OneCredit'
  <2>1. ASSUME NEW s \in up, s # m PROVE Credits(s)' = Credits(s)
    <3>1. /\ ready'[s] = ready[s] /\ server'[s] = server[s] /\ client'[s[1]] = client[s[1]]
          /\ Mine(s[1])' = Mine(s[1]) /\ response'[s] = response[s]
      BY <1>0, <1>u, <1>m, <2>1 DEF TypeOK
    <3> QED  BY <3>1, Zenon DEF Credits
  <2>2. Credits(m)' = Credits(m)
    <3>1. /\ ready'[m] = ready[m] /\ ready[m] \in Nat /\ server'[m] = server[m] /\ response'[m] = 0
          /\ client'[w] = "exec" /\ Mine(w) = m /\ Mine(w)' = m
      BY <1>0, <1>m, <1>p DEF TypeOK
    <3> QED  BY <1>0, <3>1 DEF Credits, One
  <2> QED  BY <2>1, <2>2, Zenon DEF OneCredit
<1> QED  BY <1>1, <1>2, <1>3, <1>4, <1>5, <1>6, Zenon

LEMMA ClientExecutedIInv ==
  ASSUME IInv, NEW w \in Worker, ClientExecuted(w)
  PROVE  IInv'
<1> USE DEF IInv, ClientExecuted, clientVars, serverVars
<1>p. PICK m : m = Mine(w)
  OBVIOUS
<1> DEFINE x == executing[w]
<1>0. x \in pending /\ x \in Task /\ x # 0 /\ client[w] = "exec"
  BY DEF TypeOK, Ends, Tokened, Task
<1>d. done' = done \cup {x} /\ pending' = pending \ {x} /\ executing' = [executing EXCEPT ![w] = 0]
  BY <1>0
<1>u. \A s \in up : s \in Stream /\ s[1] \in Worker /\ (s # m => s[1] # w)
  BY <1>p, StreamParts DEF Ends, TypeOK
<1>m. (\A v \in Worker : Mine(v)' = Mine(v)) /\ m[1] = w
  BY <1>p DEF Mine
<1>c. \/ m \in up /\ m \in Stream /\ ready' = [ready EXCEPT ![m] = @ + 1]
           /\ client' = [client EXCEPT ![w] = "recv"]
      \/ m \notin up /\ client' = [client EXCEPT ![w] = "closed"] /\ ready' = ready
  BY <1>p DEF TypeOK
<1>e. UNCHANGED <<queue, arrived, current, up, server, holding, response, idles>>
  BY Zenon
<1> HIDE DEF x, ClientExecuted
<1>1. TypeOK'
  <2>1. ready' \in [Stream -> Nat]
    <3>1. CASE m \in up
      <4>1. ready' = [ready EXCEPT ![m] = ready[m] + 1] /\ m \in Stream /\ ready[m] + 1 \in Nat
        BY <1>c, <3>1 DEF TypeOK
      <4> QED  BY <4>1 DEF TypeOK
    <3>2. CASE m \notin up
      BY <1>c, <3>2, Zenon DEF TypeOK
    <3> QED  BY <3>1, <3>2
  <2>2. client' \in [Worker -> {"closed", "recv", "exec"}]
    BY <1>c, SMTT(30) DEF TypeOK
  <2>3. executing' \in [Worker -> {0} \cup Task] /\ done' \subseteq Task /\ pending' \subseteq Task
    BY <1>0, <1>d DEF TypeOK
  <2> QED  BY <1>e, <2>1, <2>2, <2>3, Zenon DEF TypeOK
<1>2. Places'
  BY <1>0, <1>d, <1>e DEF Places, TypeOK, Queued
<1>3. Tokened'
  BY <1>0, <1>d, <1>e DEF Tokened, Apart, TypeOK, x
<1>4. Apart'
  BY <1>d, <1>e DEF Apart, TypeOK
<1>5. Ends'
  <2>1. \A s \in up' : s = Mine(s[1])' /\ client'[s[1]] # "closed"
    BY <1>u, <1>m, <1>c, <1>e DEF Ends, TypeOK
  <2>2. \A v \in Worker : executing'[v] # 0 <=> client'[v] = "exec"
    BY <1>d, <1>e, <1>c DEF Ends, TypeOK
  <2> QED  BY <1>e, <2>1, <2>2 DEF Ends
<1>6. OneCredit'
  <2>1. ASSUME NEW s \in up, s # m PROVE Credits(s)' = Credits(s)
    <3>1. /\ ready'[s] = ready[s] /\ server'[s] = server[s] /\ client'[s[1]] = client[s[1]]
          /\ Mine(s[1])' = Mine(s[1]) /\ response'[s] = response[s]
      BY <1>u, <1>m, <1>c, <1>e, <2>1 DEF TypeOK
    <3> QED  BY <3>1, Zenon DEF Credits
  <2>2. CASE m \in up
    <3>1. /\ ready'[m] = ready[m] + 1 /\ ready[m] \in Nat /\ server'[m] = server[m]
          /\ response'[m] = response[m] /\ client'[w] = "recv" /\ Mine(w) = m
      BY <1>c, <1>e, <1>p, <2>2 DEF TypeOK
    <3>2. Credits(m)' = Credits(m)
      BY <1>0, <1>m, <3>1 DEF Credits, One
    <3> QED  BY <1>e, <2>1, <3>2, Zenon DEF OneCredit
  <2>3. CASE m \notin up
    BY <1>e, <2>1, <2>3, Zenon DEF OneCredit
  <2> QED  BY <2>2, <2>3
<1> QED  BY <1>1, <1>2, <1>3, <1>4, <1>5, <1>6, Zenon

LEMMA ClientFailsIInv ==
  ASSUME IInv, NEW w \in Worker, ClientFails(w)
  PROVE  IInv'
<1> USE DEF IInv, ClientFails, clientVars, serverVars
<1>u. \A s \in up : s \in Stream /\ s[1] \in Worker /\ s[1] # w
  BY StreamParts DEF Ends, TypeOK
<1>1. TypeOK'
  BY DEF TypeOK
<1>2. Places'
  BY Zenon DEF Places, Queued
<1>3. Tokened'
  BY Zenon DEF Tokened
<1>4. Apart'
  BY Zenon DEF Apart
<1>5. Ends'
  <2>1. \A s \in up' : s = Mine(s[1])' /\ client'[s[1]] # "closed"
    BY <1>u DEF Ends, TypeOK, Mine
  <2>2. \A v \in Worker : executing'[v] # 0 <=> client'[v] = "exec"
    BY DEF Ends, TypeOK
  <2> QED  BY <2>1, <2>2 DEF Ends
<1>6. OneCredit'
  BY <1>u DEF OneCredit, Credits, One, TypeOK, Mine
<1> QED  BY <1>1, <1>2, <1>3, <1>4, <1>5, <1>6, Zenon

LEMMA ReclaimIInv ==
  ASSUME IInv, NEW t \in Task, Reclaim(t)
  PROVE  IInv'
<1> USE DEF IInv, Reclaim, clientVars, serverVars
<1>0. t \notin Queued
  BY DEF Places
<1>h. queue' \in Seq(Task) /\ Queued' = Queued \cup {t} /\ NoRepeats(queue')
  BY <1>0, Appended, Zenon DEF Places
<1>1. TypeOK'
  BY <1>h DEF TypeOK
<1>2. Places'
  BY <1>h DEF Places
<1>3. Tokened'
  BY DEF Tokened, Held
<1>4. Apart'
  BY Zenon DEF Apart
<1>5. Ends'
  BY Zenon DEF Ends, Mine
<1>6. OneCredit'
  BY Zenon DEF OneCredit, Credits, Mine
<1> QED  BY <1>1, <1>2, <1>3, <1>4, <1>5, <1>6, Zenon

-----------------------------------------------------------------------------
LEMMA InitIInv == Init => IInv
<1> SUFFICES ASSUME Init PROVE IInv
  OBVIOUS
<1>1. TypeOK
  BY StreamAssumption DEF Init, TypeOK, Task
<1>2. Places
  BY DEF Init, Places, NoRepeats, Queued
<1>3. Tokened /\ Apart /\ OneCredit
  BY DEF Init, Tokened, Apart, OneCredit
<1>4. Ends
  BY StreamParts DEF Init, Ends
<1> QED  BY <1>1, <1>2, <1>3, <1>4, Zenon DEF IInv

LEMMA Invariance == Spec => []IInv
<1>1. IInv /\ [Next]_vars => IInv'
  <2> SUFFICES ASSUME IInv, [Next]_vars PROVE IInv'
    OBVIOUS
  <2>1. CASE Arrive
    BY <2>1, ArriveIInv, Zenon
  <2>2. ASSUME NEW s \in Stream, Server(s) \/ ServerIdle(s) \/ Break(s) PROVE IInv'
    BY <2>2, ServerRecvIInv, ServerDequeueIInv, ServerIdleIInv, ServerSendIInv,
       ServerSendFailsIInv, ServerEndsIInv, BreakIInv, Zenon DEF Server
  <2>3. ASSUME NEW w \in Worker, Client(w) PROVE IInv'
    BY <2>3, ClientOpenIInv, ClientRecvIInv, ClientExecutedIInv, ClientFailsIInv, Zenon
       DEF Client
  <2>4. ASSUME NEW t \in Task, Reclaim(t) PROVE IInv'
    BY <2>4, ReclaimIInv, Zenon
  <2>5. CASE UNCHANGED vars
    <3>1. TypeOK'
      BY <2>5, Zenon DEF vars, IInv, TypeOK
    <3>2. Places' /\ Tokened' /\ Apart'
      <4>1. Queued' = Queued /\ NoRepeats(queue)' = NoRepeats(queue)
        BY <2>5 DEF vars, Queued, NoRepeats
      <4>2. Places'
        BY <2>5, <4>1 DEF vars, IInv, Places
      <4> QED  BY <2>5, <4>2, Zenon DEF vars, IInv, Tokened, Apart
    <3>3. Ends' /\ OneCredit'
      BY <2>5, Zenon DEF vars, IInv, Ends, OneCredit, Credits, Mine
    <3> QED  BY <3>1, <3>2, <3>3, Zenon DEF IInv
  <2> QED  BY <2>1, <2>2, <2>3, <2>4, <2>5, Zenon DEF Next
<1> QED  BY <1>1, InitIInv, PTL DEF Spec

(* Type correctness.                                                       *)
THEOREM StreamTypes == Spec => []TypeOK
<1>1. IInv => TypeOK
  BY Zenon DEF IInv
<1> QED  BY <1>1, Invariance, PTL

(* The token table, the queue and the completed tasks share nothing and    *)
(* forget nothing, whenever a send fails or a stream breaks.               *)
THEOREM OnePlaceHolds == Spec => []OnePlace
<1>1. IInv => OnePlace
  <2> SUFFICES ASSUME IInv PROVE OnePlace
    OBVIOUS
  <2>1. ASSUME NEW t \in 1 .. arrived
        PROVE  One(t \in pending) + One(t \in done) + One(\E i \in DOMAIN queue : queue[i] = t) = 1
    <3>1. (\E i \in DOMAIN queue : queue[i] = t) <=> t \in Queued
      BY Zenon DEF Queued
    <3> QED  BY <3>1 DEF IInv, Places, One
  <2> QED  BY <2>1, Zenon DEF OnePlace, IInv, Places, NoRepeats
<1> QED  BY <1>1, Invariance, PTL

(* Server, stream and worker never hold the same task.                     *)
THEOREM OneHolderHolds == Spec => []OneHolder
<1>1. IInv => OneHolder
  BY DEF IInv, Apart, OneHolder, Hands, Task
<1> QED  BY <1>1, Invariance, PTL

(* The one-Ready-per-task protocol of runWorkflowStream holds the server   *)
(* to one task at a time.                                                  *)
THEOREM OneCreditHolds == Spec => []OneCredit
<1>1. IInv => OneCredit
  BY Zenon DEF IInv
<1> QED  BY <1>1, Invariance, PTL
=============================================================================
