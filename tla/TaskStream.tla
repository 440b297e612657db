----------------------------- MODULE TaskStream -----------------------------
(***************************************************************************)
(* The streaming delivery of tasks: StreamWorkflowTasks and                *)
(* StreamActivityTasks (engine/api.go, the same loop twice) against        *)
(* runWorkflowStream and runActivityStream (sdk/communicator.go), with     *)
(* reconnects.  The worker sends one Ready per task it can take; the       *)
(* server answers a Ready with a task, or goes back to waiting for a Ready *)
(* when its 30 second dequeue comes back empty.  Subscribe and the first   *)
(* Ready are sent with the opening of the stream.                          *)
(***************************************************************************)
EXTENDS Naturals, Sequences

CONSTANTS Worker,
          MaxTasks,     \* bound on tasks put on the queue
          MaxStreams,   \* streams a worker opens; the last one does not break
          MaxIdles      \* bound on dequeues that time out

ASSUME StreamAssumption ==
  {MaxTasks, MaxStreams, MaxIdles} \subseteq Nat

VARIABLES queue,     \* the task queue
          arrived,   \* tasks put on it so far
          pending,   \* handed out and not completed (the token table)
          done,      \* completed
          current,   \* number of the stream a worker uses, 0 for none yet
          client,    \* where the worker's loop is
          executing, \* the task it runs, 0 for none
          up,        \* streams that are not broken
          ready,     \* Ready messages under way to the server
          server,    \* where the server's handler of a stream is
          holding,   \* the task the handler has dequeued, 0 for none
          response,  \* the task under way to the worker, 0 for none
          idles

vars == <<queue, arrived, pending, done, current, client, executing, up, ready,
          server, holding, response, idles>>

Task == 1 .. MaxTasks

Stream == Worker \X (1 .. MaxStreams)

TypeOK ==
  /\ queue \in Seq(Task)
  /\ arrived \in 0 .. MaxTasks
  /\ pending \subseteq Task /\ done \subseteq Task
  /\ current \in [Worker -> 0 .. MaxStreams]
  /\ client \in [Worker -> {"closed", "recv", "exec"}]
  /\ executing \in [Worker -> {0} \cup Task]
  /\ up \subseteq Stream
  /\ ready \in [Stream -> Nat]
  /\ server \in [Stream -> {"none", "recv", "dequeue", "send", "gone"}]
  /\ holding \in [Stream -> {0} \cup Task]
  /\ response \in [Stream -> {0} \cup Task]
  /\ idles \in 0 .. MaxIdles

Init ==
  /\ queue = <<>>
  /\ arrived = 0
  /\ pending = {} /\ done = {}
  /\ current = [w \in Worker |-> 0]
  /\ client = [w \in Worker |-> "closed"]
  /\ executing = [w \in Worker |-> 0]
  /\ up = {}
  /\ ready = [s \in Stream |-> 0]
  /\ server = [s \in Stream |-> "none"]
  /\ holding = [s \in Stream |-> 0]
  /\ response = [s \in Stream |-> 0]
  /\ idles = 0

Mine(w) == <<w, current[w]>>

clientVars == <<current, client, executing>>
serverVars == <<server, holding>>

(* StartWorkflow, ScheduleActivity or a re-dispatch.                       *)
Arrive ==
  /\ arrived < MaxTasks
  /\ arrived' = arrived + 1
  /\ queue' = Append(queue, arrived + 1)
  /\ UNCHANGED <<pending, done, clientVars, up, ready, serverVars, response, idles>>

-----------------------------------------------------------------------------
(* The server's handler of stream s.                                       *)

(* Mutant of ServerRecv: goes on without a Ready.                          *)
ServerRecvUnasked(s) ==
  /\ server[s] = "recv" /\ s \in up
  /\ ready' = [ready EXCEPT ![s] = @ - 1]
  /\ server' = [server EXCEPT ![s] = "dequeue"]
  /\ UNCHANGED <<queue, arrived, pending, done, clientVars, up, holding, response, idles>>

ServerRecv(s) ==
  /\ server[s] = "recv" /\ s \in up /\ ready[s] > 0
  /\ ready' = [ready EXCEPT ![s] = @ - 1]
  /\ server' = [server EXCEPT ![s] = "dequeue"]
  /\ UNCHANGED <<queue, arrived, pending, done, clientVars, up, holding, response, idles>>

(* Also on a broken stream, until the handler notices.                     *)
ServerDequeue(s) ==
  /\ server[s] = "dequeue" /\ queue # <<>>
  /\ holding' = [holding EXCEPT ![s] = Head(queue)]
  /\ pending' = pending \cup {Head(queue)}
  /\ queue' = Tail(queue)
  /\ server' = [server EXCEPT ![s] = "send"]
  /\ UNCHANGED <<arrived, done, clientVars, up, ready, response, idles>>

(* Nothing for 30 seconds: on to the next Ready, nothing sent.             *)
ServerIdle(s) ==
  /\ server[s] = "dequeue" /\ queue = <<>>
  /\ idles < MaxIdles
  /\ idles' = idles + 1
  /\ server' = [server EXCEPT ![s] = "recv"]
  /\ UNCHANGED <<queue, arrived, pending, done, clientVars, up, ready, holding, response>>

ServerSend(s) ==
  /\ server[s] = "send" /\ s \in up
  /\ response' = [response EXCEPT ![s] = holding[s]]
  /\ holding' = [holding EXCEPT ![s] = 0]
  /\ server' = [server EXCEPT ![s] = "recv"]
  /\ UNCHANGED <<queue, arrived, pending, done, clientVars, up, ready, idles>>

(* Mutant of ServerSendFails: the task is put back and the token kept.     *)
SendFailsKeepsToken(s) ==
  /\ server[s] = "send" /\ s \notin up
  /\ queue' = Append(queue, holding[s])
  /\ holding' = [holding EXCEPT ![s] = 0]
  /\ server' = [server EXCEPT ![s] = "gone"]
  /\ UNCHANGED <<arrived, pending, done, clientVars, up, ready, response, idles>>

(* stream.Send fails: drop the token, put the task back unless the token   *)
(* is gone already, end the handler.                                       *)
ServerSendFails(s) ==
  /\ server[s] = "send" /\ s \notin up
  /\ pending' = pending \ {holding[s]}
  /\ queue' = IF holding[s] \in pending THEN Append(queue, holding[s]) ELSE queue
  /\ holding' = [holding EXCEPT ![s] = 0]
  /\ server' = [server EXCEPT ![s] = "gone"]
  /\ UNCHANGED <<arrived, done, clientVars, up, ready, response, idles>>

(* Recv or Dequeue fail on the cancelled stream.                           *)
ServerEnds(s) ==
  /\ server[s] \in {"recv", "dequeue"} /\ s \notin up
  /\ server' = [server EXCEPT ![s] = "gone"]
  /\ UNCHANGED <<queue, arrived, pending, done, clientVars, up, ready, holding, response, idles>>

-----------------------------------------------------------------------------
(* The worker.                                                             *)

ClientOpen(w) ==
  /\ client[w] = "closed" /\ current[w] < MaxStreams
  /\ current' = [current EXCEPT ![w] = @ + 1]
  /\ client' = [client EXCEPT ![w] = "recv"]
  /\ up' = up \cup {<<w, current[w] + 1>>}
  /\ server' = [server EXCEPT ![<<w, current[w] + 1>>] = "recv"]
  /\ ready' = [ready EXCEPT ![<<w, current[w] + 1>>] = 1]
  /\ UNCHANGED <<queue, arrived, pending, done, executing, holding, response, idles>>

(* Mutant of ClientRecv: asks for the next task before it runs this one.   *)
ClientRecvEager(w) ==
  /\ client[w] = "recv" /\ Mine(w) \in up /\ response[Mine(w)] # 0
  /\ executing' = [executing EXCEPT ![w] = response[Mine(w)]]
  /\ response' = [response EXCEPT ![Mine(w)] = 0]
  /\ ready' = [ready EXCEPT ![Mine(w)] = @ + 1]
  /\ client' = [client EXCEPT ![w] = "exec"]
  /\ UNCHANGED <<queue, arrived, pending, done, current, up, serverVars, idles>>

ClientRecv(w) ==
  /\ client[w] = "recv" /\ Mine(w) \in up /\ response[Mine(w)] # 0
  /\ executing' = [executing EXCEPT ![w] = response[Mine(w)]]
  /\ response' = [response EXCEPT ![Mine(w)] = 0]
  /\ client' = [client EXCEPT ![w] = "exec"]
  /\ UNCHANGED <<queue, arrived, pending, done, current, up, ready, serverVars, idles>>

(* Mutant of ClientExecuted: forgets to ask for the next task.             *)
ExecutedUnready(w) ==
  /\ client[w] = "exec"
  /\ executing' = [executing EXCEPT ![w] = 0]
  /\ done' = IF executing[w] \in pending THEN done \cup {executing[w]} ELSE done
  /\ pending' = pending \ {executing[w]}
  /\ client' = [client EXCEPT ![w] = IF Mine(w) \in up THEN "recv" ELSE "closed"]
  /\ UNCHANGED <<queue, arrived, current, up, ready, serverVars, response, idles>>

(* The task is run and completed by a call of its own; then the next       *)
(* Ready, which fails on a broken stream.                                  *)
ClientExecuted(w) ==
  /\ client[w] = "exec"
  /\ executing' = [executing EXCEPT ![w] = 0]
  /\ done' = IF executing[w] \in pending THEN done \cup {executing[w]} ELSE done
  /\ pending' = pending \ {executing[w]}
  /\ IF Mine(w) \in up
       THEN /\ ready' = [ready EXCEPT ![Mine(w)] = @ + 1]
            /\ client' = [client EXCEPT ![w] = "recv"]
       ELSE /\ client' = [client EXCEPT ![w] = "closed"]
            /\ UNCHANGED ready
  /\ UNCHANGED <<queue, arrived, current, up, serverVars, response, idles>>

ClientFails(w) ==
  /\ client[w] = "recv" /\ Mine(w) \notin up
  /\ client' = [client EXCEPT ![w] = "closed"]
  /\ UNCHANGED <<queue, arrived, pending, done, current, executing, up, ready,
                 serverVars, response, idles>>

-----------------------------------------------------------------------------
(* The connection breaks; what is under way is lost.                       *)
Break(s) ==
  /\ s \in up /\ s[2] < MaxStreams
  /\ up' = up \ {s}
  /\ ready' = [ready EXCEPT ![s] = 0]
  /\ response' = [response EXCEPT ![s] = 0]
  /\ UNCHANGED <<queue, arrived, pending, done, clientVars, serverVars, idles>>

Held(t) ==
  \/ \E s \in Stream : t \in {holding[s], response[s]}
  \/ \E w \in Worker : executing[w] = t

(* Mutant of Reclaim: takes a task out of a worker's hands.                *)
ReclaimHeld(t) ==
  /\ t \in pending
  /\ pending' = pending \ {t}
  /\ queue' = Append(queue, t)
  /\ UNCHANGED <<arrived, done, clientVars, up, ready, serverVars, response, idles>>

(* reclaimExpired, for a task nobody has any more.                         *)
Reclaim(t) ==
  /\ t \in pending /\ ~Held(t)
  /\ pending' = pending \ {t}
  /\ queue' = Append(queue, t)
  /\ UNCHANGED <<arrived, done, clientVars, up, ready, serverVars, response, idles>>

Server(s) ==
  \/ ServerRecv(s) \/ ServerDequeue(s) \/ ServerSend(s)
  \/ ServerSendFails(s) \/ ServerEnds(s)

Client(w) == ClientOpen(w) \/ ClientRecv(w) \/ ClientExecuted(w) \/ ClientFails(w)

Next ==
  \/ Arrive
  \/ \E s \in Stream : Server(s) \/ ServerIdle(s) \/ Break(s)
  \/ \E w \in Worker : Client(w)
  \/ \E t \in Task : Reclaim(t)

Spec == Init /\ [][Next]_vars

(* Handlers, workers and the reclaim loop go on; tasks need not arrive,    *)
(* streams need not break and dequeues need not time out.                  *)
FairSpec ==
  /\ Spec
  /\ \A s \in Stream : WF_vars(Server(s))
  /\ \A w \in Worker : WF_vars(Client(w))
  /\ \A t \in Task : WF_vars(Reclaim(t))

-----------------------------------------------------------------------------
One(cond) == IF cond THEN 1 ELSE 0

(* A task is queued, handed out or completed, and only one of them, also   *)
(* when a send fails while the worker reconnects.                          *)
OnePlace ==
  /\ \A i, j \in DOMAIN queue : queue[i] = queue[j] => i = j
  /\ \A t \in 1 .. arrived :
       One(t \in pending) + One(t \in done) + One(\E i \in DOMAIN queue : queue[i] = t) = 1

(* The hands a task can be in.                                             *)
Hands(t) ==
  {<<"server", s>> : s \in {x \in Stream : holding[x] = t}}
    \cup {<<"response", s>> : s \in {x \in Stream : response[x] = t}}
    \cup {<<"worker", w>> : w \in {x \in Worker : executing[x] = t}}

(* A task handed out is in one pair of hands at most.                      *)
OneHolder == \A t \in Task : \A x, y \in Hands(t) : x = y

(* What a stream owes its worker: a Ready, a dequeue on its behalf, a task *)
(* under way, a task being run.                                            *)
Credits(s) ==
  ready[s] + One(server[s] \in {"dequeue", "send"}) + One(response[s] # 0)
    + One(client[s[1]] = "exec" /\ Mine(s[1]) = s)

(* Flow control: one of them at most, so a worker is never sent a task it  *)
(* did not ask for.                                                        *)
OneCredit == \A s \in up : Credits(s) <= 1

(* As long as no dequeue comes back empty, a task put on the queue is      *)
(* completed in the end: workers keep asking, and what is lost with a      *)
(* stream is put back.                                                     *)
ServedUnlessIdle == \A t \in Task : arrived >= t ~> (t \in done \/ idles > 0)

(* Comment of StreamWorkflowTasks: the server dequeues a task per Ready    *)
(* and pushes it down the stream.  So a task that is put on the queue is   *)
(* completed in the end, as workers keep asking and tasks lost with a      *)
(* stream are reclaimed.                                                   *)
TaskServed == \A t \in Task : arrived >= t ~> t \in done
=============================================================================
