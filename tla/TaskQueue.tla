----------------------------- MODULE TaskQueue -----------------------------
(***************************************************************************)
(* One task queue as the engine uses it (queue.Queue over a Redis stream   *)
(* with the single consumer group of the engine).  An entry is appended    *)
(* by XADD, delivered at most once by XREADGROUP ">" in stream order, and  *)
(* then sits in the group's pending-entries list until it is acked (XACK   *)
(* and XDEL).  Stream and list live in Redis and survive the engine.  A    *)
(* call can fail like a store call, and counts as one of its faults.       *)
(***************************************************************************)
EXTENDS Store

VARIABLES stream,      \* entries not yet delivered, oldest first
          pel,         \* entries delivered and not acked
          nextId       \* next stream entry id

queueVars == <<stream, pel, nextId>>

QueueInit ==
  /\ stream = <<>>
  /\ pel = {}
  /\ nextId = 1

(* "body" is the marshalled envelope.                                      *)
Enqueue(body) ==
  /\ stream' = Append(stream, [id |-> nextId, body |-> body])
  /\ nextId' = nextId + 1

Dequeue(e) ==
  /\ stream # <<>>
  /\ e = Head(stream)
  /\ stream' = Tail(stream)
  /\ pel' = pel \cup {e}

(* Acking an id that is not pending is a no-op in Redis.                   *)
Ack(id) == pel' = {e \in pel : e.id # id}

(* Mutant of TryEnqueue: the entry never reaches the queue.                *)
TryEnqueueLost(body) == UNCHANGED <<stream, nextId>> /\ NoFault

(* An enqueue whose error the caller only logs.                            *)
TryEnqueue(body) ==
  \/ Enqueue(body) /\ NoFault
  \/ UNCHANGED <<stream, nextId>> /\ Fault

(* Mutant of TryAck: the entry is left on the pending-entries list.        *)
AckForgotten(id) == UNCHANGED pel /\ NoFault

(* An ack whose error the caller only logs.                                *)
TryAck(id) ==
  \/ Ack(id) /\ NoFault
  \/ UNCHANGED pel /\ Fault

=============================================================================
