--------------------------- MODULE EngineProcess ---------------------------
(***************************************************************************)
(* The engine binary of an active-passive cluster: main (cmd/engine), the  *)
(* leader lease (internal/store/lease.go), and the start and stop of the   *)
(* timer loop, the reclaim loop and the gRPC server.  The lease is an      *)
(* advisory lock of Postgres, held by one database session; Postgres frees *)
(* it when it finds the session gone, which may be before the engine       *)
(* notices, or long after the engine is.                                   *)
(*                                                                         *)
(* A call handler and a timer callback are goroutines of their own: Stop   *)
(* of the gRPC server does not wait for the former once its grace period   *)
(* is over, and TimerManager.Stop never waits for the latter.              *)
(***************************************************************************)
EXTENDS Naturals

CONSTANTS Engine,      \* engine processes of the cluster
          None,        \* the lock is free
          MaxUpsets    \* bound on signals, kills and broken connections

ASSUME ProcessAssumption ==
  /\ MaxUpsets \in Nat
  /\ None \notin Engine

VARIABLES lock,      \* whose session holds the advisory lock
          pc,        \* where main is
          reason,    \* why it drains
          conn,      \* the connection of the lease
          cancelCh,  \* closed by Release
          lost,      \* the Lost channel is closed
          watch,     \* where watchConnection is
          timers,    \* the timer loop
          reclaim,   \* the reclaim loop
          work,      \* a call handler or a timer callback, one at a time
          queueOpen, \* the task queue is not closed
          exit,      \* how the process ended
          upsets

leaseVars == <<conn, cancelCh, lost, watch>>
partVars == <<timers, reclaim, work, queueOpen>>
vars == <<lock, pc, reason, leaseVars, partVars, exit, upsets>>

Loop == {"off", "idle", "busy"}

TypeOK ==
  /\ lock \in Engine \cup {None}
  /\ pc \in [Engine -> {"acquire", "boot", "listen", "serve", "stopping", "closing",
                        "timers", "release", "unlock", "check", "close", "queue",
                        "exited"}]
  /\ reason \in [Engine -> {"none", "signal", "lost"}]
  /\ conn \in [Engine -> {"none", "up", "broken"}]
  /\ cancelCh \in [Engine -> BOOLEAN]
  /\ lost \in [Engine -> BOOLEAN]
  /\ watch \in [Engine -> {"off", "select", "ping", "mark", "close"}]
  /\ timers \in [Engine -> Loop] /\ reclaim \in [Engine -> Loop]
  /\ work \in [Engine -> {"none", "handler", "callback"}]
  /\ queueOpen \in [Engine -> BOOLEAN]
  /\ exit \in [Engine -> {"none", "done", "lost", "killed", "panic"}]
  /\ upsets \in 0 .. MaxUpsets

Init ==
  /\ lock = None
  /\ pc = [e \in Engine |-> "acquire"]
  /\ reason = [e \in Engine |-> "none"]
  /\ conn = [e \in Engine |-> "none"]
  /\ cancelCh = [e \in Engine |-> FALSE]
  /\ lost = [e \in Engine |-> FALSE]
  /\ watch = [e \in Engine |-> "off"]
  /\ timers = [e \in Engine |-> "off"]
  /\ reclaim = [e \in Engine |-> "off"]
  /\ work = [e \in Engine |-> "none"]
  /\ queueOpen = [e \in Engine |-> TRUE]
  /\ exit = [e \in Engine |-> "none"]
  /\ upsets = 0

Upset == upsets < MaxUpsets /\ upsets' = upsets + 1

Goto(e, step) == pc' = [pc EXCEPT ![e] = step]

(* The process is gone with its memory, goroutines and connections.        *)
Exit(e, how) ==
  /\ Goto(e, "exited")
  /\ exit' = [exit EXCEPT ![e] = how]
  /\ conn' = [conn EXCEPT ![e] = "none"]
  /\ watch' = [watch EXCEPT ![e] = "off"]
  /\ timers' = [timers EXCEPT ![e] = "off"]
  /\ reclaim' = [reclaim EXCEPT ![e] = "off"]
  /\ work' = [work EXCEPT ![e] = "none"]
  /\ reason' = [reason EXCEPT ![e] = "none"]
  /\ cancelCh' = [cancelCh EXCEPT ![e] = FALSE]
  /\ lost' = [lost EXCEPT ![e] = FALSE]
  /\ queueOpen' = [queueOpen EXCEPT ![e] = TRUE]

-----------------------------------------------------------------------------
(* main, up to the select it serves in.                                    *)

(* AcquireLeaderLease, the attempt that succeeds; the others change        *)
(* nothing.  The connection is kept and watched.                           *)
AcquireLeaderLease(e) ==
  /\ pc[e] = "acquire" /\ lock = None
  /\ lock' = e
  /\ conn' = [conn EXCEPT ![e] = "up"]
  /\ watch' = [watch EXCEPT ![e] = "select"]
  /\ Goto(e, "boot")
  /\ UNCHANGED <<reason, cancelCh, lost, partVars, exit, upsets>>

(* NewEngine starts the timer loop.                                        *)
NewEngine(e) ==
  /\ pc[e] = "boot"
  /\ timers' = [timers EXCEPT ![e] = "idle"]
  /\ Goto(e, "listen")
  /\ UNCHANGED <<lock, reason, leaseVars, reclaim, work, queueOpen, exit, upsets>>

(* NewGRPCServer listens and starts the reclaim loop; then Serve.          *)
NewGRPCServer(e) ==
  /\ pc[e] = "listen"
  /\ reclaim' = [reclaim EXCEPT ![e] = "idle"]
  /\ Goto(e, "serve")
  /\ UNCHANGED <<lock, reason, leaseVars, timers, work, queueOpen, exit, upsets>>

(* Mutant of Drain: drains for a reason the code does not know.            *)
DrainUnnamed(e, why) ==
  /\ pc[e] = "serve"
  /\ reason' = [reason EXCEPT ![e] = "deadline"]
  /\ Goto(e, "stopping")
  /\ UNCHANGED <<lock, leaseVars, partVars, exit>>

(* The select of main; with both ready the choice is random.               *)
Drain(e, why) ==
  /\ pc[e] = "serve"
  /\ reason' = [reason EXCEPT ![e] = why]
  /\ Goto(e, "stopping")
  /\ UNCHANGED <<lock, leaseVars, partVars, exit>>

MainSignal(e) == Upset /\ Drain(e, "signal")

MainLost(e) == lost[e] /\ Drain(e, "lost") /\ UNCHANGED upsets

-----------------------------------------------------------------------------
(* drain: GRPCServer.Stop, EngineServer.Close, TimerManager.Stop.          *)

(* Mutant of GracefulStop: closes the queue with the server.               *)
StopClosesQueue(e) ==
  /\ pc[e] = "stopping" /\ work[e] # "handler"
  /\ queueOpen' = [queueOpen EXCEPT ![e] = FALSE]
  /\ Goto(e, "closing")
  /\ UNCHANGED <<lock, reason, leaseVars, timers, reclaim, work, exit, upsets>>

GracefulStop(e) ==
  /\ pc[e] = "stopping" /\ work[e] # "handler"
  /\ Goto(e, "closing")
  /\ UNCHANGED <<lock, reason, leaseVars, partVars, exit, upsets>>

(* Mutant of ForcedStop: no deadline.                                      *)
ForcedStopNever(e) == FALSE /\ GracefulStop(e)

(* The grace period is over first: handlers are left to themselves.        *)
ForcedStop(e) ==
  /\ pc[e] = "stopping" /\ work[e] = "handler"
  /\ Goto(e, "closing")
  /\ UNCHANGED <<lock, reason, leaseVars, partVars, exit, upsets>>

(* Mutant of Close: no reclaimWG.Wait.                                     *)
CloseUnawaited(e) ==
  /\ pc[e] = "closing"
  /\ reclaim' = [reclaim EXCEPT ![e] = IF @ = "idle" THEN "off" ELSE @]
  /\ Goto(e, "timers")
  /\ UNCHANGED <<lock, reason, leaseVars, timers, work, queueOpen, exit, upsets>>

(* EngineServer.Close: close stopReclaim, wait for the loop.               *)
Close(e) ==
  /\ pc[e] = "closing" /\ reclaim[e] = "idle"
  /\ reclaim' = [reclaim EXCEPT ![e] = "off"]
  /\ Goto(e, "timers")
  /\ UNCHANGED <<lock, reason, leaseVars, timers, work, queueOpen, exit, upsets>>

(* TimerManager.Stop: close stopCh, wait for the loop.  After a lost lease *)
(* os.Exit follows; after a signal main returns into its deferred calls.   *)
StopTimers(e) ==
  /\ pc[e] = "timers" /\ timers[e] = "idle"
  /\ IF reason[e] = "lost"
       THEN Exit(e, "lost")
       ELSE /\ timers' = [timers EXCEPT ![e] = "off"]
            /\ Goto(e, "release")
            /\ UNCHANGED <<reason, leaseVars, reclaim, work, queueOpen, exit>>
  /\ UNCHANGED <<lock, upsets>>

-----------------------------------------------------------------------------
(* The deferred calls: LeaderLease.Release, then the queue and the store.  *)

ReleaseCancel(e) ==
  /\ pc[e] = "release"
  /\ cancelCh' = [cancelCh EXCEPT ![e] = TRUE]
  /\ Goto(e, "unlock")
  /\ UNCHANGED <<lock, reason, conn, lost, watch, partVars, exit, upsets>>

(* pg_advisory_unlock, which fails on a broken connection and on one that  *)
(* a ping is using; either way the connection goes back to the pool, which *)
(* destroys it if it is broken or busy.                                    *)
ReleaseUnlock(e) ==
  /\ pc[e] = "unlock"
  /\ \/ /\ conn[e] = "up"
        /\ lock' = None
        /\ conn' = [conn EXCEPT ![e] = "none"]
     \/ /\ conn[e] = "broken" \/ watch[e] = "ping"
        /\ conn' = [conn EXCEPT ![e] = "broken"]
        /\ UNCHANGED lock
  /\ Goto(e, "check")
  /\ UNCHANGED <<reason, cancelCh, lost, watch, partVars, exit, upsets>>

(* select { case <-l.lost: default: close(l.lost) }, look and close.       *)
ReleaseCheck(e) ==
  /\ pc[e] = "check"
  /\ Goto(e, IF lost[e] THEN "queue" ELSE "close")
  /\ UNCHANGED <<lock, reason, leaseVars, partVars, exit, upsets>>

ReleaseClose(e) ==
  /\ pc[e] = "close"
  /\ IF lost[e]
       THEN Exit(e, "panic")
       ELSE /\ lost' = [lost EXCEPT ![e] = TRUE]
            /\ Goto(e, "queue")
            /\ UNCHANGED <<reason, conn, cancelCh, watch, partVars, exit>>
  /\ UNCHANGED <<lock, upsets>>

(* q.Close, then s.Close and the end.                                      *)
CloseQueue(e) ==
  /\ pc[e] = "queue" /\ queueOpen[e]
  /\ queueOpen' = [queueOpen EXCEPT ![e] = FALSE]
  /\ UNCHANGED <<lock, pc, reason, leaseVars, timers, reclaim, work, exit, upsets>>

CloseStore(e) ==
  /\ pc[e] = "queue" /\ ~queueOpen[e]
  /\ Exit(e, "done")
  /\ UNCHANGED <<lock, upsets>>

-----------------------------------------------------------------------------
(* watchConnection.                                                        *)

WatchGoto(e, step) == watch' = [watch EXCEPT ![e] = step]

WatchCancelled(e) ==
  /\ watch[e] = "select" /\ cancelCh[e]
  /\ WatchGoto(e, "off")
  /\ UNCHANGED <<lock, pc, reason, conn, cancelCh, lost, partVars, exit, upsets>>

WatchTick(e) ==
  /\ watch[e] = "select"
  /\ WatchGoto(e, "ping")
  /\ UNCHANGED <<lock, pc, reason, conn, cancelCh, lost, partVars, exit, upsets>>

(* One ping fails on a broken connection; on one that Release is using or  *)
(* has given back it may do either.                                        *)
WatchPing(e) ==
  /\ watch[e] = "ping"
  /\ \/ conn[e] # "broken" /\ WatchGoto(e, "select")
     \/ (conn[e] # "up" \/ cancelCh[e]) /\ WatchGoto(e, "mark")
  /\ UNCHANGED <<lock, pc, reason, conn, cancelCh, lost, partVars, exit, upsets>>

(* markLost: look whether the channel is closed, and close it.             *)
MarkLostCheck(e) ==
  /\ watch[e] = "mark"
  /\ WatchGoto(e, IF lost[e] THEN "off" ELSE "close")
  /\ UNCHANGED <<lock, pc, reason, conn, cancelCh, lost, partVars, exit, upsets>>

MarkLostClose(e) ==
  /\ watch[e] = "close"
  /\ IF lost[e]
       THEN Exit(e, "panic")
       ELSE /\ lost' = [lost EXCEPT ![e] = TRUE]
            /\ WatchGoto(e, "off")
            /\ UNCHANGED <<pc, reason, conn, cancelCh, partVars, exit>>
  /\ UNCHANGED <<lock, upsets>>

-----------------------------------------------------------------------------
(* The loops and the goroutines.                                           *)

TimerTick(e) ==
  /\ timers[e] = "idle"
  /\ timers' = [timers EXCEPT ![e] = "busy"]
  /\ UNCHANGED <<lock, pc, reason, leaseVars, reclaim, work, queueOpen, exit, upsets>>

(* fireDue, bounded by a timeout of 5 s; it may leave a callback running.  *)
FireDue(e) ==
  /\ timers[e] = "busy"
  /\ timers' = [timers EXCEPT ![e] = "idle"]
  /\ \/ UNCHANGED work
     \/ work[e] = "none" /\ work' = [work EXCEPT ![e] = "callback"]
  /\ UNCHANGED <<lock, pc, reason, leaseVars, reclaim, queueOpen, exit, upsets>>

ReclaimTick(e) ==
  /\ reclaim[e] = "idle"
  /\ reclaim' = [reclaim EXCEPT ![e] = "busy"]
  /\ UNCHANGED <<lock, pc, reason, leaseVars, timers, work, queueOpen, exit, upsets>>

(* reclaimExpired, bounded by a timeout of 5 s.                            *)
ReclaimExpired(e) ==
  /\ reclaim[e] = "busy"
  /\ reclaim' = [reclaim EXCEPT ![e] = "idle"]
  /\ UNCHANGED <<lock, pc, reason, leaseVars, timers, work, queueOpen, exit, upsets>>

HandlerStarts(e) ==
  /\ pc[e] = "serve" /\ work[e] = "none"
  /\ work' = [work EXCEPT ![e] = "handler"]
  /\ UNCHANGED <<lock, pc, reason, leaseVars, timers, reclaim, queueOpen, exit, upsets>>

WorkEnds(e) ==
  /\ work[e] # "none"
  /\ work' = [work EXCEPT ![e] = "none"]
  /\ UNCHANGED <<lock, pc, reason, leaseVars, timers, reclaim, queueOpen, exit, upsets>>

(* InMemoryQueue.Enqueue on a closed channel or the nil map.               *)
LateEnqueue(e) ==
  /\ work[e] # "none" /\ ~queueOpen[e]
  /\ Exit(e, "panic")
  /\ UNCHANGED <<lock, upsets>>

-----------------------------------------------------------------------------
(* The environment.                                                        *)

(* The lease connection breaks; the engine and Postgres learn of it later. *)
Break(e) ==
  /\ conn[e] = "up"
  /\ conn' = [conn EXCEPT ![e] = "broken"]
  /\ Upset
  /\ UNCHANGED <<lock, pc, reason, cancelCh, lost, watch, partVars, exit>>

(* SIGKILL, a machine that dies, or os.Exit after a failed start.          *)
Kill(e) ==
  /\ pc[e] # "exited"
  /\ Upset
  /\ Exit(e, "killed")
  /\ UNCHANGED lock

(* Mutant of SessionEnds: the lock of a process that died stays.           *)
SessionStays ==
  /\ \E e \in Engine : lock = e /\ conn[e] = "broken"
  /\ lock' = None
  /\ UNCHANGED <<pc, reason, leaseVars, partVars, exit, upsets>>

(* Postgres finds the session of the lock gone and frees it.               *)
SessionEnds ==
  /\ lock # None
  /\ \A e \in Engine : lock = e => conn[e] # "up"
  /\ lock' = None
  /\ UNCHANGED <<pc, reason, leaseVars, partVars, exit, upsets>>

-----------------------------------------------------------------------------
Main(e) ==
  \/ AcquireLeaderLease(e) \/ NewEngine(e) \/ NewGRPCServer(e) \/ MainLost(e)
  \/ GracefulStop(e) \/ ForcedStop(e) \/ Close(e) \/ StopTimers(e)
  \/ ReleaseCancel(e) \/ ReleaseUnlock(e) \/ ReleaseCheck(e) \/ ReleaseClose(e)
  \/ CloseQueue(e) \/ CloseStore(e)

Watch(e) ==
  WatchCancelled(e) \/ WatchTick(e) \/ WatchPing(e) \/ MarkLostCheck(e) \/ MarkLostClose(e)

Loops(e) == TimerTick(e) \/ FireDue(e) \/ ReclaimTick(e) \/ ReclaimExpired(e)

Work(e) == HandlerStarts(e) \/ WorkEnds(e) \/ LateEnqueue(e)

Next ==
  \/ \E e \in Engine : Main(e) \/ MainSignal(e) \/ Watch(e) \/ Loops(e) \/ Work(e)
                       \/ Break(e) \/ Kill(e)
  \/ SessionEnds

Spec == Init /\ [][Next]_vars

(* Goroutines that can run do, a ping is answered or times out, Postgres   *)
(* finds a dead session in the end.  The stop of a loop is ready whenever  *)
(* the loop comes back to its select, where Go chooses at random: strong   *)
(* fairness.  Handlers and callbacks need not end.                         *)
FairSpec ==
  /\ Spec
  /\ \A e \in Engine : /\ WF_vars(Main(e)) /\ WF_vars(Watch(e))
                       /\ WF_vars(FireDue(e)) /\ WF_vars(ReclaimExpired(e))
                       /\ SF_vars(Close(e) \/ StopTimers(e))
  /\ WF_vars(SessionEnds)

-----------------------------------------------------------------------------
Serving(e) == pc[e] \in {"serve", "stopping"}

Running(e) == timers[e] # "off" \/ reclaim[e] # "off" \/ Serving(e)

(* A timer loop, a reclaim loop or a gRPC server runs under the lock,      *)
(* unless the connection of the lease broke: a shutdown stops all of them  *)
(* before it gives the lock to another engine.                             *)
CleanHandover ==
  \A e \in Engine : Running(e) /\ conn[e] # "broken" => lock = e

(* Release and markLost can both close the Lost channel, and a goroutine   *)
(* left behind can send on the closed queue.  Neither panic takes down an  *)
(* engine that still runs.                                                 *)
PanicHarmless ==
  [][\A e \in Engine : exit[e] # "panic" /\ exit'[e] = "panic" => ~Running(e)]_vars

(* A drain comes to its end, and an engine whose lease connection broke    *)
(* drains: the process exits, whatever its call handlers do.               *)
DrainEnds ==
  \A e \in Engine :
    (pc[e] = "stopping" \/ (Running(e) /\ conn[e] = "broken")) ~> pc[e] = "exited"

(* A cluster without a leader gets one, also when the leader died with the *)
(* lock in its hands, unless no engine is left.                            *)
Failover ==
  (\A e \in Engine : pc[e] \in {"acquire", "exited"})
    ~> ((\E e \in Engine : pc[e] = "serve") \/ (\A e \in Engine : pc[e] = "exited"))
=============================================================================
