------------------------ MODULE EngineProcessProofs ------------------------
(***************************************************************************)
(* For any number of engines: a shutdown hands the lock over with nothing  *)
(* running, and a panic of the shutdown never meets a running engine.      *)
(*                                                                         *)
(* The inductive invariant says, per engine, what main's progress tells    *)
(* about the rest of the process: a connection that is up holds the lock,  *)
(* the loops live between the steps that start and stop them, and the Lost *)
(* channel is closed under a live watcher only by a Release that is over.  *)
(***************************************************************************)
EXTENDS EngineProcess, TLAPS

Sound(e) ==
  /\ conn[e] = "up" => lock = e
  /\ pc[e] \in {"boot", "listen", "serve", "stopping", "closing", "timers", "release", "unlock"}
       => conn[e] # "none"
  /\ timers[e] # "off" => pc[e] \in {"listen", "serve", "stopping", "closing", "timers"}
  /\ reclaim[e] # "off" => pc[e] \in {"serve", "stopping", "closing"}
  /\ lost[e] /\ watch[e] # "off" => pc[e] = "queue"
  /\ ~queueOpen[e] => pc[e] = "queue"
  /\ pc[e] = "acquire" => watch[e] = "off" /\ ~lost[e]

IInv == TypeOK /\ \A e \in Engine : Sound(e)

-----------------------------------------------------------------------------
(* The end of a process: the session is given up, not the lock.            *)
LEMMA ExitType ==
  ASSUME TypeOK, NEW d \in Engine, NEW how \in {"none", "done", "lost", "killed", "panic"},
         Exit(d, how), UNCHANGED lock, upsets' \in 0 .. MaxUpsets
  PROVE  TypeOK'
BY DEF TypeOK, Exit, Goto, Loop

LEMMA ExitSound ==
  ASSUME IInv, NEW d \in Engine, NEW how, Exit(d, how), UNCHANGED lock, NEW e \in Engine
  PROVE  Sound(e)'
<1>1. CASE e = d
  BY <1>1 DEF IInv, TypeOK, Sound, Exit, Goto
<1>2. CASE e # d
  <2>1. /\ pc'[e] = pc[e] /\ conn'[e] = conn[e] /\ watch'[e] = watch[e] /\ lost'[e] = lost[e]
        /\ timers'[e] = timers[e] /\ reclaim'[e] = reclaim[e] /\ queueOpen'[e] = queueOpen[e]
    BY <1>2 DEF IInv, TypeOK, Exit, Goto
  <2> QED  BY <2>1, Zenon DEF IInv, Sound
<1> QED  BY <1>1, <1>2, Zenon

(* Every step keeps the types,                                             *)
LEMMA NextType ==
  ASSUME TypeOK, [Next]_vars
  PROVE  TypeOK'
<1> USE DEF leaseVars, partVars
<1>1. ASSUME NEW d \in Engine, AcquireLeaderLease(d) PROVE TypeOK'
  BY <1>1, ProcessAssumption DEF TypeOK, Loop, AcquireLeaderLease, Goto
<1>2. ASSUME NEW d \in Engine, NewEngine(d) PROVE TypeOK'
  BY <1>2, ProcessAssumption DEF TypeOK, Loop, NewEngine, Goto
<1>3. ASSUME NEW d \in Engine, NewGRPCServer(d) PROVE TypeOK'
  BY <1>3, ProcessAssumption DEF TypeOK, Loop, NewGRPCServer, Goto
<1>4. ASSUME NEW d \in Engine, MainLost(d) PROVE TypeOK'
  BY <1>4, ProcessAssumption DEF TypeOK, Loop, MainLost, Drain, Goto
<1>5. ASSUME NEW d \in Engine, GracefulStop(d) PROVE TypeOK'
  BY <1>5, ProcessAssumption DEF TypeOK, Loop, GracefulStop, Goto
<1>6. ASSUME NEW d \in Engine, ForcedStop(d) PROVE TypeOK'
  BY <1>6, ProcessAssumption DEF TypeOK, Loop, ForcedStop, Goto
<1>7. ASSUME NEW d \in Engine, Close(d) PROVE TypeOK'
  BY <1>7, ProcessAssumption DEF TypeOK, Loop, Close, Goto
<1>8. ASSUME NEW d \in Engine, StopTimers(d) PROVE TypeOK'
  <2>1. CASE reason[d] = "lost"
    BY <1>8, <2>1, ExitType, Zenon DEF StopTimers, TypeOK
  <2>2. CASE reason[d] # "lost"
    <3>1. /\ timers' = [timers EXCEPT ![d] = "off"] /\ Goto(d, "release")
          /\ UNCHANGED <<reason, leaseVars, reclaim, work, queueOpen, exit, lock, upsets>>
      BY <1>8, <2>2, Zenon DEF StopTimers
    <3> QED  BY <3>1 DEF TypeOK, Loop, Goto
  <2> QED  BY <2>1, <2>2, Zenon
<1>9. ASSUME NEW d \in Engine, ReleaseCancel(d) PROVE TypeOK'
  BY <1>9, ProcessAssumption DEF TypeOK, Loop, ReleaseCancel, Goto
<1>10. ASSUME NEW d \in Engine, ReleaseUnlock(d) PROVE TypeOK'
  BY <1>10, ProcessAssumption DEF TypeOK, Loop, ReleaseUnlock, Goto
<1>11. ASSUME NEW d \in Engine, ReleaseCheck(d) PROVE TypeOK'
  BY <1>11, ProcessAssumption DEF TypeOK, Loop, ReleaseCheck, Goto
<1>12. ASSUME NEW d \in Engine, ReleaseClose(d) PROVE TypeOK'
  <2>1. CASE lost[d]
    BY <1>12, <2>1, ExitType, Zenon DEF ReleaseClose, TypeOK
  <2>2. CASE ~lost[d]
    <3>1. /\ lost' = [lost EXCEPT ![d] = TRUE] /\ Goto(d, "queue")
          /\ UNCHANGED <<reason, conn, cancelCh, watch, partVars, exit, lock, upsets>>
      BY <1>12, <2>2, Zenon DEF ReleaseClose
    <3> QED  BY <3>1 DEF TypeOK, Loop, Goto
  <2> QED  BY <2>1, <2>2, Zenon
<1>13. ASSUME NEW d \in Engine, CloseQueue(d) PROVE TypeOK'
  BY <1>13, ProcessAssumption DEF TypeOK, Loop, CloseQueue
<1>14. ASSUME NEW d \in Engine, CloseStore(d) PROVE TypeOK'
  BY <1>14, ExitType, Zenon DEF CloseStore, TypeOK
<1>15. ASSUME NEW d \in Engine, WatchCancelled(d) PROVE TypeOK'
  BY <1>15, ProcessAssumption DEF TypeOK, Loop, WatchCancelled, WatchGoto
<1>16. ASSUME NEW d \in Engine, WatchTick(d) PROVE TypeOK'
  BY <1>16, ProcessAssumption DEF TypeOK, Loop, WatchTick, WatchGoto
<1>17. ASSUME NEW d \in Engine, WatchPing(d) PROVE TypeOK'
  BY <1>17, ProcessAssumption DEF TypeOK, Loop, WatchPing, WatchGoto
<1>18. ASSUME NEW d \in Engine, MarkLostCheck(d) PROVE TypeOK'
  BY <1>18, ProcessAssumption DEF TypeOK, Loop, MarkLostCheck, WatchGoto
<1>19. ASSUME NEW d \in Engine, MarkLostClose(d) PROVE TypeOK'
  <2>1. CASE lost[d]
    BY <1>19, <2>1, ExitType, Zenon DEF MarkLostClose, TypeOK
  <2>2. CASE ~lost[d]
    <3>1. /\ lost' = [lost EXCEPT ![d] = TRUE] /\ WatchGoto(d, "off")
          /\ UNCHANGED <<pc, reason, conn, cancelCh, partVars, exit, lock, upsets>>
      BY <1>19, <2>2, Zenon DEF MarkLostClose
    <3> QED  BY <3>1 DEF TypeOK, Loop, WatchGoto
  <2> QED  BY <2>1, <2>2, Zenon
<1>20. ASSUME NEW d \in Engine, TimerTick(d) PROVE TypeOK'
  BY <1>20, ProcessAssumption DEF TypeOK, Loop, TimerTick
<1>21. ASSUME NEW d \in Engine, FireDue(d) PROVE TypeOK'
  BY <1>21, ProcessAssumption DEF TypeOK, Loop, FireDue
<1>22. ASSUME NEW d \in Engine, ReclaimTick(d) PROVE TypeOK'
  BY <1>22, ProcessAssumption DEF TypeOK, Loop, ReclaimTick
<1>23. ASSUME NEW d \in Engine, ReclaimExpired(d) PROVE TypeOK'
  BY <1>23, ProcessAssumption DEF TypeOK, Loop, ReclaimExpired
<1>24. ASSUME NEW d \in Engine, HandlerStarts(d) PROVE TypeOK'
  BY <1>24, ProcessAssumption DEF TypeOK, Loop, HandlerStarts
<1>25. ASSUME NEW d \in Engine, WorkEnds(d) PROVE TypeOK'
  BY <1>25, ProcessAssumption DEF TypeOK, Loop, WorkEnds
<1>26. ASSUME NEW d \in Engine, LateEnqueue(d) PROVE TypeOK'
  BY <1>26, ExitType, Zenon DEF LateEnqueue, TypeOK
<1>27. ASSUME NEW d \in Engine, MainSignal(d) PROVE TypeOK'
  BY <1>27, ProcessAssumption DEF TypeOK, Loop, MainSignal, Drain, Upset, Goto
<1>28. ASSUME NEW d \in Engine, Break(d) PROVE TypeOK'
  BY <1>28, ProcessAssumption DEF TypeOK, Loop, Break, Upset
<1>29. ASSUME NEW d \in Engine, Kill(d) PROVE TypeOK'
  <2>1. upsets' \in 0 .. MaxUpsets
    BY <1>29, ProcessAssumption DEF Kill, Upset, TypeOK
  <2> QED  BY <1>29, <2>1, ExitType, Zenon DEF Kill
<1>30. CASE SessionEnds
  BY <1>30 DEF TypeOK, Loop, SessionEnds
<1>31. CASE UNCHANGED vars
  BY <1>31, Zenon DEF TypeOK, Loop, vars
<1> QED  BY <1>1, <1>2, <1>3, <1>4, <1>5, <1>6, <1>7, <1>8, <1>9, <1>10, <1>11,
            <1>12, <1>13, <1>14, <1>15, <1>16, <1>17, <1>18, <1>19, <1>20, <1>21,
            <1>22, <1>23, <1>24, <1>25, <1>26, <1>27, <1>28, <1>29, <1>30, <1>31, Zenon
         DEF Next, Main, Watch, Loops, Work

(* and every engine sound.                                                 *)
LEMMA NextSound ==
  ASSUME IInv, [Next]_vars, NEW e \in Engine
  PROVE  Sound(e)'
<1> USE DEF leaseVars, partVars
<1>0. TypeOK
  BY Zenon DEF IInv
<1>1. ASSUME NEW d \in Engine, AcquireLeaderLease(d) PROVE Sound(e)'
  BY <1>1, ProcessAssumption DEF IInv, TypeOK, Sound, AcquireLeaderLease, Goto
<1>2. ASSUME NEW d \in Engine, NewEngine(d) PROVE Sound(e)'
  BY <1>2 DEF IInv, TypeOK, Sound, NewEngine, Goto
<1>3. ASSUME NEW d \in Engine, NewGRPCServer(d) PROVE Sound(e)'
  BY <1>3 DEF IInv, TypeOK, Sound, NewGRPCServer, Goto
<1>4. ASSUME NEW d \in Engine, MainLost(d) PROVE Sound(e)'
  BY <1>4 DEF IInv, TypeOK, Sound, MainLost, Drain, Goto
<1>5. ASSUME NEW d \in Engine, GracefulStop(d) PROVE Sound(e)'
  BY <1>5 DEF IInv, TypeOK, Sound, GracefulStop, Goto
<1>6. ASSUME NEW d \in Engine, ForcedStop(d) PROVE Sound(e)'
  BY <1>6 DEF IInv, TypeOK, Sound, ForcedStop, Goto
<1>7. ASSUME NEW d \in Engine, Close(d) PROVE Sound(e)'
  BY <1>7 DEF IInv, TypeOK, Sound, Close, Goto
<1>8. ASSUME NEW d \in Engine, StopTimers(d) PROVE Sound(e)'
  <2>1. CASE reason[d] = "lost"
    BY <1>8, <2>1, ExitSound, Zenon DEF StopTimers
  <2>2. CASE reason[d] # "lost"
    BY <1>8, <2>2 DEF IInv, TypeOK, Sound, StopTimers, Goto
  <2> QED  BY <2>1, <2>2, Zenon
<1>9. ASSUME NEW d \in Engine, ReleaseCancel(d) PROVE Sound(e)'
  BY <1>9 DEF IInv, TypeOK, Sound, ReleaseCancel, Goto
<1>10. ASSUME NEW d \in Engine, ReleaseUnlock(d) PROVE Sound(e)'
  BY <1>10 DEF IInv, TypeOK, Sound, ReleaseUnlock, Goto
<1>11. ASSUME NEW d \in Engine, ReleaseCheck(d) PROVE Sound(e)'
  BY <1>11 DEF IInv, TypeOK, Sound, ReleaseCheck, Goto
<1>12. ASSUME NEW d \in Engine, ReleaseClose(d) PROVE Sound(e)'
  <2>1. CASE lost[d]
    BY <1>12, <2>1, ExitSound, Zenon DEF ReleaseClose
  <2>2. CASE ~lost[d]
    BY <1>12, <2>2 DEF IInv, TypeOK, Sound, ReleaseClose, Goto
  <2> QED  BY <2>1, <2>2, Zenon
<1>13. ASSUME NEW d \in Engine, CloseQueue(d) PROVE Sound(e)'
  BY <1>13 DEF IInv, TypeOK, Sound, CloseQueue
<1>14. ASSUME NEW d \in Engine, CloseStore(d) PROVE Sound(e)'
  BY <1>14, ExitSound, Zenon DEF CloseStore
<1>15. ASSUME NEW d \in Engine, WatchCancelled(d) PROVE Sound(e)'
  BY <1>15 DEF IInv, TypeOK, Sound, WatchCancelled, WatchGoto
<1>16. ASSUME NEW d \in Engine, WatchTick(d) PROVE Sound(e)'
  BY <1>16 DEF IInv, TypeOK, Sound, WatchTick, WatchGoto
<1>17. ASSUME NEW d \in Engine, WatchPing(d) PROVE Sound(e)'
  BY <1>17 DEF IInv, TypeOK, Sound, WatchPing, WatchGoto
<1>18. ASSUME NEW d \in Engine, MarkLostCheck(d) PROVE Sound(e)'
  BY <1>18 DEF IInv, TypeOK, Sound, MarkLostCheck, WatchGoto
<1>19. ASSUME NEW d \in Engine, MarkLostClose(d) PROVE Sound(e)'
  <2>1. CASE lost[d]
    BY <1>19, <2>1, ExitSound, Zenon DEF MarkLostClose
  <2>2. CASE ~lost[d]
    BY <1>19, <2>2 DEF IInv, TypeOK, Sound, MarkLostClose, WatchGoto
  <2> QED  BY <2>1, <2>2, Zenon
<1>20. ASSUME NEW d \in Engine, TimerTick(d) PROVE Sound(e)'
  BY <1>20 DEF IInv, TypeOK, Sound, TimerTick
<1>21. ASSUME NEW d \in Engine, FireDue(d) PROVE Sound(e)'
  BY <1>21 DEF IInv, TypeOK, Sound, FireDue
<1>22. ASSUME NEW d \in Engine, ReclaimTick(d) PROVE Sound(e)'
  BY <1>22 DEF IInv, TypeOK, Sound, ReclaimTick
<1>23. ASSUME NEW d \in Engine, ReclaimExpired(d) PROVE Sound(e)'
  BY <1>23 DEF IInv, TypeOK, Sound, ReclaimExpired
<1>24. ASSUME NEW d \in Engine, HandlerStarts(d) PROVE Sound(e)'
  BY <1>24 DEF IInv, TypeOK, Sound, HandlerStarts
<1>25. ASSUME NEW d \in Engine, WorkEnds(d) PROVE Sound(e)'
  BY <1>25 DEF IInv, TypeOK, Sound, WorkEnds
<1>26. ASSUME NEW d \in Engine, LateEnqueue(d) PROVE Sound(e)'
  BY <1>26, ExitSound, Zenon DEF LateEnqueue
<1>27. ASSUME NEW d \in Engine, MainSignal(d) PROVE Sound(e)'
  BY <1>27 DEF IInv, TypeOK, Sound, MainSignal, Drain, Upset, Goto
<1>28. ASSUME NEW d \in Engine, Break(d) PROVE Sound(e)'
  BY <1>28 DEF IInv, TypeOK, Sound, Break, Upset
<1>29. ASSUME NEW d \in Engine, Kill(d) PROVE Sound(e)'
  BY <1>29, ExitSound, Zenon DEF Kill
<1>30. CASE SessionEnds
  BY <1>30 DEF IInv, TypeOK, Sound, SessionEnds
<1>31. CASE UNCHANGED vars
  BY <1>31, Zenon DEF IInv, TypeOK, Sound, vars
<1> QED  BY <1>1, <1>2, <1>3, <1>4, <1>5, <1>6, <1>7, <1>8, <1>9, <1>10, <1>11,
            <1>12, <1>13, <1>14, <1>15, <1>16, <1>17, <1>18, <1>19, <1>20, <1>21,
            <1>22, <1>23, <1>24, <1>25, <1>26, <1>27, <1>28, <1>29, <1>30, <1>31, Zenon
         DEF Next, Main, Watch, Loops, Work

-----------------------------------------------------------------------------
LEMMA InitSound == Init => IInv
BY ProcessAssumption DEF Init, IInv, TypeOK, Sound, Loop

LEMMA Invariance == Spec => []IInv
<1>1. IInv /\ [Next]_vars => IInv'
  BY NextType, NextSound, Zenon DEF IInv
<1> QED  BY <1>1, InitSound, PTL DEF Spec

(* Type correctness.                                                       *)
THEOREM ProcessTypes == Spec => []TypeOK
<1>1. IInv => TypeOK
  BY Zenon DEF IInv
<1> QED  BY <1>1, Invariance, PTL

(* The loops and the gRPC server of an engine run under the advisory lock, *)
(* unless the connection of its lease broke: drain stops them all before   *)
(* the deferred Release unlocks.                                           *)
THEOREM CleanHandoverHolds == Spec => []CleanHandover
<1>1. IInv => CleanHandover
  BY DEF IInv, TypeOK, Sound, CleanHandover, Running, Serving
<1> QED  BY <1>1, Invariance, PTL

(* Neither the double close of the Lost channel nor a send on the closed   *)
(* queue can happen while the engine runs.                                 *)
THEOREM PanicHarmlessHolds == Spec => PanicHarmless
<1>1. ASSUME IInv, [Next]_vars, NEW e \in Engine, exit[e] # "panic", exit'[e] = "panic"
      PROVE  ~Running(e)
  <2>1. CASE exit' = exit
    BY <1>1, <2>1
  <2>2. ASSUME NEW d \in Engine, NEW how \in {"done", "lost", "killed"}, Exit(d, how)
        PROVE  FALSE
    BY <1>1, <2>2 DEF Exit, IInv, TypeOK
  <2>3. ASSUME NEW d \in Engine, Exit(d, "panic"), pc[d] \in {"close", "queue"}
        PROVE  ~Running(e)
    <3>1. e = d
      BY <1>1, <2>3 DEF Exit, IInv, TypeOK
    <3> QED  BY <1>1, <2>3, <3>1 DEF IInv, Sound, Running, Serving
  <2>4. ASSUME NEW d \in Engine, ReleaseClose(d) \/ MarkLostClose(d) \/ LateEnqueue(d)
        PROVE  exit' = exit \/ (Exit(d, "panic") /\ pc[d] \in {"close", "queue"})
    BY <1>1, <2>4 DEF IInv, Sound, ReleaseClose, MarkLostClose, LateEnqueue
  <2>5. ASSUME NEW d \in Engine, StopTimers(d) \/ CloseStore(d) \/ Kill(d)
        PROVE  exit' = exit \/ \E how \in {"done", "lost", "killed"} : Exit(d, how)
    BY <2>5, Zenon DEF StopTimers, CloseStore, Kill
  <2>6. ASSUME NEW d \in Engine,
               \/ Main(d) /\ ~StopTimers(d) /\ ~ReleaseClose(d) /\ ~CloseStore(d)
               \/ Watch(d) /\ ~MarkLostClose(d)
               \/ Loops(d)
               \/ Work(d) /\ ~LateEnqueue(d)
               \/ MainSignal(d) \/ Break(d)
        PROVE  exit' = exit
    BY <2>6, Zenon DEF Main, Watch, Loops, Work, MainSignal, Break, MainLost, Drain,
       AcquireLeaderLease, NewEngine, NewGRPCServer, GracefulStop, ForcedStop, Close,
       ReleaseCancel, ReleaseUnlock, ReleaseCheck, CloseQueue, WatchCancelled, WatchTick,
       WatchPing, MarkLostCheck, TimerTick, FireDue, ReclaimTick, ReclaimExpired,
       HandlerStarts, WorkEnds
  <2>7. SessionEnds \/ UNCHANGED vars => exit' = exit
    BY Zenon DEF SessionEnds, vars
  <2> QED  BY <1>1, <2>1, <2>2, <2>3, <2>4, <2>5, <2>6, <2>7, Zenon DEF Next, Main, Watch, Work
<1>2. IInv /\ [Next]_vars
        => [\A e \in Engine : exit[e] # "panic" /\ exit'[e] = "panic" => ~Running(e)]_vars
  BY <1>1, Zenon
<1> QED  BY <1>2, Invariance, PTL DEF Spec, PanicHarmless
=============================================================================
