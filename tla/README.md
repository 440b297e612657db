# A verification project for sched

sched is a durable workflow engine: clients start and signal workflows over
gRPC, an engine process keeps their histories in Postgres (or memory) and their
tasks in Redis streams (or memory), and workers built on the SDK run workflow
functions by replay and activities at least once. This directory holds TLA+
modules of its concurrent core, TLC configurations for small instances, and
proofs checked by TLAPS.

## The system and its parts

| Part | State | Operations | What makes it hard |
|---|---|---|---|
| Store (`internal/store`) | rows, histories, timer rows | create, append, complete, timers | calls fail; appends collide; completion is unconditional |
| Task queue (`queue`) | Redis stream, pending-entries list | enqueue, dequeue, ack | lost replies; entries of a dead engine |
| Timer manager (`engine/timer.go`) | callback table, polling loop | ScheduleTimer, fireDue, recovery | row visible before callback; fired before recorded |
| Workflow dispatch (`engine/api.go`, `engine/engine.go`) | token table, awaiting-dispatch flags | Start, Poll/Stream, Complete, Signal, Cancel, RegisterTimer, timeout, reclaim | several wakers, one flag; multi-call handlers |
| Activity tasks (`engine/api.go`) | token table, retry closures | Schedule, Poll/Stream, Heartbeat, Complete, retry, reclaim | late workers, restarted attempt counts |
| Replay (`sdk/replay.go`, `sdk/workflow.go`) | cursor over a history snapshot | Sleep, WaitForSignal, QueueActivity | matching by type behind one cursor |
| Signal waiters (`engine/engine.go`) | buffer, waiters, channels | DeliverSignal, WaitForSignal | timer against delivery |
| Task streams (`engine/api.go`, `sdk/communicator.go`) | one handler and one loop per stream | Ready, dequeue, send, reconnect | both sides waiting; broken streams |
| Leader lease and process (`internal/store/lease.go`, `cmd/engine`) | advisory lock, its connection, loops, server, queue | acquire, watch, lose, drain, release | two engines; goroutines that outlive the drain |

`StartWorkflow` creates the row, records `WorkflowStarted` and enqueues a task.
A poll or stream moves the entry to the pending-entries list and a token to the
token table; the worker runs the function against the history and reports
`yield`, a result or an error. A yield sets the awaiting-dispatch flag; a signal
or a timer claims it and enqueues the next task. The reclaim loop puts back
tasks whose worker stays silent. All of this runs on the engine that holds the
leader lease.

## Modules

| Module | Models |
|---|---|
| `Store`, `TaskQueue`, `TimerManager`, `Replay` | the parts the dispatch models share; each operator is one call or one step |
| `WorkflowDispatch` | all of workflow dispatch, the worker and engine crashes, composed of the four above |
| `ActivityTasks` | the whole life of an activity task, on the same store, queue and timers |
| `SignalWaiters` | the in-process signal table |
| `EventHistory`, `EventLog` | an append-only history, and the Postgres transactions that implement it |
| `TaskStream` | streaming delivery, both ends, with reconnects |
| `EngineProcess` | `main` of `cmd/engine` with the lease, its watcher, the two loops, the server and the queue it stops |
| `DispatchClaims` | sentences of the documentation the dispatch code departs from |
| `MCWorkflowDispatch`, `MCActivityTasks` | instances for TLC: the workflow functions |
| `WorkflowLife`, `ActivityLife` | what the two dispatch modules promise about the life of one workflow and of one activity |
| `WorkflowDispatchProofs`, `DispatchRecordProofs`, `DispatchReplayProofs` | theorems about `WorkflowDispatch`: types and rights to dispatch; the life of a workflow, histories, rows and queues; replay |
| `ActivityTasksProofs`, `EventLogProofs`, `SignalWaitersProofs`, `TaskStreamProofs`, `EngineProcessProofs` | theorems about the module each is named after |

Conventions. A handler is split where another goroutine can get in: one step
per store call, queue call or critical section. Calls in flight are records in
sets (`polls`, `completing`, `requeueing`, `goroutines`, ...) or program counters
(`startPc`, `signalPc`, ...). The token of a dequeued entry is a fresh uuid in
the code; an entry is delivered once, so its stream id stands for the token.
Time is abstracted: a timer may fire once its row exists, and a task may expire
unless it was touched since the last reclaim tick. A store or queue call may
fail and then changes nothing; `faults` counts failures up to `MaxFaults`, so
`MaxFaults = 0` is `MemoryStore`. `losses` counts lost responses and workers
that die or are slower than the visibility timeout. `EngineCrash` empties
everything the process holds; rows, timers, stream and workers stay.

`Program` is the workflow function: its commands in order. Results of commands
are data and left out, so a function has no branches. Every definition whose
comment says "Mutant of" is a deliberate bug: put in place of the definition it
names, it must break the property it was written for. Nothing else uses it.

The central idea of both dispatch models is the *right to run*: a queued entry,
a token, a completion that is not decided, an entry on its way back to the
queue, a waker that has claimed the flag, the flag itself or an armed retry. Most
hazards of the code are ways to duplicate or to lose a right.

## What is checked

Passing runs. The names of runs in `PROJECT.json` follow the configurations.

| Configuration | Instance | Shows |
|---|---|---|
| `DispatchSignal` | wait for a signal under an execution timeout; 1 signal, 1 cancel, 1 fault, 1 crash (2,810,455 states) | no dispatch after the finish (`NoDispatchAfterFinish`); no workflow stranded without fault or crash (`NeverStranded`); the pending-entries list and the tables agree (`PelMatchesTables`); the row follows the recorded outcome (`OutcomeReachesRow`) |
| `DispatchReplay` | signal, activity, sleep, activity; 2 signals, 1 fault (4,602,418) | each command passed has its own event (`CommandsBacked`), none is issued twice (`IssuedOnce`), a scheduled activity is on the queue (`ScheduledReachesQueue`) |
| `DispatchLive` | a Sleep, 1 loss, fair (149,091) | at most one right to dispatch (`SingleDispatch`), one finish (`FinishedOnce`); every task is settled, a queued task moves its workflow, an armed Sleep wakes it |
| `Activities` | 1 activity, 2 attempts, 1 fault, 2 losses, 1 crash, fair (129,357) | one task per activity, outcomes within the policy, nothing after a success, none dropped and no retry without a timer that starts it, one worker at a time, a last outcome in the end |
| `Signals` | 3 waiters, 3 signals, fair (1,448) | a signal goes to one place and in order, nobody waits on a full buffer, no signal is handed to a call that returned, every wait returns |
| `EventLog` | 4 concurrent appends, fair (15,217) | no gap, refinement of the append-only history, every append is answered |
| `Streams` | 2 workers, 3 tasks, 2 streams each, 1 idle dequeue, fair (43,814) | a task is in one place and one pair of hands, one credit per stream, every task is completed if no dequeue comes back empty |
| `Leader` | 2 engines, 2 upsets, fair (206,280) | a shutdown hands over with nothing running, a panic meets no running engine, a drain ends, a cluster without a leader gets one |

An upset is a shutdown signal, a kill or a broken lease connection.

Bounds. The races are between two parties over one flag, token or row. In the
first run a signal, the timeout, a cancel, a fault and a crash meet; in the
second two signals, one of which no wait asks for, meet replay; in the third a
worker that is given up on meets its successor. The combinations no run has are
covered by the proofs: every safety property of these runs is proved with all
of them together. Two attempts is the least number with a
retry; four commands are the fewest with a signal, a Sleep and an activity on
either side of the Sleep. Two engines and two upsets give a leader that
falls and a successor that falls in the middle of taking over. The proofs below
remove the bounds. Deadlock is not checked:
with the client calls, tasks or upsets used up the system may stop.

Fairness. Weak fairness is given only to what a live process does by itself: a
handler, goroutine or loop that is running goes on, workers poll and finish,
`fireDue` and the reclaim loop are ticker loops. In `EngineProcess` Postgres
ends the session of a dead process at last, and a standby keeps trying for the
lock. Two steps there are strongly fair, the `Close` of the reclaim loop and the
`Stop` of the timer loop: they wait for a loop whose `select` may take the ticker
while the stop channel is ready, and Go chooses at random, so it does not do
that for ever. Clients, faults, losses, crashes, upsets, stream breaks, idle
dequeues and the reclaim of a task that is still being worked on are never
forced.

### Where the documentation and the code part

Four runs check one sentence of the documentation or of a comment each, and TLC
finds it violated. `PROJECT.json` quotes the sentences.

| Configuration | The code |
|---|---|
| `ClaimSignalWakes` | a signal (likewise a timer, `api.go:854`) that comes before the yield is marked wakes nobody |
| `ClaimRestart` | a restart forgets which workflows are parked; recovery registers no callback |
| `ClaimRerun` | a fresh `QueueActivity` leaves the cursor where it was, so a `WaitForSignal` behind it may take a signal older than the activity; the re-run finds the activity first, its cursor passes that signal, the wait takes a later one, and the activity behind the wait, recorded before that one, is scheduled again |
| `ClaimStreamIdle` | after an idle dequeue both ends of a stream wait for each other |

Known departures that the models contain, or that were met while reading, and
that no run of its own is spent on. The properties above are stated so that they
hold next to them. Paths are relative to `src/`, documents to
`src/web/apps/site/src/content/docs/`.

- Replay: a signal recorded ahead of an earlier command's event is skipped by
  the cursor (`sdk/replay.go:64`; `signals.mdx:66`), so a re-run need not repeat
  what the run before it saw (`sdk/workflow.go:38`; `signals.mdx:68`). A Sleep
  takes the `TimerScheduled` of the execution timeout for its own
  (`sdk/replay.go:81`; `timers.mdx:59`).
- Failing calls: an enqueue that fails after the flag or token is gone strands
  the workflow (`engine/api.go:829`, `855`, `1066`; `ha.mdx:115`). Outcome event
  and row are two calls (`api.go:430`; `persistence.mdx:129`), and so are
  `ActivityScheduled` and its task (`api.go:776`; `persistence.mdx:127`). A lost
  `XREADGROUP` reply leaves an entry that is never reclaimed (`queue/redis.go:132`).
- Statuses: `TIMED_OUT` overwrites a terminal status (`api.go:516`, `527` against
  the comment at `503`); `CANCELED` is never recorded (`api.go:430` against the
  comment at `475`).
- Reclaim: a reclaimed workflow task loses its input (`api.go:1037`, `375`;
  `architecture.mdx:62`); a reclaimed activity loses input, attempt and policy
  (`api.go:1049`; `activities.mdx:106`, `139`). Entries in flight at a restart are
  never reclaimed (`api.go:1022`; `ha.mdx:70`).
- Activities: `ActivityFailed` is recorded for every failed attempt
  (`api.go:681`; `persistence.mdx:99`); a retry timer can fire before its callback
  exists, and the retry is lost (`engine/timer.go:75`; `activities.mdx:119`).
- Signals: a signal handed to a waiter that times out is dropped
  (`engine/engine.go:136` against the comment at `18`).
- Histories: colliding appends fail and no caller retries
  (`internal/store/postgres.go:83` against `queries/events.sql:4`).
- Lease: one failed ping marks the lease lost, `ha.mdx:41` says three in a row
  (`internal/store/lease.go:112`). After a broken connection two engines run for
  a while (comment at `lease.go:13`); handlers past a forced stop and timer
  callbacks outlive the lease even after a clean shutdown (`api.go:1153`,
  `timer.go:174`). `Release` and `markLost` can both close the `Lost` channel
  (`lease.go:92`, `124`), and a late `Enqueue` can send on the closed in-memory
  queue (`queue/queue.go:120` against the comment at `39`): both panic.
- Backoff: `BackoffFor` converts to `int64` before it clamps, so a large power
  becomes a negative delay (`engine/workflow.go:51` against the comment at `36`).

## What is proved

For all values of the constants, under the assumptions named in the modules:
bounds are naturals, `MaximumAttempts` is at least 1, `Program` is a sequence of
commands, `Unlocked` is not an appender and `None` not an engine. Every proof
module states its inductive invariant as `IInv`.

- `WorkflowDispatch`: `TypeCorrect`, `SingleDispatchHolds`,
  `NoDispatchAfterFinishHolds`, `FinishedOnceHolds`, `NeverStrandedHolds`. The
  properties are not inductive one by one: that a second right never appears
  rests on entries being delivered once, that nothing follows the finish rests
  on the finishing completion having held the only right. `IInv` adds to the type
  invariant that stream ids are fresh and unique (`StreamUnique`) and joins the
  four properties per workflow (`Safe`) with the fact that a row exists as soon
  as its `StartWorkflow` has begun. The proof classifies steps: a step leaves the
  rights of a workflow alone, exchanges one for another, drops some because a
  call failed or the engine died, trades one for a finish event, or creates the
  first one. `MoveSafe` shows that each of these keeps `Safe`; `NextMoves` goes
  through the handlers and says which of them each step is. `LifeImplemented`
  (proved in `DispatchRecordProofs`) reads the same classes as the steps of
  `WorkflowLife`: an open workflow leaves that state once, for its outcome or
  because a failed call or a crash took its right, and nothing reopens a finished
  workflow or revives a stranded one.
- `WorkflowDispatch` again, what is written down and where
  (`DispatchRecordProofs`), each with an invariant of its own on top of `IInv`:
  - `CommandsBackedHolds`. `BackedInv`: of each kind, a run is done with at most
    as many commands as there are events behind its cursor or younger than the
    snapshot it was given. The two groups are disjoint from what replay has still
    to read, so a match adds one to both sides and so does a fresh command, also
    when two runs of one workflow go on side by side. That an old run may not be
    credited with events it has not reached is what makes this inductive.
  - `OutcomeReachesRowHolds`. `OutcomeInv`: between the outcome event and the row
    there is a completion that has just this step to take. Nothing else takes it
    away, and a row becomes `RUNNING` only by its creation, which a workflow with
    an outcome has behind it (`Safe`). `OutcomeKeptHolds`, an action property,
    adds that no step changes a recorded outcome or joins another to it, and that
    no step sets a row that has left `RUNNING` back to it, although
    `CompleteWorkflow` of the store takes any status for any row.
  - `PelMatchesTablesHolds`. `TokenInv`: the token table, the completions and the
    entries being put back never share an id, and the ids they hold have left the
    stream; then each step moves one id between them, or in or out together with
    the list (`PelInv`).
  - `ScheduledReachesQueueHolds`. `WorkInv`: polls and runs never share an id, so a
    step of one run takes away no other, and a run in the middle of
    `ScheduleActivity` does nothing else. The count of recorded activities is then
    that of the tasks and of the runs between the two calls.
- `WorkflowDispatch` and replay (`DispatchReplayProofs`): `IssuedOnceHolds`, no
  command is issued twice over all the runs of a workflow. The difficulty is that
  what a re-run does is computed from the whole history. The invariant therefore
  carries the computation with it: a *chain*, the positions behind the match of
  the first, second, ..., K-th command for a cursor that starts at 1 (`Chain`).
  - An event that is appended never moves a link, because a link is the first
    match behind the one before. `Ledger` counts: there
    are no more scheduling events than commands of that kind in the chain, but for
    one `TimerScheduled` that has not fired and that the next command, a Sleep,
    waits for. With K at most the length of the function this is the bound.
  - The run of a workflow is somewhere along the chain (`Replaying`), blocked in
    the Sleep behind it (`Sleeping`), or past its end, where what it issues
    prolongs the chain (`Ahead`). A fresh activity leaves the cursor behind, and
    the chain goes over what lies between; a signal wait right behind it could
    take a signal from there, which is why `SignalsLead` is needed.
  - A workflow has one run at a time and the only right is that run's token
    (`Alone`, from `Safe` and the tables), so no second run prolongs the chain; and
    every `ScheduleTimer` call under way has a run that waits for it in a Sleep
    (`ArmInv`), so no timer is recorded behind a run's back. After an engine
    crash a run goes on without a token. If the crash took its `ScheduleTimer`
    call, it goes on past a Sleep that has no timer, and there is no chain any
    more (`Spent`). But nobody dispatches the workflow again, and what this last
    run still issues stays within the bound.
  - So the theorem holds across crashes, for any number of workflows, signals and
    cancellations; the conditions are those in the statement of `IssuedOnce`.
- `ActivityTasks`: `ActivityTypes`, `SingleTaskHolds`, `AttemptsBoundedHolds`,
  `SuccessIsFinalHolds`, `OneWorkerHolds`, along the same argument. What is new is
  the count: a right carries the envelope it will be run with (`Due`), and `Fits`
  says that there is room for one more outcome and that the envelope's attempt is
  ahead of the outcomes recorded, unless a reclaim has set it to 0 of 0, after
  which no retry is allowed. `Manned` ties workers to tokens: while nothing was
  lost, what a worker runs is still in the token table, hence is the right, and
  every token has somebody at work on it.
  `NeverDroppedHolds` adds `KInv`. `Kept`: without fault or crash the right stays
  until the activity is settled, and without losses its envelope still has the
  whole policy and counts every outcome, so a right gives way only to a success
  or the last failure. `Clocked`: each retry has a timer of its own, which its
  `ScheduleTimer` call, the callback table or a goroutine knows; as long as no row
  was fired ahead of its callback, that timer starts the retry.
  `ActivityLifeImplemented`: the moves of the rights are the steps of
  `ActivityLife`. Every outcome is recorded of an activity that is due, it closes
  the activity unless the policy leaves an attempt, and a closed activity stays
  closed.
- `EventLog`: `LogTypes`, `GaplessHolds` and `HistoryImplemented`. The committed rows are a
  sequence, an open transaction holds the next index and is the only one; hence
  `Commit` is an append of the abstract history and every other step answers an
  error or stutters there.
- `SignalWaiters`: `SignalTypes`, `NoWaitOnBufferedHolds`, `DeliveredOnceHolds`,
  `OldestFirstHolds`, `WaitersLiveHolds`. The buffer is sorted, all that was
  handed over is older than all that is in it, each call is registered once and
  only while it can take a signal.
- `TaskStream`: `StreamTypes`, `OnePlaceHolds`, `OneHolderHolds`, `OneCreditHolds`. What is held
  is in the token table, so a queued task is in nobody's hands; a broken stream
  has nothing under way, and only a worker's newest stream is not broken.
- `EngineProcess`: `ProcessTypes`, `CleanHandoverHolds`, `PanicHarmlessHolds`. Per
  engine, the progress of `main` tells what else is alive: a connection that is
  up holds the lock, the loops live between the steps that start and stop them,
  and the `Lost` channel is closed under a live watcher only after `Release`.

Only model-checked:

- Liveness (`TasksSettled`, `Progress`, `SleepWakes`, `ActivitySettles`,
  `WaitReturns`, `AppendAnswered`, `ServedUnlessIdle`, `DrainEnds`, `Failover`),
  which the proof system does not reach.

Only proved: `LifeImplemented`, `ActivityLifeImplemented` and `OutcomeKeptHolds` are
in no configuration. `ImplementsLife` of either module can be put as a `PROPERTY`
into `DispatchSignal.cfg` or `Activities.cfg`; TLC confirms both on these
instances.

The conditions of `IssuedOnce` are needed: without them the code does issue a
command twice (`ClaimRerun`, and the execution timeout under "Replay" above).

## Simplifications

- A call that fails changes nothing. A call that took effect and whose answer
  was lost is modelled for `XREADGROUP` and for the Postgres append only;
  elsewhere the caller drops the error, or stops as it would in a crash.
- In `TaskStream` a task is reclaimed only when nobody holds it; failing queue
  calls and slow workers are in the two dispatch models, which contain the send
  failure as well.
- A Sleep shorter than a second, which the SDK sleeps locally, is left out.
- Inputs, results and payloads are reduced to whether they are there.
- Queue order matters only within one queue; workflows share one.
- In `EngineProcess` an engine has one handler or callback at a time, a kill also
  stands for `os.Exit` after a failed start or serve, a ping on a connection that
  was released meanwhile may go either way, and the in-memory mode, which takes
  no lease, is left out.

## Not modelled

- `BackoffFor`: floating-point arithmetic whose result is only a delay, and the
  models let a timer fire after any delay.
- `RedisQueue.Reclaim`: nothing calls it.
- The capacity of `InMemoryQueue` (a blocked `Enqueue` that gives up is the failing
  call of `TryEnqueue`) and its lack of redelivery.
- The read-only API, the dashboard, observability, generated database code and
  the demo worker: they change no state the properties are about.
- Dialling, tracing and registration in the SDK.
