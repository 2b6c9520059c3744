# TLA+ models of TurboPanel

TurboPanel's control plane sends commands (deploy an environment, apply a
managed database, reboot, ...) to the daemon on each server and keeps track of
what became of them. This directory models that pipeline (which command of a
server may start, how one command gets to its server and its outcome back, the
lanes of the self-hosted consumer) and two protocols that stand on it: how the
control plane knows whether a server is up, and how a managed database cluster
is moved from one primary to another without ever having two. TLC checks the
models on small instances; TLAPS proves the central properties for all.

## 1. The system and its parts

| Part | Source | State it keeps | Operations | Model |
| --- | --- | --- | --- | --- |
| server turn | `src/features/commands/server-turn.ts`, `delivery-retry.ts`, `delivery-failure.ts` | `command` rows; the server row's lock | `claimServerTurn`, `markClaimed`, `stampWaiting`, put back, retry | `ServerTurn`, `OneAtATime` |
| command delivery | `consumer.ts`, `command-records.ts`, `deno-consumer.ts` | `command` row, dispatch payload row, queue message | `processCommandEnvelope`, `transitionCommand`, `finalizeCommandDispatch`, `failCommandAfterRetries` | `CommandDelivery` |
| stale sweep | `stale-sweep.ts` | (reads `command`) | `sweepStaleCommands` | in both |
| late outcome recovery | `command-recovery.ts` | (writes `command`) | `ackForReportedOutcome`, `correctTimedOutDeploy` | `CommandDelivery` |
| deploy wait | `deploy-wait.ts` | the waiter in memory | `createDeployWaiter`, `deployWaitVerdict` | its verdicts, in `CommandDelivery` |
| progress | `command-progress.ts` | `command.progress` | `recordCommandProgress`, `noteCommandAlive` | one flag in both |
| lanes | `command-lanes.ts` | lanes, ready list, counter in memory | `run`, `releaser`, `pump` | `LaneScheduler` |
| daemon cell | `daemon/cell/do.ts` (Cloudflare), `daemon/cell/redis/` (self-hosted) | request rows, outbox, sockets | `enqueue`, `markSent`, `handleInbound`, `expireRequest`, alarm | one request of the Durable Object, in `CommandDelivery` |
| presence | `daemon/cell/offline-sweep.ts`, `postgres-projection.ts`, `control-plane-monitor.ts`, `socket-health.ts`, `do.ts` | the `server` row's status, the cell's sockets and runtime flag | project online or offline, sweep, probe, heal | `Presence` |
| sweep lease | `daemon/cell/offline-sweep-lease.ts`, `offline-sweep.ts` | one row of `lease` | `tryBeginOfflineSweep`, the phases of `runOfflineSweep`, `endOfflineSweep` | `SweepLease` |
| daemon connection | `daemon/deno-ws.ts`, `workers-ws.ts`, `signed-session-gate.ts` | session phase | first frame, signed frames | planned |
| deploys | `features/deploy/` | deployments, generations | deploy, rollout, cancel | cancel only; rest planned |
| upgrades | `features/upgrades/` | upgrade runs | coordinator tick | planned |
| managed recovery | `features/managed/ha-recovery.ts`, `recovery-records.ts`, `ha-fence-deadline.ts`, `ha-ingress-gate.ts` | the recovery journal, member roles | fence, promote, resume, abort, expire | `ManagedRecovery` |
| managed host loss, return fence, re-seed | the rest of `features/managed/` | primary epoch, boot hold | host-loss tick, return fence | the cancel of a fence's stop, in `CommandDelivery`; rest planned |
| billing, webhooks, backups, query cache | `features/billing/`, `features/webhook-delivery/`, `features/backups/`, `query-cache/` | locks, ledgers, records | | later |
| API, UI backends, CLI, compose, fabric, settings, notifications, ... | the rest of `src/` | rows behind request handlers | | not modelled (no protocol of their own) |

`PROJECT.json` lists them all with the reason for each one left out.

How they interact. An API handler writes a `command` row with its payload and
queues a message. The queue (RabbitMQ or Cloudflare Queues) hands a message out
at least once, to any consumer, in any order. A consumer reads the row, takes
its server's turn, puts a request into the server's cell and waits. The cell
sends it over the daemon's WebSocket, stores the acknowledgement and the
outcome, and tells the daemon when it may drop its copy of the outcome. The
consumer reads the outcome from the cell and writes the row. Beside them run
the stale sweep, cancels, progress frames and the correction of late outcomes,
which all write the same row.

The cell also projects connects and closes onto the `server` row, which a cron
sweep under a lease compares with the cell's sockets and with metrics samples.
A managed recovery is a journal row that the consumer advances as the commands
of its fence, its promote and its ingress are answered, and that two more sweeps
end when nobody does.

What is hard: nothing holds a lock from the start of a command to its end.
Every part reads the row in one statement and writes it in a later one; a
consumer may die anywhere, its message comes again, the connection may drop
with frames on it, a request may be taken back while a pump holds it in memory,
and a time limit may run out while the answer is on its way. The hazards, each
at its line, are in `PROJECT.json`.

What makes the parts correct:

* turn: one command at a time per server, in arrival order, and none waits for
  ever or expires because it waited;
* delivery: a finished command stays finished, `succeeded` is never made up, an
  open command keeps its payload, no command is sent twice;
* recovery: the daemon is told to drop only what somebody else holds;
* lanes: one holder per key, the cap is used and never passed, nobody starves;
* sweep lease: one sweeper at a time until it releases, and a dead one stops
  detection only for a bounded time;
* presence: a server that stays up is shown online in the end, one that is gone
  is shown offline;
* managed recovery: never two writable engines, an ended recovery stays ended,
  and every recovery ends.

## 2. Modules

### `OneAtATime` (abstract)

The promise at the head of `server-turn.ts`: each command waits, has the turn,
or is past it; `Start` takes the turn only when nobody has it, `Leave` puts a
set of commands past it (the clock can take several deploys over in one step).

### `ServerTurn`

The rows of one server's commands (`status`, `attempts`, `touched` = age of
`updated_at`, `sentAge`, `expiresIn`, `takenOver` = progress has
`runningSince`), the queue, what each delivery is doing, and who holds the
server row's lock.

| Action | Code |
| --- | --- |
| `Create` | `createCommandRecord` and the enqueue; the enqueue may be lost |
| `TakeFinished`, `TakeExpired`, `TakeResumed`, `TakeOpen` | `loadOpenCommand`, `commandIsExpired`, `resumeIfSent` |
| `LookBusy`, `LookClear` | `blockedAndStamped`, the look without the lock |
| `Lock`, `LockTimeout`, `RecheckClear`, `RecheckBusy`, `Claim`, `StampBusy` | the transaction of `claimServerTurn`, statement by statement |
| `ClaimQuick` | `QUICK_COMMAND_TYPES` skip the line |
| `Send`, `Refuse` | the `sent` write of `enqueueAndAwaitOutcome`; the early ends before it |
| `RetryLater`, `GiveUp`, `DeadLetter`, `PutBackBusy` | `settleFailedDelivery`, `decideRetry`, `failCommandAfterRetries` |
| `Crash`, `Redeliver` | a consumer dies; the queue hands a message out again |
| `TakeOver`, `Finish` | a progress frame; an outcome or a cancel |
| `SweepRead`, `SweepWrite` | `sweepStaleCommands` |
| `Tick` | the clock: ages grow to the longest limit any guard asks about and stay there |

Since ages are capped, the clock never stops and the state space is finite.
`handedOver` is history: deploys the server has taken over at some time. The
refinement mapping `Place` puts a command past its turn when it ended or was
handed over.

The wait between `sent` and the outcome holds no turn state of its own and is
left to `CommandDelivery`; there `Finish` is what ends it.

### `CommandDelivery`

One command: its row, its payload, its message, the runs of the consumer that
process it (`Runs`), the cell's request and outbox, the wire, and the host. One
step is one database statement, one call to the cell, or one frame. Time is
left out: a wait may end at any step, so every order the real limits allow is
there (and some they rule out, which only makes the safety properties
stronger). The exception is the sweep, which needs a row that nobody wrote for
the command's whole limit: it does not read while a run is within its wait
(`Fresh`). `Kind` is what the code tells apart: a deploy, a promotion, a resumed
promotion (`payload.resume`), and any other command.

* A delivery: `Load`, `Expire`, `ResumeSent`, `PayloadMissing`, `Busy`,
  `Claim`, `PayloadRead`, `Refuse`, `Enqueue`, `MarkSent`
  (`processCommandEnvelope` and what it calls, in that order). An expired command
  times out, or fails when it is an apply of a cluster that is gone (`Expired`).
* The wait: `GotAnswer`, `AckDeadline`, `DropConnection`, `AfterDrop`,
  `ExpireUnacked` (`awaitOutcomeWithAckDeadline`: the drop, the second look and the
  take-back are calls of their own), `HandOff`, `Settled`, `WaitOver`,
  `TakeBackOffline`, `TimeOut` (`settleUnansweredCommand`), `Apply`
  (`applyPendingOutcome`). A failure is written as a success only for a resumed
  promotion whose server answers that it already is the writable primary
  (`AlreadyPromoted`).
* Errors: `RetryLater`, `GiveUp`, `LeaveRunning`, `TakeBack`, `FailExhausted`,
  `DeadLetter`, `Crash`, `CleanupFails`.
* The cell: `Pump`, `SendFrame`, `RequeueFrame`, `CellAck`, `CellOutcome`,
  `RequestExpires`, `LoseLink`, `Reconnect`. `batch` is the envelope a pump
  holds in memory across an await: `expireRequest` and a new `enqueue` do not
  reach it. `CellOutcome` stores the outcome and decides on the confirmation in
  one step; `settled` = FALSE is a failure between the two, after which the
  daemon sends the outcome again. Closing a socket recalls nothing: each frame on
  the wire is lost or arrives later (`LinkDown`).
* The host (external, the daemon is another repository): it acknowledges a
  frame, ignores a command id it has seen, keeps its outcome until it is
  confirmed and sends it again, as `command-recovery-v1` in
  `command-recovery.ts` expects. Daemons without that feature are not modelled.
* `SweepRead`/`SweepWrite`, `Cancel`, `FenceRead`/`FenceWrite`, `Finalize` and
  `SweepDispatch`: the other writers of the row and its payload.

`verdict` keeps of `error_message` only what it claims about the host.

### `LaneScheduler`

`createLaneScheduler`. The code runs in one thread, so `Submit` (`run`), `Release`
and `End` (the releaser) are each one step with the whole `pump` at the end.
`Pump` is what the loop comes to, without the loop: how many lanes it shifts off
the list (`Shifts`), which of the shifts start a job (`Starts`) and which job each
one gets (`Place`), a form the provers can work with; `MCLaneScheduler` has TLC
compare it with the loop turn by turn, on every list of up to four lanes, lanes
named twice or without work included. A task that ended stands for the next one of
its key, so work never runs out and starvation would show. The consumer uses the
command id as the key (`deno-consumer.ts`), so lanes cap how many commands run at
once; the order per server is the server turn's.

### `SweepLease`

The row of the `lease` table (`lease`: owner, time left), the invocations of the
cron (`step`, `age` since `startedAtMs`), whether the row is still what each one
read (`fresh`), the cron's clock, and `gap`, history: the time since the lease
was last taken.

| Action | Code |
| --- | --- |
| `CronFires`, `CronDropped` | the platform's minute cron; dropped only when the model has no idle isolate |
| `Insert`, `Read`, `Steal` | the three statements of `tryBeginOfflineSweep`: insert unless there, select, compare and set |
| `AcquireFails`, `AcquireLost` | the acquisition fails before or after its write |
| `LivenessDone`, `LivenessTimesOut` | `runBoundedPhase` races the liveness phase against the deadline |
| `HostLossDone` | `runHostLossAndReturnFenceFirst`, which no deadline bounds |
| `OptionalDone`, `OptionalTimesOut` | the phases after it, started only before the deadline |
| `OverrunDone` | a phase that lost its race is not stopped (`raceWithTimeout`): it runs on (`overrun`) and may be done before the release |
| `End`, `EndFails` | `endOfflineSweep`, which compares the owner |
| `Close` | `endDbConnection`, after the release: what still runs on loses its database |
| `Crash`, `Tick` | the isolate dies; time |

Ages keep counting while an invocation lives, so a host-loss tick may outlive the
lease. The release is bounded like an acquisition, so an overrun phase is under
the lease for at most that long after the deadline. Owner ids are fresh in the
code; in the model an isolate's name comes back only after its invocation ended.

### `Presence`

One server: its `row` (`is_connected`, `offline_reason`, age of
`status_changed_at`), the cell's sockets (`sock`) and memory (`cell`), the
daemon (`host`), the newest metrics sample, the projections in progress (`job`)
and the `sweep`. A projection is two steps, `ProjectRead` and `ProjectWrite`, as
`projectServerDaemon` selects and then updates; the update carries no
condition on what was read. One is in progress per source (a connect or
close of each socket, a frame, the alarm, a patch, the sweep).

* The cell: `Connect` (`#handleWebSocketUpgrade`), `Frame` (`onDaemonInbound`
  past its steady-state return), `CloseEvent` (`#cleanupWebSocket`),
  `AlarmStale`, `Wake` (`#initializeFromStorage`), `Patch`.
* The daemon and the link (external): `Beat`, `Vanish`, `Leave`.
* The sweep: `List`, `AskSkips`, `AskHeals`, `AskProbes`, `Probe`, `SweepEnds`
  (`sweepOnce`, `sweepOnceWithAe`, `sweepOnceFallback`, `probeCandidates`,
  `demoteStale`, `healServers`). The null-grace map is in the memory of an isolate,
  and each tick runs in the last isolate, in another one or in a new one
  (`Isolates`: `null` is the map of the one that runs, `other` that of another).
  `Probe` closes half-open sockets and those past the age cap (`Reaped`).
* Faults: `ProjectFails`, `AskFails`, `ProbeFails`, `SweepDies`.

Two socket names are enough: a third connection takes the name of one whose close
was delivered (`NewName`). A `Patch` is of the build or update state, which writes
back the reason it read, or of the identity, which is built anew without one
(`Carried`). A unit of time is the cron's interval, and what the code bounds below
that (8 s statements, the 45 s sweep) ends within it.

### `ManagedRecovery`

A cluster of an old primary A and a target B; `journal` is its recovery rows,
`cmd` the commands of each row, `host` what the daemons made of them, `line` the
order of the commands of A's server, `primary` the member with the role and
`writers` the engines that accept writes. `driver` is the next step of the
process that holds a row: nothing in the code locks a row from one step to the
next, and the process may die at each (`DriverDies`).

* The fence: `Begin`, `RecordFence`, `PublishDrain`, `PublishStop` and their
  failures, `DrainAnswers`, `StopAnswers`, `StopGivenUp` (`beginRecovery`,
  `enqueueFenceCommands`, `onFenceCommandSucceeded`/`Failed`); `Settlement` is
  `applyFenceSettlement`.
* The promote: `FollowFence`, `EnqueuePromote`, `NotePromote`,
  `PromoteSucceeds`, `ClaimPromote`, `PromoteResumes`, `ResumePromote`,
  `PromoteFails`, `PromoteGivenUp`, `AbortStart`, `AbortEnd`
  (`followFenceAdvance`, `enqueuePromoteOrRecover`, `claimPromoteResult`,
  `resumeInterruptedPromote`, `onSwitchoverPromoteFailed`).
* The ingress: `FanOut`, `FanOutFails`, `IngressSettles`.
* The sweeps: `StaleFenceStep` (`settleRecoveryOfTimedOutCommand`),
  `AbandonDrains`, `DeadlineBlocks`, `CancelSteps` (`sweepStalledFencing`),
  `CheckRestart`, `QueueRestart`, `QueueRestartFails` (`finishAbortRestart`),
  `ExpireStale`.
* The daemons (external): `Send`, `RunOnA`, `PromoteStarts`, `PromoteEnds`.

Abstractions. All drains are one command and so are all ingress commands; the
undrains an abort queues share the fate of its start. A command that ended
keeps no status: what the code reads is its answer. Time is left out, so a
deadline may pass at any step; where the code relies on one limit being longer
than another, a guard says so (below).
The commands of A's server are sent in the order of their rows, which is what
`ServerTurn` shows, and a command that was given up on after it was sent may
still run, which is what `CommandDelivery` shows.

Two constants name what this repository does not decide. `CheckMayFail`: may the
daemon's catch-up check fail on a target that is already promoted.
`SweepStalls`: may a sweep stop between the check in `finishAbortRestart` and
the start it queues for as long as a new recovery takes to begin.

Assumptions on time, which the code's limits make likely and no code enforces:

* A promote is answered, or given up on, only after its id is noted
  (`driver[r] # "note"` in the four actions that end a promote). The enqueue
  (`ha-recovery.ts:432`) and the note (447) are two statements in a row and the
  answer takes the daemon's work; but the note writes the whole metadata from the
  copy read before, so one that came after an answer would take back what the
  answer's handler wrote, a counted resume included.
* When a recovery begins, no promote of an ended one still waits on the target
  (`TargetReady`). The gate (`routes.ts:422-458`) probes the target in a request of
  its own, which does not wait for a promote. The assumption is needed: without it
  TLC finds two writers, when a promote that was given up on starts during the next
  recovery and that one's abort starts A.
* A promote that was not taken up in `PROMOTE_TTL_MS` is not sent after its row
  ended (`Send`), and a process at work on a row makes progress before
  `ExpireStale` would end it.

Three steps merge two of the code. `Send` is the enqueue into the cell and the
`sent_at` write: a fence deadline between them (`ha-recovery.ts:1921`, 1963) would
take a stop that is out for one that never left and not owe A its start, which
leaves A stopped and adds no writer. `StopAnswers` writes the position
(`ha-recovery.ts:1344`) and settles the fence (1348); after a process that died
between them the position is the same when it is written again, and a fence that
nobody settles is left to its deadline, as after one that died before both.
`QueueRestart` queues the start (2103) and settles the row under its lock (2122);
one that dies between them leaves the start owed, and the next sweep, after the
same check, queues it once more.

### MC modules and proofs

`MCServerTurn`, `MCCommandDelivery`, `MCLaneScheduler`, `MCSweepLease`,
`MCPresence` and `MCManagedRecovery` give constants their values;
`ServerTurnProofs` and `TurnOrderProofs` (the turn and its clocks),
`CommandDeliveryProofs`, `LaneSchedulerProofs`, `SweepLeaseProofs`,
`PresenceProofs`, `ManagedRecoveryProofs` and `OneWriterProofs` (the journal and
the writers) hold the theorems.

## 3. What is model-checked

| Run | Instance | Checks |
| --- | --- | --- |
| `turn_exclusive` | a deploy and another command, 2 deliveries, 1 fault, 1.1 M states | `TypeOK`, `TurnExclusive`, `TurnInv`, `ImplementsOneAtATime` |
| `turn_order` | two commands and a quick one, 2 deliveries, 1 retry, 2.8 M states | `WaitingStaysAlive`, `ArrivalOrder` |
| `turn_ends` | two commands, 1 delivery, 1 fault, fairness | `EveryCommandEnds` |
| `delivery_pair` | a resumed promotion, 2 runs, 1 fault, 2.9 M states | `TypeOK`, `SuccessIsTrue`, `NeverLiveAgain` |
| `delivery_deploy` | a deploy, 1 run, 2 attempts, 2 faults, 0.74 M states | `PayloadWhileOpen`, `ConfirmedIsHeld`, `NeverResent` |
| `lanes` | 3 keys, 6 tasks, cap 2 | `TypeOK`, `LaneExclusive`, `NoLaneForgotten`, `EveryTaskStarts` |
| `sweep_lease` | 3 isolates, 2 faults, fairness, 1.2 M states | `TypeOK`, `SweepersAlone`, `SweeperHoldsLease`, `DetectionResumes`, `SweepGoesOn` |
| `presence` | 2 sockets, 2 projections at once, 2 connects or patches, 1 fault, fairness, 0.47 M states | `TypeOK`, `LiveShownOnline`, `DeadShownOffline` |
| `recovery` | 2 recoveries of either kind in a row, 1 resume, 2 restart attempts, 1 fault, fairness, 0.49 M states | `TypeOK`, `OneWriter`, `EndedStays`, `RecoveryEnds` |

Bounds. Two deliveries are enough for every race on the lock: a third only
waits behind one of them. Two commands are enough for exclusion (a violation
is a pair); a command that skips the line is added where order matters. One
fault already gives two copies of a message, a lost one or a dead consumer; the
deploy run has two so that a fault can hit the recovery from another. The time
limits are scaled down but keep their order: in `turn_order` the longest retry
wait (3) is shorter than `OLDER_QUEUED_WAIT_MS` (4), as 10 and 15 minutes are,
and the expiry floor covers the longest busy wait plus a margin. The older of its
two commands in line is never busy, so its last stamp is its creation and 4 is
enough; with three in line a command can be a stamp interval and a busy wait old
before its retries begin, and the proof asks for that sum (section 5). `turn_order`
and `turn_ends` assume a due message is looked at in the same unit of time
(`LookSlack` = 0, `PromptLooks`); the other properties do not. A resumed promotion
stands for the commands other than deploys: it has all their steps and the one
failure that becomes a success; an expired apply of a cluster that is gone, which
fails, is in `delivery_swept`.
`CHECK_DEADLOCK FALSE` in the delivery and recovery runs: a command that ended
and a queue that is empty, or a journal without an open row, really have nothing
left to do.

Three isolates are enough for a holder, one that steals from it and one that
releases late. `CronEarly` is an acquisition long, so that two invocations acquire
at once and the compare and set of the steal is put to use; the real cron leaves
them far apart, which `DetectionResumes` needs in general (section 5). The lease's
limits keep the order of the real ones: an acquisition (8 s) < the tick's budget
(45 s), the budget and a bounded release < the lease, and a cron interval between
the budget and the lease. In `presence` the heal window is longer than what it
takes to call a socket stale and as long as the window of the samples, as 180 s,
90 s and 180 s are, and the age cap is the longest of all, as two hours are; two
moves are a connect and the reconnect, and two projections at once are the race of
any pair. In `recovery` the second row is what a late command of the first one can
hurt; three rows repeat it. That run is of an engine that proves its position
(`Proof`), a catch-up check that does not fail on a promoted target
(`CheckMayFail` = FALSE; TRUE is the run `recovery_resumed`) and a sweep that does
not stall (`SweepStalls` = FALSE).

Fairness. `EveryCommandEnds` assumes that consumers keep working, the
maintenance tick runs the sweep and time passes; nothing is assumed of the
daemon, of cancels or of redelivery. `EveryTaskStarts` assumes that a started
task ends, which the limits of every wait in `consumer.ts` give. `SweepGoesOn`
assumes that the cron fires, time passes and an invocation that does not die
takes its next step: Postgres calls are raced, and the platform ends an
invocation whose host-loss tick hangs. The presence properties assume that a
statement ends, the runtime delivers the close of a closed socket, the cron's
sweep runs and a live daemon pings; nothing is assumed of connects, frames,
alarms and hibernation. `RecoveryEnds` assumes, for each row, that a process that
lives takes its next step, that a command that was sent is answered or given up
on, that the sweeps run every minute and that a queued command is sent in the
end; that a daemon runs what it was sent is not assumed for A.

Properties in one line each:

* `TurnExclusive`: of the commands the server has not taken over, at most one
  is `dispatching` or `sent`.
* `TurnInv`: why (section 5).
* `ImplementsOneAtATime`: every step is one of `OneAtATime` or invisible to it.
* `ArrivalOrder`: a command that starts leaves no older one behind whose message
  is still on its way.
* `WaitingStaysAlive`: a command that only waited has not expired when it is
  looked at.
* `EveryCommandEnds`: also when its message is lost or its consumer dies.
* `NeverLiveAgain`: no writer moves a finished command back.
* `SuccessIsTrue`: `succeeded` means its host said so, or, for a resumed promotion
  alone, that its host answered that it already is the writable primary.
* `PayloadWhileOpen`: no open command has its payload dropped or expiring.
* `ConfirmedIsHeld`: what the daemon was told to drop is in the cell while the
  command is open (while no call has failed and no request ran out of lifetime:
  `faults` = 0).
* `NeverResent`: "Never re-sends" (`awaitOutcomeWithAckDeadline`): while no call has
  failed, a frame is written only for a command its server has not had, that no
  earlier send is waited for and that is not recorded as unacknowledged. It says
  nothing of a frame written before the drop (section 4).
* `LaneExclusive`, `NoLaneForgotten`, `EveryTaskStarts`: see section 1.
* `SweepersAlone`: no two invocations are in a phase that races the deadline, or that
  lost its race and whose invocation has not released the lease yet.
* `SweeperHoldsLease`: the one that is holds the lease, with time left.
* `DetectionResumes`: the lease is never untaken for longer than the lease, two
  cron intervals and an acquisition (the second interval is lost when a holder
  that outlived its lease releases it under a thief's hands).
* `SweepGoesOn`: the liveness phase runs again and again.
* `LiveShownOnline`: a daemon that stays connected is shown online in the end,
  when no statement fails; with a failure it need not be (section 4).
* `DeadShownOffline`: a host that is gone is shown offline in the end, also with
  failures, dead sweeps and samples from before its end. For a socket that never
  answered a ping only the age cap ends it, since its null grace starts anew in
  every isolate.
* `OneWriter`: A and B accept writes together only where the code accepts it (a
  switchover of an engine without a proven position that queued its promote
  without a confirmed stop) or after a row ended whose promote was queued and its
  id never noted (section 4).
* `EndedStays`: no process that still works from what it read brings an ended
  recovery back.
* `RecoveryEnds`: there is always a later moment with no recovery in flight.

## 4. Where the code and its comments disagree

Three runs state what a comment says and TLC shows a behaviour of the code that
does not keep it.

* `delivery_swept`, `UndeliveredNeverRan`: the sweep tells the operator that
  "nothing ran on the host. Safe to run again" when `acked_at` and `started_at`
  are null. For a command other than a deploy nothing writes them before it
  succeeds, so one whose consumer died while it runs is reported so too.
* `presence_inbound`, `InboundRepairs`: "when the sparse Postgres status is
  offline ... treat inbound as an online transition". The steady-state return of
  `onDaemonInbound` comes before any look at the row. When the projection of a
  connect fails for a server that was offline for longer than
  `RECENT_OFFLINE_SWEEP_MS`, no frame and no sweep repairs its row.
* `recovery_resumed`, `OneWriter`: a promote that is queued again after a daemon
  restart and then reports `gtid_wait_error` starts the old primary, although
  its first attempt may have promoted the target. `onSwitchoverPromoteFailed`
  excludes only `target_not_running` after a resume. Whether a promoted target
  can still fail its catch-up check is decided by the daemon.

More that the models reach and no run is spent on:

* Commands. `expireRequest` also takes back a request that was sent when the
  `sent` write failed, or that a pump already holds, so a command failed there
  can still reach its server (`consumer.ts:3933`). `cancelOpenReturnFenceStops`
  ends only the row; a run past its claim goes on to send the stop
  (`command-records.ts:539`). A success stored and confirmed between the wait's
  last look and its `timed_out` write is not corrected (`consumer.ts:951`). A
  second delivery that reads the row after the first one claimed it claims it
  too, and its `sent` write makes a deploy that left the lane hold the turn again,
  beside the command that has started since (`consumer.ts:781`; the deploy must be
  the older of the two). A process that dies between a terminal write and
  `finalizeCommandDispatch` leaves a payload without an expiry, which
  `sweepExpiredCommandDispatch` never selects.
* Late frames. "The connection is dropped first, so a frame still buffered on it
  cannot run later" is the reason given at `consumer.ts:676-678`. The drop is
  `ws.close(4002)` (`do.ts:761-772`), which recalls no frame that was written: TLC
  finds a command failed as unacknowledged that its server starts afterwards, in 14
  steps and without a fault (the frame is sent, the deadline passes, the connection
  is dropped, the request taken back, the failure written, the frame received). An
  acknowledgement that comes between the second look (708) and the take-back (715)
  is lost with the request.
* Sweep lease. The header of `offline-sweep.ts` says that `expiresAt` covers the
  enforced runtime, so a running holder cannot be stolen from. The host-loss
  tick is not raced, so a holder in it can be; `SweepersAlone` and
  `SweeperHoldsLease` are therefore about the raced phases. A phase that lost its
  race is abandoned, not stopped, and may still write between the release
  (`offline-sweep.ts:1867`) and the close of its client (1873), beside the next tick.
* Presence. A patch writes back the `offline_reason` it read, over one that was
  written meanwhile, and one of the identity drops it
  (`postgres-projection.ts:237-250`); the status itself they leave alone. A socket
  that never answered a ping keeps its server online until the age cap when every
  tick runs in a new isolate.
* Recovery. A fence that settles on the stale sweep has no queue: the row stays
  `promoting` without a promote until `expireStaleRecoveries` ends it. With
  `SweepStalls` = TRUE the start that `finishAbortRestart` queues can follow a
  newer recovery's stop, which makes two writers. An automatic failover whose
  drains all failed ends `blocked` with A stopped, because `verifyFenced` wants a
  drain besides the stop. An abort that cannot queue its start ends as "nothing
  changed" with A stopped. A promote whose id was never noted is invisible to
  `expireStaleRecoveries` and may outlive its row (the exception in
  `OneWriter`). A sweeper that dies between the block and the cancel leaves the
  fence's commands open.

## 5. What is proved

All theorems hold for every value of the constants that meets the named
assumptions of the modules (`TurnAssumption`, `DeliveryAssumption`, ...): any
number of commands, deliveries, isolates, recoveries, attempts and faults, and
any time limits, in whatever order. A theorem that needs more says so in its own
ASSUME, and the text below says why the code meets it.

`ServerTurnProofs`

* `TypeCorrect`: `Spec => []TypeOK`.
* `TurnInvHolds`: `Spec => []TurnInv`. `TurnExclusive` alone is not inductive: a
  claim is written in one step and what justifies it was seen in an earlier one.
  The invariant adds that the lock has one owner (`LockHeld`); that from the
  look under the lock to the claim no other command can start holding
  (`FreeStaysClear`: only a claim starts one, and a claim needs the lock); that a
  claimed command has started, so the `sent` write starts nothing
  (`ClaimedStarted`); and that history misses no deploy that left the lane
  (`Remembered`).
* `TurnIsExclusive`: `Spec => []TurnExclusive`, from it.
* `TurnImplementsOneAtATime`: `Spec => ImplementsOneAtATime`; each action is a
  `Start`, a `Leave` or a stutter of `OneAtATime` under `Place`.

`TurnOrderProofs`: what the clocks of the turn are for. Both theorems assume that
no message is lost, copied or dies with its consumer (`MaxFaults` = 0: a command
without a message does lose its place and does expire, which is intended) and
that the first busy delay is not longer than the longest (10 and 30 s). They rest on
`LineInv` (a message belongs to a command that exists and is handed out in time;
older commands exist) and on the four kinds a step can then be of (`LineKinds`).

* `WaitingNeverExpires`: `Spec => []WaitingStaysAlive`, if
  `StampInterval` + `LookSlack` <= `ExpiryMargin` and `StampInterval` +
  `BusyLongestDelay` + `LookSlack` <= `Lifetime`. In the code 30 s and 60 s leave
  30 s for the queue to be late; the shortest lifetime in line is two minutes
  (`daemon.ping`, with one, skips the line). `AliveInv` adds up two clocks: what a
  command has left and the age of its stamp, which a tick moves in opposite
  directions and a stamp never brings below the floor (`Span`); and what it has
  left against the due time of its message. The time a look takes does not matter.
* `StartsInOrder`: `Spec => ArrivalOrder`, if no look spans a tick (`PromptLooks`)
  and there is a `reach` for each attempt, the age a stamp may have when a message
  of that attempt is looked at: at least a stamp interval, a busy wait and the
  lateness; each a retry wait and the lateness beyond the one before; all below
  `OLDER_QUEUED_WAIT_MS` (`Reaches`). The code's limits make 30 + 30 + 5 + 30 + 120 +
  600 = 815 s of 900 s, so 85 s remain for five late messages. A longer retry wait
  or a sixth attempt would break it, and no unit test relates these constants.
  `PlaceInv` keeps the reach; `NobodyAhead` carries what the look under the lock
  found to the claim, as nobody comes back to the line (`WaitingFrom`).

`CommandDeliveryProofs`

* `TypeCorrect`: `Spec => []TypeOK`.
* `NeverLiveAgainHolds`: `Spec => NeverLiveAgain`; every write of a live status
  is guarded by the row being open at that moment.
* `PayloadIsKept`: `Spec => []PayloadWhileOpen`; it is inductive with
  `TypeOK` because no step reopens a command.
* `SuccessIsNeverMadeUp`: `Spec => []SuccessIsTrue`. The strengthening (`Truth`)
  says that every place that carries an answer (the frames on the wire, the
  cell's request, what a run has read) agrees with what the host did, the failure
  that says "already the primary" told apart from all others.
* `ConfirmedIsHeldAlways`: `Spec => []ConfirmedIsHeld`. It is inductive with
  `TypeOK`: no step reopens a finished command, the cell confirms only what it
  stores in the same step, and only a fault removes what it stored while the
  command is open.
* `SentOnceAlways`: `Spec => []SentOnce`, which `NeverResent` needs. While no
  call has failed the command has one message, on the queue or with one delivery
  (`OneMessage`); where that delivery is says what the cell holds and whether a
  frame can have been written (`Placed`), and so does the row once it is gone
  (`Recorded`). Nothing rests on a drop taking back a frame.
* `NeverResentHolds`: `Spec => NeverResent`, from it: what a pump may send was
  enqueued by the one delivery and has not been sent, taken back or received.

`LaneSchedulerProofs`

* `LaneInvariant`: `Spec => []LInv`. `LInv` says that a lane's list holds tasks of
  its own; that a running lane has one holder and another none; that the ready
  list names the idle lanes that have work, once each; that `active` counts the
  running lanes; and that a lane is ready only at the cap. The pump breaks the
  last part in the middle of a call and restores it at the end: since its list
  names no lane twice, a call with one free slot or one new lane starts at most
  one job.
* `LaneTypeOK`, `LanesAreExclusive` and `NoLaneIsForgotten`, from it, for any
  tasks, keys and cap.

`SweepLeaseProofs` (assumption: `AcquireTime` < `Budget`, and `Budget` + `AcquireTime` <
`LeaseTime`)

* `LeaseInvariant`: `Spec => []IInv`. `SweepersAlone` alone is not inductive: an
  invocation that steals must be known to take nothing from a sweeper. `IInv` adds
  that an acquisition, a raced phase and the release after a lost race keep their
  limits (`InTime`); that an invocation before its deadline owns the lease, and
  that its age and the time left add up to `LeaseTime` (`WorkerOwns`, which holds
  through the host-loss tick too, so that the phases after it may start); and that
  what is about to be stolen is still free or expired (`StillStealable`).
* `LeaseTypeOK`, `HolderKeepsLease` and `OneSweeper`, from it; nothing is said of
  a phase that runs on after the release.
* `DetectionResumesInTime`: `Spec => []DetectionResumes`, if `AcquireTime` <
  `CronEarly`: an acquisition (8 s) is over before the minute cron fires again, so
  only the last invocation acquires (`LastFired`). `GapBound` bounds the time
  since the lease was last taken by the cron's clock, plus the lease if it was
  held, plus one interval if an invocation is under way that takes it unless it
  fails or a holder that outlived its lease releases under its hands. Without the
  assumption overlapping acquisitions can spoil one another and the bound is
  false.

`PresenceProofs`

* `PresenceTypeOK`: `Spec => []TypeOK`.

`ManagedRecoveryProofs`

* `RecoveryInvariant`: `Spec => []IInv`. `EndedStays` needs more than the type:
  `updateRecovery` writes `promoting` without a look at the row, so it must be
  known that nobody ended the row since its writer looked. `Held` says that a
  process about to queue a promote holds a row that is `promoting` and has none
  that could still be answered, that one about to note it holds a `promoting`
  row, that a resume is within its limit, and that a fencing row has no promote;
  `Fresh` that a recovery that has not begun has none either.
* `RecoveryTypeOK` and `RecoveryStaysEnded` (`Spec => EndedStays`), from it: for
  any number of recoveries, resumes, attempts and faults, both kinds of
  recovery, and every choice of `Proof`, `CheckMayFail` and `SweepStalls`.

`OneWriterProofs`

* `RecoveryOneWriter`: `Spec => []OneWriter` for any number of recoveries, resumes,
  attempts and faults and both kinds of engine, if `~CheckMayFail` and
  `~SweepStalls`. Both are needed: without the first the run `recovery_resumed`
  makes two writers, without the second TLC does (section 4). B writes once a
  promote runs and never stops; A writes again only when a start runs. So once a
  promote may run (`Armed`) no start may be on its way or about to be queued
  (`Main`). The order of A's line gives the rest: a promote is queued after its
  recovery's stop ran on A, by then every older start has run (`Before`, `Turn`)
  and none follows (`FencedQuiet`); a start is queued only by a switchover whose
  promote never started and which began when no older promote could run
  (`EarlierDead`, `NotYet`). `Local` says what a row, its process, its commands and
  their fate on the hosts tell of one another, also where the code has let a promote
  go unproven or unnoted (`Excused`), after which nothing is claimed.

Only model-checked: the liveness properties (`EveryCommandEnds`,
`EveryTaskStarts`, `SweepGoesOn`, `LiveShownOnline`, `DeadShownOffline`,
`RecoveryEnds`), which need fairness and ENABLED; and that the closed form of the
lanes' pump is its loop, an induction over a sequence. Every invariant and every
action property of a passing run is a theorem.

## 6. Not modelled

* Side effects of an outcome on other tables (deployments, managed members,
  fabric, backups), the execution log and the settling of step plans.
* The clocks of a deploy's wait (`deployWaitVerdict`) and of its staleness
  (`isStaleDeploy`): any of them may pass at any time.
* Several requests in one cell, and the Redis cell, whose `markSent` can write
  `sent` over an answer and which has no `expireRequest`.
* A server whose row is gone: `claimServerTurn` then locks nothing; its commands
  are failed right after.
* The daemon, the queue and Postgres beyond what the code relies on.
* Of presence: batches of servers, mass-disconnect damping, fleet counts and the
  later phases of the tick.
* Of managed recovery: an offline primary (host loss, boot hold, return fence and
  the primary epoch), disaster recovery, the forced switchover, the cooldown and
  clusters with more than one replica to re-point.

The map covers a small share of the repository's lines. Most of them are request
handlers over one row, schemas, generated OpenAPI text, compilers of compose
files and front ends: a reader and a writer of one transaction, with no protocol
between processes for a model to check. `PROJECT.json` gives the reason for each
part.

## 7. Plan

In order; each with its MC module, runs and, where marked, proofs.

1. `DeployWait`: the two clocks of `deployWaitVerdict`, hand-offs and staleness
   of a deploy on one clock with the sweep; that a deploy its server still works
   on is neither timed out nor swept before its limit.
2. `CommandProgress`: `recordCommandProgress` against `noteCommandAlive`, each a
   read and a write: that no report moves a plan back or loses the take-over.
3. `DaemonCell` (proofs): several requests, the outbox lease, the pump and
   several sockets; an abstract request table that both the Durable Object and
   the Redis cell should implement, and where the Redis cell does not.
4. `HostLoss`: the decision on a lost host, the boot hold, the primary epoch and
   the return fence, composed with `ManagedRecovery`; one primary per epoch.
5. `UpgradeCoordinator` and `Rollout`: batches, retries and generations.
6. The note of a promote as a step that may come after the answer, and the probe of
   the promote gate as a request of its own: what is left of `OneWriter` without the
   two assumptions on time.
7. Proofs: that `ConfirmedIsHeld` and `NeverResent` survive the faults that do
   not touch the calls they rest on, and safety of the presence row beside its
   type (what evidence stands behind an online write).
