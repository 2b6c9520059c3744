-------------------------- MODULE CommandDelivery --------------------------
(***************************************************************************)
(* One command from its row to its host and back (features/commands/       *)
(* consumer.ts, command-records.ts, command-recovery.ts, stale-sweep.ts,   *)
(* delivery-failure.ts and the request table of daemon/cell/do.ts).        *)
(*                                                                         *)
(* The runs of the queue consumer, the stale sweep, cancels, the cell and  *)
(* the host each do one database statement, one call to the cell or one    *)
(* frame at a time, in any order.  Time is left out: a wait may end at any *)
(* step, so every limit of the code is some behaviour here.  Which command *)
(* of the server may start is ServerTurn's subject; here a claim finds the *)
(* turn free or busy.                                                      *)
(***************************************************************************)
EXTENDS Integers, FiniteSets

CONSTANTS
    Runs,         \* deliveries of the command's message that run at once
    Kind,         \* "deploy" (environment.deploy), "promote" (managed.promote), "resume"
                  \* (one whose payload says resume), "other"
    MaxAttempt,   \* the tries of COMMAND_RETRY_DELAYS_SECONDS, plus the first
    MaxFaults     \* bound on errors, crashes, copies and lost connections

ASSUME DeliveryAssumption ==
    /\ Kind \in {"deploy", "promote", "resume", "other"}
    /\ MaxAttempt \in Nat \ {0}
    /\ MaxFaults \in Nat

VARIABLES
    status,     \* command.status
    claims,     \* how often it was claimed; tells two dispatch_started_at apart
    sentAt,     \* command.sent_at is set
    started,    \* command.acked_at or command.started_at is set
    verdict,    \* command.error_message, as far as it says what happened on the host
    payload,    \* the dispatch row: "kept", "expiring" (expires_at set) or "gone"
    cleanup,    \* what finalizeCommandDispatch will do after terminal writes it has not followed
    queue,      \* attempts of the messages on the command queue
    run,        \* what each delivery is doing
    request,    \* the cell's request row: its status, "none" when there is none
    outbox,     \* its delivery_status: "queued", "inflight" or "done"
    batch,      \* the envelope a pump of the outbox holds in memory: none, the
                \* request's current delivery, or one that has been replaced or deleted
    link,       \* the daemon is connected
    toHost,     \* the dispatch frame is on the wire
    fromHost,   \* frames on the wire to the cell
    host,       \* external: what the server did with the command
    kept,       \* external: the server still keeps its outcome for the cell
    sweepSaw,   \* what the stale sweep read before its write
    fenceSaw,   \* cancelOpenReturnFenceStops has read the row as open
    faults      \* faults so far

row == <<status, claims, sentAt, started, verdict>>
dispatch == <<payload, cleanup>>
cell == <<request, outbox, batch>>
wire == <<link, toHost, fromHost>>
server == <<host, kept>>
sweeps == <<sweepSaw, fenceSaw>>
vars == <<row, dispatch, queue, run, cell, wire, server, sweeps, faults>>

-----------------------------------------------------------------------------
Deploy == Kind = "deploy"

Terminal == {"succeeded", "failed", "timed_out", "cancelled"}
Live == {"dispatching", "sent"}
Statuses == {"queued"} \cup Live \cup Terminal
\* "writable" is the failure isAlreadyWritablePrimaryPromoteError knows: the host
\* already is the primary it was to become.
Answered == {"done", "failed", "writable"}
Requests == {"none", "queued", "sent", "acked"} \cup Answered
Verdicts == {"none", "other", "undelivered", "in_flight", "exhausted", "unacked",
             "resynced"}

\* finalizeCommandDispatch: a success drops the payload, any other end gives it an
\* expiry, at which the maintenance sweep drops it.
Cleanups == {"drop", "expire"}
CleanupOf(s) == IF s = "succeeded" THEN "drop" ELSE "expire"

\* Steps of processCommandEnvelope, in order; `answer' holds a pending outcome.
Places == {"idle", "loaded", "resend", "claimed", "ready", "enqueued", "waiting", "suspect",
           "dropped", "takeback", "offline", "timing", "answer", "leave", "giveup", "exhausted"}
Idle == [at |-> "idle", attempt |-> 1, seen |-> "queued", claims |-> 0,
         deadline |-> FALSE, got |-> "none"]
RunStates == [at : Places, attempt : 1 .. MaxAttempt, seen : Statuses, claims : Nat,
              deadline : BOOLEAN, got : {"none", "unacked"} \cup Answered]

\* The state is well typed.
TypeOK ==
    /\ status \in Statuses
    /\ claims \in Nat
    /\ sentAt \in BOOLEAN
    /\ started \in BOOLEAN
    /\ verdict \in Verdicts
    /\ payload \in {"kept", "expiring", "gone"}
    /\ cleanup \subseteq Cleanups
    /\ queue \subseteq 1 .. MaxAttempt
    /\ run \in [Runs -> RunStates]
    /\ request \in Requests
    /\ outbox \in {"queued", "inflight", "done"}
    /\ batch \in {"none", "current", "old"}
    /\ link \in BOOLEAN
    /\ toHost \in BOOLEAN
    /\ fromHost \subseteq {"ack"} \cup Answered
    /\ host \in {"new", "running"} \cup Answered
    /\ kept \in BOOLEAN
    /\ sweepSaw \in {"none", "undelivered", "in_flight"}
    /\ fenceSaw \in BOOLEAN
    /\ faults \in Nat

\* createCommandRecord writes the row and its payload in one transaction, then the
\* message is queued.
Init ==
    /\ status = "queued"
    /\ claims = 0
    /\ sentAt = FALSE
    /\ started = FALSE
    /\ verdict = "none"
    /\ payload = "kept"
    /\ cleanup = {}
    /\ queue = {1}
    /\ run = [d \in Runs |-> Idle]
    /\ request = "none"
    /\ outbox = "done"
    /\ batch = "none"
    /\ link = TRUE
    /\ toHost = FALSE
    /\ fromHost = {}
    /\ host = "new"
    /\ kept = FALSE
    /\ sweepSaw = "none"
    /\ fenceSaw = FALSE
    /\ faults = 0

Open == status \notin Terminal

Fault == faults < MaxFaults /\ faults' = faults + 1

Go(d, place) == run' = [run EXCEPT ![d].at = place]
Done(d) == run' = [run EXCEPT ![d] = Idle]

\* The row as this delivery read it is not looked at again.
Forget(d, place, deadline) ==
    run' = [run EXCEPT ![d].at = place, ![d].seen = "queued", ![d].claims = 0,
                       ![d].deadline = deadline]

\* transitionCommand to a terminal status: by id alone, whatever the row says now.
\* A write without an error text ("same") leaves the one that is there.  What
\* follows it, finalizeCommandDispatch, is a statement of its own.
End(s, v) ==
    /\ status' = s
    /\ verdict' = IF v = "same" THEN verdict ELSE v
    /\ started' = (started \/ s = "succeeded")
    /\ cleanup' = cleanup \cup {CleanupOf(s)}
    /\ UNCHANGED <<claims, sentAt, payload>>

\* deployWaitMessage: a deploy that is timed out says why, another command does not.
TimedOutText == IF Deploy THEN "other" ELSE "same"

Finalize(c) ==
    /\ c \in cleanup
    /\ cleanup' = cleanup \ {c}
    /\ payload' = IF c = "drop" \/ payload = "gone" THEN "gone" ELSE "expiring"
    /\ UNCHANGED <<row, queue, run, cell, wire, server, sweeps, faults>>

SweepDispatch ==
    /\ payload = "expiring"
    /\ payload' = "gone"
    /\ UNCHANGED <<row, cleanup, queue, run, cell, wire, server, sweeps, faults>>

-----------------------------------------------------------------------------
(* A delivery: processCommandEnvelope.                                     *)

Loaded(a) == [at |-> "loaded", attempt |-> a, seen |-> status, claims |-> claims,
              deadline |-> FALSE, got |-> "none"]

\* loadOpenCommand reads the row; a finished command's message is done with.
Load(d, a) ==
    /\ run[d].at = "idle"
    /\ a \in queue
    /\ queue' = queue \ {a}
    /\ IF Open THEN run' = [run EXCEPT ![d] = Loaded(a)] ELSE UNCHANGED run
    /\ UNCHANGED <<row, dispatch, cell, wire, server, sweeps, faults>>

\* The row that was read is past its expiry; an apply of a cluster that is gone
\* fails instead (failExpiredManagedApplyWhenClusterGone).
Expired ==
    \/ End("timed_out", "same")
    \/ Kind = "other" /\ End("failed", "other")

Expire(d) ==
    /\ run[d].at = "loaded"
    /\ Expired
    /\ Done(d)
    /\ UNCHANGED <<queue, cell, wire, server, sweeps, faults>>

\* Mutant: the request that is out is not looked up before the command is sent again.
ResendUnlooked(d) ==
    /\ run[d].at = "loaded"
    /\ run[d].seen = "sent"
    /\ payload # "gone"
    /\ Go(d, "resend")
    /\ UNCHANGED <<row, dispatch, queue, cell, wire, server, sweeps, faults>>

\* resumeIfSent: wait on for the request that is out; a deploy whose request is gone
\* is given up on, any other command is sent again.
ResumeSent(d) ==
    /\ run[d].at = "loaded"
    /\ run[d].seen = "sent"
    /\ payload # "gone"
    /\ \/ /\ request # "none"
          /\ Forget(d, "waiting", ~Deploy /\ request = "sent")
          /\ UNCHANGED <<row, cleanup>>
       \/ request = "none" /\ Deploy /\ End("timed_out", TimedOutText) /\ Done(d)
       \/ request = "none" /\ ~Deploy /\ Go(d, "resend") /\ UNCHANGED <<row, cleanup>>
    /\ UNCHANGED <<payload, queue, cell, wire, server, sweeps, faults>>

\* attachDispatchPayload without a payload fails the command.
PayloadMissing(d) ==
    /\ \/ run[d].at \in {"claimed", "leave", "giveup"}
       \/ run[d].at = "loaded" /\ run[d].seen = "sent"
    /\ payload = "gone"
    /\ End("failed", "other")
    /\ Done(d)
    /\ UNCHANGED <<queue, cell, wire, server, sweeps, faults>>

Claimable(d) == run[d].at = "resend" \/ (run[d].at = "loaded" /\ run[d].seen # "sent")

\* ServerBusyError: the message goes back and the attempt is not counted.
Busy(d) ==
    /\ Claimable(d)
    /\ queue' = queue \cup {run[d].attempt}
    /\ Done(d)
    /\ UNCHANGED <<row, dispatch, cell, wire, server, sweeps, faults>>

\* Mutant: the claim does not look whether the command has finished meanwhile.
ClaimFinished(d) ==
    /\ Claimable(d)
    /\ status' = "dispatching"
    /\ claims' = run[d].claims + 1
    /\ Go(d, IF run[d].at = "resend" THEN "ready" ELSE "claimed")
    /\ UNCHANGED <<sentAt, started, verdict, dispatch, queue, cell, wire, server, sweeps, faults>>

\* markClaimed: only if the row is as this delivery read it.
Claim(d) ==
    /\ Claimable(d)
    /\ \/ /\ status = run[d].seen
          /\ Open
          /\ claims = run[d].claims
          /\ status' = "dispatching"
          /\ claims' = run[d].claims + 1
          /\ Forget(d, IF run[d].at = "resend" THEN "ready" ELSE "claimed", FALSE)
          /\ UNCHANGED <<sentAt, started, verdict>>
       \/ /\ status # run[d].seen \/ claims # run[d].claims
          /\ Done(d)
          /\ UNCHANGED row
    /\ UNCHANGED <<dispatch, queue, cell, wire, server, sweeps, faults>>

PayloadRead(d) ==
    /\ run[d].at = "claimed"
    /\ payload # "gone"
    /\ Go(d, "ready")
    /\ UNCHANGED <<row, dispatch, queue, cell, wire, server, sweeps, faults>>

\* failSupersededReseed, ensureServerAndDaemonOnline: it cannot be delivered.
Refuse(d) ==
    /\ run[d].at \in {"claimed", "ready"}
    /\ End("failed", "other")
    /\ Done(d)
    /\ UNCHANGED <<queue, cell, wire, server, sweeps, faults>>

\* The envelope a pump holds is no longer the request's own.
Superseded == IF batch = "current" THEN "old" ELSE batch

\* cell.enqueue: an answered request is not sent again; one that is out is sent
\* again, as a new delivery, and keeps its status.
Enqueue(d) ==
    /\ run[d].at = "ready"
    /\ Go(d, "enqueued")
    /\ request' = IF request = "none" THEN "queued" ELSE request
    /\ outbox' = IF request \in Answered THEN outbox ELSE "queued"
    /\ batch' = IF request \in Answered THEN batch ELSE Superseded
    /\ UNCHANGED <<row, dispatch, queue, wire, server, sweeps, faults>>

\* The `sent' write does nothing to a finished row; the run waits either way.
MarkSent(d) ==
    /\ run[d].at = "enqueued"
    /\ status' = IF Open THEN "sent" ELSE status
    /\ sentAt' = (sentAt \/ Open)
    /\ run' = [run EXCEPT ![d].at = "waiting", ![d].deadline = TRUE]
    /\ UNCHANGED <<claims, started, verdict, dispatch, queue, cell, wire, server, sweeps, faults>>

-----------------------------------------------------------------------------
(* The wait: awaitCommandOutcome.                                          *)

Answer(d, got) == run' = [run EXCEPT ![d].at = "answer", ![d].got = got]

GotAnswer(d) ==
    /\ run[d].at = "waiting"
    /\ request \in Answered
    /\ Answer(d, request)
    /\ UNCHANGED <<row, dispatch, queue, cell, wire, server, sweeps, faults>>

\* awaitOutcomeWithAckDeadline: sent and not acknowledged when the deadline comes.
AckDeadline(d) ==
    /\ run[d].at = "waiting"
    /\ run[d].deadline
    /\ IF request = "sent" THEN Go(d, "suspect")
       ELSE run' = [run EXCEPT ![d].deadline = FALSE]
    /\ UNCHANGED <<row, dispatch, queue, cell, wire, server, sweeps, faults>>

\* ws.close: the pump's batch was meant for this connection.  A frame already written
\* on it is not recalled: what is on the wire, either way, may still arrive.
LinkDown ==
    /\ link' = FALSE
    /\ toHost' \in {FALSE, toHost}
    /\ fromHost' \in SUBSET fromHost
    /\ batch' = "none"

\* dropDaemonConnection; an error in it is ignored.
DropConnection(d) ==
    /\ run[d].at = "suspect"
    /\ Go(d, "dropped")
    /\ \/ LinkDown /\ UNCHANGED faults
       \/ Fault /\ UNCHANGED <<wire, batch>>
    /\ UNCHANGED <<row, dispatch, queue, request, outbox, server, sweeps>>

\* expireRequest deletes the request unless it is answered.
TakenBack ==
    /\ request' = IF request \in Answered THEN request ELSE "none"
    /\ outbox' = "done"
    /\ batch' = IF request \in Answered THEN batch ELSE Superseded

\* getRequest once more: the acknowledgement or the answer may have come while the
\* connection was being dropped.
AfterDrop(d) ==
    /\ run[d].at = "dropped"
    /\ \/ /\ request \in {"queued", "acked"}
          /\ run' = [run EXCEPT ![d].at = "waiting", ![d].deadline = FALSE]
       \/ request \in Answered /\ Answer(d, request)
       \/ request \in {"sent", "none"} /\ Go(d, "takeback")
    /\ UNCHANGED <<row, dispatch, queue, cell, wire, server, sweeps, faults>>

\* expireRequest takes the request back, acknowledged since or not; one answered since
\* counts after all.  An error in the call is ignored.
ExpireUnacked(d) ==
    /\ run[d].at = "takeback"
    /\ \/ /\ TakenBack
          /\ Answer(d, IF request \in Answered THEN request ELSE "unacked")
          /\ UNCHANGED faults
       \/ Fault /\ Answer(d, "unacked") /\ UNCHANGED cell
    /\ UNCHANGED <<row, dispatch, queue, wire, server, sweeps>>

\* The hold is over: the message goes back with a fresh count and this run lets go.
\* A deploy's run also lets go when it reads that the row is finished.
HandOff(d) ==
    /\ run[d].at = "waiting"
    /\ request \in {"queued", "sent", "acked"}
    /\ Deploy => Open
    /\ queue' = queue \cup {1}
    /\ Done(d)
    /\ UNCHANGED <<row, dispatch, cell, wire, server, sweeps, faults>>

Settled(d) ==
    /\ run[d].at = "waiting"
    /\ Deploy
    /\ ~Open
    /\ request \notin Answered
    /\ Done(d)
    /\ UNCHANGED <<row, dispatch, queue, cell, wire, server, sweeps, faults>>

\* The last look found no answer and the limit is past (settleUnansweredCommand).
WaitOver(d) ==
    /\ run[d].at = "waiting"
    /\ request \notin Answered
    /\ Deploy => Open
    /\ Go(d, IF Deploy /\ request = "queued" THEN "offline" ELSE "timing")
    /\ UNCHANGED <<row, dispatch, queue, cell, wire, server, sweeps, faults>>

\* A deploy that never reached its server is taken back first; an error in it, or
\* an answer that is there after all, is ignored.
TakeBackOffline(d) ==
    /\ run[d].at = "offline"
    /\ Go(d, "timing")
    /\ (TakenBack /\ UNCHANGED faults) \/ (Fault /\ UNCHANGED cell)
    /\ UNCHANGED <<row, dispatch, queue, wire, server, sweeps>>

TimeOut(d) ==
    /\ run[d].at = "timing"
    /\ End("timed_out", TimedOutText)
    /\ Done(d)
    /\ UNCHANGED <<queue, cell, wire, server, sweeps, faults>>

\* Mutant: any failure of a resumed promotion is taken for "already the primary".
ApplyPromoted(d) ==
    /\ run[d].at = "answer"
    /\ \/ run[d].got = "done" /\ End("succeeded", "same")
       \/ run[d].got # "done" /\ Kind # "resume" /\ End("failed", "other")
       \/ run[d].got # "done" /\ Kind = "resume" /\ End("succeeded", "same")
    /\ Done(d)
    /\ UNCHANGED <<queue, cell, wire, server, sweeps, faults>>

\* tryCompleteResumePromoteAsAlreadyWritable: a resumed promotion of a server that
\* answers that it already is the writable primary.
AlreadyPromoted(got) == Kind = "resume" /\ got = "writable"

\* applyPendingOutcome.  A deploy its host stopped on request is cancelled.
Apply(d) ==
    /\ run[d].at = "answer"
    /\ \/ /\ run[d].got = "done" \/ AlreadyPromoted(run[d].got)
          /\ End("succeeded", "same")
       \/ /\ run[d].got \in {"failed", "writable"} /\ ~AlreadyPromoted(run[d].got)
          /\ End("failed", "other")
       \/ run[d].got = "failed" /\ Deploy /\ End("cancelled", "other")
       \/ run[d].got = "unacked" /\ End("failed", "unacked")
    /\ Done(d)
    /\ UNCHANGED <<queue, cell, wire, server, sweeps, faults>>

-----------------------------------------------------------------------------
(* Errors: settleFailedDelivery.                                           *)

\* Mutant: one try too many.
RetryOnceMore(d) ==
    /\ run[d].at \notin {"idle", "leave", "giveup", "exhausted"}
    /\ run[d].attempt <= MaxAttempt
    /\ Fault
    /\ queue' = queue \cup {run[d].attempt + 1}
    /\ Done(d)
    /\ UNCHANGED <<row, dispatch, cell, wire, server, sweeps>>

\* decideRetry: the message goes back with the next attempt.
RetryLater(d) ==
    /\ run[d].at \notin {"idle", "leave", "giveup", "exhausted"}
    /\ run[d].attempt < MaxAttempt
    /\ Fault
    /\ queue' = queue \cup {run[d].attempt + 1}
    /\ Done(d)
    /\ UNCHANGED <<row, dispatch, cell, wire, server, sweeps>>

\* failCommandAfterRetries reads the row, which may be finished or past its expiry.
GiveUp(d) ==
    /\ run[d].at \notin {"idle", "leave", "giveup", "exhausted"}
    /\ run[d].attempt = MaxAttempt
    /\ Fault
    /\ \/ ~Open /\ Done(d) /\ UNCHANGED <<row, cleanup>>
       \/ Open /\ Done(d) /\ Expired
       \/ Open /\ Go(d, IF sentAt THEN "leave" ELSE "giveup") /\ UNCHANGED <<row, cleanup>>
    /\ UNCHANGED <<payload, queue, cell, wire, server, sweeps>>

\* A command that was sent is left for the stale sweep.
LeaveRunning(d) ==
    /\ run[d].at = "leave"
    /\ payload # "gone"
    /\ Done(d)
    /\ UNCHANGED <<row, dispatch, queue, cell, wire, server, sweeps, faults>>

\* Any other has its request taken back first; one already answered, or that
\* could not be taken back, is not this run's to fail.
TakeBack(d) ==
    /\ run[d].at = "giveup"
    /\ payload # "gone"
    /\ \/ /\ TakenBack
          /\ UNCHANGED faults
          /\ IF request \in Answered THEN Done(d) ELSE Go(d, "exhausted")
       \/ Fault /\ Done(d) /\ UNCHANGED cell
    /\ UNCHANGED <<row, dispatch, queue, wire, server, sweeps>>

FailExhausted(d) ==
    /\ run[d].at = "exhausted"
    /\ End("failed", "exhausted")
    /\ Done(d)
    /\ UNCHANGED <<queue, cell, wire, server, sweeps, faults>>

\* A permanent error, or the give-up itself fails: the dead-letter queue.
DeadLetter(d) ==
    /\ run[d].at # "idle"
    /\ Fault
    /\ Done(d)
    /\ UNCHANGED <<row, dispatch, queue, cell, wire, server, sweeps>>

\* The process dies: the broker hands the message out again.
Crash(d) ==
    /\ run[d].at # "idle"
    /\ Fault
    /\ queue' = queue \cup {run[d].attempt}
    /\ Done(d)
    /\ UNCHANGED <<row, dispatch, cell, wire, server, sweeps>>

\* It dies between a terminal write and its cleanup, or both stamps fail.
CleanupFails(c) ==
    /\ c \in cleanup
    /\ Fault
    /\ cleanup' = cleanup \ {c}
    /\ UNCHANGED <<row, payload, queue, run, cell, wire, server, sweeps>>

\* An at-least-once queue hands a message out twice.
Redeliver ==
    /\ Fault
    /\ queue' = queue \cup {1}
    /\ UNCHANGED <<row, dispatch, run, cell, wire, server, sweeps>>

-----------------------------------------------------------------------------
(* The cell's request row and outbox (Durable Object).                     *)

\* pumpOutboxToDaemonSockets reads the batch into memory, ...
Pump ==
    /\ link
    /\ outbox = "queued"
    /\ batch = "none"
    /\ outbox' = "inflight"
    /\ batch' = "current"
    /\ UNCHANGED <<row, dispatch, queue, run, request, wire, server, sweeps, faults>>

\* ... then sends each envelope and marks its delivery sent (markSent, ackOutbox),
\* whether or not the request is still there.
SendFrame ==
    /\ batch # "none"
    /\ link
    /\ toHost' = TRUE
    /\ batch' = "none"
    /\ outbox' = IF batch = "current" THEN "done" ELSE outbox
    /\ request' = IF batch = "current" /\ request = "queued" THEN "sent" ELSE request
    /\ UNCHANGED <<row, dispatch, queue, run, link, fromHost, server, sweeps, faults>>

\* The send failed or the batch's lease ran out: requeueOutbox tries the delivery
\* again, or buries it after its last retry.
RequeueFrame ==
    /\ outbox = "inflight"
    /\ batch = "none"
    /\ outbox' \in {"queued", "done"}
    /\ UNCHANGED <<row, dispatch, queue, run, request, batch, wire, server, sweeps, faults>>

CellAck ==
    /\ "ack" \in fromHost
    /\ fromHost' = fromHost \ {"ack"}
    /\ request' = IF request \in {"queued", "sent"} THEN "acked" ELSE request
    /\ UNCHANGED <<row, dispatch, queue, run, outbox, batch, link, toHost, server, sweeps, faults>>

\* handleInbound stores the outcome unless the request is gone or answered, then
\* ackForReportedOutcome decides whether the server may drop its copy: a deploy timed
\* out that really succeeded is corrected first.  If the database or the
\* confirmation fails (~settled) the server keeps it.
Corrects(o) == status = "timed_out" /\ Deploy /\ o = "done"

\* Mutant: the server is told to drop its copy of an outcome nobody stored.
ConfirmUnstored(o, settled) ==
    /\ o \in fromHost
    /\ fromHost' = fromHost \ {o}
    /\ request' = IF request \in {"none"} \cup Answered THEN request ELSE o
    /\ outbox' = IF request = "none" THEN outbox ELSE "done"
    /\ kept' = (kept /\ ~settled)
    /\ UNCHANGED <<row, dispatch, queue, run, batch, link, toHost, host, sweeps, faults>>

CellOutcome(o, settled) ==
    /\ o \in fromHost
    /\ fromHost' = fromHost \ {o}
    /\ request' = IF request \in {"none"} \cup Answered THEN request ELSE o
    /\ outbox' = IF request = "none" THEN outbox ELSE "done"
    /\ kept' = (kept /\ ~(settled /\ (~Open \/ request # "none")))
    /\ IF settled /\ Corrects(o)
       THEN /\ status' = "succeeded"
            /\ started' = TRUE
            /\ verdict' = "none"
            /\ cleanup' = cleanup \cup {CleanupOf("succeeded")}
       ELSE UNCHANGED <<status, started, verdict, cleanup>>
    /\ UNCHANGED <<claims, sentAt, payload, queue, run, batch, link, toHost, host, sweeps, faults>>

\* The request's lifetime ends; runAlarmCleanup deletes it.
RequestExpires ==
    /\ request # "none"
    /\ Fault
    /\ request' = "none"
    /\ outbox' = "done"
    /\ batch' = Superseded
    /\ UNCHANGED <<row, dispatch, queue, run, wire, server, sweeps>>

\* The connection is lost, and made again.
LoseLink ==
    /\ link
    /\ Fault
    /\ LinkDown
    /\ UNCHANGED <<row, dispatch, queue, run, request, outbox, server, sweeps>>

Reconnect ==
    /\ ~link
    /\ link' = TRUE
    /\ UNCHANGED <<row, dispatch, queue, run, cell, toHost, fromHost, server, sweeps, faults>>

-----------------------------------------------------------------------------
(* The host (external: the daemon is not in this repository).  It acks a   *)
(* frame at once, ignores a command id it has seen, and keeps its outcome  *)
(* until the cell confirms it (command-recovery-v1).                       *)

HostReceive ==
    /\ toHost
    /\ toHost' = FALSE
    /\ host' = IF host = "new" THEN "running" ELSE host
    /\ \/ fromHost' = fromHost \cup {"ack"}
       \/ ~link /\ UNCHANGED fromHost
    /\ UNCHANGED <<row, dispatch, queue, run, cell, link, kept, sweeps, faults>>

HostFinish(o) ==
    /\ host = "running"
    /\ o = "writable" => Kind \in {"promote", "resume"}
    /\ host' = o
    /\ kept' = TRUE
    /\ fromHost' = IF link THEN fromHost \cup {o} ELSE fromHost
    /\ UNCHANGED <<row, dispatch, queue, run, cell, link, toHost, sweeps, faults>>

HostReports ==
    /\ kept
    /\ link
    /\ host \in Answered \ fromHost
    /\ fromHost' = fromHost \cup {host}
    /\ UNCHANGED <<row, dispatch, queue, run, cell, link, toHost, server, sweeps, faults>>

\* A `command-progress' frame says the deploy is running: the row's started_at.
HostProgress ==
    /\ Deploy
    /\ host = "running"
    /\ link
    /\ Open
    /\ ~started
    /\ started' = TRUE
    /\ UNCHANGED <<status, claims, sentAt, verdict, dispatch, queue, run, cell, wire, server,
                   sweeps, faults>>

-----------------------------------------------------------------------------
(* The sweep and the cancels.                                              *)

\* A delivery that has just written the row, or waits within its limit.
Fresh == {"claimed", "ready", "enqueued", "waiting", "suspect", "dropped", "takeback"}

\* sweepStaleCommands reads an open row that was not written for its whole limit,
\* with whether the server ever had it (daemonEverHadCommand), ...
SweepRead ==
    /\ Open
    /\ sweepSaw = "none"
    /\ \A d \in Runs : run[d].at \notin Fresh
    /\ sweepSaw' = IF started THEN "in_flight" ELSE "undelivered"
    /\ UNCHANGED <<row, dispatch, queue, run, cell, wire, server, fenceSaw, faults>>

\* ... and times it out, whatever became of it.
SweepWrite ==
    /\ sweepSaw # "none"
    /\ End("timed_out", sweepSaw)
    /\ sweepSaw' = "none"
    /\ UNCHANGED <<queue, run, cell, wire, server, fenceSaw, faults>>

\* cancelQueuedCommand, cancelNonTerminalCommand: one conditional update.
Cancel ==
    /\ Open
    /\ Deploy => status = "queued"
    /\ End("cancelled", "other")
    /\ UNCHANGED <<queue, run, cell, wire, server, sweeps, faults>>

\* cancelOpenReturnFenceStops: reads the open stops, then ends each by id.
FenceRead ==
    /\ ~Deploy
    /\ Open
    /\ fenceSaw' = TRUE
    /\ UNCHANGED <<row, dispatch, queue, run, cell, wire, server, sweepSaw, faults>>

FenceWrite ==
    /\ fenceSaw
    /\ End("cancelled", "resynced")
    /\ fenceSaw' = FALSE
    /\ UNCHANGED <<queue, run, cell, wire, server, sweepSaw, faults>>

-----------------------------------------------------------------------------
Delivery(d) ==
    \/ \E a \in queue : Load(d, a)
    \/ Expire(d) \/ ResumeSent(d) \/ PayloadMissing(d) \/ Busy(d) \/ Claim(d)
    \/ PayloadRead(d) \/ Refuse(d) \/ Enqueue(d) \/ MarkSent(d)

Wait(d) ==
    \/ GotAnswer(d) \/ AckDeadline(d) \/ DropConnection(d) \/ AfterDrop(d)
    \/ ExpireUnacked(d) \/ HandOff(d) \/ Settled(d) \/ WaitOver(d) \/ TakeBackOffline(d)
    \/ TimeOut(d) \/ Apply(d)

Error(d) ==
    \/ RetryLater(d) \/ GiveUp(d) \/ LeaveRunning(d) \/ TakeBack(d) \/ FailExhausted(d)
    \/ DeadLetter(d) \/ Crash(d)

Cell ==
    \/ Pump \/ SendFrame \/ RequeueFrame \/ CellAck \/ RequestExpires \/ LoseLink \/ Reconnect
    \/ \E o \in Answered, settled \in BOOLEAN : CellOutcome(o, settled)

Host == HostReceive \/ HostReports \/ HostProgress \/ \E o \in Answered : HostFinish(o)

Upkeep ==
    \/ SweepRead \/ SweepWrite \/ Cancel \/ FenceRead \/ FenceWrite \/ SweepDispatch \/ Redeliver
    \/ \E c \in Cleanups : Finalize(c) \/ CleanupFails(c)

Next ==
    \/ \E d \in Runs : Delivery(d) \/ Wait(d) \/ Error(d)
    \/ Cell \/ Host \/ Upkeep

Spec == Init /\ [][Next]_vars

-----------------------------------------------------------------------------
(* Properties.                                                             *)

\* A command that has finished never moves back to a live status, though claims,
\* `sent' writes, sweeps, cancels, late outcomes and copies of its message all
\* write the row from what they read earlier (command-records.ts, transitionCommand).
NeverLiveAgain == [][(status \in Terminal) => (status' \in Terminal)]_vars

\* A command is `succeeded' only when its host finished it with success, or is a resumed
\* promotion whose host answered that it already is the writable primary: no other
\* failure, no time-out, retry, correction or take-back is made into a success
\* (applyPendingOutcome, tryCompleteResumePromoteAsAlreadyWritable).
SuccessIsTrue ==
    status = "succeeded" => host = "done" \/ (Kind = "resume" /\ host = "writable")

\* An open command keeps its payload, or a run that claims it would fail it for
\* want of one: nothing that ends a command leaves it open with the payload
\* expiring (finalizeCommandDispatch).
PayloadWhileOpen == Open => payload = "kept" /\ cleanup = {}

\* "Never re-sends" (awaitOutcomeWithAckDeadline): while no call has failed, a frame of
\* the command is put on the wire only if its server has not had it, no earlier send
\* of it is still waited for, and the row does not say that it was not acknowledged.
\* Drops, take-backs, hand-offs, resumed waits and the pump's retries all run meanwhile.
\* A frame written before the drop may still arrive after it: see LinkDown.
NeverResent ==
    [][faults = 0 /\ ~toHost /\ toHost' =>
         /\ host = "new"
         /\ request \in {"queued", "none"}
         /\ ~(status = "failed" /\ verdict = "unacked")]_vars

\* While a command is open, a result the server was told it may drop is held in the
\* cell for the consumer: settleOutcome confirms only what is stored, though requests
\* are taken back, sent again and replaced meanwhile.  A request whose lifetime ends
\* (a fault here) takes its answer with it.
ConfirmedIsHeld ==
    faults = 0 /\ Open /\ host \in Answered /\ ~kept => request \in Answered

\* "their absence is the honest answer to `did it arrive'" (daemonEverHadCommand): when
\* the sweep takes a command for undelivered, its server has not started it.
UndeliveredNeverRan ==
    [][sweepSaw = "none" /\ sweepSaw' = "undelivered" => host = "new"]_vars
=============================================================================
