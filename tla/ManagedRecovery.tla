--------------------------- MODULE ManagedRecovery ---------------------------
(***************************************************************************)
(* Recovery of one managed database cluster (features/managed): the        *)
(* planned switchover and the automatic failover of a reachable primary.   *)
(* A row of the recovery journal fences the old primary A (drains, then a  *)
(* stop), promotes the target B, repoints the ingress and ends; when it    *)
(* ends before a role change a switchover starts A again.  The row is      *)
(* worked on by whoever holds it at the moment: the request that began it, *)
(* the consumer that received an answer, or a sweep; `driver' is the next  *)
(* step of that process.  Commands for A's server are sent one at a time   *)
(* in the order they were created (ServerTurn); the daemon runs what it    *)
(* was sent in order, also when the command was given up on meanwhile.     *)
(***************************************************************************)
EXTENDS Naturals, Sequences, FiniteSets

CONSTANTS
    MaxRows,      \* bound on the recoveries of one behaviour
    Kinds,        \* which recoveries may begin
    Proof,        \* the engine proves its final position (MySQL, MariaDB)
    CheckMayFail, \* the catch-up check may fail to run on a promoted target
    SweepStalls,  \* a sweep may stall between its check and the start it queues
    MaxResumes,   \* MAX_PROMOTE_RESUMES
    MaxAttempts,  \* FENCE_ABORT_MAX_ATTEMPTS
    MaxFaults     \* bound on processes that die and on refused queue writes

ASSUME RecoveryAssumption ==
    /\ MaxRows \in Nat \ {0}
    /\ Kinds \subseteq {"switchover", "automatic-failover"}
    /\ {Proof, CheckMayFail, SweepStalls} \subseteq BOOLEAN
    /\ {MaxResumes, MaxAttempts, MaxFaults} \subseteq Nat

Rows == 1..MaxRows

Terminal == {"completed", "failed", "blocked"}
RecoveryStates ==
    {"fencing", "promoting", "repointing", "reconciling-ingress"} \cup Terminal

FenceSteps == {"drain", "stop"}
Commands == FenceSteps \cup {"promote", "start", "ingress"}
\* `orphan': sent, and the consumer that waited for it died.
Live == {"prepared", "queued", "sent", "orphan"}
\* How a command ended is read from its answer, never from its row.
Ended == {"none", "over"}
Taken == {"sent", "orphan"}

\* What the daemon made of a command it was sent.
Codes == {"gtid_wait", "target_not_running", "promote_started", "interrupted",
          "error"}
HostStates == {"none", "held", "started", "ok"} \cup Codes

\* The next step of the process that holds the row.
DriverSteps ==
    {"none", "fence", "drain", "stop", "follow", "resume", "enqueue", "note",
     "abort", "end", "claim", "fanout", "cancel", "recheck", "start"}

VARIABLES
    journal,   \* the cluster's recovery rows, oldest first
    driver,    \* the process of a row
    cmd,       \* the command rows of a recovery
    host,      \* the daemon's side of those commands
    line,      \* commands of A's server, in the order they were created
    primary,   \* the member whose role is primary
    writers,   \* members whose engine accepts writes
    faults

vars == <<journal, driver, cmd, host, line, primary, writers, faults>>

Row == [kind: Kinds, state: RecoveryStates, pending: SUBSET FenceSteps,
        drained: BOOLEAN, stopped: BOOLEAN, gtid: BOOLEAN, known: BOOLEAN,
        resumes: 0..MaxResumes, todo: BOOLEAN, react: BOOLEAN,
        attempts: 0..MaxAttempts]

TypeOK ==
    /\ journal \in Seq(Row) /\ Len(journal) <= MaxRows
    /\ driver \in [Rows -> DriverSteps]
    /\ cmd \in [Rows -> [Commands -> Live \cup Ended]]
    /\ host \in [Rows -> [Commands -> HostStates]]
    /\ line \in Seq(Rows \X {"stop", "start"})
    /\ primary \in {"A", "B"}
    /\ writers \subseteq {"A", "B"}
    /\ faults \in 0..MaxFaults

Init ==
    /\ journal = <<>>
    /\ driver = [r \in Rows |-> "none"]
    /\ cmd = [r \in Rows |-> [k \in Commands |-> "none"]]
    /\ host = [r \in Rows |-> [k \in Commands |-> "none"]]
    /\ line = <<>>
    /\ primary = "A"
    /\ writers = {"A"}
    /\ faults = 0

-----------------------------------------------------------------------------
InFlight(r) == journal[r].state \notin Terminal

Fault == faults < MaxFaults /\ faults' = faults + 1
NoFault == faults' = faults

SetRow(r, row) == journal' = [journal EXCEPT ![r] = row]
Goes(r, step) == driver' = [driver EXCEPT ![r] = step]
SetCmd(r, k, status) == cmd' = [cmd EXCEPT ![r][k] = status]

\* Row r as updateRecoveryLocked leaves it: a terminal row is not written.
Locked(r, row) == IF InFlight(r) THEN row ELSE journal[r]

Blocked(row) == [row EXCEPT !.state = "blocked", !.pending = {}]
Failed(row) == [row EXCEPT !.state = "failed"]

\* verifyFenced: a drain and the stop were confirmed.
VerifyFenced(row) == row.drained /\ row.stopped

\* An operator's switchover goes on without a proven fence.
NextStateAfterFence(row) ==
    IF VerifyFenced(row) \/ row.kind = "switchover" THEN "promoting"
                                                    ELSE "blocked"

\* Mutant: the row's state is not looked at again under the lock.
SettlementAnyState(row, k, applied) ==
    LET left == [row EXCEPT !.pending = @ \ {k},
                            !.drained = @ \/ (applied /\ k = "drain"),
                            !.stopped = @ \/ (applied /\ k = "stop")]
    IN  IF k \notin row.pending THEN row
        ELSE IF left.pending # {} THEN left
        ELSE [left EXCEPT !.state = NextStateAfterFence(left)]

\* applyFenceSettlement: only a fencing row that still lists the step changes,
\* and the step that empties the list decides.
Settlement(row, k, applied) ==
    LET left == [row EXCEPT !.pending = @ \ {k},
                            !.drained = @ \/ (applied /\ k = "drain"),
                            !.stopped = @ \/ (applied /\ k = "stop")]
    IN  IF row.state # "fencing" \/ k \notin row.pending THEN row
        ELSE IF left.pending # {} THEN left
        ELSE [left EXCEPT !.state = NextStateAfterFence(left)]

\* The settlement of step k, and who acts on it: with a command queue the
\* process goes on to the promote, without one (the stale sweep) nobody does.
SettleFence(r, row, k, applied, queue) ==
    LET next == Settlement(row, k, applied)
    IN  /\ SetRow(r, next)
        /\ IF queue /\ next.state = "promoting" /\ row.state = "fencing"
           THEN Goes(r, "follow") ELSE UNCHANGED driver

-----------------------------------------------------------------------------
\* Beginning a recovery (beginRecovery, enqueueFenceCommands)

NewRow(kind) ==
    [kind |-> kind, state |-> "fencing", pending |-> {}, drained |-> FALSE,
     stopped |-> FALSE, gtid |-> FALSE, known |-> FALSE, resumes |-> 0,
     todo |-> FALSE, react |-> FALSE, attempts |-> 0]

\* The promote gate's fresh reading of the target (an operator who forces the
\* switchover goes without it): a replica whose daemon answers.  The probe is a
\* request of its own, and nothing makes it wait for a promote: that no promote
\* of an ended recovery is still waiting on the target is an assumption on time.
TargetReady ==
    "B" \notin writers /\ \A r \in Rows : host[r].promote # "held"

\* The in-flight check and the insert into the partial unique index.
Begin(kind) ==
    LET r == Len(journal) + 1
    IN  /\ r \in Rows
        /\ primary = "A"
        /\ kind = "switchover" => TargetReady
        /\ \A i \in DOMAIN journal : ~InFlight(i)
        /\ journal' = Append(journal, NewRow(kind))
        /\ Goes(r, "fence")
        /\ UNCHANGED <<cmd, host, line, primary, writers, faults>>

\* prepareDrainCommands, prepareCommand(stop), recordFenceCommands: every
\* command id is on the row before any command is queued.
RecordFence(r) ==
    /\ driver[r] = "fence"
    /\ SweepStalls \/ \A i \in Rows : driver[i] # "start"
    /\ cmd' = [cmd EXCEPT ![r] = [@ EXCEPT !.drain = "prepared",
                                           !.stop = "prepared"]]
    /\ line' = Append(line, <<r, "stop">>)
    /\ IF journal[r].state = "fencing"
       THEN /\ SetRow(r, [journal[r] EXCEPT !.pending = FenceSteps,
                                            !.drained = FALSE, !.stopped = FALSE])
            /\ Goes(r, "drain")
       ELSE UNCHANGED journal /\ Goes(r, "none")
    /\ UNCHANGED <<host, primary, writers, faults>>

Published(r, k) == IF cmd[r][k] = "prepared" THEN "queued" ELSE cmd[r][k]

PublishDrain(r) ==
    /\ driver[r] = "drain"
    /\ SetCmd(r, "drain", Published(r, "drain"))
    /\ Goes(r, "stop")
    /\ UNCHANGED <<journal, host, line, primary, writers, faults>>

\* The drain that never left is settled; the stop is still pending.
PublishDrainFails(r) ==
    /\ driver[r] = "drain"
    /\ Fault
    /\ SetCmd(r, "drain", "over")
    /\ SetRow(r, Settlement(journal[r], "drain", FALSE))
    /\ Goes(r, "stop")
    /\ UNCHANGED <<host, line, primary, writers>>

PublishStop(r) ==
    /\ driver[r] = "stop"
    /\ SetCmd(r, "stop", Published(r, "stop"))
    /\ Goes(r, "none")
    /\ UNCHANGED <<journal, host, line, primary, writers, faults>>

\* blockUnqueuedFenceStop
PublishStopFails(r) ==
    /\ driver[r] = "stop"
    /\ Fault
    /\ SetCmd(r, "stop", "over")
    /\ SetRow(r, IF journal[r].state = "fencing"
                 THEN [journal[r] EXCEPT !.state = "blocked",
                                         !.pending = @ \ {"stop"}]
                 ELSE journal[r])
    /\ Goes(r, "none")
    /\ UNCHANGED <<host, line, primary, writers>>

-----------------------------------------------------------------------------
\* Commands on the way

\* No earlier command of A's server waits for its turn or has it; the turn of
\* a dead consumer expires (ServerTurn).
TurnFree(i) ==
    \A j \in 1..(i - 1) : cmd[line[j][1]][line[j][2]] \notin {"queued", "sent"}

\* The consumer hands the command to the cell and stamps sent_at: one step here.
\* Between the two the fence deadline would take a stop that is out for one that
\* never left, and not owe A its start.  A promote that was not taken up in
\* PROMOTE_TTL_MS is refused; a row that has ended with one still queued is older.
Send(r, k) ==
    /\ cmd[r][k] = "queued"
    /\ k = "promote" => InFlight(r)
    /\ \A i \in DOMAIN line : line[i] = <<r, k>> => TurnFree(i)
    /\ SetCmd(r, k, "sent")
    /\ host' = [host EXCEPT ![r][k] = "held"]
    /\ UNCHANGED <<journal, driver, line, primary, writers, faults>>

\* A's daemon runs what it was sent, in the order it was sent.
RunOnA(i, outcome) ==
    LET r == line[i][1]
        k == line[i][2]
    IN  /\ host[r][k] = "held"
        /\ \A j \in 1..(i - 1) : host[line[j][1]][line[j][2]] # "held"
        /\ host' = [host EXCEPT ![r][k] = outcome]
        /\ writers' = IF outcome = "error" THEN writers
                      ELSE IF k = "stop" THEN writers \ {"A"}
                      ELSE writers \cup {"A"}
        /\ UNCHANGED <<journal, driver, cmd, line, primary, faults>>

\* The daemon of B waits for the old primary's position, then promotes.
PromoteStarts(r) ==
    /\ host[r].promote = "held"
    /\ host' = [host EXCEPT ![r].promote = "started"]
    /\ writers' = writers \cup {"B"}
    /\ UNCHANGED <<journal, driver, cmd, line, primary, faults>>

\* How an attempt ends: before it started (the catch-up wait, no container),
\* after it started, or cut off by a restart of the daemon.  A target that was
\* promoted by an earlier attempt has the position it would wait for.
PromoteEnds(r, outcome) ==
    /\ \/ /\ host[r].promote = "held" /\ outcome = "gtid_wait"
          /\ journal[r].gtid /\ (CheckMayFail \/ "B" \notin writers)
       \/ host[r].promote = "held" /\ outcome \in {"target_not_running", "interrupted"}
       \/ /\ host[r].promote = "started"
          /\ outcome \in {"ok", "promote_started", "interrupted"}
    /\ host' = [host EXCEPT ![r].promote = outcome]
    /\ UNCHANGED <<journal, driver, cmd, line, primary, writers, faults>>

-----------------------------------------------------------------------------
\* Answers (the consumer's side effects) and commands without one

DrainAnswers(r, ok) ==
    /\ cmd[r].drain = "queued"
    /\ SetCmd(r, "drain", "over")
    /\ SettleFence(r, journal[r], "drain", ok, TRUE)
    /\ UNCHANGED <<host, line, primary, writers, faults>>

\* onFenceCommandSucceeded / onFenceCommandFailed for the stop; the answer
\* carries the final position when the engine has one and reported it, which is
\* written to the row just before the step is settled.
StopAnswers(r, reported) ==
    LET ok == host[r].stop = "ok"
        row == [journal[r] EXCEPT !.gtid = @ \/ (ok /\ reported /\ InFlight(r))]
    IN  /\ cmd[r].stop \in Taken
        /\ host[r].stop \in {"ok", "error"}
        /\ reported => Proof /\ journal[r].kind = "switchover"
        /\ SetCmd(r, "stop", "over")
        /\ SettleFence(r, row, "stop", ok, TRUE)
        /\ UNCHANGED <<host, line, primary, writers, faults>>

\* The consumer could not send the stop (its server is not connected, it ran out
\* of lifetime), or waited long enough for its answer (COMMAND_TIMEOUT_MS).
StopGivenUp(r) ==
    /\ cmd[r].stop \in {"queued", "sent"}
    /\ SetCmd(r, "stop", "over")
    /\ SettleFence(r, journal[r], "stop", FALSE, TRUE)
    /\ UNCHANGED <<host, line, primary, writers, faults>>

\* The start answered, or nobody waits for it any more.
StartEnds(r) ==
    /\ cmd[r].start \in Taken
    /\ SetCmd(r, "start", "over")
    /\ UNCHANGED <<journal, driver, host, line, primary, writers, faults>>

\* The consumer that waits for a command dies with its process.
ConsumerDies(r, k) ==
    /\ cmd[r][k] = "sent" \/ (k = "drain" /\ cmd[r][k] = "queued")
    /\ Fault
    /\ SetCmd(r, k, "orphan")
    /\ UNCHANGED <<journal, driver, host, line, primary, writers>>

\* The answer is taken: nobody looks at it again.
Answers(r, k) ==
    SetCmd(r, k, "over") /\ host' = [host EXCEPT ![r][k] = "none"]

\* applyManagedPromoteSideEffect: the roles change first.  Here and below, that a
\* promote is not answered before its id is noted is an assumption on time: the
\* note follows the enqueue at once, the answer takes the daemon's work.
PromoteSucceeds(r) ==
    /\ cmd[r].promote \in Taken /\ host[r].promote = "ok"
    /\ driver[r] # "note"
    /\ Answers(r, "promote")
    /\ primary' = "B"
    /\ Goes(r, "claim")
    /\ UNCHANGED <<journal, line, writers, faults>>

\* claimPromoteResult takes the row once.
ClaimPromote(r) ==
    /\ driver[r] = "claim"
    /\ IF journal[r].state \in {"fencing", "promoting"}
       THEN /\ SetRow(r, [journal[r] EXCEPT !.state = "repointing"])
            /\ Goes(r, "fanout")
       ELSE UNCHANGED journal /\ Goes(r, "none")
    /\ UNCHANGED <<cmd, host, line, primary, writers, faults>>

\* Mutant: the resumes are not counted against their limit.
ResumesUncounted(r) ==
    /\ host[r].promote = "interrupted"
    /\ journal[r].state = "promoting"

\* resumeInterruptedPromote: a promote lost to a daemon restart,
Resumes(r) ==
    /\ host[r].promote = "interrupted"
    /\ journal[r].state = "promoting"
    /\ journal[r].resumes < MaxResumes

\* is queued again; when the target has the role already, by an earlier promote,
\* the row goes on as after a success (isTargetAlreadyPrimaryInJournal).
PromoteResumes(r) ==
    /\ cmd[r].promote \in Taken /\ driver[r] # "note"
    /\ Resumes(r)
    /\ Answers(r, "promote")
    /\ Goes(r, IF primary = "A" THEN "resume" ELSE "claim")
    /\ UNCHANGED <<journal, line, primary, writers, faults>>

\* switchoverPromoteFailureShouldReactivateOldPrimary over the code that
\* onSwitchoverPromoteFailed makes of the answer.
Reactivates(row, code) ==
    \/ code = "gtid_wait" /\ row.gtid
    \/ code = "target_not_running" /\ row.resumes = 0 /\ row.kind = "switchover"

\* onSwitchoverPromoteFailed, also for a promote that could be resumed when the
\* target's server is not connected
PromoteFails(r) ==
    /\ cmd[r].promote \in Taken /\ driver[r] # "note"
    /\ host[r].promote \in Codes
    /\ ~(Resumes(r) /\ primary = "B")
    /\ Answers(r, "promote")
    /\ IF Reactivates(journal[r], host[r].promote)
       THEN Goes(r, "abort") /\ UNCHANGED journal
       ELSE SetRow(r, Locked(r, Failed(journal[r]))) /\ UNCHANGED driver
    /\ UNCHANGED <<line, primary, writers, faults>>

\* The promote could not be sent, or it went unanswered, for its consumer or for
\* the stale sweep: the target may be promoting, so the row ends for the operator.
PromoteGivenUp(r) ==
    /\ cmd[r].promote \in Taken \cup {"queued"} /\ driver[r] # "note"
    /\ SetCmd(r, "promote", "over")
    /\ SetRow(r, Locked(r, Failed(journal[r])))
    /\ UNCHANGED <<driver, host, line, primary, writers, faults>>

\* sweepStaleCommands, settleRecoveryOfTimedOutCommand: a command nobody waits
\* for any more.  The hook is given no queue.
StaleFenceStep(r, k) ==
    /\ \/ cmd[r][k] = "orphan"
       \/ cmd[r][k] = "prepared" /\ driver[r] = "none"
    /\ SetCmd(r, k, "over")
    /\ SettleFence(r, journal[r], k, FALSE, FALSE)
    /\ UNCHANGED <<host, line, primary, writers, faults>>

-----------------------------------------------------------------------------
\* Acting on the fence (followFenceAdvance, enqueuePromoteOrRecover)

\* abortSwitchoverWhenGtidMissing
GtidMissing(row) == row.kind = "switchover" /\ Proof /\ ~row.gtid

FollowFence(r) ==
    /\ driver[r] = "follow"
    /\ IF GtidMissing(journal[r])
       THEN Goes(r, "abort") /\ UNCHANGED journal
       ELSE /\ SetRow(r, [journal[r] EXCEPT !.state = "promoting"])
            /\ Goes(r, "enqueue")
    /\ UNCHANGED <<cmd, host, line, primary, writers, faults>>

ResumePromote(r) ==
    /\ driver[r] = "resume"
    /\ SetRow(r, [journal[r] EXCEPT !.state = "promoting", !.resumes = @ + 1,
                                     !.known = FALSE])
    /\ Goes(r, "enqueue")
    /\ UNCHANGED <<cmd, host, line, primary, writers, faults>>

EnqueuePromote(r) ==
    /\ driver[r] = "enqueue"
    /\ SetCmd(r, "promote", "queued")
    /\ Goes(r, "note")
    /\ UNCHANGED <<journal, host, line, primary, writers, faults>>

\* blockUnqueuedPromote; a resume that could not be queued then fails the row,
\* which is terminal by now.
EnqueuePromoteFails(r) ==
    /\ driver[r] = "enqueue"
    /\ Fault
    /\ SetCmd(r, "promote", "over")
    /\ SetRow(r, [journal[r] EXCEPT !.state = "blocked"])
    /\ Goes(r, "none")
    /\ UNCHANGED <<host, line, primary, writers>>

NotePromote(r) ==
    /\ driver[r] = "note"
    /\ SetRow(r, [journal[r] EXCEPT !.known = TRUE])
    /\ Goes(r, "none")
    /\ UNCHANGED <<cmd, host, line, primary, writers, faults>>

QueueStart(r) ==
    /\ SetCmd(r, "start", "queued")
    /\ line' = Append(line, <<r, "start">>)

\* enqueueSwitchoverAbortReactivation, then blockRecoveryNothingChanged
AbortStart(r) ==
    /\ driver[r] = "abort"
    /\ \/ QueueStart(r) /\ NoFault
       \/ Fault /\ UNCHANGED <<cmd, line>>
    /\ Goes(r, "end")
    /\ UNCHANGED <<journal, host, primary, writers>>

AbortEnd(r) ==
    /\ driver[r] = "end"
    /\ SetRow(r, Locked(r, Blocked(journal[r])))
    /\ Goes(r, "none")
    /\ UNCHANGED <<cmd, host, line, primary, writers, faults>>

-----------------------------------------------------------------------------
\* After the role change (onPromoteSucceeded, ha-ingress-gate)

FanOut(r) ==
    /\ driver[r] = "fanout"
    /\ SetRow(r, Locked(r, [journal[r] EXCEPT !.state = "reconciling-ingress"]))
    /\ SetCmd(r, "ingress", "queued")
    /\ Goes(r, "none")
    /\ UNCHANGED <<host, line, primary, writers, faults>>

\* The side effect throws (failRecoveryOfSideEffectError), or nothing could be
\* queued for the ingress.
FanOutFails(r) ==
    /\ driver[r] \in {"claim", "fanout"}
    /\ Fault
    /\ SetRow(r, Locked(r, Failed(journal[r])))
    /\ Goes(r, "none")
    /\ UNCHANGED <<cmd, host, line, primary, writers>>

\* evaluateIngressGate once the last ingress answered, or was given up on.
IngressSettles(r, ok) ==
    /\ cmd[r].ingress = "queued"
    /\ SetCmd(r, "ingress", "over")
    /\ SetRow(r, IF journal[r].state # "reconciling-ingress" THEN journal[r]
                 ELSE [journal[r] EXCEPT !.state = IF ok THEN "completed"
                                                         ELSE "failed"])
    /\ UNCHANGED <<driver, host, line, primary, writers, faults>>

-----------------------------------------------------------------------------
\* The sweeps (sweepStalledFencing, expireStaleRecoveries)

Cancelled(r) ==
    [k \in Commands |-> IF k \in FenceSteps /\ cmd[r][k] \in Live
                        THEN "over" ELSE cmd[r][k]]

\* The stop is confirmed: give up on the drains.
AbandonDrains(r) ==
    /\ journal[r].state = "fencing" /\ journal[r].pending # {}
    /\ journal[r].stopped
    /\ cmd' = [cmd EXCEPT ![r] = Cancelled(r)]
    /\ SettleFence(r, journal[r], "drain", FALSE, TRUE)
    /\ UNCHANGED <<host, line, primary, writers, faults>>

\* The stop is not confirmed: the row ends first, its steps are taken back
\* after it.  A switchover owes the old primary a start.
DeadlineBlocks(r) ==
    LET switchover == journal[r].kind = "switchover"
        pending == "stop" \in journal[r].pending
        delivered == pending /\ host[r].stop # "none"
    IN  /\ journal[r].state = "fencing" /\ journal[r].pending # {}
        /\ ~journal[r].stopped
        /\ driver[r] = "none"
        /\ SetRow(r, [Blocked(journal[r]) EXCEPT !.todo = switchover,
                                                !.react = switchover /\ delivered])
        /\ Goes(r, IF switchover /\ pending /\ ~delivered THEN "recheck" ELSE "cancel")
        /\ UNCHANGED <<cmd, host, line, primary, writers, faults>>

\* cancelOpenFenceSteps; a stop that had not been delivered is looked at again
CancelSteps(r) ==
    /\ driver[r] \in {"cancel", "recheck"}
    /\ cmd' = [cmd EXCEPT ![r] = Cancelled(r)]
    /\ SetRow(r, [journal[r] EXCEPT !.react = @ \/ (driver[r] = "recheck"
                                                    /\ host[r].stop # "none")])
    /\ Goes(r, "none")
    /\ UNCHANGED <<host, line, primary, writers, faults>>

Owed(row) == row.state = "blocked" /\ ~row.stopped /\ row.todo

\* Mutant: a newer recovery does not make the owed start stale.
RestartStaleByRole(r) == primary # "A"

\* abortRestartStaleReason: a newer recovery, or another primary
RestartStale(r) == r < Len(journal) \/ primary # "A"

\* finishAbortRestart: claimed under the row lock, so one sweep at a time is at
\* it (the claim of a dead one is taken over), then checked before the start.
CheckRestart(r) ==
    /\ driver[r] = "none"
    /\ Owed(journal[r])
    /\ IF RestartStale(r)
       THEN SetRow(r, [journal[r] EXCEPT !.todo = FALSE]) /\ UNCHANGED driver
       ELSE UNCHANGED journal /\ Goes(r, "start")
    /\ UNCHANGED <<cmd, host, line, primary, writers, faults>>

\* The start is queued, then the row settled under its lock: a process that dies
\* in between leaves the start owed, and A is started once more.
QueueRestart(r) ==
    /\ driver[r] = "start"
    /\ SetRow(r, [journal[r] EXCEPT !.todo = FALSE])
    /\ IF journal[r].react THEN QueueStart(r) ELSE UNCHANGED <<cmd, line>>
    /\ Goes(r, "none")
    /\ UNCHANGED <<host, primary, writers, faults>>

\* The start or an undrain could not be queued: tried again, at most MaxAttempts
\* times, then the operator's.
QueueRestartFails(r) ==
    LET last == journal[r].attempts + 1 >= MaxAttempts
    IN  /\ driver[r] = "start"
        /\ Fault
        /\ SetRow(r, IF last THEN Failed(journal[r])
                     ELSE [journal[r] EXCEPT !.attempts = @ + 1])
        /\ cmd' = IF last THEN [cmd EXCEPT ![r] = Cancelled(r)] ELSE cmd
        /\ Goes(r, "none")
        /\ UNCHANGED <<host, line, primary, writers>>

\* Commands the row lists: the pending fence steps, a noted promote, the ingress.
Listed(r) ==
    journal[r].pending \cup (IF journal[r].known THEN {"promote"} ELSE {})
                       \cup {"ingress"}

\* Mutant: only a row that never queued a command expires.
ExpireUnadvanced(r) ==
    /\ journal[r].state = "fencing" /\ driver[r] = "none"
    /\ journal[r].pending = {}
    /\ SetRow(r, [journal[r] EXCEPT !.state = "blocked"])
    /\ UNCHANGED <<driver, cmd, host, line, primary, writers, faults>>

\* expireStaleRecoveries: a row without progress and without a live command.
\* A process at work on the row makes progress in less time than that.
ExpireStale(r) ==
    /\ InFlight(r) /\ driver[r] = "none"
    /\ \A k \in Listed(r) : cmd[r][k] \notin Live
    /\ SetRow(r, IF journal[r].state = "fencing" /\ journal[r].pending = {}
                 THEN [journal[r] EXCEPT !.state = "blocked"]
                 ELSE Failed(journal[r]))
    /\ UNCHANGED <<driver, cmd, host, line, primary, writers, faults>>

\* The process at work on a row dies.
DriverDies(r) ==
    /\ driver[r] # "none"
    /\ Fault
    /\ Goes(r, "none")
    /\ UNCHANGED <<journal, cmd, host, line, primary, writers>>

-----------------------------------------------------------------------------
Driven(r) ==
    \/ RecordFence(r) \/ PublishDrain(r) \/ PublishStop(r)
    \/ FollowFence(r) \/ ResumePromote(r) \/ EnqueuePromote(r) \/ NotePromote(r)
    \/ AbortStart(r) \/ AbortEnd(r) \/ ClaimPromote(r) \/ FanOut(r)
    \/ CancelSteps(r) \/ QueueRestart(r)

Answered(r) ==
    \/ \E ok \in BOOLEAN : DrainAnswers(r, ok) \/ StopAnswers(r, ok)
    \/ StopGivenUp(r) \/ StartEnds(r)
    \/ PromoteSucceeds(r) \/ PromoteResumes(r) \/ PromoteFails(r)
    \/ PromoteGivenUp(r)
    \/ \E ok \in BOOLEAN : IngressSettles(r, ok)

Swept(r) ==
    \/ \E k \in FenceSteps : StaleFenceStep(r, k)
    \/ AbandonDrains(r) \/ DeadlineBlocks(r) \/ CheckRestart(r) \/ ExpireStale(r)

Daemon(r) ==
    \/ \E k \in {"stop", "start", "promote"} : Send(r, k)
    \/ PromoteStarts(r)
    \/ \E outcome \in Codes \cup {"ok"} : PromoteEnds(r, outcome)

Fails(r) ==
    \/ PublishDrainFails(r) \/ PublishStopFails(r) \/ EnqueuePromoteFails(r)
    \/ FanOutFails(r) \/ QueueRestartFails(r) \/ DriverDies(r)
    \/ \E k \in {"drain", "stop", "promote"} : ConsumerDies(r, k)

Runs == \E i \in DOMAIN line, outcome \in {"ok", "error"} : RunOnA(i, outcome)

Next ==
    \/ \E kind \in Kinds : Begin(kind)
    \/ \E r \in DOMAIN journal :
          Driven(r) \/ Answered(r) \/ Swept(r) \/ Daemon(r) \/ Fails(r)
    \/ Runs

\* A process that lives takes its next step, the sweeps run every minute, a
\* queued command is sent and a command that was sent is answered or given up on.
Fairness ==
    \A r \in Rows :
        /\ WF_vars(r \in DOMAIN journal /\ Driven(r))
        /\ WF_vars(r \in DOMAIN journal /\ Answered(r))
        /\ WF_vars(r \in DOMAIN journal /\ Swept(r))
        /\ WF_vars(r \in DOMAIN journal /\ Daemon(r))

Spec == Init /\ [][Next]_vars /\ Fairness

-----------------------------------------------------------------------------
\* The row ended while the promote it had queued was not on it: the process that
\* queued the promote died before it noted the promote's id.
Unnoted(r) ==
    ~InFlight(r) /\ cmd[r].promote # "none" /\ ~journal[r].known

\* A switchover of an engine without a proven position that promoted the target
\* without a confirmed stop (nextStateAfterFence).
Unproven(r) ==
    /\ journal[r].kind = "switchover" /\ ~Proof /\ ~journal[r].stopped
    /\ cmd[r].promote # "none"

\* "Bringing the old primary back cannot make two writers" (contracts/commands/
\* schemas.ts, switchoverAbortPromoteSafe): whatever ends a recovery (a late or
\* lost answer, the fence deadline, a newer recovery), the engines of A and B
\* accept writes together only after a switchover of an engine without a proven
\* position that went on without a confirmed stop, or when expireStaleRecoveries
\* could not see a promote that outlived its row.
OneWriter ==
    writers = {"A", "B"} => \E r \in DOMAIN journal : Unproven(r) \/ Unnoted(r)

\* A recovery always ends, also when the process that drives it dies, a command
\* is never queued or its answer is lost: no row holds the cluster's in-flight
\* slot, which answers managed_busy to every other action, for ever
\* (sweepStaleCommands, sweepStalledFencing, expireStaleRecoveries).
RecoveryEnds == []<>(\A r \in DOMAIN journal : ~InFlight(r))

\* A recovery that one process ended is not brought back by another one that
\* still works from what it read before (updateRecovery writes without a look at
\* the row's state, updateRecoveryLocked and applyFenceSettlement with one).
EndedStays ==
    [][\A r \in DOMAIN journal :
          journal[r].state \in Terminal => journal'[r].state \in Terminal]_vars

=============================================================================
