----------------------------- MODULE ServerTurn -----------------------------
(***************************************************************************)
(* The turn of one server: how the deliveries of the command queue decide  *)
(* which command of that server may start (features/commands/              *)
(* server-turn.ts, delivery-retry.ts, delivery-failure.ts and the part of  *)
(* consumer.ts up to the `sent' write).                                    *)
(*                                                                         *)
(* The `command' rows live in Postgres.  A delivery of the queue reads its *)
(* row, looks without a lock whether another command blocks it, locks the  *)
(* server's row, looks again and marks its command `dispatching', each in  *)
(* a database statement of its own; other deliveries, the stale sweep, a   *)
(* cancel and the clock run between any two of them.                       *)
(*                                                                         *)
(* Timestamps are kept as ages that the clock moves on and that stop       *)
(* growing past the longest limit they are compared with, so the clock     *)
(* itself has no end.                                                      *)
(***************************************************************************)
EXTENDS Integers, FiniteSets, Sequences

CONSTANTS
    Commands,           \* 1..n; the order of the ids is (created_at, id)
    Kind,               \* [Commands -> {"quick", "deploy", "other"}]
    Deliveries,         \* how many deliveries can be processed at once
    Lifetime,           \* expires_at - created_at
    OlderQueuedWait,    \* OLDER_QUEUED_WAIT_MS
    StampInterval,      \* WAITING_STAMP_INTERVAL_MS
    BusyDelay,          \* SERVER_BUSY_DELAY_SECONDS
    BusyLongestDelay,   \* SERVER_BUSY_LONGEST_DELAY_SECONDS
    ExpiryMargin,       \* the 60 s of WAITING_EXPIRY_FLOOR_MS
    SignalGrace,        \* DEPLOY_SIGNAL_GRACE_MS
    StaleGrace,         \* STALE_COMMAND_GRACE_MS
    StaleAfter,         \* a type's wait budget plus that grace
    RetryDelays,        \* COMMAND_RETRY_DELAYS_SECONDS
    LookSlack,          \* how late the queue may hand out a due message
    PromptLooks,        \* TRUE: no look at the turn spans a tick of the clock
    MaxFaults           \* bound on redeliveries, lost messages and crashes

ASSUME TurnAssumption ==
    /\ Commands \subseteq Nat
    /\ Kind \in [Commands -> {"quick", "deploy", "other"}]
    /\ {Lifetime, OlderQueuedWait, StampInterval, BusyDelay, BusyLongestDelay,
        ExpiryMargin, SignalGrace, StaleGrace, StaleAfter, LookSlack, MaxFaults}
       \subseteq Nat
    /\ RetryDelays \in Seq(Nat)
    /\ PromptLooks \in BOOLEAN

VARIABLES
    status,      \* command.status
    attempts,    \* command.attempts; each claim also stamps dispatch_started_at,
                 \* so it tells two claims of one command apart
    touched,     \* age of command.updated_at
    sentAge,     \* age of command.sent_at, -1 while it is null
    expiresIn,   \* command.expires_at - now
    takenOver,   \* the row's progress has a `runningSince' key
    handedOver,  \* history: deploys that have left the lane at some time
    queue,       \* the messages of each command on the command queue
    job,         \* what each delivery is doing
    lock,        \* the deliveries whose transaction holds the server row's lock
    sweepPlan,   \* commands the stale sweep found stale and has not written yet
    faults       \* redeliveries, losses and crashes so far

vars == <<status, attempts, touched, sentAge, expiresIn, takenOver, handedOver,
          queue, job, lock, sweepPlan, faults>>

row == <<status, attempts, touched, sentAge, expiresIn, takenOver>>

-----------------------------------------------------------------------------
Terminal == {"finished", "timed_out"}   \* succeeded, failed and cancelled are one
Live == {"dispatching", "sent"}         \* nothing ever writes `acked' or `running'
Statuses == {"none", "queued"} \cup Live \cup Terminal

\* The longest age any guard asks about.
Older(a, b) == IF a > b THEN a ELSE b
Younger(a, b) == IF a < b THEN a ELSE b
AgeCap == Older(Older(OlderQueuedWait, StampInterval + 1),
                Older(SignalGrace, Older(StaleGrace, StaleAfter)))

MaxAttempt == Len(RetryDelays) + 1
Messages == [attempt : 1 .. MaxAttempt, due : Int]

NoJob == [at |-> "idle"]
Jobs == [at : {"loaded", "cleared", "locked", "free", "busy", "claimed"},
         cmd : Commands, attempt : 1 .. MaxAttempt, seen : Statuses, attempts : Nat]

\* The state is well typed.
TypeOK ==
    /\ status \in [Commands -> Statuses]
    /\ attempts \in [Commands -> Nat]
    /\ touched \in [Commands -> Nat]
    /\ sentAge \in [Commands -> Int]
    /\ expiresIn \in [Commands -> Int]
    /\ takenOver \in [Commands -> BOOLEAN]
    /\ handedOver \subseteq Commands
    /\ queue \in [Commands -> SUBSET Messages]
    /\ job \in [Deliveries -> Jobs \cup {NoJob}]
    /\ lock \subseteq Deliveries
    /\ sweepPlan \subseteq Commands
    /\ faults \in Nat

-----------------------------------------------------------------------------
(* The turn check: blockingCommandExists.                                  *)

Open(c) == status[c] \in {"queued"} \cup Live

Quick(c) == Kind[c] = "quick"

\* A sent deploy the server has taken over no longer holds its server's turn.
LeftLane(c) ==
    /\ Kind[c] = "deploy"
    /\ status[c] = "sent"
    /\ takenOver[c] \/ sentAge[c] >= SignalGrace

Holding(c) == ~Quick(c) /\ status[c] \in Live /\ ~LeftLane(c)

\* Mutant: an older command loses its place one look before its last retry is due.
ComesBeforeTooBriefly(o, c) ==
    /\ ~Quick(o)
    /\ status[o] = "queued"
    /\ touched[o] < OlderQueuedWait - 1
    /\ o < c

ComesBefore(o, c) ==
    /\ ~Quick(o)
    /\ status[o] = "queued"
    /\ touched[o] < OlderQueuedWait
    /\ o < c

Blocked(c) == \E o \in Commands \ {c} : Holding(o) \/ ComesBefore(o, c)

\* blockedAndStamped, stampWaiting: a waiting command keeps its place and gets
\* the time it waited back on its expiry, which never comes closer than the floor.
ExpiryFloor == BusyLongestDelay + ExpiryMargin

\* Mutant: a stamp also renews a command that has already started.
StampDueAlways(c) == touched[c] > StampInterval

StampDue(c) == status[c] = "queued" /\ touched[c] > StampInterval

\* Mutant: a stamp keeps the place and forgets the expiry.
StampPlaceOnly(c) ==
    /\ touched' = IF StampDue(c) THEN [touched EXCEPT ![c] = 0] ELSE touched
    /\ UNCHANGED <<status, attempts, sentAge, expiresIn, takenOver>>

StampWaiting(c) ==
    /\ touched' = IF StampDue(c) THEN [touched EXCEPT ![c] = 0] ELSE touched
    /\ expiresIn' = IF StampDue(c)
                    THEN [expiresIn EXCEPT ![c] = Older(@ + touched[c], ExpiryFloor)]
                    ELSE expiresIn
    /\ UNCHANGED <<status, attempts, sentAge, takenOver>>

-----------------------------------------------------------------------------
Init ==
    /\ status = [c \in Commands |-> "none"]
    /\ attempts = [c \in Commands |-> 0]
    /\ touched = [c \in Commands |-> 0]
    /\ sentAge = [c \in Commands |-> -1]
    /\ expiresIn = [c \in Commands |-> 0]
    /\ takenOver = [c \in Commands |-> FALSE]
    /\ handedOver = {}
    /\ queue = [c \in Commands |-> {}]
    /\ job = [d \in Deliveries |-> NoJob]
    /\ lock = {}
    /\ sweepPlan = {}
    /\ faults = 0

\* History: whoever has left the lane in the new state is remembered.
Remember == handedOver' = handedOver \cup {c \in Commands : LeftLane(c)'}

Put(c, attempt, due) == queue' = [queue EXCEPT ![c] = @ \cup {[attempt |-> attempt, due |-> due]}]

EndAs(c, outcomes) == \E s \in outcomes : status' = [status EXCEPT ![c] = s]

\* createCommandRecord and the enqueue that follows; a worker that dies between
\* the two leaves a row without a message.
Create(c) ==
    /\ status[c] = "none"
    /\ \A o \in Commands : o < c => status[o] # "none"
    /\ status' = [status EXCEPT ![c] = "queued"]
    /\ touched' = [touched EXCEPT ![c] = 0]
    /\ expiresIn' = [expiresIn EXCEPT ![c] = Lifetime]
    /\ \/ Put(c, 1, 0) /\ UNCHANGED faults
       \/ faults < MaxFaults /\ faults' = faults + 1 /\ UNCHANGED queue
    /\ UNCHANGED <<attempts, sentAge, takenOver, job, lock, sweepPlan>>

\* serverBusyDelaySeconds: short at first, then the longest.
BusyDelays == {BusyDelay, BusyLongestDelay}

\* A delivery takes a due message off the queue and reads its row (loadOpenCommand).
Take(d, c, m) ==
    /\ job[d] = NoJob
    /\ m \in queue[c]
    /\ m.due <= 0
    /\ queue' = [queue EXCEPT ![c] = @ \ {m}]
    /\ UNCHANGED <<lock, sweepPlan, faults>>

TakeFinished(d, c, m) ==
    /\ Take(d, c, m)
    /\ status[c] \in Terminal
    /\ UNCHANGED <<row, job>>

TakeExpired(d, c, m) ==
    /\ Take(d, c, m)
    /\ Open(c)
    /\ expiresIn[c] < 0
    /\ EndAs(c, Terminal)   \* failed when its managed cluster is gone
    /\ UNCHANGED <<attempts, touched, sentAge, expiresIn, takenOver, job>>

\* resumeIfSent: the wait for a sent command goes on (a deploy is never sent
\* again).  Waiting neither takes nor gives up the turn; what ends it is Finish.
TakeResumed(d, c, m) ==
    /\ Take(d, c, m)
    /\ status[c] = "sent"
    /\ expiresIn[c] >= 0
    /\ UNCHANGED <<row, job>>

TakeOpen(d, c, m) ==
    /\ Take(d, c, m)
    /\ \/ status[c] \in {"queued", "dispatching"}
       \/ status[c] = "sent" /\ Kind[c] # "deploy"   \* its request is gone
    /\ expiresIn[c] >= 0
    /\ job' = [job EXCEPT ![d] = [at |-> "loaded", cmd |-> c, attempt |-> m.attempt,
                                  seen |-> status[c], attempts |-> attempts[c]]]
    /\ UNCHANGED row

\* ServerBusyError: the message goes back, the attempt is not counted.  When the
\* queue does not take it, the broker hands the old one out again at once.
PutBackBusy(d) ==
    /\ \/ \E delay \in BusyDelays : Put(job[d].cmd, job[d].attempt, delay) /\ UNCHANGED faults
       \/ faults < MaxFaults /\ faults' = faults + 1 /\ Put(job[d].cmd, job[d].attempt, 0)
    /\ job' = [job EXCEPT ![d] = NoJob]

\* markClaimed: only if the row is still exactly as this delivery read it.
Unchanged(d) ==
    /\ status[job[d].cmd] = job[d].seen
    /\ status[job[d].cmd] \notin Terminal
    /\ attempts[job[d].cmd] = job[d].attempts

\* Mutant: the claim counts the attempt down.
MarkClaimedCountingDown(d) ==
    LET c == job[d].cmd IN
    /\ Unchanged(d)
    /\ status' = [status EXCEPT ![c] = "dispatching"]
    /\ attempts' = [attempts EXCEPT ![c] = job[d].attempts - 1]
    /\ touched' = [touched EXCEPT ![c] = 0]
    /\ job' = [job EXCEPT ![d].at = "claimed"]
    /\ UNCHANGED <<sentAge, expiresIn, takenOver>>

MarkClaimed(d) ==
    LET c == job[d].cmd IN
    \/ /\ Unchanged(d)
       /\ status' = [status EXCEPT ![c] = "dispatching"]
       /\ attempts' = [attempts EXCEPT ![c] = job[d].attempts + 1]
       /\ touched' = [touched EXCEPT ![c] = 0]
       /\ job' = [job EXCEPT ![d].at = "claimed"]
       /\ UNCHANGED <<sentAge, expiresIn, takenOver>>
    \/ /\ ~Unchanged(d)
       /\ job' = [job EXCEPT ![d] = NoJob]
       /\ UNCHANGED row

ClaimQuick(d) ==
    /\ job[d].at = "loaded"
    /\ Quick(job[d].cmd)
    /\ MarkClaimed(d)
    /\ UNCHANGED <<queue, lock, sweepPlan, faults>>

LookBusy(d) ==
    /\ job[d].at = "loaded"
    /\ ~Quick(job[d].cmd)
    /\ Blocked(job[d].cmd)
    /\ StampWaiting(job[d].cmd)
    /\ PutBackBusy(d)
    /\ UNCHANGED <<lock, sweepPlan>>

LookClear(d) ==
    /\ job[d].at = "loaded"
    /\ ~Quick(job[d].cmd)
    /\ ~Blocked(job[d].cmd)
    /\ job' = [job EXCEPT ![d].at = "cleared"]
    /\ UNCHANGED <<row, queue, lock, sweepPlan, faults>>

\* Mutant: the lock is not waited for.
LockNotWaitedFor(d) ==
    /\ job[d].at = "cleared"
    /\ lock' = lock \cup {d}
    /\ job' = [job EXCEPT ![d].at = "locked"]
    /\ UNCHANGED <<row, queue, sweepPlan, faults>>

\* SELECT ... FOR NO KEY UPDATE on the server's row.
Lock(d) ==
    /\ job[d].at = "cleared"
    /\ lock = {}
    /\ lock' = {d}
    /\ job' = [job EXCEPT ![d].at = "locked"]
    /\ UNCHANGED <<row, queue, sweepPlan, faults>>

LockTimeout(d) ==
    /\ job[d].at = "cleared"
    /\ lock # {}
    /\ job' = [job EXCEPT ![d].at = "busy"]
    /\ UNCHANGED <<row, queue, lock, sweepPlan, faults>>

\* Mutant: what was seen before the lock is trusted under it.
RecheckNotMade(d) ==
    /\ job[d].at = "locked"
    /\ job' = [job EXCEPT ![d].at = "free"]
    /\ UNCHANGED <<row, queue, lock, sweepPlan, faults>>

RecheckClear(d) ==
    /\ job[d].at = "locked"
    /\ ~Blocked(job[d].cmd)
    /\ job' = [job EXCEPT ![d].at = "free"]
    /\ UNCHANGED <<row, queue, lock, sweepPlan, faults>>

RecheckBusy(d) ==
    /\ job[d].at = "locked"
    /\ Blocked(job[d].cmd)
    /\ lock' = lock \ {d}
    /\ job' = [job EXCEPT ![d].at = "busy"]
    /\ UNCHANGED <<row, queue, sweepPlan, faults>>

Claim(d) ==
    /\ job[d].at = "free"
    /\ MarkClaimed(d)
    /\ lock' = lock \ {d}
    /\ UNCHANGED <<queue, sweepPlan, faults>>

StampBusy(d) ==
    /\ job[d].at = "busy"
    /\ StampWaiting(job[d].cmd)
    /\ PutBackBusy(d)
    /\ UNCHANGED <<lock, sweepPlan>>

\* Mutant: the `sent' write does not look whether the command has finished.
SendAnyway(d) ==
    LET c == job[d].cmd IN
    /\ job[d].at = "claimed"
    /\ job' = [job EXCEPT ![d] = NoJob]
    /\ status' = [status EXCEPT ![c] = "sent"]
    /\ sentAge' = [sentAge EXCEPT ![c] = 0]
    /\ touched' = [touched EXCEPT ![c] = 0]
    /\ UNCHANGED <<attempts, expiresIn, takenOver, queue, lock, sweepPlan, faults>>

\* enqueueAndAwaitOutcome: the `sent' write, which does nothing to a finished row
\* and stamps sent_at anew on every other.
Send(d) ==
    LET c == job[d].cmd IN
    /\ job[d].at = "claimed"
    /\ job' = [job EXCEPT ![d] = NoJob]
    /\ IF status[c] \in Terminal
       THEN UNCHANGED row
       ELSE /\ status' = [status EXCEPT ![c] = "sent"]
            /\ sentAge' = [sentAge EXCEPT ![c] = 0]
            /\ touched' = [touched EXCEPT ![c] = 0]
            /\ UNCHANGED <<attempts, expiresIn, takenOver>>
    /\ UNCHANGED <<queue, lock, sweepPlan, faults>>

\* The claimed command cannot be delivered (payload missing, re-seed overtaken,
\* server gone, daemon offline or too old): it is failed.
Refuse(d) ==
    /\ job[d].at = "claimed"
    /\ status' = [status EXCEPT ![job[d].cmd] = "finished"]
    /\ job' = [job EXCEPT ![d] = NoJob]
    /\ UNCHANGED <<attempts, touched, sentAge, expiresIn, takenOver, queue, lock,
                   sweepPlan, faults>>

\* The delivery ends with an error: its transaction is rolled back and
\* settleFailedDelivery decides what becomes of the message.
Fail(d) ==
    /\ job[d] # NoJob
    /\ job' = [job EXCEPT ![d] = NoJob]
    /\ lock' = lock \ {d}
    /\ UNCHANGED <<attempts, touched, sentAge, expiresIn, takenOver, sweepPlan, faults>>

\* decideRetry: a passing error is tried again after the next wait, ...
RetryLater(d) ==
    /\ Fail(d)
    /\ job[d].attempt <= Len(RetryDelays)
    /\ Put(job[d].cmd, job[d].attempt + 1, RetryDelays[job[d].attempt])
    /\ UNCHANGED status

\* ... and when the waits are used up the command is failed, unless it was sent or
\* its request cannot be taken back (failCommandAfterRetries).
GiveUp(d) ==
    /\ Fail(d)
    /\ job[d].attempt > Len(RetryDelays)
    /\ status[job[d].cmd] \notin Terminal
    /\ sentAge[job[d].cmd] = -1 \/ expiresIn[job[d].cmd] < 0
    /\ EndAs(job[d].cmd, Terminal)
    /\ UNCHANGED queue

\* Given up on without a write, or a permanent error: to the dead-letter queue.
DeadLetter(d) ==
    /\ Fail(d)
    /\ UNCHANGED <<status, queue>>

\* The consumer dies, or cannot put its message back: Postgres drops its lock, the
\* broker hands the message out again.
Crash(d) ==
    /\ job[d] # NoJob
    /\ faults < MaxFaults
    /\ faults' = faults + 1
    /\ job' = [job EXCEPT ![d] = NoJob]
    /\ lock' = lock \ {d}
    /\ Put(job[d].cmd, job[d].attempt, 0)
    /\ UNCHANGED <<row, sweepPlan>>

\* At-least-once delivery: a message comes round again (a copy, a late one, or
\* the one of a consumer that died while waiting).
Redeliver(c) ==
    /\ status[c] # "none"
    /\ faults < MaxFaults
    /\ faults' = faults + 1
    /\ Put(c, 1, 0)
    /\ UNCHANGED <<row, job, lock, sweepPlan>>

\* A `command-progress' frame that says running or waiting, from a server that
\* has the command; it can come before the `sent' write.
TakeOver(c) ==
    /\ Kind[c] = "deploy"
    /\ status[c] \in Live
    /\ sentAge[c] >= 0 \/ \E d \in Deliveries : job[d].at = "claimed" /\ job[d].cmd = c
    /\ ~takenOver[c]
    /\ takenOver' = [takenOver EXCEPT ![c] = TRUE]
    /\ touched' = [touched EXCEPT ![c] = 0]
    /\ UNCHANGED <<status, attempts, sentAge, expiresIn, queue, job, lock, sweepPlan, faults>>

\* The outcome of a command that was sent, or a cancel (cancelCommandWhen,
\* cancelOpenReturnFenceStops), which may come at any time.
Finish(c) ==
    /\ Open(c)
    /\ status' = [status EXCEPT ![c] = "finished"]
    /\ UNCHANGED <<attempts, touched, sentAge, expiresIn, takenOver, queue, job, lock,
                   sweepPlan, faults>>

\* sweepStaleCommands reads its candidates, then times each one out whatever
\* became of it since.  A deploy has clocks of its own (isStaleDeploy): here any
\* deploy quiet for the grace may be found stale.
Stale(c) ==
    /\ Open(c)
    /\ touched[c] >= StaleGrace
    /\ \/ Kind[c] = "deploy"
       \/ (IF sentAge[c] >= 0 THEN sentAge[c] ELSE touched[c]) >= StaleAfter

SweepRead ==
    /\ sweepPlan = {}
    /\ \E c \in Commands : Stale(c)
    /\ \E S \in SUBSET {c \in Commands : Stale(c)} :
          sweepPlan' = S \cup {c \in Commands : Stale(c) /\ Kind[c] # "deploy"}
    /\ UNCHANGED <<row, queue, job, lock, faults>>

SweepWrite(c) ==
    /\ c \in sweepPlan
    /\ sweepPlan' = sweepPlan \ {c}
    /\ status' = [status EXCEPT ![c] = "timed_out"]
    /\ UNCHANGED <<attempts, touched, sentAge, expiresIn, takenOver, queue, job, lock, faults>>

\* The clock.  A due message is handed out within LookSlack; nothing asks for
\* the ages of a finished row, which are dropped.
Tick ==
    /\ \A c \in Commands : \A m \in queue[c] : m.due > -LookSlack
    /\ PromptLooks => \A d \in Deliveries : job[d] = NoJob
    /\ touched' = [c \in Commands |-> IF Open(c) THEN Younger(touched[c] + 1, AgeCap)
                                      ELSE 0]
    /\ sentAge' = [c \in Commands |-> IF Open(c) /\ sentAge[c] >= 0
                                      THEN Younger(sentAge[c] + 1, AgeCap) ELSE -1]
    /\ expiresIn' = [c \in Commands |-> IF Open(c) THEN Older(expiresIn[c] - 1, -AgeCap)
                                        ELSE 0]
    /\ queue' = [c \in Commands |-> {[m EXCEPT !.due = @ - 1] : m \in queue[c]}]
    /\ UNCHANGED <<status, attempts, takenOver, job, lock, sweepPlan, faults>>

Work(d) ==
    \/ \E c \in Commands : \E m \in queue[c] :
          TakeFinished(d, c, m) \/ TakeExpired(d, c, m) \/ TakeResumed(d, c, m) \/ TakeOpen(d, c, m)
    \/ ClaimQuick(d) \/ LookBusy(d) \/ LookClear(d) \/ Lock(d) \/ LockTimeout(d)
    \/ RecheckClear(d) \/ RecheckBusy(d) \/ Claim(d) \/ StampBusy(d)
    \/ Send(d) \/ Refuse(d)

Sweep == SweepRead \/ \E c \in Commands : SweepWrite(c)

Step ==
    \/ \E c \in Commands : Create(c) \/ Redeliver(c) \/ TakeOver(c) \/ Finish(c)
    \/ \E d \in Deliveries : Work(d) \/ RetryLater(d) \/ GiveUp(d) \/ DeadLetter(d) \/ Crash(d)
    \/ Sweep
    \/ Tick

Next == Step /\ Remember

\* The consumers keep running, the maintenance tick runs the sweep, time passes.
Fairness ==
    /\ \A d \in Deliveries : WF_vars(Work(d) /\ Remember)
    /\ WF_vars(Sweep /\ Remember)
    /\ WF_vars(Tick /\ Remember)

Spec == Init /\ [][Next]_vars
FairSpec == Spec /\ Fairness

-----------------------------------------------------------------------------
(* The refinement: what the rows and the history say of each command.      *)

Place(c) ==
    IF status[c] \in Terminal \/ c \in handedOver THEN "past"
    ELSE IF Holding(c) THEN "turn" ELSE "waiting"

Line == INSTANCE OneAtATime WITH
            Commands <- Commands,
            Skips <- {c \in Commands : Quick(c)},
            place <- [c \in Commands |-> Place(c)]

\* The queue, the looks, the lock and the clock together keep the promise of
\* OneAtATime: every step takes the turn when nobody has it, leaves it, or
\* changes nothing a command waiting in line could see.
ImplementsOneAtATime == Line!Spec

-----------------------------------------------------------------------------
(* Properties.                                                             *)

\* One command at a time: of the commands whose turn the server has not taken
\* over, at most one is dispatching or sent, however the looks, claims, crashes,
\* copies, cancels and sweeps interleave (server-turn.ts, claimServerTurn).  A
\* deploy handed over may count again for a while, when a second delivery of it
\* writes `sent' anew; it is left out.
TurnExclusive ==
    \A c, o \in Commands \ handedOver : Holding(c) /\ Holding(o) => c = o

\* What TurnExclusive rests on while a claim is under way.  The server row's lock
\* has one owner; what the look under the lock found stays true until the claim is
\* written, though no other step asks for the lock; a claimed command has started,
\* so the `sent' write starts nothing; and history misses no handed over deploy.
Started(c) == status[c] \notin {"none", "queued"}
LockHeld == \A d \in Deliveries : job[d].at \in {"locked", "free"} => lock = {d}
FreeStaysClear ==
    \A d \in Deliveries : job[d].at = "free" =>
        \A o \in Commands \ handedOver : Holding(o) => o = job[d].cmd
ClaimedStarted == \A d \in Deliveries : job[d].at = "claimed" => Started(job[d].cmd)
Remembered == \A c \in Commands : /\ LeftLane(c) => c \in handedOver
                                  /\ c \in handedOver => Started(c)
TurnInv == LockHeld /\ FreeStaysClear /\ ClaimedStarted /\ Remembered /\ TurnExclusive

\* A command that has only waited its turn is alive at every look: the stamps
\* outrun its expiry (server-turn.ts, WAITING_EXPIRY_FLOOR_MS).
WaitingStaysAlive ==
    \A c \in Commands : \A m \in queue[c] :
        status[c] = "queued" /\ m.attempt = 1 /\ m.due <= 0 => expiresIn[c] >= 0

\* Commands start in arrival order: one that starts leaves no older command
\* behind that is still waiting with a message on its way, not even one that is
\* waiting out all its retries (server-turn.ts, OLDER_QUEUED_WAIT_MS).
Waiting(o) == /\ ~Quick(o)
              /\ status[o] = "queued"
              /\ queue[o] # {} \/ \E d \in Deliveries : job[d] # NoJob /\ job[d].cmd = o
Starts(c) == ~Quick(c) /\ status[c] = "queued" /\ status'[c] = "dispatching"
ArrivalOrder ==
    [][\A c, o \in Commands : Starts(c) /\ o < c => ~Waiting(o)]_vars

\* Every command ends, even when its message is lost, its consumer dies, or two
\* commands each find the other ahead: the sweep ends whoever stops being seen.
EveryCommandEnds ==
    \A c \in Commands : status[c] = "queued" ~> status[c] \in Terminal
=============================================================================
