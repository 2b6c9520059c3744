-------------------------- MODULE ServerTurnProofs --------------------------
(***************************************************************************)
(* Proofs about ServerTurn for any number of commands, deliveries and      *)
(* limits.                                                                 *)
(***************************************************************************)
EXTENDS ServerTurn, TLAPS

(***************************************************************************)
(* Type correctness.                                                       *)
(***************************************************************************)

\* The initial state is well typed.
LEMMA TypeInit == Init => TypeOK
  <1> SUFFICES ASSUME Init PROVE TypeOK
    OBVIOUS
  <1>1. job \in [Deliveries -> Jobs \cup {NoJob}]
    BY DEF Init
  <1>2. queue \in [Commands -> SUBSET Messages]
    BY DEF Init
  <1> QED
    BY <1>1, <1>2 DEF Init, TypeOK, Statuses

\* There is at least one attempt, and the attempts before the last have a delay.
LEMMA AttemptType ==
  /\ Len(RetryDelays) \in Nat
  /\ MaxAttempt \in Nat
  /\ 1 \in 1 .. MaxAttempt
  /\ \A a \in 1 .. MaxAttempt :
        a <= Len(RetryDelays) => RetryDelays[a] \in Nat /\ a + 1 \in 1 .. MaxAttempt
  <1>1. RetryDelays \in Seq(Nat)
    BY TurnAssumption
  <1>2. Len(RetryDelays) \in Nat
    BY <1>1
  <1>3. \A a \in 1 .. Len(RetryDelays) : RetryDelays[a] \in Nat
    BY <1>1
  <1> QED
    BY <1>2, <1>3 DEF MaxAttempt

\* Every message a delivery puts back is a message (Put).
LEMMA PutType ==
  ASSUME TypeOK, NEW c \in Commands, NEW a \in 1 .. MaxAttempt, NEW due \in Int, Put(c, a, due)
  PROVE  queue' \in [Commands -> SUBSET Messages]
  <1>1. [attempt |-> a, due |-> due] \in Messages
    BY DEF Messages
  <1> QED
    BY <1>1 DEF TypeOK, Put

\* What a stamp writes to a waiting row is well typed (stampWaiting).
LEMMA StampType ==
  ASSUME TypeOK, NEW c \in Commands, StampWaiting(c)
  PROVE  /\ touched' \in [Commands -> Nat]
         /\ expiresIn' \in [Commands -> Int]
  <1>1. ExpiryFloor \in Int
    BY TurnAssumption DEF ExpiryFloor
  <1>2. expiresIn[c] + touched[c] \in Int
    BY DEF TypeOK
  <1>3. Older(expiresIn[c] + touched[c], ExpiryFloor) \in Int
    BY <1>1, <1>2 DEF Older
  <1>4. CASE StampDue(c)
    BY <1>3, <1>4 DEF TypeOK, StampWaiting
  <1>5. CASE ~StampDue(c)
    BY <1>5 DEF TypeOK, StampWaiting
  <1> QED
    BY <1>4, <1>5

\* The job of a delivery that is not idle is a whole record.
LEMMA JobType ==
  ASSUME TypeOK, NEW d \in Deliveries, job[d] # NoJob
  PROVE  /\ job[d] \in Jobs
         /\ job[d].cmd \in Commands
         /\ job[d].attempt \in 1 .. MaxAttempt
         /\ job[d].attempts \in Nat
         /\ job[d].seen \in Statuses
  <1>1. job[d] \in Jobs
    BY DEF TypeOK
  <1> QED
    BY <1>1 DEF Jobs

\* A delivery that moves on to its next step keeps a whole record.
LEMMA JobMoves ==
  ASSUME TypeOK, NEW d \in Deliveries, job[d] # NoJob,
         NEW a \in {"loaded", "cleared", "locked", "free", "busy", "claimed"},
         job' = [job EXCEPT ![d].at = a]
  PROVE  job' \in [Deliveries -> Jobs \cup {NoJob}]
  <1>1. job[d] \in Jobs
    BY JobType
  <1>2. [job[d] EXCEPT !.at = a] \in Jobs
    BY <1>1 DEF Jobs
  <1> QED
    BY <1>2 DEF TypeOK

\* A delivery that is done is idle.
LEMMA JobEnds ==
  ASSUME TypeOK, NEW d \in Deliveries, job' = [job EXCEPT ![d] = NoJob]
  PROVE  job' \in [Deliveries -> Jobs \cup {NoJob}]
  BY DEF TypeOK

\* Only an idle delivery has no command.
LEMMA NotIdle ==
  ASSUME NEW d \in Deliveries, job[d].at # "idle"
  PROVE  job[d] # NoJob
  BY DEF NoJob
\* Putting a busy command back leaves well typed rows and messages
\* (stampWaiting, then the message goes back).
LEMMA PutBackType ==
  ASSUME TypeOK, NEW d \in Deliveries, job[d] # NoJob,
         StampWaiting(job[d].cmd), PutBackBusy(d), UNCHANGED <<lock, sweepPlan>>, Remember
  PROVE  TypeOK'
  <1>1. job[d].cmd \in Commands /\ job[d].attempt \in 1 .. MaxAttempt
    BY JobType
  <1>2. touched' \in [Commands -> Nat] /\ expiresIn' \in [Commands -> Int]
    BY <1>1, StampType
  <1>3. PICK delay \in BusyDelays \cup {0} : Put(job[d].cmd, job[d].attempt, delay)
    BY DEF PutBackBusy
  <1>4. delay \in Int /\ faults' \in Nat
    BY <1>3, TurnAssumption DEF BusyDelays, PutBackBusy, TypeOK
  <1>5. queue' \in [Commands -> SUBSET Messages]
    BY <1>1, <1>3, <1>4, PutType
  <1>6. job' \in [Deliveries -> Jobs \cup {NoJob}]
    BY JobEnds DEF PutBackBusy
  <1> QED
    BY <1>2, <1>4, <1>5, <1>6 DEF TypeOK, StampWaiting, Remember

\* A claim, won or lost, is well typed (markClaimed).
LEMMA ClaimType ==
  ASSUME TypeOK, NEW d \in Deliveries, job[d] # NoJob, MarkClaimed(d),
         lock' \subseteq lock, UNCHANGED <<queue, sweepPlan, faults>>, Remember
  PROVE  TypeOK'
  <1>1. job[d].cmd \in Commands /\ job[d].attempts \in Nat
    BY JobType
  <1>2. job' \in [Deliveries -> Jobs \cup {NoJob}]
    <2>1. CASE job' = [job EXCEPT ![d].at = "claimed"]
      BY <2>1, JobMoves
    <2>2. CASE job' = [job EXCEPT ![d] = NoJob]
      BY <2>2, JobEnds
    <2> QED
      BY <2>1, <2>2 DEF MarkClaimed
  <1>3. CASE Unchanged(d)
    BY <1>1, <1>2, <1>3 DEF TypeOK, MarkClaimed, Statuses, Live, Remember
  <1>4. CASE ~Unchanged(d)
    BY <1>2, <1>4 DEF TypeOK, MarkClaimed, row, Remember
  <1> QED
    BY <1>3, <1>4

\* The clock keeps every age, expiry and due time an integer (Tick).
LEMMA TickType ==
  ASSUME TypeOK, Tick, Remember
  PROVE  TypeOK'
  <1>1. AgeCap \in Nat
    BY TurnAssumption DEF AgeCap, Older
  <1>2. touched' \in [Commands -> Nat]
    BY <1>1 DEF TypeOK, Tick, Younger
  <1>3. sentAge' \in [Commands -> Int]
    BY <1>1 DEF TypeOK, Tick, Younger
  <1>4. expiresIn' \in [Commands -> Int]
    BY <1>1 DEF TypeOK, Tick, Older
  <1>5. queue' \in [Commands -> SUBSET Messages]
    <2>1. ASSUME NEW c \in Commands, NEW m \in queue[c]
          PROVE  [m EXCEPT !.due = @ - 1] \in Messages
      <3>1. m \in Messages
        BY DEF TypeOK
      <3> QED
        BY <3>1 DEF Messages
    <2> QED
      BY <2>1 DEF Tick
  <1> QED
    BY <1>2, <1>3, <1>4, <1>5 DEF TypeOK, Tick, Remember

\* Every step of a delivery is well typed (Work).
LEMMA WorkType ==
  ASSUME TypeOK, NEW d \in Deliveries, Work(d), Remember
  PROVE  TypeOK'
  <1>1. ASSUME NEW c \in Commands, NEW m \in queue[c],
               \/ TakeFinished(d, c, m) \/ TakeExpired(d, c, m)
               \/ TakeResumed(d, c, m) \/ TakeOpen(d, c, m)
        PROVE  TypeOK'
    <2>1. m \in Messages /\ queue' \in [Commands -> SUBSET Messages]
      BY <1>1 DEF TypeOK, Take, TakeFinished, TakeExpired, TakeResumed, TakeOpen
    <2>2. CASE TakeFinished(d, c, m) \/ TakeResumed(d, c, m)
      BY <2>1, <2>2 DEF TypeOK, Take, TakeFinished, TakeResumed, row, Remember
    <2>3. CASE TakeExpired(d, c, m)
      BY <2>1, <2>3 DEF TypeOK, Take, TakeExpired, EndAs, Statuses, Remember
    <2>4. CASE TakeOpen(d, c, m)
      <3>1. [at |-> "loaded", cmd |-> c, attempt |-> m.attempt,
             seen |-> status[c], attempts |-> attempts[c]] \in Jobs
        BY <2>1 DEF TypeOK, Jobs, Messages
      <3>2. job' \in [Deliveries -> Jobs \cup {NoJob}]
        BY <3>1, <2>4 DEF TypeOK, TakeOpen
      <3> QED
        BY <2>1, <2>4, <3>2 DEF TypeOK, Take, TakeOpen, row, Remember
    <2> QED
      BY <1>1, <2>2, <2>3, <2>4
  <1>2. CASE ClaimQuick(d)
    BY <1>2, NotIdle, ClaimType DEF ClaimQuick
  <1>3. CASE LookBusy(d)
    BY <1>3, NotIdle, PutBackType DEF LookBusy
  <1>4. CASE LookClear(d)
    <2>1. job' \in [Deliveries -> Jobs \cup {NoJob}]
      BY <1>4, NotIdle, JobMoves DEF LookClear
    <2> QED
      BY <1>4, <2>1 DEF TypeOK, LookClear, row, Remember
  <1>5. CASE Lock(d)
    <2>1. job' \in [Deliveries -> Jobs \cup {NoJob}]
      BY <1>5, NotIdle, JobMoves DEF Lock
    <2> QED
      BY <1>5, <2>1 DEF TypeOK, Lock, row, Remember
  <1>6. CASE LockTimeout(d)
    <2>1. job' \in [Deliveries -> Jobs \cup {NoJob}]
      BY <1>6, NotIdle, JobMoves DEF LockTimeout
    <2> QED
      BY <1>6, <2>1 DEF TypeOK, LockTimeout, row, Remember
  <1>7. CASE RecheckClear(d)
    <2>1. job' \in [Deliveries -> Jobs \cup {NoJob}]
      BY <1>7, NotIdle, JobMoves DEF RecheckClear
    <2> QED
      BY <1>7, <2>1 DEF TypeOK, RecheckClear, row, Remember
  <1>8. CASE RecheckBusy(d)
    <2>1. job' \in [Deliveries -> Jobs \cup {NoJob}]
      BY <1>8, NotIdle, JobMoves DEF RecheckBusy
    <2> QED
      BY <1>8, <2>1 DEF TypeOK, RecheckBusy, row, Remember
  <1>9. CASE Claim(d)
    BY <1>9, NotIdle, ClaimType DEF Claim
  <1>10. CASE StampBusy(d)
    BY <1>10, NotIdle, PutBackType DEF StampBusy
  <1>11. CASE Send(d)
    <2>1. job' \in [Deliveries -> Jobs \cup {NoJob}]
      BY <1>11, JobEnds DEF Send
    <2>2. job[d].cmd \in Commands
      BY <1>11, NotIdle, JobType DEF Send
    <2> QED
      BY <1>11, <2>1, <2>2 DEF TypeOK, Send, row, Statuses, Live, Remember
  <1>12. CASE Refuse(d)
    <2>1. job' \in [Deliveries -> Jobs \cup {NoJob}]
      BY <1>12, JobEnds DEF Refuse
    <2> QED
      BY <1>12, <2>1 DEF TypeOK, Refuse, Statuses, Terminal, Remember
  <1> QED
    BY <1>1, <1>2, <1>3, <1>4, <1>5, <1>6, <1>7, <1>8, <1>9, <1>10, <1>11, <1>12 DEF Work

\* Every step keeps the rows, messages and deliveries well typed.
LEMMA TypeNext == TypeOK /\ [Next]_vars => TypeOK'
  <1> SUFFICES ASSUME TypeOK, [Next]_vars PROVE TypeOK'
    OBVIOUS
  <1>1. CASE UNCHANGED vars
    BY <1>1 DEF TypeOK, vars
  <1>2. ASSUME NEW c \in Commands, Create(c), Remember PROVE TypeOK'
    <2>1. queue' \in [Commands -> SUBSET Messages]
      <3>1. CASE Put(c, 1, 0)
        BY <3>1, AttemptType, PutType
      <3>2. CASE UNCHANGED queue
        BY <3>2 DEF TypeOK
      <3> QED
        BY <1>2, <3>1, <3>2 DEF Create
    <2>2. Lifetime \in Int
      BY TurnAssumption
    <2>3. faults' \in Nat
      BY <1>2 DEF TypeOK, Create
    <2> QED
      BY <1>2, <2>1, <2>2, <2>3 DEF TypeOK, Create, Statuses, Remember
  <1>3. ASSUME NEW c \in Commands, Redeliver(c), Remember PROVE TypeOK'
    <2>1. queue' \in [Commands -> SUBSET Messages]
      BY <1>3, AttemptType, PutType DEF Redeliver
    <2> QED
      BY <1>3, <2>1 DEF TypeOK, Redeliver, row, Remember
  <1>4. ASSUME NEW c \in Commands, TakeOver(c), Remember PROVE TypeOK'
    BY <1>4 DEF TypeOK, TakeOver, Remember
  <1>5. ASSUME NEW c \in Commands, Finish(c), Remember PROVE TypeOK'
    BY <1>5 DEF TypeOK, Finish, Statuses, Terminal, Remember
  <1>6. ASSUME NEW d \in Deliveries, RetryLater(d) \/ GiveUp(d) \/ DeadLetter(d), Remember
        PROVE  TypeOK'
    <2>1. job' \in [Deliveries -> Jobs \cup {NoJob}]
      BY <1>6, JobEnds DEF RetryLater, GiveUp, DeadLetter, Fail
    <2>2. job[d].cmd \in Commands /\ job[d].attempt \in 1 .. MaxAttempt
      BY <1>6, JobType DEF RetryLater, GiveUp, DeadLetter, Fail
    <2>3. queue' \in [Commands -> SUBSET Messages]
      <3>1. CASE RetryLater(d)
        <4>1. /\ job[d].attempt + 1 \in 1 .. MaxAttempt
              /\ RetryDelays[job[d].attempt] \in Int
          BY <2>2, <3>1, AttemptType DEF RetryLater
        <4> QED
          BY <2>2, <3>1, <4>1, PutType DEF RetryLater
      <3>2. CASE GiveUp(d) \/ DeadLetter(d)
        BY <3>2 DEF GiveUp, DeadLetter, TypeOK
      <3> QED
        BY <1>6, <3>1, <3>2
    <2>4. status' \in [Commands -> Statuses]
      BY <1>6 DEF TypeOK, RetryLater, GiveUp, DeadLetter, EndAs, Statuses
    <2> QED
      BY <1>6, <2>1, <2>3, <2>4 DEF TypeOK, RetryLater, GiveUp, DeadLetter, Fail, Remember
  <1>7. ASSUME NEW d \in Deliveries, Crash(d), Remember PROVE TypeOK'
    <2>1. job' \in [Deliveries -> Jobs \cup {NoJob}]
      BY <1>7, JobEnds DEF Crash
    <2>2. queue' \in [Commands -> SUBSET Messages]
      BY <1>7, JobType, PutType DEF Crash
    <2> QED
      BY <1>7, <2>1, <2>2 DEF TypeOK, Crash, row, Remember
  <1>8. CASE SweepRead /\ Remember
    BY <1>8 DEF TypeOK, SweepRead, row, Remember
  <1>9. ASSUME NEW c \in Commands, SweepWrite(c), Remember PROVE TypeOK'
    BY <1>9 DEF TypeOK, SweepWrite, Statuses, Terminal, Remember
  <1> QED
    BY <1>1, <1>2, <1>3, <1>4, <1>5, <1>6, <1>7, <1>8, <1>9, WorkType, TickType
    DEF Next, Step, Sweep

\* Every state the turn's rows, messages and deliveries can reach is well typed.
THEOREM TypeCorrect == Spec => []TypeOK
  BY TypeInit, TypeNext, PTL DEF Spec
(***************************************************************************)
(* One command at a time.  Two kinds of step matter to the turn: a claim   *)
(* of a command that has not started, made under the lock, and every other *)
(* step, which starts nobody and brings nobody back.                       *)
(***************************************************************************)

Calm ==
    /\ \A c \in Commands : ~Quick(c) /\ status'[c] \in Live => status[c] \in Live
    /\ \A c \in Commands : status[c] \in Live => status'[c] \in Live \cup Terminal
    /\ \A c \in Commands : status[c] \in Terminal => status'[c] \in Terminal

Starting(d) == Claim(d) /\ Unchanged(d) /\ ~Started(job[d].cmd)

\* A step that leaves the statuses alone is calm.
LEMMA CalmUnchanged ==
  ASSUME UNCHANGED status
  PROVE  Calm
  BY DEF Calm

\* Ending a command is calm.
LEMMA CalmEnd ==
  ASSUME TypeOK, NEW c \in Commands, NEW s \in Terminal, status' = [status EXCEPT ![c] = s]
  PROVE  Calm
  BY DEF Calm, TypeOK, Live, Terminal

\* A claim is calm unless it starts a command that takes turns.
LEMMA CalmClaim ==
  ASSUME TypeOK, NEW d \in Deliveries, job[d] # NoJob, MarkClaimed(d),
         Quick(job[d].cmd) \/ Started(job[d].cmd) \/ ~Unchanged(d)
  PROVE  Calm
  <1>1. job[d].cmd \in Commands
    BY JobType
  <1>2. CASE ~Unchanged(d)
    BY <1>2, CalmUnchanged DEF MarkClaimed, row
  <1>3. CASE Unchanged(d)
    <2>1. /\ status[job[d].cmd] \notin Terminal
          /\ status' = [status EXCEPT ![job[d].cmd] = "dispatching"]
      BY <1>3 DEF Unchanged, MarkClaimed
    <2>2. status[job[d].cmd] \in Live \/ Quick(job[d].cmd)
      BY <1>1, <1>3, <2>1 DEF Started, TypeOK, Statuses
    <2> QED
      BY <1>1, <2>1, <2>2 DEF Calm, TypeOK, Live, Terminal
  <1> QED
    BY <1>2, <1>3

\* Every step is calm or starts a command under the lock.
LEMMA StepKinds ==
  ASSUME TypeOK, ClaimedStarted, Step
  PROVE  Calm \/ \E d \in Deliveries : Starting(d)
  <1>1. ASSUME NEW c \in Commands, Create(c) PROVE Calm
    BY <1>1 DEF Calm, Create, TypeOK, Live, Terminal
  <1>2. ASSUME NEW c \in Commands, Redeliver(c) \/ TakeOver(c) PROVE Calm
    BY <1>2, CalmUnchanged DEF Redeliver, TakeOver, row
  <1>3. ASSUME NEW c \in Commands, Finish(c) PROVE Calm
    BY <1>3, CalmEnd DEF Finish, Terminal
  <1>4. ASSUME NEW d \in Deliveries, RetryLater(d) \/ GiveUp(d) \/ DeadLetter(d) PROVE Calm
    <2>1. job[d].cmd \in Commands
      BY <1>4, JobType DEF RetryLater, GiveUp, DeadLetter, Fail
    <2>2. CASE UNCHANGED status
      BY <2>2, CalmUnchanged
    <2>3. CASE GiveUp(d)
      BY <2>1, <2>3, CalmEnd DEF GiveUp, EndAs
    <2> QED
      BY <1>4, <2>2, <2>3 DEF RetryLater, DeadLetter
  <1>5. ASSUME NEW d \in Deliveries, Crash(d) PROVE Calm
    BY <1>5, CalmUnchanged DEF Crash, row
  <1>6. CASE Sweep
    BY <1>6, CalmUnchanged, CalmEnd DEF Sweep, SweepRead, SweepWrite, row, Terminal
  <1>7. CASE Tick
    BY <1>7, CalmUnchanged DEF Tick
  <1>8. ASSUME NEW d \in Deliveries, Work(d) PROVE Calm \/ Starting(d)
    <2>1. ASSUME NEW c \in Commands, NEW m \in queue[c],
                 \/ TakeFinished(d, c, m) \/ TakeExpired(d, c, m)
                 \/ TakeResumed(d, c, m) \/ TakeOpen(d, c, m)
          PROVE  Calm
      BY <2>1, CalmUnchanged, CalmEnd
      DEF TakeFinished, TakeExpired, TakeResumed, TakeOpen, EndAs, row
    <2>2. CASE ClaimQuick(d)
      BY <2>2, NotIdle, CalmClaim DEF ClaimQuick
    <2>3. CASE LookBusy(d) \/ StampBusy(d)
      BY <2>3, CalmUnchanged DEF LookBusy, StampBusy, StampWaiting
    <2>4. CASE LookClear(d) \/ Lock(d) \/ LockTimeout(d) \/ RecheckClear(d) \/ RecheckBusy(d)
      BY <2>4, CalmUnchanged DEF LookClear, Lock, LockTimeout, RecheckClear, RecheckBusy, row
    <2>5. CASE Claim(d)
      BY <2>5, NotIdle, CalmClaim DEF Claim, Starting
    <2>6. CASE Send(d)
      <3>1. job[d].cmd \in Commands /\ Started(job[d].cmd)
        BY <2>6, NotIdle, JobType DEF Send, ClaimedStarted
      <3>2. CASE status[job[d].cmd] \in Terminal
        BY <2>6, <3>2, CalmUnchanged DEF Send, row
      <3>3. CASE status[job[d].cmd] \notin Terminal
        <4>1. status[job[d].cmd] \in Live
          BY <3>1, <3>3 DEF Started, TypeOK, Statuses
        <4>2. status' = [status EXCEPT ![job[d].cmd] = "sent"]
          BY <2>6, <3>3 DEF Send
        <4> QED
          BY <3>1, <3>3, <4>1, <4>2 DEF Calm, TypeOK, Live, Terminal
      <3> QED
        BY <3>2, <3>3
    <2>7. CASE Refuse(d)
      <3>1. job[d].cmd \in Commands
        BY <2>7, NotIdle, JobType DEF Refuse
      <3> QED
        BY <2>7, <3>1, CalmEnd DEF Refuse, Terminal
    <2> QED
      BY <1>8, <2>1, <2>2, <2>3, <2>4, <2>5, <2>6, <2>7 DEF Work
  <1> QED
    BY <1>1, <1>2, <1>3, <1>4, <1>5, <1>6, <1>7, <1>8 DEF Step

\* A calm step gives the turn to nobody who has not left the lane before.
LEMMA NoNewHolder ==
  ASSUME Remembered, Remember, Calm, NEW c \in Commands, Holding(c)', c \notin handedOver'
  PROVE  Holding(c) /\ c \notin handedOver
  <1>1. c \notin handedOver /\ ~LeftLane(c)
    BY DEF Remember, Remembered
  <1>2. ~Quick(c) /\ status'[c] \in Live
    BY DEF Holding, Quick
  <1>3. status[c] \in Live
    BY <1>2 DEF Calm
  <1> QED
    BY <1>1, <1>2, <1>3 DEF Holding

\* History keeps up with every step.
LEMMA RememberedNext ==
  ASSUME TypeOK, Remembered, Remember, Calm \/ \E d \in Deliveries : Starting(d)
  PROVE  Remembered'
  <1>1. ASSUME NEW c \in Commands, LeftLane(c)' PROVE c \in handedOver'
    BY <1>1 DEF Remember
  <1>2. ASSUME NEW c \in Commands, c \in handedOver' PROVE Started(c)'
    <2>1. CASE LeftLane(c)'
      BY <2>1 DEF LeftLane, Started
    <2>2. CASE ~LeftLane(c)'
      <3>1. c \in handedOver
        BY <1>2, <2>2 DEF Remember
      <3>2. Started(c) /\ (status[c] \in Live \/ status[c] \in Terminal)
        BY <3>1 DEF Remembered, Started, TypeOK, Statuses
      <3>3. CASE Calm
        BY <3>2, <3>3 DEF Calm, Started, Live, Terminal
      <3>4. ASSUME NEW d \in Deliveries, Starting(d) PROVE Started(c)'
        BY <3>2, <3>4 DEF Starting, Claim, MarkClaimed, Started, row, TypeOK
      <3> QED
        BY <3>3, <3>4
    <2> QED
      BY <2>1, <2>2
  <1> QED
    BY <1>1, <1>2 DEF Remembered
\* What a step does to one delivery and to the lock: everyone else stays put, and
\* the lock is taken only when it is free.
Moves(d) ==
    /\ \A e \in Deliveries \ {d} : job'[e] = job[e]
    /\ \/ lock' \in {lock, lock \ {d}} /\ job'[d].at \notin {"locked", "free"}
       \/ lock' = lock /\ job[d].at = "locked"
       \/ lock = {} /\ lock' = {d}

\* Every step moves at most one delivery.
LEMMA OneMoves ==
  ASSUME TypeOK, Step
  PROVE  \/ UNCHANGED <<job, lock>>
         \/ \E d \in Deliveries : Moves(d)
  <1>1. ASSUME NEW c \in Commands, Create(c) \/ Redeliver(c) \/ TakeOver(c) \/ Finish(c)
        PROVE  UNCHANGED <<job, lock>>
    BY <1>1 DEF Create, Redeliver, TakeOver, Finish
  <1>2. ASSUME NEW d \in Deliveries, RetryLater(d) \/ GiveUp(d) \/ DeadLetter(d) \/ Crash(d)
        PROVE  Moves(d)
    BY <1>2 DEF RetryLater, GiveUp, DeadLetter, Fail, Crash, Moves, TypeOK, NoJob
  <1>3. CASE Sweep \/ Tick
    BY <1>3 DEF Sweep, SweepRead, SweepWrite, Tick
  <1>4. ASSUME NEW d \in Deliveries, Work(d)
        PROVE  UNCHANGED <<job, lock>> \/ Moves(d)
    <2>1. ASSUME NEW c \in Commands, NEW m \in queue[c],
                 \/ TakeFinished(d, c, m) \/ TakeExpired(d, c, m)
                 \/ TakeResumed(d, c, m) \/ TakeOpen(d, c, m)
          PROVE  UNCHANGED <<job, lock>> \/ Moves(d)
      BY <2>1 DEF Take, TakeFinished, TakeExpired, TakeResumed, TakeOpen, Moves, TypeOK
    <2>2. CASE ClaimQuick(d) \/ Claim(d)
      <3>1. lock' \in {lock, lock \ {d}}
        BY <2>2 DEF ClaimQuick, Claim
      <3>2. \/ job' = [job EXCEPT ![d].at = "claimed"]
            \/ job' = [job EXCEPT ![d] = NoJob]
        BY <2>2 DEF ClaimQuick, Claim, MarkClaimed
      <3>3. job[d] \in Jobs
        BY <2>2, NotIdle, JobType DEF ClaimQuick, Claim
      <3>4. job'[d].at \notin {"locked", "free"}
        BY <3>2, <3>3 DEF TypeOK, NoJob, Jobs
      <3> QED
        BY <3>1, <3>2, <3>4 DEF Moves, TypeOK
    <2>3. CASE LookBusy(d) \/ StampBusy(d)
      BY <2>3 DEF LookBusy, StampBusy, PutBackBusy, Moves, TypeOK, NoJob
    <2>4. CASE LookClear(d) \/ LockTimeout(d)
      BY <2>4, NotIdle, JobType DEF LookClear, LockTimeout, Moves, TypeOK, Jobs
    <2>5. CASE Lock(d) \/ RecheckClear(d)
      BY <2>5 DEF Lock, RecheckClear, Moves, TypeOK
    <2>6. CASE RecheckBusy(d)
      BY <2>6, NotIdle, JobType DEF RecheckBusy, Moves, TypeOK, Jobs
    <2>7. CASE Send(d) \/ Refuse(d)
      BY <2>7 DEF Send, Refuse, Moves, TypeOK, NoJob
    <2> QED
      BY <1>4, <2>1, <2>2, <2>3, <2>4, <2>5, <2>6, <2>7 DEF Work
  <1> QED
    BY <1>1, <1>2, <1>3, <1>4 DEF Step

\* The lock has one owner after every step.
LEMMA LockHeldNext ==
  ASSUME TypeOK, TypeOK', LockHeld, Step
  PROVE  LockHeld'
  <1>1. CASE UNCHANGED <<job, lock>>
    BY <1>1 DEF LockHeld
  <1>2. ASSUME NEW d \in Deliveries, Moves(d) PROVE LockHeld'
    <2>1. ASSUME NEW e \in Deliveries \ {d}, job'[e].at \in {"locked", "free"}
          PROVE  lock' = {e}
      <3>1. lock = {e}
        BY <1>2, <2>1 DEF Moves, LockHeld
      <3> QED
        BY <1>2, <3>1 DEF Moves
    <2>2. ASSUME job'[d].at \in {"locked", "free"} PROVE lock' = {d}
      BY <1>2, <2>2 DEF Moves, LockHeld
    <2> QED
      BY <2>1, <2>2 DEF LockHeld
  <1> QED
    BY <1>1, <1>2, OneMoves
\* A delivery that is `free' after a step was free before it, on the same command,
\* or has just found nobody in its way.
LEMMA FreeFrom ==
  ASSUME TypeOK, Step, NEW e \in Deliveries, job'[e].at = "free"
  PROVE  \/ job'[e] = job[e]
         \/ RecheckClear(e) /\ job'[e].cmd = job[e].cmd
  <1>1. ASSUME NEW d \in Deliveries, job' = [job EXCEPT ![d] = NoJob]
        PROVE  job'[e] = job[e]
    BY <1>1 DEF TypeOK, NoJob
  <1>2. ASSUME NEW d \in Deliveries, job[d] # NoJob,
               NEW a \in {"cleared", "locked", "busy", "claimed"},
               job' = [job EXCEPT ![d].at = a]
        PROVE  job'[e] = job[e]
    <2>1. job[d] \in Jobs
      BY <1>2, JobType
    <2> QED
      BY <1>2, <2>1 DEF TypeOK, Jobs
  <1>3. ASSUME NEW d \in Deliveries, RetryLater(d) \/ GiveUp(d) \/ DeadLetter(d) \/ Crash(d)
        PROVE  job'[e] = job[e]
    BY <1>1, <1>3 DEF RetryLater, GiveUp, DeadLetter, Fail, Crash
  <1>4. CASE \/ Sweep \/ Tick
             \/ \E c \in Commands : Create(c) \/ Redeliver(c) \/ TakeOver(c) \/ Finish(c)
    BY <1>4 DEF Sweep, SweepRead, SweepWrite, Tick, Create, Redeliver, TakeOver, Finish
  <1>5. ASSUME NEW d \in Deliveries, Work(d)
        PROVE  job'[e] = job[e] \/ (RecheckClear(e) /\ job'[e].cmd = job[e].cmd)
    <2>1. ASSUME NEW c \in Commands, NEW m \in queue[c],
                 \/ TakeFinished(d, c, m) \/ TakeExpired(d, c, m)
                 \/ TakeResumed(d, c, m) \/ TakeOpen(d, c, m)
          PROVE  job'[e] = job[e]
      BY <2>1 DEF TakeFinished, TakeExpired, TakeResumed, TakeOpen, TypeOK
    <2>2. CASE ClaimQuick(d) \/ Claim(d)
      BY <1>1, <1>2, <2>2, NotIdle DEF ClaimQuick, Claim, MarkClaimed
    <2>3. CASE LookBusy(d) \/ StampBusy(d) \/ Send(d) \/ Refuse(d)
      BY <1>1, <2>3 DEF LookBusy, StampBusy, PutBackBusy, Send, Refuse
    <2>4. CASE LookClear(d) \/ LockTimeout(d) \/ Lock(d) \/ RecheckBusy(d)
      BY <1>2, <2>4, NotIdle DEF LookClear, LockTimeout, Lock, RecheckBusy
    <2>5. CASE RecheckClear(d)
      <3>1. job[d] \in Jobs
        BY <2>5, NotIdle, JobType DEF RecheckClear
      <3> QED
        BY <2>5, <3>1 DEF RecheckClear, TypeOK, Jobs
    <2> QED
      BY <1>5, <2>1, <2>2, <2>3, <2>4, <2>5 DEF Work
  <1> QED
    BY <1>3, <1>4, <1>5 DEF Step

\* What the look under the lock found stays true until the claim is written.
LEMMA FreeStaysClearNext ==
  ASSUME TypeOK, TurnInv, Step, Remember
  PROVE  FreeStaysClear'
  <1> SUFFICES ASSUME NEW e \in Deliveries, job'[e].at = "free",
                      NEW o \in Commands, o \notin handedOver', Holding(o)'
               PROVE  o = job'[e].cmd
    BY DEF FreeStaysClear
  <1>1. CASE Calm
    <2>1. Holding(o) /\ o \notin handedOver
      BY <1>1, NoNewHolder DEF TurnInv
    <2>2. CASE job'[e] = job[e]
      BY <2>1, <2>2 DEF TurnInv, FreeStaysClear
    <2>3. CASE RecheckClear(e) /\ job'[e].cmd = job[e].cmd
      BY <2>1, <2>3 DEF RecheckClear, Blocked
    <2> QED
      BY <2>2, <2>3, FreeFrom
  <1>2. ASSUME NEW d \in Deliveries, Starting(d) PROVE FALSE
    <2>1. job[d].at = "free" /\ (job' = [job EXCEPT ![d].at = "claimed"])
      BY <1>2 DEF Starting, Claim, MarkClaimed
    <2>2. job[d] \in Jobs
      BY <2>1, NotIdle, JobType
    <2>3. d # e
      BY <2>1, <2>2 DEF TypeOK, Jobs
    <2>4. job[e].at = "free"
      BY <2>1, <2>3 DEF TypeOK
    <2> QED
      BY <2>1, <2>3, <2>4 DEF TurnInv, LockHeld
  <1> QED
    BY <1>1, <1>2, StepKinds DEF TurnInv

\* A claimed command stays started.
LEMMA ClaimedStartedNext ==
  ASSUME TypeOK, TurnInv, Step
  PROVE  ClaimedStarted'
  <1> SUFFICES ASSUME NEW e \in Deliveries, job'[e].at = "claimed"
               PROVE  Started(job[e].cmd)'
    BY DEF ClaimedStarted
  <1>1. CASE job'[e] = job[e]
    <2>1. job[e].cmd \in Commands /\ Started(job[e].cmd)
      BY <1>1, NotIdle, JobType DEF TurnInv, ClaimedStarted
    <2>2. CASE Calm
      BY <1>1, <2>1, <2>2 DEF Calm, Started, TypeOK, Statuses, Live, Terminal
    <2>3. ASSUME NEW d \in Deliveries, Starting(d) PROVE Started(job[e].cmd)'
      BY <1>1, <2>1, <2>3 DEF Starting, Claim, MarkClaimed, Started, TypeOK
    <2> QED
      BY <2>2, <2>3, StepKinds DEF TurnInv
  <1>2. CASE job'[e] # job[e]
    <2>1. ClaimQuick(e) \/ Claim(e)
      <3>1. ASSUME NEW d \in Deliveries, job' = [job EXCEPT ![d] = NoJob]
            PROVE  FALSE
        BY <1>2, <3>1 DEF TypeOK, NoJob
      <3>2. ASSUME NEW d \in Deliveries, job[d] # NoJob,
                   NEW a \in {"cleared", "locked", "busy", "free"},
                   job' = [job EXCEPT ![d].at = a]
            PROVE  FALSE
        BY <1>2, <3>2, JobType DEF TypeOK, Jobs
      <3>3. ASSUME NEW d \in Deliveries, ClaimQuick(d) \/ Claim(d)
            PROVE  d = e
        BY <1>2, <3>3 DEF ClaimQuick, Claim, MarkClaimed, TypeOK
      <3>4. ASSUME NEW d \in Deliveries, Work(d)
            PROVE  ClaimQuick(e) \/ Claim(e)
        <4>1. ASSUME NEW c \in Commands, NEW m \in queue[c],
                     \/ TakeFinished(d, c, m) \/ TakeExpired(d, c, m)
                     \/ TakeResumed(d, c, m) \/ TakeOpen(d, c, m)
              PROVE  FALSE
          BY <1>2, <4>1 DEF TakeFinished, TakeExpired, TakeResumed, TakeOpen, TypeOK
        <4>2. CASE LookBusy(d) \/ StampBusy(d) \/ Send(d) \/ Refuse(d)
          BY <3>1, <4>2 DEF LookBusy, StampBusy, PutBackBusy, Send, Refuse
        <4>3. CASE LookClear(d) \/ LockTimeout(d) \/ Lock(d) \/ RecheckBusy(d) \/ RecheckClear(d)
          BY <3>2, <4>3, NotIdle DEF LookClear, LockTimeout, Lock, RecheckBusy, RecheckClear
        <4> QED
          BY <3>3, <3>4, <4>1, <4>2, <4>3 DEF Work
      <3>5. ASSUME NEW d \in Deliveries, RetryLater(d) \/ GiveUp(d) \/ DeadLetter(d) \/ Crash(d)
            PROVE  FALSE
        BY <3>1, <3>5 DEF RetryLater, GiveUp, DeadLetter, Fail, Crash
      <3>6. CASE \/ Sweep \/ Tick
                 \/ \E c \in Commands : Create(c) \/ Redeliver(c) \/ TakeOver(c) \/ Finish(c)
        BY <1>2, <3>6
        DEF Sweep, SweepRead, SweepWrite, Tick, Create, Redeliver, TakeOver, Finish
      <3> QED
        BY <3>4, <3>5, <3>6 DEF Step
    <2>2. MarkClaimed(e) /\ job[e] # NoJob
      BY <2>1, NotIdle DEF ClaimQuick, Claim
    <2>3. job[e] \in Jobs /\ job[e].cmd \in Commands
      BY <2>2, JobType
    <2>4. Unchanged(e)
      BY <2>2 DEF MarkClaimed, TypeOK, NoJob
    <2> QED
      BY <2>2, <2>3, <2>4 DEF MarkClaimed, Started, TypeOK, Jobs
  <1> QED
    BY <1>1, <1>2
\* No step lets two commands have the turn.
LEMMA TurnExclusiveNext ==
  ASSUME TypeOK, TurnInv, Step, Remember
  PROVE  TurnExclusive'
  <1> SUFFICES ASSUME NEW c \in Commands, NEW o \in Commands,
                      c \notin handedOver', o \notin handedOver', Holding(c)', Holding(o)'
               PROVE  c = o
    BY DEF TurnExclusive
  <1>1. CASE Calm
    BY <1>1, NoNewHolder DEF TurnInv, TurnExclusive
  <1>2. ASSUME NEW d \in Deliveries, Starting(d) PROVE c = o
    <2>1. /\ job[d].at = "free"
          /\ status' = [status EXCEPT ![job[d].cmd] = "dispatching"]
          /\ UNCHANGED <<sentAge, takenOver>>
      BY <1>2 DEF Starting, Claim, MarkClaimed
    <2>2. ASSUME NEW p \in Commands, p \notin handedOver', Holding(p)' PROVE p = job[d].cmd
      <3>1. SUFFICES ASSUME p # job[d].cmd PROVE FALSE
        OBVIOUS
      <3>2. p \notin handedOver
        BY <2>2 DEF Remember
      <3>3. status'[p] = status[p]
        BY <2>1, <3>1 DEF TypeOK
      <3>4. Holding(p)
        BY <2>1, <2>2, <3>3 DEF Holding, LeftLane, Quick
      <3> QED
        BY <2>1, <3>1, <3>2, <3>4 DEF TurnInv, FreeStaysClear
    <2> QED
      BY <2>2
  <1> QED
    BY <1>1, <1>2, StepKinds DEF TurnInv

\* Init establishes what the turn rests on.
LEMMA TurnInit == Init => TurnInv
  BY DEF Init, TurnInv, LockHeld, FreeStaysClear, ClaimedStarted, Remembered, TurnExclusive,
         NoJob, Holding, LeftLane, Live

\* Every step keeps what the turn rests on.
LEMMA TurnNext == TypeOK /\ TypeOK' /\ TurnInv /\ [Next]_vars => TurnInv'
  <1> SUFFICES ASSUME TypeOK, TypeOK', TurnInv, [Next]_vars PROVE TurnInv'
    OBVIOUS
  <1>1. CASE UNCHANGED vars
    BY <1>1 DEF vars, TurnInv, LockHeld, FreeStaysClear, ClaimedStarted, Started, Remembered,
                TurnExclusive, Holding, LeftLane, Quick
  <1>2. CASE Step /\ Remember
    <2>1. LockHeld'
      BY <1>2, LockHeldNext DEF TurnInv
    <2>2. FreeStaysClear'
      BY <1>2, FreeStaysClearNext
    <2>3. ClaimedStarted'
      BY <1>2, ClaimedStartedNext
    <2>4. Remembered'
      BY <1>2, RememberedNext, StepKinds DEF TurnInv
    <2>5. TurnExclusive'
      BY <1>2, TurnExclusiveNext
    <2> QED
      BY <2>1, <2>2, <2>3, <2>4, <2>5 DEF TurnInv
  <1> QED
    BY <1>1, <1>2 DEF Next

\* The inductive invariant holds of every reachable state: whatever deliveries,
\* crashes, copies, cancels, sweeps and the clock do, the lock has one owner and
\* what the look under it found stays true until the claim is written.
THEOREM TurnInvHolds == Spec => []TurnInv
  BY TypeInit, TypeNext, TurnInit, TurnNext, PTL DEF Spec

\* At most one command of a server has the turn (server-turn.ts), for any number
\* of commands, deliveries and faults and any length of the limits.
THEOREM TurnIsExclusive == Spec => []TurnExclusive
  <1>1. TurnInv => TurnExclusive
    BY DEF TurnInv
  <1> QED
    BY <1>1, TurnInvHolds, PTL

(***************************************************************************)
(* The turn implements OneAtATime.                                         *)
(***************************************************************************)

\* A calm step moves commands from anywhere to past the turn, and nowhere else.
LEMMA CalmLeaves ==
  ASSUME TypeOK, TypeOK', Remembered, Remembered', Remember, Calm
  PROVE  Line!Next
  <1> DEFINE S == {c \in Commands : Place(c)' = "past" /\ Place(c) # "past"}
  <1>1. ASSUME NEW c \in Commands, Place(c) = "past" PROVE Place(c)' = "past"
    BY <1>1 DEF Place, Calm, Remember
  <1>2. ASSUME NEW c \in Commands, Place(c) = "turn", Place(c)' # "past"
        PROVE  Place(c)' = "turn"
    <2>1. Holding(c) /\ c \notin handedOver'  /\ status'[c] \notin Terminal
      BY <1>2 DEF Place
    <2>2. status'[c] \in Live
      BY <2>1 DEF Holding, Calm
    <2>3. ~LeftLane(c)'
      BY <2>1 DEF Remembered
    <2>4. Holding(c)'
      BY <2>1, <2>2, <2>3 DEF Holding, Quick
    <2> QED
      BY <2>1, <2>4 DEF Place
  <1>3. ASSUME NEW c \in Commands, Place(c) = "waiting", Place(c)' # "past"
        PROVE  Place(c)' = "waiting"
    <2>1. c \notin handedOver' /\ status'[c] \notin Terminal
      BY <1>3 DEF Place
    <2>2. ~Holding(c)
      BY <1>3 DEF Place
    <2>3. ~Holding(c)'
      BY <2>1, <2>2, NoNewHolder
    <2> QED
      BY <2>1, <2>3 DEF Place
  <1>4. \A c \in Commands : Place(c) \in {"past", "turn", "waiting"}
    BY DEF Place
  <1>5. ASSUME NEW c \in Commands
        PROVE  Place(c)' = IF c \in S THEN "past" ELSE Place(c)
    <2>1. CASE c \in S
      BY <2>1
    <2>2. CASE c \notin S
      BY <1>1, <1>2, <1>3, <1>4, <2>2
    <2> QED
      BY <2>1, <2>2
  <1>6. Line!Leave(S)
    BY <1>5 DEF Line!Leave
  <1> QED
    BY <1>6 DEF Line!Next

\* A claim under the lock takes the turn while nobody has it.
LEMMA StartingStarts ==
  ASSUME TypeOK, TurnInv, Remember, NEW d \in Deliveries, Starting(d),
         NEW k \in Commands, k = job[d].cmd, ~Quick(k)
  PROVE  Line!Next
  <1>1. /\ job[d].at = "free"
        /\ status' = [status EXCEPT ![k] = "dispatching"]
        /\ UNCHANGED <<sentAge, takenOver>>
    BY DEF Starting, Claim, MarkClaimed
  <1>2. status[k] \in {"none", "queued"} /\ k \notin handedOver
    BY DEF Starting, Started, TurnInv, Remembered
  <1>3. handedOver' = handedOver
    <2>1. ASSUME NEW o \in Commands, LeftLane(o)' PROVE o \in handedOver
      <3>1. o # k
        BY <1>1, <2>1 DEF LeftLane, TypeOK
      <3>2. LeftLane(o)
        BY <1>1, <2>1, <3>1 DEF LeftLane, TypeOK
      <3> QED
        BY <3>2 DEF TurnInv, Remembered
    <2> QED
      BY <2>1 DEF Remember
  <1>4. Place(k) = "waiting" /\ Place(k)' = "turn"
    <2>1. ~LeftLane(k)'
      BY <1>1 DEF LeftLane, TypeOK
    <2>2. status'[k] = "dispatching"
      BY <1>1 DEF TypeOK
    <2>3. k \notin handedOver'
      BY <1>2, <1>3
    <2>4. Place(k)' = "turn"
      BY <2>1, <2>2, <2>3 DEF Place, Holding, Live, Terminal, Quick
    <2> QED
      BY <1>2, <2>4 DEF Place, Holding, Live, Terminal
  <1>5. ASSUME NEW o \in Commands, o # k PROVE Place(o)' = Place(o) /\ Place(o) # "turn"
    <2>1. status'[o] = status[o]
      BY <1>1, <1>5 DEF TypeOK
    <2>2. Place(o)' = Place(o)
      BY <1>1, <1>3, <2>1 DEF Place, Holding, LeftLane, Quick
    <2>3. Place(o) # "turn"
      BY <1>1, <1>5 DEF Place, TurnInv, FreeStaysClear
    <2> QED
      BY <2>2, <2>3
  <1>6. Line!Start(k)
    BY <1>4, <1>5 DEF Line!Start
  <1> QED
    BY <1>6 DEF Line!Next

\* Every behaviour of the queue, the looks, the lock and the clock is one of
\* OneAtATime: each step starts a command while nobody has the turn, moves
\* commands past it, or changes nothing the line can see (claimServerTurn).
THEOREM TurnImplementsOneAtATime == Spec => ImplementsOneAtATime
  <1>1. Init => Line!Init
    BY DEF Init, Line!Init, Place, Holding, Live, Terminal
  <1>2. TypeOK /\ TypeOK' /\ TurnInv /\ TurnInv' /\ [Next]_vars
        => [Line!Next]_[c \in Commands |-> Place(c)]
    <2> SUFFICES ASSUME TypeOK, TypeOK', TurnInv, TurnInv', [Next]_vars
                 PROVE  [Line!Next]_[c \in Commands |-> Place(c)]
      OBVIOUS
    <2>1. CASE UNCHANGED vars
      BY <2>1 DEF vars, Place, Holding, LeftLane, Quick
    <2>2. CASE (Step /\ Remember) /\ Calm
      BY <2>2, CalmLeaves DEF TurnInv
    <2>3. CASE (Step /\ Remember) /\ ~Calm
      <3>1. PICK d \in Deliveries : Starting(d)
        BY <2>3, StepKinds DEF TurnInv
      <3>2. ~Quick(job[d].cmd)
        BY <2>3, <3>1, NotIdle, CalmClaim DEF Starting, Claim
      <3>3. job[d].cmd \in Commands
        BY <3>1, NotIdle, JobType DEF Starting, Claim
      <3> QED
        BY <2>3, <3>1, <3>2, <3>3, StartingStarts
    <2> QED
      BY <2>1, <2>2, <2>3 DEF Next
  <1> QED
    BY <1>1, <1>2, TypeCorrect, TurnInvHolds, PTL DEF Spec, ImplementsOneAtATime, Line!Spec
=============================================================================
