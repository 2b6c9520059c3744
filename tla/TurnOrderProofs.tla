--------------------------- MODULE TurnOrderProofs ---------------------------
(***************************************************************************)
(* Proofs about the clocks of ServerTurn: waiting neither lets a command   *)
(* expire nor loses it its place, for any number of commands, deliveries   *)
(* and retries, when the limits are related as those of the code are and   *)
(* no message is lost, copied or dies with its consumer.                   *)
(***************************************************************************)
EXTENDS ServerTurnProofs
-----------------------------------------------------------------------------
(* A message belongs to a command there is, and is handed out in time.     *)

LineInv ==
    /\ \A c \in Commands : \A m \in queue[c] : status[c] # "none" /\ m.due >= -LookSlack
    /\ \A d \in Deliveries : job[d] # NoJob => status[job[d].cmd] # "none"
    /\ \A c, o \in Commands : o < c /\ status[c] # "none" => status[o] # "none"
    /\ \A c \in sweepPlan : status[c] # "none"

-----------------------------------------------------------------------------
(* Waiting does not let a command expire.                                  *)

\* What a command has left, less the time since its last stamp, is at least this ...
Span == Younger(Lifetime, ExpiryFloor)

AliveInv ==
    /\ \A c \in Commands : status[c] = "queued" /\ touched[c] < AgeCap =>
          expiresIn[c] + touched[c] >= Span
    /\ \A c \in Commands : \A m \in queue[c] : status[c] = "queued" /\ m.attempt = 1 =>
          expiresIn[c] - m.due >= Span - StampInterval - BusyLongestDelay

-----------------------------------------------------------------------------
(* Waiting does not lose a command its place.                              *)

\* How old its last stamp can be when a message of the given attempt is looked at.
PlaceInv(reach) ==
    /\ \A c \in Commands : \A m \in queue[c] : status[c] = "queued" =>
          touched[c] + m.due + LookSlack <= reach[m.attempt]
    /\ \A d \in Deliveries : job[d] # NoJob /\ status[job[d].cmd] = "queued" =>
          touched[job[d].cmd] <= reach[job[d].attempt]

\* What the look under the lock found stays true until the claim is written.
NobodyAhead ==
    \A d \in Deliveries : job[d].at = "free" =>
        \A o \in Commands : o < job[d].cmd => ~Waiting(o)

-----------------------------------------------------------------------------
(* The kinds of step, as a command waiting in line sees them.              *)

\* A step that leaves the rows that wait, adds no message, and moves deliveries on or
\* hands one a message that is due.
Settles ==
    \A c \in Commands :
        /\ status'[c] = "queued" =>
              status[c] = "queued" /\ touched'[c] = touched[c] /\ expiresIn'[c] = expiresIn[c]
        /\ status'[c] = "none" <=> status[c] = "none"
        /\ queue'[c] \subseteq queue[c]

Carries ==
    \A e \in Deliveries : job'[e] # NoJob =>
        \/ /\ job[e] # NoJob
           /\ job'[e].cmd = job[e].cmd
           /\ job'[e].attempt = job[e].attempt
        \/ \E m \in queue[job'[e].cmd] : m.due <= 0 /\ job'[e].attempt = m.attempt

\* A busy command is stamped if that is due, and its message goes back.
PutsBack(d) ==
    /\ job[d] # NoJob
    /\ StampWaiting(job[d].cmd)
    /\ PutBackBusy(d)

\* The row a delivery ends or moves on is not one that waits.
LEMMA SettlesRow ==
  ASSUME TypeOK, NEW c \in Commands, NEW s \in Live \cup Terminal, status[c] # "none",
         status' = [status EXCEPT ![c] = s], UNCHANGED <<expiresIn, queue>>,
         \A o \in Commands \ {c} : touched'[o] = touched[o]
  PROVE  Settles
  BY DEF TypeOK, Settles, Live, Terminal

\* A step that leaves the statuses and the clocks alone.
LEMMA SettlesSame ==
  ASSUME UNCHANGED <<status, touched, expiresIn>>, \A c \in Commands : queue'[c] \subseteq queue[c]
  PROVE  Settles
  BY DEF Settles

\* A delivery moves on or ends.
LEMMA CarriesOn ==
  ASSUME TypeOK, NEW d \in Deliveries,
         \/ job' = [job EXCEPT ![d] = NoJob]
         \/ job[d] # NoJob /\ \E a \in {"cleared", "locked", "free", "busy", "claimed"} :
               job' = [job EXCEPT ![d].at = a]
         \/ UNCHANGED job
  PROVE  Carries
  <1>1. CASE job' = [job EXCEPT ![d] = NoJob]
    BY <1>1 DEF TypeOK, Carries
  <1>2. ASSUME NEW a \in {"cleared", "locked", "free", "busy", "claimed"}, job[d] # NoJob,
               job' = [job EXCEPT ![d].at = a]
        PROVE  Carries
    <2>1. job[d] \in Jobs
      BY <1>2, JobType
    <2>2. job'[d].cmd = job[d].cmd /\ job'[d].attempt = job[d].attempt
      BY <1>2, <2>1 DEF TypeOK, Jobs
    <2>3. \A e \in Deliveries \ {d} : job'[e] = job[e]
      BY <1>2 DEF TypeOK
    <2> QED
      BY <1>2, <2>2, <2>3 DEF Carries
  <1>3. CASE UNCHANGED job
    BY <1>3 DEF Carries
  <1> QED
    BY <1>1, <1>2, <1>3

\* A message is taken.
LEMMA TakeQuiet ==
  ASSUME TypeOK, LineInv, NEW d \in Deliveries, NEW c \in Commands, NEW m \in queue[c],
         \/ TakeFinished(d, c, m) \/ TakeExpired(d, c, m)
         \/ TakeResumed(d, c, m) \/ TakeOpen(d, c, m)
  PROVE  Settles /\ Carries
  <1>1. Take(d, c, m) /\ UNCHANGED <<touched, expiresIn>>
    BY DEF TakeFinished, TakeExpired, TakeResumed, TakeOpen, row
  <1>2. \A o \in Commands : queue'[o] \subseteq queue[o]
    BY <1>1 DEF Take, TypeOK
  <1>3. Settles
    <2>1. CASE UNCHANGED status
      BY <1>1, <1>2, <2>1, SettlesSame
    <2>2. CASE TakeExpired(d, c, m)
      BY <1>1, <1>2, <2>2 DEF TakeExpired, EndAs, Settles, TypeOK, Terminal, Open, Live
    <2> QED
      BY <2>1, <2>2 DEF TakeFinished, TakeResumed, TakeOpen, row
  <1>4. Carries
    <2>1. CASE UNCHANGED job
      BY <2>1 DEF Carries
    <2>2. CASE TakeOpen(d, c, m)
      <3>1. job'[d].cmd = c /\ job'[d].attempt = m.attempt /\ m.due <= 0
        BY <2>2 DEF TakeOpen, Take, TypeOK
      <3>2. \A e \in Deliveries \ {d} : job'[e] = job[e]
        BY <2>2 DEF TakeOpen, TypeOK
      <3> QED
        BY <3>1, <3>2 DEF Carries
    <2> QED
      BY <2>1, <2>2 DEF TakeFinished, TakeExpired, TakeResumed
  <1> QED
    BY <1>3, <1>4

\* A claim.
LEMMA ClaimQuiet ==
  ASSUME TypeOK, LineInv, NEW d \in Deliveries, job[d] # NoJob, MarkClaimed(d), UNCHANGED queue
  PROVE  Settles /\ Carries
  <1>1. job[d].cmd \in Commands /\ status[job[d].cmd] # "none"
    BY JobType DEF LineInv
  <1>2. CASE Unchanged(d)
    <2>1. /\ status' = [status EXCEPT ![job[d].cmd] = "dispatching"]
          /\ touched' = [touched EXCEPT ![job[d].cmd] = 0]
          /\ UNCHANGED expiresIn
          /\ job' = [job EXCEPT ![d].at = "claimed"]
      BY <1>2 DEF MarkClaimed
    <2>2. \A o \in Commands \ {job[d].cmd} : touched'[o] = touched[o]
      BY <1>1, <2>1 DEF TypeOK
    <2>3. Settles
      BY <1>1, <2>1, <2>2, SettlesRow DEF Live
    <2> QED
      BY <2>1, <2>3, CarriesOn
  <1>3. CASE ~Unchanged(d)
    BY <1>3, SettlesSame, CarriesOn DEF MarkClaimed, row
  <1> QED
    BY <1>2, <1>3

\* While nothing is lost, copied or crashes, every step is one of five kinds.
LEMMA LineKinds ==
  ASSUME MaxFaults = 0, TypeOK, LineInv, Step
  PROVE  \/ Settles /\ Carries
         \/ \E c \in Commands : Create(c) /\ Put(c, 1, 0)
         \/ \E d \in Deliveries : PutsBack(d) \/ RetryLater(d)
         \/ Tick
  <1>0. ~(faults < MaxFaults)
    BY DEF TypeOK
  <1>1. ASSUME NEW c \in Commands, Create(c) PROVE Put(c, 1, 0)
    BY <1>0, <1>1 DEF Create
  <1>2. ASSUME NEW c \in Commands, Redeliver(c) PROVE FALSE
    BY <1>0, <1>2 DEF Redeliver
  <1>3. ASSUME NEW c \in Commands, TakeOver(c) PROVE Settles /\ Carries
    <2>1. Carries
      BY <1>3 DEF TakeOver, Carries
    <2>2. Settles
      BY <1>3 DEF TakeOver, Settles, TypeOK, Live
    <2> QED
      BY <2>1, <2>2
  <1>4. ASSUME NEW c \in Commands, Finish(c) \/ SweepWrite(c), status[c] # "none"
        PROVE  Settles /\ Carries
    BY <1>4, SettlesRow DEF Finish, SweepWrite, Terminal, Carries
  <1>5. CASE SweepRead
    BY <1>5, SettlesSame DEF SweepRead, row, Carries
  <1>6. ASSUME NEW d \in Deliveries, GiveUp(d) \/ DeadLetter(d) PROVE Settles /\ Carries
    <2>1. job[d] # NoJob /\ job[d].cmd \in Commands /\ status[job[d].cmd] # "none" /\ Carries
      BY <1>6, JobType, CarriesOn DEF GiveUp, DeadLetter, Fail, LineInv
    <2>2. CASE DeadLetter(d)
      BY <2>1, <2>2, SettlesSame DEF DeadLetter, Fail
    <2>3. CASE GiveUp(d)
      BY <2>1, <2>3, SettlesRow DEF GiveUp, Fail, EndAs
    <2> QED
      BY <1>6, <2>2, <2>3
  <1>7. ASSUME NEW d \in Deliveries, Crash(d) PROVE FALSE
    BY <1>0, <1>7 DEF Crash
  <1>8. ASSUME NEW d \in Deliveries, Work(d) PROVE (Settles /\ Carries) \/ PutsBack(d)
    <2>1. CASE LookBusy(d) \/ StampBusy(d)
      BY <2>1, NotIdle DEF LookBusy, StampBusy, PutsBack
    <2>2. CASE ClaimQuick(d) \/ Claim(d)
      BY <2>2, NotIdle, ClaimQuiet DEF ClaimQuick, Claim
    <2>3. CASE LookClear(d) \/ Lock(d) \/ LockTimeout(d) \/ RecheckClear(d) \/ RecheckBusy(d)
      <3>1. job[d] # NoJob
        BY <2>3, NotIdle DEF LookClear, Lock, LockTimeout, RecheckClear, RecheckBusy
      <3>2. Carries
        BY <2>3, <3>1, CarriesOn DEF LookClear, Lock, LockTimeout, RecheckClear, RecheckBusy
      <3> QED
        BY <2>3, <3>2, SettlesSame DEF LookClear, Lock, LockTimeout, RecheckClear, RecheckBusy, row
    <2>4. CASE Send(d) \/ Refuse(d)
      <3>1. job[d].cmd \in Commands /\ status[job[d].cmd] # "none"
        BY <2>4, NotIdle, JobType DEF Send, Refuse, LineInv
      <3>2. Carries
        BY <2>4, CarriesOn DEF Send, Refuse
      <3>3. CASE UNCHANGED row
        BY <2>4, <3>2, <3>3, SettlesSame DEF Send, Refuse, row
      <3>4. CASE ~UNCHANGED row
        <4>1. /\ \E s \in Live \cup Terminal : status' = [status EXCEPT ![job[d].cmd] = s]
              /\ UNCHANGED <<expiresIn, queue>>
              /\ UNCHANGED touched \/ touched' = [touched EXCEPT ![job[d].cmd] = 0]
          BY <2>4, <3>4 DEF Send, Refuse, Live, Terminal
        <4>2. \A o \in Commands \ {job[d].cmd} : touched'[o] = touched[o]
          BY <3>1, <4>1 DEF TypeOK
        <4> QED
          BY <3>1, <3>2, <4>1, <4>2, SettlesRow
      <3> QED
        BY <3>3, <3>4
    <2> QED
      BY <1>8, <2>1, <2>2, <2>3, <2>4, TakeQuiet DEF Work
  <1>9. ASSUME NEW c \in Commands, Finish(c) \/ SweepWrite(c) PROVE status[c] # "none"
    BY <1>9 DEF Finish, SweepWrite, Open, Live, LineInv
  <1> QED
    BY <1>1, <1>2, <1>3, <1>4, <1>5, <1>6, <1>7, <1>8, <1>9 DEF Step, Sweep

-----------------------------------------------------------------------------
(* What a step leaves on the queue and with the deliveries.                *)

\* A message that is there after a Put was there before, or is the one put.
LEMMA PutFrom ==
  ASSUME TypeOK, NEW c \in Commands, NEW a, NEW due, Put(c, a, due),
         NEW o \in Commands, NEW m \in queue'[o]
  PROVE  m \in queue[o] \/ (o = c /\ m.attempt = a /\ m.due = due)
  BY DEF TypeOK, Put

\* The clock leaves the messages there were, each one unit closer.
LEMMA TickFrom ==
  ASSUME TypeOK, Tick, NEW o \in Commands, NEW m \in queue'[o]
  PROVE  \E n \in queue[o] : n.attempt = m.attempt /\ m.due = n.due - 1 /\ m.due >= -LookSlack
  <1>1. PICK n \in queue[o] : m = [n EXCEPT !.due = @ - 1]
    BY DEF Tick
  <1>2. n \in Messages /\ n.due \in Int /\ n.due > -LookSlack
    BY DEF TypeOK, Messages, Tick
  <1>3. m.attempt = n.attempt /\ m.due = n.due - 1
    BY <1>1, <1>2 DEF Messages
  <1> QED
    BY <1>2, <1>3, TurnAssumption

\* A delivery that puts its message back ends, and the message waits a delay of the code's.
LEMMA BackFrom ==
  ASSUME MaxFaults = 0, TypeOK, NEW d \in Deliveries, PutsBack(d) \/ RetryLater(d)
  PROVE  /\ job[d] # NoJob
         /\ job[d].cmd \in Commands
         /\ job[d].attempt \in 1 .. MaxAttempt
         /\ UNCHANGED status
         /\ \A e \in Deliveries : job'[e] # NoJob => job'[e] = job[e]
         /\ \E a \in 1 .. MaxAttempt, due \in Nat :
               /\ Put(job[d].cmd, a, due)
               /\ PutsBack(d) => a = job[d].attempt /\ due \in BusyDelays
               /\ ~PutsBack(d) =>
                     /\ job[d].attempt \in 1 .. Len(RetryDelays)
                     /\ a = job[d].attempt + 1
                     /\ due = RetryDelays[job[d].attempt]
                     /\ UNCHANGED <<touched, expiresIn>>
  <1>1. job[d] # NoJob /\ UNCHANGED status /\ job' = [job EXCEPT ![d] = NoJob]
    BY DEF PutsBack, PutBackBusy, StampWaiting, RetryLater, Fail
  <1>2. job[d].cmd \in Commands /\ job[d].attempt \in 1 .. MaxAttempt
    BY <1>1, JobType
  <1>3. \A e \in Deliveries : job'[e] # NoJob => job'[e] = job[e]
    BY <1>1 DEF TypeOK
  <1>4. ~(faults < MaxFaults)
    BY DEF TypeOK
  <1>5. CASE PutsBack(d)
    <2>1. PICK due \in BusyDelays : Put(job[d].cmd, job[d].attempt, due)
      BY <1>4, <1>5 DEF PutsBack, PutBackBusy
    <2>2. due \in Nat
      BY TurnAssumption DEF BusyDelays
    <2> QED
      BY <1>1, <1>2, <1>3, <1>5, <2>1, <2>2
  <1>6. CASE ~PutsBack(d)
    <2>1. /\ RetryLater(d)
          /\ job[d].attempt <= Len(RetryDelays)
          /\ Put(job[d].cmd, job[d].attempt + 1, RetryDelays[job[d].attempt])
          /\ UNCHANGED <<touched, expiresIn>>
      BY <1>6 DEF RetryLater, Fail
    <2>2. RetryDelays[job[d].attempt] \in Nat /\ job[d].attempt + 1 \in 1 .. MaxAttempt
          /\ job[d].attempt \in 1 .. Len(RetryDelays)
      BY <1>2, <2>1, AttemptType
    <2> QED
      BY <1>1, <1>2, <1>3, <1>6, <2>1, <2>2
  <1> QED
    BY <1>5, <1>6

-----------------------------------------------------------------------------
(* The line.                                                               *)

\* The sweep plans commands there are.
LEMMA PlanStep ==
  ASSUME TypeOK, Step, NEW c \in sweepPlan'
  PROVE  c \in Commands /\ (c \in sweepPlan \/ Open(c))
  <1>1. CASE SweepRead
    BY <1>1 DEF SweepRead, Stale
  <1>2. CASE sweepPlan' \subseteq sweepPlan
    BY <1>2 DEF TypeOK
  <1>3. ASSUME NEW d \in Deliveries, Work(d) PROVE UNCHANGED sweepPlan
    BY <1>3 DEF Work, TakeFinished, TakeExpired, TakeResumed, TakeOpen, Take, ClaimQuick,
       LookBusy, LookClear, Lock, LockTimeout, RecheckClear, RecheckBusy, Claim, StampBusy,
       Send, Refuse
  <1>4. ASSUME NEW d \in Deliveries, RetryLater(d) \/ GiveUp(d) \/ DeadLetter(d) \/ Crash(d)
        PROVE  UNCHANGED sweepPlan
    BY <1>4 DEF RetryLater, GiveUp, DeadLetter, Crash, Fail
  <1>5. ASSUME NEW o \in Commands,
               Create(o) \/ Redeliver(o) \/ TakeOver(o) \/ Finish(o) \/ SweepWrite(o)
        PROVE  sweepPlan' \subseteq sweepPlan
    BY <1>5 DEF Create, Redeliver, TakeOver, Finish, SweepWrite
  <1>6. CASE Tick
    BY <1>2, <1>6 DEF Tick
  <1> QED
    BY <1>1, <1>2, <1>3, <1>4, <1>5, <1>6 DEF Step, Sweep

\* A command there is stays; one that appears comes last, with its message.
LEMMA Stays ==
  ASSUME MaxFaults = 0, TypeOK, LineInv, Step, NEW c \in Commands, status[c] # "none"
  PROVE  status'[c] # "none"
  BY LineKinds, BackFrom DEF Settles, Create, Tick, TypeOK

\* Every step keeps the line.
LEMMA LineNext ==
  ASSUME MaxFaults = 0, TypeOK, TypeOK', LineInv, Step
  PROVE  LineInv'
  <1>1. ASSUME NEW c \in sweepPlan' PROVE status'[c] # "none"
    BY PlanStep, Stays DEF LineInv, Open, Live
  <1>2. CASE Settles /\ Carries
    <2>1. ASSUME NEW c \in Commands, NEW m \in queue'[c]
          PROVE  status'[c] # "none" /\ m.due >= -LookSlack
      BY <1>2 DEF Settles, LineInv
    <2>2. ASSUME NEW e \in Deliveries, job'[e] # NoJob
          PROVE  status'[job'[e].cmd] # "none"
      <3>1. job'[e].cmd \in Commands
        BY <2>2 DEF TypeOK, Jobs
      <3> QED
        BY <1>2, <2>2, <3>1 DEF Settles, Carries, LineInv
    <2>3. \A c, o \in Commands : o < c /\ status'[c] # "none" => status'[o] # "none"
      BY <1>2 DEF Settles, LineInv
    <2> QED
      BY <1>1, <2>1, <2>2, <2>3 DEF LineInv
  <1>3. ASSUME NEW b \in Commands, Create(b), Put(b, 1, 0) PROVE LineInv'
    <2>1. ASSUME NEW c \in Commands, NEW m \in queue'[c]
          PROVE  status'[c] # "none" /\ m.due >= -LookSlack
      <3>1. CASE m \in queue[c]
        BY <3>1, Stays DEF LineInv
      <3>2. CASE c = b /\ m.due = 0
        BY <1>3, <3>2, TurnAssumption DEF Create, TypeOK
      <3> QED
        BY <1>3, <3>1, <3>2, PutFrom
    <2>2. ASSUME NEW e \in Deliveries, job'[e] # NoJob
          PROVE  status'[job'[e].cmd] # "none"
      BY <1>3, <2>2, Stays, JobType DEF Create, LineInv
    <2>3. ASSUME NEW c \in Commands, NEW o \in Commands, o < c, status'[c] # "none"
          PROVE  status'[o] # "none"
      <3>1. CASE c = b
        BY <1>3, <2>3, <3>1, Stays DEF Create
      <3>2. CASE c # b
        BY <1>3, <2>3, <3>2, Stays DEF Create, LineInv, TypeOK
      <3> QED
        BY <3>1, <3>2
    <2> QED
      BY <1>1, <2>1, <2>2, <2>3 DEF LineInv
  <1>4. ASSUME NEW d \in Deliveries, PutsBack(d) \/ RetryLater(d) PROVE LineInv'
    <2>1. PICK a \in 1 .. MaxAttempt, due \in Nat : Put(job[d].cmd, a, due)
      BY <1>4, BackFrom
    <2>2. ASSUME NEW c \in Commands, NEW m \in queue'[c]
          PROVE  status'[c] # "none" /\ m.due >= -LookSlack
      <3>1. CASE m \in queue[c]
        BY <3>1, Stays DEF LineInv
      <3>2. CASE c = job[d].cmd /\ m.due = due
        <4>1. status[c] # "none"
          BY <1>4, <3>2, BackFrom DEF LineInv
        <4>2. -LookSlack <= due
          BY TurnAssumption
        <4> QED
          BY <3>2, <4>1, <4>2, Stays
      <3> QED
        BY <1>4, <2>1, <3>1, <3>2, PutFrom, BackFrom
    <2>3. UNCHANGED status /\ \A e \in Deliveries : job'[e] # NoJob => job'[e] = job[e]
      BY <1>4, BackFrom
    <2> QED
      BY <1>1, <2>2, <2>3 DEF LineInv
  <1>5. CASE Tick
    <2>1. ASSUME NEW c \in Commands, NEW m \in queue'[c]
          PROVE  status'[c] # "none" /\ m.due >= -LookSlack
      BY <1>5, <2>1, TickFrom, Stays DEF LineInv
    <2> QED
      BY <1>1, <1>5, <2>1 DEF LineInv, Tick
  <1> QED
    BY <1>2, <1>3, <1>4, <1>5, LineKinds

-----------------------------------------------------------------------------
(* Waiting does not let a command expire.                                  *)

\* The limits are numbers, and an unstamped command is younger than any age is cut off at.
LEMMA SpanType ==
  /\ Span \in Int /\ Span <= Lifetime /\ Span <= ExpiryFloor
  /\ ExpiryFloor \in Int /\ Lifetime \in Nat
  /\ AgeCap \in Nat /\ StampInterval \in Nat /\ StampInterval < AgeCap
  /\ BusyLongestDelay \in Nat /\ LookSlack \in Nat
  <1>1. /\ StampInterval \in Nat /\ BusyLongestDelay \in Nat /\ LookSlack \in Nat
        /\ Lifetime \in Nat /\ ExpiryFloor \in Int
    BY TurnAssumption DEF ExpiryFloor
  <1>2. AgeCap \in Nat /\ StampInterval < AgeCap
    BY TurnAssumption DEF AgeCap, Older
  <1> QED
    BY <1>1, <1>2 DEF Span, Younger

\* A stamp gives the time waited back, and never leaves less than the floor.
LEMMA StampGives ==
  ASSUME TypeOK, NEW c \in Commands, StampWaiting(c)
  PROVE  /\ \A o \in Commands \ {c} : touched'[o] = touched[o] /\ expiresIn'[o] = expiresIn[o]
         /\ StampDue(c) => /\ touched'[c] = 0
                           /\ expiresIn'[c] >= ExpiryFloor
                           /\ expiresIn'[c] >= expiresIn[c]
         /\ ~StampDue(c) => touched'[c] = touched[c] /\ expiresIn'[c] = expiresIn[c]
  <1>1. expiresIn[c] \in Int /\ touched[c] \in Nat
    BY DEF TypeOK
  <1>2. ASSUME StampDue(c)
        PROVE  touched'[c] = 0 /\ expiresIn'[c] = Older(expiresIn[c] + touched[c], ExpiryFloor)
    BY <1>2 DEF StampWaiting, TypeOK
  <1>3. ASSUME NEW x \in Int, x = Older(expiresIn[c] + touched[c], ExpiryFloor)
        PROVE  x >= ExpiryFloor /\ x >= expiresIn[c]
    BY <1>1, <1>3, SpanType DEF Older
  <1>4. expiresIn[c] + touched[c] \in Int
    BY <1>1
  <1>5. Older(expiresIn[c] + touched[c], ExpiryFloor) \in Int
    BY <1>4, SpanType DEF Older
  <1>6. StampDue(c) => expiresIn'[c] >= ExpiryFloor /\ expiresIn'[c] >= expiresIn[c]
    BY <1>2, <1>3, <1>5
  <1>7. \A o \in Commands \ {c} : touched'[o] = touched[o] /\ expiresIn'[o] = expiresIn[o]
    BY DEF StampWaiting, TypeOK
  <1> QED
    BY <1>2, <1>6, <1>7 DEF StampWaiting

\* Every step keeps what a waiting command has left.
LEMMA AliveNext ==
  ASSUME MaxFaults = 0, BusyDelay <= BusyLongestDelay,
         TypeOK, TypeOK', LineInv, AliveInv, Step
  PROVE  AliveInv'
  <1> DEFINE A(c) == status[c] = "queued" /\ touched[c] < AgeCap =>
                        expiresIn[c] + touched[c] >= Span
             B(c, m) == status[c] = "queued" /\ m.attempt = 1 =>
                        expiresIn[c] - m.due >= Span - StampInterval - BusyLongestDelay
  <1>0. \A c \in Commands : /\ expiresIn[c] \in Int /\ touched[c] \in Nat
                            /\ expiresIn'[c] \in Int /\ touched'[c] \in Nat
                            /\ \A m \in queue[c] : m.due \in Int
                            /\ \A m \in queue'[c] : m.due \in Int
    BY DEF TypeOK, Messages
  <1>a. \A c \in Commands : A(c) /\ \A m \in queue[c] : B(c, m)
    BY DEF AliveInv
  <1>b. SUFFICES \A c \in Commands : A(c)' /\ \A m \in queue'[c] : B(c, m)'
    BY DEF AliveInv, Span, ExpiryFloor, AgeCap
  <1>1. CASE Settles /\ Carries
    BY <1>1, <1>a DEF Settles, Span, ExpiryFloor, AgeCap
  <1>2. ASSUME NEW b \in Commands, Create(b), Put(b, 1, 0), NEW c \in Commands
        PROVE  A(c)' /\ \A m \in queue'[c] : B(c, m)'
    <2>1. CASE c = b
      <3>1. touched'[c] = 0 /\ expiresIn'[c] = Lifetime
        BY <1>2, <2>1 DEF Create, TypeOK
      <3>2. \A m \in queue'[c] : m.due = 0
        BY <1>2, <2>1, PutFrom DEF LineInv, Create
      <3> QED
        BY <3>1, <3>2, SpanType
    <2>2. CASE c # b
      BY <1>0, <1>a, <1>2, <2>2, PutFrom DEF Create, TypeOK
    <2> QED
      BY <2>1, <2>2
  <1>3. ASSUME NEW d \in Deliveries, PutsBack(d), NEW c \in Commands
        PROVE  A(c)' /\ \A m \in queue'[c] : B(c, m)'
    <2>1. job[d].cmd \in Commands /\ StampWaiting(job[d].cmd) /\ UNCHANGED status
      BY <1>3, BackFrom DEF PutsBack
    <2>2. PICK a \in 1 .. MaxAttempt, due \in BusyDelays : Put(job[d].cmd, a, due)
      BY <1>3, BackFrom
    <2>3. due \in Nat /\ due <= BusyLongestDelay
      BY TurnAssumption DEF BusyDelays
    <2>4. CASE c # job[d].cmd
      <3>1. touched'[c] = touched[c] /\ expiresIn'[c] = expiresIn[c]
        BY <2>1, <2>4, StampGives
      <3>2. \A m \in queue'[c] : m \in queue[c]
        BY <2>1, <2>2, <2>4, PutFrom
      <3> QED
        BY <1>a, <2>1, <3>1, <3>2
    <2>5. CASE c = job[d].cmd /\ StampDue(c)
      <3>1. touched'[c] = 0 /\ expiresIn'[c] >= ExpiryFloor /\ expiresIn'[c] >= expiresIn[c]
        BY <2>1, <2>5, StampGives
      <3>2. \A m \in queue'[c] : m \in queue[c] \/ m.due = due
        BY <2>1, <2>2, <2>5, PutFrom
      <3>3. A(c)'
        BY <1>0, <3>1, SpanType
      <3>4. ASSUME NEW m \in queue'[c], m \in queue[c] PROVE B(c, m)'
        BY <1>0, <1>a, <2>1, <3>1, <3>4, SpanType
      <3>5. ASSUME NEW m \in queue'[c], m.due = due PROVE B(c, m)'
        BY <1>0, <2>3, <3>1, <3>5, SpanType
      <3> QED
        BY <3>2, <3>3, <3>4, <3>5
    <2>6. CASE c = job[d].cmd /\ ~StampDue(c)
      <3>1. touched'[c] = touched[c] /\ expiresIn'[c] = expiresIn[c]
        BY <2>1, <2>6, StampGives
      <3>2. \A m \in queue'[c] : m \in queue[c] \/ m.due = due
        BY <2>1, <2>2, <2>6, PutFrom
      <3>3. ASSUME NEW m \in queue'[c], m \in queue[c] PROVE B(c, m)'
        BY <1>a, <2>1, <3>1, <3>3
      <3>4. ASSUME NEW m \in queue'[c], m.due = due PROVE B(c, m)'
        <4>1. status[c] = "queued" => touched[c] <= StampInterval
          BY <1>0, <2>6, SpanType DEF StampDue
        <4>2. status[c] = "queued" => expiresIn[c] + StampInterval >= Span
          BY <1>0, <1>a, <4>1, SpanType
        <4> QED
          BY <1>0, <2>1, <2>3, <3>1, <3>4, <4>2, SpanType
      <3> QED
        BY <1>a, <2>1, <3>1, <3>2, <3>3, <3>4
    <2> QED
      BY <2>4, <2>5, <2>6
  <1>4. ASSUME NEW d \in Deliveries, RetryLater(d), ~PutsBack(d), NEW c \in Commands
        PROVE  A(c)' /\ \A m \in queue'[c] : B(c, m)'
    <2>1. /\ job[d].cmd \in Commands /\ UNCHANGED <<status, touched, expiresIn>>
          /\ job[d].attempt \in 1 .. MaxAttempt
      BY <1>4, BackFrom
    <2>2. PICK due \in Nat : Put(job[d].cmd, job[d].attempt + 1, due)
      BY <1>4, BackFrom
    <2>3. \A m \in queue'[c] : m \in queue[c] \/ m.attempt = job[d].attempt + 1
      BY <2>1, <2>2, PutFrom
    <2>4. \A m \in queue'[c] : m \in queue[c] \/ m.attempt # 1
      BY <2>1, <2>3
    <2> QED
      BY <1>a, <2>1, <2>4
  <1>5. ASSUME Tick, NEW c \in Commands
        PROVE  A(c)' /\ \A m \in queue'[c] : B(c, m)'
    <2>1. status' = status /\ (status[c] = "queued" => Open(c))
      BY <1>5 DEF Tick, Open
    <2>2. Open(c) => /\ touched'[c] = Younger(touched[c] + 1, AgeCap)
                     /\ expiresIn'[c] = Older(expiresIn[c] - 1, -AgeCap)
      BY <1>5 DEF Tick
    <2>3. Open(c) => /\ touched'[c] < AgeCap => touched'[c] = touched[c] + 1
                     /\ expiresIn'[c] >= expiresIn[c] - 1
      BY <1>0, <2>2, SpanType DEF Younger, Older
    <2>4. A(c)'
      BY <1>0, <1>a, <2>1, <2>3, SpanType
    <2>5. ASSUME NEW m \in queue'[c] PROVE B(c, m)'
      <3>1. PICK n \in queue[c] : n.attempt = m.attempt /\ m.due = n.due - 1
        BY <1>5, TickFrom
      <3>2. status[c] = "queued" /\ m.attempt = 1 =>
               expiresIn[c] - n.due >= Span - StampInterval - BusyLongestDelay
        BY <1>a, <3>1
      <3> QED
        BY <1>0, <2>1, <2>3, <3>1, <3>2, SpanType
    <2> QED
      BY <2>4, <2>5
  <1> QED
    BY <1>1, <1>2, <1>3, <1>4, <1>5, LineKinds

\* Every step keeps the line and what is left.
LEMMA LineAliveNext ==
  ASSUME MaxFaults = 0, BusyDelay <= BusyLongestDelay,
         TypeOK, TypeOK', LineInv, AliveInv, [Next]_vars
  PROVE  LineInv' /\ AliveInv'
  <1>1. CASE UNCHANGED vars
    BY <1>1 DEF vars, LineInv, AliveInv, Span, ExpiryFloor, AgeCap
  <1> QED
    BY <1>1, LineNext, AliveNext DEF Next

\* A command that has only waited its turn is alive whenever it is looked at
\* (server-turn.ts, WAITING_EXPIRY_FLOOR_MS), however many commands wait, however
\* long, and however slow the looks are, if a stamp outlasts the longest time to the
\* next look: the interval between stamps, the longest delay and the queue's lateness
\* fit in the floor and in the lifetime, as 30 s, 30 s and up to 30 s of lateness do in
\* the 90 s of the floor and in the two minutes of the shortest lifetime in line.
THEOREM WaitingNeverExpires ==
  ASSUME MaxFaults = 0, BusyDelay <= BusyLongestDelay,
         StampInterval + LookSlack <= ExpiryMargin,
         StampInterval + BusyLongestDelay + LookSlack <= Lifetime
  PROVE  Spec => []WaitingStaysAlive
  <1>1. Init => LineInv /\ AliveInv
    BY DEF Init, LineInv, AliveInv
  <1>2. TypeOK /\ TypeOK' /\ (LineInv /\ AliveInv) /\ [Next]_vars => (LineInv /\ AliveInv)'
    BY LineAliveNext
  <1>3. TypeOK /\ LineInv /\ AliveInv => WaitingStaysAlive
    <2> SUFFICES ASSUME TypeOK, LineInv, AliveInv, NEW c \in Commands, NEW m \in queue[c],
                        status[c] = "queued", m.attempt = 1, m.due <= 0
                 PROVE  expiresIn[c] >= 0
      BY DEF WaitingStaysAlive
    <2>1. m.due \in Int /\ m.due >= -LookSlack /\ expiresIn[c] \in Int
      BY DEF TypeOK, Messages, LineInv
    <2>2. expiresIn[c] - m.due >= Span - StampInterval - BusyLongestDelay
      BY DEF AliveInv
    <2>3. Span >= StampInterval + BusyLongestDelay + LookSlack
      BY TurnAssumption DEF Span, Younger, ExpiryFloor
    <2> QED
      BY <2>1, <2>2, <2>3, SpanType
  <1> QED
    BY <1>1, <1>2, <1>3, TypeCorrect, PTL DEF Spec

-----------------------------------------------------------------------------
(* Waiting does not lose a command its place.                              *)

\* The limits a command's place rests on: the time between two looks of a command that
\* is busy fits in the reach of its attempt, a retry takes it to the reach of the next,
\* and no reach is as long as the wait for a command that shows no sign of life.
Reaches(reach) ==
    /\ reach \in [1 .. MaxAttempt -> Nat]
    /\ \A a \in 1 .. MaxAttempt :
          /\ StampInterval + BusyLongestDelay + LookSlack <= reach[a]
          /\ reach[a] < OlderQueuedWait
    /\ \A a \in 1 .. Len(RetryDelays) : reach[a] + RetryDelays[a] + LookSlack <= reach[a + 1]

\* Every step keeps how old a stamp can be.
LEMMA PlaceNext ==
  ASSUME MaxFaults = 0, PromptLooks, BusyDelay <= BusyLongestDelay, NEW reach, Reaches(reach),
         TypeOK, TypeOK', LineInv, PlaceInv(reach), Step
  PROVE  PlaceInv(reach)'
  <1> DEFINE M(c, m) == status[c] = "queued" => touched[c] + m.due + LookSlack <= reach[m.attempt]
             J(e) == job[e] # NoJob /\ status[job[e].cmd] = "queued" =>
                        touched[job[e].cmd] <= reach[job[e].attempt]
  <1>0. \A c \in Commands : /\ touched[c] \in Nat /\ touched'[c] \in Nat
                            /\ \A m \in queue[c] : m.due \in Int /\ m.attempt \in 1 .. MaxAttempt
                            /\ \A m \in queue'[c] : m.due \in Int /\ m.attempt \in 1 .. MaxAttempt
    BY DEF TypeOK, Messages
  <1>a. /\ \A c \in Commands : \A m \in queue[c] : M(c, m)
        /\ \A e \in Deliveries : J(e)
    BY DEF PlaceInv
  <1>b. /\ \A a \in 1 .. MaxAttempt : reach[a] \in Nat
        /\ LookSlack \in Nat
        /\ 1 \in 1 .. MaxAttempt
    BY TurnAssumption, AttemptType DEF Reaches
  <1>c. SUFFICES /\ \A c \in Commands : \A m \in queue'[c] : M(c, m)'
                 /\ \A e \in Deliveries : J(e)'
    BY DEF PlaceInv
  <1>1. CASE Settles /\ Carries
    <2>1. ASSUME NEW c \in Commands, NEW m \in queue'[c] PROVE M(c, m)'
      BY <1>1, <1>a DEF Settles
    <2>2. ASSUME NEW e \in Deliveries, job'[e] # NoJob, status'[job'[e].cmd] = "queued"
          PROVE  touched'[job'[e].cmd] <= reach[job'[e].attempt]
      <3>1. job'[e].cmd \in Commands
        BY <2>2 DEF TypeOK, Jobs
      <3>2. status[job'[e].cmd] = "queued" /\ touched'[job'[e].cmd] = touched[job'[e].cmd]
        BY <1>1, <2>2, <3>1 DEF Settles
      <3>3. CASE job[e] # NoJob /\ job'[e].cmd = job[e].cmd /\ job'[e].attempt = job[e].attempt
        BY <1>a, <3>2, <3>3
      <3>4. ASSUME NEW m \in queue[job'[e].cmd], job'[e].attempt = m.attempt
            PROVE  touched'[job'[e].cmd] <= reach[job'[e].attempt]
        <4>1. m.due >= -LookSlack /\ m.due \in Int /\ touched[job'[e].cmd] \in Nat
          BY <1>0, <3>1, <3>4 DEF LineInv
        <4>2. touched[job'[e].cmd] + m.due + LookSlack <= reach[m.attempt]
          BY <1>a, <3>1, <3>2, <3>4
        <4>3. reach[m.attempt] \in Nat
          BY <1>0, <1>b, <3>1, <3>4
        <4>4. touched[job'[e].cmd] <= reach[m.attempt]
          BY <1>b, <4>1, <4>2, <4>3
        <4> QED
          BY <3>2, <3>4, <4>4
      <3> QED
        BY <1>1, <2>2, <3>3, <3>4 DEF Carries
    <2> QED
      BY <2>1, <2>2
  <1>2. ASSUME NEW b \in Commands, Create(b), Put(b, 1, 0)
        PROVE  /\ \A c \in Commands : \A m \in queue'[c] : M(c, m)'
               /\ \A e \in Deliveries : J(e)'
    <2>1. ASSUME NEW c \in Commands, NEW m \in queue'[c] PROVE M(c, m)'
      <3>1. CASE c = b
        <4>1. touched'[c] = 0 /\ m.due = 0 /\ m.attempt = 1
          BY <1>2, <2>1, <3>1, PutFrom DEF LineInv, Create, TypeOK
        <4>2. LookSlack <= reach[1]
          <5>1. StampInterval + BusyLongestDelay + LookSlack <= reach[1]
            BY <1>b DEF Reaches
          <5> QED
            BY <1>b, <5>1, SpanType
        <4> QED
          BY <1>b, <4>1, <4>2
      <3>2. CASE c # b
        <4>1. m \in queue[c] /\ touched'[c] = touched[c] /\ status'[c] = status[c]
          BY <1>2, <2>1, <3>2, PutFrom DEF Create, TypeOK
        <4> QED
          BY <1>a, <4>1
      <3> QED
        BY <3>1, <3>2
    <2>2. ASSUME NEW e \in Deliveries, job'[e] # NoJob, status'[job'[e].cmd] = "queued"
          PROVE  touched'[job'[e].cmd] <= reach[job'[e].attempt]
      <3>1. job'[e] = job[e] /\ job[e].cmd \in Commands /\ job[e].cmd # b
        BY <1>2, <2>2, JobType DEF Create, LineInv
      <3>2. status'[job[e].cmd] = status[job[e].cmd] /\ touched'[job[e].cmd] = touched[job[e].cmd]
        BY <1>2, <3>1 DEF Create, TypeOK
      <3> QED
        BY <1>a, <2>2, <3>1, <3>2
    <2> QED
      BY <2>1, <2>2
  <1>3. ASSUME NEW d \in Deliveries, PutsBack(d) \/ RetryLater(d)
        PROVE  /\ \A c \in Commands : \A m \in queue'[c] : M(c, m)'
               /\ \A e \in Deliveries : J(e)'
    <2> DEFINE k == job[d].cmd
    <2>1. /\ job[d] # NoJob /\ k \in Commands /\ UNCHANGED status
          /\ job[d].attempt \in 1 .. MaxAttempt
          /\ \A e \in Deliveries : job'[e] # NoJob => job'[e] = job[e]
      BY <1>3, BackFrom
    <2>2. PICK a \in 1 .. MaxAttempt, due \in Nat :
               /\ Put(k, a, due)
               /\ PutsBack(d) => a = job[d].attempt /\ due \in BusyDelays
               /\ ~PutsBack(d) =>
                     /\ job[d].attempt \in 1 .. Len(RetryDelays)
                     /\ a = job[d].attempt + 1
                     /\ due = RetryDelays[job[d].attempt]
                     /\ UNCHANGED <<touched, expiresIn>>
      BY <1>3, BackFrom
    <2>3. \A c \in Commands : touched'[c] <= touched[c]
      <3>1. CASE PutsBack(d)
        BY <1>0, <2>1, <3>1, StampGives DEF PutsBack
      <3>2. CASE ~PutsBack(d)
        BY <1>0, <2>2, <3>2
      <3> QED
        BY <3>1, <3>2
    <2>4. status[k] = "queued" => touched'[k] + due + LookSlack <= reach[a]
      <3>1. CASE PutsBack(d)
        <4>1. due <= BusyLongestDelay /\ BusyLongestDelay \in Nat
          BY <2>2, <3>1, TurnAssumption DEF BusyDelays
        <4>2. status[k] = "queued" => touched'[k] <= StampInterval
          <5>1. CASE StampDue(k)
            BY <2>1, <3>1, <5>1, StampGives, SpanType DEF PutsBack
          <5>2. CASE ~StampDue(k)
            <6>1. touched'[k] = touched[k]
              BY <2>1, <3>1, <5>2, StampGives DEF PutsBack
            <6> QED
              BY <1>0, <2>1, <5>2, <6>1, SpanType DEF StampDue
          <5> QED
            BY <5>1, <5>2
        <4>3. StampInterval + BusyLongestDelay + LookSlack <= reach[a]
          BY DEF Reaches
        <4> QED
          BY <1>0, <1>b, <2>1, <4>1, <4>2, <4>3, SpanType
      <3>2. CASE ~PutsBack(d)
        <4>1. /\ reach[job[d].attempt] + due + LookSlack <= reach[a]
              /\ reach[job[d].attempt] \in Nat /\ reach[a] \in Nat
          BY <1>b, <2>1, <2>2, <3>2 DEF Reaches
        <4>2. status[k] = "queued" => touched'[k] <= reach[job[d].attempt]
          BY <1>a, <2>1, <2>2, <3>2
        <4> QED
          BY <1>0, <1>b, <2>1, <4>1, <4>2
      <3> QED
        BY <3>1, <3>2
    <2>5. ASSUME NEW c \in Commands, NEW m \in queue'[c] PROVE M(c, m)'
      <3>1. CASE m \in queue[c]
        <4>1. M(c, m) /\ touched'[c] <= touched[c] /\ status'[c] = status[c]
          BY <1>a, <2>1, <2>3, <3>1
        <4>2. reach[m.attempt] \in Nat /\ m.due \in Int /\ touched[c] \in Nat /\ touched'[c] \in Nat
          BY <1>0, <1>b, <3>1
        <4> QED
          BY <1>b, <4>1, <4>2
      <3>2. CASE c = k /\ m.attempt = a /\ m.due = due
        BY <2>1, <2>4, <3>2
      <3> QED
        BY <2>1, <2>2, <3>1, <3>2, PutFrom
    <2>6. ASSUME NEW e \in Deliveries, job'[e] # NoJob, status'[job'[e].cmd] = "queued"
          PROVE  touched'[job'[e].cmd] <= reach[job'[e].attempt]
      <3>1. job'[e] = job[e] /\ job[e].cmd \in Commands /\ job[e].attempt \in 1 .. MaxAttempt
        BY <2>1, <2>6, JobType
      <3>2. touched[job[e].cmd] <= reach[job[e].attempt] /\ reach[job[e].attempt] \in Nat
        BY <1>a, <1>b, <2>1, <2>6, <3>1
      <3>3. touched'[job[e].cmd] <= touched[job[e].cmd]
        BY <2>3, <3>1
      <3>4. touched'[job[e].cmd] <= reach[job[e].attempt]
        BY <1>0, <3>1, <3>2, <3>3
      <3> QED
        BY <3>1, <3>4
    <2> QED
      BY <2>5, <2>6
  <1>4. CASE Tick
    <2>1. \A e \in Deliveries : job'[e] = NoJob
      BY <1>4 DEF Tick
    <2>2. ASSUME NEW c \in Commands, NEW m \in queue'[c], status'[c] = "queued"
          PROVE  touched'[c] + m.due + LookSlack <= reach[m.attempt]
      <3>1. PICK n \in queue[c] : n.attempt = m.attempt /\ m.due = n.due - 1
        BY <1>4, TickFrom
      <3>2. status[c] = "queued" /\ touched'[c] = Younger(touched[c] + 1, AgeCap)
        BY <1>4, <2>2 DEF Tick, Open
      <3>3. touched'[c] <= touched[c] + 1
        BY <1>0, <3>2, SpanType DEF Younger
      <3>4. touched[c] + n.due + LookSlack <= reach[n.attempt]
        BY <1>a, <3>2
      <3>5. reach[n.attempt] \in Nat /\ n.due \in Int
        BY <1>0, <1>b
      <3> QED
        BY <1>0, <1>b, <3>1, <3>3, <3>4, <3>5
    <2> QED
      BY <2>1, <2>2
  <1> QED
    BY <1>1, <1>2, <1>3, <1>4, LineKinds

\* Nobody comes back to the line: who waits after a step waited before it, or has come
\* with it.
LEMMA WaitingFrom ==
  ASSUME MaxFaults = 0, TypeOK, TypeOK', LineInv, Step,
         NEW o \in Commands, status[o] # "none", Waiting(o)'
  PROVE  Waiting(o)
  <1>0. /\ ~Quick(o) /\ status'[o] = "queued"
        /\ queue'[o] # {} \/ \E e \in Deliveries : job'[e] # NoJob /\ job'[e].cmd = o
    BY DEF Waiting, Quick
  <1>1. CASE Settles /\ Carries
    <2>1. status[o] = "queued" /\ queue'[o] \subseteq queue[o]
      BY <1>0, <1>1 DEF Settles
    <2>2. ASSUME NEW e \in Deliveries, job'[e] # NoJob, job'[e].cmd = o PROVE Waiting(o)
      BY <1>0, <1>1, <2>1, <2>2 DEF Carries, Waiting
    <2> QED
      BY <1>0, <2>1, <2>2 DEF Waiting
  <1>2. ASSUME NEW b \in Commands, Create(b) PROVE Waiting(o)
    <2>1. b # o
      BY <1>2 DEF Create
    <2>2. status[o] = "queued" /\ queue'[o] = queue[o] /\ job' = job
      BY <1>0, <1>2, <2>1 DEF Create, Put, TypeOK
    <2> QED
      BY <1>0, <2>2 DEF Waiting
  <1>3. ASSUME NEW d \in Deliveries, PutsBack(d) \/ RetryLater(d) PROVE Waiting(o)
    <2>1. /\ job[d] # NoJob /\ job[d].cmd \in Commands /\ UNCHANGED status
          /\ \A e \in Deliveries : job'[e] # NoJob => job'[e] = job[e]
          /\ \E a \in 1 .. MaxAttempt, due \in Nat : Put(job[d].cmd, a, due)
      BY <1>3, BackFrom
    <2>2. job[d].cmd # o => queue'[o] = queue[o]
      BY <2>1 DEF Put, TypeOK
    <2> QED
      BY <1>0, <2>1, <2>2 DEF Waiting
  <1>4. CASE Tick
    <2>1. status[o] = "queued" /\ job' = job /\ (queue'[o] # {} => queue[o] # {})
      BY <1>0, <1>4 DEF Tick
    <2> QED
      BY <1>0, <2>1 DEF Waiting
  <1> QED
    BY <1>1, <1>2, <1>3, <1>4, LineKinds

\* A command with a message on its way still has its place.
LEMMA WaitingKeepsPlace ==
  ASSUME NEW reach, Reaches(reach), TypeOK, LineInv, PlaceInv(reach),
         NEW o \in Commands, Waiting(o)
  PROVE  touched[o] < OlderQueuedWait
  <1>0. status[o] = "queued" /\ touched[o] \in Nat /\ OlderQueuedWait \in Nat /\ LookSlack \in Nat
    BY TurnAssumption DEF Waiting, TypeOK
  <1>1. ASSUME NEW a \in 1 .. MaxAttempt, touched[o] <= reach[a]
        PROVE  touched[o] < OlderQueuedWait
    BY <1>0, <1>1 DEF Reaches
  <1>2. ASSUME NEW m \in queue[o] PROVE touched[o] < OlderQueuedWait
    <2>1. m.attempt \in 1 .. MaxAttempt /\ m.due \in Int /\ m.due >= -LookSlack
      BY DEF TypeOK, Messages, LineInv
    <2>2. touched[o] + m.due + LookSlack <= reach[m.attempt] /\ reach[m.attempt] \in Nat
      BY <1>0, <2>1 DEF PlaceInv, Reaches
    <2>3. touched[o] <= reach[m.attempt]
      BY <1>0, <2>1, <2>2
    <2> QED
      BY <1>1, <2>1, <2>3
  <1>3. ASSUME NEW e \in Deliveries, job[e] # NoJob, job[e].cmd = o
        PROVE  touched[o] < OlderQueuedWait
    BY <1>0, <1>1, <1>3, JobType DEF PlaceInv
  <1> QED
    BY <1>2, <1>3 DEF Waiting

\* Every step keeps that a command cleared under the lock has nobody ahead.
LEMMA NobodyAheadNext ==
  ASSUME MaxFaults = 0, NEW reach, Reaches(reach),
         TypeOK, TypeOK', LineInv, PlaceInv(reach), NobodyAhead, Step
  PROVE  NobodyAhead'
  <1> SUFFICES ASSUME NEW e \in Deliveries, job'[e].at = "free",
                      NEW o \in Commands, o < job'[e].cmd, Waiting(o)'
               PROVE  FALSE
    BY DEF NobodyAhead
  <1>1. job'[e].cmd = job[e].cmd /\ (job[e].at = "free" \/ RecheckClear(e))
    BY FreeFrom
  <1>2. job[e] # NoJob /\ job[e].cmd \in Commands
    BY <1>1, NotIdle, JobType DEF RecheckClear
  <1>3. status[o] # "none"
    BY <1>1, <1>2 DEF LineInv
  <1>4. Waiting(o)
    BY <1>3, WaitingFrom
  <1>5. CASE job[e].at = "free"
    BY <1>1, <1>4, <1>5 DEF NobodyAhead
  <1>6. CASE RecheckClear(e)
    <2>1. ~ComesBefore(o, job[e].cmd)
      <3>1. o # job[e].cmd
        BY <1>1, <1>2, TurnAssumption
      <3> QED
        BY <1>6, <3>1 DEF RecheckClear, Blocked
    <2>2. touched[o] < OlderQueuedWait
      BY <1>4, WaitingKeepsPlace
    <2> QED
      BY <1>1, <1>4, <2>1, <2>2 DEF ComesBefore, Waiting
  <1> QED
    BY <1>1, <1>5, <1>6

PlaceAll(reach) == LineInv /\ PlaceInv(reach) /\ NobodyAhead

\* Every step keeps all of it.
LEMMA PlaceAllNext ==
  ASSUME MaxFaults = 0, PromptLooks, BusyDelay <= BusyLongestDelay, NEW CONSTANT reach, Reaches(reach),
         TypeOK, TypeOK', PlaceAll(reach), [Next]_vars
  PROVE  PlaceAll(reach)'
  <1>1. CASE UNCHANGED vars
    BY <1>1 DEF vars, PlaceAll, LineInv, PlaceInv, NobodyAhead, Waiting
  <1>2. CASE Step
    BY <1>2, LineNext, PlaceNext, NobodyAheadNext DEF PlaceAll
  <1> QED
    BY <1>1, <1>2 DEF Next

\* Commands start in arrival order (server-turn.ts, OLDER_QUEUED_WAIT_MS), for any
\* number of commands and deliveries: one that starts leaves no older one behind that
\* still has a message on its way, be it between two looks or waiting out its retries.
\* It rests on the limits being related (Reaches), as they are in the code: 30 s to the
\* stamp, 30 s to the look, then 5, 30, 120 and 600 s for the retries make 815 s of the
\* 900 a silent command is waited for, and leave 85 s for what the queue is late.
THEOREM StartsInOrder ==
  ASSUME MaxFaults = 0, PromptLooks, BusyDelay <= BusyLongestDelay, NEW CONSTANT reach, Reaches(reach)
  PROVE  Spec => ArrivalOrder
  <1>1. Init => PlaceAll(reach)
    BY DEF Init, PlaceAll, LineInv, PlaceInv, NobodyAhead, NoJob
  <1>2. TypeOK /\ TypeOK' /\ PlaceAll(reach) /\ [Next]_vars => PlaceAll(reach)'
    BY PlaceAllNext
  <1>3. TypeOK /\ TurnInv /\ PlaceAll(reach) /\ [Next]_vars =>
           [\A c, o \in Commands : Starts(c) /\ o < c => ~Waiting(o)]_vars
    <2> SUFFICES ASSUME TypeOK, TurnInv, NobodyAhead, Step,
                        NEW c \in Commands, NEW o \in Commands, Starts(c), o < c
                 PROVE  ~Waiting(o)
      BY DEF PlaceAll, Next
    <2>1. ~Calm
      BY DEF Calm, Starts, Live
    <2>2. PICK d \in Deliveries : Starting(d)
      BY <2>1, StepKinds DEF TurnInv
    <2>3. job[d].at = "free" /\ status' = [status EXCEPT ![job[d].cmd] = "dispatching"]
      BY <2>2 DEF Starting, Claim, MarkClaimed
    <2>4. c = job[d].cmd
      BY <2>3 DEF Starts, TypeOK
    <2> QED
      BY <2>3, <2>4 DEF NobodyAhead
  <1> QED
    BY <1>1, <1>2, <1>3, TypeCorrect, TurnInvHolds, PTL DEF Spec, ArrivalOrder
=============================================================================
