----------------------- MODULE CommandDeliveryProofs -----------------------
(***************************************************************************)
(* Proofs about CommandDelivery, for any number of deliveries, attempts    *)
(* and faults: types, that a finished command stays finished, that an open *)
(* command keeps its payload, that no success is made up, that a confirmed *)
(* result is held, and that a command is put on the wire once.             *)
(***************************************************************************)
EXTENDS CommandDelivery, TLAPS

-----------------------------------------------------------------------------
(* Types, in three parts: plain values, Booleans and the deliveries.       *)

ValuesOK ==
    /\ status \in Statuses
    /\ claims \in Nat
    /\ verdict \in Verdicts
    /\ payload \in {"kept", "expiring", "gone"}
    /\ cleanup \subseteq Cleanups
    /\ queue \subseteq 1 .. MaxAttempt
    /\ request \in Requests
    /\ outbox \in {"queued", "inflight", "done"}
    /\ batch \in {"none", "current", "old"}
    /\ fromHost \subseteq {"ack"} \cup Answered
    /\ host \in {"new", "running"} \cup Answered
    /\ sweepSaw \in {"none", "undelivered", "in_flight"}
    /\ faults \in Nat

FlagsOK ==
    /\ sentAt \in BOOLEAN
    /\ started \in BOOLEAN
    /\ link \in BOOLEAN
    /\ toHost \in BOOLEAN
    /\ kept \in BOOLEAN
    /\ fenceSaw \in BOOLEAN

RunOK == run \in [Runs -> RunStates]

\* The parts make up TypeOK.
LEMMA TypeParts == /\ TypeOK <=> ValuesOK /\ FlagsOK /\ RunOK
                   /\ TypeOK' <=> ValuesOK' /\ FlagsOK' /\ RunOK'
BY Zenon DEF TypeOK, ValuesOK, FlagsOK, RunOK

\* A delivery starts out as a well typed record.
LEMMA IdleType == Idle \in RunStates
BY DeliveryAssumption DEF Idle, RunStates, Places, Statuses, Live, Terminal, Answered

\* The initial state is well typed.
LEMMA TypeInit == Init => TypeOK
<1> SUFFICES ASSUME Init PROVE ValuesOK /\ FlagsOK /\ RunOK
  BY TypeParts
<1>1. ValuesOK
  BY DeliveryAssumption DEF Init, ValuesOK, Statuses, Verdicts, Requests
<1>2. FlagsOK
  BY DEF Init, FlagsOK
<1>3. RunOK
  BY IdleType DEF Init, RunOK
<1> QED BY <1>1, <1>2, <1>3

\* What a delivery's record holds.
LEMMA RunFields ==
    ASSUME RunOK, NEW d \in Runs
    PROVE  /\ run[d] \in RunStates
           /\ run[d].at \in Places
           /\ run[d].claims \in Nat
           /\ run[d].attempt \in 1 .. MaxAttempt
BY DEF RunOK, RunStates

\* Every change a delivery makes to its own record keeps it well typed.
LEMMA RunMoves ==
    ASSUME ValuesOK, RunOK, NEW d \in Runs
    PROVE  /\ Done(d) => RunOK'
           /\ \A p \in Places : Go(d, p) => RunOK'
           /\ \A b \in BOOLEAN :
                 /\ run' = [run EXCEPT ![d].deadline = b] => RunOK'
                 /\ run' = [run EXCEPT ![d].at = "waiting", ![d].deadline = b] => RunOK'
           /\ \A g \in {"unacked"} \cup Answered : Answer(d, g) => RunOK'
           /\ \A a \in 1 .. MaxAttempt : run' = [run EXCEPT ![d] = Loaded(a)] => RunOK'
           /\ \A p \in Places, b \in BOOLEAN : Forget(d, p, b) => RunOK'
<1>1. run \in [Runs -> RunStates] /\ run[d] \in RunStates /\ claims \in Nat /\ status \in Statuses
  BY RunFields DEF ValuesOK, RunOK
<1>2. Done(d) => RunOK'
  BY <1>1, IdleType DEF RunOK, Done
<1>3. ASSUME NEW p \in Places PROVE Go(d, p) => RunOK'
  <2>1. [run[d] EXCEPT !.at = p] \in RunStates
    BY <1>1 DEF RunStates
  <2> QED BY <1>1, <2>1 DEF RunOK, Go
<1>4. ASSUME NEW b \in BOOLEAN
      PROVE  /\ run' = [run EXCEPT ![d].deadline = b] => RunOK'
             /\ run' = [run EXCEPT ![d].at = "waiting", ![d].deadline = b] => RunOK'
  <2>1. /\ [run[d] EXCEPT !.deadline = b] \in RunStates
        /\ [run[d] EXCEPT !.at = "waiting", !.deadline = b] \in RunStates
    BY <1>1 DEF RunStates, Places
  <2> QED BY <1>1, <2>1 DEF RunOK
<1>5. ASSUME NEW g \in {"unacked"} \cup Answered PROVE Answer(d, g) => RunOK'
  <2>1. [run[d] EXCEPT !.at = "answer", !.got = g] \in RunStates
    BY <1>1 DEF RunStates, Places, Answered
  <2> QED BY <1>1, <2>1 DEF RunOK, Answer
<1>6. ASSUME NEW a \in 1 .. MaxAttempt
      PROVE  run' = [run EXCEPT ![d] = Loaded(a)] => RunOK'
  <2>1. Loaded(a) \in RunStates
    BY <1>1 DEF Loaded, RunStates, Places
  <2> QED BY <1>1, <2>1 DEF RunOK
<1>7. ASSUME NEW p \in Places, NEW b \in BOOLEAN PROVE Forget(d, p, b) => RunOK'
  <2>1. [run[d] EXCEPT !.at = p, !.seen = "queued", !.claims = 0, !.deadline = b] \in RunStates
    BY <1>1 DEF RunStates, Statuses
  <2> QED BY <1>1, <2>1 DEF RunOK, Forget
<1> QED BY <1>2, <1>3, <1>4, <1>5, <1>6, <1>7

\* A message goes back on the queue with an attempt in range.
LEMMA QueueGrows ==
    ASSUME ValuesOK, NEW a \in 1 .. MaxAttempt, queue' = queue \cup {a}
    PROVE  queue' \subseteq 1 .. MaxAttempt
BY DEF ValuesOK

\* The statements of a delivery keep the plain values well typed.
LEMMA ValuesDelivery ==
    ASSUME ValuesOK, RunOK, NEW d \in Runs, Delivery(d)
    PROVE  ValuesOK'
<1> USE RunFields DEF row, dispatch, cell, wire, server, sweeps, Statuses, Live, Terminal,
           Cleanups, CleanupOf, Requests, Answered, Verdicts
<1>1. CASE \E a \in queue : Load(d, a)
  BY <1>1 DEF ValuesOK, Load
<1>2. CASE Expire(d)
  <2>1. PICK s \in Terminal, v \in {"same", "other"} : End(s, v)
    BY <1>2 DEF Expire, Expired
  <2> QED BY <1>2, <2>1 DEF ValuesOK, Expire, End
<1>3. CASE ResumeSent(d)
  BY <1>3 DEF ValuesOK, ResumeSent, End, TimedOutText, Forget
<1>4. CASE PayloadMissing(d)
  BY <1>4 DEF ValuesOK, PayloadMissing, End
<1>5. CASE Busy(d)
  <2>1. run[d].attempt \in 1 .. MaxAttempt
    BY <1>5, DeliveryAssumption DEF Busy
  <2>2. queue' \subseteq 1 .. MaxAttempt
    BY <1>5, <2>1, QueueGrows DEF Busy
  <2> QED
    BY <1>5, <2>2 DEF ValuesOK, Busy
<1>6. CASE Claim(d)
  BY <1>6 DEF ValuesOK, Claim, Forget
<1>7. CASE PayloadRead(d)
  BY <1>7 DEF ValuesOK, PayloadRead
<1>8. CASE Refuse(d)
  BY <1>8 DEF ValuesOK, Refuse, End
<1>9. CASE Enqueue(d)
  BY <1>9 DEF ValuesOK, Enqueue, Superseded
<1>10. CASE MarkSent(d)
  BY <1>10 DEF ValuesOK, MarkSent
<1> QED BY <1>1, <1>2, <1>3, <1>4, <1>5, <1>6, <1>7, <1>8, <1>9, <1>10 DEF Delivery

\* The steps of its wait keep the plain values well typed.
LEMMA ValuesWait ==
    ASSUME ValuesOK, RunOK, NEW d \in Runs, Wait(d)
    PROVE  ValuesOK'
<1> USE RunFields DEF row, dispatch, cell, wire, server, sweeps, Statuses, Live, Terminal,
           Cleanups, CleanupOf, Requests, Answered, Verdicts
<1>1. CASE GotAnswer(d)
  BY <1>1 DEF ValuesOK, GotAnswer
<1>2. CASE AckDeadline(d)
  BY <1>2 DEF ValuesOK, AckDeadline
<1>3. CASE DropConnection(d)
  <2>1. CASE LinkDown /\ UNCHANGED faults
    BY <1>3, <2>1 DEF ValuesOK, DropConnection, LinkDown
  <2>2. CASE Fault /\ UNCHANGED <<wire, batch>>
    BY <1>3, <2>2 DEF ValuesOK, DropConnection, Fault
  <2> QED BY <1>3, <2>1, <2>2 DEF DropConnection
<1>4. CASE AfterDrop(d)
  BY <1>4 DEF ValuesOK, AfterDrop
<1>5. CASE HandOff(d)
  <2>1. 1 \in 1 .. MaxAttempt
    BY <1>5, DeliveryAssumption DEF HandOff
  <2>2. queue' \subseteq 1 .. MaxAttempt
    BY <1>5, <2>1, QueueGrows DEF HandOff
  <2> QED
    BY <1>5, <2>2 DEF ValuesOK, HandOff
<1>6. CASE Settled(d)
  BY <1>6 DEF ValuesOK, Settled
<1>7. CASE WaitOver(d)
  BY <1>7 DEF ValuesOK, WaitOver
<1>8. CASE TakeBackOffline(d)
  BY <1>8 DEF ValuesOK, TakeBackOffline, TakenBack, Superseded, Fault
<1>9. CASE TimeOut(d)
  BY <1>9 DEF ValuesOK, TimeOut, End, TimedOutText
<1>10. CASE Apply(d)
  <2>1. PICK s \in Terminal, v \in {"same", "other", "unacked"} : End(s, v)
    BY <1>10 DEF Apply
  <2> QED BY <1>10, <2>1 DEF ValuesOK, Apply, End
<1>11. CASE ExpireUnacked(d)
  BY <1>11 DEF ValuesOK, ExpireUnacked, TakenBack, Superseded, Fault
<1> QED BY <1>1, <1>2, <1>3, <1>4, <1>5, <1>6, <1>7, <1>8, <1>9, <1>10, <1>11 DEF Wait

\* Its errors and retries keep the plain values well typed.
LEMMA ValuesError ==
    ASSUME ValuesOK, RunOK, NEW d \in Runs, Error(d)
    PROVE  ValuesOK'
<1> USE RunFields DEF row, dispatch, cell, wire, server, sweeps, Statuses, Live, Terminal,
           Cleanups, CleanupOf, Requests, Answered, Verdicts
<1>1. CASE RetryLater(d)
  <2>1. (run[d].attempt + 1) \in 1 .. MaxAttempt
    BY <1>1, DeliveryAssumption DEF RetryLater
  <2>2. queue' \subseteq 1 .. MaxAttempt
    BY <1>1, <2>1, QueueGrows DEF RetryLater
  <2> QED
    BY <1>1, <2>2 DEF ValuesOK, RetryLater, Fault
<1>2. CASE GiveUp(d)
  <2>1. CASE Expired
    <3>1. PICK s \in Terminal, v \in {"same", "other"} : End(s, v)
      BY <2>1 DEF Expired
    <3> QED BY <1>2, <2>1, <3>1 DEF ValuesOK, GiveUp, End, Fault
  <2>2. CASE UNCHANGED <<row, cleanup>>
    BY <1>2, <2>2 DEF ValuesOK, GiveUp, Fault
  <2> QED BY <1>2, <2>1, <2>2 DEF GiveUp
<1>3. CASE LeaveRunning(d)
  BY <1>3 DEF ValuesOK, LeaveRunning
<1>4. CASE TakeBack(d)
  BY <1>4 DEF ValuesOK, TakeBack, TakenBack, Superseded, Fault
<1>5. CASE FailExhausted(d)
  BY <1>5 DEF ValuesOK, FailExhausted, End
<1>6. CASE DeadLetter(d)
  BY <1>6 DEF ValuesOK, DeadLetter, Fault
<1>7. CASE Crash(d)
  <2>1. run[d].attempt \in 1 .. MaxAttempt
    BY <1>7, DeliveryAssumption DEF Crash
  <2>2. queue' \subseteq 1 .. MaxAttempt
    BY <1>7, <2>1, QueueGrows DEF Crash
  <2> QED
    BY <1>7, <2>2 DEF ValuesOK, Crash, Fault
<1> QED BY <1>1, <1>2, <1>3, <1>4, <1>5, <1>6, <1>7 DEF Error

\* The cell keeps the plain values well typed.
LEMMA ValuesCell ==
    ASSUME ValuesOK, Cell
    PROVE  ValuesOK'
<1> USE DEF row, dispatch, cell, wire, server, sweeps, Statuses, Live, Terminal,
           Cleanups, CleanupOf, Requests, Answered, Verdicts
<1>1. CASE Pump
  BY <1>1 DEF ValuesOK, Pump
<1>2. CASE SendFrame
  BY <1>2 DEF ValuesOK, SendFrame
<1>3. CASE RequeueFrame
  BY <1>3 DEF ValuesOK, RequeueFrame
<1>4. CASE CellAck
  BY <1>4 DEF ValuesOK, CellAck
<1>5. CASE RequestExpires
  BY <1>5 DEF ValuesOK, RequestExpires, Superseded, Fault
<1>6. CASE LoseLink
  BY <1>6 DEF ValuesOK, LoseLink, LinkDown, Fault
<1>7. CASE Reconnect
  BY <1>7 DEF ValuesOK, Reconnect
<1>8. CASE \E o \in Answered, settled \in BOOLEAN : CellOutcome(o, settled)
  <2> PICK o \in Answered, settled \in BOOLEAN : CellOutcome(o, settled)
    BY <1>8
  <2>1. CASE settled /\ Corrects(o)
    BY <2>1 DEF ValuesOK, CellOutcome
  <2>2. CASE ~(settled /\ Corrects(o))
    <3>1. UNCHANGED <<status, started, verdict, cleanup>>
      BY <2>2, Zenon DEF CellOutcome
    <3>2. /\ request' \in Requests
          /\ outbox' \in {"queued", "inflight", "done"}
          /\ fromHost' \subseteq {"ack"} \cup Answered
      BY DEF ValuesOK, CellOutcome
    <3>3. UNCHANGED <<claims, sentAt, payload, queue, run, batch, link, toHost, host, sweeps, faults>>
      BY DEF CellOutcome
    <3> QED BY <3>1, <3>2, <3>3 DEF ValuesOK
  <2> QED BY <2>1, <2>2
<1> QED BY <1>1, <1>2, <1>3, <1>4, <1>5, <1>6, <1>7, <1>8 DEF Cell

\* The host keeps the plain values well typed.
LEMMA ValuesHost ==
    ASSUME ValuesOK, Host
    PROVE  ValuesOK'
<1> USE DEF row, dispatch, cell, wire, server, sweeps, Statuses, Live, Terminal,
           Cleanups, CleanupOf, Requests, Answered, Verdicts
<1>1. CASE HostReceive
  <2>1. host' \in {"running", host} /\ fromHost' \in {fromHost, fromHost \cup {"ack"}}
    BY <1>1 DEF HostReceive
  <2> QED BY <1>1, <2>1 DEF ValuesOK, HostReceive
<1>2. CASE HostReports
  BY <1>2 DEF ValuesOK, HostReports
<1>3. CASE HostProgress
  BY <1>3 DEF ValuesOK, HostProgress
<1>4. CASE \E o \in Answered : HostFinish(o)
  BY <1>4 DEF ValuesOK, HostFinish
<1> QED BY <1>1, <1>2, <1>3, <1>4 DEF Host

\* Sweeps, cancels and cleanup keep the plain values well typed.
LEMMA ValuesUpkeep ==
    ASSUME ValuesOK, Upkeep
    PROVE  ValuesOK'
<1> USE DEF row, dispatch, cell, wire, server, sweeps, Statuses, Live, Terminal,
           Cleanups, CleanupOf, Requests, Answered, Verdicts
<1>1. CASE SweepRead
  BY <1>1 DEF ValuesOK, SweepRead
<1>2. CASE SweepWrite
  BY <1>2 DEF ValuesOK, SweepWrite, End
<1>3. CASE Cancel
  BY <1>3 DEF ValuesOK, Cancel, End
<1>4. CASE FenceRead
  BY <1>4 DEF ValuesOK, FenceRead
<1>5. CASE FenceWrite
  BY <1>5 DEF ValuesOK, FenceWrite, End
<1>6. CASE SweepDispatch
  BY <1>6 DEF ValuesOK, SweepDispatch
<1>7. CASE Redeliver
  <2>1. 1 \in 1 .. MaxAttempt
    BY <1>7, DeliveryAssumption DEF Redeliver
  <2>2. queue' \subseteq 1 .. MaxAttempt
    BY <1>7, <2>1, QueueGrows DEF Redeliver
  <2> QED
    BY <1>7, <2>2 DEF ValuesOK, Redeliver, Fault
<1>8. CASE \E c \in Cleanups : Finalize(c)
  BY <1>8 DEF ValuesOK, Finalize
<1>9. CASE \E c \in Cleanups : CleanupFails(c)
  BY <1>9 DEF ValuesOK, CleanupFails, Fault
<1> QED BY <1>1, <1>2, <1>3, <1>4, <1>5, <1>6, <1>7, <1>8, <1>9 DEF Upkeep

\* The statements of a delivery keep the deliveries well typed.
LEMMA RunDelivery ==
    ASSUME ValuesOK, RunOK, NEW d \in Runs, Delivery(d)
    PROVE  RunOK'
<1> USE RunMoves DEF Places, ValuesOK
<1>1. CASE \E a \in queue : Load(d, a)
  <2> PICK a \in queue : Load(d, a)
    BY <1>1
  <2>1. a \in 1 .. MaxAttempt
    BY DEF ValuesOK
  <2>2. CASE Open
    BY <2>1, <2>2 DEF Load
  <2>3. CASE ~Open
    BY <2>3 DEF Load, RunOK
  <2> QED BY <2>2, <2>3
<1>2. CASE Expire(d)
  BY <1>2 DEF Expire, Expired, End
<1>3. CASE ResumeSent(d)
  BY <1>3 DEF ResumeSent, End, TimedOutText
<1>4. CASE PayloadMissing(d)
  BY <1>4 DEF PayloadMissing, End
<1>5. CASE Busy(d)
  BY <1>5 DEF Busy
<1>6. CASE Claim(d)
  BY <1>6 DEF Claim
<1>7. CASE PayloadRead(d)
  BY <1>7 DEF PayloadRead
<1>8. CASE Refuse(d)
  BY <1>8 DEF Refuse, End
<1>9. CASE Enqueue(d)
  BY <1>9 DEF Enqueue, Superseded
<1>10. CASE MarkSent(d)
  BY <1>10 DEF MarkSent
<1> QED BY <1>1, <1>2, <1>3, <1>4, <1>5, <1>6, <1>7, <1>8, <1>9, <1>10 DEF Delivery

\* The steps of its wait keep the deliveries well typed.
LEMMA RunWait ==
    ASSUME ValuesOK, RunOK, NEW d \in Runs, Wait(d)
    PROVE  RunOK'
<1> USE RunMoves DEF Places, ValuesOK
<1>1. CASE GotAnswer(d)
  BY <1>1 DEF GotAnswer
<1>2. CASE AckDeadline(d)
  BY <1>2 DEF AckDeadline
<1>3. CASE DropConnection(d)
  BY <1>3 DEF DropConnection, LinkDown, Fault
<1>4. CASE AfterDrop(d)
  BY <1>4 DEF AfterDrop
<1>5. CASE HandOff(d)
  BY <1>5 DEF HandOff
<1>6. CASE Settled(d)
  BY <1>6 DEF Settled
<1>7. CASE WaitOver(d)
  BY <1>7 DEF WaitOver
<1>8. CASE TakeBackOffline(d)
  BY <1>8 DEF TakeBackOffline, TakenBack, Superseded, Fault
<1>9. CASE TimeOut(d)
  BY <1>9 DEF TimeOut, End, TimedOutText
<1>10. CASE Apply(d)
  BY <1>10 DEF Apply, End
<1>11. CASE ExpireUnacked(d)
  BY <1>11 DEF ExpireUnacked, TakenBack, Superseded, Fault
<1> QED BY <1>1, <1>2, <1>3, <1>4, <1>5, <1>6, <1>7, <1>8, <1>9, <1>10, <1>11 DEF Wait

\* Its errors and retries keep the deliveries well typed.
LEMMA RunError ==
    ASSUME ValuesOK, RunOK, NEW d \in Runs, Error(d)
    PROVE  RunOK'
<1> USE RunMoves DEF Places, ValuesOK
<1>1. CASE RetryLater(d)
  BY <1>1 DEF RetryLater, Fault
<1>2. CASE GiveUp(d)
  BY <1>2 DEF GiveUp, Expired, End, Fault
<1>3. CASE LeaveRunning(d)
  BY <1>3 DEF LeaveRunning
<1>4. CASE TakeBack(d)
  BY <1>4 DEF TakeBack, TakenBack, Superseded, Fault
<1>5. CASE FailExhausted(d)
  BY <1>5 DEF FailExhausted, End
<1>6. CASE DeadLetter(d)
  BY <1>6 DEF DeadLetter, Fault
<1>7. CASE Crash(d)
  BY <1>7 DEF Crash, Fault
<1> QED BY <1>1, <1>2, <1>3, <1>4, <1>5, <1>6, <1>7 DEF Error

\* The statements of a delivery keep the flags well typed.
LEMMA FlagsDelivery ==
    ASSUME FlagsOK, NEW d \in Runs, Delivery(d)
    PROVE  FlagsOK'
BY Zenon DEF FlagsOK, Delivery, row, dispatch, cell, wire, server, sweeps, Busy, Claim, End,
       Enqueue, Expire, Expired, Load, MarkSent, PayloadMissing, PayloadRead, Refuse, ResumeSent,
       Superseded,
       TimedOutText

\* The steps of its wait keep the flags well typed.
LEMMA FlagsWait ==
    ASSUME FlagsOK, NEW d \in Runs, Wait(d)
    PROVE  FlagsOK'
BY Zenon DEF FlagsOK, Wait, row, dispatch, cell, wire, server, sweeps, AckDeadline, AfterDrop,
       Apply, DropConnection, End, ExpireUnacked, Fault, GotAnswer, HandOff, LinkDown, Settled,
       Superseded,
       TakeBackOffline, TakenBack, TimeOut, TimedOutText, WaitOver

\* Its errors and retries keep the flags well typed.
LEMMA FlagsError ==
    ASSUME FlagsOK, NEW d \in Runs, Error(d)
    PROVE  FlagsOK'
BY Zenon DEF FlagsOK, Error, row, dispatch, cell, wire, server, sweeps, Crash, DeadLetter, End,
       Expired, FailExhausted, Fault, GiveUp, LeaveRunning, RetryLater, Superseded, TakeBack,
       TakenBack

\* The cell keeps the flags well typed.
LEMMA FlagsCell ==
    ASSUME FlagsOK, Cell
    PROVE  FlagsOK'
BY Zenon DEF FlagsOK, Cell, row, dispatch, cell, wire, server, sweeps, CellAck, CellOutcome, Fault,
       LinkDown, LoseLink, Pump, Reconnect, RequestExpires, RequeueFrame, SendFrame, Superseded

\* The host keeps the flags well typed.
LEMMA FlagsHost ==
    ASSUME FlagsOK, Host
    PROVE  FlagsOK'
BY Zenon DEF FlagsOK, Host, row, dispatch, cell, wire, server, sweeps, HostFinish, HostProgress,
       HostReceive, HostReports

\* Sweeps, cancels and cleanup keep the flags well typed.
LEMMA FlagsUpkeep ==
    ASSUME FlagsOK, Upkeep
    PROVE  FlagsOK'
BY Zenon DEF FlagsOK, Upkeep, row, dispatch, cell, wire, server, sweeps, Cancel, CleanupFails, End,
       Fault, FenceRead, FenceWrite, Finalize, Redeliver, SweepDispatch, SweepRead, SweepWrite

\* Every step keeps the types.
LEMMA TypeNext == TypeOK /\ [Next]_vars => TypeOK'
<1> SUFFICES ASSUME ValuesOK, FlagsOK, RunOK, [Next]_vars
             PROVE  ValuesOK' /\ FlagsOK' /\ RunOK'
  BY TypeParts
<1>1. ASSUME NEW d \in Runs, Delivery(d) PROVE ValuesOK' /\ FlagsOK' /\ RunOK'
  BY <1>1, ValuesDelivery, FlagsDelivery, RunDelivery
<1>2. ASSUME NEW d \in Runs, Wait(d) PROVE ValuesOK' /\ FlagsOK' /\ RunOK'
  BY <1>2, ValuesWait, FlagsWait, RunWait
<1>3. ASSUME NEW d \in Runs, Error(d) PROVE ValuesOK' /\ FlagsOK' /\ RunOK'
  BY <1>3, ValuesError, FlagsError, RunError
<1>4. CASE Cell
  <2>1. UNCHANGED run
    BY <1>4 DEF Cell, Pump, SendFrame, RequeueFrame, CellAck, RequestExpires, LoseLink, Reconnect,
                CellOutcome
  <2> QED BY <1>4, <2>1, ValuesCell, FlagsCell DEF RunOK
<1>5. CASE Host
  <2>1. UNCHANGED run
    BY <1>5 DEF Host, HostReceive, HostReports, HostProgress, HostFinish
  <2> QED BY <1>5, <2>1, ValuesHost, FlagsHost DEF RunOK
<1>6. CASE Upkeep
  <2>1. UNCHANGED run
    BY <1>6 DEF Upkeep, SweepRead, SweepWrite, Cancel, FenceRead, FenceWrite, SweepDispatch,
                Redeliver, Finalize, CleanupFails
  <2> QED BY <1>6, <2>1, ValuesUpkeep, FlagsUpkeep DEF RunOK
<1>7. CASE UNCHANGED vars
  BY <1>7 DEF vars, row, dispatch, cell, wire, server, sweeps, ValuesOK, FlagsOK, RunOK
<1> QED BY <1>1, <1>2, <1>3, <1>4, <1>5, <1>6, <1>7 DEF Next

\* TypeOK holds in every reachable state, for any number of deliveries, attempts
\* and faults.
THEOREM TypeCorrect == Spec => []TypeOK
<1> QED BY TypeInit, TypeNext, PTL DEF Spec

-----------------------------------------------------------------------------
(* A finished command stays finished, an open one keeps its payload.       *)

\* A step that leaves the command open found it open, and touches its payload only
\* if something had already ended it.
OpenStep == Open' => /\ Open
                     /\ UNCHANGED dispatch \/ cleanup # {} \/ payload = "expiring"

\* The statements of a delivery: a finished command is not opened again.
LEMMA OpenDelivery ==
    ASSUME ValuesOK, NEW d \in Runs, Delivery(d)
    PROVE  OpenStep
<1> USE DEF OpenStep, Open, Terminal, row, dispatch, Live
<1>1. CASE \E a \in queue : Load(d, a)
  BY <1>1 DEF Load
<1>2. CASE Expire(d)
  BY <1>2 DEF Expire, Expired, End
<1>3. CASE ResumeSent(d)
  BY <1>3 DEF ResumeSent, End, TimedOutText
<1>4. CASE PayloadMissing(d)
  BY <1>4 DEF PayloadMissing, End
<1>5. CASE Busy(d)
  BY <1>5 DEF Busy
<1>6. CASE Claim(d)
  BY <1>6 DEF Claim
<1>7. CASE PayloadRead(d)
  BY <1>7 DEF PayloadRead
<1>8. CASE Refuse(d)
  BY <1>8 DEF Refuse, End
<1>9. CASE Enqueue(d)
  BY <1>9 DEF Enqueue, Superseded
<1>10. CASE MarkSent(d)
  BY <1>10 DEF MarkSent
<1> QED BY <1>1, <1>2, <1>3, <1>4, <1>5, <1>6, <1>7, <1>8, <1>9, <1>10 DEF Delivery

\* The steps of its wait: a finished command is not opened again.
LEMMA OpenWait ==
    ASSUME ValuesOK, NEW d \in Runs, Wait(d)
    PROVE  OpenStep
<1> USE DEF OpenStep, Open, Terminal, row, dispatch, Live
<1>1. CASE GotAnswer(d)
  BY <1>1 DEF GotAnswer
<1>2. CASE AckDeadline(d)
  BY <1>2 DEF AckDeadline
<1>3. CASE DropConnection(d)
  BY <1>3 DEF DropConnection, LinkDown, Fault
<1>4. CASE AfterDrop(d)
  BY <1>4 DEF AfterDrop
<1>5. CASE HandOff(d)
  BY <1>5 DEF HandOff
<1>6. CASE Settled(d)
  BY <1>6 DEF Settled
<1>7. CASE WaitOver(d)
  BY <1>7 DEF WaitOver
<1>8. CASE TakeBackOffline(d)
  BY <1>8 DEF TakeBackOffline, TakenBack, Superseded, Fault
<1>9. CASE TimeOut(d)
  BY <1>9 DEF TimeOut, End, TimedOutText
<1>10. CASE Apply(d)
  BY <1>10 DEF Apply, End
<1>11. CASE ExpireUnacked(d)
  BY <1>11 DEF ExpireUnacked, TakenBack, Superseded, Fault
<1> QED BY <1>1, <1>2, <1>3, <1>4, <1>5, <1>6, <1>7, <1>8, <1>9, <1>10, <1>11 DEF Wait

\* Its errors and retries: a finished command is not opened again.
LEMMA OpenError ==
    ASSUME ValuesOK, NEW d \in Runs, Error(d)
    PROVE  OpenStep
<1> USE DEF OpenStep, Open, Terminal, row, dispatch, Live
<1>1. CASE RetryLater(d)
  BY <1>1 DEF RetryLater, Fault
<1>2. CASE GiveUp(d)
  BY <1>2 DEF GiveUp, Expired, End, Fault
<1>3. CASE LeaveRunning(d)
  BY <1>3 DEF LeaveRunning
<1>4. CASE TakeBack(d)
  BY <1>4 DEF TakeBack, TakenBack, Superseded, Fault
<1>5. CASE FailExhausted(d)
  BY <1>5 DEF FailExhausted, End
<1>6. CASE DeadLetter(d)
  BY <1>6 DEF DeadLetter, Fault
<1>7. CASE Crash(d)
  BY <1>7 DEF Crash, Fault
<1> QED BY <1>1, <1>2, <1>3, <1>4, <1>5, <1>6, <1>7 DEF Error

\* The cell: a finished command is not opened again.
LEMMA OpenCell ==
    ASSUME ValuesOK, Cell
    PROVE  OpenStep
<1> USE DEF OpenStep, Open, Terminal, row, dispatch, Live
<1>1. CASE Pump
  BY <1>1 DEF Pump
<1>2. CASE SendFrame
  BY <1>2 DEF SendFrame
<1>3. CASE RequeueFrame
  BY <1>3 DEF RequeueFrame
<1>4. CASE CellAck
  BY <1>4 DEF CellAck
<1>5. CASE RequestExpires
  BY <1>5 DEF RequestExpires, Superseded, Fault
<1>6. CASE LoseLink
  BY <1>6 DEF LoseLink, LinkDown, Fault
<1>7. CASE Reconnect
  BY <1>7 DEF Reconnect
<1>8. CASE \E o \in Answered, settled \in BOOLEAN : CellOutcome(o, settled)
  BY <1>8 DEF CellOutcome
<1> QED BY <1>1, <1>2, <1>3, <1>4, <1>5, <1>6, <1>7, <1>8 DEF Cell

\* The host: a finished command is not opened again.
LEMMA OpenHost ==
    ASSUME ValuesOK, Host
    PROVE  OpenStep
<1> USE DEF OpenStep, Open, Terminal, row, dispatch, Live
<1>1. CASE HostReceive
  BY <1>1 DEF HostReceive
<1>2. CASE HostReports
  BY <1>2 DEF HostReports
<1>3. CASE HostProgress
  BY <1>3 DEF HostProgress
<1>4. CASE \E o \in Answered : HostFinish(o)
  BY <1>4 DEF HostFinish
<1> QED BY <1>1, <1>2, <1>3, <1>4 DEF Host

\* Sweeps, cancels and cleanup: a finished command is not opened again.
LEMMA OpenUpkeep ==
    ASSUME ValuesOK, Upkeep
    PROVE  OpenStep
<1> USE DEF OpenStep, Open, Terminal, row, dispatch, Live
<1>1. CASE SweepRead
  BY <1>1 DEF SweepRead
<1>2. CASE SweepWrite
  BY <1>2 DEF SweepWrite, End
<1>3. CASE Cancel
  BY <1>3 DEF Cancel, End
<1>4. CASE FenceRead
  BY <1>4 DEF FenceRead
<1>5. CASE FenceWrite
  BY <1>5 DEF FenceWrite, End
<1>6. CASE SweepDispatch
  BY <1>6 DEF SweepDispatch
<1>7. CASE Redeliver
  BY <1>7 DEF Redeliver, Fault
<1>8. CASE \E c \in Cleanups : Finalize(c)
  BY <1>8 DEF Finalize
<1>9. CASE \E c \in Cleanups : CleanupFails(c)
  BY <1>9 DEF CleanupFails, Fault
<1> QED BY <1>1, <1>2, <1>3, <1>4, <1>5, <1>6, <1>7, <1>8, <1>9 DEF Upkeep

\* No step opens a finished command.
LEMMA OpenNext ==
    ASSUME TypeOK, [Next]_vars
    PROVE  OpenStep
<1>1. ValuesOK
  BY TypeParts
<1>2. CASE UNCHANGED vars
  BY <1>2 DEF OpenStep, Open, vars, row, dispatch
<1> QED
  BY <1>1, <1>2, OpenDelivery, OpenWait, OpenError, OpenCell, OpenHost, OpenUpkeep DEF Next

\* A command that has finished never moves back to a live status, whatever the
\* number of deliveries, sweeps and cancels that write its row from an earlier read.
THEOREM NeverLiveAgainHolds == Spec => NeverLiveAgain
<1>1. TypeOK /\ [Next]_vars => [(status \in Terminal) => (status' \in Terminal)]_vars
  BY OpenNext DEF OpenStep, Open
<1> QED BY <1>1, TypeCorrect, PTL DEF Spec, NeverLiveAgain

\* An open command keeps its payload: it is inductive as it stands, because only a
\* terminal write starts a cleanup and no step opens a finished command.
THEOREM PayloadIsKept == Spec => []PayloadWhileOpen
<1>1. Init => PayloadWhileOpen
  BY DEF Init, PayloadWhileOpen
<1>2. TypeOK /\ PayloadWhileOpen /\ [Next]_vars => PayloadWhileOpen'
  BY OpenNext DEF OpenStep, PayloadWhileOpen, dispatch
<1> QED BY <1>1, <1>2, TypeCorrect, PTL DEF Spec

-----------------------------------------------------------------------------
(* No success is made up.                                                  *)

\* What the cell, the wire and the deliveries hold of an outcome is what happened
\* on the host; SuccessIsTrue alone is not inductive, since a success is written
\* from what a delivery read of the cell some steps before.
Truth ==
    /\ \A o \in Answered : request = o \/ o \in fromHost => host = o
    /\ \A d \in Runs : run[d].got \in Answered => host = run[d].got
    /\ SuccessIsTrue

\* A delivery learns an outcome only from the cell.
Learns == \A e \in Runs : run'[e].got \in {run[e].got, "none", "unacked", request}

\* Every change a delivery makes to its own record is of that kind.
LEMMA LearnMoves ==
    ASSUME RunOK, NEW d \in Runs
    PROVE  /\ Done(d) => Learns
           /\ \A p \in Places : Go(d, p) => Learns
           /\ \A b \in BOOLEAN :
                 /\ run' = [run EXCEPT ![d].deadline = b] => Learns
                 /\ run' = [run EXCEPT ![d].at = "waiting", ![d].deadline = b] => Learns
           /\ \A g \in {"unacked", request} : Answer(d, g) => Learns
           /\ \A a \in 1 .. MaxAttempt : run' = [run EXCEPT ![d] = Loaded(a)] => Learns
           /\ \A p \in Places, b \in BOOLEAN : Forget(d, p, b) => Learns
<1>1. run \in [Runs -> RunStates] /\ run[d] \in RunStates
  BY RunFields DEF RunOK
<1>2. Done(d) => Learns
  BY <1>1 DEF Learns, Done, Idle
<1>3. ASSUME NEW p \in Places PROVE Go(d, p) => Learns
  BY <1>1 DEF Learns, Go, RunStates
<1>4. ASSUME NEW b \in BOOLEAN
      PROVE  /\ run' = [run EXCEPT ![d].deadline = b] => Learns
             /\ run' = [run EXCEPT ![d].at = "waiting", ![d].deadline = b] => Learns
  BY <1>1 DEF Learns, RunStates
<1>5. ASSUME NEW g \in {"unacked", request} PROVE Answer(d, g) => Learns
  BY <1>1 DEF Learns, Answer, RunStates
<1>6. ASSUME NEW a \in 1 .. MaxAttempt
      PROVE  run' = [run EXCEPT ![d] = Loaded(a)] => Learns
  BY <1>1 DEF Learns, Loaded
<1>7. ASSUME NEW p \in Places, NEW b \in BOOLEAN PROVE Forget(d, p, b) => Learns
  BY <1>1 DEF Learns, Forget, RunStates
<1> QED BY <1>2, <1>3, <1>4, <1>5, <1>6, <1>7

\* The statements of a delivery: an outcome is learnt only from the cell.
LEMMA LearnDelivery ==
    ASSUME ValuesOK, RunOK, NEW d \in Runs, Delivery(d)
    PROVE  Learns
<1> USE LearnMoves DEF Places, ValuesOK
<1>1. CASE \E a \in queue : Load(d, a)
  <2> PICK a \in queue : Load(d, a)
    BY <1>1
  <2>1. a \in 1 .. MaxAttempt
    BY DEF ValuesOK
  <2>2. CASE Open
    BY <2>1, <2>2 DEF Load
  <2>3. CASE ~Open
    BY <2>3 DEF Load, Learns
  <2> QED BY <2>2, <2>3
<1>2. CASE Expire(d)
  BY <1>2 DEF Expire, Expired, End
<1>3. CASE ResumeSent(d)
  BY <1>3 DEF ResumeSent, End, TimedOutText
<1>4. CASE PayloadMissing(d)
  BY <1>4 DEF PayloadMissing, End
<1>5. CASE Busy(d)
  BY <1>5 DEF Busy
<1>6. CASE Claim(d)
  BY <1>6 DEF Claim
<1>7. CASE PayloadRead(d)
  BY <1>7 DEF PayloadRead
<1>8. CASE Refuse(d)
  BY <1>8 DEF Refuse, End
<1>9. CASE Enqueue(d)
  BY <1>9 DEF Enqueue, Superseded
<1>10. CASE MarkSent(d)
  BY <1>10 DEF MarkSent
<1> QED BY <1>1, <1>2, <1>3, <1>4, <1>5, <1>6, <1>7, <1>8, <1>9, <1>10 DEF Delivery

\* The steps of its wait: an outcome is learnt only from the cell.
LEMMA LearnWait ==
    ASSUME ValuesOK, RunOK, NEW d \in Runs, Wait(d)
    PROVE  Learns
<1> USE LearnMoves DEF Places, ValuesOK
<1>1. CASE GotAnswer(d)
  BY <1>1 DEF GotAnswer
<1>2. CASE AckDeadline(d)
  BY <1>2 DEF AckDeadline
<1>3. CASE DropConnection(d)
  BY <1>3 DEF DropConnection, LinkDown, Fault
<1>4. CASE AfterDrop(d)
  BY <1>4 DEF AfterDrop
<1>5. CASE HandOff(d)
  BY <1>5 DEF HandOff
<1>6. CASE Settled(d)
  BY <1>6 DEF Settled
<1>7. CASE WaitOver(d)
  BY <1>7 DEF WaitOver
<1>8. CASE TakeBackOffline(d)
  BY <1>8 DEF TakeBackOffline, TakenBack, Superseded, Fault
<1>9. CASE TimeOut(d)
  BY <1>9 DEF TimeOut, End, TimedOutText
<1>10. CASE Apply(d)
  BY <1>10 DEF Apply, End
<1>11. CASE ExpireUnacked(d)
  BY <1>11 DEF ExpireUnacked, TakenBack, Superseded, Fault
<1> QED BY <1>1, <1>2, <1>3, <1>4, <1>5, <1>6, <1>7, <1>8, <1>9, <1>10, <1>11 DEF Wait

\* Its errors and retries: an outcome is learnt only from the cell.
LEMMA LearnError ==
    ASSUME ValuesOK, RunOK, NEW d \in Runs, Error(d)
    PROVE  Learns
<1> USE LearnMoves DEF Places, ValuesOK
<1>1. CASE RetryLater(d)
  BY <1>1 DEF RetryLater, Fault
<1>2. CASE GiveUp(d)
  BY <1>2 DEF GiveUp, Expired, End, Fault
<1>3. CASE LeaveRunning(d)
  BY <1>3 DEF LeaveRunning
<1>4. CASE TakeBack(d)
  BY <1>4 DEF TakeBack, TakenBack, Superseded, Fault
<1>5. CASE FailExhausted(d)
  BY <1>5 DEF FailExhausted, End
<1>6. CASE DeadLetter(d)
  BY <1>6 DEF DeadLetter, Fault
<1>7. CASE Crash(d)
  BY <1>7 DEF Crash, Fault
<1> QED BY <1>1, <1>2, <1>3, <1>4, <1>5, <1>6, <1>7 DEF Error

\* What a delivery's step does to the rest: no outcome appears in the cell or on the
\* wire, and only applyPendingOutcome writes a success.
Reports(d) ==
    /\ UNCHANGED host
    /\ request' \in {request, "none", "queued"}
    /\ fromHost' \subseteq fromHost
    /\ status' = "succeeded" => status = "succeeded" \/ Apply(d)

\* The statements of a delivery: no outcome is made up.
LEMMA ReportDelivery ==
    ASSUME NEW d \in Runs, Delivery(d)
    PROVE  Reports(d)
<1> USE DEF Reports, row, dispatch, cell, wire, server, sweeps
<1>1. CASE \E a \in queue : Load(d, a)
  BY <1>1 DEF Load
<1>2. CASE Expire(d)
  BY <1>2 DEF Expire, Expired, End
<1>3. CASE ResumeSent(d)
  BY <1>3 DEF ResumeSent, End, TimedOutText
<1>4. CASE PayloadMissing(d)
  BY <1>4 DEF PayloadMissing, End
<1>5. CASE Busy(d)
  BY <1>5 DEF Busy
<1>6. CASE Claim(d)
  BY <1>6 DEF Claim
<1>7. CASE PayloadRead(d)
  BY <1>7 DEF PayloadRead
<1>8. CASE Refuse(d)
  BY <1>8 DEF Refuse, End
<1>9. CASE Enqueue(d)
  BY <1>9 DEF Enqueue, Superseded
<1>10. CASE MarkSent(d)
  BY <1>10 DEF MarkSent
<1> QED BY <1>1, <1>2, <1>3, <1>4, <1>5, <1>6, <1>7, <1>8, <1>9, <1>10 DEF Delivery

\* The steps of its wait: no outcome is made up.
LEMMA ReportWait ==
    ASSUME NEW d \in Runs, Wait(d)
    PROVE  Reports(d)
<1> USE DEF Reports, row, dispatch, cell, wire, server, sweeps
<1>1. CASE GotAnswer(d)
  BY <1>1 DEF GotAnswer
<1>2. CASE AckDeadline(d)
  BY <1>2 DEF AckDeadline
<1>3. CASE DropConnection(d)
  BY <1>3 DEF DropConnection, LinkDown, Fault
<1>4. CASE AfterDrop(d)
  BY <1>4 DEF AfterDrop
<1>5. CASE HandOff(d)
  BY <1>5 DEF HandOff
<1>6. CASE Settled(d)
  BY <1>6 DEF Settled
<1>7. CASE WaitOver(d)
  BY <1>7 DEF WaitOver
<1>8. CASE TakeBackOffline(d)
  BY <1>8 DEF TakeBackOffline, TakenBack, Superseded, Fault
<1>9. CASE TimeOut(d)
  BY <1>9 DEF TimeOut, End, TimedOutText
<1>10. CASE Apply(d)
  BY <1>10 DEF Apply, End
<1>11. CASE ExpireUnacked(d)
  BY <1>11 DEF ExpireUnacked, TakenBack, Superseded, Fault
<1> QED BY <1>1, <1>2, <1>3, <1>4, <1>5, <1>6, <1>7, <1>8, <1>9, <1>10, <1>11 DEF Wait

\* Its errors and retries: no outcome is made up.
LEMMA ReportError ==
    ASSUME NEW d \in Runs, Error(d)
    PROVE  Reports(d)
<1> USE DEF Reports, row, dispatch, cell, wire, server, sweeps
<1>1. CASE RetryLater(d)
  BY <1>1 DEF RetryLater, Fault
<1>2. CASE GiveUp(d)
  BY <1>2 DEF GiveUp, Expired, End, Fault
<1>3. CASE LeaveRunning(d)
  BY <1>3 DEF LeaveRunning
<1>4. CASE TakeBack(d)
  BY <1>4 DEF TakeBack, TakenBack, Superseded, Fault
<1>5. CASE FailExhausted(d)
  BY <1>5 DEF FailExhausted, End
<1>6. CASE DeadLetter(d)
  BY <1>6 DEF DeadLetter, Fault
<1>7. CASE Crash(d)
  BY <1>7 DEF Crash, Fault
<1> QED BY <1>1, <1>2, <1>3, <1>4, <1>5, <1>6, <1>7 DEF Error

\* A success a delivery writes is the host's.
LEMMA ApplyTruth ==
    ASSUME Truth, NEW d \in Runs, Apply(d), UNCHANGED host
    PROVE  SuccessIsTrue'
<1>1. CASE run[d].got = "done"
  <2>1. host = "done"
    BY <1>1 DEF Truth, Answered
  <2> QED BY <2>1 DEF SuccessIsTrue
<1>2. CASE run[d].got \in {"failed", "writable"}
  <2>1. host = run[d].got
    BY <1>2 DEF Truth, Answered
  <2>2. status' = "succeeded" => Kind = "resume" /\ run[d].got = "writable"
    BY <1>2 DEF Apply, AlreadyPromoted, End
  <2> QED BY <2>1, <2>2 DEF SuccessIsTrue
<1>3. CASE run[d].got = "unacked"
  <2>1. status' # "succeeded"
    BY <1>3 DEF Apply, AlreadyPromoted, End
  <2> QED BY <2>1 DEF SuccessIsTrue
<1> QED BY <1>1, <1>2, <1>3 DEF Apply, AlreadyPromoted

\* A delivery's step keeps the truth.
LEMMA RunTruth ==
    ASSUME Truth, NEW d \in Runs, Reports(d), Learns
    PROVE  Truth'
<1>1. UNCHANGED host /\ \A o \in Answered : request' = o => request = o
  BY DEF Reports, Answered
<1>2. \A o \in Answered : request' = o \/ o \in fromHost' => host' = o
  BY <1>1 DEF Reports, Truth
<1>3. ASSUME NEW e \in Runs, run'[e].got \in Answered PROVE host' = run'[e].got
  <2>1. run'[e].got = run[e].got \/ run'[e].got = request
    BY <1>3 DEF Learns, Answered
  <2>2. run'[e].got = request => host = run'[e].got
    BY <1>3 DEF Truth
  <2>3. run'[e].got = run[e].got => host = run'[e].got
    BY <1>3 DEF Truth
  <2> QED BY <1>1, <2>1, <2>2, <2>3
<1>4. SuccessIsTrue'
  BY <1>1, ApplyTruth DEF Reports, Truth, SuccessIsTrue
<1> QED BY <1>2, <1>3, <1>4 DEF Truth

\* The cell only passes on what came from the host.
LEMMA CellTruth ==
    ASSUME Truth, Cell
    PROVE  Truth'
<1> USE DEF row, dispatch, cell, wire, server, sweeps
<1>1. UNCHANGED <<run, host>>
  BY DEF Cell, Pump, SendFrame, RequeueFrame, CellAck, RequestExpires, LoseLink, Reconnect,
         CellOutcome
<1>2. fromHost' \subseteq fromHost
  BY DEF Cell, Pump, SendFrame, RequeueFrame, CellAck, RequestExpires, LoseLink, LinkDown,
         Reconnect, CellOutcome
<1>3. ASSUME NEW o \in Answered, request' = o PROVE request = o \/ o \in fromHost
  BY <1>3 DEF Cell, Pump, SendFrame, RequeueFrame, CellAck, RequestExpires, LoseLink, Reconnect,
              CellOutcome, Answered
<1>4. \A o \in Answered : request' = o \/ o \in fromHost' => host' = o
  BY <1>1, <1>2, <1>3 DEF Truth
<1>5. SuccessIsTrue'
  <2>1. status' = "succeeded" => status = "succeeded" \/ "done" \in fromHost
    BY DEF Cell, Pump, SendFrame, RequeueFrame, CellAck, RequestExpires, LoseLink, Reconnect,
           CellOutcome, Corrects
  <2> QED BY <1>1, <2>1 DEF Truth, SuccessIsTrue, Answered
<1> QED BY <1>1, <1>4, <1>5 DEF Truth

\* The host reports only what it did.
LEMMA HostTruth ==
    ASSUME Truth, Host
    PROVE  Truth'
<1> USE DEF row, dispatch, cell, wire, server, sweeps
<1>1. UNCHANGED <<run, request, status>>
  BY DEF Host, HostReceive, HostReports, HostProgress, HostFinish
<1>2. host \in Answered => UNCHANGED host
  BY DEF Host, HostReceive, HostReports, HostProgress, HostFinish, Answered
<1>3. ASSUME NEW o \in Answered, o \in fromHost' PROVE o \in fromHost \/ host' = o
  BY <1>3 DEF Host, HostReceive, HostReports, HostProgress, HostFinish, Answered
<1>4. \A o \in Answered : request' = o \/ o \in fromHost' => host' = o
  BY <1>1, <1>2, <1>3 DEF Truth
<1>5. SuccessIsTrue'
  BY <1>1, <1>2 DEF Truth, SuccessIsTrue, Answered
<1>6. \A d \in Runs : run'[d].got \in Answered => host' = run'[d].got
  BY <1>1, <1>2 DEF Truth
<1> QED BY <1>4, <1>5, <1>6 DEF Truth

\* Sweeps, cancels and cleanup write no success.
LEMMA UpkeepTruth ==
    ASSUME Truth, Upkeep
    PROVE  Truth'
<1> USE DEF row, dispatch, cell, wire, server, sweeps
<1>1. UNCHANGED <<run, request, fromHost, host>>
  BY DEF Upkeep, SweepRead, SweepWrite, Cancel, FenceRead, FenceWrite, SweepDispatch, Redeliver,
         Finalize, CleanupFails
<1>2. status' = "succeeded" => status = "succeeded"
  BY DEF Upkeep, SweepRead, SweepWrite, Cancel, FenceRead, FenceWrite, SweepDispatch, Redeliver,
         Finalize, CleanupFails, End
<1> QED BY <1>1, <1>2 DEF Truth, SuccessIsTrue

\* SuccessIsTrue holds in every reachable state: `succeeded' is never written for a
\* command its host did not finish with success, unless it is a resumed promotion and
\* the host's failure says that it already is the writable primary.
THEOREM SuccessIsNeverMadeUp == Spec => []SuccessIsTrue
<1>1. Init => Truth
  BY DEF Init, Truth, Answered, Idle, SuccessIsTrue
<1>2. ASSUME TypeOK, Truth, [Next]_vars PROVE Truth'
  <2>1. ValuesOK /\ RunOK
    BY <1>2, TypeParts
  <2>2. ASSUME NEW d \in Runs, Delivery(d) \/ Wait(d) \/ Error(d) PROVE Truth'
    <3>1. Reports(d)
      BY <2>2, ReportDelivery, ReportWait, ReportError
    <3>2. Learns
      BY <2>1, <2>2, LearnDelivery, LearnWait, LearnError
    <3> QED BY <1>2, <3>1, <3>2, RunTruth
  <2>3. CASE UNCHANGED vars
    BY <1>2, <2>3 DEF vars, row, cell, wire, server, Truth, SuccessIsTrue
  <2> QED BY <1>2, <2>2, <2>3, CellTruth, HostTruth, UpkeepTruth DEF Next
<1>3. Truth => SuccessIsTrue
  BY DEF Truth
<1> QED BY <1>1, <1>2, <1>3, TypeCorrect, PTL DEF Spec

-----------------------------------------------------------------------------
(* What the server was told it may drop is held.                           *)

\* What a step does to a stored answer: while no call fails it stays, and only the
\* cell lets the server drop its copy, when the answer is stored or the row closed.
HeldStep ==
    faults' = 0 =>
       /\ faults = 0
       /\ request \in Answered => request' \in Answered
       /\ host' \in Answered => host \in Answered \/ kept'
       /\ kept => kept' \/ ~Open \/ request' \in Answered

\* The steps of a delivery: an answer stays stored.
LEMMA HeldRun ==
    ASSUME faults \in Nat, NEW d \in Runs, Delivery(d) \/ Wait(d) \/ Error(d)
    PROVE  HeldStep
<1>1. UNCHANGED server
  BY DEF Delivery, Wait, Error, Load, Expire, ResumeSent, PayloadMissing, Busy, Claim, PayloadRead,
         Refuse, Enqueue, MarkSent, GotAnswer, AckDeadline, DropConnection, AfterDrop,
         ExpireUnacked, HandOff,
         Settled, WaitOver, TakeBackOffline, TimeOut, Apply, RetryLater, GiveUp, LeaveRunning,
         TakeBack, FailExhausted, DeadLetter, Crash
<1>2. UNCHANGED faults \/ Fault
  BY DEF Delivery, Wait, Error, Load, Expire, ResumeSent, PayloadMissing, Busy, Claim, PayloadRead,
         Refuse, Enqueue, MarkSent, GotAnswer, AckDeadline, DropConnection, AfterDrop,
         ExpireUnacked, HandOff,
         Settled, WaitOver, TakeBackOffline, TimeOut, Apply, RetryLater, GiveUp, LeaveRunning,
         TakeBack, FailExhausted, DeadLetter, Crash
<1>3. request \in Answered => UNCHANGED request
  BY DEF Delivery, Wait, Error, Load, Expire, ResumeSent, PayloadMissing, Busy, Claim, PayloadRead,
         Refuse, Enqueue, MarkSent, GotAnswer, AckDeadline, DropConnection, AfterDrop,
         ExpireUnacked, HandOff,
         Settled, WaitOver, TakeBackOffline, TimeOut, Apply, RetryLater, GiveUp, LeaveRunning,
         TakeBack, FailExhausted, DeadLetter, Crash, TakenBack, cell, Answered
<1> QED BY <1>1, <1>2, <1>3 DEF HeldStep, Fault, server

\* The cell: an answer is stored before the server may drop it.
LEMMA HeldCell ==
    ASSUME ValuesOK, Cell
    PROVE  HeldStep
<1> USE DEF HeldStep, cell, wire, server, Answered
<1>1. CASE Pump
  BY <1>1 DEF Pump
<1>2. CASE SendFrame
  BY <1>2 DEF SendFrame
<1>3. CASE RequeueFrame
  BY <1>3 DEF RequeueFrame
<1>4. CASE CellAck
  BY <1>4 DEF CellAck
<1>5. CASE RequestExpires
  BY <1>5 DEF RequestExpires, Fault, ValuesOK
<1>6. CASE LoseLink
  BY <1>6 DEF LoseLink, Fault, ValuesOK
<1>7. CASE Reconnect
  BY <1>7 DEF Reconnect
<1>8. CASE \E o \in Answered, settled \in BOOLEAN : CellOutcome(o, settled)
  <2> PICK o \in Answered, settled \in BOOLEAN : CellOutcome(o, settled)
    BY <1>8
  <2>1. UNCHANGED <<host, faults>> /\ (request \in Answered => UNCHANGED request)
    BY DEF CellOutcome
  <2>2. request # "none" => request' \in Answered
    BY DEF CellOutcome
  <2>3. kept => kept' \/ ~Open \/ request # "none"
    BY Zenon DEF CellOutcome
  <2> QED BY <2>1, <2>2, <2>3
<1> QED BY <1>1, <1>2, <1>3, <1>4, <1>5, <1>6, <1>7, <1>8 DEF Cell

\* The host keeps its outcome; sweeps, cancels and cleanup touch no answer.
LEMMA HeldOther ==
    ASSUME ValuesOK, Host \/ Upkeep
    PROVE  HeldStep
<1> USE DEF HeldStep, cell, wire, server, Answered
<1>1. CASE HostReceive \/ HostReports \/ HostProgress
  BY <1>1 DEF HostReceive, HostReports, HostProgress
<1>2. CASE \E o \in Answered : HostFinish(o)
  BY <1>2 DEF HostFinish
<1>3. CASE Upkeep
  <2>1. UNCHANGED <<cell, server>>
    BY <1>3 DEF Upkeep, SweepRead, SweepWrite, Cancel, FenceRead, FenceWrite, SweepDispatch,
                Redeliver, Finalize, CleanupFails
  <2>2. UNCHANGED faults \/ Fault
    BY <1>3 DEF Upkeep, SweepRead, SweepWrite, Cancel, FenceRead, FenceWrite, SweepDispatch,
                Redeliver, Finalize, CleanupFails
  <2> QED BY <2>1, <2>2 DEF Fault, ValuesOK
<1> QED BY <1>1, <1>2, <1>3 DEF Host

\* ConfirmedIsHeld holds in every reachable state: while no call fails, a result the
\* server dropped is in the cell for as long as the command is open.  It is inductive
\* with TypeOK and with the fact that no step opens a finished command.
THEOREM ConfirmedIsHeldAlways == Spec => []ConfirmedIsHeld
<1>1. Init => ConfirmedIsHeld
  BY DEF Init, ConfirmedIsHeld, Answered
<1>2. ASSUME TypeOK, ConfirmedIsHeld, [Next]_vars PROVE ConfirmedIsHeld'
  <2>1. ValuesOK /\ faults \in Nat
    BY <1>2, TypeParts DEF ValuesOK
  <2>2. HeldStep
    <3>1. CASE UNCHANGED vars
      BY <3>1 DEF HeldStep, vars, cell, server
    <3> QED BY <1>2, <2>1, <3>1, HeldRun, HeldCell, HeldOther DEF Next
  <2>3. Open' => Open
    BY <1>2, OpenNext DEF OpenStep
  <2> QED BY <1>2, <2>2, <2>3 DEF HeldStep, ConfirmedIsHeld
<1> QED BY <1>1, <1>2, TypeCorrect, PTL DEF Spec
-----------------------------------------------------------------------------
(* A command is put on the wire once.                                      *)

\* Nothing of the command has left the row.
Gone == /\ request = "none" /\ outbox = "done" /\ batch = "none"
        /\ toHost = FALSE /\ host = "new" /\ fromHost = {}

\* The cell has nothing more to send.
Silent == outbox = "done" /\ batch = "none"

\* Nothing of the command has been on the wire.
Unsent == host = "new" /\ toHost = FALSE /\ fromHost = {} /\ request \in {"queued", "none"}

\* The command beyond its row: in the cell, on the wire, on the host.
beyond == <<request, outbox, batch, toHost, fromHost, host>>

\* The command has one message, on the queue or with one delivery.
OneMessage ==
    /\ queue \subseteq {1}
    /\ \A d \in Runs : run[d].at # "idle" =>
          /\ queue = {}
          /\ run[d].attempt = 1
          /\ \A e \in Runs \ {d} : run[e].at = "idle"

\* What is true of the request where a delivery is.
Placed(d) ==
    /\ run[d].at \notin {"resend", "leave", "giveup", "exhausted"}
    /\ run[d].at = "loaded" =>
          \/ run[d].seen = "queued" /\ status \in {"queued"} \cup Terminal
          \/ run[d].seen = "sent" /\ request # "none"
    /\ run[d].at \in {"claimed", "ready"} => Gone /\ status # "queued"
    /\ run[d].at \in {"enqueued", "waiting"} => request # "none"
    /\ run[d].at \in {"suspect", "dropped", "takeback"} => request \notin {"none", "queued"}
    /\ run[d].at = "answer" /\ run[d].got = "unacked" => Silent

\* What is true of the request for what the row says.
Recorded ==
    /\ status = "queued" => Gone
    /\ status = "dispatching" => \E d \in Runs : run[d].at \in {"claimed", "ready", "enqueued"}
    /\ status = "sent" /\ queue # {} => request # "none"
    /\ status = "failed" /\ verdict = "unacked" =>
          Silent /\ queue = {} /\ \A d \in Runs : run[d].at = "idle"
    /\ ~Silent => Unsent
    /\ batch = "old" => outbox = "done"

\* All of it holds while no call has failed.  That nothing is sent twice rests on the
\* one message of the command, and on the cell having nothing to send once the
\* request is past `queued'; the drop of the connection takes no part in it.
SentOnce == faults = 0 => OneMessage /\ Recorded /\ \A d \in Runs : Placed(d)

\* The parts of SentOnce.
Once == OneMessage /\ Recorded /\ \A d \in Runs : Placed(d)

\* A delivery moves on, with the message it has, and the others stay where they are.
Becomes(d, p) ==
    /\ run'[d].at = p
    /\ run'[d].attempt = run[d].attempt
    /\ \A e \in Runs \ {d} : run'[e] = run[e]

\* What the changes a delivery makes to its own record amount to.
LEMMA RunEffects ==
    ASSUME RunOK, NEW d \in Runs
    PROVE  /\ Done(d) => run'[d] = Idle /\ \A e \in Runs \ {d} : run'[e] = run[e]
           /\ \A p \in Places : Go(d, p) => Becomes(d, p)
           /\ \A b \in BOOLEAN :
                 /\ run' = [run EXCEPT ![d].deadline = b] =>
                      Becomes(d, run[d].at) /\ run'[d].got = run[d].got
                 /\ run' = [run EXCEPT ![d].at = "waiting", ![d].deadline = b] =>
                      Becomes(d, "waiting")
           /\ \A g \in {"unacked"} \cup Answered : Answer(d, g) =>
                 Becomes(d, "answer") /\ run'[d].got = g
           /\ \A p \in Places, b \in BOOLEAN : Forget(d, p, b) => Becomes(d, p)
<1>1. run \in [Runs -> RunStates] /\ run[d] \in RunStates
  BY RunFields DEF RunOK
<1>2. Done(d) => run'[d] = Idle /\ \A e \in Runs \ {d} : run'[e] = run[e]
  BY <1>1 DEF Done
<1>3. \A p \in Places : Go(d, p) => Becomes(d, p)
  BY <1>1 DEF Go, Becomes, RunStates
<1>4. ASSUME NEW b \in BOOLEAN
      PROVE  /\ run' = [run EXCEPT ![d].deadline = b] =>
                   Becomes(d, run[d].at) /\ run'[d].got = run[d].got
             /\ run' = [run EXCEPT ![d].at = "waiting", ![d].deadline = b] =>
                   Becomes(d, "waiting")
  BY <1>1 DEF Becomes, RunStates
<1>5. \A g \in {"unacked"} \cup Answered : Answer(d, g) =>
         Becomes(d, "answer") /\ run'[d].got = g
  BY <1>1 DEF Answer, Becomes, RunStates
<1>6. \A p \in Places, b \in BOOLEAN : Forget(d, p, b) => Becomes(d, p)
  BY <1>1 DEF Forget, Becomes, RunStates
<1> QED BY <1>2, <1>3, <1>4, <1>5, <1>6

\* A delivery's change, as far as the invariant sees it: the others keep theirs, and
\* either it lets go of the message, or it keeps it.
Turns(d) ==
    /\ \A e \in Runs \ {d} : run'[e] = run[e]
    /\ \/ run'[d].at = "idle" /\ queue' \subseteq {1}
       \/ run'[d].attempt = 1 /\ queue' = {}

\* A step of the delivery that has the message disturbs only what is said of itself.
LEMMA OnceByOne ==
    ASSUME Once, NEW d \in Runs, run[d].at # "idle", Turns(d), Placed(d)', Recorded'
    PROVE  Once'
<1>1. \A e \in Runs \ {d} : run'[e].at = "idle"
  BY DEF Once, OneMessage, Turns
<1>2. OneMessage'
  BY <1>1 DEF OneMessage, Turns
<1>3. \A e \in Runs : Placed(e)'
  BY <1>1 DEF Placed
<1> QED BY <1>2, <1>3 DEF Once

\* A delivery that ends the row and lets go.
LEMMA OnceEnds ==
    ASSUME Once, ValuesOK, RunOK, NEW d \in Runs, run[d].at # "idle", Done(d),
           NEW s \in Terminal, NEW v \in {"same", "other"}, End(s, v), UNCHANGED queue,
           s = "failed" => v = "other", UNCHANGED <<beyond>>
    PROVE  Once'
<1>1. run'[d] = Idle /\ \A e \in Runs \ {d} : run'[e] = run[e]
  BY RunEffects
<1>2. run'[d].at = "idle"
  BY <1>1 DEF Idle
<1>3. Turns(d) /\ Placed(d)'
  BY <1>1, <1>2 DEF Turns, Placed, Once, OneMessage
<1>4. Recorded'
  BY DEF Once, Recorded, End, beyond, Terminal, Silent, Unsent, Gone
<1> QED BY <1>3, <1>4, OnceByOne

\* A delivery that lets go and leaves the row as it is.
LEMMA OnceLetsGo ==
    ASSUME Once, ValuesOK, RunOK, NEW d \in Runs, run[d].at # "idle", Done(d),
           run[d].at \notin {"claimed", "ready", "enqueued"},
           UNCHANGED <<status, verdict, beyond>>, queue' \subseteq {1},
           status = "sent" /\ queue' # {} => request # "none"
    PROVE  Once'
<1>1. run'[d] = Idle /\ \A e \in Runs \ {d} : run'[e] = run[e]
  BY RunEffects
<1>2. run'[d].at = "idle"
  BY <1>1 DEF Idle
<1>3. Turns(d) /\ Placed(d)'
  BY <1>1, <1>2 DEF Turns, Placed
<1>4. status # "dispatching" /\ ~(status = "failed" /\ verdict = "unacked")
  BY DEF Once, OneMessage, Recorded
<1>5. Recorded'
  BY <1>4 DEF Once, Recorded, beyond, Gone, Silent, Unsent
<1> QED BY <1>3, <1>5, OnceByOne

\* The statements of a delivery.
LEMMA OnceDelivery ==
    ASSUME Once, ValuesOK, RunOK, NEW d \in Runs, Delivery(d)
    PROVE  Once'
<1> USE DEF row, dispatch, cell, wire, server, beyond
<1>0. run[d] \in RunStates /\ Placed(d)
  BY RunFields DEF Once
<1>1. CASE \E a \in queue : Load(d, a)
  <2> PICK a \in queue : Load(d, a)
    BY <1>1
  <2>1. /\ a = 1 /\ queue' = {}
        /\ \A e \in Runs : run[e].at = "idle"
        /\ status # "dispatching"
        /\ UNCHANGED <<status, verdict, beyond>>
    BY DEF Load, Once, OneMessage, Recorded
  <2>2. CASE Open
    <3>1. run' = [run EXCEPT ![d] = Loaded(1)]
      BY <2>1, <2>2 DEF Load
    <3>2. run'[d] = Loaded(1) /\ \A e \in Runs \ {d} : run'[e] = run[e]
      BY <3>1 DEF RunOK
    <3>3. OneMessage'
      BY <2>1, <3>2 DEF OneMessage, Loaded
    <3>4. status \in {"queued", "sent"} /\ (status = "sent" => request # "none")
      BY <2>1, <2>2 DEF Once, Recorded, Open, ValuesOK, Statuses, Live
    <3>5. Placed(d)' /\ \A e \in Runs \ {d} : Placed(e)'
      BY <2>1, <3>2, <3>4 DEF Placed, Loaded
    <3>6. Recorded'
      BY <2>1, <3>4 DEF Once, Recorded, Gone, Silent, Unsent
    <3> QED BY <3>3, <3>5, <3>6 DEF Once
  <2>3. CASE ~Open
    <3>1. UNCHANGED run
      BY <2>3 DEF Load
    <3> QED BY <2>1, <3>1 DEF Once, OneMessage, Recorded, Placed, Gone, Silent, Unsent
  <2> QED BY <2>2, <2>3
<1>2. CASE Expire(d)
  BY <1>2, OnceEnds DEF Expire, Expired, Terminal
<1>3. CASE ResumeSent(d)
  <2>1. request # "none"
    BY <1>0, <1>3 DEF ResumeSent, Placed
  <2>2. \E b \in BOOLEAN : Forget(d, "waiting", b)
    BY <1>3, <2>1 DEF ResumeSent
  <2>3. Becomes(d, "waiting")
    BY <1>0, <2>2, RunEffects DEF Places
  <2>4. UNCHANGED <<status, verdict, queue, beyond>>
    BY <1>3, <2>1 DEF ResumeSent
  <2>5. Turns(d) /\ Placed(d)'
    BY <1>3, <2>1, <2>3, <2>4 DEF Becomes, Turns, Placed, Once, OneMessage, ResumeSent
  <2>6. Recorded'
    <3>1. status # "dispatching" /\ ~(status = "failed" /\ verdict = "unacked")
      BY <1>3 DEF Once, OneMessage, Recorded, ResumeSent
    <3> QED BY <2>4, <3>1 DEF Once, Recorded, Gone, Silent, Unsent
  <2> QED BY <1>3, <2>5, <2>6, OnceByOne DEF ResumeSent
<1>4. CASE PayloadMissing(d)
  BY <1>4, OnceEnds DEF PayloadMissing, Terminal
<1>5. CASE Busy(d)
  <2>1. run[d].at = "loaded" /\ run[d].seen # "sent"
    BY <1>0, <1>5 DEF Busy, Claimable, Placed
  <2>2. queue' \subseteq {1} /\ status # "sent"
    BY <1>0, <1>5, <2>1 DEF Busy, Once, OneMessage, Placed, Terminal
  <2> QED BY <1>5, <2>1, <2>2, OnceLetsGo DEF Busy
<1>6. CASE Claim(d)
  <2>1. run[d].at = "loaded" /\ run[d].seen # "sent" /\ queue = {} /\ run[d].attempt = 1
    BY <1>0, <1>6 DEF Claim, Claimable, Placed, Once, OneMessage
  <2>2. CASE Done(d) /\ UNCHANGED row
    BY <1>6, <2>1, <2>2, OnceLetsGo DEF Claim
  <2>3. CASE /\ status = run[d].seen /\ Open /\ status' = "dispatching"
             /\ Forget(d, "claimed", FALSE) /\ UNCHANGED verdict
    <3>1. Gone
      BY <1>0, <2>1, <2>3 DEF Placed, Once, Recorded
    <3>2. Becomes(d, "claimed")
      BY <1>0, <2>1, <2>3, RunEffects DEF Places
    <3>3. UNCHANGED <<queue, beyond>>
      BY <1>6 DEF Claim
    <3>4. Turns(d) /\ Placed(d)'
      BY <2>1, <2>3, <3>1, <3>2, <3>3 DEF Becomes, Turns, Placed, Gone
    <3>5. Recorded'
      BY <2>1, <2>3, <3>1, <3>2, <3>3 DEF Becomes, Recorded, Gone, Silent
    <3> QED BY <2>1, <3>4, <3>5, OnceByOne
  <2> QED BY <1>6, <2>1, <2>2, <2>3 DEF Claim
<1>7. CASE PayloadRead(d)
  <2>1. Becomes(d, "ready")
    BY <1>0, <1>7, RunEffects DEF PayloadRead, Places
  <2>2. UNCHANGED <<status, verdict, queue, beyond>>
    BY <1>7 DEF PayloadRead
  <2>3. Turns(d) /\ Placed(d)'
    BY <1>0, <1>7, <2>1, <2>2 DEF PayloadRead, Becomes, Turns, Placed, Gone, Once, OneMessage
  <2>4. Recorded'
    BY <1>7, <2>1, <2>2 DEF PayloadRead, Becomes, Once, Recorded, Gone, Silent, Unsent
  <2> QED BY <1>7, <2>3, <2>4, OnceByOne DEF PayloadRead
<1>8. CASE Refuse(d)
  BY <1>8, OnceEnds DEF Refuse, Terminal
<1>9. CASE Enqueue(d)
  <2>1. Gone
    BY <1>0, <1>9 DEF Enqueue, Placed
  <2>2. Becomes(d, "enqueued")
    BY <1>0, <1>9, RunEffects DEF Enqueue, Places
  <2>3. /\ request' = "queued" /\ batch' = "none"
        /\ UNCHANGED <<status, verdict, queue, toHost, fromHost, host>>
    BY <1>9, <2>1 DEF Enqueue, Gone, Superseded, Answered
  <2>4. Turns(d) /\ Placed(d)'
    BY <1>9, <2>2, <2>3 DEF Enqueue, Becomes, Turns, Placed, Once, OneMessage
  <2>5. Recorded'
    <3>1. queue = {} /\ status # "queued" /\ ~(status = "failed" /\ verdict = "unacked")
      BY <1>0, <1>9 DEF Enqueue, Placed, Once, OneMessage, Recorded
    <3> QED BY <2>1, <2>2, <2>3, <3>1 DEF Becomes, Recorded, Gone, Unsent
  <2> QED BY <1>9, <2>4, <2>5, OnceByOne DEF Enqueue
<1>10. CASE MarkSent(d)
  <2>1. Becomes(d, "waiting")
    BY <1>10, RunEffects DEF MarkSent
  <2>2. UNCHANGED <<verdict, queue, beyond>> /\ status' = IF Open THEN "sent" ELSE status
    BY <1>10 DEF MarkSent
  <2>3. Turns(d) /\ Placed(d)'
    BY <1>0, <1>10, <2>1, <2>2 DEF MarkSent, Becomes, Turns, Placed, Once, OneMessage
  <2>4. Recorded'
    <3>1. queue = {} /\ ~(status = "failed" /\ verdict = "unacked")
      BY <1>10 DEF MarkSent, Once, OneMessage, Recorded
    <3> QED BY <2>2, <3>1 DEF Once, Recorded, Open, Terminal, Silent, Unsent
  <2> QED BY <1>10, <2>3, <2>4, OnceByOne DEF MarkSent
<1> QED BY <1>1, <1>2, <1>3, <1>4, <1>5, <1>6, <1>7, <1>8, <1>9, <1>10 DEF Delivery

\* A delivery that moves on and leaves the row, the queue and the cell as they are.
LEMMA OnceMoves ==
    ASSUME Once, NEW d \in Runs, run[d].at \notin {"idle", "claimed", "ready", "enqueued"},
           NEW p, Becomes(d, p), Placed(d)', UNCHANGED <<status, verdict, queue, beyond>>
    PROVE  Once'
<1>1. Turns(d)
  BY DEF Becomes, Turns, Once, OneMessage
<1>2. status # "dispatching" /\ ~(status = "failed" /\ verdict = "unacked")
  BY DEF Once, OneMessage, Recorded
<1>3. Recorded'
  BY <1>2 DEF Once, Recorded, beyond, Gone, Silent, Unsent
<1> QED BY <1>1, <1>3, OnceByOne

\* The request of the delivery that has the message is taken back.
LEMMA OnceTakenBack ==
    ASSUME Once, NEW d \in Runs, run[d].at \notin {"idle", "claimed", "ready", "enqueued"},
           NEW p, Becomes(d, p), Placed(d)', TakenBack,
           UNCHANGED <<status, verdict, queue, toHost, fromHost, host>>
    PROVE  Once'
<1>1. Turns(d)
  BY DEF Becomes, Turns, Once, OneMessage
<1>2. /\ status # "dispatching" /\ ~(status = "failed" /\ verdict = "unacked")
      /\ queue = {}
  BY DEF Once, OneMessage, Recorded
<1>3. status = "queued" => Gone'
  BY DEF Once, Recorded, Gone, TakenBack, Superseded, Answered
<1>4. outbox' = "done" /\ (~Silent' => Unsent')
  BY DEF Once, Recorded, Silent, Unsent, TakenBack, Superseded, Answered
<1>5. Recorded'
  BY <1>2, <1>3, <1>4 DEF Recorded
<1> QED BY <1>1, <1>5, OnceByOne

\* The steps of its wait, while no call fails.
LEMMA OnceWait ==
    ASSUME Once, ValuesOK, RunOK, NEW d \in Runs, Wait(d), faults = 0, faults' = 0
    PROVE  Once'
<1> USE DEF row, dispatch, cell, wire, server, beyond
<1>0. Placed(d) /\ ~Fault
  BY DEF Once, Fault
<1>1. CASE GotAnswer(d)
  <2>1. Becomes(d, "answer") /\ run'[d].got = request
    BY <1>1, RunEffects DEF GotAnswer
  <2>2. Placed(d)'
    BY <1>1, <2>1 DEF GotAnswer, Becomes, Placed, Answered
  <2> QED BY <1>1, <2>1, <2>2, OnceMoves DEF GotAnswer
<1>2. CASE AckDeadline(d)
  <2>1. CASE request = "sent"
    <3>1. Becomes(d, "suspect") /\ UNCHANGED beyond
      BY <1>2, <2>1, RunEffects DEF AckDeadline, Places
    <3>2. Placed(d)'
      BY <2>1, <3>1 DEF Becomes, Placed
    <3> QED BY <1>2, <3>1, <3>2, OnceMoves DEF AckDeadline
  <2>2. CASE request # "sent"
    <3>1. Becomes(d, "waiting") /\ UNCHANGED beyond
      BY <1>2, <2>2, RunEffects DEF AckDeadline
    <3>2. Placed(d)'
      BY <1>0, <1>2, <3>1 DEF AckDeadline, Becomes, Placed
    <3> QED BY <1>2, <3>1, <3>2, OnceMoves DEF AckDeadline
  <2> QED BY <2>1, <2>2
<1>3. CASE DropConnection(d)
  <2>1. Becomes(d, "dropped")
    BY <1>3, RunEffects DEF DropConnection, Places
  <2>2. /\ batch' = "none"
        /\ toHost' \in {FALSE, toHost}
        /\ fromHost' \subseteq fromHost
        /\ UNCHANGED <<status, verdict, queue, request, outbox, host>>
    BY <1>0, <1>3 DEF DropConnection, LinkDown
  <2>3. Turns(d) /\ Placed(d)'
    BY <1>0, <1>3, <2>1, <2>2 DEF DropConnection, Becomes, Turns, Placed, Once, OneMessage
  <2>4. status # "dispatching" /\ ~(status = "failed" /\ verdict = "unacked")
    BY <1>3 DEF DropConnection, Once, OneMessage, Recorded
  <2>5. Recorded'
    BY <2>2, <2>4 DEF Once, Recorded, Gone, Silent, Unsent
  <2> QED BY <1>3, <2>3, <2>5, OnceByOne DEF DropConnection
<1>4. CASE AfterDrop(d)
  <2>1. CASE request \in {"queued", "acked"}
    <3>1. Becomes(d, "waiting") /\ UNCHANGED beyond
      BY <1>4, <2>1, RunEffects DEF AfterDrop, Answered
    <3>2. Placed(d)'
      BY <2>1, <3>1 DEF Becomes, Placed
    <3> QED BY <1>4, <3>1, <3>2, OnceMoves DEF AfterDrop
  <2>2. CASE request \in Answered
    <3>1. Becomes(d, "answer") /\ run'[d].got = request /\ UNCHANGED beyond
      BY <1>4, <2>2, RunEffects DEF AfterDrop, Answered
    <3>2. Placed(d)'
      BY <2>2, <3>1 DEF Becomes, Placed, Answered
    <3> QED BY <1>4, <3>1, <3>2, OnceMoves DEF AfterDrop
  <2>3. CASE request \in {"sent", "none"}
    <3>1. Becomes(d, "takeback") /\ UNCHANGED beyond
      BY <1>4, <2>3, RunEffects DEF AfterDrop, Answered, Places
    <3>2. Placed(d)'
      BY <1>0, <1>4, <3>1 DEF AfterDrop, Becomes, Placed
    <3> QED BY <1>4, <3>1, <3>2, OnceMoves DEF AfterDrop
  <2> QED BY <1>4, <2>1, <2>2, <2>3 DEF AfterDrop
<1>5. CASE HandOff(d)
  BY <1>5, OnceLetsGo DEF HandOff, Once, OneMessage
<1>6. CASE Settled(d)
  BY <1>6, OnceLetsGo DEF Settled, Once, OneMessage
<1>7. CASE WaitOver(d)
  <2>1. PICK p \in {"offline", "timing"} : Go(d, p)
    BY <1>7 DEF WaitOver
  <2>2. Becomes(d, p)
    BY <2>1, RunEffects DEF Places
  <2>3. Placed(d)'
    BY <2>2 DEF Becomes, Placed
  <2> QED BY <1>7, <2>2, <2>3, OnceMoves DEF WaitOver
<1>8. CASE TakeBackOffline(d)
  <2>1. Becomes(d, "timing")
    BY <1>8, RunEffects DEF TakeBackOffline, Places
  <2>2. Placed(d)'
    BY <2>1 DEF Becomes, Placed
  <2> QED BY <1>0, <1>8, <2>1, <2>2, OnceTakenBack DEF TakeBackOffline
<1>9. CASE TimeOut(d)
  BY <1>9, OnceEnds DEF TimeOut, TimedOutText, Terminal
<1>10. CASE Apply(d)
  <2>1. CASE run[d].got # "unacked"
    <3>1. PICK s \in Terminal, v \in {"same", "other"} : End(s, v) /\ (s = "failed" => v = "other")
      BY <1>10, <2>1 DEF Apply, Terminal
    <3> QED BY <1>10, <3>1, OnceEnds DEF Apply
  <2>2. CASE run[d].got = "unacked"
    <3>1. Silent /\ queue = {} /\ \A e \in Runs \ {d} : run[e].at = "idle"
      BY <1>0, <1>10, <2>2 DEF Apply, Placed, Once, OneMessage
    <3>2. run'[d] = Idle /\ \A e \in Runs \ {d} : run'[e] = run[e]
      BY <1>10, RunEffects DEF Apply
    <3>3. \A e \in Runs : run'[e].at = "idle"
      BY <3>1, <3>2 DEF Idle
    <3>4. UNCHANGED <<queue, beyond>> /\ status' = "failed"
      BY <1>10, <2>2 DEF Apply, AlreadyPromoted, End
    <3>5. OneMessage' /\ \A e \in Runs : Placed(e)'
      BY <3>1, <3>3, <3>4 DEF OneMessage, Placed
    <3>6. Recorded'
      BY <3>1, <3>3, <3>4 DEF Once, Recorded, Silent, Unsent
    <3> QED BY <3>5, <3>6 DEF Once
  <2> QED BY <2>1, <2>2
<1>11. CASE ExpireUnacked(d)
  <2>1. PICK g \in {"unacked"} \cup Answered : TakenBack /\ Answer(d, g)
    BY <1>0, <1>11 DEF ExpireUnacked
  <2>2. Becomes(d, "answer") /\ run'[d].got = g
    BY <2>1, RunEffects
  <2>3. Silent
    BY <1>0, <1>11 DEF ExpireUnacked, Placed, Once, Recorded, Unsent
  <2>4. Silent'
    BY <2>1, <2>3 DEF TakenBack, Superseded, Silent
  <2>5. Placed(d)'
    BY <2>2, <2>4 DEF Becomes, Placed
  <2> QED BY <1>11, <2>1, <2>2, <2>5, OnceTakenBack DEF ExpireUnacked
<1> QED BY <1>1, <1>2, <1>3, <1>4, <1>5, <1>6, <1>7, <1>8, <1>9, <1>10, <1>11 DEF Wait

\* Errors and retries begin with a failed call, so that none is reached without one.
LEMMA OnceError ==
    ASSUME Once, faults = 0, faults' = 0, NEW d \in Runs, Error(d)
    PROVE  FALSE
<1>1. Placed(d) /\ ~Fault
  BY DEF Once, Fault
<1> QED BY <1>1 DEF Error, RetryLater, GiveUp, LeaveRunning, TakeBack, FailExhausted, DeadLetter,
                Crash, Placed

\* Cell, host and upkeep leave the deliveries and the queue alone.
LEMMA OnceStays ==
    ASSUME Once, UNCHANGED <<run, queue>>, Recorded', \A d \in Runs : Placed(d)'
    PROVE  Once'
BY DEF Once, OneMessage

\* The cell, while no call fails.
LEMMA OnceCell ==
    ASSUME Once, ValuesOK, Cell, faults = 0, faults' = 0
    PROVE  Once'
<1> USE DEF row, cell, wire, server, beyond
<1>0. ~Fault
  BY DEF Fault
<1>1. UNCHANGED <<run, queue>>
  BY DEF Cell, Pump, SendFrame, RequeueFrame, CellAck, RequestExpires, LoseLink, Reconnect,
         CellOutcome
<1>2. CASE Pump
  <2>1. ~Silent /\ ~Gone /\ UNCHANGED <<status, verdict, request, toHost, fromHost, host>>
    BY <1>2 DEF Pump, Gone, Silent
  <2>2. Unsent /\ Unsent' /\ batch' # "old"
    BY <1>2, <2>1 DEF Once, Recorded, Unsent, Pump
  <2>3. Recorded'
    BY <1>1, <2>1, <2>2 DEF Once, Recorded
  <2>4. \A d \in Runs : Placed(d)'
    BY <1>1, <2>1 DEF Once, Placed
  <2> QED BY <1>1, <2>3, <2>4, OnceStays
<1>3. CASE SendFrame
  <2>1. ~Silent /\ ~Gone /\ UNCHANGED <<status, verdict>>
    BY <1>3 DEF SendFrame, Gone, Silent
  <2>2. batch' = "none" /\ outbox' = "done"
    BY <1>3 DEF SendFrame, Once, Recorded, ValuesOK
  <2>3. /\ request' # "none" <=> request # "none"
        /\ request' = "queued" => request = "queued"
    BY <1>3 DEF SendFrame
  <2>4. Recorded'
    BY <1>1, <2>1, <2>2, <2>3 DEF Once, Recorded, Silent
  <2>5. \A d \in Runs : Placed(d)'
    BY <1>1, <2>1, <2>3 DEF Once, Placed
  <2> QED BY <1>1, <2>4, <2>5, OnceStays
<1>4. CASE RequeueFrame
  <2>1. ~Silent /\ ~Gone /\ UNCHANGED <<status, verdict, request, batch, toHost, fromHost, host>>
    BY <1>4 DEF RequeueFrame, Gone, Silent
  <2>2. Unsent /\ Unsent' /\ batch' # "old"
    BY <1>4, <2>1 DEF Once, Recorded, Unsent, RequeueFrame
  <2>3. Recorded'
    BY <1>1, <2>1, <2>2 DEF Once, Recorded
  <2>4. \A d \in Runs : Placed(d)'
    BY <1>1, <2>1 DEF Once, Placed
  <2> QED BY <1>1, <2>3, <2>4, OnceStays
<1>5. CASE CellAck
  <2>1. /\ UNCHANGED <<status, verdict, outbox, batch>>
        /\ request' # "none" <=> request # "none"
        /\ request' = "queued" => request = "queued"
        /\ fromHost # {}
    BY <1>5 DEF CellAck
  <2>2. Silent /\ Silent' /\ ~Gone
    BY <2>1 DEF Once, Recorded, Unsent, Gone, Silent
  <2>3. Recorded'
    BY <1>1, <2>1, <2>2 DEF Once, Recorded
  <2>4. \A d \in Runs : Placed(d)'
    BY <1>1, <2>1, <2>2 DEF Once, Placed
  <2> QED BY <1>1, <2>3, <2>4, OnceStays
<1>6. CASE Reconnect
  <2>1. UNCHANGED <<status, verdict, beyond>>
    BY <1>6 DEF Reconnect
  <2> QED BY <1>1, <2>1 DEF Once, OneMessage, Recorded, Placed, Gone, Silent, Unsent
<1>7. CASE \E o \in Answered, settled \in BOOLEAN : CellOutcome(o, settled)
  <2> PICK o \in Answered, settled \in BOOLEAN : CellOutcome(o, settled)
    BY <1>7
  <2>1. /\ UNCHANGED batch
        /\ request' # "none" <=> request # "none"
        /\ request' # "queued"
        /\ outbox' \in {outbox, "done"}
        /\ fromHost # {}
    BY DEF CellOutcome, Answered
  <2>2. \/ UNCHANGED <<status, verdict>>
        \/ status = "timed_out" /\ status' = "succeeded"
    BY Zenon DEF CellOutcome, Corrects
  <2>3. Silent /\ Silent' /\ ~Gone
    BY <2>1 DEF Once, Recorded, Unsent, Gone, Silent
  <2>4. Recorded'
    BY <1>1, <2>1, <2>2, <2>3 DEF Once, Recorded, Silent
  <2>5. \A d \in Runs : Placed(d)'
    BY <1>1, <2>1, <2>2, <2>3 DEF Once, Placed, Terminal
  <2> QED BY <1>1, <2>4, <2>5, OnceStays
<1> QED
  BY <1>0, <1>2, <1>3, <1>4, <1>5, <1>6, <1>7 DEF Cell, RequestExpires, LoseLink

\* The host moves only what has been sent, and then the cell has nothing to send.
LEMMA OnceHost ==
    ASSUME Once, Host
    PROVE  Once'
<1>1. UNCHANGED <<status, verdict, queue, run, request, outbox, batch>>
  BY DEF Host, HostReceive, HostReports, HostProgress, HostFinish, row, cell, wire
<1>2. (Gone => Gone') /\ (Unsent => Unsent') /\ (Silent <=> Silent')
  BY <1>1 DEF Host, HostReceive, HostReports, HostProgress, HostFinish, wire, server, Gone, Unsent,
              Silent, Answered
<1>3. Recorded'
  BY <1>1, <1>2 DEF Once, Recorded
<1>4. \A d \in Runs : Placed(d)'
  BY <1>1, <1>2 DEF Once, Placed
<1> QED BY <1>1, <1>3, <1>4, OnceStays

\* Sweeps, cancels and cleanup end the row or leave it.
LEMMA OnceUpkeep ==
    ASSUME Once, Upkeep, faults = 0, faults' = 0
    PROVE  Once'
<1>1. /\ UNCHANGED <<queue, run, beyond>>
      /\ UNCHANGED <<status, verdict>> \/ status' \in {"timed_out", "cancelled"}
  BY DEF Upkeep, SweepRead, SweepWrite, Cancel, FenceRead, FenceWrite, SweepDispatch, Redeliver,
         Finalize, CleanupFails, End, Fault, row, cell, wire, server, beyond
<1>2. (Gone <=> Gone') /\ (Unsent <=> Unsent') /\ (Silent <=> Silent')
  BY <1>1 DEF Gone, Unsent, Silent, beyond
<1>3. Recorded'
  BY <1>1, <1>2 DEF Once, Recorded, beyond
<1>4. \A d \in Runs : Placed(d)'
  BY <1>1, <1>2 DEF Once, Placed, Terminal, beyond
<1> QED BY <1>1, <1>3, <1>4, OnceStays

\* A failed call is counted for good.
LEMMA FaultsStay ==
    ASSUME ValuesOK, Next, faults' = 0
    PROVE  faults = 0
<1>1. ASSUME NEW d \in Runs, Delivery(d) \/ Wait(d) \/ Error(d) PROVE faults = 0
  BY <1>1, HeldRun DEF HeldStep, ValuesOK
<1> QED BY <1>1, HeldCell, HeldOther DEF HeldStep, Next

\* SentOnce holds in every reachable state: while no call has failed, the command has one
\* message, and the cell has something to send only if nothing of the command has been
\* on the wire.
THEOREM SentOnceAlways == Spec => []SentOnce
<1>1. Init => SentOnce
  BY DEF Init, SentOnce, OneMessage, Recorded, Placed, Gone, Silent, Idle
<1>2. ASSUME TypeOK, SentOnce, [Next]_vars PROVE SentOnce'
  <2> SUFFICES ASSUME faults' = 0 PROVE Once'
    BY DEF SentOnce, Once
  <2>1. ValuesOK /\ RunOK
    BY <1>2, TypeParts
  <2>2. faults = 0
    BY <1>2, <2>1, FaultsStay DEF vars
  <2>3. Once
    BY <1>2, <2>2 DEF SentOnce, Once
  <2>4. CASE UNCHANGED vars
    BY <2>3, <2>4 DEF vars, row, cell, wire, server, Once, OneMessage, Recorded, Placed, Gone,
                      Silent, Unsent
  <2> QED
    BY <1>2, <2>1, <2>2, <2>3, <2>4, OnceDelivery, OnceWait, OnceError, OnceCell, OnceHost, OnceUpkeep
       DEF Next
<1> QED BY <1>1, <1>2, TypeCorrect, PTL DEF Spec

\* Only the pump puts a frame on the wire.
LEMMA OnlyThePumpSends ==
    ASSUME [Next]_vars, ~toHost, toHost'
    PROVE  SendFrame
<1> USE DEF wire
<1>1. ASSUME NEW d \in Runs, Delivery(d) \/ Wait(d) \/ Error(d) PROVE toHost' \in {FALSE, toHost}
  BY <1>1 DEF Delivery, Wait, Error, Load, Expire, ResumeSent, PayloadMissing, Busy, Claim,
         PayloadRead, Refuse, Enqueue, MarkSent, GotAnswer, AckDeadline, DropConnection, AfterDrop,
         ExpireUnacked, HandOff, Settled, WaitOver, TakeBackOffline, TimeOut, Apply, RetryLater,
         GiveUp, LeaveRunning, TakeBack, FailExhausted, DeadLetter, Crash, LinkDown
<1>2. CASE Cell
  BY <1>2 DEF Cell, Pump, RequeueFrame, CellAck, RequestExpires, LoseLink, LinkDown, Reconnect,
              CellOutcome
<1>3. CASE Host \/ Upkeep
  BY <1>3 DEF Host, HostReceive, HostReports, HostProgress, HostFinish, Upkeep, SweepRead,
              SweepWrite, Cancel, FenceRead, FenceWrite, SweepDispatch, Redeliver, Finalize,
              CleanupFails
<1>4. CASE UNCHANGED vars
  BY <1>4 DEF vars
<1> QED BY <1>1, <1>2, <1>3, <1>4 DEF Next

\* NeverResent: while no call fails, a frame of the command is put on the wire only if its
\* server has not had it, no earlier send is waited for and the row does not say that
\* it was not acknowledged, for any number of deliveries of its message.
THEOREM NeverResentHolds == Spec => NeverResent
<1>1. ASSUME SentOnce, [Next]_vars
      PROVE  [faults = 0 /\ ~toHost /\ toHost' =>
                /\ host = "new"
                /\ request \in {"queued", "none"}
                /\ ~(status = "failed" /\ verdict = "unacked")]_vars
  <2> SUFFICES ASSUME faults = 0, ~toHost, toHost'
               PROVE  /\ host = "new"
                      /\ request \in {"queued", "none"}
                      /\ ~(status = "failed" /\ verdict = "unacked")
    OBVIOUS
  <2>1. ~Silent
    BY <1>1, OnlyThePumpSends DEF SendFrame, Silent
  <2> QED BY <1>1, <2>1 DEF SentOnce, Recorded, Unsent
<1> QED BY <1>1, SentOnceAlways, PTL DEF Spec, NeverResent

=============================================================================
