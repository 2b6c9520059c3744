--------------------------- MODULE OneWriterProofs ---------------------------
(***************************************************************************)
(* The old primary A and the target B never both accept writes, for every  *)
(* number of recoveries, resumes, attempts and faults.  B accepts writes   *)
(* once a promote runs and never stops; A accepts writes again only when a *)
(* start runs.  So, once a promote may run or has (Armed), no start may be *)
(* on its way or be about to be queued (Main).  A promote is queued for    *)
(* the newest recovery after its stop ran on A; A's server runs commands   *)
(* in line order, so by then every older start has run (Before, Turn), and *)
(* none comes after (FencedQuiet).  A start is queued only by a switchover *)
(* whose promote never started, which began when no older promote could    *)
(* run (EarlierDead, NotYet).                                              *)
(***************************************************************************)
EXTENDS ManagedRecoveryProofs

Last == Len(journal)

\* What OneWriter excuses.
Excused == \E r \in DOMAIN journal : Unproven(r) \/ Unnoted(r)

\* The row, its process, its commands and the daemons' side of one recovery.
LocalOK(row, step, cs, h) ==
    /\ row.stopped => h.stop = "ok"
    /\ row.gtid => h.stop = "ok" /\ row.kind = "switchover"
    /\ row.todo => /\ row.kind = "switchover" /\ cs.promote = "none"
                   /\ row.state \in Terminal /\ cs.start = "none"
    /\ step = "start" => row.todo
    /\ step \in {"fence", "drain", "stop"} => row.state = "fencing"
    /\ step = "fence" => cs.stop = "none" /\ row.pending = {}
    /\ step \in {"drain", "stop"} => cs.stop = "prepared" /\ "stop" \in row.pending
    /\ cs.stop \in {"none", "prepared", "queued"} => h.stop = "none"
    /\ step = "follow" =>
          cs.promote = "none" /\ (row.stopped \/ row.kind = "switchover")
    /\ step = "enqueue" /\ row.resumes = 0 => cs.promote = "none"
    /\ step \in {"resume", "enqueue"} => h.promote = "none"
    /\ step \in {"resume", "enqueue"} \/ cs.promote # "none" =>
          h.stop = "ok" \/ (row.kind = "switchover" /\ ~Proof /\ ~row.stopped)
    /\ cs.promote \in Live => step \in {"none", "note"}
    /\ cs.promote # "prepared"
    /\ cs.promote \in {"none", "queued"} => h.promote = "none"
    /\ row.state \in {"fencing", "repointing", "reconciling-ingress"} =>
          cs.promote \notin Live
    /\ row.state \in Terminal /\ row.known => cs.promote \notin Live
    /\ step = "abort" =>
          /\ row.kind = "switchover"
          /\ \/ row.state = "promoting"
             \/ row.state \in Terminal /\ cs.promote # "none" /\ ~row.known
    /\ cs.start # "none" =>
          /\ row.state # "fencing" /\ cs.promote \in {"none", "over"}
          /\ step \in {"none", "end"}
    /\ cs.start \in {"none", "queued", "sent", "over"}
    /\ cs.start \in {"none", "queued"} => h.start = "none"

Local == \A r \in DOMAIN journal : LocalOK(journal[r], driver[r], cmd[r], host[r])

\* A recovery that has not begun has no process and no commands.
Unbegun == \A r \in Rows \ DOMAIN journal :
    /\ driver[r] = "none"
    /\ \A k \in Commands : cmd[r][k] = "none" /\ host[r][k] = "none"

\* Only the newest recovery is in flight.
OnlyLast == \A r \in DOMAIN journal : InFlight(r) => r = Last

\* The line holds the stops and starts that were created, and no others.
InLine == \A r \in DOMAIN journal :
    /\ cmd[r].stop # "none" => \E i \in DOMAIN line : line[i] = <<r, "stop">>
    /\ cmd[r].start # "none" => \E i \in DOMAIN line : line[i] = <<r, "start">>

LineOK == \A i \in DOMAIN line :
    line[i][1] \in DOMAIN journal /\ cmd[line[i][1]][line[i][2]] # "none"

StartedWrites == \A r \in DOMAIN journal :
    host[r].promote = "started" => "B" \in writers

\* A switchover began when no older promote could run.
EarlierDead == \A r \in DOMAIN journal : journal[r].kind = "switchover" =>
    \A q \in 1..(r - 1) : host[q].promote \notin {"held", "started"}

\* The promote of a recovery cannot have made B a writer.
Harmless(row, cs, h) ==
    \/ cs.promote = "none"
    \/ row.resumes = 0 /\ cs.promote = "queued"
    \/ row.resumes = 0 /\ h.promote \in {"held", "target_not_running"}
    \/ h.promote = "gtid_wait"

NotYet == \A r \in DOMAIN journal :
    r = Last /\ journal[r].kind = "switchover"
             /\ Harmless(journal[r], cmd[r], host[r]) => "B" \notin writers

\* Once a recovery has its stop, no older one is about to queue a start.
RecordBars == \A r \in DOMAIN journal : cmd[r].stop # "none" =>
    \A q \in 1..(r - 1) : driver[q] # "start"

\* Starts of older recoveries are in the line before the stops of newer ones,
Before == \A i, j \in DOMAIN line :
    line[i][2] = "start" /\ line[j][2] = "stop" /\ line[i][1] < line[j][1] => i < j

\* and are over when such a stop was sent.
Turn == \A r \in DOMAIN journal : host[r].stop # "none" =>
    \A q \in 1..(r - 1) : cmd[q].start \in {"none", "over"}

StartDone(r) == cmd[r].start \in {"none", "over"} /\ host[r].start # "held"

\* A does not write and no start is on its way.
Quiet == "A" \notin writers /\ \A r \in DOMAIN journal : StartDone(r)

FencedQuiet == \A r \in DOMAIN journal :
    r = Last /\ host[r].stop = "ok" /\ cmd[r].start = "none" => Quiet

\* The promote of r may run, or runs.
Armed(r) == \/ host[r].promote \in {"held", "started"}
            \/ InFlight(r) /\ cmd[r].promote \in Live

Main == "B" \in writers \/ (\E r \in DOMAIN journal : Armed(r)) =>
    Quiet /\ \A r \in DOMAIN journal : driver[r] \notin {"abort", "start"}

Order == /\ Unbegun /\ OnlyLast /\ InLine /\ LineOK
         /\ StartedWrites /\ EarlierDead /\ NotYet /\ RecordBars

Safe == Before /\ Turn /\ FencedQuiet /\ Main

WInv == IInv /\ Local /\ Order /\ (~Excused => Safe)

-----------------------------------------------------------------------------
USE RecoveryAssumption

Hosts == [Commands -> HostStates]

\* What the invariant says of one row.
LEMMA WFacts ==
    ASSUME IInv, Local, NEW r \in DOMAIN journal
    PROVE  /\ r \in Rows /\ journal[r] \in Row /\ driver[r] \in DriverSteps
           /\ cmd[r] \in Statuses /\ host[r] \in Hosts
           /\ Holds(journal[r], driver[r], cmd[r])
           /\ LocalOK(journal[r], driver[r], cmd[r], host[r])
<1>1. host \in [Rows -> Hosts]
    BY DEF IInv, TypeOK, Hosts
<1> QED BY <1>1, RowFacts DEF Local

\* A step of row r leaves the others alone.
Frame(r) ==
    /\ Len(journal') = Len(journal) /\ DOMAIN journal' = DOMAIN journal
    /\ \A q \in DOMAIN journal : q # r => journal'[q] = journal[q]
    /\ \A q \in Rows : q # r => /\ driver'[q] = driver[q] /\ cmd'[q] = cmd[q]
                                /\ host'[q] = host[q]

\* A step that writes one row, its process, its commands and their fate has a frame.
LEMMA FrameBy ==
    ASSUME IInv, NEW r \in DOMAIN journal, Moves(r),
           \E h : host' = [host EXCEPT ![r] = h]
    PROVE  Frame(r)
<1>1. PICK row \in Row, step \in DriverSteps, cs \in Statuses :
          Moved(r, row, step, cs)
    BY DEF Moves
<1>2. PICK h : host' = [host EXCEPT ![r] = h]
    OBVIOUS
<1>3. /\ journal \in Seq(Row) /\ r \in Rows
      /\ driver \in [Rows -> DriverSteps] /\ cmd \in [Rows -> Statuses]
      /\ host \in [Rows -> Hosts]
    BY RowFacts DEF IInv, TypeOK, Statuses, Hosts
<1>4. Len(journal') = Len(journal) /\ DOMAIN journal' = DOMAIN journal
    BY <1>1, <1>3 DEF Moved
<1>5. \A q \in DOMAIN journal : q # r => journal'[q] = journal[q]
    BY <1>1, <1>3 DEF Moved
<1>6. \A q \in Rows : q # r => /\ driver'[q] = driver[q] /\ cmd'[q] = cmd[q]
                               /\ host'[q] = host[q]
    BY <1>1, <1>2, <1>3 DEF Moved
<1> QED BY <1>4, <1>5, <1>6 DEF Frame

\* Every step of a row has a frame.
LEMMA Frames ==
    ASSUME IInv, NEW r \in DOMAIN journal,
           Driven(r) \/ Answered(r) \/ Swept(r) \/ Daemon(r) \/ Fails(r)
    PROVE  Frame(r)
<1>1. Moves(r)
    BY DrivenMoves, AnsweredMoves, SweptMoves, DaemonMoves, FailsMoves
<1>2. host \in [Rows -> Hosts] /\ r \in Rows
    BY RowFacts DEF IInv, TypeOK, Hosts
<1>3. CASE host' = host
  <2>1. host' = [host EXCEPT ![r] = host[r]]
      BY <1>2, <1>3
  <2> QED BY <1>1, <2>1, FrameBy
<1>4. ASSUME NEW k, NEW x, host' = [host EXCEPT ![r][k] = x]
      PROVE  Frame(r)
  <2>1. host' = [host EXCEPT ![r] = [host[r] EXCEPT ![k] = x]]
      BY <1>2, <1>4
  <2> QED BY <1>1, <2>1, FrameBy
<1>5. CASE Driven(r)
  <2>1. host' = host
      BY <1>5 DEF Driven, RecordFence, PublishDrain, PublishStop, FollowFence,
            ResumePromote, EnqueuePromote, NotePromote, AbortStart, AbortEnd,
            ClaimPromote, FanOut, CancelSteps, QueueRestart
  <2> QED BY <2>1, <1>3
<1>6. CASE Answered(r)
  <2>1. host' = host \/ host' = [host EXCEPT ![r]["promote"] = "none"]
      BY <1>6 DEF Answered, DrainAnswers, StopAnswers, StopGivenUp, StartEnds,
            PromoteSucceeds, PromoteResumes, PromoteFails, PromoteGivenUp,
            IngressSettles, Answers
  <2> QED BY <2>1, <1>3, <1>4
<1>7. CASE Swept(r)
  <2>1. host' = host
      BY <1>7 DEF Swept, StaleFenceStep, AbandonDrains, DeadlineBlocks,
            CheckRestart, ExpireStale
  <2> QED BY <2>1, <1>3
<1>8. CASE Fails(r)
  <2>1. host' = host
      BY <1>8 DEF Fails, PublishDrainFails, PublishStopFails, EnqueuePromoteFails,
            FanOutFails, QueueRestartFails, DriverDies, ConsumerDies
  <2> QED BY <2>1, <1>3
<1>9. CASE Daemon(r)
  <2>1. \E k, x : host' = [host EXCEPT ![r][k] = x]
      BY <1>9 DEF Daemon, Send, PromoteStarts, PromoteEnds
  <2> QED BY <2>1, <1>4
<1> QED BY <1>5, <1>6, <1>7, <1>8, <1>9


-----------------------------------------------------------------------------
\* How a step of row r may treat the order of things: a stop or a start is created
\* together with its place in the line, a stop only while no start is planned, a
\* start is planned only for the newest row, and a promote moves as its answers
\* allow.
Calm(r) ==
    /\ \A k \in {"stop", "start"} :
          /\ cmd[r][k] # "none" => cmd'[r][k] # "none"
          /\ cmd'[r][k] # "none" => cmd[r][k] # "none" \/ line' = Append(line, <<r, k>>)
    /\ \/ line' = line
       \/ \E k \in {"stop", "start"} : line' = Append(line, <<r, k>>) /\ cmd'[r][k] # "none"
    /\ cmd'[r].stop # "none" =>
          cmd[r].stop # "none" \/ \A q \in Rows : driver[q] # "start"
    /\ driver'[r] = "start" => driver[r] = "start" \/ r = Last
    /\ host'[r].promote = "started" => host[r].promote = "started" \/ "B" \in writers'
    /\ host'[r].promote \in {"held", "started"} =>
          host[r].promote \in {"held", "started"} \/ r = Last
    /\ "B" \in writers => "B" \in writers'
    /\ "B" \in writers' => "B" \in writers \/ host[r].promote = "held"
    /\ Harmless(journal'[r], cmd'[r], host'[r]) =>
          \/ Harmless(journal[r], cmd[r], host[r]) /\ ("B" \in writers' => "B" \in writers)
          \/ "B" \notin writers'
    /\ journal'[r].kind = journal[r].kind
    /\ Ends(journal[r], journal'[r])

\* What each part of Safe asks of a step of row r.
LineKept(r) == line' = line \/ line' = Append(line, <<r, "stop">>)
TurnKept(r) ==
    /\ host'[r].stop # "none" => host[r].stop # "none"
    /\ cmd[r].start \in {"none", "over"} => cmd'[r].start \in {"none", "over"}
QuietKept(r) ==
    /\ "A" \in writers' => "A" \in writers \/ ~StartDone(r)
    /\ StartDone(r) => StartDone(r)'
FenceKept(r) ==
    /\ host'[r].stop = "ok" => host[r].stop = "ok"
    /\ cmd'[r].start = "none" => cmd[r].start = "none"
ArmedKept(r) ==
    /\ "B" \in writers' => "B" \in writers \/ Armed(r)
    /\ Armed(r)' => Armed(r)
DriverKept(r) == driver'[r] \in {"abort", "start"} => driver'[r] = driver[r]

Plain(r) ==
    /\ Calm(r) /\ LineKept(r) /\ TurnKept(r) /\ QuietKept(r) /\ FenceKept(r)
    /\ ArmedKept(r) /\ DriverKept(r)

\* What OneWriter excuses stays so.
Excuses(r) == (Unproven(r) => Unproven(r)') /\ (Unnoted(r) => Unnoted(r)')

NewLocal(r) == LocalOK(journal'[r], driver'[r], cmd'[r], host'[r])

\* Local is checked row by row: a step has to keep it for its own row.
LEMMA KeepLocal ==
    ASSUME IInv, Local, NEW r \in DOMAIN journal, Frame(r), NewLocal(r)
    PROVE  Local'
<1> SUFFICES ASSUME NEW q \in DOMAIN journal
             PROVE  LocalOK(journal'[q], driver'[q], cmd'[q], host'[q])
    BY DEF Frame, Local
<1>1. CASE q = r
    BY <1>1 DEF NewLocal
<1>2. CASE q # r
  <2>1. q \in Rows /\ LocalOK(journal[q], driver[q], cmd[q], host[q])
      BY WFacts
  <2>2. /\ journal'[q] = journal[q] /\ driver'[q] = driver[q]
        /\ cmd'[q] = cmd[q] /\ host'[q] = host[q]
      BY <1>2, <2>1 DEF Frame
  <2> QED BY <2>1, <2>2
<1> QED BY <1>1, <1>2

\* An unproven or unnoted promote of any row stays one when the moving row keeps its own.
LEMMA KeepExcused ==
    ASSUME IInv, NEW r \in DOMAIN journal, Frame(r), Excuses(r), Excused
    PROVE  Excused'
<1>1. PICK q \in DOMAIN journal : Unproven(q) \/ Unnoted(q)
    BY DEF Excused
<1>2. q \in Rows /\ q \in DOMAIN journal'
    BY RowFacts DEF Frame
<1>3. Unproven(q)' \/ Unnoted(q)'
  <2>1. CASE q = r
      BY <1>1, <2>1 DEF Excuses
  <2>2. CASE q # r
    <3>1. journal'[q] = journal[q] /\ cmd'[q] = cmd[q]
        BY <1>2, <2>2 DEF Frame
    <3> QED BY <1>1, <3>1 DEF Unproven, Unnoted, InFlight
  <2> QED BY <2>1, <2>2
<1> QED BY <1>2, <1>3 DEF Excused

\* The journal and the line, as sequences of rows and of stops and starts.
LEMMA Shape ==
    ASSUME IInv
    PROVE  /\ DOMAIN journal \subseteq Rows /\ DOMAIN journal = 1..Len(journal)
           /\ Len(journal) \in Nat /\ Rows \subseteq Nat \ {0}
           /\ line \in Seq(Rows \X {"stop", "start"})
           /\ DOMAIN line = 1..Len(line) /\ Len(line) \in Nat
           /\ \A i \in DOMAIN line : line[i] = <<line[i][1], line[i][2]>>
                                     /\ line[i][1] \in Rows
                                     /\ line[i][2] \in {"stop", "start"}
<1>1. journal \in Seq(Row) /\ Len(journal) <= MaxRows
      /\ line \in Seq(Rows \X {"stop", "start"})
    BY DEF IInv, TypeOK
<1>2. DOMAIN journal = 1..Len(journal) /\ Len(journal) \in Nat
    BY <1>1
<1>3. DOMAIN journal \subseteq Rows /\ Rows \subseteq Nat \ {0}
    BY <1>1, <1>2 DEF Rows
<1>4. DOMAIN line = 1..Len(line) /\ Len(line) \in Nat
    BY <1>1
<1> HIDE DEF Rows
<1>5. \A i \in DOMAIN line : line[i] \in Rows \X {"stop", "start"}
    BY <1>1, <1>4
<1> QED BY <1>1, <1>2, <1>3, <1>4, <1>5

\* A recovery older than another one is in the journal and not the newest.
LEMMA Under ==
    ASSUME IInv, NEW p \in DOMAIN journal, NEW q \in 1..(p - 1)
    PROVE  q \in DOMAIN journal /\ q # Last /\ q < p
<1>1. DOMAIN journal = 1..Len(journal) /\ Len(journal) \in Nat
    BY Shape
<1>2. p \in Nat /\ p <= Len(journal) /\ q \in Nat /\ q >= 1 /\ q < p
    BY <1>1
<1>3. \A n \in Nat : p <= n => q \in 1..n /\ q # n
    BY <1>2
<1>4. q \in 1..Len(journal) /\ q # Len(journal)
    BY <1>1, <1>2, <1>3
<1> QED BY <1>1, <1>2, <1>4 DEF Last

\* A step of row r creates no process and no commands for a recovery to come.
LEMMA KeepUnbegun ==
    ASSUME IInv, NEW r \in DOMAIN journal, Frame(r), Unbegun
    PROVE  Unbegun'
    BY RowFacts DEF Frame, Unbegun

\* A step of row r brings no older recovery back in flight.
LEMMA KeepOnlyLast ==
    ASSUME IInv, NEW r \in DOMAIN journal, Frame(r), OnlyLast,
           Ends(journal[r], journal'[r])
    PROVE  OnlyLast'
    BY DEF Frame, OnlyLast, Ends, InFlight, Last

\* A calm step keeps the order of things.
LEMMA CalmOrder ==
    ASSUME IInv, NEW r \in DOMAIN journal, Frame(r), Calm(r), Order
    PROVE  Order'
<1>1. /\ DOMAIN journal \subseteq Rows /\ DOMAIN journal = 1..Len(journal)
      /\ Len(journal) \in Nat /\ line \in Seq(Rows \X {"stop", "start"})
      /\ DOMAIN line = 1..Len(line) /\ Len(line) \in Nat
      /\ \A i \in DOMAIN line : line[i][2] \in {"stop", "start"}
    BY Shape
<1>2. DOMAIN journal' = DOMAIN journal /\ Last' = Last
    BY DEF Frame, Last
<1>3. ASSUME NEW q \in DOMAIN journal, q # r
      PROVE  /\ cmd'[q] = cmd[q] /\ host'[q] = host[q] /\ driver'[q] = driver[q]
             /\ journal'[q] = journal[q]
    BY <1>1, <1>3 DEF Frame
<1>4. Unbegun' /\ OnlyLast'
    BY KeepUnbegun, KeepOnlyLast DEF Calm, Order
<1> DEFINE Grows ==
           /\ DOMAIN line \subseteq DOMAIN line'
           /\ \A i \in DOMAIN line : line'[i] = line[i]
           /\ \/ line' = line
              \/ \E k \in {"stop", "start"} :
                    /\ DOMAIN line' = DOMAIN line \cup {Len(line) + 1}
                    /\ line'[Len(line) + 1] = <<r, k>> /\ cmd'[r][k] # "none"
<1>5. Grows
  <2>1. CASE line' = line
      BY <2>1
  <2>2. ASSUME NEW k \in {"stop", "start"}, line' = Append(line, <<r, k>>),
               cmd'[r][k] # "none"
        PROVE  Grows
    <3>1. DOMAIN line' = DOMAIN line \cup {Len(line) + 1}
          /\ line'[Len(line) + 1] = <<r, k>>
          /\ \A i \in DOMAIN line : line'[i] = line[i]
      <4> HIDE DEF Rows
      <4> QED BY <1>1, <2>2
    <3> QED BY <2>2, <3>1
  <2> QED BY <2>1, <2>2 DEF Calm
<1>6. InLine'
  <2> SUFFICES ASSUME NEW q \in DOMAIN journal, NEW k \in {"stop", "start"},
                      cmd'[q][k] # "none"
               PROVE  \E i \in DOMAIN line' : line'[i] = <<q, k>>
      BY <1>2 DEF InLine
  <2>1. CASE cmd[q][k] # "none"
    <3>1. PICK i \in DOMAIN line : line[i] = <<q, k>>
        BY <2>1 DEF Order, InLine
    <3> QED BY <3>1, <1>5
  <2>2. CASE cmd[q][k] = "none"
    <3>1. q = r /\ line' = Append(line, <<r, k>>)
        BY <1>3, <2>2 DEF Calm
    <3>2. Len(line) + 1 \in DOMAIN line' /\ line'[Len(line) + 1] = <<q, k>>
      <4> HIDE DEF Rows
      <4> QED BY <1>1, <3>1
    <3> QED BY <3>2
  <2> QED BY <2>1, <2>2
<1>7. LineOK'
  <2> SUFFICES ASSUME NEW i \in DOMAIN line'
               PROVE  line'[i][1] \in DOMAIN journal /\ cmd'[line'[i][1]][line'[i][2]] # "none"
      BY <1>2 DEF LineOK
  <2>1. CASE i \in DOMAIN line
    <3>1. /\ line'[i] = line[i] /\ line[i][2] \in {"stop", "start"}
          /\ line[i][1] \in DOMAIN journal /\ cmd[line[i][1]][line[i][2]] # "none"
        BY <1>1, <1>5, <2>1 DEF Order, LineOK
    <3>2. cmd'[line[i][1]][line[i][2]] # "none"
        BY <1>3, <3>1 DEF Calm
    <3> QED BY <3>1, <3>2
  <2>2. CASE i \notin DOMAIN line
      BY <1>5, <2>2
  <2> QED BY <2>1, <2>2
<1>8. StartedWrites'
    BY <1>2, <1>3 DEF Order, StartedWrites, Calm
<1>9. EarlierDead'
  <2> SUFFICES ASSUME NEW p \in DOMAIN journal, journal'[p].kind = "switchover",
                      NEW q \in 1..(p - 1)
               PROVE  host'[q].promote \notin {"held", "started"}
      BY <1>2 DEF EarlierDead
  <2>1. q \in DOMAIN journal /\ q # Last
      BY <1>1, Under
  <2>2. journal[p].kind = "switchover"
      BY <1>3 DEF Calm
  <2>3. host[q].promote \notin {"held", "started"}
      BY <2>2 DEF Order, EarlierDead
  <2> QED BY <2>1, <2>3, <1>3 DEF Calm
<1>10. NotYet'
  <2> SUFFICES ASSUME NEW p \in DOMAIN journal, p = Last, journal'[p].kind = "switchover",
                      Harmless(journal'[p], cmd'[p], host'[p])
               PROVE  "B" \notin writers'
      BY <1>2 DEF NotYet
  <2>1. CASE p = r
      BY <2>1 DEF Calm, Order, NotYet
  <2>2. CASE p # r
    <3>1. Harmless(journal[p], cmd[p], host[p]) /\ journal[p].kind = "switchover"
        BY <1>3, <2>2
    <3>2. "B" \notin writers
        BY <3>1 DEF Order, NotYet
    <3>3. r \in 1..(p - 1)
        BY <1>1, <2>2 DEF Last
    <3>4. host[r].promote # "held"
        BY <3>1, <3>3 DEF Order, EarlierDead
    <3> QED BY <3>2, <3>4 DEF Calm
  <2> QED BY <2>1, <2>2
<1>11. RecordBars'
  <2> SUFFICES ASSUME NEW p \in DOMAIN journal, cmd'[p].stop # "none",
                      NEW q \in 1..(p - 1)
               PROVE  driver'[q] # "start"
      BY <1>2 DEF RecordBars
  <2>1. q \in DOMAIN journal /\ q \in Rows /\ q # Last
      BY <1>1, Under
  <2>2. driver[q] # "start"
      BY <2>1, <1>3 DEF Calm, Order, RecordBars
  <2> QED BY <2>1, <2>2, <1>3 DEF Calm
<1> QED BY <1>4, <1>6, <1>7, <1>8, <1>9, <1>10, <1>11 DEF Order
-----------------------------------------------------------------------------
\* The plain steps

Becomes(r, row, step, cs, h) ==
    /\ journal'[r] = row /\ driver'[r] = step /\ cmd'[r] = cs /\ host'[r] = h
    /\ line' = line /\ writers' = writers

\* Plain and Excuses as a relation between the parts of a row before and after.
PlainChange(row, step, cs, h, row2, step2, cs2, h2) ==
    /\ cs2.stop = "none" <=> cs.stop = "none"
    /\ cs2.start = cs.start
    /\ h2.stop = h.stop /\ h2.start = h.start
    /\ h2.promote \in {h.promote, "none"}
    /\ cs2.promote \in {cs.promote, "over"} \/ (cs.promote \in Live /\ cs2.promote = "orphan")
    /\ step2 \in {"abort", "start"} => step2 = step
    /\ row2.kind = row.kind
    /\ row2.resumes = 0 => row.resumes = 0
    /\ Ends(row, row2)
    /\ cs.promote # "none" =>
          /\ row2.stopped = row.stopped
          /\ row.state \in Terminal /\ ~row.known => ~row2.known

Good(r) == NewLocal(r) /\ Plain(r) /\ Excuses(r)

\* A plain change of the parts of row r is a plain step of row r.
LEMMA GoodBy ==
    ASSUME NEW r \in DOMAIN journal, NEW row, NEW step, NEW cs, NEW h,
           Becomes(r, row, step, cs, h), LocalOK(row, step, cs, h),
           PlainChange(journal[r], driver[r], cmd[r], host[r], row, step, cs, h)
    PROVE  Good(r)
<1>1. NewLocal(r)
    BY DEF Becomes, NewLocal
<1>2. Calm(r)
    BY DEF Becomes, PlainChange, Calm, Harmless, Live
<1>3. /\ LineKept(r) /\ TurnKept(r) /\ QuietKept(r) /\ FenceKept(r) /\ ArmedKept(r)
      /\ DriverKept(r)
    BY DEF Becomes, PlainChange, LineKept, TurnKept, QuietKept, FenceKept, ArmedKept,
           DriverKept, StartDone, Armed, InFlight, Ends, Live
<1>4. Excuses(r)
    BY DEF Becomes, PlainChange, Excuses, Unproven, Unnoted, InFlight, Ends, Terminal
<1> QED BY <1>1, <1>2, <1>3, <1>4 DEF Good, Plain

\* Steps of the process that holds the row.
LEMMA PlainDriven ==
    ASSUME IInv, Local, NEW r \in DOMAIN journal
    PROVE  /\ (PublishDrain(r) => Good(r))
           /\ (PublishStop(r) => Good(r))
           /\ (ResumePromote(r) => Good(r))
           /\ (NotePromote(r) => Good(r))
           /\ (AbortEnd(r) => Good(r))
           /\ (ClaimPromote(r) => Good(r))
           /\ (FanOut(r) => Good(r))
           /\ (CancelSteps(r) => Good(r))
<1>1. /\ r \in Rows /\ journal[r] \in Row /\ driver[r] \in DriverSteps
      /\ cmd[r] \in Statuses /\ host[r] \in Hosts
      /\ Holds(journal[r], driver[r], cmd[r])
      /\ LocalOK(journal[r], driver[r], cmd[r], host[r])
    BY WFacts
<1>2. /\ journal \in Seq(Row) /\ driver \in [Rows -> DriverSteps]
      /\ cmd \in [Rows -> Statuses] /\ host \in [Rows -> Hosts]
    BY DEF IInv, TypeOK, Statuses, Hosts
<1> USE DEF InFlight, Terminal, Live, Ended, Commands, FenceSteps
<1>3. ASSUME PublishDrain(r) PROVE Good(r)
  <2> DEFINE row == journal[r]
             step == "stop"
             cs == [cmd[r] EXCEPT !.drain = Published(r, "drain")]
             h == host[r]
  <2>1. Becomes(r, row, step, cs, h)
      BY <1>1, <1>2, <1>3 DEF Becomes, PublishDrain, SetRow, Goes, SetCmd, Fault, Statuses, Hosts
  <2>2. LocalOK(row, step, cs, h)
      BY <1>1, <1>3 DEF PublishDrain, LocalOK, Holds, Row, Statuses, Hosts, Published
  <2>3. PlainChange(journal[r], driver[r], cmd[r], host[r], row, step, cs, h)
      BY <1>1, <1>3 DEF PublishDrain, PlainChange, LocalOK, Holds, Row, Statuses, Hosts, Ends, Published
  <2> QED BY <2>1, <2>2, <2>3, GoodBy
<1>4. ASSUME PublishStop(r) PROVE Good(r)
  <2> DEFINE row == journal[r]
             step == "none"
             cs == [cmd[r] EXCEPT !.stop = Published(r, "stop")]
             h == host[r]
  <2>1. Becomes(r, row, step, cs, h)
      BY <1>1, <1>2, <1>4 DEF Becomes, PublishStop, SetRow, Goes, SetCmd, Fault, Statuses, Hosts
  <2>2. LocalOK(row, step, cs, h)
      BY <1>1, <1>4 DEF PublishStop, LocalOK, Holds, Row, Statuses, Hosts, Published
  <2>3. PlainChange(journal[r], driver[r], cmd[r], host[r], row, step, cs, h)
      BY <1>1, <1>4 DEF PublishStop, PlainChange, LocalOK, Holds, Row, Statuses, Hosts, Ends, Published
  <2> QED BY <2>1, <2>2, <2>3, GoodBy
<1>5. ASSUME ResumePromote(r) PROVE Good(r)
  <2> DEFINE row == [journal[r] EXCEPT !.state = "promoting", !.resumes = @ + 1,
                                       !.known = FALSE]
             step == "enqueue"
             cs == cmd[r]
             h == host[r]
  <2>1. Becomes(r, row, step, cs, h)
      BY <1>1, <1>2, <1>5 DEF Becomes, ResumePromote, SetRow, Goes, SetCmd, Fault, Statuses, Hosts
  <2>2. LocalOK(row, step, cs, h)
      BY <1>1, <1>5 DEF ResumePromote, LocalOK, Holds, Row, Statuses, Hosts
  <2>3. PlainChange(journal[r], driver[r], cmd[r], host[r], row, step, cs, h)
      BY <1>1, <1>5 DEF ResumePromote, PlainChange, LocalOK, Holds, Row, Statuses, Hosts, Ends
  <2> QED BY <2>1, <2>2, <2>3, GoodBy
<1>6. ASSUME NotePromote(r) PROVE Good(r)
  <2> DEFINE row == [journal[r] EXCEPT !.known = TRUE]
             step == "none"
             cs == cmd[r]
             h == host[r]
  <2>1. Becomes(r, row, step, cs, h)
      BY <1>1, <1>2, <1>6 DEF Becomes, NotePromote, SetRow, Goes, SetCmd, Fault, Statuses, Hosts
  <2>2. LocalOK(row, step, cs, h)
      BY <1>1, <1>6 DEF NotePromote, LocalOK, Holds, Row, Statuses, Hosts
  <2>3. PlainChange(journal[r], driver[r], cmd[r], host[r], row, step, cs, h)
      BY <1>1, <1>6 DEF NotePromote, PlainChange, LocalOK, Holds, Row, Statuses, Hosts, Ends
  <2> QED BY <2>1, <2>2, <2>3, GoodBy
<1>7. ASSUME AbortEnd(r) PROVE Good(r)
  <2> DEFINE row == Locked(r, Blocked(journal[r]))
             step == "none"
             cs == cmd[r]
             h == host[r]
  <2>1. Becomes(r, row, step, cs, h)
      BY <1>1, <1>2, <1>7 DEF Becomes, AbortEnd, SetRow, Goes, SetCmd, Fault, Statuses, Hosts
  <2>2. LocalOK(row, step, cs, h)
      BY <1>1, <1>7 DEF AbortEnd, LocalOK, Holds, Row, Statuses, Hosts, Locked, Blocked
  <2>3. PlainChange(journal[r], driver[r], cmd[r], host[r], row, step, cs, h)
      BY <1>1, <1>7 DEF AbortEnd, PlainChange, LocalOK, Holds, Row, Statuses, Hosts, Ends, Locked, Blocked
  <2> QED BY <2>1, <2>2, <2>3, GoodBy
<1>8. ASSUME ClaimPromote(r) PROVE Good(r)
  <2> DEFINE row == IF journal[r].state \in {"fencing", "promoting"}
                    THEN [journal[r] EXCEPT !.state = "repointing"] ELSE journal[r]
             step == IF journal[r].state \in {"fencing", "promoting"} THEN "fanout" ELSE "none"
             cs == cmd[r]
             h == host[r]
  <2>1. Becomes(r, row, step, cs, h)
      BY <1>1, <1>2, <1>8 DEF Becomes, ClaimPromote, SetRow, Goes, SetCmd, Fault, Statuses, Hosts
  <2>2. LocalOK(row, step, cs, h)
      BY <1>1, <1>8 DEF ClaimPromote, LocalOK, Holds, Row, Statuses, Hosts
  <2>3. PlainChange(journal[r], driver[r], cmd[r], host[r], row, step, cs, h)
      BY <1>1, <1>8 DEF ClaimPromote, PlainChange, LocalOK, Holds, Row, Statuses, Hosts, Ends
  <2> QED BY <2>1, <2>2, <2>3, GoodBy
<1>9. ASSUME FanOut(r) PROVE Good(r)
  <2> DEFINE row == Locked(r, [journal[r] EXCEPT !.state = "reconciling-ingress"])
             step == "none"
             cs == [cmd[r] EXCEPT !.ingress = "queued"]
             h == host[r]
  <2>1. Becomes(r, row, step, cs, h)
      BY <1>1, <1>2, <1>9 DEF Becomes, FanOut, SetRow, Goes, SetCmd, Fault, Statuses, Hosts
  <2>2. LocalOK(row, step, cs, h)
      BY <1>1, <1>9 DEF FanOut, LocalOK, Holds, Row, Statuses, Hosts, Locked
  <2>3. PlainChange(journal[r], driver[r], cmd[r], host[r], row, step, cs, h)
      BY <1>1, <1>9 DEF FanOut, PlainChange, LocalOK, Holds, Row, Statuses, Hosts, Ends, Locked
  <2> QED BY <2>1, <2>2, <2>3, GoodBy
<1>10. ASSUME CancelSteps(r) PROVE Good(r)
  <2> DEFINE row == [journal[r] EXCEPT !.react = @ \/ (driver[r] = "recheck"
                                                    /\ host[r].stop # "none")]
             step == "none"
             cs == Cancelled(r)
             h == host[r]
  <2>1. Becomes(r, row, step, cs, h)
      BY <1>1, <1>2, <1>10 DEF Becomes, CancelSteps, SetRow, Goes, SetCmd, Fault, Statuses, Hosts
  <2>2. LocalOK(row, step, cs, h)
      BY <1>1, <1>10 DEF CancelSteps, LocalOK, Holds, Row, Statuses, Hosts, Cancelled
  <2>3. PlainChange(journal[r], driver[r], cmd[r], host[r], row, step, cs, h)
      BY <1>1, <1>10 DEF CancelSteps, PlainChange, LocalOK, Holds, Row, Statuses, Hosts, Ends, Cancelled
  <2> QED BY <2>1, <2>2, <2>3, GoodBy
<1> QED BY <1>3, <1>4, <1>5, <1>6, <1>7, <1>8, <1>9, <1>10

\* Answers of the promote and of the ingress.
LEMMA PlainAnswered ==
    ASSUME IInv, Local, NEW r \in DOMAIN journal
    PROVE  /\ (PromoteSucceeds(r) => Good(r))
           /\ (PromoteResumes(r) => Good(r))
           /\ (PromoteGivenUp(r) => Good(r))
           /\ (\A ok \in BOOLEAN : IngressSettles(r, ok) => Good(r))
<1>1. /\ r \in Rows /\ journal[r] \in Row /\ driver[r] \in DriverSteps
      /\ cmd[r] \in Statuses /\ host[r] \in Hosts
      /\ Holds(journal[r], driver[r], cmd[r])
      /\ LocalOK(journal[r], driver[r], cmd[r], host[r])
    BY WFacts
<1>2. /\ journal \in Seq(Row) /\ driver \in [Rows -> DriverSteps]
      /\ cmd \in [Rows -> Statuses] /\ host \in [Rows -> Hosts]
    BY DEF IInv, TypeOK, Statuses, Hosts
<1> USE DEF InFlight, Terminal, Live, Ended, Commands, FenceSteps
<1>3. ASSUME PromoteSucceeds(r) PROVE Good(r)
  <2> DEFINE row == journal[r]
             step == "claim"
             cs == [cmd[r] EXCEPT !.promote = "over"]
             h == [host[r] EXCEPT !.promote = "none"]
  <2>1. Becomes(r, row, step, cs, h)
      BY <1>1, <1>2, <1>3 DEF Becomes, PromoteSucceeds, SetRow, Goes, SetCmd, Fault, Answers, Statuses, Hosts
  <2>2. LocalOK(row, step, cs, h)
      BY <1>1, <1>3 DEF PromoteSucceeds, LocalOK, Holds, Row, Statuses, Hosts, Taken, Answers
  <2>3. PlainChange(journal[r], driver[r], cmd[r], host[r], row, step, cs, h)
      BY <1>1, <1>3 DEF PromoteSucceeds, PlainChange, LocalOK, Holds, Row, Statuses, Hosts, Ends, Taken, Answers
  <2> QED BY <2>1, <2>2, <2>3, GoodBy
<1>4. ASSUME PromoteResumes(r) PROVE Good(r)
  <2> DEFINE row == journal[r]
             step == IF primary = "A" THEN "resume" ELSE "claim"
             cs == [cmd[r] EXCEPT !.promote = "over"]
             h == [host[r] EXCEPT !.promote = "none"]
  <2>1. Becomes(r, row, step, cs, h)
      BY <1>1, <1>2, <1>4 DEF Becomes, PromoteResumes, SetRow, Goes, SetCmd, Fault, Answers, Statuses, Hosts
  <2>2. LocalOK(row, step, cs, h)
      BY <1>1, <1>4 DEF PromoteResumes, LocalOK, Holds, Row, Statuses, Hosts, Taken, Answers, Resumes
  <2>3. PlainChange(journal[r], driver[r], cmd[r], host[r], row, step, cs, h)
      BY <1>1, <1>4 DEF PromoteResumes, PlainChange, LocalOK, Holds, Row, Statuses, Hosts, Ends, Taken, Answers, Resumes
  <2> QED BY <2>1, <2>2, <2>3, GoodBy
<1>5. ASSUME PromoteGivenUp(r) PROVE Good(r)
  <2> DEFINE row == Locked(r, Failed(journal[r]))
             step == driver[r]
             cs == [cmd[r] EXCEPT !.promote = "over"]
             h == host[r]
  <2>1. Becomes(r, row, step, cs, h)
      BY <1>1, <1>2, <1>5 DEF Becomes, PromoteGivenUp, SetRow, Goes, SetCmd, Fault, Statuses, Hosts
  <2>2. LocalOK(row, step, cs, h)
      BY <1>1, <1>5 DEF PromoteGivenUp, LocalOK, Holds, Row, Statuses, Hosts, Taken, Locked, Failed
  <2>3. PlainChange(journal[r], driver[r], cmd[r], host[r], row, step, cs, h)
      BY <1>1, <1>5 DEF PromoteGivenUp, PlainChange, LocalOK, Holds, Row, Statuses, Hosts, Ends, Taken, Locked, Failed
  <2> QED BY <2>1, <2>2, <2>3, GoodBy
<1>6. ASSUME NEW ok \in BOOLEAN, IngressSettles(r, ok) PROVE Good(r)
  <2> DEFINE row == IF journal[r].state # "reconciling-ingress" THEN journal[r]
                    ELSE [journal[r] EXCEPT !.state = IF ok THEN "completed"
                                                            ELSE "failed"]
             step == driver[r]
             cs == [cmd[r] EXCEPT !.ingress = "over"]
             h == host[r]
  <2>1. Becomes(r, row, step, cs, h)
      BY <1>1, <1>2, <1>6 DEF Becomes, IngressSettles, SetRow, Goes, SetCmd, Fault, Statuses, Hosts
  <2>2. LocalOK(row, step, cs, h)
      BY <1>1, <1>6 DEF IngressSettles, LocalOK, Holds, Row, Statuses, Hosts
  <2>3. PlainChange(journal[r], driver[r], cmd[r], host[r], row, step, cs, h)
      BY <1>1, <1>6 DEF IngressSettles, PlainChange, LocalOK, Holds, Row, Statuses, Hosts, Ends
  <2> QED BY <2>1, <2>2, <2>3, GoodBy
<1> QED BY <1>3, <1>4, <1>5, <1>6

\* The fence deadline and the expiry of a row.
LEMMA PlainSwept ==
    ASSUME IInv, Local, NEW r \in DOMAIN journal
    PROVE  /\ (DeadlineBlocks(r) => Good(r))
           /\ (ExpireStale(r) => Good(r))
<1>1. /\ r \in Rows /\ journal[r] \in Row /\ driver[r] \in DriverSteps
      /\ cmd[r] \in Statuses /\ host[r] \in Hosts
      /\ Holds(journal[r], driver[r], cmd[r])
      /\ LocalOK(journal[r], driver[r], cmd[r], host[r])
    BY WFacts
<1>2. /\ journal \in Seq(Row) /\ driver \in [Rows -> DriverSteps]
      /\ cmd \in [Rows -> Statuses] /\ host \in [Rows -> Hosts]
    BY DEF IInv, TypeOK, Statuses, Hosts
<1> USE DEF InFlight, Terminal, Live, Ended, Commands, FenceSteps
<1>3. ASSUME DeadlineBlocks(r) PROVE Good(r)
  <2> DEFINE row == [Blocked(journal[r]) EXCEPT !.todo = (journal[r].kind = "switchover"),
                    !.react = /\ journal[r].kind = "switchover"
                              /\ "stop" \in journal[r].pending /\ host[r].stop # "none"]
             step == IF journal[r].kind = "switchover" /\ "stop" \in journal[r].pending
                        /\ host[r].stop = "none" THEN "recheck" ELSE "cancel"
             cs == cmd[r]
             h == host[r]
  <2>1. Becomes(r, row, step, cs, h)
      BY <1>1, <1>2, <1>3 DEF Becomes, DeadlineBlocks, SetRow, Goes, SetCmd, Fault, Statuses, Hosts
  <2>2. LocalOK(row, step, cs, h)
      BY <1>1, <1>3 DEF DeadlineBlocks, LocalOK, Holds, Row, Statuses, Hosts, Blocked
  <2>3. PlainChange(journal[r], driver[r], cmd[r], host[r], row, step, cs, h)
      BY <1>1, <1>3 DEF DeadlineBlocks, PlainChange, LocalOK, Holds, Row, Statuses, Hosts, Ends, Blocked
  <2> QED BY <2>1, <2>2, <2>3, GoodBy
<1>4. ASSUME ExpireStale(r) PROVE Good(r)
  <2> DEFINE row == IF journal[r].state = "fencing" /\ journal[r].pending = {}
                    THEN [journal[r] EXCEPT !.state = "blocked"] ELSE Failed(journal[r])
             step == driver[r]
             cs == cmd[r]
             h == host[r]
  <2>1. Becomes(r, row, step, cs, h)
      BY <1>1, <1>2, <1>4 DEF Becomes, ExpireStale, SetRow, Goes, SetCmd, Fault, Statuses, Hosts
  <2>2. LocalOK(row, step, cs, h)
      BY <1>1, <1>4 DEF ExpireStale, LocalOK, Holds, Row, Statuses, Hosts, Failed, Listed
  <2>3. PlainChange(journal[r], driver[r], cmd[r], host[r], row, step, cs, h)
      BY <1>1, <1>4 DEF ExpireStale, PlainChange, LocalOK, Holds, Row, Statuses, Hosts, Ends, Failed, Listed
  <2> QED BY <2>1, <2>2, <2>3, GoodBy
<1> QED BY <1>3, <1>4

\* Refused queue writes and processes that die.
LEMMA PlainFails ==
    ASSUME IInv, Local, NEW r \in DOMAIN journal
    PROVE  /\ (PublishStopFails(r) => Good(r))
           /\ (EnqueuePromoteFails(r) => Good(r))
           /\ (FanOutFails(r) => Good(r))
           /\ (QueueRestartFails(r) => Good(r))
           /\ (DriverDies(r) => Good(r))
           /\ (\A k \in {"drain", "stop", "promote"} : ConsumerDies(r, k) => Good(r))
<1>1. /\ r \in Rows /\ journal[r] \in Row /\ driver[r] \in DriverSteps
      /\ cmd[r] \in Statuses /\ host[r] \in Hosts
      /\ Holds(journal[r], driver[r], cmd[r])
      /\ LocalOK(journal[r], driver[r], cmd[r], host[r])
    BY WFacts
<1>2. /\ journal \in Seq(Row) /\ driver \in [Rows -> DriverSteps]
      /\ cmd \in [Rows -> Statuses] /\ host \in [Rows -> Hosts]
    BY DEF IInv, TypeOK, Statuses, Hosts
<1> USE DEF InFlight, Terminal, Live, Ended, Commands, FenceSteps
<1>3. ASSUME PublishStopFails(r) PROVE Good(r)
  <2> DEFINE row == IF journal[r].state = "fencing"
                    THEN [journal[r] EXCEPT !.state = "blocked", !.pending = @ \ {"stop"}]
                    ELSE journal[r]
             step == "none"
             cs == [cmd[r] EXCEPT !.stop = "over"]
             h == host[r]
  <2>1. Becomes(r, row, step, cs, h)
      BY <1>1, <1>2, <1>3 DEF Becomes, PublishStopFails, SetRow, Goes, SetCmd, Fault, Statuses, Hosts
  <2>2. LocalOK(row, step, cs, h)
      BY <1>1, <1>3 DEF PublishStopFails, LocalOK, Holds, Row, Statuses, Hosts
  <2>3. PlainChange(journal[r], driver[r], cmd[r], host[r], row, step, cs, h)
      BY <1>1, <1>3 DEF PublishStopFails, PlainChange, LocalOK, Holds, Row, Statuses, Hosts, Ends
  <2> QED BY <2>1, <2>2, <2>3, GoodBy
<1>4. ASSUME EnqueuePromoteFails(r) PROVE Good(r)
  <2> DEFINE row == [journal[r] EXCEPT !.state = "blocked"]
             step == "none"
             cs == [cmd[r] EXCEPT !.promote = "over"]
             h == host[r]
  <2>1. Becomes(r, row, step, cs, h)
      BY <1>1, <1>2, <1>4 DEF Becomes, EnqueuePromoteFails, SetRow, Goes, SetCmd, Fault, Statuses, Hosts
  <2>2. LocalOK(row, step, cs, h)
      BY <1>1, <1>4 DEF EnqueuePromoteFails, LocalOK, Holds, Row, Statuses, Hosts
  <2>3. PlainChange(journal[r], driver[r], cmd[r], host[r], row, step, cs, h)
      BY <1>1, <1>4 DEF EnqueuePromoteFails, PlainChange, LocalOK, Holds, Row, Statuses, Hosts, Ends
  <2> QED BY <2>1, <2>2, <2>3, GoodBy
<1>5. ASSUME FanOutFails(r) PROVE Good(r)
  <2> DEFINE row == Locked(r, Failed(journal[r]))
             step == "none"
             cs == cmd[r]
             h == host[r]
  <2>1. Becomes(r, row, step, cs, h)
      BY <1>1, <1>2, <1>5 DEF Becomes, FanOutFails, SetRow, Goes, SetCmd, Fault, Statuses, Hosts
  <2>2. LocalOK(row, step, cs, h)
      BY <1>1, <1>5 DEF FanOutFails, LocalOK, Holds, Row, Statuses, Hosts, Locked, Failed
  <2>3. PlainChange(journal[r], driver[r], cmd[r], host[r], row, step, cs, h)
      BY <1>1, <1>5 DEF FanOutFails, PlainChange, LocalOK, Holds, Row, Statuses, Hosts, Ends, Locked, Failed
  <2> QED BY <2>1, <2>2, <2>3, GoodBy
<1>6. ASSUME QueueRestartFails(r) PROVE Good(r)
  <2> DEFINE row == IF journal[r].attempts + 1 >= MaxAttempts THEN Failed(journal[r])
                    ELSE [journal[r] EXCEPT !.attempts = @ + 1]
             step == "none"
             cs == IF journal[r].attempts + 1 >= MaxAttempts THEN Cancelled(r) ELSE cmd[r]
             h == host[r]
  <2>1. Becomes(r, row, step, cs, h)
      BY <1>1, <1>2, <1>6 DEF Becomes, QueueRestartFails, SetRow, Goes, SetCmd, Fault, Statuses, Hosts
  <2>2. LocalOK(row, step, cs, h)
      BY <1>1, <1>6 DEF QueueRestartFails, LocalOK, Holds, Row, Statuses, Hosts, Failed, Cancelled
  <2>3. PlainChange(journal[r], driver[r], cmd[r], host[r], row, step, cs, h)
      BY <1>1, <1>6 DEF QueueRestartFails, PlainChange, LocalOK, Holds, Row, Statuses, Hosts, Ends, Failed, Cancelled
  <2> QED BY <2>1, <2>2, <2>3, GoodBy
<1>7. ASSUME DriverDies(r) PROVE Good(r)
  <2> DEFINE row == journal[r]
             step == "none"
             cs == cmd[r]
             h == host[r]
  <2>1. Becomes(r, row, step, cs, h)
      BY <1>1, <1>2, <1>7 DEF Becomes, DriverDies, SetRow, Goes, SetCmd, Fault, Statuses, Hosts
  <2>2. LocalOK(row, step, cs, h)
      BY <1>1, <1>7 DEF DriverDies, LocalOK, Holds, Row, Statuses, Hosts
  <2>3. PlainChange(journal[r], driver[r], cmd[r], host[r], row, step, cs, h)
      BY <1>1, <1>7 DEF DriverDies, PlainChange, LocalOK, Holds, Row, Statuses, Hosts, Ends
  <2> QED BY <2>1, <2>2, <2>3, GoodBy
<1>8. ASSUME NEW k \in {"drain", "stop", "promote"}, ConsumerDies(r, k) PROVE Good(r)
  <2> DEFINE row == journal[r]
             step == driver[r]
             cs == [cmd[r] EXCEPT ![k] = "orphan"]
             h == host[r]
  <2>1. Becomes(r, row, step, cs, h)
      BY <1>1, <1>2, <1>8 DEF Becomes, ConsumerDies, SetRow, Goes, SetCmd, Fault, Statuses, Hosts
  <2>2. LocalOK(row, step, cs, h)
      BY <1>1, <1>8 DEF ConsumerDies, LocalOK, Holds, Row, Statuses, Hosts
  <2>3. PlainChange(journal[r], driver[r], cmd[r], host[r], row, step, cs, h)
      BY <1>1, <1>8 DEF ConsumerDies, PlainChange, LocalOK, Holds, Row, Statuses, Hosts, Ends
  <2> QED BY <2>1, <2>2, <2>3, GoodBy
<1> QED BY <1>3, <1>4, <1>5, <1>6, <1>7, <1>8

\* What a settlement does to a row.
SettledTo(row, k, applied, next) ==
    /\ next.kind = row.kind /\ next.gtid = row.gtid /\ next.known = row.known
    /\ next.resumes = row.resumes /\ next.todo = row.todo
    /\ next.pending = row.pending \ {k} \/ next = row
    /\ next.stopped \in BOOLEAN
    /\ row.stopped => next.stopped
    /\ next.stopped => row.stopped \/ (applied /\ k = "stop")
    /\ row.state # "fencing" \/ k \notin row.pending => next = row
    /\ row.state = "fencing" => next.state \in {"fencing", "promoting", "blocked"}
    /\ row.pending \ {k} # {} => next.state = row.state
    /\ row.state = "fencing" /\ next.state = "promoting" =>
          next.stopped \/ next.kind = "switchover"

\* applyFenceSettlement decides the row's state only with its last pending step,
\* and confirms a stop only when the daemon did.
LEMMA SettlementMore ==
    ASSUME NEW row \in Row, NEW k \in FenceSteps, NEW applied \in BOOLEAN
    PROVE  SettledTo(row, k, applied, Settlement(row, k, applied))
<1> DEFINE next == Settlement(row, k, applied)
<1> SUFFICES SettledTo(row, k, applied, next)
    OBVIOUS
<1> QED BY DEF SettledTo, Settlement, Row, NextStateAfterFence, VerifyFenced,
               FenceSteps, RecoveryStates, Terminal

\* The settlement of a fence step is a plain step.
LEMMA SettleGood ==
    ASSUME IInv, Local, NEW r \in DOMAIN journal, NEW row \in Row,
           NEW k \in FenceSteps, NEW applied \in BOOLEAN, NEW queue \in BOOLEAN,
           NEW cs \in Statuses,
           row.state = journal[r].state, row.kind = journal[r].kind,
           row.known = journal[r].known, row.resumes = journal[r].resumes,
           row.todo = journal[r].todo, row.stopped = journal[r].stopped,
           row.pending = journal[r].pending,
           row.gtid => host[r].stop = "ok" /\ row.kind = "switchover",
           k = "stop" /\ applied => host[r].stop = "ok",
           k = "stop" => driver[r] \notin {"drain", "stop"},
           cs.promote = cmd[r].promote, cs.start = cmd[r].start,
           cs.stop = "none" <=> cmd[r].stop = "none",
           driver[r] \in {"drain", "stop"} => cs.stop = cmd[r].stop,
           cs.stop \in {cmd[r].stop, "over"},
           SettleFence(r, row, k, applied, queue),
           cmd' = [cmd EXCEPT ![r] = cs],
           UNCHANGED <<host, line, writers>>
    PROVE  Good(r)
<1>1. /\ r \in Rows /\ journal[r] \in Row /\ driver[r] \in DriverSteps
      /\ cmd[r] \in Statuses /\ host[r] \in Hosts
      /\ Holds(journal[r], driver[r], cmd[r])
      /\ LocalOK(journal[r], driver[r], cmd[r], host[r])
    BY WFacts
<1>2. /\ journal \in Seq(Row) /\ driver \in [Rows -> DriverSteps]
      /\ cmd \in [Rows -> Statuses] /\ host \in [Rows -> Hosts]
    BY DEF IInv, TypeOK, Statuses, Hosts
<1> DEFINE next == Settlement(row, k, applied)
           step == IF queue /\ next.state = "promoting" /\ row.state = "fencing"
                   THEN "follow" ELSE driver[r]
<1>3. Becomes(r, next, step, cs, host[r])
    BY <1>1, <1>2 DEF Becomes, SettleFence, SetRow, Goes
<1>4. SettledTo(row, k, applied, next)
    BY SettlementMore
<1> HIDE DEF next
<1> USE DEF SettledTo
<1> USE DEF Terminal, Live, Ended, Commands, FenceSteps
<1>5. LocalOK(next, step, cs, host[r])
  <2>1. CASE row.state = "fencing"
    <3>1. cmd[r].promote = "none" /\ row.state \notin Terminal
        BY <1>1, <2>1 DEF Holds
    <3>2. driver[r] \notin {"start", "follow", "resume", "enqueue", "note"}
          /\ cmd[r].start = "none" /\ ~row.todo
        BY <1>1, <2>1, <3>1 DEF Holds, LocalOK
    <3>3. driver[r] \in {"fence", "drain", "stop"} => next.state = "fencing"
        BY <1>1, <2>1, <1>4 DEF LocalOK
    <3>4. driver[r] # "abort"
        BY <1>1, <2>1, <3>1 DEF LocalOK
    <3>5. driver[r] \in {"drain", "stop"} => k = "drain" /\ "stop" \in next.pending
        BY <1>1, <1>4 DEF LocalOK
    <3>6. driver[r] = "fence" => next.pending = {}
        BY <1>1, <1>4 DEF LocalOK
    <3> QED BY <1>1, <1>4, <2>1, <3>1, <3>2, <3>3, <3>4, <3>5, <3>6 DEF LocalOK
  <2>2. CASE row.state # "fencing"
    <3>1. next = row /\ step = driver[r]
        BY <1>4, <2>2
    <3> QED BY <1>1, <3>1, <2>2 DEF LocalOK
  <2> QED BY <2>1, <2>2
<1>6. PlainChange(journal[r], driver[r], cmd[r], host[r], next, step, cs, host[r])
  <2>1. CASE row.state = "fencing"
      BY <1>1, <1>4, <2>1 DEF PlainChange, Holds, Ends
  <2>2. CASE row.state # "fencing"
      BY <1>1, <1>4, <2>2 DEF PlainChange, Ends
  <2> QED BY <2>1, <2>2
<1> QED BY <1>3, <1>5, <1>6, GoodBy

\* The row under settlement is the journal's, but for a position it learnt.
LikeRow(r, row) ==
    /\ row.state = journal[r].state /\ row.kind = journal[r].kind
    /\ row.known = journal[r].known /\ row.resumes = journal[r].resumes
    /\ row.todo = journal[r].todo /\ row.stopped = journal[r].stopped
    /\ row.pending = journal[r].pending
    /\ row.gtid => host[r].stop = "ok" /\ row.kind = "switchover"

\* A fence step that is over, answered or not, is settled by a plain step.
LEMMA SettleOver ==
    ASSUME IInv, Local, NEW r \in DOMAIN journal, NEW row \in Row,
           NEW k \in FenceSteps, NEW applied \in BOOLEAN, NEW queue \in BOOLEAN,
           LikeRow(r, row),
           k = "stop" /\ applied => host[r].stop = "ok",
           k = "stop" => driver[r] \notin {"drain", "stop"} /\ cmd[r].stop # "none",
           SettleFence(r, row, k, applied, queue), SetCmd(r, k, "over"),
           UNCHANGED <<host, line, writers>>
    PROVE  Good(r)
<1>1. r \in Rows /\ cmd[r] \in Statuses /\ cmd \in [Rows -> Statuses]
    BY WFacts DEF IInv, TypeOK, Statuses
<1> DEFINE cs == [cmd[r] EXCEPT ![k] = "over"]
<1>2. cmd' = [cmd EXCEPT ![r] = cs] /\ cs \in Statuses
    BY <1>1 DEF SetCmd, Statuses, Ended
<1>3. /\ cs.promote = cmd[r].promote /\ cs.start = cmd[r].start
      /\ cs.stop = "none" <=> cmd[r].stop = "none"
      /\ driver[r] \in {"drain", "stop"} => cs.stop = cmd[r].stop
      /\ cs.stop \in {cmd[r].stop, "over"}
    BY <1>1 DEF Statuses, FenceSteps, Commands
<1>4. k = "stop" => driver[r] \notin {"drain", "stop"}
    OBVIOUS
<1> HIDE DEF cs
<1> QED BY <1>2, <1>3, <1>4, SettleGood DEF LikeRow

\* The steps that settle a fence step are plain.
LEMMA PlainSettle ==
    ASSUME IInv, Local, NEW r \in DOMAIN journal
    PROVE  /\ \A ok \in BOOLEAN : DrainAnswers(r, ok) \/ StopAnswers(r, ok) => Good(r)
           /\ StopGivenUp(r) => Good(r)
           /\ \A k \in FenceSteps : StaleFenceStep(r, k) => Good(r)
           /\ AbandonDrains(r) => Good(r)
           /\ PublishDrainFails(r) => Good(r)
<1>1. /\ r \in Rows /\ journal[r] \in Row /\ driver[r] \in DriverSteps
      /\ cmd[r] \in Statuses /\ host[r] \in Hosts
      /\ Holds(journal[r], driver[r], cmd[r])
      /\ LocalOK(journal[r], driver[r], cmd[r], host[r])
    BY WFacts
<1>2. /\ journal \in Seq(Row) /\ driver \in [Rows -> DriverSteps]
      /\ cmd \in [Rows -> Statuses] /\ host \in [Rows -> Hosts]
    BY DEF IInv, TypeOK, Statuses, Hosts
<1> USE DEF Live, Ended, Commands, FenceSteps
<1>3. LikeRow(r, journal[r])
    BY <1>1 DEF LikeRow, LocalOK
<1>4. TRUE \in BOOLEAN /\ FALSE \in BOOLEAN /\ "drain" \in FenceSteps /\ "stop" \in FenceSteps
    OBVIOUS
<1>5. ASSUME NEW ok \in BOOLEAN, DrainAnswers(r, ok) PROVE Good(r)
  <2>1. /\ SettleFence(r, journal[r], "drain", ok, TRUE) /\ SetCmd(r, "drain", "over")
        /\ UNCHANGED <<host, line, writers>>
      BY <1>5 DEF DrainAnswers
  <2> QED BY <1>1, <1>3, <1>4, <2>1, SettleOver
<1>6. ASSUME NEW ok \in BOOLEAN, StopAnswers(r, ok) PROVE Good(r)
  <2> DEFINE done == host[r].stop = "ok"
             row == [journal[r] EXCEPT !.gtid = @ \/ (done /\ ok /\ InFlight(r))]
  <2>1. driver[r] \notin {"drain", "stop"} /\ cmd[r].stop # "none"
      BY <1>1, <1>6 DEF StopAnswers, LocalOK, Taken
  <2>2. row \in Row /\ done \in BOOLEAN
      BY <1>1 DEF Row, InFlight
  <2>3. LikeRow(r, row)
      BY <1>1, <1>6 DEF Row, StopAnswers, LikeRow, LocalOK
  <2>4. /\ SettleFence(r, row, "stop", done, TRUE) /\ SetCmd(r, "stop", "over")
        /\ UNCHANGED <<host, line, writers>>
      BY <1>6 DEF StopAnswers
  <2>5. done => host[r].stop = "ok"
      OBVIOUS
  <2> HIDE DEF row, done
  <2> QED BY <1>4, <2>1, <2>2, <2>3, <2>4, <2>5, SettleOver
<1>7. ASSUME StopGivenUp(r) PROVE Good(r)
  <2>1. driver[r] \notin {"drain", "stop"} /\ cmd[r].stop # "none"
      BY <1>1, <1>7 DEF StopGivenUp, LocalOK
  <2>2. /\ SettleFence(r, journal[r], "stop", FALSE, TRUE) /\ SetCmd(r, "stop", "over")
        /\ UNCHANGED <<host, line, writers>>
      BY <1>7 DEF StopGivenUp
  <2> QED BY <1>1, <1>3, <1>4, <2>1, <2>2, SettleOver
<1>8. ASSUME NEW k \in FenceSteps, StaleFenceStep(r, k) PROVE Good(r)
  <2>1. k = "stop" => driver[r] \notin {"drain", "stop"} /\ cmd[r].stop # "none"
      BY <1>1, <1>8 DEF StaleFenceStep, LocalOK
  <2>2. /\ SettleFence(r, journal[r], k, FALSE, FALSE) /\ SetCmd(r, k, "over")
        /\ UNCHANGED <<host, line, writers>>
      BY <1>8 DEF StaleFenceStep
  <2> QED BY <1>1, <1>3, <1>4, <2>1, <2>2, SettleOver
<1>9. ASSUME AbandonDrains(r) PROVE Good(r)
  <2>1. driver[r] \notin {"drain", "stop"} /\ cmd[r].stop # "none"
      BY <1>1, <1>9 DEF AbandonDrains, LocalOK
  <2>2. /\ Cancelled(r) \in Statuses /\ Cancelled(r).promote = cmd[r].promote
        /\ Cancelled(r).start = cmd[r].start
        /\ Cancelled(r).stop \in {cmd[r].stop, "over"}
      BY <1>1 DEF Cancelled, Statuses
  <2> QED BY <1>1, <1>3, <1>4, <1>9, <2>1, <2>2, SettleGood DEF AbandonDrains, LikeRow
<1>10. ASSUME PublishDrainFails(r) PROVE Good(r)
  <2> DEFINE row == Settlement(journal[r], "drain", FALSE)
  <2>1. Becomes(r, row, "stop", [cmd[r] EXCEPT !.drain = "over"], host[r])
      BY <1>1, <1>2, <1>10 DEF Becomes, PublishDrainFails, SetRow, Goes, SetCmd, Statuses
  <2>2. /\ row.kind = journal[r].kind /\ row.gtid = journal[r].gtid
        /\ row.known = journal[r].known /\ row.resumes = journal[r].resumes
        /\ row.todo = journal[r].todo /\ row.stopped = journal[r].stopped
        /\ row.pending = journal[r].pending \ {"drain"} \/ row = journal[r]
        /\ journal[r].pending \ {"drain"} # {} => row.state = journal[r].state
    <3>1. SettledTo(journal[r], "drain", FALSE, row) /\ journal[r].stopped \in BOOLEAN
        BY <1>1, SettlementMore DEF Row
    <3> HIDE DEF row
    <3> QED BY <3>1 DEF SettledTo
  <2>3. /\ journal[r].state = "fencing" /\ "stop" \in journal[r].pending
        /\ cmd[r].promote = "none"
      BY <1>1, <1>10 DEF PublishDrainFails, LocalOK, Holds
  <2>4. row.state = "fencing" /\ "stop" \in row.pending
      BY <2>2, <2>3
  <2> HIDE DEF row
  <2>5. LocalOK(row, "stop", [cmd[r] EXCEPT !.drain = "over"], host[r])
      BY <1>1, <1>10, <2>2, <2>3, <2>4 DEF LocalOK, PublishDrainFails, Statuses, Terminal
  <2>6. PlainChange(journal[r], driver[r], cmd[r], host[r],
                    row, "stop", [cmd[r] EXCEPT !.drain = "over"], host[r])
      BY <1>1, <2>2, <2>3, <2>4 DEF PlainChange, Ends, Statuses, Terminal
  <2> QED BY <2>1, <2>5, <2>6, GoodBy
<1> QED BY <1>5, <1>6, <1>7, <1>8, <1>9, <1>10


-----------------------------------------------------------------------------
\* The parts of Safe, step by step

\* A stop joins the line behind every start of an older recovery.
LEMMA KeepBefore ==
    ASSUME IInv, NEW r \in DOMAIN journal, LineKept(r), Before
    PROVE  Before'
<1>1. CASE line' = line
    BY <1>1 DEF Before
<1>2. CASE line' = Append(line, <<r, "stop">>)
  <2>1. /\ DOMAIN line = 1..Len(line) /\ Len(line) \in Nat
        /\ DOMAIN line' = DOMAIN line \cup {Len(line) + 1}
        /\ line'[Len(line) + 1] = <<r, "stop">>
        /\ \A i \in DOMAIN line : line'[i] = line[i]
    <3>1. line \in Seq(Rows \X {"stop", "start"})
        BY Shape
    <3> HIDE DEF Rows
    <3> QED BY <1>2, <3>1
  <2> SUFFICES ASSUME NEW i \in DOMAIN line', NEW j \in DOMAIN line',
                      line'[i][2] = "start", line'[j][2] = "stop", line'[i][1] < line'[j][1]
               PROVE  i < j
      BY DEF Before
  <2>2. i \in DOMAIN line
      BY <2>1
  <2>3. CASE j \in DOMAIN line
      BY <2>1, <2>2, <2>3 DEF Before
  <2>4. CASE j = Len(line) + 1
      BY <2>1, <2>2, <2>4
  <2> QED BY <2>1, <2>3, <2>4
<1> QED BY <1>1, <1>2 DEF LineKept

\* No start of an older recovery comes up again once a stop was sent.
LEMMA KeepTurn ==
    ASSUME IInv, NEW r \in DOMAIN journal, Frame(r), TurnKept(r), Turn
    PROVE  Turn'
<1> SUFFICES ASSUME NEW p \in DOMAIN journal, host'[p].stop # "none",
                    NEW q \in 1..(p - 1)
             PROVE  cmd'[q].start \in {"none", "over"}
    BY DEF Turn, Frame
<1>1. q \in DOMAIN journal /\ DOMAIN journal \subseteq Rows
    BY Under, Shape
<1>2. host[p].stop # "none"
    BY <1>1 DEF Frame, TurnKept
<1>3. cmd[q].start \in {"none", "over"}
    BY <1>2 DEF Turn
<1> QED BY <1>1, <1>3 DEF Frame, TurnKept

\* A stays quiet while no start is queued, sent or run.
LEMMA KeepQuiet ==
    ASSUME IInv, NEW r \in DOMAIN journal, Frame(r), QuietKept(r), Quiet
    PROVE  Quiet'
<1>1. DOMAIN journal \subseteq Rows
    BY Shape
<1>2. "A" \notin writers'
    BY DEF Quiet, QuietKept
<1>3. ASSUME NEW q \in DOMAIN journal PROVE StartDone(q)'
  <2>1. CASE q = r
      BY <2>1 DEF Quiet, QuietKept
  <2>2. CASE q # r
      BY <1>1, <2>2 DEF Quiet, Frame, StartDone
  <2> QED BY <2>1, <2>2
<1> QED BY <1>2, <1>3 DEF Quiet, Frame

\* A is quiet behind the stop of the newest recovery.
LEMMA KeepFenced ==
    ASSUME IInv, NEW r \in DOMAIN journal, Frame(r), QuietKept(r), FenceKept(r), FencedQuiet
    PROVE  FencedQuiet'
<1>1. DOMAIN journal \subseteq Rows
    BY Shape
<1> SUFFICES ASSUME NEW p \in DOMAIN journal, p = Last, host'[p].stop = "ok",
                    cmd'[p].start = "none"
             PROVE  Quiet'
    BY DEF FencedQuiet, Frame, Last
<1>2. host[p].stop = "ok" /\ cmd[p].start = "none"
    BY <1>1 DEF Frame, FenceKept
<1> QED BY <1>2, KeepQuiet DEF FencedQuiet

\* A promote that may run, and B, are met by a quiet A.
LEMMA KeepMain ==
    ASSUME IInv, NEW r \in DOMAIN journal, Frame(r),
           QuietKept(r), ArmedKept(r), DriverKept(r), Main
    PROVE  Main'
<1>1. DOMAIN journal \subseteq Rows /\ DOMAIN journal' = DOMAIN journal
    BY Shape DEF Frame
<1>2. ASSUME NEW q \in DOMAIN journal, Armed(q)' PROVE Armed(q)
  <2>1. CASE q = r
      BY <1>2, <2>1 DEF ArmedKept
  <2>2. CASE q # r
      BY <1>1, <1>2, <2>2 DEF Frame, Armed, InFlight
  <2> QED BY <2>1, <2>2
<1>3. ASSUME NEW q \in DOMAIN journal, driver'[q] \in {"abort", "start"}
      PROVE  driver[q] \in {"abort", "start"}
    BY <1>1, <1>3 DEF Frame, DriverKept
<1> SUFFICES ASSUME "B" \in writers' \/ \E q \in DOMAIN journal : Armed(q)'
             PROVE  Quiet' /\ \A q \in DOMAIN journal : driver'[q] \notin {"abort", "start"}
    BY <1>1 DEF Main
<1>4. "B" \in writers \/ \E q \in DOMAIN journal : Armed(q)
    BY <1>2 DEF ArmedKept
<1>5. Quiet /\ \A q \in DOMAIN journal : driver[q] \notin {"abort", "start"}
    BY <1>4 DEF Main
<1> QED BY <1>3, <1>5, KeepQuiet

\* What a step of row r has to show.
Keeps(r) == NewLocal(r) /\ Excuses(r) /\ Order' /\ (~Excused' => Safe')

\* A plain step keeps everything.
LEMMA PlainKeeps ==
    ASSUME WInv, NEW r \in DOMAIN journal, Frame(r), Good(r)
    PROVE  Keeps(r)
<1>1. /\ IInv /\ Order /\ (~Excused => Safe)
      /\ NewLocal(r) /\ Excuses(r) /\ Plain(r) /\ Calm(r)
    BY DEF WInv, Good, Plain
<1>2. Order'
    BY <1>1, CalmOrder
<1>3. ASSUME ~Excused' PROVE Safe'
  <2>1. Safe
      BY <1>1, <1>3, KeepExcused
  <2> QED BY <1>1, <2>1, KeepBefore, KeepTurn, KeepFenced, KeepMain DEF Safe, Plain
<1> QED BY <1>1, <1>2, <1>3 DEF Keeps

-----------------------------------------------------------------------------
\* Plain branches of steps that also have another one, and the fence of a recovery.
LEMMA PlainBranches ==
    ASSUME IInv, Local, NEW r \in DOMAIN journal
    PROVE  /\ FollowFence(r) /\ ~GtidMissing(journal[r]) => Good(r)
           /\ PromoteFails(r) /\ ~Reactivates(journal[r], host[r].promote) => Good(r)
           /\ CheckRestart(r) /\ RestartStale(r) => Good(r)
           /\ QueueRestart(r) /\ ~journal[r].react => Good(r)
           /\ AbortStart(r) /\ UNCHANGED <<cmd, line>> => Good(r)
<1>1. /\ r \in Rows /\ journal[r] \in Row /\ driver[r] \in DriverSteps
      /\ cmd[r] \in Statuses /\ host[r] \in Hosts
      /\ Holds(journal[r], driver[r], cmd[r])
      /\ LocalOK(journal[r], driver[r], cmd[r], host[r])
    BY WFacts
<1>2. /\ journal \in Seq(Row) /\ driver \in [Rows -> DriverSteps]
      /\ cmd \in [Rows -> Statuses] /\ host \in [Rows -> Hosts]
    BY DEF IInv, TypeOK, Statuses, Hosts
<1> USE DEF InFlight, Terminal, Live, Ended, Commands, FenceSteps
<1>3. ASSUME FollowFence(r), ~GtidMissing(journal[r]) PROVE Good(r)
  <2> DEFINE row == [journal[r] EXCEPT !.state = "promoting"]
  <2>1. Becomes(r, row, "enqueue", cmd[r], host[r])
      BY <1>1, <1>2, <1>3 DEF Becomes, FollowFence, SetRow, Goes
  <2>2. LocalOK(row, "enqueue", cmd[r], host[r])
      BY <1>1, <1>3 DEF FollowFence, GtidMissing, LocalOK, Holds, Row
  <2>3. PlainChange(journal[r], driver[r], cmd[r], host[r], row, "enqueue", cmd[r], host[r])
      BY <1>1, <1>3 DEF FollowFence, PlainChange, Holds, Row, Ends
  <2> QED BY <2>1, <2>2, <2>3, GoodBy
<1>4. ASSUME PromoteFails(r), ~Reactivates(journal[r], host[r].promote) PROVE Good(r)
  <2> DEFINE row == Locked(r, Failed(journal[r]))
             cs == [cmd[r] EXCEPT !.promote = "over"]
             h == [host[r] EXCEPT !.promote = "none"]
  <2>1. Becomes(r, row, driver[r], cs, h)
      BY <1>1, <1>2, <1>4 DEF Becomes, PromoteFails, Answers, SetRow, SetCmd, Statuses, Hosts
  <2>2. LocalOK(row, driver[r], cs, h)
      BY <1>1, <1>4 DEF PromoteFails, LocalOK, Holds, Row, Statuses, Hosts, Taken, Locked, Failed
  <2>3. PlainChange(journal[r], driver[r], cmd[r], host[r], row, driver[r], cs, h)
      BY <1>1, <1>4 DEF PromoteFails, PlainChange, LocalOK, Row, Statuses, Hosts, Ends, Taken, Locked, Failed
  <2> QED BY <2>1, <2>2, <2>3, GoodBy
<1>5. ASSUME CheckRestart(r), RestartStale(r) PROVE Good(r)
  <2> DEFINE row == [journal[r] EXCEPT !.todo = FALSE]
  <2>1. Becomes(r, row, driver[r], cmd[r], host[r])
      BY <1>1, <1>2, <1>5 DEF Becomes, CheckRestart, SetRow
  <2>2. LocalOK(row, driver[r], cmd[r], host[r])
      BY <1>1, <1>5 DEF CheckRestart, LocalOK, Row
  <2>3. PlainChange(journal[r], driver[r], cmd[r], host[r], row, driver[r], cmd[r], host[r])
      BY <1>1, <1>5 DEF PlainChange, Row, Ends
  <2> QED BY <2>1, <2>2, <2>3, GoodBy
<1>6. ASSUME QueueRestart(r), ~journal[r].react PROVE Good(r)
  <2> DEFINE row == [journal[r] EXCEPT !.todo = FALSE]
  <2>1. Becomes(r, row, "none", cmd[r], host[r])
      BY <1>1, <1>2, <1>6 DEF Becomes, QueueRestart, SetRow, Goes
  <2>2. LocalOK(row, "none", cmd[r], host[r])
      BY <1>1, <1>6 DEF QueueRestart, LocalOK, Row
  <2>3. PlainChange(journal[r], driver[r], cmd[r], host[r], row, "none", cmd[r], host[r])
      BY <1>1, <1>6 DEF PlainChange, Row, Ends
  <2> QED BY <2>1, <2>2, <2>3, GoodBy
<1>7. ASSUME AbortStart(r), UNCHANGED <<cmd, line>> PROVE Good(r)
  <2>1. Becomes(r, journal[r], "end", cmd[r], host[r])
      BY <1>1, <1>2, <1>7 DEF Becomes, AbortStart, Goes
  <2>2. LocalOK(journal[r], "end", cmd[r], host[r])
      BY <1>1, <1>7 DEF AbortStart, LocalOK
  <2>3. PlainChange(journal[r], driver[r], cmd[r], host[r], journal[r], "end", cmd[r], host[r])
      BY <1>1, <1>7 DEF PlainChange, Ends
  <2> QED BY <2>1, <2>2, <2>3, GoodBy
<1> QED BY <1>3, <1>4, <1>5, <1>6, <1>7

\* recordFenceCommands creates the stop of a recovery when no sweep is about to
\* queue a start.
LEMMA PlainRecord ==
    ASSUME ~SweepStalls, IInv, Local, NEW r \in DOMAIN journal, RecordFence(r)
    PROVE  Good(r)
<1>1. /\ r \in Rows /\ journal[r] \in Row /\ cmd[r] \in Statuses /\ host[r] \in Hosts
      /\ Holds(journal[r], driver[r], cmd[r])
      /\ LocalOK(journal[r], driver[r], cmd[r], host[r])
    BY WFacts
<1>2. /\ journal \in Seq(Row) /\ driver \in [Rows -> DriverSteps]
      /\ cmd \in [Rows -> Statuses] /\ host \in [Rows -> Hosts]
    BY DEF IInv, TypeOK, Statuses, Hosts
<1> USE DEF InFlight, Terminal, Live, Ended, Commands, FenceSteps
<1> DEFINE row == [journal[r] EXCEPT !.pending = FenceSteps, !.drained = FALSE,
                                     !.stopped = FALSE]
           cs == [cmd[r] EXCEPT !.drain = "prepared", !.stop = "prepared"]
<1>3. /\ driver[r] = "fence" /\ journal[r].state = "fencing"
      /\ cmd[r].stop = "none" /\ cmd[r].promote = "none"
    BY <1>1 DEF RecordFence, LocalOK, Holds
<1>4. /\ journal'[r] = row /\ driver'[r] = "drain" /\ cmd'[r] = cs /\ host'[r] = host[r]
      /\ line' = Append(line, <<r, "stop">>) /\ writers' = writers
    BY <1>1, <1>2, <1>3 DEF RecordFence, SetRow, Goes
<1>5. cs.stop = "prepared" /\ cs.start = cmd[r].start /\ cs.promote = cmd[r].promote
    BY <1>1 DEF Statuses
<1>6. NewLocal(r)
    BY <1>1, <1>3, <1>4, <1>5 DEF NewLocal, LocalOK, Row
<1>7. Calm(r)
  <2>1. \A q \in Rows : driver[q] # "start"
      BY DEF RecordFence
  <2>2. Harmless(journal'[r], cmd'[r], host'[r]) => Harmless(journal[r], cmd[r], host[r])
      BY <1>3 DEF Harmless
  <2>3. Ends(journal[r], journal'[r]) /\ journal'[r].kind = journal[r].kind
      BY <1>1, <1>3, <1>4 DEF Ends, Row
  <2>4. ASSUME NEW k \in {"stop", "start"}
        PROVE  /\ cmd[r][k] # "none" => cmd'[r][k] # "none"
               /\ cmd'[r][k] # "none" => cmd[r][k] # "none" \/ line' = Append(line, <<r, k>>)
    <3>1. CASE k = "stop"
        BY <1>4, <1>5, <3>1
    <3>2. CASE k = "start"
        BY <1>4, <1>5, <3>2
    <3> QED BY <3>1, <3>2
  <2>5. \E k \in {"stop", "start"} : line' = Append(line, <<r, k>>) /\ cmd'[r][k] # "none"
      BY <1>4, <1>5
  <2> HIDE DEF row, cs
  <2> QED BY <1>4, <2>1, <2>2, <2>3, <2>4, <2>5 DEF Calm
<1>8. Plain(r)
    BY <1>1, <1>3, <1>4, <1>5, <1>7 DEF Plain, LineKept, TurnKept, QuietKept, FenceKept,
       ArmedKept, DriverKept, StartDone, Armed
<1>9. Excuses(r)
    BY <1>3 DEF Excuses, Unproven, Unnoted
<1> QED BY <1>6, <1>8, <1>9 DEF Good

-----------------------------------------------------------------------------
\* The daemons' side

\* The start of A answers, a start or a promote is sent, B's daemon works on a
\* promote: no start is on its way when a promote may run, and the other way round.
LEMMA PlainDaemon ==
    ASSUME ~CheckMayFail, IInv, Local, Order, NEW r \in DOMAIN journal
    PROVE  /\ StartEnds(r) => Good(r)
           /\ Send(r, "start") => Good(r)
           /\ Send(r, "promote") => Good(r)
           /\ PromoteStarts(r) => Good(r)
           /\ \A outcome \in Codes \cup {"ok"} : PromoteEnds(r, outcome) => Good(r)
<1>1. /\ r \in Rows /\ journal[r] \in Row /\ driver[r] \in DriverSteps
      /\ cmd[r] \in Statuses /\ host[r] \in Hosts
      /\ LocalOK(journal[r], driver[r], cmd[r], host[r])
    BY WFacts
<1>2. /\ journal \in Seq(Row) /\ driver \in [Rows -> DriverSteps]
      /\ cmd \in [Rows -> Statuses] /\ host \in [Rows -> Hosts]
    BY DEF IInv, TypeOK, Statuses, Hosts
<1> USE DEF InFlight, Terminal, Live, Ended, Commands, FenceSteps
<1> DEFINE Sets(cs, h) == /\ journal'[r] = journal[r] /\ driver'[r] = driver[r]
                          /\ cmd'[r] = cs /\ host'[r] = h /\ line' = line
<1>3. ASSUME NEW cs, NEW h, Sets(cs, h), LocalOK(journal[r], driver[r], cs, h),
             cs.stop = cmd[r].stop, h.stop = host[r].stop,
             cs.promote = "none" <=> cmd[r].promote = "none",
             \/ cs.start = cmd[r].start /\ h.start = host[r].start
             \/ cmd[r].start # "none" /\ cs.start = "over" /\ h.start = host[r].start
             \/ cmd[r].start = "queued" /\ cs.start = "sent",
             "A" \in writers' <=> "A" \in writers,
             "B" \in writers => "B" \in writers',
             h.promote = "started" => host[r].promote = "started" \/ "B" \in writers',
             h.promote \in {"held", "started"} =>
                 host[r].promote \in {"held", "started"} \/ r = Last,
             "B" \in writers' => "B" \in writers \/ host[r].promote = "held",
             h.promote \in {"held", "started"} => Armed(r),
             InFlight(r) /\ cs.promote \in Live => Armed(r),
             Harmless(journal[r], cs, h) =>
                 \/ Harmless(journal[r], cmd[r], host[r]) /\ ("B" \in writers' => "B" \in writers)
                 \/ "B" \notin writers'
      PROVE  Good(r)
  <2>1. NewLocal(r)
      BY <1>3 DEF NewLocal
  <2>2. Calm(r)
    <3>1. ASSUME NEW k \in {"stop", "start"}
          PROVE  cmd[r][k] # "none" <=> cmd'[r][k] # "none"
      <4>1. CASE k = "stop"
          BY <1>3, <4>1
      <4>2. CASE k = "start"
          BY <1>3, <4>2
      <4> QED BY <4>1, <4>2
    <3> QED BY <1>3, <3>1 DEF Calm, Ends
  <2>3. /\ LineKept(r) /\ TurnKept(r) /\ QuietKept(r) /\ FenceKept(r) /\ DriverKept(r)
      BY <1>3 DEF LineKept, TurnKept, QuietKept, FenceKept, DriverKept, StartDone
  <2>4. ArmedKept(r)
      BY <1>3 DEF ArmedKept, Armed
  <2>5. Excuses(r)
      BY <1>3 DEF Excuses, Unproven, Unnoted
  <2> QED BY <2>1, <2>2, <2>3, <2>4, <2>5 DEF Good, Plain
<1>4. ASSUME StartEnds(r) PROVE Good(r)
  <2> DEFINE cs == [cmd[r] EXCEPT !.start = "over"]
  <2>1. /\ Sets(cs, host[r]) /\ writers' = writers /\ cmd[r].start # "none"
        /\ cs.stop = cmd[r].stop /\ cs.promote = cmd[r].promote /\ cs.start = "over"
      BY <1>1, <1>2, <1>4 DEF StartEnds, SetCmd, Statuses, Taken
  <2>2. LocalOK(journal[r], driver[r], cs, host[r])
      BY <1>1, <2>1 DEF LocalOK
  <2> HIDE DEF cs
  <2> QED BY <1>3, <2>1, <2>2 DEF Armed, Harmless
<1>5. ASSUME NEW k \in {"start", "promote"}, Send(r, k)
      PROVE  /\ Sets([cmd[r] EXCEPT ![k] = "sent"], [host[r] EXCEPT ![k] = "held"])
             /\ writers' = writers /\ cmd[r][k] = "queued"
    BY <1>1, <1>2, <1>5 DEF Send, SetCmd, Statuses, Hosts
<1>6. ASSUME Send(r, "start") PROVE Good(r)
  <2> DEFINE cs == [cmd[r] EXCEPT !.start = "sent"]
             h == [host[r] EXCEPT !.start = "held"]
  <2>1. /\ Sets(cs, h) /\ writers' = writers /\ cmd[r].start = "queued"
      BY <1>5, <1>6
  <2>2. /\ cs.stop = cmd[r].stop /\ cs.promote = cmd[r].promote /\ cs.start = "sent"
        /\ h.stop = host[r].stop /\ h.promote = host[r].promote
      BY <1>1 DEF Statuses, Hosts
  <2>3. LocalOK(journal[r], driver[r], cs, h)
      BY <1>1, <2>1, <2>2 DEF LocalOK
  <2> HIDE DEF cs, h
  <2> QED BY <1>3, <2>1, <2>2, <2>3 DEF Armed, Harmless
<1>7. ASSUME Send(r, "promote") PROVE Good(r)
  <2> DEFINE cs == [cmd[r] EXCEPT !.promote = "sent"]
             h == [host[r] EXCEPT !.promote = "held"]
  <2>1. /\ Sets(cs, h) /\ writers' = writers /\ cmd[r].promote = "queued" /\ InFlight(r)
      BY <1>5, <1>7 DEF Send
  <2>2. /\ cs.stop = cmd[r].stop /\ cs.promote = "sent" /\ cs.start = cmd[r].start
        /\ h.stop = host[r].stop /\ h.promote = "held" /\ h.start = host[r].start
      BY <1>1 DEF Statuses, Hosts
  <2>3. r = Last /\ Armed(r)
      BY <2>1 DEF Order, OnlyLast, Armed
  <2>4. LocalOK(journal[r], driver[r], cs, h)
      BY <1>1, <2>1, <2>2 DEF LocalOK
  <2>5. Harmless(journal[r], cs, h) => Harmless(journal[r], cmd[r], host[r])
      BY <2>1, <2>2 DEF Harmless
  <2> HIDE DEF cs, h
  <2> QED BY <1>3, <2>1, <2>2, <2>3, <2>4, <2>5
<1>8. ASSUME PromoteStarts(r) PROVE Good(r)
  <2> DEFINE h == [host[r] EXCEPT !.promote = "started"]
  <2>1. /\ Sets(cmd[r], h) /\ writers' = writers \cup {"B"} /\ host[r].promote = "held"
      BY <1>1, <1>2, <1>8 DEF PromoteStarts, Hosts
  <2>2. h.stop = host[r].stop /\ h.promote = "started" /\ h.start = host[r].start
      BY <1>1 DEF Hosts
  <2>3. LocalOK(journal[r], driver[r], cmd[r], h) /\ cmd[r].promote \notin {"none", "queued"}
      BY <1>1, <2>1, <2>2 DEF LocalOK
  <2>4. ~Harmless(journal[r], cmd[r], h) /\ Armed(r)
      BY <2>1, <2>2, <2>3 DEF Harmless, Armed
  <2> HIDE DEF h
  <2> QED BY <1>3, <2>1, <2>2, <2>3, <2>4
<1>9. ASSUME NEW outcome \in Codes \cup {"ok"}, PromoteEnds(r, outcome) PROVE Good(r)
  <2> DEFINE h == [host[r] EXCEPT !.promote = outcome]
  <2>1. /\ Sets(cmd[r], h) /\ writers' = writers
        /\ host[r].promote \in {"held", "started"}
        /\ outcome \in {"gtid_wait", "target_not_running", "interrupted", "ok",
                        "promote_started"}
        /\ outcome = "gtid_wait" => "B" \notin writers
        /\ outcome = "target_not_running" => host[r].promote = "held"
      BY <1>1, <1>2, <1>9 DEF PromoteEnds, Hosts
  <2>2. h.stop = host[r].stop /\ h.promote = outcome /\ h.start = host[r].start
      BY <1>1 DEF Hosts
  <2>3. LocalOK(journal[r], driver[r], cmd[r], h) /\ cmd[r].promote \notin {"none", "queued"}
      BY <1>1, <2>1, <2>2 DEF LocalOK
  <2>4. /\ Harmless(journal[r], cmd[r], h) =>
               Harmless(journal[r], cmd[r], host[r]) \/ "B" \notin writers
        /\ Armed(r)
      BY <2>1, <2>2, <2>3 DEF Harmless, Armed
  <2> HIDE DEF h
  <2> QED BY <1>3, <2>1, <2>2, <2>3, <2>4
<1> QED BY <1>4, <1>6, <1>7, <1>8, <1>9

\* A stop is sent when every start before it in the line has ended: a start of an
\* older recovery is before it.
LEMMA SendStopKeeps ==
    ASSUME WInv, NEW r \in DOMAIN journal, Frame(r), Send(r, "stop")
    PROVE  Keeps(r)
<1>1. /\ IInv /\ Local /\ Order /\ (~Excused => Safe)
      /\ r \in Rows /\ journal[r] \in Row
      /\ cmd[r] \in Statuses /\ host[r] \in Hosts
      /\ LocalOK(journal[r], driver[r], cmd[r], host[r])
    BY WFacts DEF WInv
<1>2. cmd \in [Rows -> Statuses] /\ host \in [Rows -> Hosts]
    BY <1>1 DEF IInv, TypeOK, Statuses, Hosts
<1> USE DEF Terminal, Live, Ended, Commands, FenceSteps
<1> DEFINE cs == [cmd[r] EXCEPT !.stop = "sent"]
           h == [host[r] EXCEPT !.stop = "held"]
<1>3. /\ journal' = journal /\ driver' = driver /\ line' = line /\ writers' = writers
      /\ cmd'[r] = cs /\ host'[r] = h /\ cmd[r].stop = "queued"
    BY <1>1, <1>2 DEF Send, SetCmd, Statuses, Hosts
<1>4. /\ cs.stop = "sent" /\ cs.promote = cmd[r].promote /\ cs.start = cmd[r].start
      /\ h.stop = "held" /\ h.promote = host[r].promote /\ h.start = host[r].start
    BY <1>1 DEF Statuses, Hosts
<1> HIDE DEF cs, h
<1>5. host[r].stop = "none" /\ NewLocal(r)
    BY <1>1, <1>3, <1>4 DEF NewLocal, LocalOK
<1>6. Calm(r)
  <2>1. ASSUME NEW k \in {"stop", "start"}
        PROVE  cmd[r][k] # "none" <=> cmd'[r][k] # "none"
    <3>1. CASE k = "stop"
        BY <1>3, <1>4, <3>1
    <3>2. CASE k = "start"
        BY <1>3, <1>4, <3>2
    <3> QED BY <3>1, <3>2
  <2> QED BY <1>3, <1>4, <2>1 DEF Calm, Ends, Harmless
<1>7. /\ LineKept(r) /\ QuietKept(r) /\ FenceKept(r) /\ DriverKept(r) /\ ArmedKept(r)
    BY <1>3, <1>4 DEF LineKept, QuietKept, FenceKept, DriverKept, ArmedKept, StartDone,
       Armed, InFlight
<1>8. Excuses(r)
    BY <1>3, <1>4 DEF Excuses, Unproven, Unnoted, InFlight
<1>9. ASSUME Safe PROVE Turn'
  <2> SUFFICES ASSUME NEW p \in DOMAIN journal, host'[p].stop # "none",
                      NEW q \in 1..(p - 1)
               PROVE  cmd'[q].start \in {"none", "over"}
      BY DEF Turn, Frame
  <2>1. q \in DOMAIN journal /\ q < p /\ DOMAIN journal \subseteq Rows
      BY <1>1, Under, Shape
  <2>2. cmd'[q].start = cmd[q].start
      BY <1>3, <1>4, <2>1 DEF Frame
  <2>3. CASE p # r
    <3>1. host[p].stop # "none"
        BY <2>1, <2>3 DEF Frame
    <3> QED BY <1>9, <2>2, <3>1 DEF Safe, Turn
  <2>4. CASE p = r
    <3>1. PICK j \in DOMAIN line : line[j] = <<r, "stop">>
        BY <1>1, <1>3 DEF Order, InLine
    <3>2. TurnFree(j)
        BY <3>1 DEF Send
    <3>3. ASSUME cmd[q].start # "none" PROVE cmd[q].start \notin {"queued", "sent"}
      <4>1. PICK i \in DOMAIN line : line[i] = <<q, "start">>
          BY <1>1, <2>1, <3>3 DEF Order, InLine
      <4>2. i < j
        <5>1. line[i][2] = "start" /\ line[j][2] = "stop" /\ line[i][1] < line[j][1]
            BY <2>1, <2>4, <3>1, <4>1
        <5> QED BY <1>9, <5>1 DEF Safe, Before
      <4>3. i \in 1..(j - 1)
          BY <1>1, <4>2, Shape
      <4> QED BY <3>2, <4>1, <4>3 DEF TurnFree
    <3>4. LocalOK(journal[q], driver[q], cmd[q], host[q])
        BY <1>1, <2>1, WFacts
    <3> QED BY <2>2, <3>3, <3>4 DEF LocalOK
  <2> QED BY <2>3, <2>4
<1>10. ASSUME ~Excused' PROVE Safe'
  <2>1. Safe
      BY <1>1, <1>8, <1>10, KeepExcused
  <2> QED BY <1>1, <1>7, <1>9, <2>1, KeepBefore, KeepFenced, KeepMain DEF Safe
<1>11. Order'
    BY <1>1, <1>6, CalmOrder
<1> QED BY <1>5, <1>8, <1>10, <1>11 DEF Keeps

-----------------------------------------------------------------------------
\* Planning a start, queueing a promote, queueing a start

\* Behind a newest switchover whose promote cannot have run, nothing is armed.
LEMMA NobodyArmed ==
    ASSUME IInv, Order, NEW r \in DOMAIN journal, r = Last,
           journal[r].kind = "switchover", Harmless(journal[r], cmd[r], host[r])
    PROVE  "B" \notin writers /\ \A q \in DOMAIN journal : q # r => ~Armed(q)
<1>1. "B" \notin writers
    BY DEF Order, NotYet
<1>2. ASSUME NEW q \in DOMAIN journal, q # r PROVE ~Armed(q)
  <2>1. DOMAIN journal = 1..Len(journal) /\ Len(journal) \in Nat
      BY Shape
  <2>2. q \in 1..(r - 1)
      BY <1>2, <2>1 DEF Last
  <2>3. host[q].promote \notin {"held", "started"} /\ ~InFlight(q)
      BY <1>2, <2>2 DEF Order, EarlierDead, OnlyLast
  <2> QED BY <2>3 DEF Armed
<1> QED BY <1>1, <1>2

\* A process of the newest switchover plans a start while its promote cannot run.
LEMMA PlanSafe ==
    ASSUME IInv, Order, Safe, NEW r \in DOMAIN journal, Frame(r), writers' = writers,
           LineKept(r), TurnKept(r), QuietKept(r), FenceKept(r),
           r = Last, journal[r].kind = "switchover",
           Harmless(journal[r], cmd[r], host[r]), ~Armed(r)'
    PROVE  Safe'
<1>1. "B" \notin writers /\ \A q \in DOMAIN journal : q # r => ~Armed(q)
    BY NobodyArmed
<1>2. DOMAIN journal \subseteq Rows /\ DOMAIN journal' = DOMAIN journal
    BY Shape DEF Frame
<1>3. ASSUME NEW q \in DOMAIN journal PROVE ~Armed(q)'
  <2>1. CASE q = r
      BY <2>1
  <2>2. CASE q # r
      BY <1>1, <1>2, <2>2 DEF Frame, Armed, InFlight
  <2> QED BY <2>1, <2>2
<1>4. Main'
    BY <1>1, <1>2, <1>3 DEF Main
<1> QED BY <1>4, KeepBefore, KeepTurn, KeepFenced DEF Safe

\* abortSwitchoverWhenGtidMissing: the promote was never queued.
LEMMA FollowKeeps ==
    ASSUME WInv, NEW r \in DOMAIN journal, Frame(r), FollowFence(r)
    PROVE  Keeps(r)
<1>1. /\ IInv /\ Local /\ Order /\ (~Excused => Safe)
      /\ r \in Rows /\ driver \in [Rows -> DriverSteps]
      /\ Holds(journal[r], driver[r], cmd[r])
      /\ LocalOK(journal[r], driver[r], cmd[r], host[r])
    BY WFacts DEF WInv, IInv, TypeOK
<1>2. CASE ~GtidMissing(journal[r])
    BY <1>1, <1>2, PlainBranches, PlainKeeps
<1>3. CASE GtidMissing(journal[r])
  <2> USE DEF Terminal, Live
  <2>1. /\ journal' = journal /\ cmd' = cmd /\ host' = host /\ line' = line
        /\ writers' = writers /\ driver[r] = "follow" /\ driver'[r] = "abort"
        /\ journal[r].kind = "switchover"
      BY <1>1, <1>3 DEF FollowFence, Goes, GtidMissing
  <2>2. /\ journal[r].state = "promoting" /\ cmd[r].promote = "none"
        /\ host[r].promote = "none" /\ cmd[r].start = "none"
      BY <1>1, <2>1 DEF Holds, LocalOK
  <2>3. r = Last /\ Harmless(journal[r], cmd[r], host[r])
      BY <1>1, <2>2 DEF Order, OnlyLast, InFlight, Harmless
  <2>4. NewLocal(r) /\ Excuses(r)
      BY <1>1, <2>1, <2>2 DEF NewLocal, LocalOK, Excuses, Unproven, Unnoted, InFlight
  <2>5. /\ Calm(r) /\ LineKept(r) /\ TurnKept(r) /\ QuietKept(r) /\ FenceKept(r)
        /\ ~Armed(r)'
      BY <2>1, <2>2 DEF Calm, LineKept, TurnKept, QuietKept, FenceKept, StartDone, Armed, Ends
  <2>6. Order'
      BY <1>1, <2>5, CalmOrder
  <2>7. ASSUME ~Excused' PROVE Safe'
      BY <1>1, <2>1, <2>3, <2>4, <2>5, <2>7, KeepExcused, PlanSafe
  <2> QED BY <2>4, <2>6, <2>7 DEF Keeps
<1> QED BY <1>2, <1>3

\* switchoverPromoteFailureShouldReactivateOldPrimary: the promote did not start,
\* or its target has not caught up, and the recovery is still in flight.
LEMMA PromoteFailsKeeps ==
    ASSUME WInv, NEW r \in DOMAIN journal, Frame(r), PromoteFails(r)
    PROVE  Keeps(r)
<1>1. /\ IInv /\ Local /\ Order /\ (~Excused => Safe)
      /\ r \in Rows /\ journal[r] \in Row /\ driver \in [Rows -> DriverSteps]
      /\ cmd[r] \in Statuses /\ host[r] \in Hosts
      /\ cmd \in [Rows -> Statuses] /\ host \in [Rows -> Hosts]
      /\ LocalOK(journal[r], driver[r], cmd[r], host[r])
    BY WFacts DEF WInv, IInv, TypeOK, Statuses, Hosts
<1>2. CASE ~Reactivates(journal[r], host[r].promote)
    BY <1>1, <1>2, PlainBranches, PlainKeeps
<1>3. CASE Reactivates(journal[r], host[r].promote)
  <2> USE DEF Terminal, Live, Taken, Ended, Commands, FenceSteps
  <2> DEFINE cs == [cmd[r] EXCEPT !.promote = "over"]
             h == [host[r] EXCEPT !.promote = "none"]
  <2>1. /\ journal' = journal /\ line' = line /\ writers' = writers
        /\ driver[r] # "note" /\ driver'[r] = "abort" /\ cmd[r].promote \in Taken
        /\ cmd'[r] = cs /\ host'[r] = h
      BY <1>1, <1>3 DEF PromoteFails, Goes, Answers, SetCmd, Statuses, Hosts
  <2>2. /\ cs.promote = "over" /\ cs.stop = cmd[r].stop /\ cs.start = cmd[r].start
        /\ h.promote = "none" /\ h.stop = host[r].stop /\ h.start = host[r].start
      BY <1>1 DEF Statuses, Hosts
  <2> HIDE DEF cs, h
  <2>3. /\ journal[r].kind = "switchover" /\ cmd[r].start = "none"
        /\ Harmless(journal[r], cmd[r], host[r])
        /\ \/ journal[r].state = "promoting"
           \/ journal[r].state \in Terminal /\ ~journal[r].known
    <3>1. journal[r].state \in RecoveryStates
        BY <1>1 DEF Row
    <3> QED BY <1>1, <1>3, <2>1, <3>1 DEF Reactivates, Harmless, LocalOK, RecoveryStates
  <2>4. NewLocal(r)
      BY <1>1, <2>1, <2>2, <2>3 DEF NewLocal, LocalOK
  <2>5. Excuses(r)
      BY <2>1, <2>2 DEF Excuses, Unproven, Unnoted, InFlight
  <2>6. /\ Calm(r) /\ LineKept(r) /\ TurnKept(r) /\ QuietKept(r) /\ FenceKept(r)
        /\ ~Armed(r)'
    <3>1. ASSUME NEW k \in {"stop", "start"} PROVE cmd'[r][k] = cmd[r][k]
      <4>1. CASE k = "stop"
          BY <2>1, <2>2, <4>1
      <4>2. CASE k = "start"
          BY <2>1, <2>2, <4>2
      <4> QED BY <4>1, <4>2
    <3>2. Calm(r)
        BY <2>1, <2>2, <2>3, <3>1 DEF Calm, Ends
    <3> QED BY <2>1, <2>2, <3>2 DEF LineKept, TurnKept, QuietKept, FenceKept, StartDone, Armed
  <2>7. Order'
      BY <1>1, <2>6, CalmOrder
  <2>8. ASSUME ~Excused' PROVE Safe'
    <3>1. Safe
        BY <1>1, <2>5, <2>8, KeepExcused
    <3>2. ~Unnoted(r)'
        BY <2>8 DEF Excused, Frame
    <3>3. journal[r].state = "promoting"
        BY <2>1, <2>2, <2>3, <3>2 DEF Unnoted, InFlight
    <3>4. r = Last
        BY <1>1, <3>3 DEF Order, OnlyLast, InFlight
    <3> QED BY <1>1, <2>1, <2>3, <2>6, <3>1, <3>4, PlanSafe
  <2> QED BY <2>4, <2>5, <2>7, <2>8 DEF Keeps
<1> QED BY <1>2, <1>3

\* abortRestartStaleReason: the sweep plans a start for the newest recovery only.
LEMMA CheckKeeps ==
    ASSUME WInv, NEW r \in DOMAIN journal, Frame(r), CheckRestart(r)
    PROVE  Keeps(r)
<1>1. /\ IInv /\ Local /\ Order /\ (~Excused => Safe)
      /\ r \in Rows /\ driver \in [Rows -> DriverSteps]
      /\ LocalOK(journal[r], driver[r], cmd[r], host[r])
    BY WFacts DEF WInv, IInv, TypeOK
<1>2. CASE RestartStale(r)
    BY <1>1, <1>2, PlainBranches, PlainKeeps
<1>3. CASE ~RestartStale(r)
  <2> USE DEF Terminal, Live
  <2>1. /\ journal' = journal /\ cmd' = cmd /\ host' = host /\ line' = line
        /\ writers' = writers /\ driver[r] = "none" /\ driver'[r] = "start"
        /\ journal[r].state = "blocked" /\ journal[r].todo
      BY <1>1, <1>3 DEF CheckRestart, Goes, Owed
  <2>2. /\ journal[r].kind = "switchover" /\ cmd[r].promote = "none"
        /\ host[r].promote = "none"
      BY <1>1, <2>1 DEF LocalOK
  <2>3. r = Last /\ Harmless(journal[r], cmd[r], host[r])
    <3>1. DOMAIN journal = 1..Len(journal) /\ Len(journal) \in Nat
        BY <1>1, Shape
    <3>2. r = Last
        BY <1>3, <3>1 DEF RestartStale, Last
    <3> QED BY <2>2, <3>2 DEF Harmless
  <2>4. Excuses(r)
      BY <2>1 DEF Excuses, Unproven, Unnoted, InFlight
  <2>5. /\ Calm(r) /\ LineKept(r) /\ TurnKept(r) /\ QuietKept(r) /\ FenceKept(r)
        /\ ~Armed(r)'
      BY <2>1, <2>2, <2>3 DEF Calm, LineKept, TurnKept, QuietKept, FenceKept, StartDone,
         Armed, Ends
  <2>6. Order'
      BY <1>1, <2>5, CalmOrder
  <2>7. ASSUME ~Excused' PROVE Safe'
      BY <1>1, <2>1, <2>2, <2>3, <2>4, <2>5, <2>7, KeepExcused, PlanSafe
  <2>8. NewLocal(r)
      BY <1>1, <2>1, <2>2 DEF NewLocal, LocalOK
  <2> QED BY <2>4, <2>6, <2>7, <2>8 DEF Keeps
<1> QED BY <1>2, <1>3

\* enqueuePromoteOrRecover: the stop of the newest recovery ran, or the promote is
\* an unproven one.
LEMMA EnqueueKeeps ==
    ASSUME WInv, NEW r \in DOMAIN journal, Frame(r), EnqueuePromote(r)
    PROVE  Keeps(r)
<1>1. /\ IInv /\ Local /\ Order /\ (~Excused => Safe)
      /\ r \in Rows /\ driver \in [Rows -> DriverSteps]
      /\ cmd[r] \in Statuses /\ cmd \in [Rows -> Statuses]
      /\ Holds(journal[r], driver[r], cmd[r])
      /\ LocalOK(journal[r], driver[r], cmd[r], host[r])
    BY WFacts DEF WInv, IInv, TypeOK, Statuses
<1> USE DEF Terminal, Live, Ended, Commands, FenceSteps
<1> DEFINE cs == [cmd[r] EXCEPT !.promote = "queued"]
<1>2. /\ journal' = journal /\ host' = host /\ line' = line /\ writers' = writers
      /\ driver[r] = "enqueue" /\ driver'[r] = "note" /\ cmd'[r] = cs
    BY <1>1 DEF EnqueuePromote, Goes, SetCmd, Statuses
<1>3. cs.promote = "queued" /\ cs.stop = cmd[r].stop /\ cs.start = cmd[r].start
    BY <1>1 DEF Statuses
<1> HIDE DEF cs
<1>4. /\ journal[r].state = "promoting" /\ cmd[r].start = "none"
      /\ host[r].stop = "ok" \/ (journal[r].kind = "switchover" /\ ~Proof /\ ~journal[r].stopped)
      /\ journal[r].resumes = 0 => cmd[r].promote = "none"
      /\ cmd[r].promote \in {"none", "over"}
    BY <1>1, <1>2 DEF Holds, LocalOK
<1>5. r = Last /\ InFlight(r)
    BY <1>1, <1>4 DEF Order, OnlyLast, InFlight
<1>6. Excuses(r)
    BY <1>2, <1>3, <1>4 DEF Excuses, Unproven, Unnoted, InFlight
<1>7. Calm(r)
  <2>1. ASSUME NEW k \in {"stop", "start"} PROVE cmd'[r][k] = cmd[r][k]
    <3>1. CASE k = "stop"
        BY <1>2, <1>3, <3>1
    <3>2. CASE k = "start"
        BY <1>2, <1>3, <3>2
    <3> QED BY <3>1, <3>2
  <2>2. Harmless(journal'[r], cmd'[r], host'[r]) => Harmless(journal[r], cmd[r], host[r])
      BY <1>2, <1>3, <1>4 DEF Harmless
  <2> QED BY <1>2, <1>3, <2>1, <2>2 DEF Calm, Ends
<1>8. LineKept(r) /\ TurnKept(r) /\ QuietKept(r) /\ FenceKept(r)
    BY <1>2, <1>3 DEF LineKept, TurnKept, QuietKept, FenceKept, StartDone
<1>9. Order'
    BY <1>1, <1>7, CalmOrder
<1>10. ASSUME ~Excused' PROVE Safe'
  <2>1. Safe /\ ~Excused
      BY <1>1, <1>6, <1>10, KeepExcused
  <2>2. host[r].stop = "ok"
    <3>1. ~Unproven(r)'
        BY <1>10 DEF Excused, Frame
    <3> QED BY <1>2, <1>3, <1>4, <3>1 DEF Unproven
  <2>3. Quiet'
    <3>1. Quiet
        BY <1>4, <1>5, <2>1, <2>2 DEF Safe, FencedQuiet
    <3> QED BY <1>1, <1>8, <3>1, KeepQuiet
  <2>4. ASSUME NEW q \in DOMAIN journal PROVE driver'[q] \notin {"abort", "start"}
    <3>1. CASE q = r
        BY <1>2, <3>1
    <3>2. CASE q # r
      <4>1. DOMAIN journal = 1..Len(journal) /\ Len(journal) \in Nat /\ q \in Rows
          BY <1>1, Shape
      <4>2. q \in 1..(r - 1)
          BY <1>5, <3>2, <4>1 DEF Last
      <4>3. driver'[q] = driver[q]
          BY <3>2, <4>1 DEF Frame
      <4>4. cmd[r].stop # "none"
          BY <1>1, <2>2 DEF LocalOK
      <4>5. driver[q] # "start"
          BY <1>1, <4>2, <4>4 DEF Order, RecordBars
      <4>6. ~InFlight(q) /\ LocalOK(journal[q], driver[q], cmd[q], host[q])
          BY <1>1, <1>5, <3>2, WFacts DEF Order, OnlyLast
      <4>7. driver[q] # "abort"
          BY <2>1, <4>6 DEF Excused, Unnoted, LocalOK, InFlight
      <4> QED BY <4>3, <4>5, <4>7
    <3> QED BY <3>1, <3>2
  <2>5. Main'
      BY <2>3, <2>4 DEF Main, Frame
  <2> QED BY <1>1, <1>8, <2>1, <2>5, KeepBefore, KeepTurn, KeepFenced DEF Safe
<1>11. NewLocal(r)
    BY <1>1, <1>2, <1>3, <1>4 DEF NewLocal, LocalOK
<1> QED BY <1>6, <1>9, <1>10, <1>11 DEF Keeps

\* A start joins the line while no newer recovery has its stop there.
LEMMA QueueSafe ==
    ASSUME IInv, Local, Order, Safe, NEW r \in DOMAIN journal, Frame(r), QueueStart(r),
           driver[r] \in {"abort", "start"}, host' = host, writers' = writers,
           cmd'[r].start = "queued", cmd'[r].promote = cmd[r].promote,
           journal'[r].state = journal[r].state,
           \A p \in DOMAIN journal : p > r => cmd[p].stop = "none"
    PROVE  Safe'
<1>1. /\ DOMAIN journal \subseteq Rows /\ DOMAIN journal' = DOMAIN journal /\ Last' = Last
      /\ DOMAIN journal = 1..Len(journal) /\ Len(journal) \in Nat
    BY Shape DEF Frame, Last
<1>2. ASSUME NEW p \in DOMAIN journal, host[p].stop # "none" PROVE ~(p > r)
  <2>1. LocalOK(journal[p], driver[p], cmd[p], host[p])
      BY WFacts
  <2> QED BY <1>2, <2>1 DEF LocalOK
<1>3. Before'
  <2>1. /\ DOMAIN line = 1..Len(line) /\ Len(line) \in Nat
        /\ DOMAIN line' = DOMAIN line \cup {Len(line) + 1}
        /\ line'[Len(line) + 1] = <<r, "start">>
        /\ \A i \in DOMAIN line : line'[i] = line[i]
    <3>1. line \in Seq(Rows \X {"stop", "start"}) /\ line' = Append(line, <<r, "start">>)
        BY Shape DEF QueueStart
    <3> HIDE DEF Rows
    <3> QED BY <3>1
  <2> SUFFICES ASSUME NEW i \in DOMAIN line', NEW j \in DOMAIN line',
                      line'[i][2] = "start", line'[j][2] = "stop", line'[i][1] < line'[j][1]
               PROVE  i < j
      BY DEF Before
  <2>2. j \in DOMAIN line /\ line'[j] = line[j]
      BY <2>1
  <2>3. CASE i \in DOMAIN line
      BY <2>1, <2>2, <2>3 DEF Safe, Before
  <2>4. CASE i = Len(line) + 1
    <3>1. line[j][1] \in DOMAIN journal /\ cmd[line[j][1]].stop # "none"
        BY <2>2 DEF Order, LineOK
    <3>2. r < line[j][1]
        BY <2>1, <2>2, <2>4
    <3>3. line[j][1] \in Nat /\ r \in Nat
        BY <1>1, <3>1
    <3> QED BY <3>1, <3>2, <3>3
  <2> QED BY <2>1, <2>3, <2>4
<1>4. Turn'
  <2> SUFFICES ASSUME NEW p \in DOMAIN journal, host[p].stop # "none",
                      NEW q \in 1..(p - 1)
               PROVE  cmd'[q].start \in {"none", "over"}
      BY <1>1 DEF Turn
  <2>1. q \in DOMAIN journal /\ q < p
      BY Under
  <2>2. q # r
      BY <1>1, <1>2, <2>1
  <2> QED BY <1>1, <2>1, <2>2 DEF Frame, Safe, Turn
<1>5. FencedQuiet'
  <2> SUFFICES ASSUME NEW p \in DOMAIN journal, p = Last, host[p].stop = "ok",
                      cmd'[p].start = "none"
               PROVE  FALSE
      BY <1>1 DEF FencedQuiet
  <2>1. p # r
      OBVIOUS
  <2>2. p > r
      BY <1>1, <2>1 DEF Last
  <2> QED BY <1>2, <2>2
<1>6. Main'
  <2>1. "B" \notin writers /\ \A q \in DOMAIN journal : ~Armed(q)
      BY DEF Safe, Main
  <2>2. ASSUME NEW q \in DOMAIN journal PROVE ~Armed(q)'
    <3>1. CASE q = r
        BY <2>1, <3>1 DEF Armed, InFlight
    <3>2. CASE q # r
        BY <1>1, <2>1, <3>2 DEF Armed, InFlight, Frame
    <3> QED BY <3>1, <3>2
  <2> QED BY <1>1, <2>1, <2>2 DEF Main
<1> QED BY <1>3, <1>4, <1>5, <1>6 DEF Safe

\* A process that queues a start leaves the order of things as it was.
LEMMA QueueCalm ==
    ASSUME IInv, NEW r \in DOMAIN journal, QueueStart(r), cmd[r].start = "none",
           driver'[r] # "start", host' = host, writers' = writers,
           journal'[r].kind = journal[r].kind, journal'[r].resumes = journal[r].resumes,
           journal'[r].state = journal[r].state
    PROVE  /\ Calm(r) /\ cmd'[r].start = "queued" /\ cmd'[r].promote = cmd[r].promote
           /\ cmd'[r].stop = cmd[r].stop
<1>1. cmd[r] \in Statuses /\ cmd \in [Rows -> Statuses] /\ r \in Rows
    BY RowFacts DEF IInv, TypeOK, Statuses
<1>2. cmd'[r] = [cmd[r] EXCEPT !.start = "queued"]
    BY <1>1 DEF QueueStart, SetCmd, Statuses
<1>3. /\ cmd'[r].start = "queued" /\ cmd'[r].promote = cmd[r].promote
      /\ cmd'[r].stop = cmd[r].stop
    BY <1>1, <1>2 DEF Statuses, Commands, FenceSteps
<1>4. line' = Append(line, <<r, "start">>)
    BY DEF QueueStart
<1>5. ASSUME NEW k \in {"stop", "start"}
      PROVE  /\ cmd[r][k] # "none" => cmd'[r][k] # "none"
             /\ cmd'[r][k] # "none" => cmd[r][k] # "none" \/ line' = Append(line, <<r, k>>)
  <2>1. CASE k = "stop"
      BY <1>3, <2>1
  <2>2. CASE k = "start"
      BY <1>3, <1>4, <2>2
  <2> QED BY <2>1, <2>2
<1>6. \E k \in {"stop", "start"} : line' = Append(line, <<r, k>>) /\ cmd'[r][k] # "none"
    BY <1>3, <1>4
<1>7. Harmless(journal'[r], cmd'[r], host'[r]) => Harmless(journal[r], cmd[r], host[r])
    BY <1>3 DEF Harmless
<1> QED BY <1>3, <1>5, <1>6, <1>7 DEF Calm, Ends

\* enqueueSwitchoverAbortReactivation: the aborted switchover is the newest recovery,
\* or one that OneWriter excuses.
LEMMA AbortKeeps ==
    ASSUME WInv, NEW r \in DOMAIN journal, Frame(r), AbortStart(r)
    PROVE  Keeps(r)
<1>1. /\ IInv /\ Local /\ Order /\ (~Excused => Safe)
      /\ r \in Rows /\ driver \in [Rows -> DriverSteps]
      /\ LocalOK(journal[r], driver[r], cmd[r], host[r])
    BY WFacts DEF WInv, IInv, TypeOK
<1>2. CASE UNCHANGED <<cmd, line>>
    BY <1>1, <1>2, PlainBranches, PlainKeeps
<1>3. CASE QueueStart(r)
  <2> USE DEF Terminal, Live
  <2>1. /\ journal' = journal /\ host' = host /\ writers' = writers
        /\ driver[r] = "abort" /\ driver'[r] = "end"
      BY <1>1 DEF AbortStart, Goes
  <2>2. /\ cmd[r].start = "none" /\ ~journal[r].todo /\ cmd[r].promote \notin Live
        /\ \/ journal[r].state = "promoting"
           \/ journal[r].state \in Terminal /\ cmd[r].promote # "none" /\ ~journal[r].known
      BY <1>1, <2>1 DEF LocalOK
  <2>3. /\ Calm(r) /\ cmd'[r].start = "queued" /\ cmd'[r].promote = cmd[r].promote
        /\ cmd'[r].stop = cmd[r].stop
      BY <1>1, <1>3, <2>1, <2>2, QueueCalm
  <2>4. NewLocal(r)
    <3>1. cmd[r].promote \in {"none", "over"}
        BY <1>1, <2>2, WFacts DEF Statuses, Commands, Ended
    <3> QED BY <1>1, <2>1, <2>2, <2>3, <3>1 DEF NewLocal, LocalOK
  <2>5. Excuses(r)
      BY <2>1, <2>3 DEF Excuses, Unproven, Unnoted, InFlight
  <2>6. Order'
      BY <1>1, <2>3, CalmOrder
  <2>7. ASSUME ~Excused' PROVE Safe'
    <3>1. Safe /\ ~Excused
        BY <1>1, <2>5, <2>7, KeepExcused
    <3>2. r = Last
        BY <1>1, <2>2, <3>1 DEF Order, OnlyLast, InFlight, Excused, Unnoted
    <3>3. \A p \in DOMAIN journal : p > r => cmd[p].stop = "none"
      <4>1. DOMAIN journal = 1..Len(journal) /\ Len(journal) \in Nat
          BY <1>1, Shape
      <4> QED BY <3>2, <4>1 DEF Last
    <3> QED BY <1>1, <1>3, <2>1, <2>3, <3>1, <3>3, QueueSafe
  <2> QED BY <2>4, <2>5, <2>6, <2>7 DEF Keeps
<1> QED BY <1>2, <1>3 DEF AbortStart

\* finishAbortRestart: no newer recovery has created its stop.
LEMMA RestartKeeps ==
    ASSUME WInv, NEW r \in DOMAIN journal, Frame(r), QueueRestart(r)
    PROVE  Keeps(r)
<1>1. /\ IInv /\ Local /\ Order /\ (~Excused => Safe)
      /\ r \in Rows /\ driver \in [Rows -> DriverSteps] /\ journal \in Seq(Row)
      /\ journal[r] \in Row
      /\ LocalOK(journal[r], driver[r], cmd[r], host[r])
    BY WFacts DEF WInv, IInv, TypeOK
<1>2. CASE ~journal[r].react
    BY <1>1, <1>2, PlainBranches, PlainKeeps
<1>3. CASE journal[r].react
  <2> USE DEF Terminal, Live
  <2> DEFINE row == [journal[r] EXCEPT !.todo = FALSE]
  <2>1. /\ QueueStart(r) /\ host' = host /\ writers' = writers
        /\ driver[r] = "start" /\ driver'[r] = "none" /\ journal'[r] = row
      BY <1>1, <1>3 DEF QueueRestart, Goes, SetRow
  <2>2. /\ row.kind = journal[r].kind /\ row.state = journal[r].state
        /\ row.stopped = journal[r].stopped /\ row.gtid = journal[r].gtid
        /\ row.pending = journal[r].pending /\ row.known = journal[r].known
        /\ row.resumes = journal[r].resumes /\ ~row.todo
      BY <1>1 DEF Row
  <2> HIDE DEF row
  <2>3. /\ cmd[r].start = "none" /\ cmd[r].promote = "none"
        /\ journal[r].state \in Terminal
      BY <1>1, <2>1 DEF LocalOK
  <2>4. /\ Calm(r) /\ cmd'[r].start = "queued" /\ cmd'[r].promote = cmd[r].promote
        /\ cmd'[r].stop = cmd[r].stop
      BY <1>1, <2>1, <2>2, <2>3, QueueCalm
  <2>5. NewLocal(r)
      BY <1>1, <2>1, <2>2, <2>3, <2>4 DEF NewLocal, LocalOK
  <2>6. Excuses(r)
      BY <2>3 DEF Excuses, Unproven, Unnoted
  <2>7. Order'
      BY <1>1, <2>4, CalmOrder
  <2>8. ASSUME ~Excused' PROVE Safe'
    <3>1. Safe
        BY <1>1, <2>6, <2>8, KeepExcused
    <3>2. ASSUME NEW p \in DOMAIN journal, p > r PROVE cmd[p].stop = "none"
      <4>1. r \in 1..(p - 1)
        <5>1. DOMAIN journal = 1..Len(journal) /\ Len(journal) \in Nat
            BY <1>1, Shape
        <5> QED BY <3>2, <5>1
      <4> QED BY <1>1, <2>1, <4>1 DEF Order, RecordBars
    <3> QED BY <1>1, <2>1, <2>2, <2>4, <3>1, <3>2, QueueSafe
  <2> QED BY <2>5, <2>6, <2>7, <2>8 DEF Keeps
<1> QED BY <1>2, <1>3

-----------------------------------------------------------------------------
\* A's daemon runs a stop or a start in line order: when the stop of the newest
\* recovery ran, the starts of the older ones have.
LEMMA RunKeeps ==
    ASSUME WInv, NEW i \in DOMAIN line, NEW outcome \in {"ok", "error"},
           RunOnA(i, outcome)
    PROVE  \E r \in DOMAIN journal : Frame(r) /\ Keeps(r)
<1> PICK r, k : r = line[i][1] /\ k = line[i][2]
    OBVIOUS
<1>1. /\ IInv /\ Local /\ Order /\ (~Excused => Safe)
      /\ r \in DOMAIN journal /\ k \in {"stop", "start"}
    BY Shape DEF WInv, Order, LineOK
<1>2. /\ line[i] = <<r, k>> /\ DOMAIN line = 1..Len(line) /\ Len(line) \in Nat
      /\ DOMAIN journal \subseteq Rows /\ DOMAIN journal = 1..Len(journal) /\ Len(journal) \in Nat
    BY <1>1, Shape
<1>3. /\ host[r][k] = "held" /\ host' = [host EXCEPT ![r][k] = outcome]
      /\ \A j \in 1..(i - 1) : host[line[j][1]][line[j][2]] # "held"
      /\ writers' = IF outcome = "error" THEN writers
                    ELSE IF k = "stop" THEN writers \ {"A"} ELSE writers \cup {"A"}
      /\ journal' = journal /\ driver' = driver /\ cmd' = cmd /\ line' = line
    BY DEF RunOnA
<1>4. /\ r \in Rows /\ cmd[r] \in Statuses /\ host[r] \in Hosts /\ host \in [Rows -> Hosts]
      /\ LocalOK(journal[r], driver[r], cmd[r], host[r])
    BY <1>1, WFacts DEF IInv, TypeOK, Hosts
<1>5. /\ Frame(r) /\ host'[r] = [host[r] EXCEPT ![k] = outcome]
    BY <1>3, <1>4 DEF Frame, Hosts
<1>6. /\ host'[r].promote = host[r].promote
      /\ k = "stop" => host'[r].stop = outcome /\ host'[r].start = host[r].start
                       /\ host[r].stop = "held"
      /\ k = "start" => host'[r].start = outcome /\ host'[r].stop = host[r].stop
                        /\ host[r].start = "held"
    BY <1>1, <1>3, <1>4, <1>5 DEF Hosts, Commands, FenceSteps
<1>7. "B" \in writers' <=> "B" \in writers
    BY <1>3
<1>8. Calm(r)
    BY <1>3, <1>6, <1>7 DEF Calm, Ends, Harmless
<1>9. /\ LineKept(r) /\ TurnKept(r) /\ DriverKept(r) /\ ArmedKept(r)
    BY <1>1, <1>3, <1>6, <1>7 DEF LineKept, TurnKept, DriverKept, ArmedKept, Armed, InFlight
<1>10. QuietKept(r)
    BY <1>1, <1>3, <1>6 DEF QuietKept, StartDone
<1>11. Excuses(r)
    BY <1>3 DEF Excuses, Unproven, Unnoted, InFlight
<1>12. NewLocal(r)
  <2>1. CASE k = "stop"
      BY <1>3, <1>4, <1>6, <2>1 DEF NewLocal, LocalOK
  <2>2. CASE k = "start"
      BY <1>3, <1>4, <1>6, <2>2 DEF NewLocal, LocalOK
  <2> QED BY <1>1, <2>1, <2>2
<1>13. ASSUME Safe PROVE FencedQuiet'
  <2>1. CASE ~(k = "stop" /\ outcome = "ok")
    <3>1. FenceKept(r)
        BY <1>1, <1>3, <1>6, <2>1 DEF FenceKept
    <3> QED BY <1>1, <1>5, <1>10, <1>13, <3>1, KeepFenced DEF Safe
  <2>2. CASE k = "stop" /\ outcome = "ok"
    <3> SUFFICES ASSUME NEW p \in DOMAIN journal, p = Last, host'[p].stop = "ok",
                        cmd[p].start = "none"
                 PROVE  Quiet'
        BY <1>3 DEF FencedQuiet, Last
    <3>1. CASE p # r
      <4>1. host[p].stop = "ok"
          BY <1>2, <1>5, <3>1 DEF Frame
      <4>2. Quiet
          BY <1>13, <4>1 DEF Safe, FencedQuiet
      <4> QED BY <1>1, <1>5, <1>10, <4>2, KeepQuiet
    <3>2. CASE p = r
      <4>1. "A" \notin writers'
          BY <1>3, <2>2
      <4>2. ASSUME NEW q \in DOMAIN journal PROVE StartDone(q)'
        <5>1. CASE q = r
            BY <1>3, <1>4, <1>6, <2>2, <3>2, <5>1 DEF LocalOK, StartDone
        <5>2. CASE q # r
          <6>1. q \in 1..(r - 1) /\ q \in Nat /\ r \in Nat /\ q < r
              BY <1>1, <1>2, <3>2, <5>2 DEF Last
          <6>2. cmd[q].start \in {"none", "over"}
              BY <1>1, <1>6, <1>13, <2>2, <6>1 DEF Safe, Turn
          <6>3. host'[q] = host[q]
              BY <1>2, <1>5, <5>2 DEF Frame
          <6>4. ASSUME host[q].start = "held" PROVE FALSE
            <7>1. cmd[q].start # "none"
                BY <1>1, <6>4, WFacts DEF LocalOK
            <7>2. PICK j \in DOMAIN line : line[j] = <<q, "start">>
                BY <1>1, <7>1 DEF Order, InLine
            <7>3. line[j][2] = "start" /\ line[i][2] = "stop" /\ line[j][1] < line[i][1]
                BY <1>2, <2>2, <6>1, <7>2
            <7>4. j < i
                BY <1>13, <7>3 DEF Safe, Before
            <7>5. j \in 1..(i - 1)
                BY <1>2, <7>4
            <7> QED BY <1>3, <6>4, <7>2, <7>5
          <6> QED BY <1>3, <6>2, <6>3, <6>4 DEF StartDone
        <5> QED BY <5>1, <5>2
      <4> QED BY <1>3, <4>1, <4>2 DEF Quiet
    <3> QED BY <3>1, <3>2
  <2> QED BY <2>1, <2>2
<1>14. ASSUME ~Excused' PROVE Safe'
  <2>1. Safe
      BY <1>1, <1>5, <1>11, <1>14, KeepExcused
  <2> QED BY <1>1, <1>5, <1>9, <1>10, <1>13, <2>1, KeepBefore, KeepTurn, KeepMain DEF Safe
<1>15. Order'
    BY <1>1, <1>5, <1>8, CalmOrder
<1> QED BY <1>1, <1>5, <1>11, <1>12, <1>14, <1>15 DEF Keeps

\* beginRecovery: a switchover begins when its target is a replica and holds no
\* promote.
LEMMA BeginWrites ==
    ASSUME WInv, NEW kind \in Kinds, Begin(kind)
    PROVE  Local' /\ Order' /\ (~Excused' => Safe')
<1> DEFINE r == Len(journal) + 1
<1>1. IInv /\ Local /\ Order /\ (~Excused => Safe)
    BY DEF WInv
<1>2. /\ journal \in Seq(Row) /\ r \in Rows /\ r \notin DOMAIN journal
      /\ driver \in [Rows -> DriverSteps]
      /\ journal' = Append(journal, NewRow(kind)) /\ NewRow(kind) \in Row
      /\ DOMAIN journal = 1..Len(journal) /\ Len(journal) \in Nat /\ Len(journal') = r
      /\ DOMAIN journal' = DOMAIN journal \cup {r} /\ journal'[r] = NewRow(kind)
      /\ \A q \in DOMAIN journal : journal'[q] = journal[q] /\ q # r /\ q \in Rows
  <2>1. journal \in Seq(Row) /\ r \in Rows /\ journal' = Append(journal, NewRow(kind))
        /\ driver \in [Rows -> DriverSteps]
      BY <1>1 DEF IInv, TypeOK, Begin
  <2>2. NewRow(kind) \in Row
      BY DEF NewRow, Row, RecoveryStates
  <2>3. DOMAIN journal \subseteq Rows
      BY <1>1, Shape
  <2> QED BY <2>1, <2>2, <2>3
<1>3. /\ driver'[r] = "fence" /\ \A q \in Rows : q # r => driver'[q] = driver[q]
      /\ cmd' = cmd /\ host' = host /\ line' = line /\ writers' = writers
      /\ \A q \in DOMAIN journal : ~InFlight(q)
      /\ kind = "switchover" =>
            "B" \notin writers /\ \A q \in Rows : host[q].promote # "held"
    BY <1>2 DEF Begin, Goes, TargetReady
<1>4. \A k \in Commands : cmd[r][k] = "none" /\ host[r][k] = "none"
    BY <1>1, <1>2 DEF Order, Unbegun
<1>5. /\ cmd[r].stop = "none" /\ cmd[r].start = "none" /\ cmd[r].promote = "none"
      /\ host[r].stop = "none" /\ host[r].start = "none" /\ host[r].promote = "none"
    BY <1>4 DEF Commands, FenceSteps
<1>6. /\ journal'[r].state = "fencing" /\ journal'[r].kind = kind /\ journal'[r].pending = {}
      /\ ~journal'[r].stopped /\ ~journal'[r].gtid /\ ~journal'[r].todo
    BY <1>2 DEF NewRow
<1> HIDE DEF r
<1>7. Local'
  <2>1. LocalOK(journal'[r], driver'[r], cmd'[r], host'[r])
      BY <1>3, <1>5, <1>6 DEF LocalOK, Live, Terminal
  <2>2. ASSUME NEW q \in DOMAIN journal
        PROVE  LocalOK(journal'[q], driver'[q], cmd'[q], host'[q])
    <3>1. LocalOK(journal[q], driver[q], cmd[q], host[q])
        BY <1>1 DEF Local
    <3> QED BY <1>2, <1>3, <3>1
  <2> QED BY <1>2, <2>1, <2>2 DEF Local
<1>8. Last' = r /\ \A q \in DOMAIN journal : q < r
    BY <1>2 DEF Last, r
<1>9. Order'
  <2>1. Unbegun'
      BY <1>1, <1>2, <1>3 DEF Order, Unbegun
  <2>2. OnlyLast'
      BY <1>2, <1>3, <1>8 DEF OnlyLast, InFlight
  <2>3. InLine' /\ LineOK'
      BY <1>1, <1>2, <1>3, <1>5 DEF Order, InLine, LineOK
  <2>4. StartedWrites'
      BY <1>1, <1>2, <1>3, <1>5 DEF Order, StartedWrites
  <2>5. EarlierDead'
    <3> SUFFICES ASSUME NEW p \in DOMAIN journal', journal'[p].kind = "switchover",
                        NEW q \in 1..(p - 1)
                 PROVE  host[q].promote \notin {"held", "started"}
        BY <1>3 DEF EarlierDead
    <3>1. CASE p \in DOMAIN journal
        BY <1>1, <1>2, <3>1 DEF Order, EarlierDead
    <3>2. CASE p = r
      <4>1. q \in DOMAIN journal
          BY <1>2, <3>2 DEF r
      <4> QED BY <1>1, <1>2, <1>3, <1>6, <3>2, <4>1 DEF Order, StartedWrites
    <3> QED BY <1>2, <3>1, <3>2
  <2>6. NotYet'
      BY <1>3, <1>6, <1>8 DEF NotYet
  <2>7. RecordBars'
    <3> SUFFICES ASSUME NEW p \in DOMAIN journal, cmd[p].stop # "none", NEW q \in 1..(p - 1)
                 PROVE  driver'[q] # "start"
        BY <1>2, <1>3, <1>5 DEF RecordBars
    <3>1. q \in DOMAIN journal
        BY <1>1, Under
    <3> QED BY <1>1, <1>2, <1>3, <3>1 DEF Order, RecordBars
  <2> QED BY <2>1, <2>2, <2>3, <2>4, <2>5, <2>6, <2>7 DEF Order
<1>10. Excused => Excused'
    BY <1>2, <1>3 DEF Excused, Unproven, Unnoted, InFlight
<1>11. ASSUME Safe PROVE Safe'
  <2>1. Before'
      BY <1>3, <1>11 DEF Safe, Before
  <2>2. Turn'
      BY <1>2, <1>3, <1>5, <1>11 DEF Safe, Turn
  <2>3. FencedQuiet'
      BY <1>3, <1>5, <1>8 DEF FencedQuiet
  <2>4. Quiet => Quiet'
      BY <1>2, <1>3, <1>5 DEF Quiet, StartDone
  <2>5. ASSUME NEW q \in DOMAIN journal', Armed(q)' PROVE q \in DOMAIN journal /\ Armed(q)
    <3>1. CASE q = r
        BY <1>3, <1>5, <2>5, <3>1 DEF Armed, Live
    <3>2. CASE q \in DOMAIN journal
        BY <1>2, <1>3, <2>5, <3>2 DEF Armed, InFlight
    <3> QED BY <1>2, <3>1, <3>2
  <2>6. ASSUME NEW q \in DOMAIN journal', driver'[q] \in {"abort", "start"}
        PROVE  q \in DOMAIN journal /\ driver[q] \in {"abort", "start"}
      BY <1>2, <1>3, <2>6
  <2>7. Main'
      BY <1>3, <1>11, <2>4, <2>5, <2>6 DEF Safe, Main
  <2> QED BY <2>1, <2>2, <2>3, <2>7 DEF Safe
<1> QED BY <1>1, <1>7, <1>9, <1>10, <1>11

-----------------------------------------------------------------------------
\* Every step of a recovery keeps the invariant's parts.
LEMMA RowKeeps ==
    ASSUME ~CheckMayFail, ~SweepStalls, WInv, NEW r \in DOMAIN journal,
           Driven(r) \/ Answered(r) \/ Swept(r) \/ Daemon(r) \/ Fails(r)
    PROVE  Frame(r) /\ Keeps(r)
<1>1. IInv /\ Local /\ Order
    BY DEF WInv
<1>2. Frame(r)
    BY <1>1, Frames
<1>3. Good(r) => Keeps(r)
    BY <1>2, PlainKeeps
<1>4. CASE Driven(r)
    BY <1>1, <1>2, <1>3, <1>4, PlainDriven, PlainRecord, FollowKeeps, EnqueueKeeps,
       AbortKeeps, RestartKeeps DEF Driven
<1>5. CASE Answered(r)
    BY <1>1, <1>2, <1>3, <1>5, PlainAnswered, PlainSettle, PlainDaemon,
       PromoteFailsKeeps DEF Answered
<1>6. CASE Swept(r)
    BY <1>1, <1>2, <1>3, <1>6, PlainSwept, PlainSettle, CheckKeeps DEF Swept
<1>7. CASE Daemon(r)
    BY <1>1, <1>2, <1>3, <1>7, PlainDaemon, SendStopKeeps DEF Daemon
<1>8. CASE Fails(r)
    BY <1>1, <1>2, <1>3, <1>8, PlainFails, PlainSettle DEF Fails
<1> QED BY <1>2, <1>4, <1>5, <1>6, <1>7, <1>8

\* Init and every step establish the invariant.
LEMMA InitWInv == Init => WInv
<1> SUFFICES ASSUME Init PROVE WInv
    OBVIOUS
<1>1. IInv
    BY InitIInv
<1>2. /\ journal = <<>> /\ line = <<>> /\ DOMAIN journal = {} /\ DOMAIN line = {}
      /\ writers = {"A"}
      /\ \A r \in Rows : /\ driver[r] = "none"
                         /\ \A k \in Commands : cmd[r][k] = "none" /\ host[r][k] = "none"
    BY DEF Init
<1>3. Local /\ Order
    BY <1>2 DEF Local, Order, Unbegun, OnlyLast, InLine, LineOK, StartedWrites, EarlierDead,
       NotYet, RecordBars
<1>4. Safe
    BY <1>2 DEF Safe, Before, Turn, FencedQuiet, Main
<1> QED BY <1>1, <1>3, <1>4 DEF WInv

\* A step of the system, of a recovery, of A's server or of nobody.
LEMMA NextWInv ==
    ASSUME ~CheckMayFail, ~SweepStalls, WInv, [Next]_vars
    PROVE  WInv'
<1>1. IInv'
    BY NextKeeps DEF WInv
<1>2. ASSUME NEW kind \in Kinds, Begin(kind) PROVE WInv'
    BY <1>1, <1>2, BeginWrites DEF WInv
<1>3. ASSUME NEW r \in DOMAIN journal, Frame(r), Keeps(r) PROVE WInv'
    BY <1>1, <1>3, KeepLocal DEF WInv, Keeps
<1>4. ASSUME NEW r \in DOMAIN journal,
             Driven(r) \/ Answered(r) \/ Swept(r) \/ Daemon(r) \/ Fails(r)
      PROVE  WInv'
    BY <1>3, <1>4, RowKeeps
<1>5. CASE Runs
    BY <1>3, <1>5, RunKeeps DEF Runs
<1>6. CASE UNCHANGED vars
  <2>1. /\ journal' = journal /\ driver' = driver /\ cmd' = cmd /\ host' = host
        /\ line' = line /\ writers' = writers
      BY <1>6 DEF vars
  <2>2. Local' /\ Order'
      BY <2>1 DEF WInv, Local, Order, Unbegun, OnlyLast, InLine, LineOK, StartedWrites,
         EarlierDead, NotYet, RecordBars, InFlight, Last
  <2>3. Excused => Excused'
      BY <2>1 DEF Excused, Unproven, Unnoted, InFlight
  <2>4. Safe => Safe'
      BY <2>1 DEF Safe, Before, Turn, FencedQuiet, Main, Quiet, StartDone, Armed, InFlight, Last
  <2> QED BY <1>1, <2>2, <2>3, <2>4 DEF WInv
<1> QED BY <1>2, <1>4, <1>5, <1>6 DEF Next

\* The invariant speaks of the writers.
LEMMA WInvOneWriter ==
    ASSUME WInv
    PROVE  OneWriter
<1> SUFFICES ASSUME writers = {"A", "B"}, ~Excused
             PROVE  FALSE
    BY DEF OneWriter, Excused
<1>1. Main
    BY DEF WInv, Safe
<1> QED BY <1>1 DEF Main, Quiet

\* "Bringing the old primary back cannot make two writers" (switchoverAbortPromoteSafe),
\* for every number of recoveries, resumes, attempts and faults, engines with and
\* without a proven position: whenever the catch-up check of a promoted target runs
\* (onSwitchoverPromoteFailed trusts its answer) and a sweep queues the start it
\* checked before a newer recovery creates its stop (finishAbortRestart), A and B
\* accept writes together only after an unproven or an unnoted promote.
THEOREM RecoveryOneWriter ==
    ASSUME ~CheckMayFail, ~SweepStalls
    PROVE  Spec => []OneWriter
<1>1. Init => WInv
    BY InitWInv
<1>2. WInv /\ [Next]_vars => WInv'
    BY NextWInv
<1>3. WInv => OneWriter
    BY WInvOneWriter
<1> QED BY <1>1, <1>2, <1>3, PTL DEF Spec

=============================================================================
