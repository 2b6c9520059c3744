------------------------ MODULE ManagedRecoveryProofs ------------------------
(***************************************************************************)
(* A recovery that ended stays ended, for every bound.  The row's state is *)
(* written without a look at it in three places: followFenceAdvance and    *)
(* enqueuePromoteOrRecover (updateRecovery, state promoting) and the note  *)
(* of the promote's id.  They are safe because the process that holds the  *)
(* row at these steps is the only one that can end it: the row is          *)
(* promoting, and no promote that could be answered or given up on exists  *)
(* (Holds).                                                                *)
(***************************************************************************)
EXTENDS ManagedRecovery, TLAPS

Statuses == [Commands -> Live \cup Ended]

\* What a row, the step of its process and its commands have to do with each
\* other.
Holds(row, step, cs) ==
    /\ step \in {"follow", "resume", "enqueue"} =>
          row.state = "promoting" /\ cs.promote \in {"none", "over"}
    /\ step = "note" => row.state = "promoting"
    /\ step = "resume" => row.resumes < MaxResumes
    /\ row.state = "fencing" => cs.promote = "none"

RestOK ==
    /\ host \in [Rows -> [Commands -> HostStates]]
    /\ line \in Seq(Rows \X {"stop", "start"})
    /\ primary \in {"A", "B"}
    /\ writers \subseteq {"A", "B"}
    /\ faults \in 0..MaxFaults

Held == \A r \in DOMAIN journal : Holds(journal[r], driver[r], cmd[r])
Fresh == \A r \in Rows \ DOMAIN journal : cmd[r].promote = "none"

\* Strengthened type invariant.
IInv == TypeOK /\ Held /\ Fresh

Ends(row, next) == row.state \in Terminal => next.state \in Terminal

\* Row r, its process and its commands move together, the other rows stay.
Moved(r, row, step, cs) ==
    /\ journal' = [journal EXCEPT ![r] = row]
    /\ driver' = [driver EXCEPT ![r] = step]
    /\ cmd' = [cmd EXCEPT ![r] = cs]

Moves(r) ==
    /\ RestOK'
    /\ \E row \in Row, step \in DriverSteps, cs \in Statuses :
          /\ Moved(r, row, step, cs)
          /\ Holds(row, step, cs)
          /\ Ends(journal[r], row)

-----------------------------------------------------------------------------
\* What the invariant says of one row.
LEMMA RowFacts ==
    ASSUME IInv, NEW r \in DOMAIN journal
    PROVE  /\ r \in Rows /\ journal[r] \in Row /\ driver[r] \in DriverSteps
           /\ cmd[r] \in Statuses /\ Holds(journal[r], driver[r], cmd[r])
           /\ RestOK
    BY RecoveryAssumption DEF IInv, TypeOK, Held, Rows, RestOK, Statuses

\* A move of one row keeps the invariant and ends no ended recovery anew.
LEMMA MovesKeep ==
    ASSUME IInv, NEW r \in DOMAIN journal, Moves(r)
    PROVE  /\ IInv'
           /\ \A i \in DOMAIN journal : Ends(journal[i], journal'[i])
<1>1. PICK row \in Row, step \in DriverSteps, cs \in Statuses :
          /\ Moved(r, row, step, cs)
          /\ Holds(row, step, cs)
          /\ Ends(journal[r], row)
    BY DEF Moves
<1>2. RestOK'
    BY DEF Moves
<1>3. journal \in Seq(Row) /\ Len(journal) <= MaxRows /\ r \in Rows
    BY RowFacts DEF IInv, TypeOK
<1>4. /\ journal' \in Seq(Row) /\ Len(journal') = Len(journal)
      /\ DOMAIN journal' = DOMAIN journal
    BY <1>1, <1>3 DEF Moved
<1>5. /\ journal'[r] = row
      /\ \A i \in DOMAIN journal : i # r => journal'[i] = journal[i]
    BY <1>1, <1>3 DEF Moved
<1>6. driver' \in [Rows -> DriverSteps] /\ cmd' \in [Rows -> Statuses]
    BY <1>1, <1>3 DEF Moved, IInv, TypeOK, Statuses
<1>7. /\ driver'[r] = step /\ cmd'[r] = cs
      /\ \A i \in Rows : i # r => driver'[i] = driver[i] /\ cmd'[i] = cmd[i]
    BY <1>1, <1>3 DEF Moved, IInv, TypeOK, Statuses
<1>8. TypeOK'
    BY <1>2, <1>3, <1>4, <1>6 DEF TypeOK, RestOK, Statuses
<1>9. Held'
  <2> SUFFICES ASSUME NEW i \in DOMAIN journal
               PROVE  Holds(journal'[i], driver'[i], cmd'[i])
      BY <1>4 DEF Held
  <2>1. CASE i = r
      BY <2>1, <1>1, <1>5, <1>7
  <2>2. CASE i # r
    <3>1. Holds(journal[i], driver[i], cmd[i]) /\ i \in Rows
        BY RowFacts
    <3> QED BY <2>2, <3>1, <1>5, <1>7
  <2> QED BY <2>1, <2>2
<1>10. Fresh'
    BY <1>4, <1>7 DEF Fresh, IInv
<1>11. \A i \in DOMAIN journal : Ends(journal[i], journal'[i])
    BY <1>1, <1>5 DEF Ends
<1> QED BY <1>8, <1>9, <1>10, <1>11 DEF IInv

-----------------------------------------------------------------------------
\* A move, from its parts.
LEMMA MoveBy ==
    ASSUME IInv, RestOK', NEW r \in DOMAIN journal,
           NEW row \in Row, NEW step \in DriverSteps, NEW cs \in Statuses,
           Moved(r, row, step, cs), Holds(row, step, cs), Ends(journal[r], row)
    PROVE  Moves(r)
    BY DEF Moves

\* What a step leaves alone, written as a part of a move.
LEMMA Same ==
    ASSUME IInv, NEW r \in DOMAIN journal
    PROVE  /\ journal = [journal EXCEPT ![r] = journal[r]]
           /\ driver = [driver EXCEPT ![r] = driver[r]]
           /\ cmd = [cmd EXCEPT ![r] = cmd[r]]
    BY DEF IInv, TypeOK

\* A command row takes a status.
LEMMA CmdSet ==
    ASSUME IInv, NEW r \in DOMAIN journal, NEW k \in Commands,
           NEW status \in Live \cup Ended, SetCmd(r, k, status)
    PROVE  \E cs \in Statuses :
              /\ cmd' = [cmd EXCEPT ![r] = cs]
              /\ cs[k] = status
              /\ \A j \in Commands : j # k => cs[j] = cmd[r][j]
<1>1. cmd[r] \in Statuses /\ r \in Rows
    BY RowFacts
<1>2. cmd' = [cmd EXCEPT ![r] = [cmd[r] EXCEPT ![k] = status]]
    BY <1>1 DEF SetCmd, IInv, TypeOK
<1>3. [cmd[r] EXCEPT ![k] = status] \in Statuses
    BY <1>1 DEF Statuses
<1> WITNESS [cmd[r] EXCEPT ![k] = status] \in Statuses
<1> QED BY <1>1, <1>2 DEF Statuses

\* A settlement only moves a fencing row.
LEMMA SettlementFacts ==
    ASSUME NEW row \in Row, NEW k \in FenceSteps, NEW applied \in BOOLEAN
    PROVE  /\ Settlement(row, k, applied) \in Row
           /\ Settlement(row, k, applied).resumes = row.resumes
           /\ row.state # "fencing" => Settlement(row, k, applied).state = row.state
    BY DEF Row, Settlement, NextStateAfterFence, RecoveryStates, Terminal

\* The settlement of a fence step is a move, with a queue and without one.
LEMMA SettleMoves ==
    ASSUME IInv, RestOK', NEW r \in DOMAIN journal,
           NEW row \in Row, row.state = journal[r].state,
           row.resumes = journal[r].resumes,
           NEW k \in FenceSteps, NEW applied \in BOOLEAN, NEW queue \in BOOLEAN,
           SettleFence(r, row, k, applied, queue),
           NEW cs \in Statuses, cs.promote = cmd[r].promote,
           cmd' = [cmd EXCEPT ![r] = cs]
    PROVE  Moves(r)
<1> DEFINE next == Settlement(row, k, applied)
           step == IF queue /\ next.state = "promoting" /\ row.state = "fencing"
                   THEN "follow" ELSE driver[r]
<1>1. /\ next \in Row /\ next.resumes = row.resumes
      /\ row.state # "fencing" => next.state = row.state
    BY SettlementFacts
<1>2. journal[r] \in Row /\ driver[r] \in DriverSteps
      /\ Holds(journal[r], driver[r], cmd[r])
    BY RowFacts
<1>3. step \in DriverSteps
    BY <1>2 DEF DriverSteps
<1>4. Moved(r, next, step, cs)
    BY Same DEF SettleFence, SetRow, Goes, Moved
<1>5. Ends(journal[r], next)
    BY <1>1 DEF Ends, Terminal
<1>6. Holds(next, step, cs)
  <2>1. CASE row.state = "fencing"
      BY <2>1, <1>1, <1>2 DEF Holds
  <2>2. CASE row.state # "fencing"
      BY <2>2, <1>1, <1>2 DEF Holds
  <2> QED BY <2>1, <2>2
<1> QED BY <1>1, <1>3, <1>4, <1>5, <1>6, MoveBy

-----------------------------------------------------------------------------
\* Every action of a row is a move

USE RecoveryAssumption

\* Cancelling the fence steps leaves the promote alone.
LEMMA CancelledFacts ==
    ASSUME IInv, NEW r \in DOMAIN journal
    PROVE  Cancelled(r) \in Statuses /\ Cancelled(r).promote = cmd[r].promote
<1>1. cmd[r] \in Statuses
    BY RowFacts
<1> QED BY <1>1 DEF Cancelled, Statuses, Commands, FenceSteps, Ended

\* A queued start joins the line of A's server.
LEMMA StartInLine ==
    ASSUME RestOK, NEW r \in Rows, QueueStart(r)
    PROVE  line' \in Seq(Rows \X {"stop", "start"})
<1>1. <<r, "start">> \in Rows \X {"stop", "start"}
    OBVIOUS
<1>2. line \in Seq(Rows \X {"stop", "start"}) /\ line' = Append(line, <<r, "start">>)
    BY DEF RestOK, QueueStart
<1> HIDE DEF Rows
<1> QED BY <1>1, <1>2

\* The next step of the process that holds the row is a move.
LEMMA DrivenMoves ==
    ASSUME IInv, NEW r \in DOMAIN journal, Driven(r)
    PROVE  Moves(r)
<1>1. /\ journal[r] \in Row /\ driver[r] \in DriverSteps /\ cmd[r] \in Statuses
      /\ Holds(journal[r], driver[r], cmd[r]) /\ RestOK /\ r \in Rows
    BY RowFacts
<1>2. CASE RecordFence(r)
  <2> DEFINE row == IF journal[r].state = "fencing"
                    THEN [journal[r] EXCEPT !.pending = FenceSteps,
                                            !.drained = FALSE, !.stopped = FALSE]
                    ELSE journal[r]
             step == IF journal[r].state = "fencing" THEN "drain" ELSE "none"
             cs == [cmd[r] EXCEPT !.drain = "prepared", !.stop = "prepared"]
  <2>1. RestOK'
      BY <1>2, <1>1 DEF RecordFence, RestOK
  <2>2. cs \in Statuses /\ cs.promote = cmd[r].promote
      BY <1>1 DEF Statuses, Commands, FenceSteps, Live
  <2>3. row \in Row /\ step \in DriverSteps
      BY <1>1 DEF Row, DriverSteps
  <2>4. Moved(r, row, step, cs)
      BY <1>2, Same DEF RecordFence, Moved, SetRow, Goes
  <2>5. Holds(row, step, cs) /\ Ends(journal[r], row)
      BY <1>1, <2>2 DEF Holds, Ends, Row
  <2> QED BY <2>1, <2>2, <2>3, <2>4, <2>5, MoveBy
<1>3. CASE PublishDrain(r)
  <2> DEFINE row == journal[r]
             step == "stop"
  <2>1. RestOK'
      BY <1>3, <1>1 DEF PublishDrain, RestOK
  <2>2. PICK cs \in Statuses : cmd' = [cmd EXCEPT ![r] = cs] /\ cs.promote = cmd[r].promote
      BY <1>3, <1>1, CmdSet DEF PublishDrain, Commands, FenceSteps, Live, Ended, Published, Statuses
  <2>3. row \in Row /\ step \in DriverSteps
      BY <1>3, <1>1 DEF PublishDrain, Row, DriverSteps, RecoveryStates, Terminal
  <2>4. Moved(r, row, step, cs)
      BY <1>3, <2>2, Same DEF PublishDrain, Moved, SetRow, Goes
  <2>5. Holds(row, step, cs) /\ Ends(journal[r], row)
      BY <1>3, <1>1, <2>2 DEF PublishDrain, Holds, Ends, Terminal
  <2> QED BY <2>1, <2>2, <2>3, <2>4, <2>5, MoveBy
<1>4. CASE PublishStop(r)
  <2> DEFINE row == journal[r]
             step == "none"
  <2>1. RestOK'
      BY <1>4, <1>1 DEF PublishStop, RestOK
  <2>2. PICK cs \in Statuses : cmd' = [cmd EXCEPT ![r] = cs] /\ cs.promote = cmd[r].promote
      BY <1>4, <1>1, CmdSet DEF PublishStop, Commands, FenceSteps, Live, Ended, Published, Statuses
  <2>3. row \in Row /\ step \in DriverSteps
      BY <1>4, <1>1 DEF PublishStop, Row, DriverSteps, RecoveryStates, Terminal
  <2>4. Moved(r, row, step, cs)
      BY <1>4, <2>2, Same DEF PublishStop, Moved, SetRow, Goes
  <2>5. Holds(row, step, cs) /\ Ends(journal[r], row)
      BY <1>4, <1>1, <2>2 DEF PublishStop, Holds, Ends, Terminal
  <2> QED BY <2>1, <2>2, <2>3, <2>4, <2>5, MoveBy
<1>5. CASE FollowFence(r)
  <2> DEFINE row == IF GtidMissing(journal[r]) THEN journal[r]
                    ELSE [journal[r] EXCEPT !.state = "promoting"]
             step == IF GtidMissing(journal[r]) THEN "abort" ELSE "enqueue"
  <2>1. RestOK'
      BY <1>5, <1>1 DEF FollowFence, RestOK
  <2>2. PICK cs \in Statuses : cmd' = [cmd EXCEPT ![r] = cs] /\ cs = cmd[r]
      BY <1>5, <1>1, Same DEF FollowFence
  <2>3. row \in Row /\ step \in DriverSteps
      BY <1>5, <1>1 DEF FollowFence, Row, DriverSteps, RecoveryStates, Terminal
  <2>4. Moved(r, row, step, cs)
      BY <1>5, <2>2, Same DEF FollowFence, Moved, SetRow, Goes
  <2>5. Holds(row, step, cs) /\ Ends(journal[r], row)
      BY <1>5, <1>1, <2>2 DEF FollowFence, Holds, Ends, Terminal
  <2> QED BY <2>1, <2>2, <2>3, <2>4, <2>5, MoveBy
<1>6. CASE ResumePromote(r)
  <2> DEFINE row == [journal[r] EXCEPT !.state = "promoting", !.resumes = @ + 1,
                                       !.known = FALSE]
  <2>1. RestOK'
      BY <1>6, <1>1 DEF ResumePromote, RestOK
  <2>2. cmd' = [cmd EXCEPT ![r] = cmd[r]]
      BY <1>6, Same DEF ResumePromote
  <2>3. journal[r].resumes + 1 \in 0..MaxResumes
    <3>1. journal[r].resumes \in 0..MaxResumes /\ MaxResumes \in Nat
        BY <1>1 DEF Row
    <3>2. journal[r].resumes < MaxResumes
        BY <1>6, <1>1 DEF ResumePromote, Holds
    <3> QED BY <3>1, <3>2
  <2>4. row \in Row /\ row.state = "promoting"
      BY <1>1, <2>3 DEF Row, RecoveryStates
  <2>5. Moved(r, row, "enqueue", cmd[r])
      BY <1>6, <2>2, Same DEF ResumePromote, Moved, SetRow, Goes
  <2>6. Holds(row, "enqueue", cmd[r]) /\ Ends(journal[r], row)
      BY <1>6, <1>1, <2>4 DEF ResumePromote, Holds, Ends, Terminal
  <2> QED BY <1>1, <2>1, <2>4, <2>5, <2>6, MoveBy DEF DriverSteps
<1>7. CASE EnqueuePromote(r)
  <2> DEFINE row == journal[r]
             step == "note"
  <2>1. RestOK'
      BY <1>7, <1>1 DEF EnqueuePromote, RestOK
  <2>2. PICK cs \in Statuses : cmd' = [cmd EXCEPT ![r] = cs] /\ cs.promote = "queued"
      BY <1>7, <1>1, CmdSet DEF EnqueuePromote, Commands, FenceSteps, Live, Ended
  <2>3. row \in Row /\ step \in DriverSteps
      BY <1>7, <1>1 DEF EnqueuePromote, Row, DriverSteps, RecoveryStates, Terminal
  <2>4. Moved(r, row, step, cs)
      BY <1>7, <2>2, Same DEF EnqueuePromote, Moved, SetRow, Goes
  <2>5. Holds(row, step, cs) /\ Ends(journal[r], row)
      BY <1>7, <1>1, <2>2 DEF EnqueuePromote, Holds, Ends, Terminal
  <2> QED BY <2>1, <2>2, <2>3, <2>4, <2>5, MoveBy
<1>8. CASE NotePromote(r)
  <2> DEFINE row == [journal[r] EXCEPT !.known = TRUE]
             step == "none"
  <2>1. RestOK'
      BY <1>8, <1>1 DEF NotePromote, RestOK
  <2>2. PICK cs \in Statuses : cmd' = [cmd EXCEPT ![r] = cs] /\ cs = cmd[r]
      BY <1>8, <1>1, Same DEF NotePromote
  <2>3. row \in Row /\ step \in DriverSteps
      BY <1>8, <1>1 DEF NotePromote, Row, DriverSteps, RecoveryStates, Terminal
  <2>4. Moved(r, row, step, cs)
      BY <1>8, <2>2, Same DEF NotePromote, Moved, SetRow, Goes
  <2>5. Holds(row, step, cs) /\ Ends(journal[r], row)
      BY <1>8, <1>1, <2>2 DEF NotePromote, Holds, Ends, Terminal
  <2> QED BY <2>1, <2>2, <2>3, <2>4, <2>5, MoveBy
<1>9. CASE AbortStart(r)
  <2>1. RestOK'
      BY <1>9, <1>1, StartInLine DEF AbortStart, Fault, NoFault, RestOK
  <2>2. PICK cs \in Statuses : cmd' = [cmd EXCEPT ![r] = cs] /\ cs.promote = cmd[r].promote
      BY <1>9, <1>1, Same, CmdSet DEF AbortStart, QueueStart, Commands, FenceSteps, Live
  <2>3. Moved(r, journal[r], "end", cs)
      BY <1>9, <2>2, Same DEF AbortStart, Moved, Goes
  <2>4. Holds(journal[r], "end", cs) /\ Ends(journal[r], journal[r])
      BY <1>1, <2>2 DEF Holds, Ends
  <2> QED BY <1>1, <2>1, <2>2, <2>3, <2>4, MoveBy DEF DriverSteps
<1>10. CASE AbortEnd(r)
  <2> DEFINE row == Locked(r, Blocked(journal[r]))
             step == "none"
  <2>1. RestOK'
      BY <1>10, <1>1 DEF AbortEnd, RestOK
  <2>2. PICK cs \in Statuses : cmd' = [cmd EXCEPT ![r] = cs] /\ cs = cmd[r]
      BY <1>10, <1>1, Same DEF AbortEnd
  <2>3. row \in Row /\ step \in DriverSteps
      BY <1>10, <1>1 DEF AbortEnd, Row, DriverSteps, RecoveryStates, Terminal, Locked, Blocked, InFlight
  <2>4. Moved(r, row, step, cs)
      BY <1>10, <2>2, Same DEF AbortEnd, Moved, SetRow, Goes
  <2>5. Holds(row, step, cs) /\ Ends(journal[r], row)
      BY <1>10, <1>1, <2>2 DEF AbortEnd, Holds, Ends, Terminal, Locked, Blocked, InFlight
  <2> QED BY <2>1, <2>2, <2>3, <2>4, <2>5, MoveBy
<1>11. CASE ClaimPromote(r)
  <2> DEFINE row == IF journal[r].state \in {"fencing", "promoting"}
                    THEN [journal[r] EXCEPT !.state = "repointing"] ELSE journal[r]
             step == IF journal[r].state \in {"fencing", "promoting"} THEN "fanout" ELSE "none"
  <2>1. RestOK'
      BY <1>11, <1>1 DEF ClaimPromote, RestOK
  <2>2. PICK cs \in Statuses : cmd' = [cmd EXCEPT ![r] = cs] /\ cs = cmd[r]
      BY <1>11, <1>1, Same DEF ClaimPromote
  <2>3. row \in Row /\ step \in DriverSteps
      BY <1>11, <1>1 DEF ClaimPromote, Row, DriverSteps, RecoveryStates, Terminal
  <2>4. Moved(r, row, step, cs)
      BY <1>11, <2>2, Same DEF ClaimPromote, Moved, SetRow, Goes
  <2>5. Holds(row, step, cs) /\ Ends(journal[r], row)
      BY <1>11, <1>1, <2>2 DEF ClaimPromote, Holds, Ends, Terminal
  <2> QED BY <2>1, <2>2, <2>3, <2>4, <2>5, MoveBy
<1>12. CASE FanOut(r)
  <2> DEFINE row == Locked(r, [journal[r] EXCEPT !.state = "reconciling-ingress"])
             step == "none"
  <2>1. RestOK'
      BY <1>12, <1>1 DEF FanOut, RestOK
  <2>2. PICK cs \in Statuses : cmd' = [cmd EXCEPT ![r] = cs] /\ cs.promote = cmd[r].promote
      BY <1>12, <1>1, CmdSet DEF FanOut, Commands, FenceSteps, Live, Ended
  <2>3. row \in Row /\ step \in DriverSteps
      BY <1>12, <1>1 DEF FanOut, Row, DriverSteps, RecoveryStates, Terminal, Locked, InFlight
  <2>4. Moved(r, row, step, cs)
      BY <1>12, <2>2, Same DEF FanOut, Moved, SetRow, Goes
  <2>5. Holds(row, step, cs) /\ Ends(journal[r], row)
      BY <1>12, <1>1, <2>2 DEF FanOut, Holds, Ends, Terminal, Locked, InFlight
  <2> QED BY <2>1, <2>2, <2>3, <2>4, <2>5, MoveBy
<1>13. CASE CancelSteps(r)
  <2> DEFINE row == [journal[r] EXCEPT !.react = @ \/ (driver[r] = "recheck"
                                                   /\ host[r].stop # "none")]
  <2>1. RestOK'
      BY <1>13, <1>1 DEF CancelSteps, RestOK
  <2>2. row \in Row /\ row.state = journal[r].state
      BY <1>1 DEF Row
  <2>3. Moved(r, row, "none", Cancelled(r))
      BY <1>13, Same DEF CancelSteps, Moved, SetRow, Goes
  <2>4. Holds(row, "none", Cancelled(r)) /\ Ends(journal[r], row)
      BY <1>1, <2>2, CancelledFacts DEF Holds, Ends
  <2> QED BY <2>1, <2>2, <2>3, <2>4, CancelledFacts, MoveBy DEF DriverSteps
<1>14. CASE QueueRestart(r)
  <2> DEFINE row == [journal[r] EXCEPT !.todo = FALSE]
  <2>1. RestOK'
      BY <1>14, <1>1, StartInLine DEF QueueRestart, RestOK
  <2>2. PICK cs \in Statuses : cmd' = [cmd EXCEPT ![r] = cs] /\ cs.promote = cmd[r].promote
      BY <1>14, <1>1, Same, CmdSet DEF QueueRestart, QueueStart, Commands, FenceSteps, Live
  <2>3. row \in Row /\ Moved(r, row, "none", cs)
      BY <1>14, <1>1, <2>2, Same DEF QueueRestart, Moved, SetRow, Goes, Row
  <2>4. Holds(row, "none", cs) /\ Ends(journal[r], row)
      BY <1>1, <2>2 DEF Holds, Ends, Row
  <2> QED BY <2>1, <2>2, <2>3, <2>4, MoveBy DEF DriverSteps
<1> QED BY <1>2, <1>3, <1>4, <1>5, <1>6, <1>7, <1>8, <1>9, <1>10, <1>11, <1>12, <1>13, <1>14 DEF Driven

\* An answer, and a command given up on, is a move.
LEMMA AnsweredMoves ==
    ASSUME IInv, NEW r \in DOMAIN journal, Answered(r)
    PROVE  Moves(r)
<1>1. /\ journal[r] \in Row /\ driver[r] \in DriverSteps /\ cmd[r] \in Statuses
      /\ Holds(journal[r], driver[r], cmd[r]) /\ RestOK /\ r \in Rows
    BY RowFacts
<1>2. ASSUME NEW ok \in BOOLEAN, DrainAnswers(r, ok) PROVE Moves(r)
  <2>1. RestOK'
      BY <1>2, <1>1 DEF DrainAnswers, RestOK
  <2>2. PICK cs \in Statuses : cmd' = [cmd EXCEPT ![r] = cs] /\ cs.promote = cmd[r].promote
      BY <1>2, <1>1, CmdSet DEF DrainAnswers, Commands, FenceSteps, Live, Ended, Cancelled, Statuses
  <2>3. SettleFence(r, journal[r], "drain", ok, TRUE)
      BY <1>2 DEF DrainAnswers
  <2> QED BY <1>1, <2>1, <2>2, <2>3, SettleMoves DEF FenceSteps
<1>3. ASSUME NEW reported \in BOOLEAN, StopAnswers(r, reported) PROVE Moves(r)
  <2> DEFINE ok == host[r].stop = "ok"
             row == [journal[r] EXCEPT !.gtid = @ \/ (ok /\ reported /\ InFlight(r))]
  <2>1. RestOK'
      BY <1>3, <1>1 DEF StopAnswers, RestOK
  <2>2. PICK cs \in Statuses : cmd' = [cmd EXCEPT ![r] = cs] /\ cs.promote = cmd[r].promote
      BY <1>3, <1>1, CmdSet DEF StopAnswers, Commands, FenceSteps, Ended
  <2>3. SettleFence(r, row, "stop", ok, TRUE)
      BY <1>3 DEF StopAnswers
  <2>4. /\ row \in Row /\ ok \in BOOLEAN
        /\ row.state = journal[r].state /\ row.resumes = journal[r].resumes
      BY <1>1 DEF Row
  <2> HIDE DEF row, ok
  <2> QED BY <2>1, <2>2, <2>3, <2>4, SettleMoves DEF FenceSteps
<1>4. ASSUME StopGivenUp(r) PROVE Moves(r)
  <2>1. RestOK'
      BY <1>4, <1>1 DEF StopGivenUp, RestOK
  <2>2. PICK cs \in Statuses : cmd' = [cmd EXCEPT ![r] = cs] /\ cs.promote = cmd[r].promote
      BY <1>4, <1>1, CmdSet DEF StopGivenUp, Commands, FenceSteps, Live, Ended, Cancelled, Statuses
  <2>3. SettleFence(r, journal[r], "stop", FALSE, TRUE)
      BY <1>4 DEF StopGivenUp
  <2> QED BY <1>1, <2>1, <2>2, <2>3, SettleMoves DEF FenceSteps
<1>5. CASE StartEnds(r)
  <2> DEFINE row == journal[r]
             step == driver[r]
  <2>1. RestOK'
      BY <1>5, <1>1 DEF StartEnds, RestOK
  <2>2. PICK cs \in Statuses : cmd' = [cmd EXCEPT ![r] = cs] /\ cs.promote = cmd[r].promote
      BY <1>5, <1>1, CmdSet DEF StartEnds, Commands, FenceSteps, Live, Ended
  <2>3. row \in Row /\ step \in DriverSteps
      BY <1>5, <1>1 DEF StartEnds, Row, DriverSteps, RecoveryStates, Terminal
  <2>4. Moved(r, row, step, cs)
      BY <1>5, <2>2, Same DEF StartEnds, Moved, SetRow, Goes
  <2>5. Holds(row, step, cs) /\ Ends(journal[r], row)
      BY <1>5, <1>1, <2>2 DEF StartEnds, Holds, Ends, Terminal
  <2> QED BY <2>1, <2>2, <2>3, <2>4, <2>5, MoveBy
<1>6. CASE PromoteSucceeds(r)
  <2> DEFINE row == journal[r]
             step == "claim"
  <2>1. RestOK'
      BY <1>6, <1>1 DEF PromoteSucceeds, RestOK, Answers, HostStates, Commands, Codes
  <2>2. PICK cs \in Statuses : cmd' = [cmd EXCEPT ![r] = cs] /\ cs.promote = "over"
      BY <1>6, <1>1, CmdSet DEF PromoteSucceeds, Commands, FenceSteps, Live, Ended, Answers
  <2>3. row \in Row /\ step \in DriverSteps
      BY <1>6, <1>1 DEF PromoteSucceeds, Row, DriverSteps, RecoveryStates, Terminal
  <2>4. Moved(r, row, step, cs)
      BY <1>6, <2>2, Same DEF PromoteSucceeds, Moved, SetRow, Goes
  <2>5. Holds(row, step, cs) /\ Ends(journal[r], row)
      BY <1>6, <1>1, <2>2 DEF PromoteSucceeds, Holds, Ends, Terminal, Taken
  <2> QED BY <2>1, <2>2, <2>3, <2>4, <2>5, MoveBy
<1>7. CASE PromoteResumes(r)
  <2> DEFINE row == journal[r]
             step == IF primary = "A" THEN "resume" ELSE "claim"
  <2>1. RestOK'
      BY <1>7, <1>1 DEF PromoteResumes, RestOK, Answers, HostStates, Commands, Codes
  <2>2. PICK cs \in Statuses : cmd' = [cmd EXCEPT ![r] = cs] /\ cs.promote = "over"
      BY <1>7, <1>1, CmdSet DEF PromoteResumes, Commands, FenceSteps, Live, Ended, Answers
  <2>3. row \in Row /\ step \in DriverSteps
      BY <1>7, <1>1 DEF PromoteResumes, Row, DriverSteps, RecoveryStates, Terminal
  <2>4. Moved(r, row, step, cs)
      BY <1>7, <2>2, Same DEF PromoteResumes, Moved, SetRow, Goes
  <2>5. Holds(row, step, cs) /\ Ends(journal[r], row)
      BY <1>7, <1>1, <2>2 DEF PromoteResumes, Holds, Ends, Terminal, Taken, Resumes
  <2> QED BY <2>1, <2>2, <2>3, <2>4, <2>5, MoveBy
<1>8. CASE PromoteFails(r)
  <2> DEFINE row == IF Reactivates(journal[r], host[r].promote) THEN journal[r]
                    ELSE Locked(r, Failed(journal[r]))
             step == IF Reactivates(journal[r], host[r].promote) THEN "abort"
                     ELSE driver[r]
  <2>1. RestOK'
      BY <1>8, <1>1 DEF PromoteFails, RestOK, Answers, HostStates, Commands, Codes
  <2>2. PICK cs \in Statuses : cmd' = [cmd EXCEPT ![r] = cs] /\ cs.promote = "over"
      BY <1>8, <1>1, CmdSet DEF PromoteFails, Commands, FenceSteps, Live, Ended, Answers
  <2>3. row \in Row /\ step \in DriverSteps
      BY <1>8, <1>1 DEF PromoteFails, Row, DriverSteps, RecoveryStates, Terminal, Locked, Failed, InFlight
  <2>4. Moved(r, row, step, cs)
      BY <1>8, <2>2, Same DEF PromoteFails, Moved, SetRow, Goes
  <2>5. Holds(row, step, cs) /\ Ends(journal[r], row)
      BY <1>8, <1>1, <2>2 DEF PromoteFails, Holds, Ends, Terminal, Locked, Failed, InFlight, Taken
  <2> QED BY <2>1, <2>2, <2>3, <2>4, <2>5, MoveBy
<1>9. CASE PromoteGivenUp(r)
  <2> DEFINE row == Locked(r, Failed(journal[r]))
             step == driver[r]
  <2>1. RestOK'
      BY <1>9, <1>1 DEF PromoteGivenUp, RestOK
  <2>2. PICK cs \in Statuses : cmd' = [cmd EXCEPT ![r] = cs] /\ cs.promote = "over"
      BY <1>9, <1>1, CmdSet DEF PromoteGivenUp, Commands, FenceSteps, Live, Ended
  <2>3. row \in Row /\ step \in DriverSteps
      BY <1>9, <1>1 DEF PromoteGivenUp, Row, DriverSteps, RecoveryStates, Terminal, Locked, Failed, InFlight
  <2>4. Moved(r, row, step, cs)
      BY <1>9, <2>2, Same DEF PromoteGivenUp, Moved, SetRow, Goes
  <2>5. Holds(row, step, cs) /\ Ends(journal[r], row)
      BY <1>9, <1>1, <2>2 DEF PromoteGivenUp, Holds, Ends, Terminal, Locked, Failed, InFlight, Taken
  <2> QED BY <2>1, <2>2, <2>3, <2>4, <2>5, MoveBy
<1>10. ASSUME NEW ok \in BOOLEAN, IngressSettles(r, ok) PROVE Moves(r)
  <2> DEFINE row == IF journal[r].state # "reconciling-ingress" THEN journal[r]
                    ELSE [journal[r] EXCEPT !.state = IF ok THEN "completed"
                                                            ELSE "failed"]
             step == driver[r]
  <2>1. RestOK'
      BY <1>10, <1>1 DEF IngressSettles, RestOK
  <2>2. PICK cs \in Statuses : cmd' = [cmd EXCEPT ![r] = cs] /\ cs.promote = cmd[r].promote
      BY <1>10, <1>1, CmdSet DEF IngressSettles, Commands, FenceSteps, Live, Ended
  <2>3. row \in Row /\ step \in DriverSteps
      BY <1>10, <1>1 DEF IngressSettles, Row, DriverSteps, RecoveryStates, Terminal
  <2>4. Moved(r, row, step, cs)
      BY <1>10, <2>2, Same DEF IngressSettles, Moved, SetRow, Goes
  <2>5. Holds(row, step, cs) /\ Ends(journal[r], row)
      BY <1>10, <1>1, <2>2 DEF IngressSettles, Holds, Ends, Terminal
  <2> QED BY <2>1, <2>2, <2>3, <2>4, <2>5, MoveBy
<1> QED BY <1>2, <1>3, <1>4, <1>5, <1>6, <1>7, <1>8, <1>9, <1>10 DEF Answered

\* What the sweeps do with a row is a move.
LEMMA SweptMoves ==
    ASSUME IInv, NEW r \in DOMAIN journal, Swept(r)
    PROVE  Moves(r)
<1>1. /\ journal[r] \in Row /\ driver[r] \in DriverSteps /\ cmd[r] \in Statuses
      /\ Holds(journal[r], driver[r], cmd[r]) /\ RestOK /\ r \in Rows
    BY RowFacts
<1>2. ASSUME NEW k \in FenceSteps, StaleFenceStep(r, k) PROVE Moves(r)
  <2>1. RestOK'
      BY <1>2, <1>1 DEF StaleFenceStep, RestOK
  <2>2. PICK cs \in Statuses : cmd' = [cmd EXCEPT ![r] = cs] /\ cs.promote = cmd[r].promote
      BY <1>2, <1>1, CmdSet DEF StaleFenceStep, Commands, FenceSteps, Live, Ended, Cancelled, Statuses
  <2>3. SettleFence(r, journal[r], k, FALSE, FALSE)
      BY <1>2 DEF StaleFenceStep
  <2> QED BY <1>1, <2>1, <2>2, <2>3, SettleMoves DEF FenceSteps
<1>3. CASE AbandonDrains(r)
  <2>1. RestOK'
      BY <1>3, <1>1 DEF AbandonDrains, RestOK
  <2>2. cmd' = [cmd EXCEPT ![r] = Cancelled(r)]
      BY <1>3 DEF AbandonDrains
  <2>3. SettleFence(r, journal[r], "drain", FALSE, TRUE)
      BY <1>3 DEF AbandonDrains
  <2> QED BY <1>1, <2>1, <2>2, <2>3, CancelledFacts, SettleMoves DEF FenceSteps
<1>4. CASE DeadlineBlocks(r)
  <2> DEFINE switchover == journal[r].kind = "switchover"
             pending == "stop" \in journal[r].pending
             delivered == pending /\ host[r].stop # "none"
             row == [Blocked(journal[r]) EXCEPT !.todo = switchover,
                                                !.react = switchover /\ delivered]
             step == IF switchover /\ pending /\ ~delivered THEN "recheck" ELSE "cancel"
  <2>1. RestOK'
      BY <1>4, <1>1 DEF DeadlineBlocks, RestOK
  <2>2. row \in Row /\ row.state = "blocked" /\ step \in DriverSteps
      BY <1>1 DEF Row, Blocked, RecoveryStates, Terminal, DriverSteps
  <2>3. Moved(r, row, step, cmd[r])
      BY <1>4, Same DEF DeadlineBlocks, Moved, SetRow, Goes
  <2>4. Holds(row, step, cmd[r]) /\ Ends(journal[r], row)
      BY <2>2 DEF Holds, Ends, Terminal
  <2> HIDE DEF row, step
  <2> QED BY <1>1, <2>1, <2>2, <2>3, <2>4, MoveBy
<1>5. CASE CheckRestart(r)
  <2> DEFINE row == IF RestartStale(r) THEN [journal[r] EXCEPT !.todo = FALSE]
                    ELSE journal[r]
             step == IF RestartStale(r) THEN driver[r] ELSE "start"
  <2>1. RestOK'
      BY <1>5, <1>1 DEF CheckRestart, RestOK
  <2>2. PICK cs \in Statuses : cmd' = [cmd EXCEPT ![r] = cs] /\ cs = cmd[r]
      BY <1>5, <1>1, Same DEF CheckRestart
  <2>3. row \in Row /\ step \in DriverSteps
      BY <1>5, <1>1 DEF CheckRestart, Row, DriverSteps, RecoveryStates, Terminal
  <2>4. Moved(r, row, step, cs)
      BY <1>5, <2>2, Same DEF CheckRestart, Moved, SetRow, Goes
  <2>5. Holds(row, step, cs) /\ Ends(journal[r], row)
      BY <1>5, <1>1, <2>2 DEF CheckRestart, Holds, Ends, Terminal
  <2> QED BY <2>1, <2>2, <2>3, <2>4, <2>5, MoveBy
<1>6. CASE ExpireStale(r)
  <2> DEFINE row == IF journal[r].state = "fencing" /\ journal[r].pending = {}
                    THEN [journal[r] EXCEPT !.state = "blocked"]
                    ELSE Failed(journal[r])
             step == driver[r]
  <2>1. RestOK'
      BY <1>6, <1>1 DEF ExpireStale, RestOK
  <2>2. PICK cs \in Statuses : cmd' = [cmd EXCEPT ![r] = cs] /\ cs = cmd[r]
      BY <1>6, <1>1, Same DEF ExpireStale
  <2>3. row \in Row /\ step \in DriverSteps
      BY <1>6, <1>1 DEF ExpireStale, Row, DriverSteps, RecoveryStates, Terminal, Failed
  <2>4. Moved(r, row, step, cs)
      BY <1>6, <2>2, Same DEF ExpireStale, Moved, SetRow, Goes
  <2>5. Holds(row, step, cs) /\ Ends(journal[r], row)
      BY <1>6, <1>1, <2>2 DEF ExpireStale, Holds, Ends, Terminal, Failed
  <2> QED BY <2>1, <2>2, <2>3, <2>4, <2>5, MoveBy
<1> QED BY <1>2, <1>3, <1>4, <1>5, <1>6 DEF Swept

\* What the daemons do is a move.
LEMMA DaemonMoves ==
    ASSUME IInv, NEW r \in DOMAIN journal, Daemon(r)
    PROVE  Moves(r)
<1>1. /\ journal[r] \in Row /\ driver[r] \in DriverSteps /\ cmd[r] \in Statuses
      /\ Holds(journal[r], driver[r], cmd[r]) /\ RestOK /\ r \in Rows
    BY RowFacts
<1>2. ASSUME NEW k \in {"stop", "start", "promote"}, Send(r, k) PROVE Moves(r)
  <2> DEFINE row == journal[r]
             step == driver[r]
  <2>1. RestOK'
      BY <1>2, <1>1 DEF Send, RestOK, HostStates, Commands, FenceSteps
  <2>2. PICK cs \in Statuses : cmd' = [cmd EXCEPT ![r] = cs] /\ cs.promote = IF k = "promote" THEN "sent" ELSE cmd[r].promote
      BY <1>2, <1>1, CmdSet DEF Send, Commands, FenceSteps, Live, Ended
  <2>3. row \in Row /\ step \in DriverSteps
      BY <1>2, <1>1 DEF Send, Row, DriverSteps, RecoveryStates, Terminal
  <2>4. Moved(r, row, step, cs)
      BY <1>2, <2>2, Same DEF Send, Moved, SetRow, Goes
  <2>5. Holds(row, step, cs) /\ Ends(journal[r], row)
      BY <1>2, <1>1, <2>2 DEF Send, Holds, Ends, Terminal
  <2> QED BY <2>1, <2>2, <2>3, <2>4, <2>5, MoveBy
<1>3. CASE PromoteStarts(r)
  <2> DEFINE row == journal[r]
             step == driver[r]
  <2>1. RestOK'
      BY <1>3, <1>1 DEF PromoteStarts, RestOK, HostStates, Commands
  <2>2. PICK cs \in Statuses : cmd' = [cmd EXCEPT ![r] = cs] /\ cs = cmd[r]
      BY <1>3, <1>1, Same DEF PromoteStarts
  <2>3. row \in Row /\ step \in DriverSteps
      BY <1>3, <1>1 DEF PromoteStarts, Row, DriverSteps, RecoveryStates, Terminal
  <2>4. Moved(r, row, step, cs)
      BY <1>3, <2>2, Same DEF PromoteStarts, Moved, SetRow, Goes
  <2>5. Holds(row, step, cs) /\ Ends(journal[r], row)
      BY <1>3, <1>1, <2>2 DEF PromoteStarts, Holds, Ends, Terminal
  <2> QED BY <2>1, <2>2, <2>3, <2>4, <2>5, MoveBy
<1>4. ASSUME NEW outcome \in Codes \cup {"ok"}, PromoteEnds(r, outcome) PROVE Moves(r)
  <2> DEFINE row == journal[r]
             step == driver[r]
  <2>1. RestOK'
      BY <1>4, <1>1 DEF PromoteEnds, RestOK, HostStates, Commands
  <2>2. PICK cs \in Statuses : cmd' = [cmd EXCEPT ![r] = cs] /\ cs = cmd[r]
      BY <1>4, <1>1, Same DEF PromoteEnds
  <2>3. row \in Row /\ step \in DriverSteps
      BY <1>4, <1>1 DEF PromoteEnds, Row, DriverSteps, RecoveryStates, Terminal
  <2>4. Moved(r, row, step, cs)
      BY <1>4, <2>2, Same DEF PromoteEnds, Moved, SetRow, Goes
  <2>5. Holds(row, step, cs) /\ Ends(journal[r], row)
      BY <1>4, <1>1, <2>2 DEF PromoteEnds, Holds, Ends, Terminal
  <2> QED BY <2>1, <2>2, <2>3, <2>4, <2>5, MoveBy
<1> QED BY <1>2, <1>3, <1>4 DEF Daemon

\* A refused queue write and a process that dies are moves.
LEMMA FailsMoves ==
    ASSUME IInv, NEW r \in DOMAIN journal, Fails(r)
    PROVE  Moves(r)
<1>1. /\ journal[r] \in Row /\ driver[r] \in DriverSteps /\ cmd[r] \in Statuses
      /\ Holds(journal[r], driver[r], cmd[r]) /\ RestOK /\ r \in Rows
    BY RowFacts
<1>2. CASE PublishDrainFails(r)
  <2> DEFINE row == Settlement(journal[r], "drain", FALSE)
  <2>1. RestOK'
      BY <1>2, <1>1 DEF PublishDrainFails, RestOK, Fault
  <2>2. PICK cs \in Statuses : cmd' = [cmd EXCEPT ![r] = cs] /\ cs.promote = cmd[r].promote
      BY <1>2, <1>1, CmdSet DEF PublishDrainFails, Commands, FenceSteps, Ended
  <2>3. row \in Row /\ (journal[r].state # "fencing" => row.state = journal[r].state)
      BY <1>1, SettlementFacts DEF FenceSteps
  <2>4. Moved(r, row, "stop", cs)
      BY <1>2, <2>2 DEF PublishDrainFails, Moved, SetRow, Goes
  <2>5. Holds(row, "stop", cs) /\ Ends(journal[r], row)
      BY <1>1, <2>2, <2>3 DEF Holds, Ends, Terminal
  <2> QED BY <2>1, <2>2, <2>3, <2>4, <2>5, MoveBy DEF DriverSteps
<1>3. CASE PublishStopFails(r)
  <2> DEFINE row == IF journal[r].state = "fencing"
                    THEN [journal[r] EXCEPT !.state = "blocked",
                                            !.pending = @ \ {"stop"}]
                    ELSE journal[r]
             step == "none"
  <2>1. RestOK'
      BY <1>3, <1>1 DEF PublishStopFails, RestOK, Fault
  <2>2. PICK cs \in Statuses : cmd' = [cmd EXCEPT ![r] = cs] /\ cs.promote = cmd[r].promote
      BY <1>3, <1>1, CmdSet DEF PublishStopFails, Commands, FenceSteps, Live, Ended
  <2>3. row \in Row /\ step \in DriverSteps
      BY <1>3, <1>1 DEF PublishStopFails, Row, DriverSteps, RecoveryStates, Terminal
  <2>4. Moved(r, row, step, cs)
      BY <1>3, <2>2, Same DEF PublishStopFails, Moved, SetRow, Goes
  <2>5. Holds(row, step, cs) /\ Ends(journal[r], row)
      BY <1>3, <1>1, <2>2 DEF PublishStopFails, Holds, Ends, Terminal
  <2> QED BY <2>1, <2>2, <2>3, <2>4, <2>5, MoveBy
<1>4. CASE EnqueuePromoteFails(r)
  <2> DEFINE row == [journal[r] EXCEPT !.state = "blocked"]
             step == "none"
  <2>1. RestOK'
      BY <1>4, <1>1 DEF EnqueuePromoteFails, RestOK, Fault
  <2>2. PICK cs \in Statuses : cmd' = [cmd EXCEPT ![r] = cs] /\ cs.promote = "over"
      BY <1>4, <1>1, CmdSet DEF EnqueuePromoteFails, Commands, FenceSteps, Live, Ended
  <2>3. row \in Row /\ step \in DriverSteps
      BY <1>4, <1>1 DEF EnqueuePromoteFails, Row, DriverSteps, RecoveryStates, Terminal
  <2>4. Moved(r, row, step, cs)
      BY <1>4, <2>2, Same DEF EnqueuePromoteFails, Moved, SetRow, Goes
  <2>5. Holds(row, step, cs) /\ Ends(journal[r], row)
      BY <1>4, <1>1, <2>2 DEF EnqueuePromoteFails, Holds, Ends, Terminal
  <2> QED BY <2>1, <2>2, <2>3, <2>4, <2>5, MoveBy
<1>5. CASE FanOutFails(r)
  <2> DEFINE row == Locked(r, Failed(journal[r]))
             step == "none"
  <2>1. RestOK'
      BY <1>5, <1>1 DEF FanOutFails, RestOK, Fault
  <2>2. PICK cs \in Statuses : cmd' = [cmd EXCEPT ![r] = cs] /\ cs = cmd[r]
      BY <1>5, <1>1, Same DEF FanOutFails
  <2>3. row \in Row /\ step \in DriverSteps
      BY <1>5, <1>1 DEF FanOutFails, Row, DriverSteps, RecoveryStates, Terminal, Locked, Failed, InFlight
  <2>4. Moved(r, row, step, cs)
      BY <1>5, <2>2, Same DEF FanOutFails, Moved, SetRow, Goes
  <2>5. Holds(row, step, cs) /\ Ends(journal[r], row)
      BY <1>5, <1>1, <2>2 DEF FanOutFails, Holds, Ends, Terminal, Locked, Failed, InFlight
  <2> QED BY <2>1, <2>2, <2>3, <2>4, <2>5, MoveBy
<1>6. CASE QueueRestartFails(r)
  <2> DEFINE last == journal[r].attempts + 1 >= MaxAttempts
             row == IF last THEN Failed(journal[r])
                    ELSE [journal[r] EXCEPT !.attempts = @ + 1]
             cs == IF last THEN Cancelled(r) ELSE cmd[r]
  <2>1. RestOK'
      BY <1>6, <1>1 DEF QueueRestartFails, RestOK, Fault
  <2>2. cs \in Statuses /\ cs.promote = cmd[r].promote
      BY <1>1, CancelledFacts
  <2>3. row \in Row
      BY <1>1 DEF Row, Failed, RecoveryStates, Terminal
  <2>4. Moved(r, row, "none", cs)
      BY <1>6, Same DEF QueueRestartFails, Moved, SetRow, Goes
  <2>5. Holds(row, "none", cs) /\ Ends(journal[r], row)
      BY <1>1, <2>2 DEF Holds, Ends, Failed, Terminal, Row
  <2> QED BY <2>1, <2>2, <2>3, <2>4, <2>5, MoveBy DEF DriverSteps
<1>7. CASE DriverDies(r)
  <2> DEFINE row == journal[r]
             step == "none"
  <2>1. RestOK'
      BY <1>7, <1>1 DEF DriverDies, RestOK, Fault
  <2>2. PICK cs \in Statuses : cmd' = [cmd EXCEPT ![r] = cs] /\ cs = cmd[r]
      BY <1>7, <1>1, Same DEF DriverDies
  <2>3. row \in Row /\ step \in DriverSteps
      BY <1>7, <1>1 DEF DriverDies, Row, DriverSteps, RecoveryStates, Terminal
  <2>4. Moved(r, row, step, cs)
      BY <1>7, <2>2, Same DEF DriverDies, Moved, SetRow, Goes
  <2>5. Holds(row, step, cs) /\ Ends(journal[r], row)
      BY <1>7, <1>1, <2>2 DEF DriverDies, Holds, Ends, Terminal
  <2> QED BY <2>1, <2>2, <2>3, <2>4, <2>5, MoveBy
<1>8. ASSUME NEW k \in {"drain", "stop", "promote"}, ConsumerDies(r, k) PROVE Moves(r)
  <2> DEFINE row == journal[r]
             step == driver[r]
  <2>1. RestOK'
      BY <1>8, <1>1 DEF ConsumerDies, RestOK, Fault
  <2>2. PICK cs \in Statuses : cmd' = [cmd EXCEPT ![r] = cs] /\ cs.promote = IF k = "promote" THEN "orphan" ELSE cmd[r].promote
      BY <1>8, <1>1, CmdSet DEF ConsumerDies, Commands, FenceSteps, Live, Ended
  <2>3. row \in Row /\ step \in DriverSteps
      BY <1>8, <1>1 DEF ConsumerDies, Row, DriverSteps, RecoveryStates, Terminal
  <2>4. Moved(r, row, step, cs)
      BY <1>8, <2>2, Same DEF ConsumerDies, Moved, SetRow, Goes
  <2>5. Holds(row, step, cs) /\ Ends(journal[r], row)
      BY <1>8, <1>1, <2>2 DEF ConsumerDies, Holds, Ends, Terminal
  <2> QED BY <2>1, <2>2, <2>3, <2>4, <2>5, MoveBy
<1> QED BY <1>2, <1>3, <1>4, <1>5, <1>6, <1>7, <1>8 DEF Fails

-----------------------------------------------------------------------------
\* The invariant holds before the first recovery.
LEMMA InitIInv == Init => IInv
    BY DEF Init, IInv, TypeOK, Held, Fresh, Rows, DriverSteps, Commands, FenceSteps,
           Ended, HostStates

\* A recovery that begins has no promote.
LEMMA BeginKeeps ==
    ASSUME IInv, NEW kind \in Kinds, Begin(kind)
    PROVE  /\ IInv'
           /\ \A i \in DOMAIN journal : journal'[i] = journal[i]
<1> DEFINE r == Len(journal) + 1
<1>1. journal \in Seq(Row) /\ r \in Rows /\ journal' = Append(journal, NewRow(kind))
    BY DEF IInv, TypeOK, Begin
<1>2. NewRow(kind) \in Row
    BY DEF NewRow, Row, RecoveryStates
<1>3. /\ journal' \in Seq(Row) /\ Len(journal') = r /\ DOMAIN journal' = 1..r
      /\ DOMAIN journal = 1..Len(journal) /\ Len(journal) \in Nat
      /\ journal'[r] = NewRow(kind)
      /\ \A i \in DOMAIN journal : journal'[i] = journal[i]
    BY <1>1, <1>2
<1>4. /\ driver' = [driver EXCEPT ![r] = "fence"] /\ cmd' = cmd
      /\ driver \in [Rows -> DriverSteps] /\ "fence" \in DriverSteps
    BY DEF IInv, TypeOK, Begin, Goes, DriverSteps
<1>5. TypeOK'
    BY <1>1, <1>3, <1>4 DEF IInv, TypeOK, Begin, Rows
<1>6. Held'
  <2> SUFFICES ASSUME NEW i \in 1..r
               PROVE  Holds(journal'[i], driver'[i], cmd'[i])
      BY <1>3 DEF Held
  <2>1. CASE i = r
    <3>1. cmd[r].promote = "none"
        BY <1>1, <1>3 DEF IInv, Fresh
    <3>2. journal'[i].state = "fencing" /\ driver'[i] = "fence"
        BY <2>1, <1>1, <1>3, <1>4 DEF NewRow
    <3> QED BY <2>1, <3>1, <3>2, <1>4 DEF Holds
  <2>2. CASE i # r
    <3>1. i \in DOMAIN journal /\ i \in Rows
        BY <2>2, <1>1, <1>3 DEF Rows
    <3>2. driver'[i] = driver[i] /\ journal'[i] = journal[i]
        BY <2>2, <3>1, <1>3, <1>4
    <3> QED BY <3>1, <3>2, <1>4 DEF IInv, Held
  <2> QED BY <2>1, <2>2
<1>7. Fresh'
    BY <1>3, <1>4 DEF IInv, Fresh
<1> QED BY <1>3, <1>5, <1>6, <1>7 DEF IInv

\* A command that runs on A's server touches no recovery.
LEMMA RunsKeeps ==
    ASSUME IInv, Runs
    PROVE  IInv' /\ journal' = journal
<1>1. PICK i \in DOMAIN line, outcome \in {"ok", "error"} : RunOnA(i, outcome)
    BY DEF Runs
<1>2. TypeOK'
    BY <1>1 DEF RunOnA, IInv, TypeOK, HostStates, Codes
<1> QED BY <1>1, <1>2 DEF RunOnA, IInv, Held, Fresh

\* Every step keeps the invariant and no recovery that ended goes on.
LEMMA NextKeeps ==
    ASSUME IInv, [Next]_vars
    PROVE  IInv' /\ \A i \in DOMAIN journal : Ends(journal[i], journal'[i])
<1>1. ASSUME NEW kind \in Kinds, Begin(kind)
      PROVE  IInv' /\ \A i \in DOMAIN journal : Ends(journal[i], journal'[i])
    BY <1>1, BeginKeeps DEF Ends
<1>2. ASSUME NEW r \in DOMAIN journal,
             Driven(r) \/ Answered(r) \/ Swept(r) \/ Daemon(r) \/ Fails(r)
      PROVE  IInv' /\ \A i \in DOMAIN journal : Ends(journal[i], journal'[i])
  <2>1. Moves(r)
      BY <1>2, DrivenMoves, AnsweredMoves, SweptMoves, DaemonMoves, FailsMoves
  <2> QED BY <2>1, MovesKeep
<1>3. CASE Runs
    BY <1>3, RunsKeeps DEF Ends
<1>4. CASE UNCHANGED vars
    BY <1>4 DEF vars, IInv, TypeOK, Held, Fresh, Ends
<1> QED BY <1>1, <1>2, <1>3, <1>4 DEF Next

\* The strengthened invariant holds in every reachable state.
THEOREM RecoveryInvariant == Spec => []IInv
<1>1. Init => IInv
    BY InitIInv
<1>2. IInv /\ [Next]_vars => IInv'
    BY NextKeeps
<1> QED BY <1>1, <1>2, PTL DEF Spec

\* Every row of the journal, command and daemon state has its type; the
\* resumes of a promote (resumeInterruptedPromote) and the attempts of an owed
\* start (finishAbortRestart) stay within their limits.
THEOREM RecoveryTypeOK == Spec => []TypeOK
    BY RecoveryInvariant, PTL DEF IInv

\* No process brings a recovery back that another one has ended, whichever of
\* the request, the consumers and the sweeps holds the row (updateRecovery and
\* updateRecoveryLocked).
THEOREM RecoveryStaysEnded == Spec => EndedStays
<1>1. IInv /\ [Next]_vars =>
          [\A r \in DOMAIN journal :
              journal[r].state \in Terminal => journal'[r].state \in Terminal]_vars
    BY NextKeeps DEF Ends
<1> QED BY <1>1, RecoveryInvariant, PTL DEF Spec, EndedStays

=============================================================================
