-------------------------- MODULE MCLaneScheduler --------------------------
(* A small instance of LaneScheduler for TLC: three lanes, more than the    *)
(* cap lets run, and up to two tasks in each.  The pump is also compared    *)
(* with its loop, turn by turn.                                             *)
EXTENDS LaneScheduler, SequencesExt

MCKey == [t \in Tasks |-> CASE t \in {1, 2} -> "a" [] t \in {3, 4} -> "b" [] OTHER -> "c"]

\* One turn of the pump's loop with the next ready key: below the cap the key is
\* shifted off and its oldest job started; at the cap the rest stays as it is.
PumpTurn(s, k) ==
    IF s.active >= MaxConcurrent THEN [s EXCEPT !.ready = Append(@, k)]
    ELSE IF s.pending[k] = <<>> THEN s
    ELSE [s EXCEPT !.pending[k] = Tail(@),
                   !.running = @ \cup {k},
                   !.active = @ + 1,
                   !.task[Head(s.pending[k])] = "holding"]

PumpLoop(p, r, q, n, t) ==
    FoldLeft(PumpTurn, [pending |-> p, running |-> r, ready |-> <<>>, active |-> n,
                        task |-> t], q)

\* Pumped is what the loop of pump() computes, for every list of up to four ready
\* lanes (a lane named twice included), lanes without work and every count.
ASSUME PumpedIsTheLoop ==
    LET idle == [t \in Tasks |-> "idle"]
        work == [a: {<<>>, <<1>>, <<1, 2>>}, b: {<<>>, <<3>>}, c: {<<5, 6>>}]
    IN \A q \in UNION {[1..l -> Keys] : l \in 0..4}, p \in work, n \in 0..MaxConcurrent :
          Pumped(p, {}, q, n, idle) = PumpLoop(p, {}, q, n, idle)
=============================================================================
