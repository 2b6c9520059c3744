--------------------------- MODULE LaneScheduler ---------------------------
(***************************************************************************)
(* The lanes of the self-hosted consumer (features/commands/               *)
(* command-lanes.ts, createLaneScheduler): tasks with the same key run one *)
(* after the other, tasks with different keys side by side up to a cap, and *)
(* a task may give its lane up before it ends.  The code is one JavaScript  *)
(* thread, so each call, with the pump at its end, is one step; the tasks   *)
(* it started run between the steps.                                        *)
(***************************************************************************)
EXTENDS Integers, FiniteSets, Sequences

CONSTANTS
    Tasks,          \* the tasks that can be in the scheduler at once; one that has
                    \* ended stands for the next one of its key
    Keys,           \* the lanes
    Key,            \* [Tasks -> Keys]
    MaxConcurrent   \* maxConcurrent, at least 1

ASSUME LaneAssumption ==
    /\ Key \in [Tasks -> Keys]
    /\ MaxConcurrent \in Nat \ {0}

VARIABLES
    pending,   \* lane.pending of each key, oldest first
    running,   \* keys whose lane has running = true
    ready,     \* idle lanes that have work, oldest first
    active,    \* tasks that hold a lane, as the code counts them
    task       \* "idle" (not handed in, or ended), "pending", "holding" or "released"

lanes == <<pending, running, ready, active>>
vars == <<lanes, task>>

\* The counter, the lanes and the tasks are well typed.
TypeOK ==
    /\ pending \in [Keys -> Seq(Tasks)]
    /\ running \subseteq Keys
    /\ ready \in Seq(Keys)
    /\ active \in 0 .. MaxConcurrent
    /\ task \in [Tasks -> {"idle", "pending", "holding", "released"}]

Init ==
    /\ pending = [k \in Keys |-> <<>>]
    /\ running = {}
    /\ ready = <<>>
    /\ active = 0
    /\ task = [t \in Tasks |-> "idle"]

\* pump() over the lanes p, with r of them running, q ready and n tasks active.  The
\* i-th lane it shifts off q gives its next job: the first one, unless q named the
\* lane before.
Place(q, i) == Cardinality({j \in 1..i : q[j] = q[i]})

\* The shifts among the first m that start a job; the others find no job.
Starts(p, q, m) == {i \in 1..m : Place(q, i) <= Len(p[q[i]])}

\* The loop goes on below the cap, until the list is empty.
GoesOn(p, q, n, m) ==
    n + Cardinality(Starts(p, q, m)) < MaxConcurrent /\ m < Len(q)

Shifts(p, q, n) ==
    CHOOSE m \in 0..Len(q) :
        ~GoesOn(p, q, n, m) /\ \A l \in 0..(m - 1) : GoesOn(p, q, n, l)

Pumped(p, r, q, n, t) ==
    LET m == Shifts(p, q, n)
        started == Starts(p, q, m)
        jobs == {p[q[i]][Place(q, i)] : i \in started}
        taken(k) == Cardinality({i \in started : q[i] = k})
    IN [pending |-> [k \in Keys |-> SubSeq(p[k], taken(k) + 1, Len(p[k]))],
        running |-> r \cup {q[i] : i \in started},
        ready |-> SubSeq(q, m + 1, Len(q)),
        active |-> n + Cardinality(started),
        task |-> [u \in Tasks |-> IF u \in jobs THEN "holding" ELSE t[u]]]

Pump(p, r, q, n, t) ==
    LET s == Pumped(p, r, q, n, t)
    IN /\ pending' = s.pending
       /\ running' = s.running
       /\ ready' = s.ready
       /\ active' = s.active
       /\ task' = s.task

IsReady(k) == \E i \in DOMAIN ready : ready[i] = k

\* Mutant: run() makes a lane ready without looking whether it already is.
SubmitAgain(t) ==
    LET k == Key[t] IN
    /\ task[t] = "idle"
    /\ Pump([pending EXCEPT ![k] = Append(@, t)], running,
            Append(ready, k), active, [task EXCEPT ![t] = "pending"])

\* run(): queue the task behind its lane, make an idle lane ready, pump.
Submit(t) ==
    LET k == Key[t] IN
    /\ task[t] = "idle"
    /\ Pump([pending EXCEPT ![k] = Append(@, t)], running,
            IF k \in running \/ IsReady(k) THEN ready ELSE Append(ready, k),
            active, [task EXCEPT ![t] = "pending"])

\* Mutant: the lane that is freed goes to the front of the line.
FreeLaneFirst(t, next) ==
    LET k == Key[t] IN
    Pump(pending, running \ {k},
         IF pending[k] # <<>> THEN <<k>> \o ready ELSE ready,
         active - 1, [task EXCEPT ![t] = next])

\* Mutant: a lane that is freed is not made ready again for the work it has.
FreeLaneForgets(t, next) ==
    Pump(pending, running \ {Key[t]}, ready, active - 1, [task EXCEPT ![t] = next])

\* The releaser of a task's lane, called for the first time.
FreeLane(t, next) ==
    LET k == Key[t] IN
    Pump(pending, running \ {k},
         IF pending[k] # <<>> THEN Append(ready, k) ELSE ready,
         active - 1, [task EXCEPT ![t] = next])

\* The task calls `release' and goes on.
Release(t) == task[t] = "holding" /\ FreeLane(t, "released")

\* Mutant: a task that gave its lane up frees it a second time when it ends.
EndFreesAgain(t) ==
    /\ task[t] \in {"holding", "released"}
    /\ FreeLane(t, "idle")

\* The task ends; its releaser does nothing when it was called before.
End(t) ==
    \/ task[t] = "holding" /\ FreeLane(t, "idle")
    \/ task[t] = "released" /\ task' = [task EXCEPT ![t] = "idle"] /\ UNCHANGED lanes

Next == \E t \in Tasks : Submit(t) \/ Release(t) \/ End(t)

\* A task that was started ends: every wait of the consumer has a limit.  Nothing is
\* assumed of the callers of run().
Spec == Init /\ [][Next]_vars /\ \A t \in Tasks : WF_vars(End(t))

-----------------------------------------------------------------------------
Holders(k) == {t \in Tasks : Key[t] = k /\ task[t] = "holding"}

\* "Commands for one server run one at a time": a lane has one holder, also while
\* tasks that gave theirs up go on and end later; and `activeCount' is what it says.
LaneExclusive ==
    /\ \A k \in Keys : Cardinality(Holders(k)) = IF k \in running THEN 1 ELSE 0
    /\ active = Cardinality(running)

\* No lane is forgotten and no slot is left unused: a lane with work that does not
\* run is in `ready' exactly once, no other is, and while one waits the cap is reached.
NoLaneForgotten ==
    /\ \A k \in Keys : Cardinality({i \in DOMAIN ready : ready[i] = k})
                       = IF k \notin running /\ pending[k] # <<>> THEN 1 ELSE 0
    /\ ready # <<>> => active = MaxConcurrent

\* "Lanes take turns when the cap is reached, so one busy server cannot starve the
\* rest": every task handed in is started, however many the other lanes are given.
EveryTaskStarts == \A t \in Tasks : task[t] = "pending" ~> task[t] # "pending"
=============================================================================
