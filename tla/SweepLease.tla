----------------------------- MODULE SweepLease -----------------------------
(***************************************************************************)
(* The lease of the offline sweep.  The cron starts one invocation a       *)
(* minute, each in whatever isolate the platform picks, so a slow one      *)
(* overlaps the next.  `tryBeginOfflineSweep' takes a row of the `lease'   *)
(* table by comparing what it read; `runOfflineSweep' then races its       *)
(* phases against the tick's deadline, all but one: the host-loss tick     *)
(* (`runHostLossAndReturnFenceFirst') is awaited for as long as it takes.  *)
(* A phase that loses its race is not stopped: it runs on until it is done *)
(* or the tick, having released the lease, closes its database client.     *)
(*                                                                         *)
(* An isolate of the model is one invocation at a time; its owner id is    *)
(* fresh (randomUUID), so an owner never comes back.                       *)
(***************************************************************************)
EXTENDS Integers, FiniteSets

CONSTANTS Isolates,     \* invocations that may overlap
          NoOwner,      \* the empty owner of a released lease
          NoRow,        \* the lease's row does not exist yet
          LeaseTime,    \* OFFLINE_SWEEP_LEASE_MS, or heldUntilMs when longer
          Budget,       \* OFFLINE_SWEEP_TICK_BUDGET_MS
          AcquireTime,  \* DB_OP_TIMEOUT_MS, of an acquisition and of a release
          CronEarly,    \* the cron fires no sooner after its last time than this,
          CronEvery,    \* and no later than this
          MaxFaults     \* crashes and lost answers

ASSUME LeaseAssumption ==
    /\ {LeaseTime, Budget, AcquireTime, CronEarly, CronEvery, MaxFaults} \subseteq Nat
    /\ AcquireTime < Budget
    /\ Budget + AcquireTime < LeaseTime
    /\ CronEarly <= CronEvery
    /\ NoOwner # NoRow
    /\ NoOwner \notin Isolates
    /\ NoRow \notin Isolates

VARIABLES lease,    \* the row: its owner, the time left until expiresAt
          step,     \* where each invocation is
          age,      \* time since its startedAtMs
          fresh,    \* is the lease still the one it read
          cron,     \* time since the cron last fired
          faults,   \* faults so far
          gap       \* history: time since the lease was last taken

vars == <<lease, step, age, fresh, cron, faults, gap>>

-----------------------------------------------------------------------------
\* `overrun': a phase that lost its race runs on and the lease is not released yet;
\* `close': it is, and the phase runs on until the client is closed.
Steps == {"idle", "insert", "read", "steal", "liveness", "hostloss", "optional", "overrun",
          "end", "close"}
MaxAge == LeaseTime             \* ages are counted up to here
LongestGap == LeaseTime + 2 * CronEvery + AcquireTime
Oldest == 0 - AcquireTime       \* how long past its expiry a lease is counted

TypeOK ==
    /\ lease \in [owner: Isolates \cup {NoOwner, NoRow}, left: Oldest .. LeaseTime]
    /\ step \in [Isolates -> Steps]
    /\ age \in [Isolates -> 0 .. MaxAge]
    /\ fresh \in [Isolates -> BOOLEAN]
    /\ cron \in 0 .. CronEvery
    /\ faults \in 0 .. MaxFaults
    /\ gap \in 0 .. LongestGap + 1

Init ==
    /\ lease = [owner |-> NoRow, left |-> 0]
    /\ step = [i \in Isolates |-> "idle"]
    /\ age = [i \in Isolates |-> 0]
    /\ fresh = [i \in Isolates |-> FALSE]
    /\ cron = 0
    /\ faults = 0
    /\ gap = 0

Acquiring(i) == step[i] \in {"insert", "read", "steal"}
Racing(i) == step[i] \in {"liveness", "optional"}    \* the phases that race the deadline
Sweeping(i) == Racing(i) \/ step[i] = "overrun"

Goto(i, s) == step' = [step EXCEPT ![i] = s]
Fault == faults < MaxFaults /\ faults' = faults + 1

\* A write of the row: whoever had read it holds an old value.
SetLease(owner, left) ==
    /\ lease' = [owner |-> owner, left |-> left]
    /\ fresh' = [i \in Isolates |-> FALSE]

\* Mutant: the invocation's limit is added to the TTL instead of compared with it.
TakeLonger(i) == SetLease(i, LeaseTime + Budget - age[i]) /\ gap' = 0

\* nextSweepLockValue: the expiry counts from the invocation's start.
Take(i) == SetLease(i, LeaseTime - age[i]) /\ gap' = 0

-----------------------------------------------------------------------------
CronFires(i) ==
    /\ cron >= CronEarly
    /\ step[i] = "idle"
    /\ cron' = 0
    /\ Goto(i, "insert")
    /\ age' = [age EXCEPT ![i] = 0]
    /\ UNCHANGED <<lease, fresh, faults, gap>>

\* The bound on Isolates: every invocation of the model is busy.
CronDropped ==
    /\ cron = CronEvery
    /\ \A i \in Isolates : step[i] # "idle"
    /\ cron' = 0
    /\ gap' = 0
    /\ UNCHANGED <<lease, step, age, fresh, faults>>

\* tryBeginOfflineSweep: insert ... on conflict do nothing,
Insert(i) ==
    /\ step[i] = "insert"
    /\ IF lease.owner = NoRow
       THEN Take(i) /\ Goto(i, "liveness")
       ELSE Goto(i, "read") /\ UNCHANGED <<lease, fresh, gap>>
    /\ UNCHANGED <<age, cron, faults>>

\* Mutant: a lease that is never judged expired.
StealableReleased(i) == lease.owner = NoOwner

\* then a select; expiry is judged at the invocation's start,
Stealable(i) == lease.owner = NoOwner \/ lease.left + age[i] <= 0

Read(i) ==
    /\ step[i] = "read"
    /\ IF Stealable(i)
       THEN Goto(i, "steal") /\ fresh' = [fresh EXCEPT ![i] = TRUE]
       ELSE Goto(i, "idle") /\ UNCHANGED fresh
    /\ UNCHANGED <<lease, age, cron, faults, gap>>

\* Mutant: a steal that does not compare what it read.
StealBlind(i) ==
    /\ step[i] = "steal"
    /\ Take(i)
    /\ Goto(i, "liveness")
    /\ UNCHANGED <<age, cron, faults>>

\* Mutant: a steal that does not return the lock.
StealForgets(i) ==
    /\ step[i] = "steal"
    /\ IF fresh[i] THEN Take(i) ELSE UNCHANGED <<lease, fresh, gap>>
    /\ Goto(i, "idle")
    /\ UNCHANGED <<age, cron, faults>>

\* then an update that compares the owner and the expiry that were read.
Steal(i) ==
    /\ step[i] = "steal"
    /\ IF fresh[i]
       THEN Take(i) /\ Goto(i, "liveness")
       ELSE Goto(i, "idle") /\ UNCHANGED <<lease, fresh, gap>>
    /\ UNCHANGED <<age, cron, faults>>

\* The acquisition fails, or its isolate dies, before it wrote ...
AcquireFails(i) ==
    /\ Acquiring(i)
    /\ Fault
    /\ Goto(i, "idle")
    /\ gap' = 0
    /\ UNCHANGED <<lease, age, fresh, cron>>

\* ... or after: the lease is taken by an invocation that does not know it.
AcquireLost(i) ==
    /\ \/ step[i] = "insert" /\ lease.owner = NoRow
       \/ step[i] = "steal" /\ fresh[i]
    /\ Fault
    /\ Take(i)
    /\ Goto(i, "idle")
    /\ UNCHANGED <<age, cron>>

-----------------------------------------------------------------------------
\* runBoundedPhase('liveness'): done in time,
LivenessDone(i) ==
    /\ step[i] = "liveness"
    /\ Goto(i, "hostloss")
    /\ UNCHANGED <<lease, age, fresh, cron, faults, gap>>

\* or the deadline passes: every later phase is skipped and this one runs on.
LivenessTimesOut(i) ==
    /\ step[i] = "liveness"
    /\ age[i] >= Budget
    /\ Goto(i, "overrun")
    /\ UNCHANGED <<lease, age, fresh, cron, faults, gap>>

\* runHostLossAndReturnFenceFirst, however late; runBoundedPhase then starts
\* an optional phase only before the deadline.
HostLossDone(i) ==
    /\ step[i] = "hostloss"
    /\ Goto(i, IF age[i] < Budget THEN "optional" ELSE "end")
    /\ UNCHANGED <<lease, age, fresh, cron, faults, gap>>

OptionalDone(i) ==
    /\ step[i] = "optional"
    /\ Goto(i, "end")
    /\ UNCHANGED <<lease, age, fresh, cron, faults, gap>>

\* An optional phase loses its race, with the deadline or, sooner, with the limit of
\* a database call: the rest are skipped and it runs on.
OptionalTimesOut(i) ==
    /\ step[i] = "optional"
    /\ Goto(i, "overrun")
    /\ UNCHANGED <<lease, age, fresh, cron, faults, gap>>

\* It may be done before the release.
OverrunDone(i) ==
    /\ step[i] = "overrun"
    /\ Goto(i, "end")
    /\ UNCHANGED <<lease, age, fresh, cron, faults, gap>>

Ending(i) == step[i] \in {"overrun", "end"}
Ended(i) == Goto(i, IF step[i] = "overrun" THEN "close" ELSE "idle")

\* Mutant: a release that does not compare the owner.
EndBlind(i) ==
    /\ Ending(i)
    /\ SetLease(NoOwner, 0)
    /\ Ended(i)
    /\ UNCHANGED <<age, cron, faults, gap>>

\* endOfflineSweep: the row is released where the owner is still this one.
End(i) ==
    /\ Ending(i)
    /\ IF lease.owner = i THEN SetLease(NoOwner, 0) ELSE UNCHANGED <<lease, fresh>>
    /\ Ended(i)
    /\ UNCHANGED <<age, cron, faults, gap>>

\* The release fails: `lease-release-failed' is logged, the lease stays.
EndFails(i) ==
    /\ Ending(i)
    /\ Fault
    /\ Ended(i)
    /\ UNCHANGED <<lease, age, fresh, cron, gap>>

\* endDbConnection: what runs on has no database any more.
Close(i) ==
    /\ step[i] = "close"
    /\ Goto(i, "idle")
    /\ UNCHANGED <<lease, age, fresh, cron, faults, gap>>

\* The isolate dies (memory limit, eviction).
Crash(i) ==
    /\ step[i] # "idle" /\ ~Acquiring(i)
    /\ Fault
    /\ Goto(i, "idle")
    /\ UNCHANGED <<lease, age, fresh, cron, gap>>

-----------------------------------------------------------------------------
\* The clock waits for what the code bounds: the acquisition, the phases that
\* race the deadline, the release after a lost race, and the cron.
Tick ==
    /\ \A i \in Isolates : /\ Acquiring(i) => age[i] < AcquireTime
                           /\ Racing(i) => age[i] < Budget
                           /\ step[i] = "overrun" => age[i] < Budget + AcquireTime
    /\ cron < CronEvery
    /\ cron' = cron + 1
    /\ age' = [i \in Isolates |->
                 IF step[i] # "idle" /\ age[i] < MaxAge THEN age[i] + 1 ELSE age[i]]
    /\ lease' = [lease EXCEPT !.left = IF @ > Oldest THEN @ - 1 ELSE @]
    /\ gap' = IF gap <= LongestGap THEN gap + 1 ELSE gap
    /\ UNCHANGED <<step, fresh, faults>>

Invocation(i) ==
    \/ Insert(i) \/ Read(i) \/ Steal(i)
    \/ LivenessDone(i) \/ LivenessTimesOut(i)
    \/ HostLossDone(i) \/ OptionalDone(i) \/ OptionalTimesOut(i) \/ OverrunDone(i)
    \/ End(i) \/ Close(i)

Fails(i) == AcquireFails(i) \/ AcquireLost(i) \/ EndFails(i) \/ Crash(i)

Next ==
    \/ \E i \in Isolates : CronFires(i) \/ Invocation(i) \/ Fails(i)
    \/ CronDropped
    \/ Tick

\* The cron fires, time passes, and every await of an invocation that does not
\* die ends: Postgres calls are raced, and the platform ends a cron invocation
\* whose host-loss tick hangs.
Fairness ==
    /\ WF_vars(\E i \in Isolates : CronFires(i))
    /\ WF_vars(Tick)
    /\ WF_vars(CronDropped)
    /\ \A i \in Isolates : WF_vars(Invocation(i))

Spec == Init /\ [][Next]_vars /\ Fairness

-----------------------------------------------------------------------------
\* Until an invocation releases the lease, no other demotes, heals or runs the optional
\* phases, though a phase that lost its race runs on (raceWithTimeout): not when the
\* holder's lease ran out in a host-loss tick that outlives it, and not when an
\* invocation that lost its lease releases late.  Between the release and the close
\* of the client nothing keeps such a phase from overlapping the next tick.
SweepersAlone ==
    \A i, j \in Isolates : Sweeping(i) /\ Sweeping(j) => i = j

\* The lease an invocation works under is its own, with time left, for as long as it
\* is in a phase that races the deadline, or has lost the race and not released yet
\* (`expiresAt' covers the enforced runtime, a bounded release included).
SweeperHoldsLease ==
    \A i \in Isolates : Sweeping(i) => lease.owner = i /\ lease.left > 0

\* OFFLINE_SWEEP_LEASE_MS is sized so that a holder that died cannot block
\* offline detection for long: the lease is taken again within LeaseTime, the
\* limit of an acquisition and two ticks, unless an acquisition itself fails.
\* (The second tick is lost when a holder that outlived its lease releases it
\* between another invocation's select and update.)
DetectionResumes == gap <= LongestGap

\* Offline detection goes on: the liveness phase runs again and again, through
\* crashes, lost leases and host-loss ticks that take longer than the lease.
SweepGoesOn == []<>(\E i \in Isolates : step[i] = "liveness")
=============================================================================
