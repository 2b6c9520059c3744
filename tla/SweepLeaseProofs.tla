-------------------------- MODULE SweepLeaseProofs --------------------------
(***************************************************************************)
(* For every number of isolates and every setting of the limits with       *)
(* AcquireTime < Budget and Budget + AcquireTime < LeaseTime, the phases   *)
(* of the offline sweep that race the deadline are run by one invocation   *)
(* at a time, one that lost its race counted until the release; and the    *)
(* lease is taken again in bounded time when an acquisition is shorter     *)
(* than the time between two firings of the cron.                          *)
(***************************************************************************)
EXTENDS SweepLease, TLAPS

\* An invocation that took the lease and is not past its deadline, or lost its race
\* with it and is about to release.
Working(i) ==
    \/ step[i] \in {"liveness", "hostloss", "optional"} /\ age[i] <= Budget
    \/ step[i] = "overrun"

\* The clock waits for an acquisition, for the phases that race, and for the release
\* after a lost race.
InTime ==
    \A i \in Isolates : /\ Acquiring(i) => age[i] <= AcquireTime
                        /\ Racing(i) => age[i] <= Budget
                        /\ step[i] = "overrun" => age[i] <= Budget + AcquireTime

\* Such an invocation still owns the lease, which runs out LeaseTime after the
\* invocation's start.
WorkerOwns ==
    \A i \in Isolates : Working(i) =>
        lease.owner = i /\ lease.left + age[i] = LeaseTime

\* What an invocation is about to steal is still free or expired.
StillStealable ==
    \A i \in Isolates : step[i] = "steal" /\ fresh[i] =>
        lease.owner = NoOwner \/ lease.left + age[i] <= 0

IInv == TypeOK /\ InTime /\ WorkerOwns /\ StillStealable

USE LeaseAssumption

\* The type invariant holds in the first state.
LEMMA InitTypeOK == Init => TypeOK
BY DEF Init, TypeOK, Oldest, LongestGap, Steps, MaxAge

\* Taking the lease at the end of an acquisition keeps its type.
LEMMA TakeType ==
    ASSUME TypeOK, NEW i \in Isolates, age[i] <= AcquireTime, Take(i)
    PROVE  /\ lease' \in [owner: Isolates \cup {NoOwner, NoRow}, left: Oldest .. LeaseTime]
           /\ fresh' \in [Isolates -> BOOLEAN]
           /\ gap' = 0
BY DEF TypeOK, Take, SetLease, Oldest, MaxAge

\* Every step keeps the type invariant.
LEMMA NextTypeOK == TypeOK /\ InTime /\ [Next]_vars => TypeOK'
<1> SUFFICES ASSUME TypeOK, InTime, [Next]_vars PROVE TypeOK'
  OBVIOUS
<1> USE DEF TypeOK, Steps
<1>1. ASSUME NEW i \in Isolates, CronFires(i) PROVE TypeOK'
  BY <1>1 DEF CronFires, Goto, MaxAge
<1>2. ASSUME NEW i \in Isolates, Insert(i) PROVE TypeOK'
  <2>1. CASE lease.owner = NoRow
    <3>1. age[i] <= AcquireTime /\ Take(i) /\ Goto(i, "liveness")
          /\ UNCHANGED <<age, cron, faults>>
      BY <1>2, <2>1 DEF Insert, InTime, Acquiring
    <3> QED BY <3>1, TakeType DEF Goto, LongestGap
  <2>2. CASE lease.owner # NoRow
    BY <1>2, <2>2 DEF Insert, Goto
  <2> QED BY <2>1, <2>2
<1>3. ASSUME NEW i \in Isolates, Read(i) PROVE TypeOK'
  BY <1>3 DEF Read, Goto
<1>4. ASSUME NEW i \in Isolates, Steal(i) PROVE TypeOK'
  <2>1. CASE fresh[i]
    <3>1. age[i] <= AcquireTime /\ Take(i) /\ Goto(i, "liveness")
          /\ UNCHANGED <<age, cron, faults>>
      BY <1>4, <2>1 DEF Steal, InTime, Acquiring
    <3> QED BY <3>1, TakeType DEF Goto, LongestGap
  <2>2. CASE ~fresh[i]
    BY <1>4, <2>2 DEF Steal, Goto
  <2> QED BY <2>1, <2>2
<1>5. ASSUME NEW i \in Isolates,
             \/ LivenessDone(i) \/ LivenessTimesOut(i) \/ HostLossDone(i) \/ OptionalDone(i)
             \/ OptionalTimesOut(i) \/ OverrunDone(i) \/ Close(i)
      PROVE TypeOK'
  BY <1>5 DEF LivenessDone, LivenessTimesOut, HostLossDone, OptionalDone, OptionalTimesOut,
         OverrunDone, Close, Goto
<1>6. ASSUME NEW i \in Isolates, End(i) PROVE TypeOK'
  <2>1. CASE lease.owner = i
    <3>1. 0 \in Oldest .. LeaseTime
      BY DEF Oldest
    <3>2. lease' = [owner |-> NoOwner, left |-> 0] /\ fresh' = [k \in Isolates |-> FALSE]
          /\ step' \in [Isolates -> Steps] /\ UNCHANGED <<age, cron, faults, gap>>
      BY <1>6, <2>1 DEF End, Ending, Ended, Goto, SetLease
    <3> QED BY <3>1, <3>2
  <2>2. CASE lease.owner # i
    BY <1>6, <2>2 DEF End, Ending, Ended, Goto
  <2> QED BY <2>1, <2>2
<1>7. ASSUME NEW i \in Isolates, AcquireFails(i) \/ EndFails(i) \/ Crash(i) PROVE TypeOK'
  BY <1>7 DEF AcquireFails, EndFails, Ending, Ended, Crash, Goto, Fault, LongestGap
<1>8. ASSUME NEW i \in Isolates, AcquireLost(i) PROVE TypeOK'
  <2>1. age[i] <= AcquireTime /\ Take(i) /\ Goto(i, "idle") /\ Fault
        /\ UNCHANGED <<age, cron>>
    BY <1>8 DEF AcquireLost, InTime, Acquiring
  <2> QED BY <2>1, TakeType DEF Goto, Fault, LongestGap
<1>9. CASE CronDropped
  BY <1>9 DEF CronDropped, LongestGap
<1>10. CASE Tick
  BY <1>10 DEF Tick, Oldest, LongestGap, MaxAge
<1>11. CASE UNCHANGED vars
  BY <1>11 DEF vars
<1> QED
  BY <1>1, <1>2, <1>3, <1>4, <1>5, <1>6, <1>7, <1>8, <1>9, <1>10, <1>11
  DEF Next, Invocation, Fails

-----------------------------------------------------------------------------
\* No acquisition and no phase that races outlasts its limit.
LEMMA NextInTime == TypeOK /\ InTime /\ [Next]_vars => InTime'
<1> SUFFICES ASSUME TypeOK, InTime, [Next]_vars,
                    NEW k \in Isolates
             PROVE  /\ Acquiring(k)' => age'[k] <= AcquireTime
                    /\ Racing(k)' => age'[k] <= Budget
                    /\ step'[k] = "overrun" => age'[k] <= Budget + AcquireTime
  BY DEF InTime, Acquiring, Racing
<1> USE DEF InTime, TypeOK, Acquiring, Racing
<1>1. ASSUME NEW i \in Isolates, CronFires(i)
      PROVE  /\ Acquiring(k)' => age'[k] <= AcquireTime
             /\ Racing(k)' => age'[k] <= Budget
             /\ step'[k] = "overrun" => age'[k] <= Budget + AcquireTime
  BY <1>1 DEF CronFires, Goto
<1>2. ASSUME NEW i \in Isolates, Invocation(i)
      PROVE  /\ Acquiring(k)' => age'[k] <= AcquireTime
             /\ Racing(k)' => age'[k] <= Budget
             /\ step'[k] = "overrun" => age'[k] <= Budget + AcquireTime
  <2>1. UNCHANGED age
    BY <1>2 DEF Invocation, Insert, Read, Steal, LivenessDone, LivenessTimesOut,
                HostLossDone, OptionalDone, OptionalTimesOut, OverrunDone, Close, Ending, Ended, End
  <2>2. CASE k # i
    <3>1. step'[k] = step[k]
      BY <1>2, <2>2 DEF Invocation, Insert, Read, Steal, LivenessDone, LivenessTimesOut,
                        HostLossDone, OptionalDone, OptionalTimesOut, OverrunDone, Close, Ending,
                        Ended, End, Goto
    <3> QED BY <2>1, <3>1
  <2>3. CASE k = i
    BY <1>2, <2>1, <2>3 DEF Invocation, Insert, Read, Steal, LivenessDone,
         LivenessTimesOut, HostLossDone, OptionalDone, OptionalTimesOut, OverrunDone, Close,
         Ending, Ended, End, Goto
  <2> QED BY <2>2, <2>3
<1>3. ASSUME NEW i \in Isolates, Fails(i)
      PROVE  /\ Acquiring(k)' => age'[k] <= AcquireTime
             /\ Racing(k)' => age'[k] <= Budget
             /\ step'[k] = "overrun" => age'[k] <= Budget + AcquireTime
  <2>1. UNCHANGED age /\ (Goto(i, "idle") \/ Goto(i, "close"))
    BY <1>3 DEF Fails, AcquireFails, AcquireLost, EndFails, Ending, Ended, Crash
  <2> QED BY <2>1 DEF Goto
<1>4. CASE CronDropped
  BY <1>4 DEF CronDropped
<1>5. CASE Tick
  BY <1>5 DEF Tick
<1>6. CASE UNCHANGED vars
  BY <1>6 DEF vars
<1> QED BY <1>1, <1>2, <1>3, <1>4, <1>5, <1>6 DEF Next

\* An invocation takes the lease only when nobody works under it.
LEMMA TakenWhenFree ==
    ASSUME IInv, NEW i \in Isolates,
           \/ step[i] = "insert" /\ lease.owner = NoRow
           \/ step[i] = "steal" /\ fresh[i]
    PROVE  \A k \in Isolates : ~Working(k)
<1> SUFFICES ASSUME NEW k \in Isolates, Working(k) PROVE FALSE
  OBVIOUS
<1>1. lease.owner = k /\ lease.left + age[k] = LeaseTime /\ age[k] <= Budget + AcquireTime
  BY DEF IInv, WorkerOwns, Working, InTime, TypeOK, MaxAge
<1>2. lease.left > 0
  BY <1>1 DEF IInv, TypeOK, Oldest
<1>3. CASE step[i] = "steal" /\ fresh[i]
  <2>1. lease.left + age[i] <= 0
    BY <1>1, <1>3 DEF IInv, StillStealable
  <2> QED BY <1>2, <2>1 DEF IInv, TypeOK, Oldest, MaxAge
<1> QED BY <1>1, <1>3

\* An invocation that works owns the lease: the lease changes hands only when
\* nobody works, and is released only by its owner.
LEMMA NextWorkerOwns == IInv /\ [Next]_vars => WorkerOwns'
<1> SUFFICES ASSUME IInv, [Next]_vars, NEW k \in Isolates, Working(k)'
             PROVE  lease'.owner = k /\ lease'.left + age'[k] = LeaseTime
  BY DEF WorkerOwns, Working
<1> USE DEF IInv, TypeOK
<1>1. ASSUME NEW i \in Isolates, CronFires(i)
      PROVE  lease'.owner = k /\ lease'.left + age'[k] = LeaseTime
  <2>1. k # i
    BY <1>1 DEF CronFires, Goto, Working
  <2> QED BY <1>1, <2>1 DEF CronFires, Goto, Working, WorkerOwns
<1>2. ASSUME NEW i \in Isolates, Take(i), UNCHANGED age,
             \/ step[i] = "insert" /\ lease.owner = NoRow
             \/ step[i] = "steal" /\ fresh[i],
             Goto(i, "liveness") \/ Goto(i, "idle")
      PROVE  lease'.owner = k /\ lease'.left + age'[k] = LeaseTime
  <2>1. ~Working(k)
    BY <1>2, TakenWhenFree
  <2>2. k = i
    BY <1>2, <2>1 DEF Goto, Working
  <2> QED BY <1>2, <2>2 DEF Take, SetLease, MaxAge
<1>3. ASSUME NEW i \in Isolates, UNCHANGED <<lease, age>>,
             \E s \in {"idle", "read", "steal", "close"} : Goto(i, s)
      PROVE  lease'.owner = k /\ lease'.left + age'[k] = LeaseTime
  <2>1. k # i /\ Working(k)
    BY <1>3 DEF Goto, Working
  <2> QED BY <1>3, <2>1 DEF WorkerOwns
<1>4. ASSUME NEW i \in Isolates, Insert(i)
      PROVE  lease'.owner = k /\ lease'.left + age'[k] = LeaseTime
  BY <1>2, <1>3, <1>4 DEF Insert
<1>5. ASSUME NEW i \in Isolates, Read(i)
      PROVE  lease'.owner = k /\ lease'.left + age'[k] = LeaseTime
  BY <1>3, <1>5 DEF Read
<1>6. ASSUME NEW i \in Isolates, Steal(i)
      PROVE  lease'.owner = k /\ lease'.left + age'[k] = LeaseTime
  BY <1>2, <1>3, <1>6 DEF Steal
<1>7. ASSUME NEW i \in Isolates,
             \/ LivenessDone(i) \/ LivenessTimesOut(i) \/ HostLossDone(i) \/ OptionalDone(i)
             \/ OptionalTimesOut(i) \/ OverrunDone(i) \/ Close(i)
      PROVE  lease'.owner = k /\ lease'.left + age'[k] = LeaseTime
  <2>1. UNCHANGED <<lease, age>>
    BY <1>7 DEF LivenessDone, LivenessTimesOut, HostLossDone, OptionalDone, OptionalTimesOut,
         OverrunDone, Close
  <2>2. Working(k)
    BY <1>7, <2>1 DEF LivenessDone, LivenessTimesOut, HostLossDone, OptionalDone, OptionalTimesOut,
                            OverrunDone, Close, Goto, Working, InTime, Racing
  <2> QED BY <2>1, <2>2 DEF WorkerOwns
<1>8. ASSUME NEW i \in Isolates, End(i)
      PROVE  lease'.owner = k /\ lease'.left + age'[k] = LeaseTime
  <2>1. k # i /\ Working(k) /\ UNCHANGED age
    BY <1>8 DEF End, Ending, Ended, Goto, Working
  <2>2. lease.owner = k /\ lease.left + age[k] = LeaseTime
    BY <2>1 DEF WorkerOwns
  <2> QED BY <1>8, <2>1, <2>2 DEF End, Ending, Ended
<1>9. ASSUME NEW i \in Isolates, Fails(i)
      PROVE  lease'.owner = k /\ lease'.left + age'[k] = LeaseTime
  BY <1>2, <1>3, <1>9 DEF Fails, AcquireFails, AcquireLost, EndFails, Ending, Ended, Crash
<1>10. CASE CronDropped
  BY <1>10 DEF CronDropped, WorkerOwns, Working
<1>11. CASE Tick
  <2>1. age[k] < Budget + AcquireTime /\ age'[k] = age[k] + 1 /\ Working(k)
    BY <1>11 DEF Tick, Working, MaxAge
  <2>2. lease.owner = k /\ lease.left + age[k] = LeaseTime
    BY <2>1 DEF WorkerOwns
  <2>3. lease.left > Oldest
    BY <2>1, <2>2 DEF Oldest
  <2>4. lease' = [lease EXCEPT !.left = lease.left - 1]
    BY <1>11, <2>3 DEF Tick
  <2> QED BY <2>1, <2>2, <2>4 DEF Oldest
<1>12. CASE UNCHANGED vars
  BY <1>12 DEF vars, WorkerOwns, Working
<1> QED
  BY <1>1, <1>4, <1>5, <1>6, <1>7, <1>8, <1>9, <1>10, <1>11, <1>12 DEF Next, Invocation

\* What was read as stealable stays so until somebody writes the lease.
LEMMA NextStillStealable == IInv /\ [Next]_vars => StillStealable'
<1> SUFFICES ASSUME IInv, [Next]_vars, NEW k \in Isolates, step'[k] = "steal", fresh'[k]
             PROVE  lease'.owner = NoOwner \/ lease'.left + age'[k] <= 0
  BY DEF StillStealable
<1> USE DEF IInv, TypeOK
<1>1. ASSUME NEW i \in Isolates, CronFires(i)
      PROVE  lease'.owner = NoOwner \/ lease'.left + age'[k] <= 0
  BY <1>1 DEF CronFires, Goto, StillStealable
<1>2. ASSUME UNCHANGED <<lease, age, fresh>>, step[k] = "steal"
      PROVE  lease'.owner = NoOwner \/ lease'.left + age'[k] <= 0
  BY <1>2 DEF StillStealable
<1>3. ASSUME NEW i \in Isolates, UNCHANGED <<lease, age, fresh>>,
             \E s \in Steps \ {"steal"} : Goto(i, s)
      PROVE  lease'.owner = NoOwner \/ lease'.left + age'[k] <= 0
  <2>1. step[k] = "steal"
    BY <1>3 DEF Goto
  <2> QED BY <1>2, <1>3, <2>1
<1>4. ASSUME NEW owner, NEW left, SetLease(owner, left)
      PROVE  lease'.owner = NoOwner \/ lease'.left + age'[k] <= 0
  BY <1>4 DEF SetLease
<1>5. ASSUME NEW i \in Isolates, Insert(i)
      PROVE  lease'.owner = NoOwner \/ lease'.left + age'[k] <= 0
  BY <1>3, <1>4, <1>5 DEF Insert, Take, Steps
<1>6. ASSUME NEW i \in Isolates, Read(i)
      PROVE  lease'.owner = NoOwner \/ lease'.left + age'[k] <= 0
  <2>1. CASE Stealable(i) /\ k = i
    BY <1>6, <2>1 DEF Read, Stealable
  <2>2. CASE Stealable(i) /\ k # i
    BY <1>6, <2>2 DEF Read, Goto, StillStealable
  <2>3. CASE ~Stealable(i)
    BY <1>3, <1>6, <2>3 DEF Read, Steps
  <2> QED BY <2>1, <2>2, <2>3
<1>7. ASSUME NEW i \in Isolates, Steal(i)
      PROVE  lease'.owner = NoOwner \/ lease'.left + age'[k] <= 0
  BY <1>3, <1>4, <1>7 DEF Steal, Take, Steps
<1>8. ASSUME NEW i \in Isolates,
             \/ LivenessDone(i) \/ LivenessTimesOut(i) \/ HostLossDone(i) \/ OptionalDone(i)
             \/ OptionalTimesOut(i) \/ OverrunDone(i) \/ Close(i)
      PROVE  lease'.owner = NoOwner \/ lease'.left + age'[k] <= 0
  BY <1>3, <1>8 DEF LivenessDone, LivenessTimesOut, HostLossDone, OptionalDone, OptionalTimesOut,
         OverrunDone, Close, Steps
<1>9. ASSUME NEW i \in Isolates, End(i)
      PROVE  lease'.owner = NoOwner \/ lease'.left + age'[k] <= 0
  BY <1>3, <1>4, <1>9 DEF End, Ending, Ended, Steps
<1>10. ASSUME NEW i \in Isolates, Fails(i)
       PROVE  lease'.owner = NoOwner \/ lease'.left + age'[k] <= 0
  BY <1>3, <1>4, <1>10 DEF Fails, AcquireFails, AcquireLost, EndFails, Ending, Ended, Crash, Take,
         Steps
<1>11. CASE CronDropped
  BY <1>2, <1>11 DEF CronDropped
<1>12. CASE Tick
  <2>1. step[k] = "steal" /\ fresh[k] /\ age[k] < AcquireTime
    BY <1>12 DEF Tick, Acquiring
  <2>2. age'[k] = age[k] + 1
    BY <1>12, <2>1 DEF Tick, MaxAge
  <2>3. lease'.owner = lease.owner
        /\ lease'.left = (IF lease.left > Oldest THEN lease.left - 1 ELSE lease.left)
    BY <1>12 DEF Tick
  <2> QED BY <2>1, <2>2, <2>3 DEF StillStealable, Oldest
<1>13. CASE UNCHANGED vars
  BY <1>2, <1>13 DEF vars
<1> QED
  BY <1>1, <1>5, <1>6, <1>7, <1>8, <1>9, <1>10, <1>11, <1>12, <1>13 DEF Next, Invocation

-----------------------------------------------------------------------------
\* The inductive invariant of the lease.
THEOREM LeaseInvariant == Spec => []IInv
<1>1. Init => IInv
  BY InitTypeOK DEF Init, IInv, InTime, WorkerOwns, StillStealable, Working, Acquiring, Racing
<1>2. IInv /\ [Next]_vars => IInv'
  BY NextTypeOK, NextInTime, NextWorkerOwns, NextStillStealable DEF IInv
<1> QED BY <1>1, <1>2, PTL DEF Spec

\* The state of the lease and of its invocations is well typed.
THEOREM LeaseTypeOK == Spec => []TypeOK
<1>1. IInv => TypeOK
  BY DEF IInv
<1> QED BY <1>1, LeaseInvariant, PTL

\* `expiresAt' covers the phases that race the deadline: whoever runs one owns
\* the lease, with time left.
THEOREM HolderKeepsLease == Spec => []SweeperHoldsLease
<1>1. IInv => SweeperHoldsLease
  BY DEF IInv, TypeOK, InTime, WorkerOwns, Working, Sweeping, Racing, SweeperHoldsLease, Oldest,
         MaxAge
<1> QED BY <1>1, LeaseInvariant, PTL

\* Two invocations never run those phases at the same time.
THEOREM OneSweeper == Spec => []SweepersAlone
<1>1. SweeperHoldsLease => SweepersAlone
  BY DEF SweeperHoldsLease, SweepersAlone
<1> QED BY <1>1, HolderKeepsLease, PTL

-----------------------------------------------------------------------------
(* How long the lease may stay untaken.                                    *)

\* The invocation that acquires is the one the cron started last.
LastFired ==
    \A i \in Isolates : Acquiring(i) =>
        age[i] = cron /\ \A j \in Isolates : Acquiring(j) => i = j

\* An acquisition that takes the lease unless it fails or the holder releases first.
Serving(i) ==
    /\ Acquiring(i)
    /\ step[i] = "steal" => fresh[i]
    /\ lease.owner = NoRow => step[i] = "insert"
    /\ lease.owner \in Isolates => lease.left + age[i] <= 0

Serve == \E i \in Isolates : Serving(i)

\* It was the cron's next invocation.
Extra == IF Serve THEN CronEvery ELSE 0

\* Until the cron's next invocation the gap is at most that of a lease never taken, of
\* one that ran out, or of one released while the invocation after that acquired.
Base == IF lease.owner = NoRow THEN 0
        ELSE IF lease.owner = NoOwner THEN LeaseTime + CronEvery ELSE LeaseTime

GapBound ==
    /\ gap <= Base + Extra + cron
    /\ lease.owner \in Isolates /\ lease.left > 0 => gap + lease.left <= LeaseTime

\* The last invocation is the only one that acquires: the one before it was through,
\* since an acquisition is shorter than the time between two firings of the cron.
LEMMA NextLastFired ==
    ASSUME AcquireTime < CronEarly, IInv, LastFired, [Next]_vars
    PROVE  LastFired'
<1> USE DEF LastFired, Acquiring
<1>0. TypeOK /\ InTime
  BY DEF IInv
<1>1. ASSUME NEW i \in Isolates, CronFires(i) PROVE LastFired'
  <2>1. \A j \in Isolates : ~Acquiring(j)
    BY <1>0, <1>1 DEF CronFires, InTime, TypeOK
  <2> QED BY <1>0, <1>1, <2>1 DEF CronFires, Goto, TypeOK
<1>2. ASSUME NEW i \in Isolates, Invocation(i) \/ Fails(i) PROVE LastFired'
  <2>1. UNCHANGED <<age, cron>>
    BY <1>2 DEF Invocation, Fails, Insert, Read, Steal, LivenessDone, LivenessTimesOut,
                HostLossDone, OptionalDone, OptionalTimesOut, OverrunDone, Close, Ending, Ended,
                End, AcquireFails, AcquireLost, EndFails, Ending, Ended, Crash
  <2>2. \E s \in Steps : Goto(i, s) /\ (s \in {"insert", "read", "steal"} => Acquiring(i))
    BY <1>2 DEF Invocation, Fails, Insert, Read, Steal, LivenessDone, LivenessTimesOut, Steps,
                HostLossDone, OptionalDone, OptionalTimesOut, OverrunDone, Close, Ending, Ended,
                End, AcquireFails, AcquireLost, EndFails, Ending, Ended, Crash
  <2>3. \A j \in Isolates : Acquiring(j)' => Acquiring(j)
    BY <1>0, <2>2 DEF Goto, TypeOK
  <2> QED BY <2>1, <2>3
<1>3. CASE CronDropped
  <2>1. \A j \in Isolates : ~Acquiring(j)
    BY <1>0, <1>3 DEF CronDropped, InTime, TypeOK
  <2> QED BY <1>3, <2>1 DEF CronDropped
<1>4. CASE Tick
  <2>1. \A j \in Isolates : Acquiring(j)' = Acquiring(j)
    BY <1>4 DEF Tick
  <2>2. \A j \in Isolates : Acquiring(j) => age'[j] = age[j] + 1
    BY <1>0, <1>4 DEF Tick, TypeOK, MaxAge
  <2> QED BY <1>4, <2>1, <2>2 DEF Tick
<1>5. CASE UNCHANGED vars
  BY <1>5 DEF vars
<1> QED BY <1>1, <1>2, <1>3, <1>4, <1>5 DEF Next

\* A gap that has just begun is in bounds.
LEMMA NoGap ==
    ASSUME TypeOK', gap' = 0
    PROVE  GapBound'
<1>1. cron' \in Nat
  BY DEF TypeOK
<1>2. gap' <= Base' + Extra' + cron'
  BY <1>1 DEF Base, Extra
<1>3. lease'.left \in Int /\ lease'.left <= LeaseTime
  BY DEF TypeOK, Oldest
<1> QED BY <1>2, <1>3 DEF GapBound

\* A step that leaves the lease and the clocks, and whose acquisition serves on.
LEMMA SameGap ==
    ASSUME TypeOK, GapBound, UNCHANGED <<lease, cron, gap>>, Serve => Serve'
    PROVE  GapBound'
<1>1. UNCHANGED Base /\ Base \in Nat
  BY DEF Base, TypeOK
<1>2. gap' <= Base' + Extra' + cron'
  BY <1>1 DEF GapBound, TypeOK, Extra
<1> QED BY <1>2 DEF GapBound

\* The cron's next invocation serves, unless the lease has time left.
LEMMA FireGap ==
    ASSUME AcquireTime < CronEarly, IInv, LastFired, GapBound, NEW i \in Isolates, CronFires(i)
    PROVE  GapBound'
<1>0. TypeOK /\ InTime
  BY DEF IInv
<1>1. ~Serve
  BY <1>0 DEF CronFires, InTime, TypeOK, Serve, Serving, LastFired
<1>2. gap <= Base + CronEvery /\ UNCHANGED <<Base, lease, gap>> /\ cron' = 0 /\ Base \in Nat
  BY <1>0, <1>1 DEF GapBound, CronFires, TypeOK, Base, Extra
<1>3. step'[i] = "insert" /\ age'[i] = 0
  BY <1>0 DEF CronFires, Goto, TypeOK
<1>4. CASE lease.owner \in Isolates /\ lease.left > 0
  <2>1. gap <= LeaseTime /\ Base = LeaseTime
    BY <1>0, <1>4 DEF GapBound, TypeOK, Base, Oldest
  <2> QED BY <1>0, <1>2, <2>1, <1>4 DEF GapBound, TypeOK, Oldest, Extra
<1>5. CASE ~(lease.owner \in Isolates /\ lease.left > 0)
  <2>1. Serving(i)'
    BY <1>0, <1>2, <1>3, <1>5 DEF Serving, Acquiring, TypeOK, Oldest
  <2>2. Serve'
    BY <2>1 DEF Serve
  <2> QED BY <1>0, <1>2, <1>5, <2>2 DEF GapBound, TypeOK, Extra
<1> QED BY <1>4, <1>5

\* An acquisition that serves takes the lease or serves on.
LEMMA AcquireGap ==
    ASSUME IInv, IInv', GapBound, LastFired, NEW i \in Isolates, Insert(i) \/ Read(i) \/ Steal(i)
    PROVE  GapBound'
<1>0. TypeOK /\ TypeOK'
  BY DEF IInv
<1>1. CASE Take(i)
  BY <1>0, <1>1, NoGap DEF Take
<1>2. CASE ~Take(i)
  <2>1. UNCHANGED <<lease, cron, gap, age>>
    BY <1>2 DEF Insert, Read, Steal
  <2>2. ASSUME NEW j \in Isolates, Serving(j) PROVE Serving(j)'
    <3>1. j = i
      BY <2>2 DEF LastFired, Serving, Acquiring, Insert, Read, Steal
    <3>2. CASE Insert(i)
      <4>1. step'[i] = "read" /\ lease.owner # NoRow
        BY <1>0, <1>2, <3>2 DEF Insert, Goto, TypeOK
      <4> QED BY <2>1, <2>2, <3>1, <4>1 DEF Serving, Acquiring
    <3>3. CASE Read(i)
      <4>1. lease.owner # NoRow /\ Stealable(i)
        BY <1>0, <2>2, <3>1, <3>3 DEF Read, Serving, Stealable, TypeOK
      <4>2. step'[i] = "steal" /\ fresh'[i]
        BY <1>0, <3>3, <4>1 DEF Read, Goto, TypeOK
      <4> QED BY <2>1, <2>2, <3>1, <4>1, <4>2 DEF Serving, Acquiring
    <3>4. CASE Steal(i)
      BY <1>2, <2>2, <3>1, <3>4 DEF Serving, Steal
    <3> QED BY <3>2, <3>3, <3>4
  <2>3. Serve => Serve'
    BY <2>2 DEF Serve
  <2> QED BY <1>0, <2>1, <2>3, SameGap
<1> QED BY <1>1, <1>2

\* The steps of an invocation that has the lease, and its end, touch no acquisition,
\* but a release may come between the select and the update of one.
LEMMA HolderGap ==
    ASSUME IInv, IInv', GapBound, LastFired, NEW i \in Isolates,
           \/ LivenessDone(i) \/ LivenessTimesOut(i) \/ HostLossDone(i) \/ OptionalDone(i)
           \/ OptionalTimesOut(i) \/ OverrunDone(i) \/ Close(i) \/ End(i) \/ EndFails(i) \/ Crash(i)
    PROVE  GapBound'
<1>0. TypeOK /\ TypeOK' /\ InTime
  BY DEF IInv
<1>1. /\ UNCHANGED <<age, cron, gap>> /\ ~Acquiring(i)
      /\ UNCHANGED <<lease, fresh>> \/ (lease.owner = i /\ lease' = [owner |-> NoOwner, left |-> 0])
  BY DEF LivenessDone, LivenessTimesOut, HostLossDone, OptionalDone, OptionalTimesOut,
         OverrunDone, Close, Ending, Ended, End, EndFails, Crash,
         Acquiring, SetLease
<1>2. \A j \in Isolates \ {i} : step'[j] = step[j]
  BY <1>0 DEF LivenessDone, LivenessTimesOut, HostLossDone, OptionalDone, OptionalTimesOut,
         OverrunDone, Close, Ending, Ended, End, EndFails, Crash,
              Goto, TypeOK
<1>3. CASE UNCHANGED <<lease, fresh>>
  <2>1. \A j \in Isolates : Serving(j) => Serving(j)'
    BY <1>1, <1>2, <1>3 DEF Serving, Acquiring
  <2> QED BY <1>0, <1>1, <1>3, <2>1, SameGap DEF Serve
<1>4. CASE lease.owner = i /\ lease' = [owner |-> NoOwner, left |-> 0]
  <2>1. Base = LeaseTime /\ Base' = LeaseTime + CronEvery
    BY <1>4 DEF Base
  <2>2. gap <= LeaseTime + CronEvery + cron
    BY <1>0, <2>1 DEF GapBound, TypeOK, Extra
  <2>3. gap' <= Base' + Extra' + cron'
    BY <1>0, <1>1, <2>1, <2>2 DEF TypeOK, Extra
  <2> QED BY <1>4, <2>3 DEF GapBound
<1> QED BY <1>1, <1>3, <1>4

\* The clock: gap and cron go up together, and an acquisition serves on.
LEMMA TickGap ==
    ASSUME IInv, IInv', GapBound, Tick
    PROVE  GapBound'
<1>0. TypeOK /\ TypeOK'
  BY DEF IInv
<1>1. /\ cron' = cron + 1 /\ gap' <= gap + 1
      /\ lease'.owner = lease.owner
      /\ lease'.left = IF lease.left > Oldest THEN lease.left - 1 ELSE lease.left
      /\ UNCHANGED <<step, fresh>>
  BY <1>0 DEF Tick, TypeOK
<1>2. ASSUME NEW j \in Isolates, Serving(j) PROVE Serving(j)'
  <2>1. age'[j] = age[j] + 1 /\ age[j] < AcquireTime
    BY <1>0, <1>2 DEF Tick, Serving, Acquiring, TypeOK, MaxAge
  <2>2. lease.left + age[j] <= 0 => lease'.left + age'[j] <= 0
    BY <1>0, <1>1, <2>1 DEF TypeOK, Oldest
  <2> QED BY <1>1, <1>2, <2>2 DEF Serving, Acquiring
<1>3. Serve => Serve'
  BY <1>2 DEF Serve
<1>4. Base' = Base /\ Base \in Nat
  BY <1>1 DEF Base
<1>5. gap' <= Base' + Extra' + cron'
  BY <1>0, <1>1, <1>3, <1>4 DEF GapBound, TypeOK, Extra
<1>6. lease'.owner \in Isolates /\ lease'.left > 0 => gap' + lease'.left <= LeaseTime
  BY <1>0, <1>1 DEF GapBound, TypeOK, Oldest
<1> QED BY <1>5, <1>6 DEF GapBound

\* Every step keeps the bound.
LEMMA NextGapBound ==
    ASSUME AcquireTime < CronEarly, IInv, IInv', LastFired, GapBound, [Next]_vars
    PROVE  GapBound'
<1>0. TypeOK /\ TypeOK'
  BY DEF IInv
<1>1. ASSUME NEW i \in Isolates, AcquireFails(i) \/ AcquireLost(i) PROVE GapBound'
  BY <1>0, <1>1, NoGap DEF AcquireFails, AcquireLost, Take
<1>2. CASE CronDropped
  BY <1>0, <1>2, NoGap DEF CronDropped
<1>3. CASE UNCHANGED vars
  BY <1>3 DEF vars, GapBound, Base, Extra, Serve, Serving, Acquiring
<1> QED
  BY <1>1, <1>2, <1>3, FireGap, AcquireGap, HolderGap, TickGap DEF Next, Invocation, Fails

\* The lease is taken again within LeaseTime, two intervals of the cron and the limit of
\* an acquisition, however long host-loss ticks take and whoever dies, provided an
\* acquisition (DB_OP_TIMEOUT_MS, 8 s) is shorter than the time between two firings
\* of the minute cron.
THEOREM DetectionResumesInTime ==
    ASSUME AcquireTime < CronEarly
    PROVE  Spec => []DetectionResumes
<1>1. Init => LastFired /\ GapBound
  BY DEF Init, LastFired, Acquiring, GapBound, Base, Extra, Serve, Serving
<1>2. IInv /\ IInv' /\ LastFired /\ GapBound /\ [Next]_vars => LastFired' /\ GapBound'
  BY NextLastFired, NextGapBound
<1>3. IInv /\ LastFired /\ GapBound => DetectionResumes
  <2> SUFFICES ASSUME IInv, LastFired, GapBound PROVE DetectionResumes
    OBVIOUS
  <2>0. TypeOK /\ InTime
    BY DEF IInv
  <2>1. Base <= LeaseTime + CronEvery /\ Base \in Nat
    BY DEF Base
  <2>2. CASE Serve
    <3>1. cron <= AcquireTime
      BY <2>0, <2>2 DEF Serve, Serving, LastFired, InTime
    <3> QED BY <2>0, <2>1, <2>2, <3>1 DEF GapBound, Extra, DetectionResumes, LongestGap, TypeOK
  <2>3. CASE ~Serve
    BY <2>0, <2>1, <2>3 DEF GapBound, Extra, DetectionResumes, LongestGap, TypeOK
  <2> QED BY <2>2, <2>3
<1> QED BY <1>1, <1>2, <1>3, LeaseInvariant, PTL DEF Spec
=============================================================================
