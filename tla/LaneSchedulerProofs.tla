------------------------- MODULE LaneSchedulerProofs -------------------------
(***************************************************************************)
(* The lanes of createLaneScheduler, for every set of tasks and keys and   *)
(* every cap: a lane has one holder, the counter counts them, and no lane  *)
(* with work is forgotten.  A lane waits only at the cap, so a call that   *)
(* pumps starts at most one task: a call of run() adds one lane, and a     *)
(* freed lane makes room for one task.                                     *)
(***************************************************************************)
EXTENDS LaneScheduler, TLAPS, FiniteSetTheorems

Works == [Keys -> Seq(Tasks)]
States == {"idle", "pending", "holding", "released"}

\* What holds of the lanes p, the running lanes r, the ready list q, the counter n and
\* the tasks t, also in the middle of a call, before it pumps.
Typed(p, r, q, n, t) ==
    /\ p \in Works /\ r \subseteq Keys /\ q \in Seq(Keys)
    /\ n \in 0..MaxConcurrent /\ t \in [Tasks -> States]

\* The pending tasks of a lane are its own.
OwnTasks(p) == \A k \in Keys : \A i \in DOMAIN p[k] : Key[p[k][i]] = k

\* Every running lane has one holder and a holder has its lane.
OneHolder(r, t) ==
    /\ \A u \in Tasks : t[u] = "holding" => Key[u] \in r
    /\ \A u, v \in Tasks : t[u] = "holding" /\ t[v] = "holding" /\ Key[u] = Key[v] => u = v
    /\ \A k \in r : \E u \in Tasks : Key[u] = k /\ t[u] = "holding"

Counted(r, n) == IsFiniteSet(r) /\ n = Cardinality(r)

\* The idle lanes with work are the ready ones, each listed once.
ReadyOnce(p, r, q) ==
    /\ \A i, j \in DOMAIN q : q[i] = q[j] => i = j
    /\ \A k \in Keys : (k \notin r /\ p[k] # <<>>) <=> \E i \in DOMAIN q : q[i] = k

Sound(p, r, q, n, t) ==
    /\ Typed(p, r, q, n, t) /\ OwnTasks(p) /\ OneHolder(r, t) /\ Counted(r, n)
    /\ ReadyOnce(p, r, q)

\* Between the calls a lane waits only at the cap.
AtCap == ready # <<>> => active = MaxConcurrent

LInv == Sound(pending, running, ready, active, task) /\ AtCap

-----------------------------------------------------------------------------
\* The pump

\* At the cap, or without a ready lane, the pump changes nothing.
LEMMA PumpRests ==
    ASSUME LaneAssumption, NEW p \in Works, NEW r, NEW q \in Seq(Keys), NEW n \in Nat,
           NEW t \in [Tasks -> States],
           n >= MaxConcurrent \/ q = <<>>
    PROVE  Pumped(p, r, q, n, t) =
               [pending |-> p, running |-> r, ready |-> q, active |-> n, task |-> t]
<1> DEFINE m == Shifts(p, q, n)
           Stops(x) == ~GoesOn(p, q, n, x) /\ \A l \in 0..(x - 1) : GoesOn(p, q, n, l)
<1>1. Starts(p, q, 0) = {}
    BY DEF Starts
<1>2. ~GoesOn(p, q, n, 0)
  <2>1. Cardinality(Starts(p, q, 0)) = 0
      BY <1>1, FS_EmptySet
  <2>2. Len(q) \in Nat /\ (q = <<>> => Len(q) = 0) /\ MaxConcurrent \in Nat
      BY DEF LaneAssumption
  <2> QED BY <2>1, <2>2 DEF GoesOn
<1>3. 0 \in 0..Len(q) /\ Stops(0)
    BY <1>2
<1>4. m \in 0..Len(q) /\ Stops(m)
  <2>1. m = CHOOSE x \in 0..Len(q) : Stops(x)
      BY DEF Shifts
  <2> HIDE DEF m, Stops
  <2> QED BY <1>3, <2>1
<1>5. m = 0
  <2> HIDE DEF m
  <2>1. m \in Nat /\ (m # 0 => 0 \in 0..(m - 1))
      BY <1>4
  <2> QED BY <1>2, <1>4, <2>1
<1> DEFINE started == Starts(p, q, m)
<1>6. started = {} /\ Cardinality(started) = 0
    BY <1>1, <1>5, FS_EmptySet
<1> HIDE DEF m, started
<1>7. ASSUME NEW k \in Keys
      PROVE  SubSeq(p[k], Cardinality({i \in started : q[i] = k}) + 1, Len(p[k])) = p[k]
  <2>1. {i \in started : q[i] = k} = {}
      BY <1>6
  <2>2. Cardinality({i \in started : q[i] = k}) = 0
      BY <2>1, FS_EmptySet
  <2>3. p[k] \in Seq(Tasks)
      BY DEF Works
  <2>4. SubSeq(p[k], 1, Len(p[k])) = p[k]
      BY <2>3
  <2>5. Cardinality({i \in started : q[i] = k}) + 1 = 1
      BY <2>2
  <2> QED BY <2>4, <2>5, Zenon
<1>8. [k \in Keys |-> SubSeq(p[k], Cardinality({i \in started : q[i] = k}) + 1, Len(p[k]))] = p
    BY <1>7 DEF Works
<1>9. r \cup {q[i] : i \in started} = r
    BY <1>6
<1>10. SubSeq(q, m + 1, Len(q)) = q
    BY <1>5
<1>11. [u \in Tasks |-> IF u \in {p[q[i]][Place(q, i)] : i \in started}
                        THEN "holding" ELSE t[u]] = t
    BY <1>6
<1>12. n + Cardinality(started) = n
    BY <1>6
<1> QED BY <1>8, <1>9, <1>10, <1>11, <1>12 DEF Pumped, started, m

\* The first ready lane starts its oldest task.
StartFirst(p, r, q, n, t) ==
    [pending |-> [p EXCEPT ![q[1]] = Tail(@)], running |-> r \cup {q[1]},
     ready |-> Tail(q), active |-> n + 1,
     task |-> [t EXCEPT ![p[q[1]][1]] = "holding"]]

\* With room for one task, or for more and one ready lane, the pump starts the oldest
\* task of the first ready lane.
LEMMA PumpStarts ==
    ASSUME LaneAssumption, NEW p \in Works, NEW r, NEW q \in Seq(Keys), NEW n \in Nat,
           NEW t \in [Tasks -> States],
           q # <<>>, p[q[1]] # <<>>, n < MaxConcurrent,
           n + 1 = MaxConcurrent \/ Len(q) = 1
    PROVE  Pumped(p, r, q, n, t) = StartFirst(p, r, q, n, t)
<1> DEFINE m == Shifts(p, q, n)
           Stops(x) == ~GoesOn(p, q, n, x) /\ \A l \in 0..(x - 1) : GoesOn(p, q, n, l)
<1>1. /\ Len(q) \in Nat /\ Len(q) >= 1 /\ MaxConcurrent \in Nat /\ q[1] \in Keys
      /\ p[q[1]] \in Seq(Tasks) /\ Len(p[q[1]]) >= 1 /\ p[q[1]][1] \in Tasks
  <2>1. Len(q) \in Nat /\ Len(q) >= 1 /\ MaxConcurrent \in Nat /\ q[1] \in Keys
      BY DEF LaneAssumption
  <2>2. p[q[1]] \in Seq(Tasks)
      BY <2>1 DEF Works
  <2> QED BY <2>1, <2>2
<1>2. Starts(p, q, 0) = {}
    BY DEF Starts
<1>3. Place(q, 1) = 1
  <2>1. {j \in 1..1 : q[j] = q[1]} = {1}
      OBVIOUS
  <2> QED BY <2>1, FS_Singleton DEF Place
<1>4. Starts(p, q, 1) = {1}
    BY <1>1, <1>3 DEF Starts
<1>5. GoesOn(p, q, n, 0)
  <2>1. Cardinality(Starts(p, q, 0)) = 0
      BY <1>2, FS_EmptySet
  <2> QED BY <1>1, <2>1 DEF GoesOn
<1>6. ~GoesOn(p, q, n, 1)
  <2>1. Cardinality(Starts(p, q, 1)) = 1
      BY <1>4, FS_Singleton
  <2>2. ~(n + 1 < MaxConcurrent /\ 1 < Len(q))
    <3>1. CASE n + 1 = MaxConcurrent
        BY <1>1, <3>1
    <3>2. CASE Len(q) = 1
        BY <3>2
    <3> QED BY <3>1, <3>2
  <2> QED BY <2>1, <2>2 DEF GoesOn
<1>7. 1 \in 0..Len(q) /\ Stops(1)
    BY <1>1, <1>5, <1>6
<1>8. m \in 0..Len(q) /\ Stops(m)
  <2>1. m = CHOOSE x \in 0..Len(q) : Stops(x)
      BY DEF Shifts
  <2> HIDE DEF m, Stops
  <2> QED BY <1>7, <2>1
<1>9. m = 1
  <2> HIDE DEF m
  <2>1. m \in Nat /\ m # 0
      BY <1>5, <1>8
  <2>2. m # 1 => 1 \in 0..(m - 1)
      BY <2>1
  <2> QED BY <1>6, <1>8, <2>2
<1> DEFINE started == Starts(p, q, m)
<1>10. started = {1} /\ Cardinality(started) = 1
    BY <1>4, <1>9, FS_Singleton
<1> HIDE DEF m, started
<1>11. ASSUME NEW k \in Keys
       PROVE  SubSeq(p[k], Cardinality({i \in started : q[i] = k}) + 1, Len(p[k]))
                  = [p EXCEPT ![q[1]] = Tail(@)][k]
  <2>1. p[k] \in Seq(Tasks)
      BY DEF Works
  <2>2. CASE k = q[1]
    <3>1. {i \in started : q[i] = k} = {1}
        BY <1>10, <2>2
    <3>2. Cardinality({i \in started : q[i] = k}) = 1
        BY <3>1, FS_Singleton
    <3>3. SubSeq(p[k], 2, Len(p[k])) = Tail(p[k])
        BY <1>1, <2>1, <2>2
    <3>4. [p EXCEPT ![q[1]] = Tail(@)][k] = Tail(p[k])
        BY <2>2 DEF Works
    <3>5. Cardinality({i \in started : q[i] = k}) + 1 = 2
        BY <3>2
    <3> QED BY <3>3, <3>4, <3>5, Zenon
  <2>3. CASE k # q[1]
    <3>1. {i \in started : q[i] = k} = {}
        BY <1>10, <2>3
    <3>2. Cardinality({i \in started : q[i] = k}) = 0
        BY <3>1, FS_EmptySet
    <3>3. SubSeq(p[k], 1, Len(p[k])) = p[k]
        BY <2>1
    <3>4. [p EXCEPT ![q[1]] = Tail(@)][k] = p[k]
        BY <2>3 DEF Works
    <3>5. Cardinality({i \in started : q[i] = k}) + 1 = 1
        BY <3>2
    <3> QED BY <3>3, <3>4, <3>5, Zenon
  <2> QED BY <2>2, <2>3
<1>12. [k \in Keys |-> SubSeq(p[k], Cardinality({i \in started : q[i] = k}) + 1, Len(p[k]))]
           = [p EXCEPT ![q[1]] = Tail(@)]
    BY <1>11 DEF Works
<1>13. r \cup {q[i] : i \in started} = r \cup {q[1]}
    BY <1>10
<1>14. SubSeq(q, m + 1, Len(q)) = Tail(q)
    BY <1>1, <1>9
<1>15. {p[q[i]][Place(q, i)] : i \in started} = {p[q[1]][1]}
    BY <1>3, <1>10
<1>16. [u \in Tasks |-> IF u \in {p[q[i]][Place(q, i)] : i \in started}
                        THEN "holding" ELSE t[u]] = [t EXCEPT ![p[q[1]][1]] = "holding"]
    BY <1>1, <1>15
<1> QED BY <1>10, <1>12, <1>13, <1>14, <1>16 DEF Pumped, StartFirst, started, m

\* Starting the first ready lane below the cap keeps the lanes sound.
LEMMA StartSound ==
    ASSUME LaneAssumption, NEW p, NEW r, NEW q, NEW n, NEW t, Sound(p, r, q, n, t),
           q # <<>>, n < MaxConcurrent
    PROVE  /\ p[q[1]] # <<>>
           /\ Sound([p EXCEPT ![q[1]] = Tail(@)], r \cup {q[1]}, Tail(q), n + 1,
                    [t EXCEPT ![p[q[1]][1]] = "holding"])
<1> DEFINE k == q[1]
           job == p[k][1]
           p2 == [p EXCEPT ![k] = Tail(@)]
           t2 == [t EXCEPT ![job] = "holding"]
<1>1. /\ p \in Works /\ r \subseteq Keys /\ q \in Seq(Keys) /\ n \in Nat
      /\ t \in [Tasks -> States] /\ MaxConcurrent \in Nat
    BY DEF Sound, Typed, LaneAssumption
<1>2. Len(q) \in Nat /\ Len(q) >= 1 /\ DOMAIN q = 1..Len(q) /\ k \in Keys
    BY <1>1
<1>3. k \notin r /\ p[k] # <<>>
    BY <1>2 DEF Sound, ReadyOnce
<1>4. p[k] \in Seq(Tasks) /\ Len(p[k]) >= 1 /\ job \in Tasks /\ Key[job] = k
  <2>1. p[k] \in Seq(Tasks)
      BY <1>1, <1>2 DEF Works
  <2>2. Len(p[k]) >= 1 /\ 1 \in DOMAIN p[k] /\ job \in Tasks
      BY <1>3, <2>1
  <2> QED BY <1>2, <2>1, <2>2 DEF Sound, OwnTasks
<1>5. /\ Tail(p[k]) \in Seq(Tasks) /\ Tail(q) \in Seq(Keys)
      /\ DOMAIN Tail(p[k]) = 1..(Len(p[k]) - 1) /\ DOMAIN Tail(q) = 1..(Len(q) - 1)
      /\ \A i \in DOMAIN Tail(p[k]) : Tail(p[k])[i] = p[k][i + 1] /\ i + 1 \in DOMAIN p[k]
      /\ \A i \in DOMAIN Tail(q) : Tail(q)[i] = q[i + 1] /\ i + 1 \in DOMAIN q
    BY <1>1, <1>2, <1>3, <1>4
<1>6. /\ p2 \in Works /\ p2[k] = Tail(p[k])
      /\ \A l \in Keys : l # k => p2[l] = p[l]
    BY <1>1, <1>2, <1>5 DEF Works
<1>7. /\ t2 \in [Tasks -> States] /\ t2[job] = "holding"
      /\ \A u \in Tasks : u # job => t2[u] = t[u]
    BY <1>1, <1>4 DEF States
<1>8. Typed(p2, r \cup {k}, Tail(q), n + 1, t2)
    BY <1>1, <1>2, <1>5, <1>6, <1>7 DEF Typed
<1>9. OwnTasks(p2)
  <2> SUFFICES ASSUME NEW l \in Keys, NEW i \in DOMAIN p2[l] PROVE Key[p2[l][i]] = l
      BY DEF OwnTasks
  <2>1. CASE l = k
      BY <1>2, <1>5, <1>6, <2>1 DEF Sound, OwnTasks
  <2>2. CASE l # k
      BY <1>6, <2>2 DEF Sound, OwnTasks
  <2> QED BY <2>1, <2>2
<1>10. OneHolder(r \cup {k}, t2)
  <2>1. \A u \in Tasks : t[u] = "holding" => Key[u] \in r /\ Key[u] # k
      BY <1>3 DEF Sound, OneHolder
  <2>2. \A u \in Tasks : t2[u] = "holding" => Key[u] \in r \cup {k}
      BY <1>4, <1>7, <2>1
  <2>3. ASSUME NEW u \in Tasks, NEW v \in Tasks, t2[u] = "holding", t2[v] = "holding",
               Key[u] = Key[v]
        PROVE  u = v
      BY <1>4, <1>7, <2>1, <2>3 DEF Sound, OneHolder
  <2>4. ASSUME NEW l \in r \cup {k} PROVE \E u \in Tasks : Key[u] = l /\ t2[u] = "holding"
    <3>1. CASE l = k
        BY <1>4, <1>7, <3>1
    <3>2. CASE l \in r
      <4>1. PICK u \in Tasks : Key[u] = l /\ t[u] = "holding"
          BY <3>2 DEF Sound, OneHolder
      <4> QED BY <1>7, <4>1
    <3> QED BY <3>1, <3>2
  <2> QED BY <2>2, <2>3, <2>4 DEF OneHolder
<1>11. Counted(r \cup {k}, n + 1)
    BY <1>3, FS_AddElement DEF Sound, Counted
<1>12. ReadyOnce(p2, r \cup {k}, Tail(q))
  <2>1. \A i, j \in DOMAIN q : q[i] = q[j] => i = j
      BY DEF Sound, ReadyOnce
  <2>2. ASSUME NEW i \in DOMAIN Tail(q), NEW j \in DOMAIN Tail(q), Tail(q)[i] = Tail(q)[j]
        PROVE  i = j
    <3>1. q[i + 1] = q[j + 1] /\ i + 1 \in DOMAIN q /\ j + 1 \in DOMAIN q
        BY <1>5, <2>2
    <3>2. i + 1 = j + 1 /\ i \in Nat /\ j \in Nat
        BY <1>5, <2>1, <3>1
    <3> QED BY <3>2
  <2>3. ASSUME NEW l \in Keys
        PROVE  (l \notin r \cup {k} /\ p2[l] # <<>>) <=> \E i \in DOMAIN Tail(q) : Tail(q)[i] = l
    <3>1. CASE l = k
      <4>1. ASSUME NEW i \in DOMAIN Tail(q), Tail(q)[i] = k PROVE FALSE
        <5>1. q[i + 1] = q[1] /\ i + 1 \in DOMAIN q /\ 1 \in DOMAIN q
            BY <1>2, <1>5, <4>1
        <5>2. i + 1 = 1 /\ i \in Nat /\ i >= 1
            BY <1>2, <1>5, <2>1, <5>1
        <5> QED BY <5>2
      <4> QED BY <3>1, <4>1
    <3>2. CASE l # k
      <4>1. p2[l] = p[l]
          BY <1>6, <3>2
      <4>2. (l \notin r /\ p[l] # <<>>) <=> \E i \in DOMAIN q : q[i] = l
          BY DEF Sound, ReadyOnce
      <4>3. ASSUME NEW i \in DOMAIN q, q[i] = l
            PROVE  i - 1 \in DOMAIN Tail(q) /\ Tail(q)[i - 1] = l
        <5>1. i \in Nat /\ i >= 2 /\ i <= Len(q)
            BY <1>2, <3>2, <4>3
        <5>2. i - 1 \in DOMAIN Tail(q) /\ (i - 1) + 1 = i
            BY <1>2, <1>5, <5>1
        <5> QED BY <1>5, <4>3, <5>2
      <4> HIDE DEF p2, k
      <4> QED BY <1>5, <3>2, <4>1, <4>2, <4>3
    <3> QED BY <3>1, <3>2
  <2> HIDE DEF p2, k
  <2> QED BY <2>2, <2>3 DEF ReadyOnce
<1> QED BY <1>3, <1>8, <1>9, <1>10, <1>11, <1>12 DEF Sound

-----------------------------------------------------------------------------
\* The calls

\* The pump at the end of a call: it finds one ready lane, or room for one task.
LEMMA PumpKeeps ==
    ASSUME LaneAssumption, NEW p, NEW r, NEW q, NEW n, NEW t, Sound(p, r, q, n, t),
           Pump(p, r, q, n, t),
           n = MaxConcurrent \/ n + 1 = MaxConcurrent \/ q = <<>> \/ Len(q) = 1
    PROVE  LInv'
<1>1. /\ p \in Works /\ q \in Seq(Keys) /\ n \in Nat /\ t \in [Tasks -> States]
      /\ n <= MaxConcurrent /\ MaxConcurrent \in Nat
    BY DEF Sound, Typed, LaneAssumption
<1>2. CASE n >= MaxConcurrent \/ q = <<>>
  <2>1. /\ pending' = p /\ running' = r /\ ready' = q /\ active' = n /\ task' = t
      BY <1>1, <1>2, PumpRests DEF Pump
  <2>2. AtCap'
      BY <1>1, <1>2, <2>1 DEF AtCap
  <2> QED BY <2>1, <2>2 DEF LInv
<1>3. CASE n < MaxConcurrent /\ q # <<>>
  <2>1. /\ p[q[1]] # <<>>
        /\ Sound([p EXCEPT ![q[1]] = Tail(@)], r \cup {q[1]}, Tail(q), n + 1,
                 [t EXCEPT ![p[q[1]][1]] = "holding"])
      BY <1>3, StartSound
  <2>2. n + 1 = MaxConcurrent \/ Len(q) = 1
      BY <1>1, <1>3
  <2>3. /\ pending' = [p EXCEPT ![q[1]] = Tail(@)] /\ running' = r \cup {q[1]}
        /\ ready' = Tail(q) /\ active' = n + 1
        /\ task' = [t EXCEPT ![p[q[1]][1]] = "holding"]
    <3>1. Pumped(p, r, q, n, t) = StartFirst(p, r, q, n, t)
        BY <1>1, <1>3, <2>1, <2>2, PumpStarts
    <3> QED BY <3>1 DEF Pump, StartFirst
  <2>4. AtCap'
    <3>1. ASSUME Len(q) = 1 PROVE Tail(q) = <<>>
      <4>1. Tail(q) \in Seq(Keys) /\ Len(Tail(q)) = 0
          BY <1>1, <1>3, <3>1
      <4>2. \A s \in Seq(Keys) : Len(s) = 0 => s = <<>>
          OBVIOUS
      <4> QED BY <4>1, <4>2, Zenon
    <3> QED BY <2>2, <2>3, <3>1 DEF AtCap
  <2> QED BY <2>1, <2>3, <2>4 DEF LInv
<1> QED BY <1>1, <1>2, <1>3

\* run(): a lane is made ready when it is idle and not ready yet.
LEMMA SubmitKeeps ==
    ASSUME LaneAssumption, LInv, NEW t \in Tasks, Submit(t)
    PROVE  LInv'
<1> DEFINE k == Key[t]
           p == [pending EXCEPT ![k] = Append(@, t)]
           q == IF k \in running \/ IsReady(k) THEN ready ELSE Append(ready, k)
           ts == [task EXCEPT ![t] = "pending"]
<1>1. /\ pending \in Works /\ running \subseteq Keys /\ ready \in Seq(Keys)
      /\ active \in 0..MaxConcurrent /\ task \in [Tasks -> States]
      /\ k \in Keys /\ MaxConcurrent \in Nat
    BY DEF LInv, Sound, Typed, LaneAssumption
<1>2. task[t] = "idle" /\ Pump(p, running, q, active, ts)
    BY DEF Submit
<1>3. /\ pending[k] \in Seq(Tasks) /\ p \in Works /\ p[k] = Append(pending[k], t)
      /\ \A l \in Keys : l # k => p[l] = pending[l]
    BY <1>1 DEF Works
<1>4. /\ p[k] # <<>> /\ Len(pending[k]) \in Nat
      /\ DOMAIN p[k] = DOMAIN pending[k] \cup {Len(pending[k]) + 1}
      /\ p[k][Len(pending[k]) + 1] = t
      /\ \A i \in DOMAIN pending[k] : p[k][i] = pending[k][i]
    BY <1>3
<1>5. /\ ts \in [Tasks -> States] /\ ts[t] = "pending"
      /\ \A u \in Tasks : u # t => ts[u] = task[u]
    BY <1>1 DEF States
<1>6. /\ ready # <<>> => active = MaxConcurrent
      /\ ready = <<>> /\ q # <<>> => Len(q) = 1
    BY <1>1 DEF LInv, AtCap
<1>7. Typed(p, running, q, active, ts)
    BY <1>1, <1>3, <1>5 DEF Typed
<1>8. OwnTasks(p)
  <2> SUFFICES ASSUME NEW l \in Keys, NEW i \in DOMAIN p[l] PROVE Key[p[l][i]] = l
      BY DEF OwnTasks
  <2>1. CASE l = k
      BY <1>4, <2>1 DEF LInv, Sound, OwnTasks
  <2>2. CASE l # k
      BY <1>3, <2>2 DEF LInv, Sound, OwnTasks
  <2> QED BY <2>1, <2>2
<1>9. OneHolder(running, ts)
  <2>1. \A u \in Tasks : ts[u] = "holding" <=> task[u] = "holding"
      BY <1>2, <1>5
  <2> HIDE DEF ts
  <2> QED BY <2>1 DEF LInv, Sound, OneHolder
<1>10. ReadyOnce(p, running, q)
  <2>1. ReadyOnce(pending, running, ready)
      BY DEF LInv, Sound
  <2>2. CASE k \in running \/ IsReady(k)
    <3>1. \A l \in Keys : (l \notin running /\ p[l] # <<>>)
                              <=> (l \notin running /\ pending[l] # <<>>)
        BY <1>1, <1>3, <1>4, <2>1, <2>2 DEF ReadyOnce, IsReady
    <3> HIDE DEF p, k
    <3> QED BY <2>1, <2>2, <3>1 DEF ReadyOnce
  <2>3. CASE ~(k \in running \/ IsReady(k))
    <3>1. /\ q = Append(ready, k) /\ Len(ready) \in Nat
          /\ DOMAIN ready = 1..Len(ready)
          /\ DOMAIN q = DOMAIN ready \cup {Len(ready) + 1}
          /\ q[Len(ready) + 1] = k /\ \A i \in DOMAIN ready : q[i] = ready[i]
        BY <1>1, <2>3
    <3> HIDE DEF q, p
    <3>2. \A i \in DOMAIN ready : ready[i] # k
        BY <2>3 DEF IsReady
    <3>3. \A i, j \in DOMAIN q : q[i] = q[j] => i = j
        BY <2>1, <3>1, <3>2 DEF ReadyOnce
    <3>4. ASSUME NEW l \in Keys
          PROVE  (l \notin running /\ p[l] # <<>>) <=> \E i \in DOMAIN q : q[i] = l
      <4>1. CASE l = k
          BY <1>4, <2>3, <3>1, <4>1
      <4>2. CASE l # k
          BY <1>3, <2>1, <3>1, <4>2 DEF ReadyOnce
      <4> QED BY <4>1, <4>2
    <3> QED BY <3>3, <3>4 DEF ReadyOnce
  <2> QED BY <2>2, <2>3
<1>11. Sound(p, running, q, active, ts)
    BY <1>7, <1>8, <1>9, <1>10 DEF LInv, Sound
<1> HIDE DEF p, q, ts
<1> QED BY <1>2, <1>6, <1>11, PumpKeeps

\* The releaser: the lane that is freed joins the ready lanes when it has work.
LEMMA FreeKeeps ==
    ASSUME LaneAssumption, LInv, NEW t \in Tasks, NEW next \in {"released", "idle"},
           task[t] = "holding", FreeLane(t, next)
    PROVE  LInv'
<1> DEFINE k == Key[t]
           r == running \ {k}
           q == IF pending[k] # <<>> THEN Append(ready, k) ELSE ready
           ts == [task EXCEPT ![t] = next]
<1>1. /\ pending \in Works /\ running \subseteq Keys /\ ready \in Seq(Keys)
      /\ active \in 0..MaxConcurrent /\ task \in [Tasks -> States]
      /\ k \in Keys /\ MaxConcurrent \in Nat
    BY DEF LInv, Sound, Typed, LaneAssumption
<1>2. Pump(pending, r, q, active - 1, ts)
    BY DEF FreeLane
<1>3. k \in running /\ OneHolder(running, task)
    BY DEF LInv, Sound, OneHolder
<1>4. /\ ts \in [Tasks -> States] /\ ts[t] # "holding"
      /\ \A u \in Tasks : u # t => ts[u] = task[u]
    BY <1>1 DEF States
<1>5. Counted(r, active - 1) /\ active >= 1
  <2>1. /\ IsFiniteSet(running) /\ active = Cardinality(running)
      BY DEF LInv, Sound, Counted
  <2>2. IsFiniteSet(r) /\ Cardinality(r) = active - 1 /\ Cardinality(r) \in Nat
      BY <1>3, <2>1, FS_RemoveElement, FS_CardinalityType
  <2> QED BY <1>1, <2>2 DEF Counted
<1>6. Typed(pending, r, q, active - 1, ts)
    BY <1>1, <1>4, <1>5 DEF Typed
<1>7. OneHolder(r, ts)
  <2>1. ASSUME NEW u \in Tasks, ts[u] = "holding"
        PROVE  u # t /\ task[u] = "holding" /\ Key[u] \in r
      BY <1>3, <1>4, <2>1 DEF OneHolder
  <2>2. ASSUME NEW l \in r PROVE \E u \in Tasks : Key[u] = l /\ ts[u] = "holding"
    <3>1. PICK u \in Tasks : Key[u] = l /\ task[u] = "holding"
        BY <1>3, <2>2 DEF OneHolder
    <3> QED BY <1>4, <2>2, <3>1
  <2> HIDE DEF r, ts
  <2> QED BY <1>3, <2>1, <2>2 DEF OneHolder
<1>8. ReadyOnce(pending, r, q)
  <2>1. ReadyOnce(pending, running, ready)
      BY DEF LInv, Sound
  <2>2. \A i \in DOMAIN ready : ready[i] # k
      BY <1>1, <1>3, <2>1 DEF ReadyOnce
  <2>3. CASE pending[k] = <<>>
      BY <2>1, <2>2, <2>3 DEF ReadyOnce
  <2>4. CASE pending[k] # <<>>
    <3>1. /\ q = Append(ready, k) /\ Len(ready) \in Nat
          /\ DOMAIN ready = 1..Len(ready)
          /\ DOMAIN q = DOMAIN ready \cup {Len(ready) + 1}
          /\ q[Len(ready) + 1] = k /\ \A i \in DOMAIN ready : q[i] = ready[i]
        BY <1>1, <2>4
    <3> HIDE DEF q
    <3>2. \A i, j \in DOMAIN q : q[i] = q[j] => i = j
        BY <2>1, <2>2, <3>1 DEF ReadyOnce
    <3>3. ASSUME NEW l \in Keys
          PROVE  (l \notin r /\ pending[l] # <<>>) <=> \E i \in DOMAIN q : q[i] = l
      <4>1. CASE l = k
          BY <2>4, <3>1, <4>1
      <4>2. CASE l # k
          BY <2>1, <3>1, <4>2 DEF ReadyOnce
      <4> QED BY <4>1, <4>2
    <3> QED BY <3>2, <3>3 DEF ReadyOnce
  <2> QED BY <2>3, <2>4
<1>9. Sound(pending, r, q, active - 1, ts)
    BY <1>5, <1>6, <1>7, <1>8 DEF LInv, Sound
<1>10. (active - 1) + 1 = MaxConcurrent \/ q = <<>> \/ Len(q) = 1
    BY <1>1 DEF LInv, AtCap
<1> HIDE DEF q, r, ts
<1> QED BY <1>2, <1>9, <1>10, PumpKeeps

\* A task that gave its lane up ends.
LEMMA ReleasedEnds ==
    ASSUME LInv, NEW t \in Tasks, task[t] = "released",
           task' = [task EXCEPT ![t] = "idle"], UNCHANGED lanes
    PROVE  LInv'
<1>1. task \in [Tasks -> States] /\ UNCHANGED <<pending, running, ready, active>>
    BY DEF LInv, Sound, Typed, lanes
<1>2. task' \in [Tasks -> States] /\ \A u \in Tasks : task'[u] = "holding" <=> task[u] = "holding"
    BY <1>1 DEF States
<1>3. OneHolder(running, task')
    BY <1>2 DEF LInv, Sound, OneHolder
<1> QED BY <1>1, <1>2, <1>3 DEF LInv, Sound, Typed, AtCap

\* Init and every call establish the invariant.
LEMMA LaneInit == ASSUME LaneAssumption, Init PROVE LInv
<1>1. Counted({}, 0)
    BY FS_EmptySet DEF Counted
<1>2. pending \in Works /\ \A k \in Keys : pending[k] = <<>>
    BY DEF Init, Works
<1>3. /\ running = {} /\ ready = <<>> /\ active = 0 /\ DOMAIN ready = {}
      /\ task \in [Tasks -> States] /\ \A t \in Tasks : task[t] = "idle"
    BY DEF Init, States
<1>4. ready \in Seq(Keys) /\ active \in 0..MaxConcurrent
    BY <1>3 DEF LaneAssumption
<1>5. OwnTasks(pending) /\ ReadyOnce(pending, running, ready) /\ OneHolder(running, task)
    BY <1>2, <1>3 DEF OwnTasks, ReadyOnce, OneHolder
<1> QED BY <1>1, <1>2, <1>3, <1>4, <1>5 DEF LInv, Sound, Typed, AtCap

\* Every call of run(), of a releaser and every end of a task keeps the lanes sound.
LEMMA LaneNext ==
    ASSUME LaneAssumption, LInv, [Next]_vars
    PROVE  LInv'
<1>1. ASSUME NEW t \in Tasks, Submit(t) PROVE LInv'
    BY <1>1, SubmitKeeps
<1>2. ASSUME NEW t \in Tasks, Release(t) PROVE LInv'
    BY <1>2, FreeKeeps DEF Release
<1>3. ASSUME NEW t \in Tasks, End(t) PROVE LInv'
    BY <1>3, FreeKeeps, ReleasedEnds DEF End
<1>4. CASE UNCHANGED vars
    BY <1>4 DEF vars, lanes, LInv, AtCap
<1> QED BY <1>1, <1>2, <1>3, <1>4 DEF Next

\* The invariant says what the properties say.
LEMMA LaneFacts ==
    ASSUME LaneAssumption, LInv
    PROVE  TypeOK /\ LaneExclusive /\ NoLaneForgotten
<1>1. TypeOK
    BY DEF LInv, Sound, Typed, Works, States, TypeOK
<1>2. LaneExclusive
  <2>1. ASSUME NEW k \in Keys
        PROVE  Cardinality(Holders(k)) = IF k \in running THEN 1 ELSE 0
    <3>1. CASE k \in running
      <4>1. PICK u \in Tasks : Key[u] = k /\ task[u] = "holding"
          BY <3>1 DEF LInv, Sound, OneHolder
      <4>2. Holders(k) = {u}
          BY <4>1 DEF LInv, Sound, OneHolder, Holders
      <4> QED BY <3>1, <4>2, FS_Singleton
    <3>2. CASE k \notin running
      <4>1. Holders(k) = {}
          BY <3>2 DEF LInv, Sound, OneHolder, Holders
      <4> QED BY <3>2, <4>1, FS_EmptySet
    <3> QED BY <3>1, <3>2
  <2> QED BY <2>1 DEF LInv, Sound, Counted, LaneExclusive
<1>3. NoLaneForgotten
  <2>1. ReadyOnce(pending, running, ready)
      BY DEF LInv, Sound
  <2>2. ASSUME NEW k \in Keys
        PROVE  Cardinality({i \in DOMAIN ready : ready[i] = k})
                   = IF k \notin running /\ pending[k] # <<>> THEN 1 ELSE 0
    <3>1. CASE k \notin running /\ pending[k] # <<>>
      <4>1. PICK i \in DOMAIN ready : ready[i] = k
          BY <2>1, <3>1 DEF ReadyOnce
      <4>2. {j \in DOMAIN ready : ready[j] = k} = {i}
          BY <2>1, <4>1 DEF ReadyOnce
      <4>3. Cardinality({j \in DOMAIN ready : ready[j] = k}) = 1
          BY <4>2, FS_Singleton
      <4> QED BY <3>1, <4>3
    <3>2. CASE ~(k \notin running /\ pending[k] # <<>>)
      <4>1. {j \in DOMAIN ready : ready[j] = k} = {}
          BY <2>1, <3>2 DEF ReadyOnce
      <4>2. Cardinality({j \in DOMAIN ready : ready[j] = k}) = 0
          BY <4>1, FS_EmptySet
      <4> QED BY <3>2, <4>2
    <3> QED BY <3>1, <3>2
  <2> QED BY <2>2 DEF LInv, AtCap, NoLaneForgotten
<1> QED BY <1>1, <1>2, <1>3

-----------------------------------------------------------------------------
\* The lanes stay sound: what the three theorems below rest on.
THEOREM LaneInvariant == Spec => []LInv
<1>1. Init => LInv
    BY LaneInit, LaneAssumption
<1>2. LInv /\ [Next]_vars => LInv'
    BY LaneNext, LaneAssumption
<1> QED BY <1>1, <1>2, PTL DEF Spec

\* `active' never exceeds maxConcurrent and never falls below zero, also when tasks
\* give their lanes up before they end (releaser frees a lane once).
THEOREM LaneTypeOK == Spec => []TypeOK
<1>1. LInv => TypeOK
    BY LaneFacts, LaneAssumption
<1> QED BY <1>1, LaneInvariant, PTL

\* "Commands for one server run one at a time" (command-lanes.ts), for any number of
\* servers and tasks, and activeCount() is the number of lanes that run.
THEOREM LanesAreExclusive == Spec => []LaneExclusive
<1>1. LInv => LaneExclusive
    BY LaneFacts, LaneAssumption
<1> QED BY <1>1, LaneInvariant, PTL

\* A lane with work that does not run is listed for the pump exactly once, and waits
\* only while every slot is taken (run, releaser, pump).
THEOREM NoLaneIsForgotten == Spec => []NoLaneForgotten
<1>1. LInv => NoLaneForgotten
    BY LaneFacts, LaneAssumption
<1> QED BY <1>1, LaneInvariant, PTL

=============================================================================
