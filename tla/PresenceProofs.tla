--------------------------- MODULE PresenceProofs ---------------------------
(***************************************************************************)
(* Type correctness of Presence, for any number of connections,            *)
(* projections, moves and faults and any limits: ages stay within the cap  *)
(* the clock counts to, and what one part hands to another (the verdict of *)
(* a probe, the reason a patch has read) is what the other expects.        *)
(***************************************************************************)
EXTENDS Presence, TLAPS

Rows == [connected: BOOLEAN, reason: Reasons, age: Ages]
SocketStates == [state: {"none", "open", "closing"},
                 ping: Ages \cup {Null}, age: Ages \cup {Null}]
JobStates == [step: {"idle", "read", "write"},
              kind: {"online", "disconnect", "sweep_stale", "patch", "identity"}, why: Reasons]
SweepStates == [step: {"idle", "due", "ask", "probe", "act"},
                list: {"none", "connected", "offline"},
                off: Ages, null: Ages \cup {Null}, other: Ages \cup {Null},
                skip: 0 .. Blocked]

\* The limits are numbers, and the ages are those up to the cap.
LEMMA LimitTypes ==
  /\ MaxAge \in Nat /\ Blocked \in Nat /\ MaxFaults \in Nat /\ MaxMoves \in Nat
  /\ ReapAge \in 0 .. MaxAge /\ AgeCap \in 0 .. MaxAge /\ StaleAge + 1 \in 0 .. MaxAge
  /\ 0 \in Ages /\ MaxAge \in Ages /\ 0 \in 0 .. Blocked /\ Blocked \in 0 .. Blocked
  <1>1. MaxAge \in Nat /\ Blocked \in Nat /\ MaxFaults \in Nat /\ MaxMoves \in Nat
    BY PresenceAssumption
  <1>2. ReapAge \in 0 .. MaxAge /\ AgeCap \in 0 .. MaxAge /\ StaleAge + 1 \in 0 .. MaxAge
    BY <1>1, PresenceAssumption
  <1> QED
    BY <1>1, <1>2 DEF Ages

\* An age that grows stays within the cap, and a time that was never set stays so.
LEMMA OlderType ==
  /\ \A a \in Ages : Older(a) \in Ages
  /\ \A a \in Ages \cup {Null}, cap \in 0 .. MaxAge : OlderUpTo(a, cap) \in Ages \cup {Null}
  /\ \A a \in Ages \cup {Null} : Observed(a) \in Ages \cup {Null}
  <1>1. \A a \in Ages \cup {Null}, cap \in 0 .. MaxAge : OlderUpTo(a, cap) \in Ages \cup {Null}
    BY LimitTypes DEF OlderUpTo, Ages, Null
  <1> QED
    BY <1>1, LimitTypes DEF Older, OlderUpTo, Observed, Ages, Null

\* A projection that starts is well typed (Start).
LEMMA StartType ==
  ASSUME job \in [Sources -> JobStates], NEW s \in Sources,
         NEW kind \in {"online", "disconnect", "sweep_stale", "patch", "identity"}, Start(s, kind)
  PROVE  job' \in [Sources -> JobStates]
  <1>1. [NoJob EXCEPT !.step = "read", !.kind = kind] \in JobStates
    BY DEF NoJob, JobStates, Reasons
  <1> QED
    BY <1>1 DEF Start

\* A projection that ends is idle.
LEMMA IdleType ==
  ASSUME job \in [Sources -> JobStates], NEW s \in Sources, job' = [job EXCEPT ![s] = NoJob]
  PROVE  job' \in [Sources -> JobStates]
  <1>1. NoJob \in JobStates
    BY DEF NoJob, JobStates, Reasons
  <1> QED
    BY <1>1

\* Every connection, the frames, the alarm, the patches and the sweep are sources.
LEMMA SourceTypes ==
  /\ \A c \in Conns : <<"attach", c>> \in Sources /\ <<"close", c>> \in Sources
  /\ <<"frame", NoConn>> \in Sources /\ <<"alarm", NoConn>> \in Sources
  /\ <<"patch", NoConn>> \in Sources /\ TheSweep \in Sources
  BY DEF Sources, TheSweep

\* A sweep at rest, and one that waits for its projection, is well typed.
LEMMA RestedType ==
  ASSUME TypeOK, NEW null \in Ages \cup {Null}
  PROVE  Rested(null) \in SweepStates /\ Acting(null) \in SweepStates
  <1>1. Rested(null) \in SweepStates
    BY LimitTypes DEF Rested, SweepStates, TypeOK
  <1> QED
    BY <1>1 DEF Acting, SweepStates

\* Faults and moves stay within their bounds.
LEMMA CounterTypes ==
  ASSUME TypeOK
  PROVE  /\ Fault => faults' \in 0 .. MaxFaults
         /\ Move => moves' \in 0 .. MaxMoves
  BY LimitTypes DEF TypeOK, Fault, Move

\* The parts of the type.
LEMMA Parts ==
  ASSUME TypeOK
  PROVE  /\ row \in Rows /\ sock \in [Conns -> SocketStates]
         /\ job \in [Sources -> JobStates] /\ sweep \in SweepStates
         /\ host \in [on: Conns \cup {NoConn}, beat: Ages] /\ sample \in Ages
         /\ cell \in [connected: BOOLEAN, swept: BOOLEAN]
         /\ faults \in 0 .. MaxFaults /\ moves \in 0 .. MaxMoves
  BY DEF TypeOK, Rows, SocketStates, JobStates, SweepStates

\* The same, of the next state.
LEMMA PartsMake ==
  ASSUME row' \in Rows, sock' \in [Conns -> SocketStates],
         job' \in [Sources -> JobStates], sweep' \in SweepStates,
         host' \in [on: Conns \cup {NoConn}, beat: Ages], sample' \in Ages,
         cell' \in [connected: BOOLEAN, swept: BOOLEAN],
         faults' \in 0 .. MaxFaults, moves' \in 0 .. MaxMoves
  PROVE  TypeOK'
  BY DEF TypeOK, Rows, SocketStates, JobStates, SweepStates

\* The initial state is well typed.
LEMMA TypeInit == Init => TypeOK
  <1> SUFFICES ASSUME Init PROVE TypeOK
    OBVIOUS
  <1>1. job \in [Sources -> [step: {"idle", "read", "write"},
                  kind: {"online", "disconnect", "sweep_stale", "patch", "identity"}, why: Reasons]]
    BY DEF Init, NoJob, Reasons
  <1>2. row \in [connected: BOOLEAN, reason: Reasons, age: Ages]
    BY LimitTypes DEF Init, Reasons
  <1>3. sweep \in [step: {"idle", "due", "ask", "probe", "act"},
                   list: {"none", "connected", "offline"},
                   off: Ages, null: Ages \cup {Null}, other: Ages \cup {Null},
                   skip: 0 .. Blocked]
    BY LimitTypes DEF Init
  <1>4. sock \in [Conns -> [state: {"none", "open", "closing"},
                           ping: Ages \cup {Null}, age: Ages \cup {Null}]]
    BY DEF Init, NoSocket
  <1> QED
    BY <1>1, <1>2, <1>3, <1>4, LimitTypes DEF Init, TypeOK

\* A projection reads, writes or fails (projectServerDaemon).
LEMMA ProjectType ==
  ASSUME TypeOK, NEW s \in Sources, Project(s) \/ ProjectFails(s)
  PROVE  TypeOK'
  <1>1. job[s] \in JobStates /\ row \in Rows
    BY Parts
  <1>2. CASE ProjectRead(s)
    <2>1. job' \in [Sources -> JobStates]
      <3>1. CASE Writes(job[s].kind, row)
        <4>1. [job[s] EXCEPT !.step = "write",
                 !.why = Carried(job[s].kind, row)] \in JobStates
          BY <1>1 DEF JobStates, Rows, Reasons, Carried
        <4> QED
          BY <1>2, <3>1, <4>1, Parts DEF ProjectRead
      <3>2. CASE ~Writes(job[s].kind, row)
        <4>1. job' = [job EXCEPT ![s] = NoJob]
          BY <1>2, <3>2, Parts DEF ProjectRead
        <4> QED
          BY <4>1, Parts, IdleType
      <3> QED
        BY <3>1, <3>2
    <2> QED
      BY <1>2, <2>1, Parts, PartsMake DEF ProjectRead
  <1>3. CASE ProjectWrite(s)
    <2>1. job' \in [Sources -> JobStates]
      BY <1>3, Parts, IdleType DEF ProjectWrite
    <2>2. row' \in Rows
      <3>1. CASE job[s].kind = "online"
        BY <1>1, <1>3, <3>1, LimitTypes DEF ProjectWrite, Written, Rows, Reasons
      <3>2. CASE job[s].kind \in {"patch", "identity"}
        <4>1. row' = [row EXCEPT !.reason = job[s].why]
          BY <1>3, <3>2 DEF ProjectWrite, Written
        <4> QED
          BY <1>1, <4>1 DEF JobStates, Rows
      <3>3. CASE job[s].kind \in {"disconnect", "sweep_stale"}
        <4>1. row' = [connected |-> FALSE, reason |-> job[s].kind, age |-> 0]
          BY <1>3, <3>3 DEF ProjectWrite, Written
        <4> QED
          BY <3>3, <4>1, LimitTypes DEF Rows, Reasons
      <3> QED
        BY <1>1, <3>1, <3>2, <3>3 DEF JobStates
    <2> QED
      BY <1>3, <2>1, <2>2, Parts, PartsMake DEF ProjectWrite
  <1>4. CASE ProjectFails(s)
    <2>1. job' \in [Sources -> JobStates] /\ faults' \in 0 .. MaxFaults
      BY <1>4, Parts, IdleType, CounterTypes DEF ProjectFails
    <2> QED
      BY <1>4, <2>1, Parts, PartsMake DEF ProjectFails
  <1> QED
    BY <1>2, <1>3, <1>4 DEF Project

\* The daemon, its sockets and the cell.
LEMMA CellType ==
  ASSUME TypeOK, Daemon \/ Socket \/ Alarm \/ Wake \/ Beat
  PROVE  TypeOK'
  <1>0. /\ \A c \in Conns : sock[c] \in SocketStates
        /\ 0 \in Ages
        /\ Gone \in [on: Conns \cup {NoConn}, beat: Ages]
        /\ NoSocket \in SocketStates
        /\ \A c \in Conns : Closed(c) \in SocketStates
    BY Parts, LimitTypes DEF Gone, NoSocket, Closed, SocketStates
  <1>1. ASSUME NEW c \in Conns, Connect(c) PROVE TypeOK'
    <2>1. sock' \in [Conns -> SocketStates]
      <3>1. NewSocket \in SocketStates
        BY LimitTypes DEF NewSocket, SocketStates
      <3> QED
        BY <1>0, <1>1, <3>1 DEF Connect
    <2>2. job' \in [Sources -> JobStates] /\ moves' \in 0 .. MaxMoves
      BY <1>1, Parts, StartType, SourceTypes, CounterTypes DEF Connect
    <2>3. host' \in [on: Conns \cup {NoConn}, beat: Ages]
      BY <1>0, <1>1 DEF Connect
    <2>4. cell' \in [connected: BOOLEAN, swept: BOOLEAN]
      BY <1>1 DEF Connect
    <2> QED
      BY <1>1, <2>1, <2>2, <2>3, <2>4, Parts, PartsMake DEF Connect
  <1>2. CASE Frame
    <2>1. job' \in [Sources -> JobStates]
      BY <1>2, Parts, StartType, SourceTypes DEF Frame
    <2>2. cell' \in [connected: BOOLEAN, swept: BOOLEAN]
      BY <1>2 DEF Frame
    <2> QED
      BY <1>2, <2>1, <2>2, Parts, PartsMake DEF Frame
  <1>3. CASE Vanish
    BY <1>0, <1>3, Parts, PartsMake DEF Vanish
  <1>4. CASE Leave
    <2>1. host.on \in Conns
      BY <1>4, Parts DEF Leave
    <2>2. sock' = [sock EXCEPT ![host.on] = Closed(host.on)]
      BY <1>4, <2>1, Parts DEF Leave
    <2>3. sock' \in [Conns -> SocketStates]
      BY <1>0, <2>1, <2>2, Parts
    <2> QED
      BY <1>0, <1>4, <2>3, Parts, PartsMake DEF Leave
  <1>5. CASE Patch
    <2>1. PICK kind \in {"patch", "identity"} : Start(<<"patch", NoConn>>, kind)
      BY <1>5 DEF Patch
    <2>2. job' \in [Sources -> JobStates]
      BY <2>1, Parts, StartType, SourceTypes
    <2>3. moves' \in 0 .. MaxMoves
      BY <1>5, CounterTypes DEF Patch
    <2> QED
      BY <1>5, <2>2, <2>3, Parts, PartsMake DEF Patch
  <1>6. ASSUME NEW c \in Conns, CloseEvent(c) PROVE TypeOK'
    <2>1. sock' \in [Conns -> SocketStates] /\ host' \in [on: Conns \cup {NoConn}, beat: Ages]
      BY <1>0, <1>6, Parts DEF CloseEvent
    <2>2. job' \in [Sources -> JobStates]
      BY <1>6, Parts, StartType, SourceTypes DEF CloseEvent
    <2>3. cell' \in [connected: BOOLEAN, swept: BOOLEAN]
      BY <1>6, Parts DEF CloseEvent
    <2> QED
      BY <1>6, <2>1, <2>2, <2>3, Parts, PartsMake DEF CloseEvent
  <1>7. ASSUME NEW c \in Conns, AlarmStale(c) PROVE TypeOK'
    <2>1. job' \in [Sources -> JobStates]
      BY <1>7, Parts, StartType, SourceTypes DEF AlarmStale
    <2>2. cell' \in [connected: BOOLEAN, swept: BOOLEAN]
      BY <1>7 DEF AlarmStale
    <2> QED
      BY <1>7, <2>1, <2>2, Parts, PartsMake DEF AlarmStale
  <1>8. CASE Wake
    <2>1. HasSocket \in BOOLEAN
      BY DEF HasSocket
    <2>2. cell' \in [connected: BOOLEAN, swept: BOOLEAN]
      BY <1>8, <2>1 DEF Wake
    <2> QED
      BY <1>8, <2>2, Parts, PartsMake DEF Wake
  <1>9. CASE Beat
    <2>1. host.on \in Conns
      BY <1>9, Parts DEF Beat, Up
    <2>2. sock' = [sock EXCEPT ![host.on] = [sock[host.on] EXCEPT !.ping = 0]]
      BY <1>9, <2>1, Parts DEF Beat
    <2>3. [sock[host.on] EXCEPT !.ping = 0] \in SocketStates
      BY <1>0, <2>1 DEF SocketStates
    <2>4. sock' \in [Conns -> SocketStates]
      BY <2>1, <2>2, <2>3, Parts
    <2>5. host' \in [on: Conns \cup {NoConn}, beat: Ages] /\ sample' \in Ages
      BY <1>0, <1>9, Parts DEF Beat
    <2> QED
      BY <1>9, <2>4, <2>5, Parts, PartsMake DEF Beat
  <1> QED
    BY <1>1, <1>2, <1>3, <1>4, <1>5, <1>6, <1>7, <1>8, <1>9 DEF Daemon, Socket, Alarm

\* How long a socket has been without an answer is an age or unset.
LEMMA NullSinceType ==
  ASSUME TypeOK
  PROVE  NullSince \in Ages \cup {Null}
  <1>1. sweep.null \in Ages \cup {Null}
    BY Parts DEF SweepStates
  <1> QED
    BY <1>1, LimitTypes DEF NullSince

\* The sweep and its failures.
LEMMA SweepType ==
  ASSUME TypeOK, Sweep \/ AskFails \/ ProbeFails \/ SweepDies
  PROVE  TypeOK'
  <1>0. /\ sweep \in SweepStates /\ sweep.null \in Ages \cup {Null} /\ Null \in Ages \cup {Null}
        /\ row.age \in Ages
    BY Parts DEF SweepStates, Rows
  <1>1. CASE List
    <2>1. /\ [sweep EXCEPT !.step = "ask", !.list = "connected"] \in SweepStates
          /\ [sweep EXCEPT !.step = "ask", !.list = "offline", !.off = row.age] \in SweepStates
          /\ Rested(sweep.null) \in SweepStates
      BY <1>0, RestedType DEF SweepStates
    <2>2. sweep' \in SweepStates
      BY <1>1, <2>1 DEF List
    <2> QED
      BY <1>1, <2>2, Parts, PartsMake DEF List
  <1>2. CASE AskSkips
    <2>1. sweep' \in SweepStates
      BY <1>0, <1>2, RestedType DEF AskSkips
    <2> QED
      BY <1>2, <2>1, Parts, PartsMake DEF AskSkips
  <1>3. CASE AskHeals
    <2>1. sweep' \in SweepStates
      BY <1>0, <1>3, RestedType DEF AskHeals
    <2>2. job' \in [Sources -> JobStates]
      BY <1>3, Parts, StartType, SourceTypes DEF AskHeals
    <2> QED
      BY <1>3, <2>1, <2>2, Parts, PartsMake DEF AskHeals
  <1>4. CASE AskProbes \/ AskFails
    <2>1. sweep' \in SweepStates
      BY <1>0, <1>4 DEF AskProbes, AskFails, SweepStates
    <2>2. faults' \in 0 .. MaxFaults
      BY <1>4, Parts, CounterTypes DEF AskProbes, AskFails
    <2> QED
      BY <1>4, <2>1, <2>2, Parts, PartsMake DEF AskProbes, AskFails
  <1>5. CASE Probe
    <2>1. sock' \in [Conns -> SocketStates]
      <3>1. \A c \in Conns : sock[c] \in SocketStates
        BY Parts
      <3>2. \A c \in Conns : Closed(c) \in SocketStates
        BY <3>1 DEF Closed, SocketStates
      <3> QED
        BY <1>5, <3>1, <3>2 DEF Probe
    <2>2. sweep' \in SweepStates
      BY <1>5, NullSinceType, RestedType DEF Probe
    <2>3. job' \in [Sources -> JobStates]
      BY <1>5, Parts, StartType, SourceTypes DEF Probe
    <2> QED
      BY <1>5, <2>1, <2>2, <2>3, Parts, PartsMake DEF Probe
  <1>6. CASE ProbeFails \/ SweepEnds
    <2>1. sweep' \in SweepStates
      BY <1>0, <1>6, RestedType DEF ProbeFails, SweepEnds
    <2>2. faults' \in 0 .. MaxFaults
      BY <1>6, Parts, CounterTypes DEF ProbeFails, SweepEnds
    <2> QED
      BY <1>6, <2>1, <2>2, Parts, PartsMake DEF ProbeFails, SweepEnds
  <1>7. CASE SweepDies
    <2>1. [Rested(Null) EXCEPT !.skip = Blocked] \in SweepStates
      BY <1>0, RestedType, LimitTypes DEF SweepStates
    <2>2. job' \in [Sources -> JobStates] /\ faults' \in 0 .. MaxFaults
      BY <1>7, Parts, IdleType, SourceTypes, CounterTypes DEF SweepDies
    <2> QED
      BY <1>7, <2>1, <2>2, Parts, PartsMake DEF SweepDies
  <1> QED
    BY <1>1, <1>2, <1>3, <1>4, <1>5, <1>6, <1>7 DEF Sweep

\* The clock.
LEMMA TickType ==
  ASSUME TypeOK, Tick
  PROVE  TypeOK'
  <1>1. row' \in Rows
    <2>1. [row EXCEPT !.age = Older(@)] \in Rows
      BY Parts, OlderType DEF Rows
    <2> QED
      BY <2>1, Parts DEF Tick
  <1>2. sock' \in [Conns -> SocketStates]
    <2>1. \A c \in Conns : [sock[c] EXCEPT !.ping = OlderUpTo(@, ReapAge),
                                            !.age = OlderUpTo(@, AgeCap)] \in SocketStates
      <3>1. ASSUME NEW c \in Conns
            PROVE  /\ OlderUpTo(sock[c].ping, ReapAge) \in Ages \cup {Null}
                   /\ OlderUpTo(sock[c].age, AgeCap) \in Ages \cup {Null}
        <4>1. sock[c].ping \in Ages \cup {Null} /\ sock[c].age \in Ages \cup {Null}
          BY Parts DEF SocketStates
        <4> QED
          BY <4>1, OlderType, LimitTypes
      <3> QED
        BY <3>1, Parts DEF SocketStates
    <2> QED
      BY <2>1 DEF Tick
  <1>3. host' \in [on: Conns \cup {NoConn}, beat: Ages] /\ sample' \in Ages
    BY Parts, OlderType DEF Tick
  <1>4. sweep' \in SweepStates
    <2>0. \A m \in Isolates : m[1] \in Ages \cup {Null} /\ m[2] \in Ages \cup {Null}
      BY Parts DEF SweepStates, Isolates
    <2>1. ASSUME NEW m \in Isolates
          PROVE  [sweep EXCEPT !.step = "due", !.null = Observed(m[1]),
                                !.other = Observed(m[2])] \in SweepStates
      BY <2>0, Parts, OlderType DEF SweepStates
    <2>2. ASSUME sweep.skip > 0
          PROVE  [sweep EXCEPT !.skip = @ - 1, !.null = Observed(@),
                                !.other = Observed(@)] \in SweepStates
      <3>1. sweep.skip - 1 \in 0 .. Blocked
        BY <2>2, Parts, LimitTypes DEF SweepStates
      <3> QED
        BY <3>1, Parts, OlderType DEF SweepStates
    <2> QED
      BY <2>1, <2>2 DEF Tick
  <1> QED
    BY <1>1, <1>2, <1>3, <1>4, Parts, PartsMake DEF Tick

\* Every state of the row, the cell, the daemon and the sweep is well typed; no
\* projection is left in a step or with a trigger `projectServerDaemon' does not know.
THEOREM PresenceTypeOK == Spec => []TypeOK
  <1>1. TypeOK /\ [Next]_vars => TypeOK'
    <2> SUFFICES ASSUME TypeOK, [Next]_vars PROVE TypeOK'
      OBVIOUS
    <2>1. CASE UNCHANGED vars
      BY <2>1 DEF TypeOK, vars
    <2> QED
      BY <2>1, ProjectType, CellType, SweepType, TickType DEF Next, Fails
  <1> QED
    BY <1>1, TypeInit, PTL DEF Spec
=============================================================================
