------------------------------ MODULE Presence ------------------------------
(***************************************************************************)
(* Is a server online?  Its daemon cell (a Durable Object) sees the        *)
(* sockets; the `server' row in Postgres is what everything else reads,    *)
(* host-loss failover included.  The row is projected from the cell's      *)
(* connect and close events and repaired by a sweep that the cron starts   *)
(* every minute.  A projection reads the row in one statement and writes   *)
(* it in a later one (`projectServerDaemon'), so projections overlap.      *)
(*                                                                         *)
(* One server and one sweep at a time (SweepLease).  A unit of time is the *)
(* cron's interval; a sweep (45 s) and a statement (8 s) end within the    *)
(* unit they start in.                                                     *)
(***************************************************************************)
EXTENDS Integers, FiniteSets

CONSTANTS Conns,        \* connections of the daemon (ids are used again)
          NoConn,       \* no connection
          StaleAge,     \* OFFLINE_SWEEP_STALE_MS
          ReapAge,      \* HALF_OPEN_CLOSE_MS and DAEMON_OFFLINE_SWEEP_MS
          HealWindow,   \* RECENT_OFFLINE_SWEEP_MS
          AeWindow,     \* AE_LIVENESS_WINDOW_SECONDS
          AgeCap,       \* MAX_WS_CONNECTION_AGE_MS
          PingEvery,    \* the daemon's ping and metrics interval
          Blocked,      \* ticks a dead sweep's lease turns away
          MaxAge,       \* ages are counted up to here
          MaxJobs,      \* projections in progress at once
          MaxMoves,     \* connects and other projections of the daemon
          MaxFaults     \* failed statements and probes, dead sweeps

ASSUME PresenceAssumption ==
    /\ {StaleAge, ReapAge, HealWindow, AeWindow, AgeCap, PingEvery, Blocked,
        MaxAge, MaxJobs, MaxMoves, MaxFaults} \subseteq Nat
    /\ {StaleAge, ReapAge, HealWindow, AeWindow, PingEvery} \subseteq 0 .. (MaxAge - 1)
    /\ StaleAge < ReapAge
    /\ AgeCap <= MaxAge
    /\ NoConn \notin Conns

VARIABLES row,      \* server: is_connected, offline_reason, age of status_changed_at
          sock,     \* the cell's sockets: state, age of the last auto-response, own age
          cell,     \* the cell's memory: #runtimeConnected, #sweptOffline
          host,     \* the daemon: its connection, time since its last beat
          sample,   \* age of the newest metrics sample in Analytics Engine
          job,      \* projections in progress
          sweep,    \* the sweep: its step, what it listed, null grace here and in
                    \* another isolate, lost ticks
          faults,   \* faults so far
          moves     \* connects and patches so far

vars == <<row, sock, cell, host, sample, job, sweep, faults, moves>>

-----------------------------------------------------------------------------
Null == -1                      \* a timestamp that was never set
Ages == 0 .. MaxAge
OlderUpTo(a, cap) == IF a = Null THEN Null ELSE IF a < cap THEN a + 1 ELSE a
Older(a) == OlderUpTo(a, MaxAge)

Reasons == {"none", "disconnect", "sweep_stale"}
Sources == ({"attach", "close"} \X Conns)
             \cup ({"frame", "alarm", "patch", "sweep"} \X {NoConn})
TheSweep == <<"sweep", NoConn>>

NoJob == [step |-> "idle", kind |-> "online", why |-> "none"]
NoSocket == [state |-> "none", ping |-> Null, age |-> Null]
NewSocket == [state |-> "open", ping |-> Null, age |-> 0]

TypeOK ==
    /\ row \in [connected: BOOLEAN, reason: Reasons, age: Ages]
    /\ sock \in [Conns -> [state: {"none", "open", "closing"},
                         ping: Ages \cup {Null}, age: Ages \cup {Null}]]
    /\ cell \in [connected: BOOLEAN, swept: BOOLEAN]
    /\ host \in [on: Conns \cup {NoConn}, beat: Ages]
    /\ sample \in Ages
    /\ job \in [Sources -> [step: {"idle", "read", "write"},
                            kind: {"online", "disconnect", "sweep_stale", "patch", "identity"},
                            why: Reasons]]
    /\ sweep \in [step: {"idle", "due", "ask", "probe", "act"},
                  list: {"none", "connected", "offline"},
                  off: Ages, null: Ages \cup {Null}, other: Ages \cup {Null},
                  skip: 0 .. Blocked]
    /\ faults \in 0 .. MaxFaults
    /\ moves \in 0 .. MaxMoves

Init ==
    /\ row = [connected |-> FALSE, reason |-> "none", age |-> MaxAge]
    /\ sock = [c \in Conns |-> NoSocket]
    /\ cell = [connected |-> FALSE, swept |-> FALSE]
    /\ host = [on |-> NoConn, beat |-> 0]
    /\ sample = MaxAge
    /\ job = [s \in Sources |-> NoJob]
    /\ sweep = [step |-> "idle", list |-> "none", off |-> 0,
                null |-> Null, other |-> Null, skip |-> 0]
    /\ faults = 0
    /\ moves = 0

Fault == faults < MaxFaults /\ faults' = faults + 1
Move == moves < MaxMoves /\ moves' = moves + 1

-----------------------------------------------------------------------------
(***************************************************************************)
(* The projection: `projectServerDaemon' with its trigger.                 *)
(***************************************************************************)

\* applyOfflineTrigger: a close does not replace the sweep's mark.
KeepsSweepMark(kind, saw) ==
    kind = "disconnect" /\ ~saw.connected /\ saw.reason = "sweep_stale"

\* Whether the trigger changes a row that was read as `saw'.
Writes(kind, saw) ==
    CASE kind = "online"                -> ~saw.connected
      [] kind \in {"patch", "identity"} -> TRUE
      [] OTHER                          -> ~KeepsSweepMark(kind, saw)

\* Mutant: a patch writes its own name as the reason.
WrittenRaw(j, r) ==
    IF j.kind = "online" THEN [connected |-> TRUE, reason |-> "none", age |-> 0]
    ELSE [r EXCEPT !.connected = (j.kind \in {"patch", "identity"}) /\ @, !.reason = j.kind]

\* The row after the update statement.  A patch (build or update state) and an
\* identity write back the reason they carry, and no status.
Written(j, r) ==
    CASE j.kind = "online"                -> [connected |-> TRUE, reason |-> "none", age |-> 0]
      [] j.kind \in {"patch", "identity"} -> [r EXCEPT !.reason = j.why]
      [] OTHER                            -> [connected |-> FALSE, reason |-> j.kind, age |-> 0]

\* The offline reason a trigger takes over from the row it read: an identity is
\* built anew without one.
Carried(kind, saw) == IF kind = "patch" THEN saw.reason ELSE "none"

Start(s, kind) ==
    /\ job[s].step = "idle"
    /\ Cardinality({t \in Sources : job[t].step # "idle"}) < MaxJobs
    /\ job' = [job EXCEPT ![s] = [NoJob EXCEPT !.step = "read", !.kind = kind]]

ProjectRead(s) ==
    /\ job[s].step = "read"
    /\ job' = [job EXCEPT ![s] =
                 IF Writes(@.kind, row)
                 THEN [@ EXCEPT !.step = "write", !.why = Carried(job[s].kind, row)]
                 ELSE NoJob]
    /\ UNCHANGED <<row, sock, cell, host, sample, sweep, faults, moves>>

ProjectWrite(s) ==
    /\ job[s].step = "write"
    /\ row' = Written(job[s], row)
    /\ job' = [job EXCEPT ![s] = NoJob]
    /\ UNCHANGED <<sock, cell, host, sample, sweep, faults, moves>>

\* A statement fails or runs into DB_OP_TIMEOUT_MS; the error is only logged.
ProjectFails(s) ==
    /\ job[s].step # "idle"
    /\ Fault
    /\ job' = [job EXCEPT ![s] = NoJob]
    /\ UNCHANGED <<row, sock, cell, host, sample, sweep, moves>>

-----------------------------------------------------------------------------
(***************************************************************************)
(* The cell and the daemon.                                                *)
(***************************************************************************)
Listed(c) == sock[c].state # "none"             \* getWebSockets()
HasSocket == \E c \in Conns : Listed(c)
Up == host.on # NoConn /\ sock[host.on].state = "open"
Closed(c) == [sock[c] EXCEPT !.state = "closing", !.age = Null]
Gone == [on |-> NoConn, beat |-> 0]

\* #getLivenessSnapshot: the newest auto-response of the listed sockets.
Newest ==
    LET pings == {sock[c].ping : c \in {d \in Conns : Listed(d)}} \ {Null}
    IN  IF pings = {} THEN Null ELSE CHOOSE a \in pings : \A b \in pings : a <= b

\* A connection is new.  Names are used again, if possible one with no projection
\* in progress; which one means nothing.
Quiet(c) == ~Listed(c) /\ \A kind \in {"attach", "close"} : job[<<kind, c>>].step = "idle"
NewName == CHOOSE c \in Conns : ~Listed(c) /\ ((\E d \in Conns : Quiet(d)) => Quiet(c))

\* #handleWebSocketUpgrade: the other sockets are closed, the connect is
\* projected in the background.
Connect(c) ==
    /\ host.on = NoConn
    /\ ~Listed(c) /\ c = NewName
    /\ sock' = [d \in Conns |->
                  IF d = c THEN NewSocket
                  ELSE IF Listed(d) THEN Closed(d)
                  ELSE sock[d]]
    /\ cell' = [connected |-> TRUE, swept |-> FALSE]
    /\ host' = [on |-> c, beat |-> 0]
    /\ Start(<<"attach", c>>, "online")
    /\ Move
    /\ UNCHANGED <<row, sample, sweep, faults>>

\* A frame of the daemon that finds offline evidence in the cell
\* (#needsOfflineRepair, read before #recordInbound clears it).  Any other
\* frame, the hello included, changes nothing here: #recordInbound has stored
\* the build, so onDaemonInbound takes its steady-state return before it would
\* read the row.
Frame ==
    /\ Up
    /\ ~cell.connected \/ cell.swept
    /\ cell' = [connected |-> TRUE, swept |-> FALSE]
    /\ Start(<<"frame", NoConn>>, "online")
    /\ UNCHANGED <<row, sock, host, sample, sweep, faults, moves>>

\* The daemon's ping, answered by the runtime (no code of the cell runs), and
\* the metrics sample it sends as often.
Beat ==
    /\ Up
    /\ sock' = [sock EXCEPT ![host.on].ping = 0]
    /\ host' = [host EXCEPT !.beat = 0]
    /\ sample' = 0
    /\ UNCHANGED <<row, cell, job, sweep, faults, moves>>

\* Power loss or a cut link: the cell keeps a socket nobody answers on.
Vanish ==
    /\ host.on # NoConn
    /\ host' = Gone
    /\ UNCHANGED <<row, sock, cell, sample, job, sweep, faults, moves>>

\* The daemon closes its socket (a stop, a restart).
Leave ==
    /\ host.on # NoConn
    /\ sock' = [sock EXCEPT ![host.on] = Closed(host.on)]
    /\ host' = Gone
    /\ UNCHANGED <<row, cell, sample, job, sweep, faults, moves>>

\* webSocketClose / webSocketError, #cleanupWebSocket: only the last socket's
\* close is projected.
CloseEvent(c) ==
    /\ sock[c].state = "closing"
    /\ sock' = [sock EXCEPT ![c] = NoSocket]
    /\ host' = IF host.on = c THEN Gone ELSE host
    /\ IF \E d \in Conns \ {c} : Listed(d)
       THEN UNCHANGED <<cell, job>>
       ELSE /\ cell' = [cell EXCEPT !.connected = FALSE]
            /\ Start(<<"close", c>>, "disconnect")
    /\ UNCHANGED <<row, sample, sweep, faults, moves>>

\* alarm(), #collectStaleDemotions: runs when the cell has other work.
AlarmStale(c) ==
    /\ Listed(c)
    /\ sock[c].ping >= ReapAge
    /\ ~cell.swept
    /\ cell' = [connected |-> FALSE, swept |-> TRUE]
    /\ Start(<<"alarm", NoConn>>, "disconnect")
    /\ UNCHANGED <<row, sock, host, sample, sweep, faults, moves>>

\* The object hibernates and wakes (#initializeFromStorage): its memory is
\* rebuilt from the sockets.
Wake ==
    /\ cell # [connected |-> HasSocket, swept |-> FALSE]
    /\ cell' = [connected |-> HasSocket, swept |-> FALSE]
    /\ UNCHANGED <<row, sock, host, sample, job, sweep, faults, moves>>

\* Triggers that leave the status alone: build or update state, and identity.
Patch ==
    /\ \E kind \in {"patch", "identity"} : Start(<<"patch", NoConn>>, kind)
    /\ Move
    /\ UNCHANGED <<row, sock, cell, host, sample, sweep, faults>>

-----------------------------------------------------------------------------
(***************************************************************************)
(* The sweep: the liveness phase of `runOfflineSweep'.                     *)
(***************************************************************************)
\* null is the server's entry in the null-grace map of the isolate that runs.
Rested(null) == [step |-> "idle", list |-> "none", off |-> 0,
                 null |-> null, other |-> sweep.other, skip |-> 0]
Acting(null) == [Rested(null) EXCEPT !.step = "act"]

\* listRecentlyOfflineServersForSweep
RecentlyOffline == ~row.connected /\ row.age <= HealWindow

\* Mutant: the recently offline servers are not listed.
ListConnectedOnly ==
    /\ sweep.step = "due"
    /\ sweep' = IF row.connected THEN [sweep EXCEPT !.step = "ask", !.list = "connected"]
                ELSE Rested(sweep.null)
    /\ UNCHANGED <<row, sock, cell, host, sample, job, faults, moves>>

\* sweepOnce lists the connected servers and the recently offline ones; with
\* nobody on either list the null-grace map is not looked at.
List ==
    /\ sweep.step = "due"
    /\ sweep' = IF row.connected
                THEN [sweep EXCEPT !.step = "ask", !.list = "connected"]
                ELSE IF RecentlyOffline
                THEN [sweep EXCEPT !.step = "ask", !.list = "offline", !.off = row.age]
                ELSE Rested(sweep.null)
    /\ UNCHANGED <<row, sock, cell, host, sample, job, faults, moves>>

\* resolveRecentlyActiveServerIds failed: sweepOnceFallback probes everybody.
AskFails ==
    /\ sweep.step = "ask"
    /\ Fault
    /\ sweep' = [sweep EXCEPT !.step = "probe"]
    /\ UNCHANGED <<row, sock, cell, host, sample, job, moves>>

\* sweepOnceWithAe: a connected server with a recent sample is not probed,
AskSkips ==
    /\ sweep.step = "ask"
    /\ sweep.list = "connected" /\ sample <= AeWindow
    /\ sweep' = Rested(Null)
    /\ UNCHANGED <<row, sock, cell, host, sample, job, faults, moves>>

\* canDirectHealFromAeEvidence: one marked offline before its newest sample is
\* put online without a probe,
DirectHeal == sweep.list = "offline" /\ sample <= AeWindow /\ sample < sweep.off

AskHeals ==
    /\ sweep.step = "ask"
    /\ DirectHeal
    /\ sweep' = Acting(Null)
    /\ Start(TheSweep, "online")
    /\ UNCHANGED <<row, sock, cell, host, sample, faults, moves>>

\* any other is probed.
AskProbes ==
    /\ sweep.step = "ask"
    /\ ~DirectHeal
    /\ ~(sweep.list = "connected" /\ sample <= AeWindow)
    /\ sweep' = [sweep EXCEPT !.step = "probe"]
    /\ UNCHANGED <<row, sock, cell, host, sample, job, faults, moves>>

\* updateNullGraceBookkeeping, isStale and isLiveAndWarm.
NullSince ==
    IF ~HasSocket \/ Newest # Null THEN Null
    ELSE IF sweep.null = Null THEN 0 ELSE sweep.null

IsStale ==
    \/ ~HasSocket
    \/ Newest # Null /\ Newest > StaleAge
    \/ Newest = Null /\ NullSince > StaleAge

IsLiveAndWarm == HasSocket /\ Newest # Null /\ Newest <= StaleAge

\* Mutant: a socket's own age does not count.
ReapedHalfOpenOnly(c) == sock[c].state = "open" /\ sock[c].ping >= ReapAge

\* evaluateSocketHealth: past the absolute age cap, or half-open.
Reaped(c) ==
    sock[c].state = "open" /\ (sock[c].age >= AgeCap \/ sock[c].ping >= ReapAge)

\* probeCandidates: /rpc/liveness first closes unhealthy sockets
\* (#reapUnhealthySockets), then the verdict goes to demoteStale or healServers.
Probe ==
    /\ sweep.step = "probe"
    /\ sock' = [c \in Conns |->
                  IF Reaped(c) THEN Closed(c) ELSE sock[c]]
    /\ \/ /\ sweep.list = "connected" /\ IsStale
          /\ sweep' = Acting(NullSince)
          /\ Start(TheSweep, "sweep_stale")
       \/ /\ sweep.list = "offline" /\ IsLiveAndWarm
          /\ sweep' = Acting(NullSince)
          /\ Start(TheSweep, "online")
       \/ /\ ~(sweep.list = "connected" /\ IsStale)
          /\ ~(sweep.list = "offline" /\ IsLiveAndWarm)
          /\ sweep' = Rested(NullSince)
          /\ UNCHANGED job
    /\ UNCHANGED <<row, cell, host, sample, faults, moves>>

\* The liveness call fails or the probe deadline has passed.
ProbeFails ==
    /\ sweep.step = "probe"
    /\ Fault
    /\ sweep' = Rested(sweep.null)
    /\ UNCHANGED <<row, sock, cell, host, sample, job, moves>>

SweepEnds ==
    /\ sweep.step = "act"
    /\ job[TheSweep].step = "idle"
    /\ sweep' = Rested(sweep.null)
    /\ UNCHANGED <<row, sock, cell, host, sample, job, faults, moves>>

\* The isolate that runs dies with its memory and its statement; its lease stays.
SweepDies ==
    /\ sweep.step # "idle"
    /\ Fault
    /\ sweep' = [Rested(Null) EXCEPT !.skip = Blocked]
    /\ job' = [job EXCEPT ![TheSweep] = NoJob]
    /\ UNCHANGED <<row, sock, cell, host, sample, moves>>

-----------------------------------------------------------------------------
\* firstNullObservedAtMs is in the memory of an isolate, and the platform picks
\* the isolate of each cron tick: the last one, another, or a new one in its place.
Isolates == {<<sweep.null, sweep.other>>, <<sweep.other, sweep.null>>, <<Null, sweep.other>>}

Observed(a) == OlderUpTo(a, StaleAge + 1)

\* The clock waits for statements, for the sweep and for a live daemon's ping.
\* Pings, sockets and observations are told apart up to the limit they are
\* compared with.
Tick ==
    /\ \A s \in Sources : job[s].step = "idle"
    /\ sweep.step = "idle"
    /\ Up => host.beat < PingEvery
    /\ row' = IF row.connected THEN row ELSE [row EXCEPT !.age = Older(@)]
    /\ sock' = [c \in Conns |-> [sock[c] EXCEPT !.ping = OlderUpTo(@, ReapAge),
                                       !.age = OlderUpTo(@, AgeCap)]]
    /\ host' = IF Up THEN [host EXCEPT !.beat = Older(@)] ELSE host
    /\ sample' = Older(sample)
    /\ \/ /\ sweep.skip = 0
          /\ \E m \in Isolates :
               sweep' = [sweep EXCEPT !.step = "due",
                                      !.null = Observed(m[1]), !.other = Observed(m[2])]
       \/ /\ sweep.skip > 0
          /\ sweep' = [sweep EXCEPT !.skip = @ - 1,
                          !.null = Observed(@), !.other = Observed(@)]
    /\ UNCHANGED <<cell, job, faults, moves>>

Daemon == (\E c \in Conns : Connect(c)) \/ Frame \/ Vanish \/ Leave \/ Patch
Socket == \E c \in Conns : CloseEvent(c)
Alarm == \E c \in Conns : AlarmStale(c)
Project(s) == ProjectRead(s) \/ ProjectWrite(s)
Sweep == List \/ AskSkips \/ AskHeals \/ AskProbes \/ Probe \/ SweepEnds
Fails == (\E s \in Sources : ProjectFails(s)) \/ AskFails \/ ProbeFails \/ SweepDies

Next ==
    \/ Daemon \/ Socket \/ Alarm \/ Wake \/ Beat
    \/ \E s \in Sources : Project(s)
    \/ Sweep \/ Fails \/ Tick

\* A statement ends, the runtime delivers the close of a closed socket, the
\* cron fires and the sweep it starts ends, a live daemon pings.  Nothing is
\* assumed of connects, frames, alarms and hibernation.
Fairness ==
    /\ \A s \in Sources : WF_vars(Project(s))
    /\ WF_vars(Sweep)
    /\ WF_vars(Tick)
    /\ WF_vars(Beat)
    /\ \A c \in Conns : WF_vars(CloseEvent(c))

Spec == Init /\ [][Next]_vars /\ Fairness

-----------------------------------------------------------------------------
\* A daemon that stays connected is shown online, whatever order its connect,
\* the close of the connection before, an alarm and a sweep are projected in:
\* the sweep's self-heal finds it within RECENT_OFFLINE_SWEEP_MS.
LiveShownOnline == [](faults = 0) /\ <>[]Up => <>[]row.connected

\* onDaemonInbound: inbound traffic of a daemon whose row says offline is an
\* online transition, so a connected daemon is not shown offline for good even
\* if a projection fails or a sweep dies.
InboundRepairs == <>[]Up => <>[]row.connected

\* A host that lost its power without closing its socket is shown offline, and
\* stays so: a metrics sample from before the loss does not heal it for good.
\* A socket that never answered a ping has no age to be stale by, and its null
\* grace starts anew in every isolate: only the age cap of #reapUnhealthySockets
\* ends it, because a probe visits it once its samples are old.
DeadShownOffline == <>[](host.on = NoConn) => <>[](~row.connected)
=============================================================================
