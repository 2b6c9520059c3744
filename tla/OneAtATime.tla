----------------------------- MODULE OneAtATime -----------------------------
(***************************************************************************)
(* What server-turn.ts promises of one server, with no queue, no lock and  *)
(* no clock: "One command at a time per server".  A command waits, has the *)
(* turn, and is past it once it ended or the server took it over.  Quick   *)
(* commands never take the turn.                                           *)
(***************************************************************************)
CONSTANTS Commands,
          Skips      \* the commands that skip the line (QUICK_COMMAND_TYPES)

VARIABLE place      \* [Commands -> {"waiting", "turn", "past"}]

Init == place = [c \in Commands |-> "waiting"]

\* A command takes the turn only when nobody has it.
Start(c) ==
    /\ c \notin Skips
    /\ place[c] = "waiting"
    /\ \A o \in Commands : place[o] # "turn"
    /\ place' = [place EXCEPT ![c] = "turn"]

\* Commands that ended, were taken over by the server, or never got the turn.
\* The clock can take several deploys over in one step.
Leave(S) ==
    /\ \A c \in S : place[c] # "past"
    /\ place' = [c \in Commands |-> IF c \in S THEN "past" ELSE place[c]]

Next == \/ \E c \in Commands : Start(c)
        \/ \E S \in SUBSET Commands : Leave(S)

Spec == Init /\ [][Next]_place
=============================================================================
