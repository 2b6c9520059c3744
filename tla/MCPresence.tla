----------------------------- MODULE MCPresence -----------------------------
(* Small instances of Presence; a unit of time stands for 60 seconds.       *)
EXTENDS Presence
=============================================================================
