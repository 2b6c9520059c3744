------------------------- MODULE MCCommandDelivery -------------------------
(* Small instances of CommandDelivery for TLC.                             *)
EXTENDS CommandDelivery, TLC

RunSymmetry == Permutations(Runs)
=============================================================================
