---------------------------- MODULE MCSweepLease ----------------------------
(* Small instances of SweepLease; a unit of time stands for 15 seconds.     *)
EXTENDS SweepLease
=============================================================================
