------------------------- MODULE MCManagedRecovery -------------------------
EXTENDS ManagedRecovery
=============================================================================
