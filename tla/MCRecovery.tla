----------------------------- MODULE MCRecovery -----------------------------
EXTENDS SessionRecovery
CONSTANTS p1, p2
=============================================================================
