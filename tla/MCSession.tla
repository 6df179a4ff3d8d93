----------------------------- MODULE MCSession ------------------------------
EXTENDS SessionManager
CONSTANTS p1, p2
=============================================================================
