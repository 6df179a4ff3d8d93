----------------------------- MODULE MCAskUser ------------------------------
EXTENDS AskUser
CONSTANTS q1, q2
=============================================================================
