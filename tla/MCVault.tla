------------------------------ MODULE MCVault -------------------------------
EXTENDS Vault, TLC
CONSTANTS a, b, k1, k2, v1, w1, w2
=============================================================================
