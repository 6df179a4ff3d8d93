---------------------------- MODULE MCCronStore -----------------------------
EXTENDS CronStore
CONSTANTS p1, p2, j1, j2
=============================================================================
