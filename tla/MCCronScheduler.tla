-------------------------- MODULE MCCronScheduler ---------------------------
EXTENDS CronScheduler
CONSTANTS once, daily, reused, home, s1, s2
=============================================================================
