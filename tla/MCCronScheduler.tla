-------------------------- MODULE MCCronScheduler ---------------------------
(* Instances of CronScheduler for TLC: a recurring task that is in the     *)
(* file, and a one-shot task that "mote cron add" may add.                 *)
EXTENDS CronScheduler

CONSTANTS s1, s2, once, often

RunsOf == [t \in Tasks |-> IF t = often THEN 1..MaxTime ELSE {1}]

=============================================================================
