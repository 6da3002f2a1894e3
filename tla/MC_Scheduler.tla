---------------------------- MODULE MC_Scheduler ----------------------------
(***************************************************************************)
(* The scheduler with two launches, each a cron firing or a RunNow call,   *)
(* and a timer for each of the two retries each of them may need.          *)
(***************************************************************************)
EXTENDS Scheduler

MCLaunches == 1 .. 2
MCTimers == 3 .. 6
=============================================================================
