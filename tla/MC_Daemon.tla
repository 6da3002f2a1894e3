------------------------------ MODULE MC_Daemon ------------------------------
(* Two connections, so that revocations race, and one goroutine that ticks    *)
(* for cron or for a retry.                                                   *)
EXTENDS Daemon
==============================================================================
