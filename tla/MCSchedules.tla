----------------------------- MODULE MCSchedules -----------------------------
(* The instance of Schedules that TLC checks: one schedule, which runs every *)
(* minute or, after a change of its cron, never.  A second one can be added. *)
EXTENDS Schedules

CONSTANTS a, b

=============================================================================
