---------------------------- MODULE MCScheduler ----------------------------
(***************************************************************************)
(* Two jobs, each with a once-schedule (in the past if it is asked for     *)
(* late) or an interval, which can fall due in the same period.            *)
(***************************************************************************)
EXTENDS JobScheduler, TLC

CONSTANTS j1, j2, f1, f2, e1

MCSchedules == {[type |-> "once", at |-> 1], [type |-> "interval", secs |-> 2]}
=============================================================================
