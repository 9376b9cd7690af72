------------------------------ MODULE MCScheduler ------------------------------
(* Instances of Scheduler for TLC. *)
EXTENDS Scheduler

CONSTANTS n, l, m   \* jobs
=============================================================================
