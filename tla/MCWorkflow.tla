------------------------------ MODULE MCWorkflow ------------------------------
(* Instances of Workflow for TLC. *)
EXTENDS Workflow

CONSTANTS d, z, w   \* a step.do, a sleep, a wait for an event
=============================================================================
