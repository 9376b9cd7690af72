------------------------------ MODULE MCStateLock ------------------------------
(* Instances of StateLock for TLC. *)
EXTENDS StateLock

CONSTANTS p1, p2
=============================================================================
