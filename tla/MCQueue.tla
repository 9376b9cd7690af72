-------------------------------- MODULE MCQueue --------------------------------
(* Instances of Queue for TLC. *)
EXTENDS Queue

CONSTANTS m1, m2, m3
=============================================================================
