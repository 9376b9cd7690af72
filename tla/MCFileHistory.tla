---------------------------- MODULE MCFileHistory ----------------------------
(* Instances of FileHistory for TLC. *)
EXTENDS FileHistory

CONSTANTS a, b   \* writers
=============================================================================
