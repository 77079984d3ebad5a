-------------------------- MODULE MCRelaySessions --------------------------
(* Instances of RelaySessions for TLC. *)
EXTENDS RelaySessions
=============================================================================
