--------------------------- MODULE MCCollabClient ---------------------------
(* Instances of CollabClient for TLC. *)
EXTENDS CollabClient
=============================================================================
