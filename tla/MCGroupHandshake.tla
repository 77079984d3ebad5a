------------------------- MODULE MCGroupHandshake -------------------------
(* Instances of GroupHandshake for TLC. *)
EXTENDS GroupHandshake, TLC

CONSTANTS olga, anna, bert, O, A, B

MCUserId == olga :> O @@ anna :> A @@ bert :> B
=============================================================================
