------------------------ MODULE MCDocumentRegistry ------------------------
(* An instance of DocumentRegistry for TLC. *)
EXTENDS DocumentRegistry, TLC

CONSTANTS olga, anna, twin, O, A

\* The twin goes by the owner's user id.
MCUserId == olga :> O @@ anna :> A @@ twin :> O
=============================================================================
