-------------------------- MODULE MCOfflineQueue --------------------------
(* Instances of OfflineQueue for TLC. *)
EXTENDS OfflineQueue

CONSTANTS content, handshake

MCKind == {content, handshake}

\* Room for one and a half full users of content and of one of handshakes.
MCBudget == content :> 3 @@ handshake :> 2
MCPerUser == content :> 2 @@ handshake :> 1

=============================================================================
