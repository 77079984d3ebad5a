--------------------------- MODULE MCSharedVault ---------------------------
(* An instance of SharedVault for TLC. *)
EXTENDS SharedVault, TLC

CONSTANTS anna, bert, a, b, t, f, g

\* One of anna's two sessions has the smaller id, the other the greater.
MCIds == anna :> {1, 3} @@ bert :> {2}

\* The paths a and b are in one folder, t in another.
MCParent == a :> f @@ b :> f @@ t :> g
=============================================================================
