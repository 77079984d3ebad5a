------------------------- MODULE MCSubscribeAuthz -------------------------
(* Instances of SubscribeAuthz for TLC. *)
EXTENDS SubscribeAuthz, TLC

CONSTANTS owner, deputy, member, s1, s2, s3, k1, k2, d1, d2

MCUserOf == s1 :> owner @@ s2 :> deputy @@ s3 :> member

\* Only the member, removed before the second epoch, lacks its key.
MCKnows == owner :> {k1, k2} @@ deputy :> {k1, k2} @@ member :> {k1}

\* The documents are interchangeable; for runs that check invariants only.
MCSymmetry == Permutations({d1, d2})
=============================================================================
