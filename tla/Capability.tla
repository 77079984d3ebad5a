----------------------------- MODULE Capability -----------------------------
(***************************************************************************)
(* Subscribe capabilities and the proofs of an anchor's registration       *)
(* (crates/collab-proto/src/capability.rs): what is signed, and what each  *)
(* verification compares.  A signature is the key it verifies under and    *)
(* the canonical bytes it covers, which stand as the fields they encode:   *)
(* a label and length prefixes keep any two of them apart.  A verifying    *)
(* key stands for its pair; bytes that are no key or no signature, which   *)
(* the code rejects, are left out.                                         *)
(***************************************************************************)
EXTENDS Naturals

Sign(key, bytes) == [key |-> key, bytes |-> bytes]

VerifyStrict(key, bytes, signature) == signature = Sign(key, bytes)

-----------------------------------------------------------------------------
(* SubscribeCapability.                                                    *)

SigningBytes(user, doc, epoch, expiry) ==
    [label |-> "subscribe-capability", user_id |-> user, doc_id |-> doc, epoch |-> epoch,
     expiry_unix |-> expiry]

SubscribeCapability(user, doc, epoch, expiry, signature) ==
    [user_id |-> user, doc_id |-> doc, epoch |-> epoch, expiry_unix |-> expiry,
     signature |-> signature]

SignSubscribeCapability(key, user, doc, epoch, expiry) ==
    SubscribeCapability(user, doc, epoch, expiry,
                        Sign(key, SigningBytes(user, doc, epoch, expiry)))

\* Mutated form of VerifySubscribeCapability: the signature is not checked.
VerifySubscribeCapability_Unsigned(cap, key, user, doc, epoch, now) ==
    /\ cap.user_id = user /\ cap.doc_id = doc /\ cap.epoch = epoch
    /\ now <= cap.expiry_unix

\* All of it has to agree with what the verifier trusts; one CapabilityError per
\* conjunct otherwise.
VerifySubscribeCapability(cap, key, user, doc, epoch, now) ==
    /\ cap.user_id = user /\ cap.doc_id = doc /\ cap.epoch = epoch
    /\ now <= cap.expiry_unix
    /\ VerifyStrict(key, SigningBytes(cap.user_id, cap.doc_id, cap.epoch, cap.expiry_unix),
                    cap.signature)

-----------------------------------------------------------------------------
(* RegisterDocKey.                                                         *)

RegisterProofBytes(doc, epoch) ==
    [label |-> "register-doc-key", doc_id |-> doc, epoch |-> epoch]

SignDocKeyProof(key, doc, epoch) == Sign(key, RegisterProofBytes(doc, epoch))

\* Possession of the key that is registered.
VerifyDocKeyProof(doc, epoch, publicKey, proof) ==
    VerifyStrict(publicKey, RegisterProofBytes(doc, epoch), proof)

RotationProofBytes(doc, newEpoch, newKey) ==
    [label |-> "anchor-rotation", doc_id |-> doc, epoch |-> newEpoch, public_key |-> newKey]

SignAnchorRotation(currentKey, doc, newEpoch, newKey) ==
    Sign(currentKey, RotationProofBytes(doc, newEpoch, newKey))

\* Possession of the key of the anchor that is there.
VerifyAnchorRotation(doc, newEpoch, newKey, currentKey, proof) ==
    VerifyStrict(currentKey, RotationProofBytes(doc, newEpoch, newKey), proof)
=============================================================================
