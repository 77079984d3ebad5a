------------------------- MODULE EncryptedDocument -------------------------
(***************************************************************************)
(* An encrypted document: the text and its MLS group                       *)
(* (crates/collab-core/src/encryption.rs, document.rs), and its snapshot   *)
(* at rest (persistence.rs).                                               *)
(*                                                                         *)
(* The text is a Yrs document: the set of the edits it has, of which each  *)
(* client makes one; an update is the whole state and applying it is a     *)
(* union.  A snapshot is the group without the text, sealed under a        *)
(* document id and a key, so what can be read back is what was written     *)
(* under the same two.  Every operation binds the document's own id.       *)
(***************************************************************************)
EXTENDS MlsGroup

VARIABLES
    text,  \* the edits in each client's CollabDocument
    disk   \* the last snapshot each client has written, NoGroup for none

docVars == <<mlsVars, text, disk>>

DocInit ==
    /\ MlsInit
    /\ text = [c \in Client |-> {}]
    /\ disk = [c \in Client |-> NoGroup]

-----------------------------------------------------------------------------
(* The document and the operations of its group.                           *)

\* EncryptedDocument::create: an empty text and a group of one.
DocCreate(c) ==
    /\ MlsCreate(c)
    /\ text' = [text EXCEPT ![c] = {}]
    /\ UNCHANGED disk

\* EncryptedDocument::join: an empty text and the group of the Welcome.
DocJoin(c, e) ==
    /\ MlsJoin(c, e)
    /\ text' = IF group'[c] = group[c] THEN text ELSE [text EXCEPT ![c] = {}]
    /\ UNCHANGED disk

\* CollabDocument::insert and delete, clamped to the text; no key is needed.
Edited(c) == text[c] \cup {c}

\* After an edit, get_encrypted_update seals the full state at the current epoch.
SendEdit(c) ==
    /\ text' = [text EXCEPT ![c] = Edited(c)]
    /\ Encrypt(c, Edited(c))
    /\ UNCHANGED disk

\* CollabDocument::apply_update
ApplyUpdate(c, update) == text' = [text EXCEPT ![c] = @ \cup update]

\* apply_encrypted_update: nothing is applied that does not decrypt.
ApplyEncryptedUpdate(c, m) ==
    /\ Decrypt(c, m)
    /\ ApplyUpdate(c, messages[m].plaintext)
    /\ UNCHANGED disk

\* EncryptedDocument::create_invite: commit, Welcome and rotation are one epoch.
DocCreateInvite(c, p) == AddMember(c, p) /\ UNCHANGED <<text, disk>>

\* EncryptedDocument::process_commit
DocProcessCommit(c, e) == ProcessCommit(c, e) /\ UNCHANGED <<text, disk>>

\* EncryptedDocument::remove_member
DocRemoveMember(c, u) == RemoveMember(c, u) /\ UNCHANGED <<text, disk>>

DocGenerateKeyPackage(c) == GenerateKeyPackage(c) /\ UNCHANGED <<text, disk>>

-----------------------------------------------------------------------------
(* Persistence.                                                            *)

\* MlsDocumentGroup::snapshot_encrypted: all that openmls stores of the group.
Snapshot(c) == group[c]

\* MlsDocumentGroup::restore_encrypted, of a snapshot that opens and is fresh
Restored(snapshot) == FromParts(snapshot)

\* EncryptedDocument::snapshot_encrypted, and the file is written whole; the
\* text is not in it.
SnapshotEncrypted(c) ==
    /\ Established(c)
    /\ disk' = [disk EXCEPT ![c] = Snapshot(c)]
    /\ UNCHANGED <<mlsVars, text>>

\* The process ends: what is in memory only is gone.
Forget(c) ==
    /\ group' = [group EXCEPT ![c] = NoGroup]
    /\ pending' = [pending EXCEPT ![c] = 0]
    /\ text' = [text EXCEPT ![c] = {}]
    /\ UNCHANGED <<packages, epochs, messages, rotations, disk>>

\* A snapshot whose epoch is older than min_epoch is stale: Ok(None).
IsFresh(snapshot, minEpoch) == epochs[snapshot.epoch].number >= minEpoch

\* EncryptedDocument::restore_encrypted: the group as it was, with an empty text.
RestoreEncrypted(c, minEpoch) ==
    /\ disk[c] # NoGroup
    /\ IsFresh(disk[c], minEpoch)
    /\ group' = [group EXCEPT ![c] = Restored(disk[c])]
    /\ text' = [text EXCEPT ![c] = {}]
    /\ UNCHANGED <<packages, epochs, pending, messages, rotations, disk>>
=============================================================================
