-------------------------- MODULE DocumentRegistry --------------------------
(***************************************************************************)
(* The registry's encrypted documents (crates/collab-core/src/registry.rs) *)
(* as a library: each client calls its operations in any order, on one     *)
(* document id, and delivers to itself any key package, Welcome, commit or *)
(* message that was ever made, as often as it likes.  A restored document  *)
(* is held beside the registry, which has no operation that takes it.      *)
(***************************************************************************)
EXTENDS EncryptedDocument

CONSTANTS
    Creators,   \* the clients that create the group under the id
    Persistent  \* the clients that write snapshots

VARIABLE entry  \* what each client's registry has under the id

vars == <<docVars, entry>>

\* "plain" and, with EncryptionMetadata::is_owner, "owner" and "member" are
\* entries; "restored" is a document that is not in the registry.
Entry == {"absent", "plain", "owner", "member", "restored"}

Init == DocInit /\ entry = [c \in Client |-> "absent"]

Contains(c) == entry[c] \in {"plain", "owner", "member"}
Encrypted(c) == entry[c] \in {"owner", "member"}
SetEntry(c, e) == entry' = [entry EXCEPT ![c] = e]

-----------------------------------------------------------------------------
(* Entries come and go.                                                    *)

\* create
RegistryCreate(c) ==
    /\ entry[c] = "absent"
    /\ SetEntry(c, "plain")
    /\ UNCHANGED docVars

\* open: create with a state, which is applied before there is an entry.
RegistryOpen(c) ==
    /\ entry[c] = "absent"
    /\ SetEntry(c, "plain")
    /\ UNCHANGED docVars

\* create_encrypted
RegistryCreateEncrypted(c) ==
    /\ entry[c] = "absent"
    /\ DocCreate(c)
    /\ SetEntry(c, "owner")

\* An invite whose epoch is not the group's current one is stale.
IsCurrent(e, current) == epochs[e].number = current

\* join_encrypted, told a current epoch: the pending member is dropped when
\* the invite is stale, the id is taken or the Welcome does not open.
RegistryJoinEncrypted(c, e, current) ==
    IF IsCurrent(e, current) /\ ~Contains(c)
    THEN /\ DocJoin(c, e)
         /\ IF OpensWelcome(c, e) THEN SetEntry(c, "member") ELSE UNCHANGED entry
    ELSE /\ pending[c] # 0
         /\ pending' = [pending EXCEPT ![c] = 0]
         /\ UNCHANGED <<packages, epochs, group, messages, rotations, text, disk, entry>>

\* Mutated form of RegistryClose: an encrypted document's entry is removed too.
RegistryClose_Any(c) ==
    /\ Contains(c)
    /\ SetEntry(c, "absent")
    /\ UNCHANGED docVars

\* close: plain documents only
RegistryClose(c) ==
    /\ entry[c] = "plain"
    /\ SetEntry(c, "absent")
    /\ UNCHANGED docVars

\* close_any: the document goes with its group.
RegistryCloseAny(c) ==
    /\ Encrypted(c)
    /\ SetEntry(c, "absent")
    /\ group' = [group EXCEPT ![c] = NoGroup]
    /\ text' = [text EXCEPT ![c] = {}]
    /\ UNCHANGED <<packages, epochs, pending, messages, rotations, disk>>

-----------------------------------------------------------------------------
(* Operations on an encrypted document.                                    *)

\* create_invite: NotFound and NotEncrypted are for the registry's own entries.
RegistryCreateInvite(c, p) == Encrypted(c) /\ DocCreateInvite(c, p) /\ UNCHANGED entry

\* process_commit
RegistryProcessCommit(c, e) == Encrypted(c) /\ DocProcessCommit(c, e) /\ UNCHANGED entry

\* get_encrypted_mut: the other operations are the document's own, as are all
\* of them for a document that was restored.
GetEncryptedMut(c) ==
    /\ Encrypted(c) \/ entry[c] = "restored"
    /\ \/ SendEdit(c)
       \/ \E m \in DOMAIN messages : ApplyEncryptedUpdate(c, m)
       \/ \E u \in User : DocRemoveMember(c, u)
       \/ c \in Persistent /\ SnapshotEncrypted(c)
       \/ /\ entry[c] = "restored"
          /\ \/ \E p \in DOMAIN packages : DocCreateInvite(c, p)
             \/ \E e \in DOMAIN epochs : DocProcessCommit(c, e)
    /\ UNCHANGED entry

RequestToJoin(c) == DocGenerateKeyPackage(c) /\ UNCHANGED entry

\* The process ends, and starts again with an empty registry.
Restart(c) == Established(c) /\ Forget(c) /\ SetEntry(c, "absent")

\* A document is restored from the snapshot on disk, into no registry.
Restore(c, minEpoch) ==
    /\ ~Established(c) /\ entry[c] = "absent"
    /\ RestoreEncrypted(c, minEpoch)
    /\ SetEntry(c, "restored")

\* A caller of join_encrypted has nothing but its word for the current epoch.
Next == \E c \in Client :
    \/ RegistryCreate(c) \/ RegistryOpen(c)
    \/ c \in Creators /\ RegistryCreateEncrypted(c)
    \/ \E e \in DOMAIN epochs, current \in 0..MaxEpochs : RegistryJoinEncrypted(c, e, current)
    \/ RegistryClose(c)
    \/ RegistryCloseAny(c)
    \/ \E p \in DOMAIN packages : RegistryCreateInvite(c, p)
    \/ \E e \in DOMAIN epochs : RegistryProcessCommit(c, e)
    \/ GetEncryptedMut(c)
    \/ RequestToJoin(c)
    \/ Restart(c)
    \/ Restore(c, 0)

Spec == Init /\ [][Next]_vars

-----------------------------------------------------------------------------
(* Properties.                                                             *)

Group == [epoch : DOMAIN epochs, leaf : DOMAIN packages, owner : User, active : BOOLEAN,
          sent : 0..MaxMessages, read : SUBSET ((DOMAIN packages) \X (0..MaxMessages))]

\* Every reference is to something that was made, and the registry has an
\* encrypted entry exactly for a client that holds a group in it.
TypeOK ==
    /\ packages \in Seq(Client)
    /\ \A e \in DOMAIN epochs :
          /\ epochs[e].number \in Nat /\ epochs[e].parent \in 0..(e - 1)
          /\ epochs[e].kind \in {"create", "add", "remove"}
          /\ {epochs[e].by, epochs[e].subject} \subseteq DOMAIN packages
          /\ epochs[e].leaves \in Seq(0..Len(packages))
    /\ group \in [Client -> Group \cup {NoGroup}]
    /\ pending \in [Client -> 0..Len(packages)]
    /\ \A m \in DOMAIN messages :
          messages[m].epoch \in DOMAIN epochs /\ messages[m].leaf \in DOMAIN packages
    /\ text \in [Client -> SUBSET Client]
    /\ disk \in [Client -> Group \cup {NoGroup}]
    /\ entry \in [Client -> Entry]
    /\ \A c \in Client : Established(c) <=> entry[c] \in {"owner", "member", "restored"}

\* mls.rs:457-463, 603-618 (issue #31): on no branch of the group was a member
\* removed by a commit of anyone but the owner, who keeps leaf 0 - whoever added
\* whom, under whatever identity.
OnlyTheOwnerRemoves ==
    \A e \in DOMAIN epochs : epochs[e].kind # "create" =>
        /\ epochs[e].leaves[1] = epochs[epochs[e].parent].leaves[1]
        /\ epochs[e].kind = "remove" => CredentialIdentity(epochs[e].by) = LeafZero(e)

\* mls.rs:448-449, 508-512: a client that can derive the key of an epoch, and
\* so read it and subscribe to it, has the leaf of a package of its own there.
\* The removed one has none, whatever it rejoins, restores or is sent again.
KeyHoldersAreMembers ==
    \A c \in Client : Established(c) /\ CanDerive(group[c]) =>
        /\ group[c].leaf \in LeafSet(group[c].epoch)
        /\ packages[group[c].leaf] = c

\* mls.rs:737-750: every rotation ever emitted moves the anchor from an epoch to
\* a child of it and to another key, and comes from a member of both: nobody can
\* move the anchor to a key that a member evicted by the commit still holds.
RotationsAreContinuous ==
    \A r \in rotations :
        /\ r.key # r.outgoing
        /\ epochs[r.key].parent = r.outgoing
        /\ r.epoch = epochs[r.outgoing].number + 1
        /\ \E p \in LeafSet(r.key) \cap LeafSet(r.outgoing) : packages[p] = r.by
=============================================================================
