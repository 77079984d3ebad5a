------------------------------ MODULE MlsGroup ------------------------------
(***************************************************************************)
(* The MLS group of one document (crates/collab-core/src/mls.rs): who      *)
(* holds which epoch, and what each operation of MlsDocumentGroup and      *)
(* PendingMember makes of it.  Operations are actions of a client; the     *)
(* modules above wrap them and say when they are called.                   *)
(*                                                                         *)
(* An epoch is a node of a tree: a commit made at an epoch makes a child   *)
(* of it, and two commits at one epoch make two.  The exporter secret of   *)
(* an epoch, hence its subscribe key, is the node itself: clients derive   *)
(* the same key exactly when they are at the same node.  A key package     *)
(* stands for the signature key and the leaf it would add.  What openmls   *)
(* refuses is in the guards: a commit from another epoch, one's own, a key *)
(* package that is already a leaf, a message of another epoch, one's own   *)
(* or one already decrypted.  Its window for messages out of order (5      *)
(* back, 1000 forward) is larger than any instance.                        *)
(***************************************************************************)
EXTENDS Naturals, Sequences, FiniteSets

CONSTANTS
    Client,       \* running copies of the library, a member of a group at most
    User,         \* user ids
    UserId,       \* the user id of each client: nothing makes it unique
    NoGroup,      \* the value of a client that has no group
    MaxEpochs,    \* bound: epochs made
    MaxPackages,  \* bound: key packages made
    MaxMessages   \* bound: application messages sent

\* A client's MlsDocumentGroup: epoch, the key package that is its own leaf,
\* owner_user_id, whether it is evicted, and how far its secret tree is used.
GroupState ==
    [epoch : Nat, leaf : Nat, owner : User, active : BOOLEAN,
     sent : Nat, read : SUBSET (Nat \X Nat)]

ASSUME MlsAssumption ==
    /\ UserId \in [Client -> User]
    /\ NoGroup \notin GroupState
    /\ MaxEpochs \in Nat /\ MaxPackages \in Nat /\ MaxMessages \in Nat

VARIABLES
    packages,   \* the client each key package was made by
    epochs,     \* the epochs: number, parent, commit and tree of leaves
    group,      \* MlsDocumentGroup of each client
    pending,    \* PendingMember of each client: its key package, 0 for none
    messages,   \* ciphertexts: epoch, leaf, generation and plaintext
    rotations   \* auxiliary: every AnchorRotation that was emitted

mlsVars == <<packages, epochs, group, pending, messages, rotations>>

MlsInit ==
    /\ packages = <<>>
    /\ epochs = <<>>
    /\ group = [c \in Client |-> NoGroup]
    /\ pending = [c \in Client |-> 0]
    /\ messages = <<>>
    /\ rotations = {}

-----------------------------------------------------------------------------
(* Leaves and identities.                                                  *)

\* credential_identity: what a key package's own credential says.
CredentialIdentity(p) == UserId[packages[p]]

LeafSet(e) == {epochs[e].leaves[i] : i \in DOMAIN epochs[e].leaves} \ {0}

LeavesOf(e, u) ==
    {i \in DOMAIN epochs[e].leaves :
        epochs[e].leaves[i] # 0 /\ CredentialIdentity(epochs[e].leaves[i]) = u}

\* find_member_leaf: the first leaf that carries the identity.
FindMemberLeaf(e, u) == CHOOSE i \in LeavesOf(e, u) : \A j \in LeavesOf(e, u) : i <= j

\* is_member
IsMember(c, u) == LeavesOf(group[c].epoch, u) # {}

\* The owner is the identity of leaf 0.
LeafZero(e) == CredentialIdentity(epochs[e].leaves[1])

\* is_owner
IsOwner(c) == UserId[c] = group[c].owner

\* openmls fills the leftmost blank leaf before it grows the tree.
PutLeaf(leaves, p) ==
    IF \E i \in DOMAIN leaves : leaves[i] = 0
    THEN LET first == CHOOSE i \in DOMAIN leaves :
                         leaves[i] = 0 /\ \A j \in DOMAIN leaves : leaves[j] = 0 => i <= j
         IN  [leaves EXCEPT ![first] = p]
    ELSE Append(leaves, p)

\* epoch
EpochNumber(c) == epochs[group[c].epoch].number

Established(c) == group[c] # NoGroup

-----------------------------------------------------------------------------
(* The subscribe key and what is signed under it.                          *)

\* derive_subscribe_keypair: the exporter fails for a group whose member was
\* evicted, and is the same for all members of an epoch.
CanDerive(g) == g.active
SubscribeKey(g) == g.epoch

\* mint_subscribe_capability and sign_doc_key_proof: what is signed under the
\* key of an epoch stands as that epoch.
MintSubscribeCapability(g) == SubscribeKey(g)
SignDocKeyProof(g) == SubscribeKey(g)

\* The anchor's new epoch and key, and the outgoing key that signs for them.
Rotation(c, g, number, outgoing) ==
    [by |-> c, epoch |-> number, key |-> SubscribeKey(g), outgoing |-> outgoing]

\* Mutated form of AnchorRotation: emitted whatever key was derived.
AnchorRotation_Any(c, g, number, outgoing) == {Rotation(c, g, number, outgoing)}

\* anchor_rotation of the group a commit has made, as a set: empty when no key
\* can be derived, or it is the outgoing one.
AnchorRotation(c, g, number, outgoing) ==
    IF CanDerive(g) /\ SubscribeKey(g) # outgoing
    THEN {Rotation(c, g, number, outgoing)}
    ELSE {}

-----------------------------------------------------------------------------
(* A group is made, and joined.                                            *)

NewEpoch(number, parent, kind, by, p, leaves) ==
    [number |-> number, parent |-> parent, kind |-> kind, by |-> by, subject |-> p,
     leaves |-> leaves]

\* A client's state at an epoch it has just come to: the secret tree is new.
AtEpoch(e, p, owner, active) ==
    [epoch |-> e, leaf |-> p, owner |-> owner, active |-> active, sent |-> 0, read |-> {}]

\* MlsDocumentGroup::create
MlsCreate(c) ==
    LET p == Len(packages) + 1
    IN  /\ p <= MaxPackages /\ Len(epochs) < MaxEpochs
        /\ packages' = Append(packages, c)
        /\ epochs' = Append(epochs, NewEpoch(0, 0, "create", p, p, <<p>>))
        /\ group' = [group EXCEPT ![c] = AtEpoch(Len(epochs) + 1, p, UserId[c], TRUE)]
        /\ UNCHANGED <<pending, messages, rotations>>

\* PendingMember::new
GenerateKeyPackage(c) ==
    /\ Len(packages) < MaxPackages
    /\ packages' = Append(packages, c)
    /\ pending' = [pending EXCEPT ![c] = Len(packages) + 1]
    /\ UNCHANGED <<epochs, group, messages, rotations>>

\* The Welcome that comes with an add is encrypted to the package it adds.
OpensWelcome(c, e) == epochs[e].kind = "add" /\ epochs[e].subject = pending[c]

\* PendingMember::join consumes the pending member whether or not it succeeds;
\* the owner is read off leaf 0.
MlsJoin(c, e) ==
    /\ pending[c] # 0
    /\ pending' = [pending EXCEPT ![c] = 0]
    /\ group' = IF OpensWelcome(c, e)
                THEN [group EXCEPT ![c] = AtEpoch(e, pending[c], LeafZero(e), TRUE)]
                ELSE group
    /\ UNCHANGED <<packages, epochs, messages, rotations>>

-----------------------------------------------------------------------------
(* Commits.                                                                *)

\* A commit made and merged by c, whose group goes to the epoch it makes.
Commit(c, kind, p, leaves) ==
    LET g == group[c]
        new == AtEpoch(Len(epochs) + 1, g.leaf, g.owner, TRUE)
    IN  /\ Len(epochs) < MaxEpochs
        /\ epochs' = Append(epochs, NewEpoch(EpochNumber(c) + 1, g.epoch, kind, g.leaf, p, leaves))
        /\ group' = [group EXCEPT ![c] = new]
        /\ rotations' = rotations \cup
              AnchorRotation(c, new, EpochNumber(c) + 1, SubscribeKey(g))
        /\ UNCHANGED <<packages, pending, messages>>

\* add_member: nothing asks who calls, or whose identity the package carries.
AddMember(c, p) ==
    /\ CanDerive(group[c])
    /\ p \notin LeafSet(group[c].epoch)
    /\ Commit(c, "add", p, PutLeaf(epochs[group[c].epoch].leaves, p))

\* Mutated form of MayRemove: any member may.
MayRemove_Anyone(c, u) == u # group[c].owner /\ IsMember(c, u)

\* The mint-side policy of remove_member.
MayRemove(c, u) == IsOwner(c) /\ u # group[c].owner /\ IsMember(c, u)

\* remove_member
RemoveMember(c, u) ==
    LET e == group[c].epoch
        i == FindMemberLeaf(e, u)
    IN  /\ CanDerive(group[c])
        /\ MayRemove(c, u)
        /\ Commit(c, "remove", epochs[e].leaves[i], [epochs[e].leaves EXCEPT ![i] = 0])

\* The receive-side policy of process_commit: a removal is the owner's, and
\* never of leaf 0.
HonoursCommit(c, e) ==
    epochs[e].kind = "remove" =>
        /\ CredentialIdentity(epochs[e].by) = group[c].owner
        /\ epochs[e].leaves[1] # 0

\* Mutated form of StaysIn: an evicted member goes on.
StaysIn_Always(c, e) == TRUE

\* Merging the commit that removes it evicts the member.
StaysIn(c, e) == group[c].leaf \in LeafSet(e)

\* What process_message and the policy let through: a commit made at the
\* member's own epoch, by another.
AcceptsCommit(c, e) ==
    /\ CanDerive(group[c])
    /\ epochs[e].parent = group[c].epoch /\ epochs[e].by # group[c].leaf
    /\ HonoursCommit(c, e)

\* process_commit: the member follows.  The one that is evicted fails after the
\* merge, and emits no rotation.
ProcessCommit(c, e) ==
    LET g == group[c]
        new == AtEpoch(e, g.leaf, g.owner, StaysIn(c, e))
    IN  /\ AcceptsCommit(c, e)
        /\ group' = [group EXCEPT ![c] = new]
        /\ rotations' = rotations \cup
              AnchorRotation(c, new, epochs[e].number, SubscribeKey(g))
        /\ UNCHANGED <<packages, epochs, pending, messages>>

-----------------------------------------------------------------------------
(* Application messages.                                                   *)

\* encrypt: under the next generation of the member's own ratchet.
Encrypt(c, plaintext) ==
    /\ group[c].active
    /\ Len(messages) < MaxMessages
    /\ messages' = Append(messages, [epoch |-> group[c].epoch, leaf |-> group[c].leaf,
                                     generation |-> group[c].sent, plaintext |-> plaintext])
    /\ group' = [group EXCEPT ![c].sent = @ + 1]
    /\ UNCHANGED <<packages, epochs, pending, rotations>>

\* decrypt succeeds for a message of the group's epoch by another member, once:
\* the second time is Error::Replay.
CanDecrypt(g, m) ==
    /\ g.active
    /\ messages[m].epoch = g.epoch
    /\ messages[m].leaf # g.leaf
    /\ <<messages[m].leaf, messages[m].generation>> \notin g.read

\* decrypt
Decrypt(c, m) ==
    /\ CanDecrypt(group[c], m)
    /\ group' = [group EXCEPT ![c].read =
                    @ \cup {<<messages[m].leaf, messages[m].generation>>}]
    /\ UNCHANGED <<packages, epochs, pending, messages, rotations>>

-----------------------------------------------------------------------------
(* The snapshot surface (persistence.rs).                                  *)

\* What the storage of openmls holds is the whole group, generations included.
\* from_parts reads the owner off leaf 0 again.
FromParts(snapshot) == [snapshot EXCEPT !.owner = LeafZero(snapshot.epoch)]

=============================================================================
