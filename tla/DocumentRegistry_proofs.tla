---------------------- MODULE DocumentRegistry_proofs ----------------------
(***************************************************************************)
(* Proofs about DocumentRegistry, for any clients, user ids and bounds.    *)
(* MlsInv is what the operations of MLS and of the snapshots keep, whoever *)
(* calls them: what was made is never changed; an epoch follows its parent *)
(* by one, keeps the owner at leaf 0 and adds or removes whom it says; and *)
(* the group a client has, in memory or on disk, is one it holds the leaf  *)
(* of.  The registry's entries then only have to agree with the groups.    *)
(***************************************************************************)
EXTENDS DocumentRegistry, FiniteSetTheorems, SequenceTheorems, TLAPS

EpochRecord ==
    [number : Nat, parent : Nat, kind : {"create", "add", "remove"}, by : Nat, subject : Nat,
     leaves : Seq(Nat)]

Message == [epoch : Nat, leaf : Nat, generation : Nat, plaintext : SUBSET Client]

RotationRecord == [by : Client, epoch : Nat, key : Nat, outgoing : Nat]

\* What each variable is made of.
Shape ==
    /\ packages \in Seq(Client)
    /\ epochs \in Seq(EpochRecord)
    /\ group \in [Client -> GroupState \cup {NoGroup}]
    /\ pending \in [Client -> Nat]
    /\ messages \in Seq(Message)
    /\ rotations \subseteq RotationRecord
    /\ text \in [Client -> SUBSET Client]
    /\ disk \in [Client -> GroupState \cup {NoGroup}]

\* An epoch that was made by the commit it says, at its parent.
EpochSound(e) ==
    /\ epochs[e].by \in DOMAIN packages /\ epochs[e].subject \in DOMAIN packages
    /\ \A i \in DOMAIN epochs[e].leaves : epochs[e].leaves[i] \in 0..Len(packages)
    /\ 1 \in DOMAIN epochs[e].leaves /\ epochs[e].leaves[1] # 0
    /\ epochs[e].kind = "create" => epochs[e].parent = 0
    /\ epochs[e].kind # "create" =>
          /\ epochs[e].parent \in 1..(e - 1)
          /\ epochs[e].number = epochs[epochs[e].parent].number + 1
          /\ epochs[e].leaves[1] = epochs[epochs[e].parent].leaves[1]
    /\ epochs[e].kind = "add" => epochs[e].subject \in LeafSet(e)
    /\ epochs[e].kind = "remove" => CredentialIdentity(epochs[e].by) = LeafZero(e)

EpochsSound == \A e \in DOMAIN epochs : EpochSound(e)

\* A state g of a group that c has, or has written to disk.
StateSound(c, g) ==
    g # NoGroup =>
        /\ g.epoch \in DOMAIN epochs
        /\ g.leaf \in DOMAIN packages /\ packages[g.leaf] = c
        /\ g.owner = LeafZero(g.epoch)
        /\ g.sent <= Len(messages)
        /\ g.read \subseteq (DOMAIN packages) \X (0..MaxMessages)
        /\ g.active => g.leaf \in LeafSet(g.epoch)

GroupsSound == \A c \in Client : StateSound(c, group[c]) /\ StateSound(c, disk[c])

PendingSound == \A c \in Client :
    pending[c] # 0 => pending[c] \in DOMAIN packages /\ packages[pending[c]] = c

MessagesSound ==
    /\ Len(messages) <= MaxMessages
    /\ \A m \in DOMAIN messages :
          /\ messages[m].epoch \in DOMAIN epochs /\ messages[m].leaf \in DOMAIN packages
          /\ messages[m].generation \in 0..MaxMessages

RotationSound(r) ==
    /\ r.key \in DOMAIN epochs /\ r.outgoing \in DOMAIN epochs
    /\ r.key # r.outgoing
    /\ epochs[r.key].parent = r.outgoing
    /\ r.epoch = epochs[r.outgoing].number + 1
    /\ \E p \in LeafSet(r.key) \cap LeafSet(r.outgoing) : packages[p] = r.by

RotationsSound == \A r \in rotations : RotationSound(r)

MlsInv ==
    /\ Shape /\ EpochsSound /\ GroupsSound /\ PendingSound /\ MessagesSound /\ RotationsSound

\* The registry has an encrypted entry exactly for a client with a group in it.
EntriesSound ==
    /\ entry \in [Client -> Entry]
    /\ \A c \in Client : Established(c) <=> entry[c] \in {"owner", "member", "restored"}

Inv == MlsInv /\ EntriesSound

-----------------------------------------------------------------------------
(* Sets of naturals, and leaves.                                           *)

\* A set of naturals has a least element.
LEMMA LeastElement ==
    ASSUME NEW S, S \subseteq Nat, S # {}
    PROVE  \E i \in S : \A j \in S : i <= j
<1> DEFINE T == {0..i : i \in S}
<1>1. ASSUME NEW y \in T
      PROVE  y \in FiniteSubsetsOf(Nat)
    <2>1. PICK i \in S : y = 0..i
        OBVIOUS
    <2>2. IsFiniteSet(0..i) /\ 0..i \subseteq Nat
        BY FS_Interval
    <2> QED
        BY <2>1, <2>2 DEF FiniteSubsetsOf
<1>2. PICK x \in T : \A y \in T : <<y, x>> \notin StrictSubsetOrdering(Nat)
    <2>1. T \subseteq FiniteSubsetsOf(Nat) /\ T # {}
        BY <1>1
    <2> HIDE DEF T
    <2> QED
        BY <2>1, WFMin, FS_StrictSubsetOrderingWellFounded
<1>3. PICK i \in S : x = 0..i
    OBVIOUS
<1>4. ASSUME NEW j \in S, j < i
      PROVE  FALSE
    <2>1. 0..j \subseteq 0..i /\ 0..j # 0..i
        BY <1>4
    <2>2. <<0..j, x>> \in StrictSubsetOrdering(Nat)
        BY <1>3, <2>1 DEF StrictSubsetOrdering
    <2> QED
        BY <1>2, <2>2
<1> QED
    BY <1>4

\* PutLeaf keeps every leaf and adds one.
LEMMA PutLeafProperties ==
    ASSUME NEW n \in Nat, NEW leaves \in Seq(0..n), NEW p \in 1..n,
           1 \in DOMAIN leaves, leaves[1] # 0
    PROVE  LET new == PutLeaf(leaves, p)
           IN  /\ new \in Seq(0..n)
               /\ 1 \in DOMAIN new /\ new[1] = leaves[1]
               /\ \E i \in DOMAIN new : new[i] = p
               /\ \A i \in DOMAIN leaves : leaves[i] # 0 =>
                     i \in DOMAIN new /\ new[i] = leaves[i]
<1>1. CASE \E i \in DOMAIN leaves : leaves[i] = 0
    <2> DEFINE blank == {i \in DOMAIN leaves : leaves[i] = 0}
               first == CHOOSE i \in DOMAIN leaves :
                            leaves[i] = 0 /\ \A j \in DOMAIN leaves : leaves[j] = 0 => i <= j
    <2>0. blank \subseteq Nat /\ blank # {}
        BY <1>1
    <2>1. \E i \in blank : \A j \in blank : i <= j
        <3> HIDE DEF blank
        <3> QED
            BY <2>0, LeastElement
    <2>2. first \in DOMAIN leaves /\ leaves[first] = 0
        BY <2>1
    <2>3. PutLeaf(leaves, p) = [leaves EXCEPT ![first] = p]
        BY <1>1 DEF PutLeaf
    <2> HIDE DEF first
    <2> QED
        BY <2>2, <2>3
<1>2. CASE ~\E i \in DOMAIN leaves : leaves[i] = 0
    <2>1. PutLeaf(leaves, p) = Append(leaves, p)
        BY <1>2 DEF PutLeaf
    <2> QED
        BY <2>1
<1> QED
    BY <1>1, <1>2

\* The fields of an epoch and of a message.
LEMMA EpochTyped ==
    ASSUME Shape, NEW e \in DOMAIN epochs
    PROVE  /\ e \in Nat \ {0} /\ epochs[e] \in EpochRecord
           /\ epochs[e].number \in Nat /\ epochs[e].parent \in Nat
           /\ epochs[e].kind \in {"create", "add", "remove"}
           /\ epochs[e].leaves \in Seq(Nat)
           /\ DOMAIN epochs[e].leaves = 1..Len(epochs[e].leaves)
<1>1. e \in 1..Len(epochs) /\ Len(epochs) \in Nat
    BY DEF Shape
<1>2. epochs[e] \in EpochRecord
    BY <1>1, ElementOfSeq DEF Shape
<1> QED
    BY <1>1, <1>2 DEF EpochRecord

\* FindMemberLeaf finds a leaf of the identity, if there is one.
LEMMA FindMemberLeafProperties ==
    ASSUME Shape, NEW e \in DOMAIN epochs, NEW u, LeavesOf(e, u) # {}
    PROVE  FindMemberLeaf(e, u) \in LeavesOf(e, u)
<1>1. LeavesOf(e, u) \subseteq Nat
    BY EpochTyped DEF LeavesOf
<1>2. \E i \in LeavesOf(e, u) : \A j \in LeavesOf(e, u) : i <= j
    BY <1>1, LeastElement
<1> QED
    BY <1>2 DEF FindMemberLeaf

-----------------------------------------------------------------------------
(* What was made stays as it is.                                           *)

Grows ==
    /\ \A p \in DOMAIN packages : p \in DOMAIN packages' /\ packages'[p] = packages[p]
    /\ \A e \in DOMAIN epochs : e \in DOMAIN epochs' /\ epochs'[e] = epochs[e]
    /\ Len(packages) <= Len(packages')
    /\ Len(messages) <= Len(messages')

\* What holds of an epoch, of a group at one and of a rotation goes on to hold.
LEMMA GrowthKeeps ==
    ASSUME Shape, EpochsSound, Shape', Grows
    PROVE  /\ \A e \in DOMAIN epochs :
                 LeafSet(e)' = LeafSet(e) /\ LeafZero(e)' = LeafZero(e) /\ EpochSound(e)'
           /\ \A c \in Client, g \in GroupState \cup {NoGroup} :
                 StateSound(c, g) => StateSound(c, g)'
           /\ \A r : RotationSound(r) => RotationSound(r)'
<1>1. ASSUME NEW e \in DOMAIN epochs
      PROVE  /\ LeafSet(e)' = LeafSet(e)
             /\ LeafZero(e)' = LeafZero(e)
             /\ LeafSet(e) \subseteq DOMAIN packages
    <2>1. epochs'[e] = epochs[e]
        BY DEF Grows
    <2>2. DOMAIN packages = 1..Len(packages) /\ Len(packages) \in Nat
        BY DEF Shape
    <2>3. epochs[e].leaves[1] \in DOMAIN packages
        BY <2>2 DEF EpochsSound, EpochSound
    <2>4. LeafZero(e)' = LeafZero(e)
        BY <2>1, <2>3 DEF LeafZero, CredentialIdentity, Grows
    <2>5. LeafSet(e)' = LeafSet(e)
        BY <2>1 DEF LeafSet
    <2>6. LeafSet(e) \subseteq DOMAIN packages
        BY <2>2 DEF LeafSet, EpochsSound, EpochSound
    <2> QED
        BY <2>4, <2>5, <2>6
<1>2. ASSUME NEW e \in DOMAIN epochs
      PROVE  EpochSound(e)'
    <2>1. epochs'[e] = epochs[e] /\ EpochSound(e)
        BY DEF Grows, EpochsSound
    <2>2. e \in 1..Len(epochs) /\ Len(epochs) \in Nat /\ DOMAIN epochs = 1..Len(epochs)
        BY DEF Shape
    <2>3. epochs[e].kind # "create" => epochs[e].parent \in DOMAIN epochs
        <3>1. epochs[e].kind # "create" => epochs[e].parent \in 1..(e - 1)
            BY <2>1 DEF EpochSound
        <3> QED
            BY <2>2, <3>1
    <2>4. DOMAIN packages = 1..Len(packages) /\ DOMAIN packages' = 1..Len(packages')
          /\ Len(packages) \in Nat /\ Len(packages') \in Nat /\ Len(packages) <= Len(packages')
        BY DEF Shape, Grows
    <2>5. \A i \in DOMAIN epochs[e].leaves : epochs[e].leaves[i] \in 0..Len(packages')
        BY <2>1, <2>4 DEF EpochSound
    <2>6. CredentialIdentity(epochs[e].by)' = CredentialIdentity(epochs[e].by)
        BY <2>1 DEF CredentialIdentity, EpochSound, Grows
    <2> QED
        BY <1>1, <2>1, <2>3, <2>4, <2>5, <2>6 DEF EpochSound, Grows
<1>3. ASSUME NEW c \in Client, NEW g \in GroupState \cup {NoGroup}, StateSound(c, g)
      PROVE  StateSound(c, g)'
    <2>1. Len(messages) \in Nat /\ Len(messages') \in Nat /\ Len(messages) <= Len(messages')
        BY DEF Shape, Grows
    <2>2. DOMAIN packages \subseteq DOMAIN packages'
        BY DEF Grows
    <2>3. CASE g = NoGroup
        BY <2>3 DEF StateSound
    <2>4. CASE g # NoGroup
        <3>1. g.epoch \in DOMAIN epochs /\ g.leaf \in DOMAIN packages
            BY <1>3, <2>4 DEF StateSound
        <3>2. g.sent <= Len(messages')
            BY <1>3, <2>1, <2>4 DEF StateSound, GroupState
        <3>3. g.read \subseteq (DOMAIN packages') \X (0..MaxMessages)
            BY <1>3, <2>2, <2>4 DEF StateSound
        <3> QED
            BY <1>1, <1>3, <2>4, <3>1, <3>2, <3>3 DEF StateSound, Grows
    <2> QED
        BY <2>3, <2>4
<1>4. ASSUME NEW r, RotationSound(r)
      PROVE  RotationSound(r)'
    BY <1>1, <1>4 DEF RotationSound, Grows
<1> QED
    BY <1>1, <1>2, <1>3, <1>4

\* A step keeps MlsInv when it leaves what was made as it is, and what it makes
\* or gives to a client is sound.
LEMMA StepKeeps ==
    ASSUME MlsInv, Shape', Grows, PendingSound', MessagesSound',
           \A e \in DOMAIN epochs' : e \in DOMAIN epochs \/ EpochSound(e)',
           \A c \in Client :
               group'[c] \in {group[c], disk[c], NoGroup} \/ StateSound(c, group[c])',
           \A c \in Client : disk'[c] \in {disk[c], group[c]},
           \A r \in rotations' : r \in rotations \/ RotationSound(r)'
    PROVE  MlsInv'
<1>1. Shape /\ EpochsSound
    BY DEF MlsInv
<1>2. EpochsSound'
    BY <1>1, GrowthKeeps DEF EpochsSound
<1>3. \A c \in Client : group[c] \in GroupState \cup {NoGroup} /\ disk[c] \in GroupState \cup {NoGroup}
    BY <1>1 DEF Shape
<1>4. \A c \in Client, g \in GroupState \cup {NoGroup} : StateSound(c, g) => StateSound(c, g)'
    BY <1>1, GrowthKeeps
<1>5. \A c \in Client : StateSound(c, group[c]) /\ StateSound(c, disk[c])
    BY DEF MlsInv, GroupsSound
<1>6. ASSUME NEW c \in Client
      PROVE  StateSound(c, group[c])' /\ StateSound(c, disk[c])'
    <2>1. PICK g \in GroupState \cup {NoGroup} : g = group[c]
        BY <1>3
    <2>2. PICK d \in GroupState \cup {NoGroup} : d = disk[c]
        BY <1>3
    <2>3. StateSound(c, g)' /\ StateSound(c, d)'
        BY <1>4, <1>5, <2>1, <2>2
    <2>4. group'[c] \in {g, d, NoGroup} => StateSound(c, group[c])'
        BY <2>3 DEF StateSound
    <2>5. disk'[c] = d \/ disk'[c] = g
        BY <2>1, <2>2
    <2>6. StateSound(c, disk[c])'
        BY <2>3, <2>5 DEF StateSound
    <2> QED
        BY <2>1, <2>2, <2>4, <2>6
<1>7. GroupsSound'
    BY <1>6 DEF GroupsSound
<1>8. RotationsSound'
    BY <1>1, GrowthKeeps DEF MlsInv, RotationsSound
<1> QED
    BY <1>2, <1>7, <1>8 DEF MlsInv

-----------------------------------------------------------------------------
(* A commit.                                                               *)

\* What a member commits is an epoch after its own that keeps leaf 0, and that
\* it has a leaf in.
Committed(c, kind, p, leaves) ==
    /\ group[c] # NoGroup /\ group[c].active
    /\ kind \in {"add", "remove"} /\ p \in DOMAIN packages
    /\ leaves \in Seq(0..Len(packages))
    /\ 1 \in DOMAIN leaves /\ leaves[1] = epochs[group[c].epoch].leaves[1]
    /\ \E i \in DOMAIN leaves : leaves[i] = group[c].leaf
    /\ kind = "add" => \E i \in DOMAIN leaves : leaves[i] = p
    /\ kind = "remove" => IsOwner(c)
    /\ Commit(c, kind, p, leaves)
    /\ UNCHANGED <<text, disk>>

\* A step that leaves c with a group, and the others with what they had.
Moves(c) == \E g \in GroupState : group' = [group EXCEPT ![c] = g]

\* What a commit makes is sound, and so is the rotation that goes with it.
LEMMA CommitKeeps ==
    ASSUME MlsInv, NEW c \in Client, NEW kind, NEW p, NEW leaves, Committed(c, kind, p, leaves)
    PROVE  MlsInv' /\ Moves(c)
<1>0. SUFFICES ASSUME NEW g, g = group[c],
                      NEW n, n = Len(epochs) + 1,
                      NEW new, new = AtEpoch(n, g.leaf, g.owner, TRUE),
                      NEW made,
                      made = NewEpoch(EpochNumber(c) + 1, g.epoch, kind, g.leaf, p, leaves),
                      NEW rotation,
                      rotation = Rotation(c, new, EpochNumber(c) + 1, SubscribeKey(g))
               PROVE  MlsInv' /\ Moves(c)
    OBVIOUS
<1>1. /\ g \in GroupState /\ g.epoch \in DOMAIN epochs /\ g.leaf \in DOMAIN packages
      /\ packages[g.leaf] = c /\ g.owner = LeafZero(g.epoch) /\ g.leaf \in LeafSet(g.epoch)
    BY <1>0 DEF MlsInv, Shape, GroupsSound, StateSound, Committed
<1>2. /\ DOMAIN packages = 1..Len(packages) /\ Len(packages) \in Nat
      /\ DOMAIN epochs = 1..Len(epochs) /\ Len(epochs) \in Nat
    BY DEF MlsInv, Shape
<1>3. /\ epochs' = Append(epochs, made) /\ group' = [group EXCEPT ![c] = new]
      /\ rotations' = rotations \cup AnchorRotation(c, new, EpochNumber(c) + 1, SubscribeKey(g))
      /\ UNCHANGED <<packages, pending, messages, text, disk>>
    BY <1>0 DEF Committed, Commit
<1>4. EpochNumber(c) = epochs[g.epoch].number /\ EpochNumber(c) \in Nat
    BY <1>0, <1>1, EpochTyped DEF MlsInv, EpochNumber
<1>5. /\ made.number = EpochNumber(c) + 1 /\ made.parent = g.epoch /\ made.kind = kind
      /\ made.leaves = leaves /\ made.by = g.leaf /\ made.subject = p
      /\ new.epoch = n /\ new.leaf = g.leaf /\ new.owner = g.owner /\ new.active = TRUE
      /\ new.sent = 0 /\ new.read = {}
    BY <1>0 DEF NewEpoch, AtEpoch
<1>6. /\ kind \in {"add", "remove"} /\ p \in DOMAIN packages
      /\ leaves \in Seq(0..Len(packages)) /\ 1 \in DOMAIN leaves
      /\ leaves[1] = epochs[g.epoch].leaves[1]
      /\ \E i \in DOMAIN leaves : leaves[i] = g.leaf
      /\ kind = "add" => \E i \in DOMAIN leaves : leaves[i] = p
      /\ kind = "remove" => UserId[c] = g.owner
    BY <1>0 DEF Committed, IsOwner
<1>7. made \in EpochRecord /\ new \in GroupState
    <2>1. leaves \in Seq(Nat) /\ p \in Nat /\ g.leaf \in Nat /\ g.epoch \in Nat /\ n \in Nat
        BY <1>0, <1>1, <1>2, <1>6
    <2>2. g.owner \in User
        BY <1>1 DEF GroupState
    <2> QED
        BY <1>0, <1>4, <1>6, <2>1, <2>2, SMTT(30) DEF EpochRecord, NewEpoch, AtEpoch, GroupState
<1>8. /\ Len(epochs') = n /\ DOMAIN epochs' = 1..n /\ epochs'[n] = made
      /\ \A e \in DOMAIN epochs : e \in DOMAIN epochs' /\ epochs'[e] = epochs[e]
      /\ epochs' \in Seq(EpochRecord)
    <2>1. epochs \in Seq(EpochRecord)
        BY DEF MlsInv, Shape
    <2> QED
        BY <1>0, <1>2, <1>3, <1>7, <2>1, AppendProperties
<1>9. \A r \in rotations' :
          r \in rotations \/ r = rotation
    BY <1>0, <1>3 DEF AnchorRotation
<1>10. Shape'
    <2>1. rotation \in RotationRecord
        <3>1. EpochNumber(c) + 1 \in Nat /\ n \in Nat /\ g.epoch \in Nat
            BY <1>0, <1>1, <1>2, <1>4
        <3>2. rotation = [by |-> c, epoch |-> EpochNumber(c) + 1, key |-> n, outgoing |-> g.epoch]
            BY <1>0, <1>5 DEF Rotation, SubscribeKey
        <3> QED
            BY <3>1, <3>2 DEF RotationRecord
    <2>2. rotations' \subseteq RotationRecord
        BY <1>9, <2>1 DEF MlsInv, Shape
    <2>3. group' \in [Client -> GroupState \cup {NoGroup}]
        BY <1>3, <1>7 DEF MlsInv, Shape
    <2> QED
        BY <1>3, <1>8, <2>2, <2>3 DEF MlsInv, Shape
<1>11. Grows
    BY <1>2, <1>3, <1>8 DEF Grows, MlsInv, Shape
<1>12. Shape /\ EpochsSound
    BY DEF MlsInv
<1>13. LeafSet(n)' = {leaves[i] : i \in DOMAIN leaves} \ {0}
    BY <1>5, <1>8 DEF LeafSet
<1>14. g.leaf \in LeafSet(n)' /\ LeafZero(n)' = LeafZero(g.epoch)
    BY <1>1, <1>2, <1>3, <1>5, <1>6, <1>8, <1>13, SMTT(30) DEF LeafZero, CredentialIdentity
<1>15. EpochSound(n)'
    <2>1. made.by \in DOMAIN packages' /\ made.subject \in DOMAIN packages'
        BY <1>1, <1>3, <1>5, <1>6
    <2>2. \A i \in DOMAIN leaves : leaves[i] \in 0..Len(packages')
        BY <1>3, <1>6
    <2>3. leaves[1] # 0
        BY <1>1, <1>6, <1>12 DEF EpochsSound, EpochSound
    <2>4. /\ g.epoch \in 1..(n - 1)
          /\ made.number = epochs'[g.epoch].number + 1
          /\ leaves[1] = epochs'[g.epoch].leaves[1]
        BY <1>0, <1>1, <1>2, <1>4, <1>5, <1>6, <1>8, SMTT(30)
    <2>5. kind = "add" => p \in LeafSet(n)'
        BY <1>2, <1>6, <1>13
    <2>6. kind = "remove" => CredentialIdentity(g.leaf)' = LeafZero(n)'
        <3>1. CredentialIdentity(g.leaf)' = UserId[c]
            BY <1>1, <1>3 DEF CredentialIdentity
        <3> QED
            BY <1>1, <1>6, <1>14, <3>1
    <2> QED
        BY <1>5, <1>6, <1>8, <2>1, <2>2, <2>3, <2>4, <2>5, <2>6 DEF EpochSound
<1>16. StateSound(c, new)'
    <2>1. Len(messages') \in Nat
        BY <1>3 DEF MlsInv, Shape
    <2>2. n \in DOMAIN epochs'
        BY <1>0, <1>2, <1>8
    <2> QED
        BY <1>1, <1>3, <1>5, <1>14, <2>1, <2>2 DEF StateSound
<1>17. group'[c] = new /\ \A d \in Client \ {c} : group'[d] = group[d]
    BY <1>3 DEF MlsInv, Shape
<1>18. StateSound(c, group[c])'
    BY <1>16, <1>17 DEF StateSound
<1>19. PendingSound' /\ MessagesSound'
    BY <1>3, <1>8 DEF MlsInv, PendingSound, MessagesSound
<1>20. RotationSound(rotation)'
    <2>1. /\ rotation.by = c /\ rotation.key = n /\ rotation.outgoing = g.epoch
          /\ rotation.epoch = epochs[g.epoch].number + 1
        BY <1>0, <1>4, <1>5 DEF Rotation, SubscribeKey
    <2>2. g.leaf \in LeafSet(g.epoch)'
        BY <1>1, <1>10, <1>11, <1>12, GrowthKeeps
    <2>3. packages'[g.leaf] = c
        BY <1>1, <1>3
    <2> QED
        <3>1. n \in DOMAIN epochs' /\ g.epoch \in DOMAIN epochs' /\ n # g.epoch
            BY <1>0, <1>1, <1>2, <1>8
        <3>2. epochs'[n].parent = g.epoch /\ epochs'[g.epoch].number = epochs[g.epoch].number
            BY <1>1, <1>5, <1>8
        <3>3. \E q \in LeafSet(n)' \cap LeafSet(g.epoch)' : packages'[q] = c
            BY <1>14, <2>2, <2>3
        <3> QED
            BY <2>1, <3>1, <3>2, <3>3 DEF RotationSound
<1>21. \A d \in Client : disk'[d] = disk[d]
    BY <1>3
<1>22. \A e \in DOMAIN epochs' : e \in DOMAIN epochs \/ EpochSound(e)'
    BY <1>0, <1>2, <1>8, <1>15
<1>23. Moves(c)
    BY <1>3, <1>7 DEF Moves
<1> QED
    BY <1>9, <1>10, <1>11, <1>17, <1>18, <1>19, <1>20, <1>21, <1>22, StepKeeps, <1>23

\* Adding a member is such a commit: PutLeaf keeps the leaves and adds one.
LEMMA AddMemberKeeps ==
    ASSUME MlsInv, NEW c \in Client, Established(c), NEW p \in DOMAIN packages,
           DocCreateInvite(c, p)
    PROVE  MlsInv' /\ Moves(c)
<1>0. SUFFICES ASSUME NEW e, e = group[c].epoch PROVE MlsInv' /\ Moves(c)
    OBVIOUS
<1>1. /\ group[c] # NoGroup /\ group[c].active /\ e \in DOMAIN epochs
      /\ group[c].leaf \in LeafSet(e)
    BY <1>0 DEF MlsInv, GroupsSound, StateSound, Established, DocCreateInvite, AddMember, CanDerive
<1>2. EpochSound(e) /\ Len(packages) \in Nat /\ DOMAIN packages = 1..Len(packages)
    BY <1>1 DEF MlsInv, Shape, EpochsSound
<1>3. epochs[e].leaves \in Seq(0..Len(packages))
    <2>1. epochs[e].leaves \in Seq(Nat)
        BY <1>1, EpochTyped DEF MlsInv
    <2> QED
        BY <1>2, <2>1, SMTT(30) DEF EpochSound
<1>4. SUFFICES ASSUME NEW old, old = epochs[e].leaves, NEW leaves, leaves = PutLeaf(old, p)
               PROVE  MlsInv' /\ Moves(c)
    OBVIOUS
<1>5. /\ leaves \in Seq(0..Len(packages))
      /\ 1 \in DOMAIN leaves /\ leaves[1] = old[1]
      /\ \E i \in DOMAIN leaves : leaves[i] = p
      /\ \A i \in DOMAIN old : old[i] # 0 => i \in DOMAIN leaves /\ leaves[i] = old[i]
    <2>1. old \in Seq(0..Len(packages)) /\ p \in 1..Len(packages)
          /\ 1 \in DOMAIN old /\ old[1] # 0
        BY <1>2, <1>3, <1>4 DEF EpochSound
    <2>2. PICK n \in Nat : n = Len(packages)
        BY <1>2
    <2>3. old \in Seq(0..n) /\ p \in 1..n
        BY <2>1, <2>2
    <2>4. LET new == PutLeaf(old, p)
          IN  /\ new \in Seq(0..n)
              /\ 1 \in DOMAIN new /\ new[1] = old[1]
              /\ \E i \in DOMAIN new : new[i] = p
              /\ \A i \in DOMAIN old : old[i] # 0 => i \in DOMAIN new /\ new[i] = old[i]
        BY ONLY <2>1, <2>2, <2>3, PutLeafProperties
    <2> QED
        BY <1>4, <2>2, <2>4
<1>6. \E i \in DOMAIN leaves : leaves[i] = group[c].leaf
    BY <1>1, <1>4, <1>5 DEF LeafSet
<1>7. Commit(c, "add", p, leaves) /\ UNCHANGED <<text, disk>>
    BY <1>0, <1>4 DEF DocCreateInvite, AddMember
<1>8. Committed(c, "add", p, leaves)
    BY <1>0, <1>1, <1>4, <1>5, <1>6, <1>7 DEF Committed
<1> QED
    BY <1>8, CommitKeeps

\* So is removing one: the leaf it blanks is of another identity than the
\* owner's, so neither leaf 0 nor the caller's own.
LEMMA RemoveMemberKeeps ==
    ASSUME MlsInv, NEW c \in Client, Established(c), NEW u \in User, DocRemoveMember(c, u)
    PROVE  MlsInv' /\ Moves(c)
<1>0. SUFFICES ASSUME NEW e, e = group[c].epoch, NEW i, i = FindMemberLeaf(e, u)
               PROVE  MlsInv' /\ Moves(c)
    OBVIOUS
<1>1. /\ group[c] # NoGroup /\ group[c].active /\ e \in DOMAIN epochs
      /\ group[c].leaf \in LeafSet(e) /\ packages[group[c].leaf] = c
      /\ group[c].owner = LeafZero(e)
    BY <1>0 DEF MlsInv, GroupsSound, StateSound, Established, DocRemoveMember, RemoveMember,
                CanDerive
<1>2. EpochSound(e) /\ Len(packages) \in Nat /\ DOMAIN packages = 1..Len(packages)
    BY <1>1 DEF MlsInv, Shape, EpochsSound
<1>3. UserId[c] = LeafZero(e) /\ u # LeafZero(e) /\ LeavesOf(e, u) # {}
    BY <1>0, <1>1 DEF DocRemoveMember, RemoveMember, MayRemove, IsOwner, IsMember
<1>4. i \in LeavesOf(e, u)
    BY <1>0, <1>1, <1>3, FindMemberLeafProperties DEF MlsInv
<1>5. SUFFICES ASSUME NEW old, old = epochs[e].leaves,
                      NEW leaves, leaves = [old EXCEPT ![i] = 0]
               PROVE  MlsInv' /\ Moves(c)
    OBVIOUS
<1>6. old \in Seq(0..Len(packages))
    <2>1. epochs[e].leaves \in Seq(Nat)
        BY <1>1, EpochTyped DEF MlsInv
    <2> QED
        BY <1>2, <1>5, <2>1 DEF EpochSound
<1>7. i \in DOMAIN old /\ old[i] # 0 /\ CredentialIdentity(old[i]) = u /\ i # 1
    BY <1>3, <1>4, <1>5 DEF LeavesOf, LeafZero
<1>8. leaves \in Seq(0..Len(packages)) /\ 1 \in DOMAIN leaves /\ leaves[1] = old[1]
    BY <1>2, <1>5, <1>6, <1>7 DEF EpochSound
<1>9. \E j \in DOMAIN leaves : leaves[j] = group[c].leaf
    <2>1. PICK j \in DOMAIN old : old[j] = group[c].leaf
        BY <1>1, <1>5 DEF LeafSet
    <2>2. j # i
        BY <1>1, <1>3, <1>7, <2>1 DEF CredentialIdentity
    <2> QED
        BY <1>5, <2>1, <2>2
<1>10. old[i] \in DOMAIN packages
    BY <1>2, <1>5, <1>7 DEF EpochSound
<1>11. Commit(c, "remove", old[i], leaves) /\ UNCHANGED <<text, disk>>
    BY <1>0, <1>5 DEF DocRemoveMember, RemoveMember
<1>12. IsOwner(c)
    BY <1>1, <1>3 DEF IsOwner
<1>13. Committed(c, "remove", old[i], leaves)
    BY <1>0, <1>1, <1>5, <1>8, <1>9, <1>10, <1>11, <1>12 DEF Committed
<1> QED
    BY <1>13, CommitKeeps

-----------------------------------------------------------------------------
(* The operations that make no epoch out of another.                       *)

\* A step that makes nothing but messages keeps MlsInv when the groups it gives
\* are sound.
LEMMA QuietKeeps ==
    ASSUME MlsInv, Shape', PendingSound', MessagesSound',
           UNCHANGED <<packages, epochs, rotations>>, Len(messages) <= Len(messages'),
           \A c \in Client :
               group'[c] \in {group[c], disk[c], NoGroup} \/ StateSound(c, group[c])',
           \A c \in Client : disk'[c] \in {disk[c], group[c]}
    PROVE  MlsInv'
<1>1. Grows
    BY DEF Grows, MlsInv, Shape
<1> QED
    BY <1>1, StepKeeps

\* A new package, for a group of one or for a pending member, disturbs nothing.
LEMMA GenerateKeyPackageKeeps ==
    ASSUME MlsInv, NEW c \in Client, DocGenerateKeyPackage(c)
    PROVE  MlsInv'
<1>1. /\ packages' = Append(packages, c)
      /\ pending' = [pending EXCEPT ![c] = Len(packages) + 1]
      /\ UNCHANGED <<epochs, group, messages, rotations, text, disk>>
    BY DEF DocGenerateKeyPackage, GenerateKeyPackage
<1>2. /\ Len(packages) \in Nat /\ DOMAIN packages = 1..Len(packages)
      /\ packages' \in Seq(Client) /\ Len(packages') = Len(packages) + 1
      /\ DOMAIN packages' = 1..Len(packages') /\ packages'[Len(packages) + 1] = c
      /\ \A p \in DOMAIN packages : p \in DOMAIN packages' /\ packages'[p] = packages[p]
    BY <1>1, AppendProperties DEF MlsInv, Shape
<1>3. Shape'
    BY <1>1, <1>2 DEF MlsInv, Shape
<1>4. Grows
    BY <1>1, <1>2 DEF Grows, MlsInv, Shape
<1>5. PendingSound'
    <2>1. \A d \in Client \ {c} : pending'[d] = pending[d]
        BY <1>1 DEF MlsInv, Shape
    <2>2. pending'[c] = Len(packages) + 1
        BY <1>1 DEF MlsInv, Shape
    <2> QED
        BY <1>2, <2>1, <2>2 DEF MlsInv, PendingSound
<1>6. MessagesSound'
    BY <1>1, <1>2 DEF MlsInv, MessagesSound
<1> QED
    BY <1>1, <1>3, <1>4, <1>5, <1>6, StepKeeps

\* The first epoch of a group has its creator alone.
LEMMA CreateKeeps ==
    ASSUME MlsInv, NEW c \in Client, DocCreate(c)
    PROVE  MlsInv' /\ Moves(c)
<1>0. SUFFICES ASSUME NEW p, p = Len(packages) + 1, NEW n, n = Len(epochs) + 1,
                      NEW made, made = NewEpoch(0, 0, "create", p, p, <<p>>),
                      NEW new, new = AtEpoch(n, p, UserId[c], TRUE)
               PROVE  MlsInv' /\ Moves(c)
    OBVIOUS
<1>1. /\ packages' = Append(packages, c) /\ epochs' = Append(epochs, made)
      /\ group' = [group EXCEPT ![c] = new] /\ text' = [text EXCEPT ![c] = {}]
      /\ UNCHANGED <<pending, messages, rotations, disk>>
    BY <1>0 DEF DocCreate, MlsCreate
<1>2. /\ Len(packages) \in Nat /\ DOMAIN packages = 1..Len(packages)
      /\ packages' \in Seq(Client) /\ Len(packages') = p
      /\ DOMAIN packages' = 1..p /\ packages'[p] = c
      /\ \A q \in DOMAIN packages : q \in DOMAIN packages' /\ packages'[q] = packages[q]
    BY <1>0, <1>1, AppendProperties DEF MlsInv, Shape
<1>3. /\ made.number = 0 /\ made.parent = 0 /\ made.kind = "create" /\ made.by = p
      /\ made.subject = p /\ made.leaves = <<p>>
      /\ new.epoch = n /\ new.leaf = p /\ new.owner = UserId[c] /\ new.active = TRUE
      /\ new.sent = 0 /\ new.read = {}
    BY <1>0 DEF NewEpoch, AtEpoch
<1>4. made \in EpochRecord /\ new \in GroupState
    <2>1. p \in Nat /\ n \in Nat /\ <<p>> \in Seq(Nat) /\ UserId[c] \in User
        BY <1>0, <1>2, MlsAssumption DEF MlsInv, Shape
    <2> QED
        BY <1>0, <2>1 DEF EpochRecord, NewEpoch, AtEpoch, GroupState
<1>5. /\ Len(epochs') = n /\ DOMAIN epochs' = 1..n /\ epochs'[n] = made /\ n \in Nat
      /\ Len(epochs) \in Nat /\ DOMAIN epochs = 1..Len(epochs)
      /\ \A e \in DOMAIN epochs : e \in DOMAIN epochs' /\ epochs'[e] = epochs[e]
      /\ epochs' \in Seq(EpochRecord)
    BY <1>0, <1>1, <1>4, AppendProperties DEF MlsInv, Shape
<1>6. Shape'
    BY <1>1, <1>2, <1>4, <1>5 DEF MlsInv, Shape
<1>7. Grows
    BY <1>0, <1>1, <1>2, <1>5 DEF Grows, MlsInv, Shape
<1>8. LeafSet(n)' = {p} /\ LeafZero(n)' = UserId[c]
    BY <1>0, <1>2, <1>3, <1>5 DEF LeafSet, LeafZero, CredentialIdentity
<1>9. EpochSound(n)'
    BY <1>0, <1>2, <1>3, <1>5 DEF EpochSound
<1>10. \A e \in DOMAIN epochs' : e \in DOMAIN epochs \/ EpochSound(e)'
    BY <1>0, <1>5, <1>9
<1>11. StateSound(c, new)'
    <2>1. Len(messages') \in Nat /\ n \in DOMAIN epochs' /\ p \in DOMAIN packages'
        BY <1>0, <1>1, <1>2, <1>5 DEF MlsInv, Shape
    <2> QED
        BY <1>2, <1>3, <1>8, <2>1 DEF StateSound
<1>12. group'[c] = new /\ \A d \in Client \ {c} : group'[d] = group[d]
    BY <1>1 DEF MlsInv, Shape
<1>13. StateSound(c, group[c])'
    BY <1>11, <1>12 DEF StateSound
<1>14. PendingSound' /\ MessagesSound'
    BY <1>1, <1>2, <1>5 DEF MlsInv, PendingSound, MessagesSound
<1>15. Moves(c)
    BY <1>1, <1>4 DEF Moves
<1> QED
    BY <1>1, <1>6, <1>7, <1>10, <1>12, <1>13, <1>14, StepKeeps, <1>15

\* A Welcome is opened with the pending package, which has a leaf of the epoch.
LEMMA JoinKeeps ==
    ASSUME MlsInv, NEW c \in Client, NEW e \in DOMAIN epochs, DocJoin(c, e)
    PROVE  MlsInv' /\ (IF OpensWelcome(c, e) THEN Moves(c) ELSE UNCHANGED group)
<1>0. SUFFICES ASSUME NEW p, p = pending[c], NEW new, new = AtEpoch(e, p, LeafZero(e), TRUE)
               PROVE  MlsInv' /\ (IF OpensWelcome(c, e) THEN Moves(c) ELSE UNCHANGED group)
    OBVIOUS
<1>1. /\ pending[c] # 0 /\ pending' = [pending EXCEPT ![c] = 0]
      /\ UNCHANGED <<packages, epochs, messages, rotations, disk>>
    BY DEF DocJoin, MlsJoin
<1>2. p \in DOMAIN packages /\ packages[p] = c
    BY <1>0, <1>1 DEF MlsInv, PendingSound
<1>3. /\ new.epoch = e /\ new.leaf = p /\ new.owner = LeafZero(e) /\ new.active = TRUE
      /\ new.sent = 0 /\ new.read = {}
    BY <1>0 DEF AtEpoch
<1>4. new \in GroupState /\ LeafZero(e) \in User
    <2>1. LeafZero(e) \in User
        <3>1. epochs[e].leaves[1] \in DOMAIN packages
            BY DEF MlsInv, Shape, EpochsSound, EpochSound
        <3>2. packages[epochs[e].leaves[1]] \in Client
            BY <3>1, ElementOfSeq DEF MlsInv, Shape
        <3> QED
            BY <3>2, MlsAssumption DEF LeafZero, CredentialIdentity
    <2>2. e \in Nat /\ p \in Nat
        BY <1>0, EpochTyped DEF MlsInv, Shape
    <2> QED
        BY <1>0, <2>1, <2>2 DEF AtEpoch, GroupState
<1>5. group' = [group EXCEPT ![c] = new] \/ group' = group
    BY <1>0 DEF DocJoin, MlsJoin
<1>6. text' = text \/ text' = [text EXCEPT ![c] = {}]
    BY DEF DocJoin
<1>7. Shape'
    BY <1>1, <1>4, <1>5, <1>6 DEF MlsInv, Shape
<1>8. PendingSound' /\ MessagesSound'
    BY <1>1 DEF MlsInv, PendingSound, MessagesSound, Shape
<1>9. \A d \in Client : group'[d] = group[d] \/ StateSound(d, group[d])'
    <2>1. CASE ~OpensWelcome(c, e)
        BY <2>1 DEF DocJoin, MlsJoin
    <2>2. CASE OpensWelcome(c, e)
        <3>1. p \in LeafSet(e)
            BY <1>0, <2>2 DEF OpensWelcome, MlsInv, EpochsSound, EpochSound
        <3>2. Len(messages) \in Nat
            BY DEF MlsInv, Shape
        <3>3. StateSound(c, new)
            BY <1>2, <1>3, <3>1, <3>2 DEF StateSound
        <3>4. StateSound(c, new)'
            BY <1>1, <3>3 DEF StateSound, LeafSet, LeafZero, CredentialIdentity
        <3>5. group'[c] = new /\ \A d \in Client \ {c} : group'[d] = group[d]
            BY <1>0, <2>2 DEF DocJoin, MlsJoin, MlsInv, Shape
        <3>6. StateSound(c, group[c])'
            BY <3>4, <3>5 DEF StateSound
        <3> QED
            BY <3>5, <3>6
    <2> QED
        BY <2>1, <2>2
<1>10. Len(messages) <= Len(messages')
    BY <1>1 DEF MlsInv, Shape
<1>11. \A d \in Client : disk'[d] = disk[d]
    BY <1>1
<1>12. IF OpensWelcome(c, e) THEN Moves(c) ELSE UNCHANGED group
    BY <1>0, <1>4 DEF DocJoin, MlsJoin, Moves
<1> QED
    BY <1>1, <1>7, <1>8, <1>9, <1>10, <1>11, <1>12, QuietKeeps

\* A member that follows a commit keeps the owner, and has a leaf if it can
\* still derive the key.
LEMMA ProcessCommitKeeps ==
    ASSUME MlsInv, NEW c \in Client, Established(c), NEW e \in DOMAIN epochs,
           DocProcessCommit(c, e)
    PROVE  MlsInv' /\ Moves(c)
<1>0. SUFFICES ASSUME NEW g, g = group[c],
                      NEW new, new = AtEpoch(e, g.leaf, g.owner, StaysIn(c, e)),
                      NEW rotation, rotation = Rotation(c, new, epochs[e].number, SubscribeKey(g))
               PROVE  MlsInv' /\ Moves(c)
    OBVIOUS
<1>1. /\ g \in GroupState /\ g.epoch \in DOMAIN epochs /\ g.leaf \in DOMAIN packages
      /\ packages[g.leaf] = c /\ g.owner = LeafZero(g.epoch)
      /\ g.active => g.leaf \in LeafSet(g.epoch)
    BY <1>0 DEF MlsInv, Shape, GroupsSound, StateSound, Established
<1>2. g.active /\ epochs[e].parent = g.epoch
    BY <1>0 DEF DocProcessCommit, ProcessCommit, AcceptsCommit, CanDerive
<1>3. /\ group' = [group EXCEPT ![c] = new]
      /\ rotations' = rotations \cup
            AnchorRotation(c, new, epochs[e].number, SubscribeKey(g))
      /\ UNCHANGED <<packages, epochs, pending, messages, text, disk>>
    BY <1>0 DEF DocProcessCommit, ProcessCommit
<1>4. /\ new.epoch = e /\ new.leaf = g.leaf /\ new.owner = g.owner /\ new.active = StaysIn(c, e)
      /\ new.sent = 0 /\ new.read = {}
    BY <1>0 DEF AtEpoch
<1>5. StaysIn(c, e) <=> g.leaf \in LeafSet(e)
    BY <1>0 DEF StaysIn
<1>6. new \in GroupState
    <2>1. e \in Nat /\ g.leaf \in Nat /\ g.owner \in User /\ StaysIn(c, e) \in BOOLEAN
        BY <1>1, EpochTyped DEF MlsInv, GroupState, StaysIn
    <2> QED
        BY <1>0, <2>1 DEF AtEpoch, GroupState
<1>7. /\ epochs[e].number = epochs[g.epoch].number + 1
      /\ LeafZero(e) = LeafZero(g.epoch) /\ e # g.epoch
    <2>1. EpochSound(e) /\ g.epoch # 0 /\ e \in Nat
        BY <1>1, EpochTyped DEF MlsInv, EpochsSound
    <2>2. epochs[e].kind # "create"
        BY <1>2, <2>1 DEF EpochSound
    <2> QED
        BY <1>2, <2>1, <2>2 DEF EpochSound, LeafZero
<1>8. \A r \in rotations' : r \in rotations \/ (r = rotation /\ StaysIn(c, e))
    BY <1>0, <1>3, <1>4 DEF AnchorRotation, CanDerive
<1>9. /\ rotation.by = c /\ rotation.key = e /\ rotation.outgoing = g.epoch
      /\ rotation.epoch = epochs[e].number /\ rotation \in RotationRecord
    <2>1. rotation = [by |-> c, epoch |-> epochs[e].number, key |-> e, outgoing |-> g.epoch]
        BY <1>0, <1>4 DEF Rotation, SubscribeKey
    <2>2. epochs[e].number \in Nat /\ e \in Nat /\ g.epoch \in Nat
        BY <1>1, EpochTyped DEF MlsInv
    <2> QED
        BY <2>1, <2>2 DEF RotationRecord
<1>10. Shape'
    <2>1. rotations' \subseteq RotationRecord
        BY <1>8, <1>9 DEF MlsInv, Shape
    <2>2. group' \in [Client -> GroupState \cup {NoGroup}]
        BY <1>3, <1>6 DEF MlsInv, Shape
    <2> QED
        BY <1>3, <2>1, <2>2 DEF MlsInv, Shape
<1>11. Grows
    BY <1>3 DEF Grows, MlsInv, Shape
<1>12. group'[c] = new /\ \A d \in Client \ {c} : group'[d] = group[d]
    BY <1>3 DEF MlsInv, Shape
<1>13. StateSound(c, group[c])'
    <2>1. Len(messages) \in Nat
        BY DEF MlsInv, Shape
    <2>2. StateSound(c, new)
        BY <1>1, <1>4, <1>5, <1>7, <2>1 DEF StateSound
    <2>3. StateSound(c, new)'
        BY <1>3, <2>2 DEF StateSound, LeafSet, LeafZero, CredentialIdentity
    <2> QED
        BY <1>12, <2>3 DEF StateSound
<1>14. StaysIn(c, e) => RotationSound(rotation)'
    <2>1. StaysIn(c, e) => RotationSound(rotation)
        BY <1>1, <1>2, <1>5, <1>7, <1>9 DEF RotationSound
    <2> QED
        BY <1>3, <2>1 DEF RotationSound, LeafSet
<1>15. PendingSound' /\ MessagesSound'
    BY <1>3 DEF MlsInv, PendingSound, MessagesSound
<1>16. \A r \in rotations' : r \in rotations \/ RotationSound(r)'
    BY <1>8, <1>14
<1>17. Moves(c)
    BY <1>3, <1>6 DEF Moves
<1> QED
    BY <1>3, <1>10, <1>11, <1>12, <1>13, <1>15, <1>16, StepKeeps, <1>17

\* Sealing takes the next generation, of which there are as many as messages.
LEMMA SendEditKeeps ==
    ASSUME MlsInv, NEW c \in Client, Established(c), SendEdit(c)
    PROVE  MlsInv' /\ Moves(c)
<1>0. SUFFICES ASSUME NEW g, g = group[c], NEW new, new = [g EXCEPT !.sent = @ + 1],
                      NEW m, m = [epoch |-> g.epoch, leaf |-> g.leaf, generation |-> g.sent,
                                  plaintext |-> Edited(c)]
               PROVE  MlsInv' /\ Moves(c)
    OBVIOUS
<1>1. g \in GroupState /\ g # NoGroup /\ StateSound(c, g)
    BY <1>0 DEF MlsInv, Shape, GroupsSound, Established
<1>2. /\ messages' = Append(messages, m) /\ group' = [group EXCEPT ![c] = new]
      /\ text' = [text EXCEPT ![c] = Edited(c)] /\ Len(messages) < MaxMessages
      /\ UNCHANGED <<packages, epochs, pending, rotations, disk>>
    BY <1>0 DEF SendEdit, Encrypt
<1>3. Edited(c) \subseteq Client
    BY DEF Edited, MlsInv, Shape
<1>4. m \in Message
    BY <1>0, <1>1, <1>3 DEF Message, GroupState
<1>5. /\ Len(messages) \in Nat /\ Len(messages') = Len(messages) + 1
      /\ messages' \in Seq(Message) /\ DOMAIN messages = 1..Len(messages)
      /\ DOMAIN messages' = 1..(Len(messages) + 1)
      /\ messages'[Len(messages) + 1] = m
      /\ \A i \in DOMAIN messages : messages'[i] = messages[i]
    BY <1>2, <1>4, AppendProperties DEF MlsInv, Shape
<1>6. /\ new \in GroupState /\ new # NoGroup /\ new.epoch = g.epoch /\ new.leaf = g.leaf
      /\ new.owner = g.owner /\ new.active = g.active /\ new.sent = g.sent + 1
      /\ new.read = g.read
    <2>1. new \in GroupState
        BY <1>0, <1>1 DEF GroupState
    <2> QED
        BY <1>0, <1>1, <2>1, MlsAssumption DEF GroupState
<1>7. Shape'
    BY <1>2, <1>3, <1>5, <1>6 DEF MlsInv, Shape
<1>8. group'[c] = new /\ \A d \in Client \ {c} : group'[d] = group[d]
    BY <1>2 DEF MlsInv, Shape
<1>9. StateSound(c, group[c])'
    <2>1. g.sent \in Nat /\ g.sent <= Len(messages)
        BY <1>1 DEF StateSound, GroupState
    <2>2. new.sent <= Len(messages')
        BY <1>5, <1>6, <2>1
    <2>3. /\ new.epoch \in DOMAIN epochs' /\ new.leaf \in DOMAIN packages'
          /\ packages'[new.leaf] = c /\ new.owner = LeafZero(new.epoch)'
          /\ new.read \subseteq (DOMAIN packages') \X (0..MaxMessages)
          /\ new.active => new.leaf \in LeafSet(new.epoch)'
        BY <1>1, <1>2, <1>6 DEF StateSound, LeafSet, LeafZero, CredentialIdentity
    <2> QED
        BY <1>8, <2>2, <2>3 DEF StateSound
<1>10. PendingSound'
    BY <1>2 DEF MlsInv, PendingSound
<1>11. MessagesSound'
    <2>1. m.epoch \in DOMAIN epochs /\ m.leaf \in DOMAIN packages /\ m.generation \in 0..MaxMessages
        <3>1. m.generation \in Nat /\ m.generation <= Len(messages)
            BY <1>0, <1>1 DEF StateSound, GroupState
        <3> QED
            BY <1>0, <1>1, <1>2, <1>5, <3>1, MlsAssumption DEF StateSound
    <2>2. Len(messages') <= MaxMessages
        BY <1>2, <1>5, MlsAssumption
    <2>3. ASSUME NEW i \in DOMAIN messages'
          PROVE  /\ messages'[i].epoch \in DOMAIN epochs'
                 /\ messages'[i].leaf \in DOMAIN packages'
                 /\ messages'[i].generation \in 0..MaxMessages
        <3>1. i \in DOMAIN messages \/ i = Len(messages) + 1
            BY <1>5
        <3> QED
            BY <1>2, <1>5, <2>1, <3>1 DEF MlsInv, MessagesSound
    <2> QED
        BY <2>2, <2>3 DEF MessagesSound
<1>12. Len(messages) <= Len(messages')
    BY <1>5
<1>13. Moves(c)
    BY <1>2, <1>6 DEF Moves
<1> QED
    BY <1>2, <1>7, <1>8, <1>9, <1>10, <1>11, <1>12, QuietKeeps, <1>13

\* Opening a message marks its generation as read, which some message has.
LEMMA ApplyUpdateKeeps ==
    ASSUME MlsInv, NEW c \in Client, Established(c), NEW m \in DOMAIN messages,
           ApplyEncryptedUpdate(c, m)
    PROVE  MlsInv' /\ Moves(c)
<1>0. SUFFICES ASSUME NEW g, g = group[c],
                      NEW mark, mark = <<messages[m].leaf, messages[m].generation>>,
                      NEW new, new = [g EXCEPT !.read = @ \cup {mark}]
               PROVE  MlsInv' /\ Moves(c)
    OBVIOUS
<1>1. g \in GroupState /\ g # NoGroup /\ StateSound(c, g)
    BY <1>0 DEF MlsInv, Shape, GroupsSound, Established
<1>2. /\ group' = [group EXCEPT ![c] = new]
      /\ text' = [text EXCEPT ![c] = @ \cup messages[m].plaintext]
      /\ UNCHANGED <<packages, epochs, pending, messages, rotations, disk>>
    BY <1>0 DEF ApplyEncryptedUpdate, Decrypt, ApplyUpdate
<1>3. mark \in (DOMAIN packages) \X (0..MaxMessages) /\ DOMAIN packages \subseteq Nat
    BY <1>0 DEF MlsInv, Shape, MessagesSound
<1>4. messages[m].plaintext \subseteq Client
    <2>1. messages[m] \in Message
        BY ElementOfSeq DEF MlsInv, Shape
    <2> QED
        BY <2>1 DEF Message
<1>5. mark \in Nat \X Nat
    BY <1>3, MlsAssumption
<1>6. /\ new \in GroupState /\ new # NoGroup /\ new.epoch = g.epoch /\ new.leaf = g.leaf
      /\ new.owner = g.owner /\ new.active = g.active /\ new.sent = g.sent
      /\ new.read = g.read \cup {mark}
    <2>1. new \in GroupState
        BY <1>0, <1>1, <1>5 DEF GroupState
    <2> QED
        BY <1>0, <1>1, <2>1, MlsAssumption DEF GroupState
<1>7. Shape'
    BY <1>2, <1>4, <1>6 DEF MlsInv, Shape
<1>8. group'[c] = new /\ \A d \in Client \ {c} : group'[d] = group[d]
    BY <1>2 DEF MlsInv, Shape
<1>9. StateSound(c, group[c])'
    <2>1. StateSound(c, new)
        BY <1>1, <1>3, <1>6 DEF StateSound
    <2>2. StateSound(c, new)'
        BY <1>2, <2>1 DEF StateSound, LeafSet, LeafZero, CredentialIdentity
    <2> QED
        BY <1>8, <2>2 DEF StateSound
<1>10. PendingSound' /\ MessagesSound'
    BY <1>2 DEF MlsInv, PendingSound, MessagesSound
<1>11. Len(messages) <= Len(messages')
    BY <1>2 DEF MlsInv, Shape
<1>12. Moves(c)
    BY <1>2, <1>6 DEF Moves
<1> QED
    BY <1>2, <1>7, <1>8, <1>9, <1>10, <1>11, QuietKeeps, <1>12

\* A snapshot is the group it was taken of.
LEMMA SnapshotKeeps ==
    ASSUME MlsInv, NEW c \in Client, SnapshotEncrypted(c)
    PROVE  MlsInv'
<1>1. /\ disk' = [disk EXCEPT ![c] = group[c]]
      /\ UNCHANGED <<packages, epochs, group, pending, messages, rotations, text>>
    BY DEF SnapshotEncrypted, Snapshot, mlsVars
<1>2. Shape'
    BY <1>1 DEF MlsInv, Shape
<1>3. PendingSound' /\ MessagesSound' /\ Len(messages) <= Len(messages')
    BY <1>1 DEF MlsInv, Shape, PendingSound, MessagesSound
<1>4. \A d \in Client : disk'[d] \in {disk[d], group[d]} /\ group'[d] = group[d]
    BY <1>1 DEF MlsInv, Shape
<1> QED
    BY <1>1, <1>2, <1>3, <1>4, QuietKeeps

\* Dropping a group, as a restart and a close do, or a pending member, as a
\* refused join does.
LEMMA DropKeeps ==
    ASSUME MlsInv, NEW c \in Client,
           group' \in {group, [group EXCEPT ![c] = NoGroup]},
           pending' \in {pending, [pending EXCEPT ![c] = 0]},
           text' \in {text, [text EXCEPT ![c] = {}]},
           UNCHANGED <<packages, epochs, messages, rotations, disk>>
    PROVE  MlsInv'
<1>1. Shape'
    <2>1. group' \in [Client -> GroupState \cup {NoGroup}]
        BY DEF MlsInv, Shape
    <2>2. pending' \in [Client -> Nat]
        BY DEF MlsInv, Shape
    <2>3. text' \in [Client -> SUBSET Client]
        BY DEF MlsInv, Shape
    <2> QED
        BY <2>1, <2>2, <2>3 DEF MlsInv, Shape
<1>2. PendingSound' /\ MessagesSound' /\ Len(messages) <= Len(messages')
    BY DEF MlsInv, Shape, PendingSound, MessagesSound
<1>3. \A d \in Client : group'[d] \in {group[d], NoGroup} /\ disk'[d] = disk[d]
    BY DEF MlsInv, Shape
<1> QED
    BY <1>1, <1>2, <1>3, QuietKeeps

\* The owner a restored group reads off leaf 0 is the one it was written with.
LEMMA RestoreKeeps ==
    ASSUME MlsInv, NEW c \in Client, RestoreEncrypted(c, 0)
    PROVE  MlsInv' /\ group' = [group EXCEPT ![c] = disk[c]] /\ disk[c] \in GroupState
<1>0. disk[c] \in GroupState /\ disk[c] # NoGroup /\ disk[c].owner = LeafZero(disk[c].epoch)
    BY DEF MlsInv, Shape, GroupsSound, StateSound, RestoreEncrypted
<1>1. Restored(disk[c]) = disk[c]
    BY <1>0 DEF Restored, FromParts, GroupState
<1>2. /\ group' = [group EXCEPT ![c] = disk[c]] /\ text' = [text EXCEPT ![c] = {}]
      /\ UNCHANGED <<packages, epochs, pending, messages, rotations, disk>>
    BY <1>1 DEF RestoreEncrypted
<1>3. Shape'
    BY <1>0, <1>2 DEF MlsInv, Shape
<1>4. PendingSound' /\ MessagesSound' /\ Len(messages) <= Len(messages')
    BY <1>2 DEF MlsInv, Shape, PendingSound, MessagesSound
<1>5. \A d \in Client : group'[d] \in {group[d], disk[d]} /\ disk'[d] = disk[d]
    BY <1>2 DEF MlsInv, Shape
<1> QED
    BY <1>0, <1>2, <1>3, <1>4, <1>5, QuietKeeps

-----------------------------------------------------------------------------
(* The registry.                                                           *)

LEMMA InvInit == Init => Inv
<1> SUFFICES ASSUME Init PROVE Inv
    OBVIOUS
<1> USE DEF Init, DocInit, MlsInit
<1>1. Shape
    BY DEF Shape
<1>2. EpochsSound /\ PendingSound /\ RotationsSound
    BY DEF EpochsSound, PendingSound, RotationsSound
<1>3. GroupsSound
    BY DEF GroupsSound, StateSound
<1>4. MessagesSound
    BY MlsAssumption DEF MessagesSound
<1>5. EntriesSound
    BY DEF EntriesSound, Entry, Established
<1> QED
    BY <1>1, <1>2, <1>3, <1>4, <1>5 DEF Inv, MlsInv

\* Every operation keeps MlsInv.
LEMMA NextMlsInv == Inv /\ [Next]_vars => MlsInv'
<1> SUFFICES ASSUME Inv, [Next]_vars PROVE MlsInv'
    OBVIOUS
<1>0. MlsInv /\ \A c \in Client : Encrypted(c) \/ entry[c] = "restored" => Established(c)
    BY DEF Inv, EntriesSound, Encrypted
<1> USE <1>0
<1>1. CASE UNCHANGED docVars
    <2> USE <1>1 DEF docVars, mlsVars
    <2>1. Shape'
        BY DEF MlsInv, Shape
    <2>2. PendingSound' /\ MessagesSound' /\ Len(messages) <= Len(messages')
        BY DEF MlsInv, Shape, PendingSound, MessagesSound
    <2>3. \A c \in Client : group'[c] = group[c] /\ disk'[c] = disk[c]
        OBVIOUS
    <2> QED
        BY <2>1, <2>2, <2>3, QuietKeeps
<1>2. ASSUME NEW c \in Client, NEW e \in DOMAIN epochs, NEW current,
             RegistryJoinEncrypted(c, e, current)
      PROVE  MlsInv'
    <2>1. CASE DocJoin(c, e)
        BY <2>1, JoinKeeps
    <2>2. CASE ~DocJoin(c, e)
        <3>1. /\ pending' = [pending EXCEPT ![c] = 0]
              /\ UNCHANGED <<packages, epochs, group, messages, rotations, text, disk>>
            BY <1>2, <2>2 DEF RegistryJoinEncrypted
        <3> QED
            BY <3>1, DropKeeps
    <2> QED
        BY <2>1, <2>2
<1>3. ASSUME NEW c \in Client, RegistryCloseAny(c)
      PROVE  MlsInv'
    BY <1>3, DropKeeps DEF RegistryCloseAny
<1>4. ASSUME NEW c \in Client, GetEncryptedMut(c)
      PROVE  MlsInv'
    <2>1. Established(c)
        BY <1>4 DEF GetEncryptedMut
    <2>2. \/ SendEdit(c) \/ SnapshotEncrypted(c)
          \/ \E m \in DOMAIN messages : ApplyEncryptedUpdate(c, m)
          \/ \E u \in User : DocRemoveMember(c, u)
          \/ \E p \in DOMAIN packages : DocCreateInvite(c, p)
          \/ \E e \in DOMAIN epochs : DocProcessCommit(c, e)
        BY <1>4 DEF GetEncryptedMut
    <2> QED
        BY <2>1, <2>2, SendEditKeeps, SnapshotKeeps, ApplyUpdateKeeps, RemoveMemberKeeps,
           AddMemberKeeps, ProcessCommitKeeps
<1>5. ASSUME NEW c \in Client, Restart(c)
      PROVE  MlsInv'
    BY <1>5, DropKeeps DEF Restart, Forget
<1>6. ASSUME NEW c \in Client, Restore(c, 0)
      PROVE  MlsInv'
    BY <1>6, RestoreKeeps DEF Restore
<1>7. ASSUME NEW c \in Client,
             \/ RegistryCreateEncrypted(c) \/ RequestToJoin(c)
             \/ \E p \in DOMAIN packages : RegistryCreateInvite(c, p)
             \/ \E e \in DOMAIN epochs : RegistryProcessCommit(c, e)
      PROVE  MlsInv'
    BY <1>7, CreateKeeps, GenerateKeyPackageKeeps, AddMemberKeeps, ProcessCommitKeeps
       DEF RegistryCreateEncrypted, RequestToJoin, RegistryCreateInvite, RegistryProcessCommit
<1>8. ASSUME NEW c \in Client, RegistryCreate(c) \/ RegistryOpen(c) \/ RegistryClose(c)
      PROVE  UNCHANGED docVars
    BY <1>8 DEF RegistryCreate, RegistryOpen, RegistryClose
<1> QED
    BY <1>1, <1>2, <1>3, <1>4, <1>5, <1>6, <1>7, <1>8 DEF Next, vars

\* Every operation keeps the registry's entries in step with the groups.
LEMMA NextEntriesSound == Inv /\ [Next]_vars => EntriesSound'
<1> SUFFICES ASSUME Inv, [Next]_vars PROVE EntriesSound'
    OBVIOUS
<1>0. /\ entry \in [Client -> Entry] /\ group \in [Client -> GroupState \cup {NoGroup}]
      /\ \A c \in Client : group[c] # NoGroup <=> entry[c] \in {"owner", "member", "restored"}
      /\ MlsInv
    BY DEF Inv, EntriesSound, Established, MlsInv, Shape
\* No group comes or goes, and no entry but a plain one does.
<1>1. ASSUME UNCHANGED group,
             \/ UNCHANGED entry
             \/ \E c \in Client : \/ entry[c] = "absent" /\ entry' = [entry EXCEPT ![c] = "plain"]
                                  \/ entry[c] = "plain" /\ entry' = [entry EXCEPT ![c] = "absent"]
      PROVE  EntriesSound'
    BY <1>0, <1>1 DEF EntriesSound, Established, Entry
\* A client is left with a group, and an entry for it.
<1>2. ASSUME NEW c \in Client, Moves(c),
             \/ UNCHANGED entry /\ group[c] # NoGroup
             \/ \E x \in {"owner", "member", "restored"} : entry' = [entry EXCEPT ![c] = x]
      PROVE  EntriesSound'
    BY <1>0, <1>2, MlsAssumption DEF EntriesSound, Established, Entry, Moves
\* A client loses both.
<1>3. ASSUME NEW c \in Client, group' = [group EXCEPT ![c] = NoGroup],
             entry' = [entry EXCEPT ![c] = "absent"]
      PROVE  EntriesSound'
    BY <1>0, <1>3 DEF EntriesSound, Established, Entry
<1>4. CASE UNCHANGED vars
    BY <1>1, <1>4 DEF vars, docVars, mlsVars
<1>5. ASSUME NEW c \in Client, RegistryCreate(c) \/ RegistryOpen(c) \/ RegistryClose(c)
      PROVE  EntriesSound'
    BY <1>1, <1>5 DEF RegistryCreate, RegistryOpen, RegistryClose, SetEntry, docVars, mlsVars
<1>6. ASSUME NEW c \in Client, RegistryCreateEncrypted(c)
      PROVE  EntriesSound'
    BY <1>0, <1>2, <1>6, CreateKeeps DEF RegistryCreateEncrypted, SetEntry
<1>7. ASSUME NEW c \in Client, NEW e \in DOMAIN epochs, NEW current,
             RegistryJoinEncrypted(c, e, current)
      PROVE  EntriesSound'
    <2>1. CASE IsCurrent(e, current) /\ ~Contains(c) /\ OpensWelcome(c, e)
        <3>1. Moves(c) /\ entry' = [entry EXCEPT ![c] = "member"]
            BY <1>0, <1>7, <2>1, JoinKeeps DEF RegistryJoinEncrypted, SetEntry
        <3> QED
            BY <1>2, <3>1
    <2>2. CASE IsCurrent(e, current) /\ ~Contains(c) /\ ~OpensWelcome(c, e)
        <3>1. UNCHANGED group /\ UNCHANGED entry
            BY <1>0, <1>7, <2>2, JoinKeeps DEF RegistryJoinEncrypted
        <3> QED
            BY <1>1, <3>1
    <2>3. CASE ~(IsCurrent(e, current) /\ ~Contains(c))
        BY <1>1, <1>7, <2>3 DEF RegistryJoinEncrypted
    <2> QED
        BY <2>1, <2>2, <2>3
<1>8. ASSUME NEW c \in Client, RegistryCloseAny(c) \/ Restart(c)
      PROVE  EntriesSound'
    BY <1>3, <1>8 DEF RegistryCloseAny, Restart, Forget, SetEntry
<1>9. ASSUME NEW c \in Client,
             \/ \E p \in DOMAIN packages : RegistryCreateInvite(c, p)
             \/ \E e \in DOMAIN epochs : RegistryProcessCommit(c, e)
             \/ GetEncryptedMut(c)
      PROVE  EntriesSound'
    <2>1. group[c] # NoGroup /\ Established(c) /\ UNCHANGED entry
        BY <1>0, <1>9 DEF RegistryCreateInvite, RegistryProcessCommit, GetEncryptedMut, Encrypted,
                          Established
    <2>2. \/ SendEdit(c) \/ SnapshotEncrypted(c)
          \/ \E m \in DOMAIN messages : ApplyEncryptedUpdate(c, m)
          \/ \E u \in User : DocRemoveMember(c, u)
          \/ \E p \in DOMAIN packages : DocCreateInvite(c, p)
          \/ \E e \in DOMAIN epochs : DocProcessCommit(c, e)
        BY <1>9 DEF RegistryCreateInvite, RegistryProcessCommit, GetEncryptedMut
    <2>3. Moves(c) \/ UNCHANGED group
        <3>1. CASE SnapshotEncrypted(c)
            BY <3>1 DEF SnapshotEncrypted, mlsVars
        <3> QED
            BY <1>0, <2>1, <2>2, <3>1, SendEditKeeps, ApplyUpdateKeeps, RemoveMemberKeeps,
               AddMemberKeeps, ProcessCommitKeeps
    <2> QED
        BY <1>1, <1>2, <2>1, <2>3
<1>10. ASSUME NEW c \in Client, RequestToJoin(c)
       PROVE  EntriesSound'
    BY <1>1, <1>10 DEF RequestToJoin, DocGenerateKeyPackage, GenerateKeyPackage
<1>11. ASSUME NEW c \in Client, Restore(c, 0)
       PROVE  EntriesSound'
    <2>1. Moves(c) /\ entry' = [entry EXCEPT ![c] = "restored"]
        BY <1>0, <1>11, RestoreKeeps DEF Restore, SetEntry, Moves
    <2> QED
        BY <1>2, <2>1
<1> QED
    BY <1>4, <1>5, <1>6, <1>7, <1>8, <1>9, <1>10, <1>11 DEF Next

-----------------------------------------------------------------------------
\* The inductive invariant holds in every behaviour.
THEOREM RegistryInvariance == Spec => []Inv
<1>1. Inv /\ [Next]_vars => Inv'
    BY NextMlsInv, NextEntriesSound DEF Inv
<1> QED
    BY <1>1, InvInit, PTL DEF Spec

\* Groups, snapshots and messages refer to what was made, and a client holds a
\* group exactly when it has an entry for it (registry.rs), for any clients.
THEOREM RegistryTypeCorrect == Spec => []TypeOK
<1>1. ASSUME Inv
      PROVE  TypeOK
    <2> USE <1>1 DEF Inv, MlsInv
    <2>1. /\ DOMAIN packages = 1..Len(packages) /\ Len(packages) \in Nat
          /\ Len(messages) \in Nat /\ Len(messages) <= MaxMessages /\ MaxMessages \in Nat
        BY MlsAssumption DEF Shape, MessagesSound
    <2>2. ASSUME NEW e \in DOMAIN epochs
          PROVE  /\ epochs[e].number \in Nat /\ epochs[e].parent \in 0..(e - 1)
                 /\ epochs[e].kind \in {"create", "add", "remove"}
                 /\ {epochs[e].by, epochs[e].subject} \subseteq DOMAIN packages
                 /\ epochs[e].leaves \in Seq(0..Len(packages))
        <3>1. EpochSound(e)
            BY DEF EpochsSound
        <3>2. epochs[e].parent \in 0..(e - 1)
            BY <3>1, EpochTyped DEF EpochSound
        <3>3. epochs[e].leaves \in Seq(0..Len(packages))
            <4>1. epochs[e].leaves \in Seq(Nat)
                BY EpochTyped
            <4> QED
                BY <2>1, <3>1, <4>1 DEF EpochSound
        <3>4. epochs[e].by \in DOMAIN packages /\ epochs[e].subject \in DOMAIN packages
            BY <3>1 DEF EpochSound
        <3>5. epochs[e].number \in Nat /\ epochs[e].kind \in {"create", "add", "remove"}
            BY EpochTyped
        <3> QED
            BY <3>2, <3>3, <3>4, <3>5
    <2>3. ASSUME NEW c \in Client, NEW g \in GroupState \cup {NoGroup}, StateSound(c, g)
          PROVE  g \in Group \cup {NoGroup}
        <3>1. CASE g = NoGroup
            BY <3>1
        <3>2. CASE g # NoGroup
            <4>1. /\ g \in GroupState /\ g.epoch \in DOMAIN epochs /\ g.leaf \in DOMAIN packages
                  /\ g.owner \in User /\ g.active \in BOOLEAN
                  /\ g.read \subseteq (DOMAIN packages) \X (0..MaxMessages)
                BY <2>3, <3>2 DEF StateSound, GroupState
            <4>2. g.sent \in 0..MaxMessages
                BY <2>1, <2>3, <3>2 DEF StateSound, GroupState
            <4> QED
                BY <4>1, <4>2 DEF Group, GroupState
        <3> QED
            BY <3>1, <3>2
    <2>4. /\ group \in [Client -> Group \cup {NoGroup}]
          /\ disk \in [Client -> Group \cup {NoGroup}]
        BY <2>3 DEF Shape, GroupsSound
    <2>5. pending \in [Client -> 0..Len(packages)]
        BY <2>1 DEF Shape, PendingSound
    <2> QED
        BY <2>2, <2>4, <2>5 DEF TypeOK, Shape, MessagesSound, EntriesSound
<1> QED
    BY <1>1, RegistryInvariance, PTL

\* No commit but one under the owner's identity removes a member, and leaf 0 is
\* never given to another (mls.rs, remove_member and process_commit).
THEOREM OwnerAloneRemoves == Spec => []OnlyTheOwnerRemoves
<1>1. Inv => OnlyTheOwnerRemoves
    BY DEF Inv, MlsInv, EpochsSound, EpochSound, OnlyTheOwnerRemoves
<1> QED
    BY <1>1, RegistryInvariance, PTL

\* A client that can derive an epoch's key has a leaf of its own in it, through
\* any evictions, joins, restores and redeliveries (mls.rs, export_secret).
THEOREM KeyHoldersHaveLeaves == Spec => []KeyHoldersAreMembers
<1>1. Inv => KeyHoldersAreMembers
    BY DEF Inv, MlsInv, GroupsSound, StateSound, Established, CanDerive, KeyHoldersAreMembers
<1> QED
    BY <1>1, RegistryInvariance, PTL

\* Every rotation moves the anchor one epoch along the tree and comes from a
\* member of both ends (mls.rs, anchor_rotation).
THEOREM RotationsFollowTheTree == Spec => []RotationsAreContinuous
<1>1. Inv => RotationsAreContinuous
    BY DEF Inv, MlsInv, RotationsSound, RotationSound, RotationsAreContinuous
<1> QED
    BY <1>1, RegistryInvariance, PTL
=============================================================================
