------------------------ MODULE GroupHandshake_proofs ------------------------
(***************************************************************************)
(* Proofs about GroupHandshake, for any clients, user ids and bounds.      *)
(*                                                                         *)
(* BaseInv holds whatever is lost: groups and frames name what was made,   *)
(* and the leaves of an epoch have different identities.  As long as every *)
(* save is written, or nothing was lost yet (Kept), the epochs are one     *)
(* chain with the owner at its end (Chain), which makes every step one of  *)
(* GroupLog; and while nothing was lost, the owner's registrations are     *)
(* ahead of all that depends on them (Undisturbed).                        *)
(***************************************************************************)
EXTENDS GroupHandshake, FiniteSetTheorems, SequenceTheorems, TLAPS

EpochRecord ==
    [number : Nat, parent : Nat, kind : {"create", "add", "remove"}, by : Nat, subject : Nat,
     leaves : Seq(Nat)]

FrameRecord == [type : {"register", "subscribe", "key_package", "commit", "welcome"}, e : Nat]

\* What each variable is made of.
DocShape ==
    /\ packages \in Seq(Client)
    /\ epochs \in Seq(EpochRecord)
    /\ group \in [Client -> GroupState \cup {NoGroup}]
    /\ disk \in [Client -> GroupState \cup {NoGroup}]
    /\ pending \in [Client -> Nat]

WireShape ==
    /\ link \in [Client -> {"stopped", "offline", "online"}]
    /\ wire \in [Client -> Seq(FrameRecord)] /\ inbox \in [Client -> Seq(FrameRecord)]
    /\ anchor \in Nat /\ subscribers \subseteq Client /\ authorized \in [Client -> Nat]
    /\ faults \in Nat

\* Leaves are key packages that were made; no two of an epoch have one identity.
LeavesSound(e) ==
    /\ epochs[e].leaves \in Seq(0..Len(packages))
    /\ 1 \in DOMAIN epochs[e].leaves /\ epochs[e].leaves[1] # 0
    /\ \A i, j \in DOMAIN epochs[e].leaves :
          /\ epochs[e].leaves[i] # 0 /\ epochs[e].leaves[j] # 0
          /\ CredentialIdentity(epochs[e].leaves[i]) = CredentialIdentity(epochs[e].leaves[j])
          => i = j

EpochsSound == \A e \in DOMAIN epochs : LeavesSound(e)

\* A group is at an epoch that was made, in memory and on disk.
GroupsSound == \A c \in Client :
    /\ group[c] # NoGroup => group[c].epoch \in DOMAIN epochs
    /\ disk[c] # NoGroup => disk[c].epoch \in DOMAIN epochs

\* A key package that waits is one's own and one has no group; nothing goes on in
\* a session that is stopped.
PendingSound == \A c \in Client :
    /\ pending[c] # 0 => pending[c] \in DOMAIN packages /\ packages[pending[c]] = c
    /\ pending[c] # 0 => ~Established(c)
    /\ link[c] = "stopped" => pending[c] = 0 /\ ~Established(c)

DocInv == DocShape /\ EpochsSound /\ GroupsSound /\ PendingSound

-----------------------------------------------------------------------------
(* Leaves.                                                                 *)

\* A set of naturals has a least element.
LEMMA LeastNatural ==
    ASSUME NEW S \in SUBSET Nat, S # {}
    PROVE  \E i \in S : \A j \in S : i <= j
<1> DEFINE T == {0..i : i \in S}
<1>1. T \subseteq FiniteSubsetsOf(Nat) /\ T # {}
  <2> SUFFICES ASSUME NEW i \in S PROVE 0..i \in FiniteSubsetsOf(Nat)
    OBVIOUS
  <2>1. IsFiniteSet(0..i) /\ 0..i \subseteq Nat
    BY FS_Interval
  <2> QED BY <2>1 DEF FiniteSubsetsOf
<1>2. PICK x \in T : \A y \in T : <<y, x>> \notin StrictSubsetOrdering(Nat)
  <2> HIDE DEF T
  <2> QED BY <1>1, WFMin, FS_StrictSubsetOrderingWellFounded
<1>3. PICK i \in S : x = 0..i
  OBVIOUS
<1>4. ASSUME NEW j \in S, j < i PROVE FALSE
  <2>1. 0..j \subseteq 0..i /\ 0..j # 0..i
    BY <1>4
  <2>2. <<0..j, x>> \in StrictSubsetOrdering(Nat)
    BY <1>3, <2>1 DEF StrictSubsetOrdering
  <2> QED BY <1>2, <2>2
<1> QED BY <1>4

\* openmls puts a leaf in one place, and leaves the others alone.
LEMMA PutLeafAdds ==
    ASSUME NEW n \in Nat, NEW leaves \in Seq(0..n), NEW p \in 1..n,
           1 \in DOMAIN leaves, leaves[1] # 0
    PROVE  /\ PutLeaf(leaves, p) \in Seq(0..n)
           /\ 1 \in DOMAIN PutLeaf(leaves, p) /\ PutLeaf(leaves, p)[1] = leaves[1]
           /\ \E k \in DOMAIN PutLeaf(leaves, p) :
                 /\ PutLeaf(leaves, p)[k] = p
                 /\ \A i \in DOMAIN PutLeaf(leaves, p) : i # k =>
                       i \in DOMAIN leaves /\ PutLeaf(leaves, p)[i] = leaves[i]
                 /\ \A i \in DOMAIN leaves : leaves[i] # 0 =>
                       i # k /\ i \in DOMAIN PutLeaf(leaves, p)
<1>1. CASE \E i \in DOMAIN leaves : leaves[i] = 0
  <2> DEFINE blanks == {i \in DOMAIN leaves : leaves[i] = 0}
             first == CHOOSE i \in DOMAIN leaves :
                          leaves[i] = 0 /\ \A j \in DOMAIN leaves : leaves[j] = 0 => i <= j
  <2>1. blanks \in SUBSET Nat /\ blanks # {}
    BY <1>1
  <2>2. \E i \in blanks : \A j \in blanks : i <= j
    <3> HIDE DEF blanks
    <3> QED BY <2>1, LeastNatural
  <2>3. first \in DOMAIN leaves /\ leaves[first] = 0
    BY <2>2
  <2>4. PutLeaf(leaves, p) = [leaves EXCEPT ![first] = p]
    BY <1>1 DEF PutLeaf
  <2> HIDE DEF first
  <2> QED BY <2>3, <2>4
<1>2. CASE ~\E i \in DOMAIN leaves : leaves[i] = 0
  <2>1. PutLeaf(leaves, p) = Append(leaves, p)
    BY <1>2 DEF PutLeaf
  <2>2. Len(leaves) + 1 \in DOMAIN Append(leaves, p)
    OBVIOUS
  <2> QED BY <2>1, <2>2
<1> QED BY <1>1, <1>2

\* The fields of an epoch.
LEMMA EpochTyped ==
    ASSUME DocShape, NEW e \in DOMAIN epochs
    PROVE  /\ e \in Nat \ {0} /\ epochs[e] \in EpochRecord
           /\ epochs[e].number \in Nat /\ epochs[e].parent \in Nat /\ epochs[e].subject \in Nat
<1>1. e \in 1..Len(epochs) /\ Len(epochs) \in Nat
  BY DEF DocShape
<1>2. epochs[e] \in EpochRecord
  BY <1>1, ElementOfSeq DEF DocShape
<1> QED BY <1>1, <1>2 DEF EpochRecord

\* What a leaf of an epoch is, and who is in it.
LEMMA LeafTyped ==
    ASSUME DocShape, EpochsSound, NEW e \in DOMAIN epochs,
           NEW i \in DOMAIN epochs[e].leaves, epochs[e].leaves[i] # 0
    PROVE  /\ epochs[e].leaves[i] \in DOMAIN packages
           /\ CredentialIdentity(epochs[e].leaves[i]) \in User
<1>1. epochs[e].leaves[i] \in 0..Len(packages)
  BY DEF EpochsSound, LeavesSound
<1>2. epochs[e].leaves[i] \in DOMAIN packages
  BY <1>1 DEF DocShape
<1>3. packages[epochs[e].leaves[i]] \in Client
  BY <1>2 DEF DocShape
<1> QED BY <1>2, <1>3, MlsAssumption DEF CredentialIdentity

\* Members are the identities of the leaves.
LEMMA MembersHaveLeaves ==
    ASSUME NEW e, NEW u
    PROVE  u \in Members(e) <=> \E i \in DOMAIN epochs[e].leaves :
              epochs[e].leaves[i] # 0 /\ CredentialIdentity(epochs[e].leaves[i]) = u
  BY DEF Members, LeafSet

-----------------------------------------------------------------------------
(* What was made stays as it is.                                           *)

Grows ==
    /\ \A p \in DOMAIN packages : p \in DOMAIN packages' /\ packages'[p] = packages[p]
    /\ \A e \in DOMAIN epochs : e \in DOMAIN epochs' /\ epochs'[e] = epochs[e]
    /\ Len(packages) <= Len(packages') /\ Len(epochs) <= Len(epochs')

\* An epoch keeps its leaves and their identities.
LEMMA EpochStays ==
    ASSUME DocShape, EpochsSound, DocShape', Grows, NEW e \in DOMAIN epochs
    PROVE  LeavesSound(e)' /\ Members(e)' = Members(e)
<1>1. epochs'[e] = epochs[e] /\ LeavesSound(e)
  BY DEF Grows, EpochsSound
<1>2. \A i \in DOMAIN epochs[e].leaves : epochs[e].leaves[i] # 0 =>
         CredentialIdentity(epochs[e].leaves[i])' = CredentialIdentity(epochs[e].leaves[i])
  <2> SUFFICES ASSUME NEW i \in DOMAIN epochs[e].leaves, epochs[e].leaves[i] # 0
               PROVE  UserId[packages'[epochs'[e].leaves[i]]] = UserId[packages[epochs[e].leaves[i]]]
    BY DEF CredentialIdentity
  <2> QED BY <1>1, LeafTyped DEF Grows
<1>3. epochs[e].leaves \in Seq(0..Len(packages'))
  <2>1. Len(packages) \in Nat /\ Len(packages') \in Nat /\ Len(packages) <= Len(packages')
    BY DEF DocShape, Grows
  <2>2. 0..Len(packages) \subseteq 0..Len(packages')
    BY <2>1
  <2> QED BY <1>1, <2>2, SeqMonotonic DEF LeavesSound
<1>4. LeavesSound(e)'
  BY <1>1, <1>2, <1>3 DEF LeavesSound
<1>5. \A u : u \in Members(e)' <=> u \in Members(e)
  <2> SUFFICES ASSUME NEW u PROVE u \in Members(e)' <=> u \in Members(e)
    OBVIOUS
  <2>1. u \in Members(e)' <=> \E i \in DOMAIN epochs'[e].leaves :
              epochs'[e].leaves[i] # 0 /\ CredentialIdentity(epochs[e].leaves[i])' = u
    BY DEF Members, LeafSet
  <2> QED BY <1>1, <1>2, <2>1, MembersHaveLeaves
<1> QED BY <1>4, <1>5

-----------------------------------------------------------------------------
(* The steps of a document.                                                *)

\* What a client is at an epoch it has come to.
LEMMA GroupTyped ==
    ASSUME NEW e \in Nat, NEW p \in Nat, NEW u \in User, NEW b \in BOOLEAN
    PROVE  AtEpoch(e, p, u, b) \in GroupState /\ AtEpoch(e, p, u, b) # NoGroup
           /\ AtEpoch(e, p, u, b).epoch = e
  BY MlsAssumption DEF AtEpoch, GroupState

\* The owner of a group is read off a leaf that is there.
LEMMA LeafZeroTyped ==
    ASSUME DocShape, EpochsSound, NEW e \in DOMAIN epochs
    PROVE  LeafZero(e) \in User
<1>1. 1 \in DOMAIN epochs[e].leaves /\ epochs[e].leaves[1] # 0
  BY DEF EpochsSound, LeavesSound
<1> QED BY <1>1, LeafTyped DEF LeafZero

\* A group in memory is a record.
LEMMA GroupFields ==
    ASSUME DocInv, NEW c \in Client, group[c] # NoGroup
    PROVE  /\ group[c] \in GroupState /\ group[c].epoch \in DOMAIN epochs
           /\ group[c].leaf \in Nat /\ group[c].owner \in User
<1>1. group[c] \in GroupState
  BY DEF DocInv, DocShape
<1> QED BY <1>1 DEF GroupState, DocInv, GroupsSound

\* The epochs there were stay sound; only the new ones are left to show.
LEMMA OldEpochsStay ==
    ASSUME DocInv, DocShape', Grows,
           \A e \in DOMAIN epochs' : e \notin DOMAIN epochs => LeavesSound(e)'
    PROVE  EpochsSound'
  BY EpochStays DEF DocInv, EpochsSound

\* The group of one.
LEMMA CreateStep ==
    ASSUME DocInv, NEW c \in Client, ~Established(c), pending[c] = 0, DocCreate(c),
           link' = [link EXCEPT ![c] = "online"], WireShape
    PROVE  /\ Grows /\ DocInv' /\ Established(c)'
           /\ group'[c].epoch = Len(epochs) + 1 /\ Len(epochs') = Len(epochs) + 1
           /\ \A d \in Client \ {c} : group'[d] = group[d]
           /\ \A e : e = Len(epochs) + 1 =>
                 /\ Members(e)' = {UserId[c]}
                 /\ epochs'[e].parent = 0 /\ epochs'[e].number = 0 /\ epochs'[e].kind = "create"
<1> DEFINE p == Len(packages) + 1
           new == NewEpoch(0, 0, "create", p, p, <<p>>)
           g == AtEpoch(Len(epochs) + 1, p, UserId[c], TRUE)
<1>1. /\ packages' = Append(packages, c) /\ epochs' = Append(epochs, new)
      /\ group' = [group EXCEPT ![c] = g] /\ pending' = pending /\ disk' = disk
  BY DEF DocCreate, MlsCreate
<1>2. /\ packages \in Seq(Client) /\ epochs \in Seq(EpochRecord) /\ p \in Nat \ {0}
      /\ Len(packages) \in Nat /\ Len(epochs) \in Nat
  BY DEF DocInv, DocShape
<1>3. new \in EpochRecord /\ new.leaves = <<p>>
  BY <1>2 DEF NewEpoch, EpochRecord
<1>4. g \in GroupState /\ g # NoGroup /\ g.epoch = Len(epochs) + 1
  <2>1. UserId[c] \in User /\ Len(epochs) + 1 \in Nat /\ p \in Nat /\ TRUE \in BOOLEAN
    BY <1>2, MlsAssumption
  <2> HIDE DEF p
  <2> QED BY <2>1, GroupTyped
<1> HIDE DEF new, g
<1>5. DocShape'
  BY <1>1, <1>2, <1>3, <1>4 DEF DocInv, DocShape
<1>6. Grows /\ Len(epochs') = Len(epochs) + 1 /\ epochs'[Len(epochs) + 1] = new
  BY <1>1, <1>2, <1>3 DEF Grows
<1>7. ASSUME NEW e \in DOMAIN epochs', e \notin DOMAIN epochs
      PROVE  LeavesSound(e)'
  <2>1. epochs'[e].leaves = <<p>>
    BY <1>1, <1>2, <1>3, <1>7
  <2>2. p \in 0..Len(packages')
    BY <1>1, <1>2
  <2>3. <<p>> \in Seq(0..Len(packages')) /\ DOMAIN <<p>> = {1} /\ <<p>>[1] = p
    BY <2>2
  <2> QED BY <1>2, <2>1, <2>3 DEF LeavesSound
<1>8. EpochsSound'
  BY <1>5, <1>6, <1>7, OldEpochsStay
<1>9. GroupsSound'
  <2> SUFFICES ASSUME NEW d \in Client
               PROVE  /\ group'[d] # NoGroup => group'[d].epoch \in DOMAIN epochs'
                      /\ disk'[d] # NoGroup => disk'[d].epoch \in DOMAIN epochs'
    BY DEF GroupsSound
  <2>1. Len(epochs) + 1 \in DOMAIN epochs'
    BY <1>1, <1>2, <1>3
  <2> QED BY <1>1, <1>4, <1>6, <2>1 DEF DocInv, DocShape, GroupsSound, Grows
<1>10. PendingSound'
  BY <1>1, <1>4, <1>6 DEF DocInv, DocShape, PendingSound, Established, Grows, WireShape
<1>11. /\ Established(c)' /\ group'[c].epoch = Len(epochs) + 1
       /\ \A d \in Client \ {c} : group'[d] = group[d]
  BY <1>1, <1>4 DEF DocInv, DocShape, Established
<1>12. ASSUME NEW e, e = Len(epochs) + 1
       PROVE  epochs'[e] = new /\ Members(e)' = {UserId[c]}
  <2>1. epochs'[e] = new /\ epochs'[e].leaves = <<p>>
    BY <1>3, <1>6, <1>12
  <2>2. DOMAIN <<p>> = {1} /\ <<p>>[1] = p /\ p # 0 /\ packages'[p] = c
    BY <1>1, <1>2
  <2> QED BY <2>1, <2>2 DEF Members, LeafSet, CredentialIdentity
<1>13. new.parent = 0 /\ new.number = 0 /\ new.kind = "create"
  BY DEF new, NewEpoch
<1> QED BY <1>5, <1>6, <1>8, <1>9, <1>10, <1>11, <1>12, <1>13 DEF DocInv

\* A key package is made, and waits.
LEMMA KeyPackageStep ==
    ASSUME DocInv, NEW c \in Client, ~Established(c), DocGenerateKeyPackage(c),
           link' = [link EXCEPT ![c] = "online"], WireShape
    PROVE  Grows /\ DocInv' /\ Len(packages') = Len(packages) + 1 /\ pending'[c] # 0
<1>1. /\ packages' = Append(packages, c) /\ pending' = [pending EXCEPT ![c] = Len(packages) + 1]
      /\ UNCHANGED <<epochs, group, disk>>
  BY DEF DocGenerateKeyPackage, GenerateKeyPackage
<1>2. packages \in Seq(Client) /\ Len(packages) \in Nat
  BY DEF DocInv, DocShape
<1>3. DocShape' /\ Grows /\ Len(packages') = Len(packages) + 1 /\ pending'[c] # 0
  BY <1>1, <1>2 DEF DocInv, DocShape, Grows
<1>4. EpochsSound'
  BY <1>1, <1>3, OldEpochsStay
<1>5. GroupsSound'
  BY <1>1 DEF DocInv, GroupsSound
<1>6. PendingSound'
  <2> SUFFICES ASSUME NEW d \in Client
               PROVE  /\ pending'[d] # 0 => pending'[d] \in DOMAIN packages' /\ packages'[pending'[d]] = d
                      /\ pending'[d] # 0 => ~Established(d)
                      /\ link'[d] = "stopped" => pending'[d] = 0 /\ ~Established(d)
    BY <1>1 DEF PendingSound, Established
  <2>1. CASE d = c
    <3>1. pending'[d] = Len(packages) + 1
      BY <1>1, <2>1 DEF DocInv, DocShape
    <3>2. pending'[d] \in DOMAIN packages' /\ packages'[pending'[d]] = d
      BY <1>1, <1>2, <3>1, <2>1
    <3> QED BY <3>2, <2>1 DEF WireShape
  <2>2. CASE d # c
    BY <1>1, <1>3, <2>2 DEF DocInv, DocShape, PendingSound, Grows, WireShape
  <2> QED BY <2>1, <2>2
<1> QED BY <1>3, <1>4, <1>5, <1>6 DEF DocInv

\* A member is added whose identity is not in the group.
LEMMA AddStep ==
    ASSUME DocInv, NEW c \in Client, Established(c), NEW p \in DOMAIN packages,
           ~IsMember(c, CredentialIdentity(p)), DocCreateInvite(c, p), link' = link
    PROVE  /\ Grows /\ DocInv' /\ Established(c)'
           /\ group'[c].epoch = Len(epochs) + 1 /\ Len(epochs') = Len(epochs) + 1
           /\ \A d \in Client \ {c} : group'[d] = group[d]
           /\ \A e : e = Len(epochs) + 1 =>
                 /\ Members(e)' = Members(group[c].epoch) \cup {CredentialIdentity(p)}
                 /\ epochs'[e].parent = group[c].epoch /\ epochs'[e].kind = "add"
                 /\ epochs'[e].number = EpochNumber(c) + 1
                 /\ epochs'[e].by = group[c].leaf /\ epochs'[e].subject = p
<1> DEFINE g == group[c]
           old == epochs[g.epoch].leaves
           leaves == PutLeaf(old, p)
           new == NewEpoch(EpochNumber(c) + 1, g.epoch, "add", g.leaf, p, leaves)
           h == AtEpoch(Len(epochs) + 1, g.leaf, g.owner, TRUE)
<1>1. /\ packages' = packages /\ epochs' = Append(epochs, new)
      /\ group' = [group EXCEPT ![c] = h] /\ pending' = pending /\ disk' = disk
  BY DEF DocCreateInvite, AddMember, Commit
<1>2. /\ packages \in Seq(Client) /\ epochs \in Seq(EpochRecord) /\ p \in 1..Len(packages)
      /\ Len(packages) \in Nat /\ Len(epochs) \in Nat
  BY DEF DocInv, DocShape
<1>3. /\ g.epoch \in DOMAIN epochs /\ g.leaf \in Nat /\ g.owner \in User
  BY GroupFields DEF Established
<1>4. /\ old \in Seq(0..Len(packages)) /\ 1 \in DOMAIN old /\ old[1] # 0
      /\ LeavesSound(g.epoch)
  BY <1>3 DEF DocInv, EpochsSound, LeavesSound
<1>5. /\ leaves \in Seq(0..Len(packages)) /\ 1 \in DOMAIN leaves /\ leaves[1] = old[1]
      /\ \E k \in DOMAIN leaves :
            /\ leaves[k] = p
            /\ \A i \in DOMAIN leaves : i # k => i \in DOMAIN old /\ leaves[i] = old[i]
            /\ \A i \in DOMAIN old : old[i] # 0 => i # k /\ i \in DOMAIN leaves
  <2>1. Len(packages) \in Nat /\ p \in 1..Len(packages) /\ old \in Seq(0..Len(packages))
        /\ 1 \in DOMAIN old /\ old[1] # 0
    BY <1>2, <1>4
  <2> HIDE DEF old, g, new, h
  <2> QED BY ONLY <2>1, PutLeafAdds, ZenonT(40)
<1>6. PICK k \in DOMAIN leaves :
            /\ leaves[k] = p
            /\ \A i \in DOMAIN leaves : i # k => i \in DOMAIN old /\ leaves[i] = old[i]
            /\ \A i \in DOMAIN old : old[i] # 0 => i # k /\ i \in DOMAIN leaves
  BY <1>5
<1>7. new \in EpochRecord /\ new.leaves = leaves
  <2>1. leaves \in Seq(Nat)
    <3> HIDE DEF leaves
    <3> QED BY <1>5, <1>2, SeqMonotonic
  <2>2. EpochNumber(c) + 1 \in Nat /\ g.epoch \in Nat /\ p \in Nat
    BY <1>2, <1>3, EpochTyped DEF EpochNumber, DocInv
  <2> HIDE DEF leaves, g
  <2> QED BY <1>3, <2>1, <2>2 DEF NewEpoch, EpochRecord
<1>8. h \in GroupState /\ h # NoGroup /\ h.epoch = Len(epochs) + 1
  <2>1. Len(epochs) + 1 \in Nat /\ TRUE \in BOOLEAN
    BY <1>2
  <2> HIDE DEF g
  <2> QED BY <1>3, <2>1, GroupTyped
<1> HIDE DEF new, h, leaves, old, g
<1>9. DocShape' /\ Grows /\ Len(epochs') = Len(epochs) + 1
  BY <1>1, <1>2, <1>7, <1>8 DEF DocInv, DocShape, Grows
<1>10. \A i \in DOMAIN old : old[i] # 0 => CredentialIdentity(old[i]) # CredentialIdentity(p)
  <2>1. LeavesOf(g.epoch, CredentialIdentity(p)) = {}
    BY DEF IsMember, g
  <2> QED BY <2>1 DEF LeavesOf, old
<1>11. p # 0 /\ \A q : CredentialIdentity(q)' = CredentialIdentity(q)
  BY <1>1, <1>2 DEF CredentialIdentity
<1>12. ASSUME NEW i \in DOMAIN leaves, NEW j \in DOMAIN leaves, leaves[i] # 0, leaves[j] # 0,
              CredentialIdentity(leaves[i]) = CredentialIdentity(leaves[j])
       PROVE  i = j
  <2>1. CASE i = k /\ j # k
    BY <2>1, <1>6, <1>10, <1>12
  <2>2. CASE j = k /\ i # k
    BY <2>2, <1>6, <1>10, <1>12
  <2>3. CASE i # k /\ j # k
    BY <2>3, <1>4, <1>6, <1>12 DEF LeavesSound, old
  <2> QED BY <2>1, <2>2, <2>3
<1>13. EpochsSound'
  <2>1. ASSUME NEW e \in DOMAIN epochs', e \notin DOMAIN epochs
        PROVE  LeavesSound(e)'
    <3>1. epochs'[e].leaves = leaves
      BY <1>1, <1>2, <1>7, <2>1
    <3>2. /\ leaves \in Seq(0..Len(packages')) /\ 1 \in DOMAIN leaves /\ leaves[1] # 0
      BY <1>1, <1>4, <1>5
    <3> QED BY <1>11, <1>12, <3>1, <3>2 DEF LeavesSound
  <2> QED BY <1>9, <2>1, OldEpochsStay
<1>14. GroupsSound'
  <2>1. Len(epochs) + 1 \in DOMAIN epochs'
    BY <1>1, <1>2, <1>7
  <2> QED BY <1>1, <1>8, <1>9, <2>1 DEF DocInv, DocShape, GroupsSound, Grows
<1>15. /\ PendingSound' /\ Established(c)' /\ group'[c].epoch = Len(epochs) + 1
       /\ \A d \in Client \ {c} : group'[d] = group[d]
  <2>1. group'[c] = h
    BY <1>1 DEF DocInv, DocShape
  <2>2. \A d \in Client : Established(d)' <=> Established(d)
    BY <1>1, <1>8 DEF DocInv, DocShape, Established
  <2>3. \A d \in Client \ {c} : group'[d] = group[d]
    BY <1>1 DEF DocInv, DocShape
  <2> QED BY <1>1, <1>8, <2>1, <2>2, <2>3 DEF DocInv, PendingSound, Established
<1>16. ASSUME NEW e, e = Len(epochs) + 1
       PROVE  /\ epochs'[e] = new
              /\ Members(e)' = Members(group[c].epoch) \cup {CredentialIdentity(p)}
  <2>1. epochs'[e] = new /\ epochs'[e].leaves = leaves
    BY <1>1, <1>2, <1>7, <1>16
  <2>2. ASSUME NEW u
        PROVE  u \in Members(e)' <=> u \in Members(g.epoch) \/ u = CredentialIdentity(p)
    <3>1. u \in Members(g.epoch) <=>
             \E i \in DOMAIN old : old[i] # 0 /\ CredentialIdentity(old[i]) = u
      BY MembersHaveLeaves DEF old
    <3>2. u \in Members(e)' <=>
             \E i \in DOMAIN leaves : leaves[i] # 0 /\ UserId[packages'[leaves[i]]] = u
      BY <2>1 DEF Members, LeafSet, CredentialIdentity
    <3>3. u \in Members(e)' <=>
             \E i \in DOMAIN leaves : leaves[i] # 0 /\ CredentialIdentity(leaves[i]) = u
      BY <1>1, <3>2 DEF CredentialIdentity
    <3> HIDE DEF Members
    <3> QED BY <1>6, <1>11, <3>1, <3>3
  <2> QED BY <2>1, <2>2 DEF g
<1>17. /\ new.parent = g.epoch /\ new.kind = "add" /\ new.number = EpochNumber(c) + 1
       /\ new.by = g.leaf /\ new.subject = p
  BY DEF new, NewEpoch
<1> QED BY <1>9, <1>13, <1>14, <1>15, <1>16, <1>17 DEF DocInv, g

\* Nothing is made.
LEMMA NothingMade ==
    ASSUME DocInv, packages' = packages, epochs' = epochs,
           pending' \in [Client -> Nat],
           group' \in [Client -> GroupState \cup {NoGroup}],
           disk' \in [Client -> GroupState \cup {NoGroup}]
    PROVE  DocShape' /\ Grows /\ EpochsSound' /\ \A e : Members(e)' = Members(e)
<1>1. DocShape' /\ Grows
  BY DEF DocInv, DocShape, Grows
<1>2. EpochsSound'
  BY <1>1, OldEpochsStay
<1>3. \A e : Members(e)' = Members(e)
  BY DEF Members, LeafSet, CredentialIdentity
<1> QED BY <1>1, <1>2, <1>3

\* A Welcome is used, or not, and the pending member is gone.
LEMMA JoinStep ==
    ASSUME DocInv, NEW c \in Client, NEW e \in DOMAIN epochs, ~Established(c), DocJoin(c, e),
           link' = link
    PROVE  /\ Grows /\ DocInv' /\ packages' = packages /\ epochs' = epochs /\ disk' = disk
           /\ \A d \in Client \ {c} : group'[d] = group[d]
           /\ OpensWelcome(c, e) => group'[c] # NoGroup /\ group'[c].epoch = e
           /\ ~OpensWelcome(c, e) => group' = group
<1>1. /\ pending' = [pending EXCEPT ![c] = 0] /\ pending[c] # 0
      /\ UNCHANGED <<packages, epochs, disk>>
  BY DEF DocJoin, MlsJoin
<1>2. CASE OpensWelcome(c, e)
  <2> DEFINE g == AtEpoch(e, pending[c], LeafZero(e), TRUE)
  <2>1. group' = [group EXCEPT ![c] = g]
    BY <1>2 DEF DocJoin, MlsJoin
  <2>2. g \in GroupState /\ g # NoGroup /\ g.epoch = e
    <3>1. e \in Nat /\ pending[c] \in Nat /\ LeafZero(e) \in User /\ TRUE \in BOOLEAN
      BY LeafZeroTyped, EpochTyped DEF DocInv, DocShape
    <3> QED BY <3>1, GroupTyped
  <2> HIDE DEF g
  <2>3. DocShape' /\ Grows /\ EpochsSound'
    BY <1>1, <2>1, <2>2, NothingMade DEF DocInv, DocShape
  <2>4. GroupsSound'
    BY <1>1, <2>1, <2>2 DEF DocInv, DocShape, GroupsSound
  <2>5. PendingSound'
    BY <1>1, <2>1, <2>2 DEF DocInv, DocShape, PendingSound, Established
  <2>6. \A d \in Client : group'[d] = IF d = c THEN g ELSE group[d]
    BY <2>1 DEF DocInv, DocShape
  <2> QED BY <1>1, <1>2, <2>2, <2>3, <2>4, <2>5, <2>6 DEF DocInv
<1>3. CASE ~OpensWelcome(c, e)
  <2>1. group' = group
    BY <1>3 DEF DocJoin, MlsJoin
  <2>2. DocShape' /\ Grows /\ EpochsSound'
    BY <1>1, <2>1, NothingMade DEF DocInv, DocShape
  <2>3. GroupsSound' /\ PendingSound'
    BY <1>1, <2>1 DEF DocInv, DocShape, GroupsSound, PendingSound, Established
  <2> QED BY <1>1, <1>3, <2>1, <2>2, <2>3 DEF DocInv
<1> QED BY <1>2, <1>3

\* A member follows a commit.
LEMMA FollowStep ==
    ASSUME DocInv, NEW c \in Client, NEW e \in DOMAIN epochs, Established(c),
           DocProcessCommit(c, e), link' = link
    PROVE  /\ Grows /\ DocInv' /\ packages' = packages /\ epochs' = epochs /\ disk' = disk
           /\ group'[c] # NoGroup /\ group'[c].epoch = e
           /\ \A d \in Client \ {c} : group'[d] = group[d]
<1> DEFINE h == AtEpoch(e, group[c].leaf, group[c].owner, StaysIn(c, e))
<1>1. /\ group' = [group EXCEPT ![c] = h]
      /\ UNCHANGED <<packages, epochs, pending, disk>>
  BY DEF DocProcessCommit, ProcessCommit
<1>2. h \in GroupState /\ h # NoGroup /\ h.epoch = e
  <2>1. e \in Nat /\ group[c].leaf \in Nat /\ group[c].owner \in User
    BY GroupFields, EpochTyped DEF DocInv, Established
  <2>2. StaysIn(c, e) \in BOOLEAN
    BY DEF StaysIn
  <2> QED BY <2>1, <2>2, GroupTyped
<1> HIDE DEF h
<1>3. DocShape' /\ Grows /\ EpochsSound'
  BY <1>1, <1>2, NothingMade DEF DocInv, DocShape
<1>4. /\ group'[c] # NoGroup /\ group'[c].epoch = e
      /\ \A d \in Client \ {c} : group'[d] = group[d]
  BY <1>1, <1>2 DEF DocInv, DocShape
<1>5. GroupsSound'
  BY <1>1, <1>4 DEF DocInv, DocShape, GroupsSound
<1>6. PendingSound'
  BY <1>1, <1>4 DEF DocInv, DocShape, PendingSound, Established
<1> QED BY <1>1, <1>3, <1>4, <1>5, <1>6 DEF DocInv

\* A session stops, and has saved its group or not.
LEMMA StopStep ==
    ASSUME DocInv, WireShape, NEW c \in Client, StopSession(c)
    PROVE  /\ Grows /\ DocInv' /\ packages' = packages /\ epochs' = epochs
           /\ group'[c] = NoGroup /\ \A d \in Client \ {c} : group'[d] = group[d] /\ disk'[d] = disk[d]
           /\ WritesLand => disk'[c] = group[c]
<1>1. /\ group' = [group EXCEPT ![c] = NoGroup] /\ pending' = [pending EXCEPT ![c] = 0]
      /\ link' = [link EXCEPT ![c] = "stopped"] /\ UNCHANGED <<packages, epochs>>
  BY DEF StopSession
<1>2. disk' = [disk EXCEPT ![c] = group[c]] \/ disk' = disk
  BY DEF StopSession, Saved, Snapshot
<1>3. DocShape' /\ Grows /\ EpochsSound'
  <2>1. disk' \in [Client -> GroupState \cup {NoGroup}]
    BY <1>2 DEF DocInv, DocShape
  <2> QED BY <1>1, <2>1, NothingMade DEF DocInv, DocShape
<1>4. GroupsSound'
  BY <1>1, <1>2 DEF DocInv, DocShape, GroupsSound
<1>5. PendingSound'
  BY <1>1 DEF DocInv, DocShape, PendingSound, Established, WireShape
<1>6. group'[c] = NoGroup /\ \A d \in Client \ {c} : group'[d] = group[d] /\ disk'[d] = disk[d]
  BY <1>1, <1>2 DEF DocInv, DocShape
<1>7. WritesLand => disk'[c] = group[c]
  <2>1. WritesLand => disk' = [disk EXCEPT ![c] = group[c]]
    BY DEF StopSession, Saved, Snapshot
  <2> QED BY <2>1 DEF DocInv, DocShape
<1> QED BY <1>1, <1>3, <1>4, <1>5, <1>6, <1>7 DEF DocInv

\* A session starts, from its snapshot if there is one.
LEMMA ReturnStep ==
    ASSUME DocInv, WireShape, NEW c \in Client, StartSession(c)
    PROVE  /\ Grows /\ DocInv' /\ packages' = packages /\ epochs' = epochs /\ disk' = disk
           /\ \A d \in Client \ {c} : group'[d] = group[d]
           /\ disk[c] = NoGroup => group' = group
           /\ disk[c] # NoGroup => group'[c] # NoGroup /\ group'[c].epoch = disk[c].epoch
<1>1. link[c] = "stopped" /\ link' = [link EXCEPT ![c] = "offline"] /\ RestoreSlot(c, 0)
  BY DEF StartSession
<1>2. CASE disk[c] = NoGroup
  <2>1. UNCHANGED <<packages, epochs, group, pending, disk>>
    BY <1>1, <1>2 DEF RestoreSlot, docVars, mlsVars
  <2>2. DocShape' /\ Grows /\ EpochsSound'
    BY <2>1, NothingMade DEF DocInv, DocShape
  <2>3. GroupsSound' /\ PendingSound'
    BY <1>1, <2>1 DEF DocInv, DocShape, GroupsSound, PendingSound, Established, WireShape
  <2> QED BY <1>2, <2>1, <2>2, <2>3 DEF DocInv
<1>3. CASE disk[c] # NoGroup
  <2> DEFINE g == Restored(disk[c])
  <2>1. disk[c] \in GroupState /\ disk[c].epoch \in DOMAIN epochs
    BY <1>3 DEF DocInv, DocShape, GroupsSound
  <2>2. IsFresh(disk[c], 0)
    BY <2>1, EpochTyped DEF IsFresh, DocInv
  <2>3. group' = [group EXCEPT ![c] = g] /\ UNCHANGED <<packages, epochs, pending, disk>>
    BY <1>1, <1>3, <2>2 DEF RestoreSlot, RestoreEncrypted
  <2>4. g \in GroupState /\ g # NoGroup /\ g.epoch = disk[c].epoch
    BY <2>1, LeafZeroTyped, MlsAssumption DEF Restored, FromParts, GroupState, DocInv
  <2> HIDE DEF g
  <2>5. DocShape' /\ Grows /\ EpochsSound'
    BY <2>3, <2>4, NothingMade DEF DocInv, DocShape
  <2>6. GroupsSound'
    BY <2>1, <2>3, <2>4 DEF DocInv, DocShape, GroupsSound
  <2>7. PendingSound'
    BY <1>1, <2>3, <2>4 DEF DocInv, DocShape, PendingSound, Established, WireShape
  <2>8. \A d \in Client : group'[d] = IF d = c THEN g ELSE group[d]
    BY <2>3 DEF DocInv, DocShape
  <2> QED BY <1>3, <2>3, <2>4, <2>5, <2>6, <2>7, <2>8 DEF DocInv
<1> QED BY <1>2, <1>3

\* A pending member is freed.
LEMMA ExpireStep ==
    ASSUME DocInv, NEW c \in Client, ExpireJoin(c)
    PROVE  Grows /\ DocInv'
<1>1. /\ pending' = [pending EXCEPT ![c] = 0]
      /\ UNCHANGED <<packages, epochs, group, disk, link>>
  BY DEF ExpireJoin
<1>2. DocShape' /\ Grows /\ EpochsSound'
  BY <1>1, NothingMade DEF DocInv, DocShape
<1>3. GroupsSound' /\ PendingSound'
  BY <1>1 DEF DocInv, DocShape, GroupsSound, PendingSound, Established
<1> QED BY <1>2, <1>3 DEF DocInv

\* The documents stay as they are, and no session stops.
LEMMA StillStep ==
    ASSUME DocInv, WireShape, UNCHANGED docVars,
           \A c \in Client : link'[c] = link[c] \/ link'[c] # "stopped"
    PROVE  Grows /\ DocInv'
<1>1. UNCHANGED <<packages, epochs, group, pending, disk>>
  BY DEF docVars, mlsVars
<1>2. DocShape' /\ Grows /\ EpochsSound'
  BY <1>1, NothingMade DEF DocInv, DocShape
<1>3. GroupsSound' /\ PendingSound'
  BY <1>1 DEF DocInv, DocShape, GroupsSound, PendingSound, Established
<1> QED BY <1>2, <1>3 DEF DocInv

-----------------------------------------------------------------------------
(* Frames.                                                                 *)

Elements(s) == {s[i] : i \in DOMAIN s}

\* Only the owner registers, commits and welcomes, and only the others ask to
\* be let in; what a frame names was made.
WireFrame(c, f) ==
    /\ f.type = "key_package" => c # Owner /\ f.e \in DOMAIN packages
    /\ f.type \in {"register", "commit", "welcome"} => c = Owner /\ f.e \in DOMAIN epochs
    /\ f.type = "subscribe" => f.e \in 0..Len(epochs)

\* The relay fans out handshakes only, to the others.
InboxFrame(c, f) ==
    /\ f.type \in Handshakes
    /\ c = Owner => f.type = "key_package"
    /\ f.type = "key_package" => f.e \in DOMAIN packages
    /\ f.type # "key_package" => f.e \in DOMAIN epochs

FramesSound ==
    /\ \A c \in Client : \A f \in Elements(wire[c]) : WireFrame(c, f)
    /\ \A c \in Client : \A f \in Elements(inbox[c]) : InboxFrame(c, f)
    /\ anchor <= Len(epochs)
    /\ \A c \in Client : authorized[c] <= Len(epochs)

BaseInv == DocInv /\ WireShape /\ FramesSound

\* What a sequence is made of, after each of the operations on it.
LEMMA ElementsOfConcat ==
    ASSUME NEW S, NEW s \in Seq(S), NEW t \in Seq(S)
    PROVE  s \o t \in Seq(S) /\ Elements(s \o t) = Elements(s) \cup Elements(t)
<1>1. /\ s \o t \in Seq(S) /\ Len(s \o t) = Len(s) + Len(t)
      /\ \A i \in 1..Len(s) + Len(t) :
            (s \o t)[i] = IF i <= Len(s) THEN s[i] ELSE t[i - Len(s)]
  BY ConcatProperties
<1>2. Len(s) \in Nat /\ Len(t) \in Nat /\ DOMAIN s = 1..Len(s) /\ DOMAIN t = 1..Len(t)
      /\ DOMAIN (s \o t) = 1..Len(s) + Len(t)
  BY <1>1, LenProperties
<1>3. ASSUME NEW x \in Elements(s \o t) PROVE x \in Elements(s) \cup Elements(t)
  <2>1. PICK i \in 1..Len(s) + Len(t) : x = (s \o t)[i]
    BY <1>2 DEF Elements
  <2>2. CASE i <= Len(s)
    BY <1>1, <1>2, <2>1, <2>2 DEF Elements
  <2>3. CASE ~(i <= Len(s))
    <3>1. i - Len(s) \in 1..Len(t) /\ x = t[i - Len(s)]
      BY <1>1, <1>2, <2>1, <2>3
    <3> QED BY <1>2, <3>1 DEF Elements
  <2> QED BY <2>2, <2>3
<1>4. ASSUME NEW x \in Elements(s) PROVE x \in Elements(s \o t)
  <2>1. PICK i \in 1..Len(s) : x = s[i]
    BY <1>2 DEF Elements
  <2>2. i \in 1..Len(s) + Len(t) /\ (s \o t)[i] = x
    BY <1>1, <1>2, <2>1
  <2> QED BY <1>2, <2>2 DEF Elements
<1>5. ASSUME NEW x \in Elements(t) PROVE x \in Elements(s \o t)
  <2>1. PICK i \in 1..Len(t) : x = t[i]
    BY <1>2 DEF Elements
  <2>2. i + Len(s) \in 1..Len(s) + Len(t) /\ (s \o t)[i + Len(s)] = x
    BY <1>1, <1>2, <2>1
  <2> QED BY <1>2, <2>2 DEF Elements
<1> QED BY <1>1, <1>3, <1>4, <1>5

LEMMA ElementsOfAppend ==
    ASSUME NEW S, NEW s \in Seq(S), NEW x \in S
    PROVE  Append(s, x) \in Seq(S) /\ Elements(Append(s, x)) \subseteq Elements(s) \cup {x}
<1>1. /\ Append(s, x) \in Seq(S) /\ DOMAIN Append(s, x) = 1..Len(s) + 1 /\ DOMAIN s = 1..Len(s)
      /\ \A i \in 1..Len(s) + 1 : Append(s, x)[i] = IF i = Len(s) + 1 THEN x ELSE s[i]
  OBVIOUS
<1>2. ASSUME NEW y \in Elements(Append(s, x)) PROVE y \in Elements(s) \cup {x}
  <2>1. PICK i \in 1..Len(s) + 1 : y = IF i = Len(s) + 1 THEN x ELSE s[i]
    BY <1>1 DEF Elements
  <2>2. CASE i = Len(s) + 1
    BY <2>1, <2>2
  <2>3. CASE i # Len(s) + 1
    <3>1. i \in DOMAIN s /\ y = s[i]
      BY <1>1, <2>1, <2>3
    <3> QED BY <3>1 DEF Elements
  <2> QED BY <2>2, <2>3
<1> QED BY <1>1, <1>2

LEMMA ElementsOfTail ==
    ASSUME NEW S, NEW s \in Seq(S), s # <<>>
    PROVE  /\ Tail(s) \in Seq(S) /\ Elements(Tail(s)) \subseteq Elements(s)
           /\ Head(s) \in Elements(s) /\ Head(s) \in S
<1>1. /\ Head(s) \in S /\ Tail(s) \in Seq(S) /\ Len(Tail(s)) = Len(s) - 1
      /\ \A i \in 1..Len(Tail(s)) : Tail(s)[i] = s[i + 1]
  BY HeadTailProperties
<1>2. Len(s) \in Nat \ {0} /\ DOMAIN s = 1..Len(s) /\ DOMAIN Tail(s) = 1..Len(Tail(s))
  BY <1>1, LenProperties, EmptySeq
<1>3. Head(s) \in Elements(s)
  BY <1>2 DEF Elements
<1>4. ASSUME NEW x \in Elements(Tail(s)) PROVE x \in Elements(s)
  <2>1. PICK i \in 1..Len(Tail(s)) : x = Tail(s)[i]
    BY <1>2 DEF Elements
  <2>2. i + 1 \in DOMAIN s /\ x = s[i + 1]
    BY <1>1, <1>2, <2>1
  <2> QED BY <2>2 DEF Elements
<1> QED BY <1>1, <1>3, <1>4

LEMMA ElementsOfSub ==
    ASSUME NEW S, NEW s \in Seq(S), NEW m \in 1..Len(s) + 1, NEW n \in 0..Len(s)
    PROVE  SubSeq(s, m, n) \in Seq(S) /\ Elements(SubSeq(s, m, n)) \subseteq Elements(s)
<1>1. Len(s) \in Nat /\ DOMAIN s = 1..Len(s) /\ \A i \in m..n : s[i] \in S
  BY LenProperties, ElementOfSeq
<1>2. /\ SubSeq(s, m, n) \in Seq(S)
      /\ Len(SubSeq(s, m, n)) = IF m <= n THEN n - m + 1 ELSE 0
      /\ \A i \in 1..n - m + 1 : SubSeq(s, m, n)[i] = s[m + i - 1]
  BY <1>1, SubSeqProperties
<1>3. DOMAIN SubSeq(s, m, n) = 1..Len(SubSeq(s, m, n))
  BY <1>2, LenProperties
<1>4. ASSUME NEW x \in Elements(SubSeq(s, m, n)) PROVE x \in Elements(s)
  <2>1. PICK i \in DOMAIN SubSeq(s, m, n) : x = SubSeq(s, m, n)[i]
    BY DEF Elements
  <2>2. m <= n /\ i \in 1..n - m + 1
    BY <1>2, <1>3
  <2>3. m + i - 1 \in DOMAIN s /\ x = s[m + i - 1]
    BY <1>1, <1>2, <2>1, <2>2
  <2> QED BY <2>3 DEF Elements
<1> QED BY <1>2, <1>4

\* The lists of frames that clients send.
LEMMA FewFrames ==
    ASSUME NEW S
    PROVE  /\ \A a \in S : <<a>> \in Seq(S) /\ Elements(<<a>>) = {a}
           /\ \A a, b \in S : <<a, b>> \in Seq(S) /\ Elements(<<a, b>>) = {a, b}
           /\ \A a, b, c \in S : <<a, b, c>> \in Seq(S) /\ Elements(<<a, b, c>>) = {a, b, c}
           /\ \A a, b, c, d \in S :
                 <<a, b, c, d>> \in Seq(S) /\ Elements(<<a, b, c, d>>) = {a, b, c, d}
<1>1. ASSUME NEW a \in S PROVE <<a>> \in Seq(S) /\ Elements(<<a>>) = {a}
  <2>1. DOMAIN <<a>> = {1} /\ <<a>>[1] = a
    OBVIOUS
  <2> QED BY <2>1 DEF Elements
<1>2. ASSUME NEW a \in S, NEW b \in S
      PROVE  <<a, b>> \in Seq(S) /\ Elements(<<a, b>>) = {a, b}
  <2>1. DOMAIN <<a, b>> = {1, 2} /\ <<a, b>>[1] = a /\ <<a, b>>[2] = b
    OBVIOUS
  <2>2. Elements(<<a, b>>) = {a, b}
    BY <2>1 DEF Elements
  <2> QED BY <2>2
<1>3. ASSUME NEW a \in S, NEW b \in S, NEW c \in S
      PROVE  <<a, b, c>> \in Seq(S) /\ Elements(<<a, b, c>>) = {a, b, c}
  <2>1. DOMAIN <<a, b, c>> = {1, 2, 3} /\ <<a, b, c>>[1] = a /\ <<a, b, c>>[2] = b /\ <<a, b, c>>[3] = c
    OBVIOUS
  <2>2. Elements(<<a, b, c>>) = {a, b, c}
    BY <2>1 DEF Elements
  <2> QED BY <2>2
<1>4. ASSUME NEW a \in S, NEW b \in S, NEW c \in S, NEW d \in S
      PROVE  <<a, b, c, d>> \in Seq(S) /\ Elements(<<a, b, c, d>>) = {a, b, c, d}
  <2>1. /\ DOMAIN <<a, b, c, d>> = {1, 2, 3, 4} /\ <<a, b, c, d>>[1] = a
        /\ <<a, b, c, d>>[2] = b /\ <<a, b, c, d>>[3] = c /\ <<a, b, c, d>>[4] = d
    OBVIOUS
  <2>2. Elements(<<a, b, c, d>>) = {a, b, c, d}
    BY <2>1 DEF Elements
  <2> QED BY <2>2
<1> QED BY <1>1, <1>2, <1>3, <1>4

LEMMA FrameTyped ==
    ASSUME NEW t \in {"register", "subscribe", "key_package", "commit", "welcome"}, NEW e \in Nat
    PROVE  Frame(t, e) \in FrameRecord /\ Frame(t, e).type = t /\ Frame(t, e).e = e
  BY DEF Frame, FrameRecord

LEMMA SendAdds ==
    ASSUME WireShape, NEW c \in Client, NEW frames \in Seq(FrameRecord), Send(c, frames)
    PROVE  /\ wire' \in [Client -> Seq(FrameRecord)]
           /\ \A d \in Client \ {c} : wire'[d] = wire[d]
           /\ wire'[c] = wire[c] \o frames
           /\ Elements(wire'[c]) = Elements(wire[c]) \cup Elements(frames)
<1>1. wire \in [Client -> Seq(FrameRecord)] /\ wire' = [wire EXCEPT ![c] = wire[c] \o frames]
  BY DEF WireShape, Send
<1>2. /\ wire[c] \o frames \in Seq(FrameRecord)
      /\ Elements(wire[c] \o frames) = Elements(wire[c]) \cup Elements(frames)
  BY <1>1, ElementsOfConcat
<1> QED BY <1>1, <1>2

\* Frames that were there stay sound; only the new ones are left to show.
LEMMA FramesStay ==
    ASSUME BaseInv, DocShape', Grows, WireShape',
           \A c \in Client : \A f \in Elements(wire'[c]) : f \in Elements(wire[c]) \/ WireFrame(c, f)',
           \A c \in Client : \A f \in Elements(inbox'[c]) : f \in Elements(inbox[c]) \/ InboxFrame(c, f)',
           anchor' <= Len(epochs) \/ anchor' <= Len(epochs'),
           \A c \in Client : authorized'[c] <= Len(epochs) \/ authorized'[c] <= Len(epochs')
    PROVE  FramesSound'
<1>1. /\ Len(epochs) \in Nat /\ Len(epochs') \in Nat /\ Len(epochs) <= Len(epochs')
      /\ DOMAIN packages \subseteq DOMAIN packages' /\ DOMAIN epochs \subseteq DOMAIN epochs'
  BY DEF BaseInv, DocInv, DocShape, Grows
<1>2. ASSUME NEW c \in Client, NEW f \in Elements(wire'[c]) PROVE WireFrame(c, f)'
  <2>1. CASE f \in Elements(wire[c])
    BY <1>1, <2>1 DEF BaseInv, FramesSound, WireFrame
  <2> QED BY <2>1
<1>3. ASSUME NEW c \in Client, NEW f \in Elements(inbox'[c]) PROVE InboxFrame(c, f)'
  <2>1. CASE f \in Elements(inbox[c])
    BY <1>1, <2>1 DEF BaseInv, FramesSound, InboxFrame
  <2> QED BY <2>1
<1>4. anchor' <= Len(epochs') /\ \A c \in Client : authorized'[c] <= Len(epochs')
  <2>1. anchor' \in Nat /\ \A c \in Client : authorized'[c] \in Nat
    BY DEF WireShape
  <2> QED BY <1>1, <2>1
<1> QED BY <1>2, <1>3, <1>4 DEF FramesSound

-----------------------------------------------------------------------------
(* What is made is sound, whatever is lost.                                *)

\* What a client presents is of its own group, or of none.
LEMMA SubscribeTyped ==
    ASSUME DocInv, NEW c \in Client
    PROVE  /\ SubscribeFrame(group[c]) \in FrameRecord
           /\ SubscribeFrame(group[c]).type = "subscribe"
           /\ SubscribeFrame(group[c]).e \in 0..Len(epochs)
           /\ SubscribeFrame(NoGroup) = Frame("subscribe", 0)
<1>1. CASE group[c] = NoGroup
  <2>1. SubscribeFrame(group[c]) = Frame("subscribe", 0) /\ 0 \in 0..Len(epochs)
    BY <1>1 DEF SubscribeFrame, DocInv, DocShape
  <2> QED BY <2>1, FrameTyped DEF SubscribeFrame
<1>2. CASE group[c] # NoGroup
  <2>1. /\ SubscribeFrame(group[c]) = Frame("subscribe", group[c].epoch)
        /\ group[c].epoch \in Nat /\ group[c].epoch \in 0..Len(epochs)
    BY <1>2, GroupFields, EpochTyped
       DEF SubscribeFrame, MintSubscribeCapability, SubscribeKey, DocInv, DocShape
  <2> QED BY <2>1, FrameTyped DEF SubscribeFrame
<1> QED BY <1>1, <1>2

\* What a connecting client sends, by what it has.
LEMMA ConnectSends ==
    ASSUME BaseInv, NEW c \in Client, Connect(c)
    PROVE  /\ link[c] = "offline" /\ link' = [link EXCEPT ![c] = "online"]
           /\ Grows /\ DocInv' /\ disk' = disk
           /\ UNCHANGED <<inbox, relayVars, faults>>
           /\ \/ /\ Established(c) \/ pending[c] # 0
                 /\ UNCHANGED docVars
                 /\ Send(c, <<SubscribeFrame(group[c])>>)
              \/ /\ ~Established(c) /\ pending[c] = 0 /\ c = Owner
                 /\ DocCreate(c)
                 /\ \A e : e = Len(epochs) + 1 =>
                       Send(c, <<Frame("subscribe", 0), Frame("register", e), Frame("subscribe", e)>>)
              \/ /\ ~Established(c) /\ pending[c] = 0 /\ c # Owner
                 /\ DocGenerateKeyPackage(c)
                 /\ \A p : p = Len(packages) + 1 =>
                       Send(c, <<Frame("subscribe", 0), Frame("key_package", p)>>)
<1>1. /\ link[c] = "offline" /\ link' = [link EXCEPT ![c] = "online"]
      /\ UNCHANGED <<inbox, relayVars, faults>>
  BY DEF Connect
<1>2. DocInv /\ WireShape /\ link \in [Client -> {"stopped", "offline", "online"}]
  BY DEF BaseInv, WireShape
<1>3. SubscribeFrame(NoGroup) = Frame("subscribe", 0)
  BY DEF SubscribeFrame
<1>4. CASE (Established(c) \/ pending[c] # 0) /\ Send(c, <<SubscribeFrame(group[c])>>) /\ UNCHANGED docVars
  <2>1. \A d \in Client : link'[d] = link[d] \/ link'[d] # "stopped"
    BY <1>1, <1>2
  <2> QED BY <1>1, <1>2, <1>4, <2>1, StillStep DEF docVars
<1>5. CASE /\ ~Established(c) /\ pending[c] = 0 /\ c = Owner /\ DocCreate(c)
           /\ Send(c, <<SubscribeFrame(NoGroup), RegisterFrame(group'[c]), SubscribeFrame(group'[c])>>)
  <2>1. Grows /\ DocInv' /\ group'[c] # NoGroup /\ group'[c].epoch = Len(epochs) + 1
    BY <1>1, <1>2, <1>5, CreateStep DEF Established
  <2>2. /\ RegisterFrame(group'[c]) = Frame("register", group'[c].epoch)
        /\ SubscribeFrame(group'[c]) = Frame("subscribe", group'[c].epoch)
    BY <2>1 DEF RegisterFrame, SubscribeFrame, SignDocKeyProof, MintSubscribeCapability, SubscribeKey
  <2>3. disk' = disk
    BY <1>5 DEF DocCreate
  <2> QED BY <1>1, <1>3, <1>5, <2>1, <2>2, <2>3
<1>6. CASE /\ ~Established(c) /\ pending[c] = 0 /\ c # Owner /\ DocGenerateKeyPackage(c)
           /\ Send(c, <<SubscribeFrame(NoGroup), Frame("key_package", Len(packages) + 1)>>)
  <2>1. Grows /\ DocInv'
    BY <1>1, <1>2, <1>6, KeyPackageStep
  <2>2. disk' = disk
    BY <1>6 DEF DocGenerateKeyPackage
  <2> QED BY <1>1, <1>3, <1>6, <2>1, <2>2
<1> QED BY <1>4, <1>5, <1>6 DEF Connect

LEMMA ConnectKeepsBase ==
    ASSUME BaseInv, NEW c \in Client, Connect(c)
    PROVE  Grows /\ BaseInv'
<1>1. DocInv /\ WireShape /\ Grows /\ DocInv' /\ DocShape'
  BY ConnectSends DEF BaseInv, DocInv
<1>2. /\ Len(epochs) \in Nat /\ Len(packages) \in Nat /\ Len(epochs') \in Nat
      /\ 0 \in 0..Len(epochs') /\ Len(epochs) + 1 \in Nat
  BY <1>1 DEF DocShape, DocInv
<1>3. \E frames \in Seq(FrameRecord) :
          Send(c, frames) /\ \A f \in Elements(frames) : WireFrame(c, f)'
  <2>1. CASE Send(c, <<SubscribeFrame(group[c])>>) /\ UNCHANGED docVars
    <3>0. epochs' = epochs
      BY <2>1 DEF docVars, mlsVars
    <3>1. PICK a \in FrameRecord :
             a = SubscribeFrame(group[c]) /\ a.type = "subscribe" /\ a.e \in 0..Len(epochs)
      BY <1>1, SubscribeTyped
    <3>2. <<a>> \in Seq(FrameRecord) /\ Elements(<<a>>) = {a}
      BY <3>1, FewFrames
    <3>3. WireFrame(c, a)'
      BY <3>0, <3>1 DEF WireFrame
    <3> QED BY <2>1, <3>1, <3>2, <3>3
  <2>2. CASE /\ ~Established(c) /\ pending[c] = 0 /\ c = Owner /\ DocCreate(c)
             /\ \A e : e = Len(epochs) + 1 =>
                   Send(c, <<Frame("subscribe", 0), Frame("register", e), Frame("subscribe", e)>>)
    <3>1. PICK e \in Nat : e = Len(epochs) + 1
      BY <1>2
    <3>2. PICK x, y, z \in FrameRecord :
             /\ x = Frame("subscribe", 0) /\ y = Frame("register", e) /\ z = Frame("subscribe", e)
             /\ x.type = "subscribe" /\ x.e = 0 /\ y.type = "register" /\ y.e = e
             /\ z.type = "subscribe" /\ z.e = e
      BY FrameTyped
    <3>3. Len(epochs') = Len(epochs) + 1 /\ e \in DOMAIN epochs'
      <4>1. Len(epochs') = Len(epochs) + 1
        BY <1>1, <2>2, CreateStep, ConnectSends
      <4> QED BY <1>1, <1>2, <3>1, <4>1 DEF DocShape
    <3>4. WireFrame(c, x)' /\ WireFrame(c, y)' /\ WireFrame(c, z)'
      BY <1>2, <2>2, <3>1, <3>2, <3>3 DEF WireFrame
    <3>5. <<x, y, z>> \in Seq(FrameRecord) /\ Elements(<<x, y, z>>) = {x, y, z}
      BY FewFrames
    <3> QED BY <2>2, <3>1, <3>2, <3>4, <3>5
  <2>3. CASE /\ ~Established(c) /\ pending[c] = 0 /\ c # Owner /\ DocGenerateKeyPackage(c)
             /\ \A p : p = Len(packages) + 1 =>
                   Send(c, <<Frame("subscribe", 0), Frame("key_package", p)>>)
    <3>1. PICK p \in Nat : p = Len(packages) + 1
      BY <1>2
    <3>2. PICK x, y \in FrameRecord :
             /\ x = Frame("subscribe", 0) /\ y = Frame("key_package", p)
             /\ x.type = "subscribe" /\ x.e = 0 /\ y.type = "key_package" /\ y.e = p
      BY FrameTyped
    <3>3. p \in DOMAIN packages'
      <4>1. Len(packages') = Len(packages) + 1
        BY <1>1, <2>3, KeyPackageStep, ConnectSends
      <4> QED BY <1>1, <1>2, <3>1, <4>1 DEF DocShape
    <3>4. WireFrame(c, x)' /\ WireFrame(c, y)'
      BY <1>2, <2>3, <3>2, <3>3 DEF WireFrame
    <3>5. <<x, y>> \in Seq(FrameRecord) /\ Elements(<<x, y>>) = {x, y}
      BY FewFrames
    <3> QED BY <2>3, <3>1, <3>2, <3>4, <3>5
  <2> QED BY <2>1, <2>2, <2>3, ConnectSends
<1>4. PICK frames \in Seq(FrameRecord) :
          Send(c, frames) /\ \A f \in Elements(frames) : WireFrame(c, f)'
  BY <1>3
<1>5. /\ wire' \in [Client -> Seq(FrameRecord)]
      /\ \A d \in Client \ {c} : wire'[d] = wire[d]
      /\ Elements(wire'[c]) = Elements(wire[c]) \cup Elements(frames)
  BY <1>1, <1>4, SendAdds
<1>6. WireShape'
  BY <1>1, <1>5, ConnectSends DEF WireShape, relayVars
<1>7. FramesSound'
  <2>1. \A d \in Client : \A f \in Elements(wire'[d]) : f \in Elements(wire[d]) \/ WireFrame(d, f)'
    BY <1>4, <1>5
  <2>2. inbox' = inbox /\ anchor' = anchor /\ authorized' = authorized
    BY ConnectSends DEF relayVars
  <2>3. anchor' <= Len(epochs) /\ \A d \in Client : authorized'[d] <= Len(epochs)
    BY <2>2 DEF BaseInv, FramesSound
  <2> QED BY <1>1, <1>6, <2>1, <2>2, <2>3, FramesStay
<1> QED BY <1>1, <1>6, <1>7 DEF BaseInv

\* The relay takes the first frame of a client.
LEMMA RelayTakes ==
    ASSUME BaseInv, NEW c \in Client, RelayHandle(c)
    PROVE  /\ wire[c] # <<>> /\ Head(wire[c]) \in FrameRecord /\ WireFrame(c, Head(wire[c]))
           /\ wire' = [wire EXCEPT ![c] = Tail(wire[c])] /\ wire' \in [Client -> Seq(FrameRecord)]
           /\ \A d \in Client : Elements(wire'[d]) \subseteq Elements(wire[d])
           /\ UNCHANGED <<docVars, link, faults>>
<1>1. wire[c] # <<>> /\ wire' = [wire EXCEPT ![c] = Tail(wire[c])] /\ UNCHANGED <<docVars, link, faults>>
  BY DEF RelayHandle
<1>2. wire \in [Client -> Seq(FrameRecord)] /\ wire[c] \in Seq(FrameRecord)
  BY DEF BaseInv, WireShape
<1>3. /\ Tail(wire[c]) \in Seq(FrameRecord) /\ Elements(Tail(wire[c])) \subseteq Elements(wire[c])
      /\ Head(wire[c]) \in Elements(wire[c]) /\ Head(wire[c]) \in FrameRecord
  BY <1>1, <1>2, ElementsOfTail
<1>4. WireFrame(c, Head(wire[c]))
  BY <1>3 DEF BaseInv, FramesSound
<1> QED BY <1>1, <1>2, <1>3, <1>4

\* A handshake is fanned out.
LEMMA FanOutTyped ==
    ASSUME WireShape, NEW S \in SUBSET Client, NEW f \in FrameRecord,
           inbox' = [d \in Client |-> IF d \in S THEN Append(inbox[d], f) ELSE inbox[d]]
    PROVE  /\ inbox' \in [Client -> Seq(FrameRecord)]
           /\ \A d \in Client : Elements(inbox'[d]) \subseteq
                 Elements(inbox[d]) \cup (IF d \in S THEN {f} ELSE {})
<1>1. ASSUME NEW d \in Client
      PROVE  /\ inbox[d] \in Seq(FrameRecord) /\ Append(inbox[d], f) \in Seq(FrameRecord)
             /\ Elements(Append(inbox[d], f)) \subseteq Elements(inbox[d]) \cup {f}
  BY ElementsOfAppend DEF WireShape
<1> QED BY <1>1

LEMMA RelayKeepsBase ==
    ASSUME BaseInv, NEW c \in Client, RelayHandle(c)
    PROVE  Grows /\ BaseInv'
<1> DEFINE f == Head(wire[c])
<1>1. /\ f \in FrameRecord /\ WireFrame(c, f) /\ wire' \in [Client -> Seq(FrameRecord)]
      /\ \A d \in Client : Elements(wire'[d]) \subseteq Elements(wire[d])
      /\ UNCHANGED <<docVars, link, faults>>
  BY RelayTakes
<1>2. DocInv /\ WireShape /\ FramesSound
  BY DEF BaseInv
<1>3. Grows /\ DocInv' /\ DocShape'
  BY <1>1, <1>2, StillStep DEF DocInv
<1>4. epochs' = epochs /\ packages' = packages /\ Len(epochs) \in Nat /\ DOMAIN epochs = 1..Len(epochs)
  BY <1>1, <1>2 DEF docVars, mlsVars, DocInv, DocShape
<1>5. f.e \in Nat /\ f.type \in {"register", "subscribe", "key_package", "commit", "welcome"}
  BY <1>1 DEF FrameRecord
<1>6. CASE /\ f.type = "register" /\ UNCHANGED <<subscribers, authorized, inbox>>
           /\ anchor' = f.e \/ anchor' = anchor
  <2>1. f.e <= Len(epochs)
    BY <1>1, <1>4, <1>6 DEF WireFrame
  <2>2. WireShape'
    BY <1>1, <1>2, <1>5, <1>6 DEF WireShape
  <2>3. anchor' <= Len(epochs) /\ \A d \in Client : authorized'[d] <= Len(epochs)
    BY <1>2, <1>6, <2>1 DEF FramesSound
  <2> QED BY <1>1, <1>2, <1>3, <1>6, <2>2, <2>3, FramesStay DEF BaseInv
<1>7. CASE /\ f.type = "subscribe" /\ UNCHANGED <<anchor, inbox>>
           /\ \/ subscribers' = subscribers \cup {c} /\ authorized' = [authorized EXCEPT ![c] = f.e]
              \/ UNCHANGED <<subscribers, authorized>>
  <2>1. f.e <= Len(epochs)
    BY <1>1, <1>4, <1>7 DEF WireFrame
  <2>2. WireShape'
    BY <1>1, <1>2, <1>5, <1>7 DEF WireShape
  <2>3. anchor' <= Len(epochs) /\ \A d \in Client : authorized'[d] <= Len(epochs)
    BY <1>2, <1>7, <2>1 DEF FramesSound, WireShape
  <2> QED BY <1>1, <1>2, <1>3, <1>7, <2>2, <2>3, FramesStay DEF BaseInv
<1>8. CASE /\ f.type \in Handshakes /\ UNCHANGED relayVars
           /\ inbox' = [d \in Client |->
                 IF d \in subscribers \ {c} THEN Append(inbox[d], f) ELSE inbox[d]]
  <2>1. subscribers \ {c} \in SUBSET Client
    BY <1>2 DEF WireShape
  <2>2. PICK h \in FrameRecord : h = f
    BY <1>1
  <2>3. /\ inbox' \in [Client -> Seq(FrameRecord)]
        /\ \A d \in Client : Elements(inbox'[d]) \subseteq
              Elements(inbox[d]) \cup (IF d \in subscribers \ {c} THEN {h} ELSE {})
    <3> HIDE DEF f
    <3> QED BY <1>1, <1>2, <1>8, <2>1, <2>2, FanOutTyped
  <2>4. WireShape'
    BY <1>1, <1>2, <1>8, <2>3 DEF WireShape, relayVars
  <2>5. \A d \in Client \ {c} : InboxFrame(d, h)'
    BY <1>1, <1>4, <1>8, <2>2 DEF InboxFrame, WireFrame, Handshakes
  <2>6. anchor' <= Len(epochs) /\ \A d \in Client : authorized'[d] <= Len(epochs)
    BY <1>2, <1>8 DEF FramesSound, relayVars
  <2>7. \A d \in Client : \A g \in Elements(inbox'[d]) : g \in Elements(inbox[d]) \/ InboxFrame(d, g)'
    BY <2>3, <2>5
  <2> QED BY <1>1, <1>2, <1>3, <2>4, <2>6, <2>7, FramesStay DEF BaseInv
<1>9. <1>6!1 \/ <1>7!1 \/ <1>8!1
  BY DEF RelayHandle
<1> QED BY <1>6, <1>7, <1>8, <1>9

\* Frames are lost.
LEMMA LoseSubsets ==
    ASSUME WireShape, NEW c \in Client, LoseFrames(c)
    PROVE  /\ wire' \in [Client -> Seq(FrameRecord)] /\ inbox' \in [Client -> Seq(FrameRecord)]
           /\ \A d \in Client : /\ Elements(wire'[d]) \subseteq Elements(wire[d])
                                /\ Elements(inbox'[d]) \subseteq Elements(inbox[d])
<1>1. PICK i \in 0..Len(wire[c]) : wire' = [wire EXCEPT ![c] = SubSeq(wire[c], 1, i)]
  BY DEF LoseFrames
<1>2. PICK j \in 0..Len(inbox[c]) :
         inbox' = [inbox EXCEPT ![c] = SubSeq(inbox[c], j + 1, Len(inbox[c]))]
  BY DEF LoseFrames
<1>3. /\ wire \in [Client -> Seq(FrameRecord)] /\ inbox \in [Client -> Seq(FrameRecord)]
      /\ wire[c] \in Seq(FrameRecord) /\ inbox[c] \in Seq(FrameRecord)
      /\ Len(wire[c]) \in Nat /\ Len(inbox[c]) \in Nat
  BY DEF WireShape
<1>4. /\ SubSeq(wire[c], 1, i) \in Seq(FrameRecord)
      /\ Elements(SubSeq(wire[c], 1, i)) \subseteq Elements(wire[c])
  <2>1. 1 \in 1..Len(wire[c]) + 1
    BY <1>3
  <2> QED BY <1>3, <2>1, ElementsOfSub
<1>5. /\ SubSeq(inbox[c], j + 1, Len(inbox[c])) \in Seq(FrameRecord)
      /\ Elements(SubSeq(inbox[c], j + 1, Len(inbox[c]))) \subseteq Elements(inbox[c])
  <2>1. j + 1 \in 1..Len(inbox[c]) + 1 /\ Len(inbox[c]) \in 0..Len(inbox[c])
    BY <1>3
  <2> QED BY <1>3, <2>1, ElementsOfSub
<1> QED BY <1>1, <1>2, <1>3, <1>4, <1>5

\* A step that sends nothing keeps the frames sound.
LEMMA FramesOnlyLeave ==
    ASSUME BaseInv, DocInv', Grows, WireShape', UNCHANGED relayVars,
           \A d \in Client : /\ Elements(wire'[d]) \subseteq Elements(wire[d])
                            /\ Elements(inbox'[d]) \subseteq Elements(inbox[d])
    PROVE  BaseInv'
<1>1. DocShape'
  BY DEF DocInv
<1>2. anchor' <= Len(epochs) /\ \A d \in Client : authorized'[d] <= Len(epochs)
  BY DEF BaseInv, FramesSound, relayVars
<1> QED BY <1>1, <1>2, FramesStay DEF BaseInv

LEMMA FaultKeepsBase ==
    ASSUME BaseInv, NEW c \in Client, Drop(c) \/ StopSession(c) \/ StartSession(c) \/ ExpireJoin(c)
    PROVE  Grows /\ BaseInv'
<1>1. DocInv /\ WireShape
  BY DEF BaseInv
<1>2. CASE Drop(c)
  <2>1. /\ link' = [link EXCEPT ![c] = "offline"] /\ faults' = faults + 1 /\ LoseFrames(c)
        /\ UNCHANGED <<docVars, relayVars>>
    BY <1>2 DEF Drop
  <2>2. Grows /\ DocInv'
    BY <1>1, <2>1, StillStep DEF WireShape
  <2>3. WireShape'
    BY <1>1, <2>1, LoseSubsets DEF WireShape, relayVars
  <2> QED BY <1>1, <2>1, <2>2, <2>3, LoseSubsets, FramesOnlyLeave
<1>3. CASE StopSession(c)
  <2>1. /\ link' = [link EXCEPT ![c] = "stopped"] /\ faults' = faults + 1 /\ LoseFrames(c)
        /\ UNCHANGED relayVars
    BY <1>3 DEF StopSession
  <2>2. Grows /\ DocInv'
    BY <1>1, <1>3, StopStep
  <2>3. WireShape'
    BY <1>1, <2>1, LoseSubsets DEF WireShape, relayVars
  <2> QED BY <1>1, <2>1, <2>2, <2>3, LoseSubsets, FramesOnlyLeave
<1>4. CASE StartSession(c)
  <2>1. link' = [link EXCEPT ![c] = "offline"] /\ UNCHANGED <<wire, inbox, relayVars, faults>>
    BY <1>4 DEF StartSession
  <2>2. Grows /\ DocInv'
    BY <1>1, <1>4, ReturnStep
  <2>3. WireShape'
    BY <1>1, <2>1 DEF WireShape, relayVars
  <2> QED BY <2>1, <2>2, <2>3, FramesOnlyLeave
<1>5. CASE ExpireJoin(c)
  <2>1. UNCHANGED <<link, wire, inbox, relayVars, faults>>
    BY <1>5 DEF ExpireJoin
  <2>2. Grows /\ DocInv'
    BY <1>1, <1>5, ExpireStep
  <2>3. WireShape'
    BY <1>1, <2>1 DEF WireShape, relayVars
  <2> QED BY <2>1, <2>2, <2>3, FramesOnlyLeave
<1> QED BY <1>2, <1>3, <1>4, <1>5

\* What a client that takes a frame does, by what it has.
Answers(c, p) ==
    /\ c = Owner /\ Established(c) /\ ~IsMember(c, CredentialIdentity(p))
    /\ p \in DOMAIN packages /\ DocCreateInvite(c, p)
    /\ \A e : e = Len(epochs) + 1 =>
          Send(c, <<Frame("register", e), Frame("subscribe", e), Frame("commit", e), Frame("welcome", e)>>)

Joins(c, e) ==
    /\ c # Owner /\ pending[c] # 0 /\ ~Established(c) /\ e \in DOMAIN epochs
    /\ DocJoin(c, e)
    /\ \/ OpensWelcome(c, e) /\ Send(c, <<Frame("subscribe", e)>>)
       \/ ~OpensWelcome(c, e) /\ wire' = wire

Follows(c, e) ==
    /\ c # Owner /\ Established(c) /\ e \in DOMAIN epochs /\ epochs[e].parent = group[c].epoch
    /\ DocProcessCommit(c, e)
    /\ Send(c, <<Frame("subscribe", e)>>)

LEMMA ReceiveDoes ==
    ASSUME BaseInv, NEW c \in Client, Receive(c)
    PROVE  /\ link[c] = "online" /\ inbox[c] # <<>>
           /\ inbox' = [inbox EXCEPT ![c] = Tail(inbox[c])]
           /\ inbox' \in [Client -> Seq(FrameRecord)]
           /\ \A d \in Client : Elements(inbox'[d]) \subseteq Elements(inbox[d])
           /\ Head(inbox[c]) \in Elements(inbox[c])
           /\ UNCHANGED <<link, relayVars, faults>>
           /\ \/ Head(inbox[c]).type = "key_package" /\ Answers(c, Head(inbox[c]).e)
              \/ Head(inbox[c]).type = "welcome" /\ Joins(c, Head(inbox[c]).e)
              \/ Head(inbox[c]).type = "commit" /\ Follows(c, Head(inbox[c]).e)
              \/ UNCHANGED <<docVars, wire>>
<1> DEFINE f == Head(inbox[c])
<1>1. /\ link[c] = "online" /\ inbox[c] # <<>> /\ inbox' = [inbox EXCEPT ![c] = Tail(inbox[c])]
      /\ UNCHANGED <<link, relayVars, faults>>
      /\ \/ f.type = "key_package" /\ OnKeyPackage(c, f.e)
         \/ f.type = "welcome" /\ OnWelcome(c, f.e)
         \/ f.type = "commit" /\ OnCommit(c, f.e)
  BY DEF Receive
<1>2. inbox \in [Client -> Seq(FrameRecord)] /\ inbox[c] \in Seq(FrameRecord)
  BY DEF BaseInv, WireShape
<1>3. /\ Tail(inbox[c]) \in Seq(FrameRecord) /\ Elements(Tail(inbox[c])) \subseteq Elements(inbox[c])
      /\ f \in Elements(inbox[c])
  BY <1>1, <1>2, ElementsOfTail
<1>4. InboxFrame(c, f)
  BY <1>3 DEF BaseInv, FramesSound
<1>5. CASE f.type = "key_package" /\ OnKeyPackage(c, f.e)
  <2>1. f.e \in DOMAIN packages
    BY <1>4, <1>5 DEF InboxFrame
  <2> HIDE DEF f
  <2>2. Answers(c, f.e) \/ UNCHANGED <<docVars, wire>>
    BY <1>5, <2>1 DEF OnKeyPackage, Answers, Admits, Answer
  <2> QED BY <1>1, <1>2, <1>3, <1>5, <2>2 DEF f
<1>6. CASE f.type = "welcome" /\ OnWelcome(c, f.e)
  <2>1. f.e \in DOMAIN epochs
    BY <1>4, <1>6 DEF InboxFrame
  <2> HIDE DEF f
  <2>2. Joins(c, f.e) \/ UNCHANGED <<docVars, wire>>
    BY <1>6, <2>1 DEF OnWelcome, Joins
  <2> QED BY <1>1, <1>2, <1>3, <1>6, <2>2 DEF f
<1>7. CASE f.type = "commit" /\ OnCommit(c, f.e)
  <2>1. f.e \in DOMAIN epochs /\ c # Owner
    BY <1>4, <1>7 DEF InboxFrame
  <2> HIDE DEF f
  <2>2. Follows(c, f.e) \/ UNCHANGED <<docVars, wire>>
    BY <1>7, <2>1 DEF OnCommit, AcceptsCommit, Follows
  <2> QED BY <1>1, <1>2, <1>3, <1>7, <2>2 DEF f
<1> QED BY <1>1, <1>5, <1>6, <1>7

LEMMA ReceiveKeepsBase ==
    ASSUME BaseInv, NEW c \in Client, Receive(c)
    PROVE  Grows /\ BaseInv'
<1>1. DocInv /\ WireShape /\ Len(epochs) \in Nat /\ DOMAIN epochs = 1..Len(epochs)
  BY DEF BaseInv, DocInv, DocShape
<1>2. /\ UNCHANGED <<link, relayVars, faults>> /\ inbox' \in [Client -> Seq(FrameRecord)]
      /\ \A d \in Client : Elements(inbox'[d]) \subseteq Elements(inbox[d])
  BY ReceiveDoes
<1>3. ASSUME Grows, DocInv', NEW frames \in Seq(FrameRecord), Send(c, frames),
             \A f \in Elements(frames) : WireFrame(c, f)'
      PROVE  BaseInv'
  <2>1. /\ wire' \in [Client -> Seq(FrameRecord)]
        /\ \A d \in Client \ {c} : wire'[d] = wire[d]
        /\ Elements(wire'[c]) = Elements(wire[c]) \cup Elements(frames)
    BY <1>1, <1>3, SendAdds
  <2>2. WireShape' /\ DocShape'
    BY <1>1, <1>2, <1>3, <2>1 DEF WireShape, relayVars, DocInv
  <2>3. \A d \in Client : \A f \in Elements(wire'[d]) : f \in Elements(wire[d]) \/ WireFrame(d, f)'
    BY <1>3, <2>1
  <2>4. anchor' <= Len(epochs) /\ \A d \in Client : authorized'[d] <= Len(epochs)
    BY <1>2 DEF BaseInv, FramesSound, relayVars
  <2> QED BY <1>2, <1>3, <2>2, <2>3, <2>4, FramesStay DEF BaseInv
<1>4. ASSUME Grows, DocInv', wire' = wire
      PROVE  BaseInv'
  <2>1. WireShape'
    BY <1>1, <1>2, <1>4 DEF WireShape, relayVars
  <2> QED BY <1>2, <1>4, <2>1, FramesOnlyLeave
<1>5. ASSUME NEW p, Answers(c, p)
      PROVE  Grows /\ BaseInv'
  <2>1. Grows /\ DocInv' /\ Len(epochs') = Len(epochs) + 1
    BY <1>1, <1>2, <1>5, AddStep DEF Answers
  <2>2. PICK e \in Nat : e = Len(epochs) + 1 /\ e \in DOMAIN epochs' /\ e \in 0..Len(epochs')
    <3>1. DOMAIN epochs' = 1..Len(epochs')
      BY <2>1 DEF DocInv, DocShape
    <3> QED BY <1>1, <2>1, <3>1
  <2>3. PICK w, x, y, z \in FrameRecord :
           /\ w = Frame("register", e) /\ x = Frame("subscribe", e)
           /\ y = Frame("commit", e) /\ z = Frame("welcome", e)
           /\ w.type = "register" /\ w.e = e /\ x.type = "subscribe" /\ x.e = e
           /\ y.type = "commit" /\ y.e = e /\ z.type = "welcome" /\ z.e = e
    BY FrameTyped
  <2>4. WireFrame(c, w)' /\ WireFrame(c, x)' /\ WireFrame(c, y)' /\ WireFrame(c, z)'
    BY <1>5, <2>2, <2>3 DEF WireFrame, Answers
  <2>5. <<w, x, y, z>> \in Seq(FrameRecord) /\ Elements(<<w, x, y, z>>) = {w, x, y, z}
    BY FewFrames
  <2>6. Send(c, <<w, x, y, z>>)
    BY <1>5, <2>2, <2>3 DEF Answers
  <2> QED BY <1>3, <2>1, <2>4, <2>5, <2>6
<1>6. ASSUME NEW e, e \in DOMAIN epochs, Grows, DocInv', Send(c, <<Frame("subscribe", e)>>)
      PROVE  BaseInv'
  <2>1. e \in Nat /\ e \in 0..Len(epochs')
    BY <1>1, <1>6 DEF Grows, DocInv, DocShape
  <2>2. PICK x \in FrameRecord : x = Frame("subscribe", e) /\ x.type = "subscribe" /\ x.e = e
    BY <2>1, FrameTyped
  <2>3. WireFrame(c, x)'
    BY <2>1, <2>2 DEF WireFrame
  <2>4. <<x>> \in Seq(FrameRecord) /\ Elements(<<x>>) = {x}
    BY FewFrames
  <2> QED BY <1>3, <1>6, <2>2, <2>3, <2>4
<1>7. ASSUME NEW e, Joins(c, e)
      PROVE  Grows /\ BaseInv'
  <2>1. Grows /\ DocInv' /\ e \in DOMAIN epochs
    BY <1>1, <1>2, <1>7, JoinStep DEF Joins
  <2> QED BY <1>4, <1>6, <1>7, <2>1 DEF Joins
<1>8. ASSUME NEW e, Follows(c, e)
      PROVE  Grows /\ BaseInv'
  <2>1. Grows /\ DocInv' /\ e \in DOMAIN epochs
    BY <1>1, <1>2, <1>8, FollowStep DEF Follows
  <2> QED BY <1>6, <1>8, <2>1 DEF Follows
<1>9. CASE UNCHANGED <<docVars, wire>>
  <2>1. Grows /\ DocInv'
    BY <1>1, <1>2, <1>9, StillStep
  <2> QED BY <1>4, <1>9, <2>1
<1> QED BY <1>5, <1>7, <1>8, <1>9, ReceiveDoes

LEMMA InitBase == Init => BaseInv
<1> SUFFICES ASSUME Init PROVE BaseInv
  OBVIOUS
<1>1. /\ packages = <<>> /\ epochs = <<>> /\ group = [c \in Client |-> NoGroup]
      /\ pending = [c \in Client |-> 0] /\ disk = [c \in Client |-> NoGroup]
  BY DEF Init, DocInit, MlsInit
<1>2. DocInv
  BY <1>1 DEF Init, DocInv, DocShape, EpochsSound, GroupsSound, PendingSound, Established
<1>3. WireShape
  BY DEF Init, WireShape
<1>4. FramesSound
  <2>1. \A c \in Client : Elements(wire[c]) = {} /\ Elements(inbox[c]) = {}
    BY DEF Init, Elements
  <2>2. anchor <= Len(epochs) /\ \A c \in Client : authorized[c] <= Len(epochs)
    BY <1>1 DEF Init
  <2> QED BY <2>1, <2>2 DEF FramesSound
<1> QED BY <1>2, <1>3, <1>4 DEF BaseInv

LEMMA StepKeepsBase == BaseInv /\ [Next]_vars => Grows /\ BaseInv'
<1> SUFFICES ASSUME BaseInv, [Next]_vars PROVE Grows /\ BaseInv'
  OBVIOUS
<1>1. CASE \E c \in Client : RelayHandle(c)
  BY <1>1, RelayKeepsBase
<1>2. CASE \E c \in Client : Receive(c)
  BY <1>2, ReceiveKeepsBase
<1>3. CASE \E c \in Client : Connect(c)
  BY <1>3, ConnectKeepsBase
<1>4. CASE \E c \in Client : Drop(c) \/ StopSession(c) \/ StartSession(c) \/ ExpireJoin(c)
  BY <1>4, FaultKeepsBase
<1>5. CASE UNCHANGED vars
  <2>1. UNCHANGED <<docVars, link, wire, inbox, relayVars, faults>>
    BY <1>5 DEF vars
  <2>2. Grows /\ DocInv'
    BY <2>1, StillStep DEF BaseInv
  <2>3. WireShape'
    BY <2>1 DEF BaseInv, WireShape, relayVars
  <2> QED BY <2>1, <2>2, <2>3, FramesOnlyLeave
<1> QED BY <1>1, <1>2, <1>3, <1>4, <1>5 DEF Next, Progress, Fault

\* Whatever is lost, groups, snapshots and frames name epochs and key packages
\* that were made, and no epoch has two leaves of one identity.
THEOREM BaseAlways == Spec => []BaseInv
<1>1. BaseInv /\ [Next]_vars => BaseInv'
  BY StepKeepsBase
<1> QED BY InitBase, <1>1, PTL DEF Spec

\* docs/security.md:91-103: however often a joiner asks again, by lost Welcomes,
\* deadlines and restarts, no identity has two leaves: two leaves of one identity
\* are the same leaf, which is what admits() and the leftmost blank leaf keep.
THEOREM NobodyHasTwoLeaves == Spec => []OneLeafEach
<1>1. BaseInv => OneLeafEach
  <2> SUFFICES ASSUME BaseInv, NEW e \in DOMAIN epochs, NEW u \in User
               PROVE  Cardinality(LeavesOf(e, u)) <= 1
    BY DEF OneLeafEach
  <2>1. \A i, j \in LeavesOf(e, u) : i = j
    BY DEF LeavesOf, BaseInv, DocInv, EpochsSound, LeavesSound
  <2>2. CASE LeavesOf(e, u) = {}
    BY <2>2, FS_EmptySet
  <2>3. CASE LeavesOf(e, u) # {}
    <3>1. PICK i : LeavesOf(e, u) = {i}
      BY <2>1, <2>3
    <3>2. Cardinality({i}) = 1
      BY FS_Singleton
    <3> QED BY <3>1, <3>2
  <2> QED BY <2>2, <2>3
<1> QED BY <1>1, BaseAlways, PTL

\* Frames name what was made, the anchor and the authorizations are epochs that
\* were made, and a pending member is one's own and has no group.
THEOREM HandshakeTypeCorrect == Spec => []TypeOK
<1>1. BaseInv => TypeOK
  <2> SUFFICES ASSUME BaseInv PROVE TypeOK
    OBVIOUS
  <2>1. /\ link \in [Client -> {"stopped", "offline", "online"}]
        /\ wire \in [Client -> Frames] /\ inbox \in [Client -> Frames] /\ subscribers \subseteq Client
    BY DEF BaseInv, WireShape, Frames, FrameRecord
  <2>2. anchor \in 0..Len(epochs) /\ authorized \in [Client -> 0..Len(epochs)]
    BY DEF BaseInv, WireShape, FramesSound, DocInv, DocShape
  <2>3. \A c \in Client : pending[c] # 0 =>
           packages[pending[c]] = c /\ ~Established(c) /\ link[c] # "stopped"
    BY DEF BaseInv, DocInv, PendingSound
  <2> QED BY <2>1, <2>2, <2>3 DEF TypeOK
<1> QED BY <1>1, BaseAlways, PTL

-----------------------------------------------------------------------------
(* As long as saves are written, or nothing was lost yet, the epochs are one *)
(* chain and the owner, or its snapshot, is at the end of it.                *)

Kept == WritesLand \/ faults = 0

\* An epoch follows the one before it, with one member more.
Chained(e) ==
    /\ epochs[e].parent = e - 1 /\ epochs[e].number = e - 1
    /\ e = 1 => epochs[e].kind = "create"
    /\ e # 1 =>
          /\ epochs[e].kind = "add" /\ epochs[e].subject \in DOMAIN packages
          /\ CredentialIdentity(epochs[e].subject) \notin Members(e - 1)
          /\ Members(e) = Members(e - 1) \cup {CredentialIdentity(epochs[e].subject)}

ChainSound == \A e \in DOMAIN epochs : Chained(e)

OwnerAtTheEnd == epochs # <<>> =>
    IF link[Owner] = "stopped"
    THEN disk[Owner] # NoGroup /\ disk[Owner].epoch = Len(epochs)
    ELSE Established(Owner) /\ group[Owner].epoch = Len(epochs)

\* A session that runs without a group had none to come back to.
NothingLeftOnDisk == \A c \in Client :
    link[c] # "stopped" /\ ~Established(c) => disk[c] = NoGroup

Chain == ChainSound /\ OwnerAtTheEnd /\ NothingLeftOnDisk

\* The epochs there were stay in the chain.
LEMMA ChainStays ==
    ASSUME BaseInv, DocShape', Grows, ChainSound, NEW e \in DOMAIN epochs
    PROVE  Chained(e)'
<1>1. Chained(e) /\ epochs'[e] = epochs[e] /\ e \in Nat \ {0}
  BY EpochTyped DEF ChainSound, Grows, BaseInv, DocInv
<1>2. Members(e)' = Members(e)
  BY EpochStays DEF BaseInv, DocInv
<1>3. CASE e = 1
  BY <1>1, <1>3 DEF Chained
<1>4. CASE e # 1
  <2>1. PICK d \in DOMAIN epochs : d = e - 1
    <3>1. DOMAIN epochs = 1..Len(epochs) /\ Len(epochs) \in Nat
      BY DEF BaseInv, DocInv, DocShape
    <3> QED BY <1>1, <1>4, <3>1
  <2>2. Members(d)' = Members(d)
    BY EpochStays DEF BaseInv, DocInv
  <2>3. PICK p \in DOMAIN packages : p = epochs[e].subject
    BY <1>1, <1>4 DEF Chained
  <2>4. p \in DOMAIN packages' /\ CredentialIdentity(p)' = CredentialIdentity(p)
    BY DEF Grows, CredentialIdentity
  <2>5. /\ epochs[e].kind = "add" /\ CredentialIdentity(p) \notin Members(d)
        /\ Members(e) = Members(d) \cup {CredentialIdentity(p)}
    BY <1>1, <1>4, <2>1, <2>3 DEF Chained
  <2>6. /\ epochs'[e].kind = "add" /\ CredentialIdentity(p)' \notin Members(d)'
        /\ Members(e)' = Members(d)' \cup {CredentialIdentity(p)'}
    BY <1>1, <1>2, <2>2, <2>4, <2>5
  <2>7. epochs'[e].subject = p /\ epochs'[e].parent = e - 1 /\ epochs'[e].number = e - 1
    BY <1>1, <2>3 DEF Chained
  <2> HIDE DEF Members, CredentialIdentity
  <2> QED BY <1>4, <2>1, <2>4, <2>6, <2>7 DEF Chained
<1> QED BY <1>3, <1>4

\* A step that makes no epoch and touches nobody's group keeps the chain.
LEMMA ChainUntouched ==
    ASSUME BaseInv, BaseInv', Grows, Chain, UNCHANGED <<epochs, group, disk>>,
           \A c \in Client : link'[c] = "stopped" <=> link[c] = "stopped"
    PROVE  Chain'
<1>1. ChainSound'
  BY ChainStays DEF Chain, ChainSound, BaseInv, DocInv
<1>2. OwnerAtTheEnd' /\ NothingLeftOnDisk'
  BY HandshakeAssumption DEF Chain, OwnerAtTheEnd, NothingLeftOnDisk, Established
<1> QED BY <1>1, <1>2 DEF Chain

\* Whether a session is stopped changes only when it stops or starts.
LEMMA ConnectKeepsChain ==
    ASSUME BaseInv, BaseInv', Grows, Chain, NEW c \in Client, Connect(c)
    PROVE  Chain' /\ (c = Owner /\ ~Established(c) /\ pending[c] = 0 => epochs = <<>>)
<1>1. /\ link[c] = "offline" /\ link' = [link EXCEPT ![c] = "online"]
      /\ link \in [Client -> {"stopped", "offline", "online"}] /\ disk' = disk
  BY ConnectSends DEF BaseInv, WireShape
<1>2. \A d \in Client : link'[d] = "stopped" <=> link[d] = "stopped"
  BY <1>1
<1>3. CASE UNCHANGED docVars /\ (Established(c) \/ pending[c] # 0)
  BY <1>2, <1>3, ChainUntouched DEF docVars, mlsVars
<1>4. CASE c # Owner /\ DocGenerateKeyPackage(c)
  BY <1>2, <1>4, ChainUntouched DEF DocGenerateKeyPackage, GenerateKeyPackage
<1>5. CASE c = Owner /\ ~Established(c) /\ pending[c] = 0 /\ DocCreate(c)
  <2>1. epochs = <<>>
    BY <1>1, <1>5 DEF Chain, OwnerAtTheEnd
  <2>2. PICK e : e = Len(epochs) + 1
    OBVIOUS
  <2>3. /\ Len(epochs) = 0 /\ e = 1 /\ epochs' \in Seq(EpochRecord) /\ Len(epochs') = 1
        /\ group'[c] # NoGroup /\ group'[c].epoch = 1
        /\ \A d \in Client \ {c} : group'[d] = group[d]
        /\ epochs'[1].parent = 0 /\ epochs'[1].number = 0 /\ epochs'[1].kind = "create"
    <3>1. Len(epochs) = 0 /\ e = 1 /\ epochs' \in Seq(EpochRecord) /\ DocInv /\ WireShape
      BY <2>1, <2>2 DEF BaseInv, DocInv, DocShape
    <3>2. /\ Established(c)' /\ group'[c].epoch = Len(epochs) + 1 /\ Len(epochs') = Len(epochs) + 1
          /\ \A d \in Client \ {c} : group'[d] = group[d]
          /\ \A k : k = Len(epochs) + 1 =>
                epochs'[k].parent = 0 /\ epochs'[k].number = 0 /\ epochs'[k].kind = "create"
      BY <1>1, <1>5, <3>1, CreateStep
    <3>3. epochs'[e].parent = 0 /\ epochs'[e].number = 0 /\ epochs'[e].kind = "create"
      BY <2>2, <3>2
    <3> QED BY <3>1, <3>2, <3>3 DEF Established
  <2>4. DOMAIN epochs' = {1}
    BY <2>3
  <2>5. ChainSound'
    BY <2>3, <2>4 DEF ChainSound, Chained
  <2>6. OwnerAtTheEnd'
    BY <1>1, <1>5, <2>3 DEF OwnerAtTheEnd, Established
  <2>7. NothingLeftOnDisk'
    BY <1>1, <1>2, <2>3 DEF Chain, NothingLeftOnDisk, Established
  <2> QED BY <2>1, <2>5, <2>6, <2>7 DEF Chain
<1> QED BY <1>3, <1>4, <1>5, ConnectSends

LEMMA ReceiveKeepsChain ==
    ASSUME BaseInv, BaseInv', Grows, Chain, NEW c \in Client, Receive(c)
    PROVE  Chain'
<1>1. /\ link[c] = "online" /\ link' = link /\ Len(epochs) \in Nat /\ DOMAIN epochs = 1..Len(epochs)
      /\ epochs' \in Seq(EpochRecord) /\ DocInv /\ Owner \in Client
  BY ReceiveDoes, HandshakeAssumption DEF BaseInv, DocInv, DocShape
<1>2. CASE UNCHANGED <<docVars, wire>>
  BY <1>1, <1>2, ChainUntouched DEF docVars, mlsVars
<1>3. ASSUME NEW p, Answers(c, p)
      PROVE  Chain'
  <2>1. PICK e \in Nat \ {0} : e = Len(epochs) + 1
    BY <1>1
  <2>2. /\ group'[c] # NoGroup /\ group'[c].epoch = e /\ Len(epochs') = e
        /\ Members(e)' = Members(group[c].epoch) \cup {CredentialIdentity(p)}
        /\ \A d \in Client \ {c} : group'[d] = group[d]
        /\ epochs'[e].parent = group[c].epoch /\ epochs'[e].kind = "add"
        /\ epochs'[e].number = EpochNumber(c) + 1 /\ epochs'[e].subject = p
    BY <1>1, <1>3, <2>1, AddStep DEF Answers, Established
  <2>3. disk' = disk
    BY <1>3 DEF Answers, DocCreateInvite
  <2>4. PICK d \in DOMAIN epochs : d = group[c].epoch
    BY <1>1, <1>3, GroupFields DEF Answers, Established
  <2>5. d = Len(epochs) /\ e = d + 1 /\ e # 1
    <3>1. epochs # <<>> /\ link[Owner] # "stopped" /\ c = Owner
      BY <1>1, <1>3, <2>4 DEF Answers
    <3> QED BY <1>1, <2>1, <2>4, <3>1 DEF Chain, OwnerAtTheEnd
  <2>6. epochs[d].number = d - 1
    BY <2>4 DEF Chain, ChainSound, Chained
  <2>7. Members(d)' = Members(d) /\ Members(e)' = Members(d) \cup {CredentialIdentity(p)}
    BY <2>2, <2>4, EpochStays DEF BaseInv, DocInv
  <2>8. CredentialIdentity(p) \notin Members(d)
    <3>1. LeavesOf(d, CredentialIdentity(p)) = {}
      BY <1>3, <2>4 DEF Answers, IsMember
    <3> QED BY <3>1, MembersHaveLeaves DEF LeavesOf
  <2>9. p \in DOMAIN packages' /\ CredentialIdentity(p)' = CredentialIdentity(p)
    <3>1. p \in DOMAIN packages
      BY <1>3 DEF Answers
    <3> QED BY <3>1 DEF Grows, CredentialIdentity
  <2>10. Chained(e)'
    <3>1. epochs'[e].parent = e - 1 /\ epochs'[e].number = e - 1
      BY <2>2, <2>4, <2>5, <2>6, <1>1 DEF EpochNumber
    <3>2. CredentialIdentity(p)' \notin Members(d)' /\ Members(e)' = Members(d)' \cup {CredentialIdentity(p)'}
      BY <2>7, <2>8, <2>9
    <3>3. d = e - 1
      BY <2>5, <1>1
    <3> HIDE DEF Members, CredentialIdentity
    <3> QED BY <2>2, <2>5, <2>9, <3>1, <3>2, <3>3 DEF Chained
  <2>11. ChainSound'
    <3>1. \A k \in DOMAIN epochs' : k \in DOMAIN epochs \/ k = e
      BY <1>1, <2>1, <2>2
    <3>2. \A k \in DOMAIN epochs : Chained(k)'
      BY ChainStays DEF BaseInv, DocInv, Chain
    <3> QED BY <2>10, <3>1, <3>2 DEF ChainSound
  <2>12. OwnerAtTheEnd'
    BY <1>1, <1>3, <2>2 DEF OwnerAtTheEnd, Established, Answers
  <2>13. NothingLeftOnDisk'
    BY <1>1, <2>2, <2>3 DEF Chain, NothingLeftOnDisk, Established
  <2> QED BY <2>11, <2>12, <2>13 DEF Chain
<1>4. ASSUME c # Owner, epochs' = epochs, disk' = disk,
             \A d \in Client \ {c} : group'[d] = group[d],
             group'[c] = group[c] \/ group'[c] # NoGroup
      PROVE  Chain'
  <2>1. ChainSound'
    BY <1>4, ChainStays DEF Chain, ChainSound, BaseInv, DocInv
  <2>2. OwnerAtTheEnd'
    BY <1>1, <1>4 DEF Chain, OwnerAtTheEnd, Established
  <2>3. NothingLeftOnDisk'
    BY <1>1, <1>4 DEF Chain, NothingLeftOnDisk, Established
  <2> QED BY <2>1, <2>2, <2>3 DEF Chain
<1>5. ASSUME NEW e, Joins(c, e)
      PROVE  Chain'
  BY <1>1, <1>4, <1>5, JoinStep DEF Joins
<1>6. ASSUME NEW e, Follows(c, e)
      PROVE  Chain'
  BY <1>1, <1>4, <1>6, FollowStep DEF Follows
<1> QED BY <1>2, <1>3, <1>5, <1>6, ReceiveDoes

LEMMA StopKeepsChain ==
    ASSUME BaseInv, BaseInv', Grows, Chain, NEW c \in Client, WritesLand, StopSession(c)
    PROVE  Chain'
<1>1. /\ link[c] # "stopped" /\ link' = [link EXCEPT ![c] = "stopped"]
      /\ link \in [Client -> {"stopped", "offline", "online"}] /\ DocInv /\ WireShape /\ Owner \in Client
  BY HandshakeAssumption DEF StopSession, BaseInv, WireShape
<1>2. /\ epochs' = epochs /\ group'[c] = NoGroup /\ disk'[c] = group[c]
      /\ \A d \in Client \ {c} : group'[d] = group[d] /\ disk'[d] = disk[d]
  BY <1>1, StopStep
<1>3. link'[c] = "stopped" /\ \A d \in Client \ {c} : link'[d] = link[d]
  BY <1>1
<1>4. ChainSound'
  BY <1>2, ChainStays DEF Chain, ChainSound, BaseInv, DocInv
<1>5. OwnerAtTheEnd'
  <2>1. CASE c = Owner
    BY <1>1, <1>2, <1>3, <2>1 DEF Chain, OwnerAtTheEnd, Established
  <2>2. CASE c # Owner
    BY <1>1, <1>2, <1>3, <2>2 DEF Chain, OwnerAtTheEnd, Established
  <2> QED BY <2>1, <2>2
<1>6. NothingLeftOnDisk'
  BY <1>2, <1>3 DEF Chain, NothingLeftOnDisk, Established
<1> QED BY <1>4, <1>5, <1>6 DEF Chain

LEMMA StartKeepsChain ==
    ASSUME BaseInv, BaseInv', Grows, Chain, NEW c \in Client, StartSession(c)
    PROVE  Chain'
<1>1. /\ link[c] = "stopped" /\ link' = [link EXCEPT ![c] = "offline"]
      /\ link \in [Client -> {"stopped", "offline", "online"}] /\ DocInv /\ WireShape /\ Owner \in Client
  BY HandshakeAssumption DEF StartSession, BaseInv, WireShape
<1>2. /\ epochs' = epochs /\ disk' = disk
      /\ \A d \in Client \ {c} : group'[d] = group[d]
      /\ disk[c] = NoGroup => group' = group
      /\ disk[c] # NoGroup => group'[c] # NoGroup /\ group'[c].epoch = disk[c].epoch
  BY <1>1, ReturnStep
<1>3. link'[c] = "offline" /\ \A d \in Client \ {c} : link'[d] = link[d]
  BY <1>1
<1>4. ChainSound'
  BY <1>2, ChainStays DEF Chain, ChainSound, BaseInv, DocInv
<1>5. OwnerAtTheEnd'
  <2>1. CASE c = Owner
    BY <1>1, <1>2, <1>3, <2>1 DEF Chain, OwnerAtTheEnd, Established
  <2>2. CASE c # Owner
    BY <1>1, <1>2, <1>3, <2>2 DEF Chain, OwnerAtTheEnd, Established
  <2> QED BY <2>1, <2>2
<1>6. NothingLeftOnDisk'
  BY <1>2, <1>3 DEF Chain, NothingLeftOnDisk, Established
<1> QED BY <1>4, <1>5, <1>6 DEF Chain

\* What was kept so far was kept before.
LEMMA FaultsGrow ==
    ASSUME BaseInv, [Next]_vars
    PROVE  /\ faults' = 0 => faults = 0
           /\ \A c \in Client : StopSession(c) \/ Drop(c) => faults' # 0
<1>1. faults \in Nat
  BY DEF BaseInv, WireShape
<1>2. \A c \in Client : StopSession(c) \/ Drop(c) => faults' = faults + 1
  BY DEF StopSession, Drop
<1>3. (\E c \in Client : StopSession(c) \/ Drop(c)) \/ faults' = faults
  BY DEF Next, Progress, Fault, RelayHandle, Receive, Connect, StartSession, ExpireJoin, vars
<1> QED BY <1>1, <1>2, <1>3

LEMMA StepKeepsChain ==
    ASSUME BaseInv, BaseInv', Grows, Chain, [Next]_vars, Kept'
    PROVE  Chain'
<1>1. ASSUME UNCHANGED <<epochs, group, disk>>,
             \A c \in Client : link'[c] = "stopped" <=> link[c] = "stopped"
      PROVE  Chain'
  BY <1>1, ChainUntouched
<1>2. ASSUME NEW c \in Client, RelayHandle(c)
      PROVE  Chain'
  BY <1>1, <1>2, RelayTakes DEF docVars, mlsVars
<1>3. ASSUME NEW c \in Client, Drop(c)
      PROVE  Chain'
  BY <1>1, <1>3 DEF Drop, docVars, mlsVars, BaseInv, WireShape
<1>4. ASSUME NEW c \in Client, ExpireJoin(c)
      PROVE  Chain'
  BY <1>1, <1>4 DEF ExpireJoin
<1>5. CASE UNCHANGED vars
  BY <1>1, <1>5 DEF vars, docVars, mlsVars
<1>6. ASSUME NEW c \in Client, StopSession(c)
      PROVE  Chain'
  <2>1. WritesLand
    BY <1>6, FaultsGrow DEF Kept
  <2> QED BY <1>6, <2>1, StopKeepsChain
<1> QED BY <1>2, <1>3, <1>4, <1>5, <1>6, ConnectKeepsChain, ReceiveKeepsChain, StartKeepsChain
        DEF Next, Progress, Fault

\* registry.rs, join_encrypted and create_invite: until a write is lost, each epoch
\* follows the one before it by one member more, and the owner is at the last.
THEOREM ChainAlways == Spec => [](Kept => Chain)
<1>1. Init => Chain
  <2> SUFFICES ASSUME Init PROVE Chain
    OBVIOUS
  <2>1. epochs = <<>> /\ disk = [c \in Client |-> NoGroup]
    BY DEF Init, DocInit, MlsInit
  <2> QED BY <2>1 DEF Chain, ChainSound, OwnerAtTheEnd, NothingLeftOnDisk
<1>2. BaseInv /\ (Kept => Chain) /\ [Next]_vars => (Kept => Chain)'
  <2> SUFFICES ASSUME BaseInv, Kept => Chain, [Next]_vars, Kept' PROVE Chain'
    OBVIOUS
  <2>1. Kept
    BY FaultsGrow DEF Kept
  <2> QED BY <2>1, StepKeepsBase, StepKeepsChain
<1> QED BY <1>1, <1>2, BaseAlways, PTL DEF Spec

-----------------------------------------------------------------------------
(* Every step is one of GroupLog, or changes nothing of it.                *)

\* What GroupLog sees.
LogSeen == [e \in DOMAIN epochs |-> Members(e)]
PositionSeen == [c \in Client |-> IF Established(c) THEN group[c].epoch ELSE 0]
ReachedSeen == [c \in Client |->
    IF Established(c) THEN group[c].epoch
    ELSE IF disk[c] # NoGroup THEN disk[c].epoch ELSE 0]

LEMMA LogTyped ==
    ASSUME BaseInv
    PROVE  /\ LogSeen \in Seq(SUBSET User)
           /\ Len(LogSeen) = Len(epochs) /\ Len(epochs) \in Nat
           /\ DOMAIN LogSeen = 1..Len(epochs) /\ DOMAIN epochs = 1..Len(epochs)
           /\ \A e \in DOMAIN epochs : LogSeen[e] = Members(e)
<1>1. DOMAIN epochs = 1..Len(epochs) /\ Len(epochs) \in Nat
  BY DEF BaseInv, DocInv, DocShape
<1>2. LogSeen = [e \in 1..Len(epochs) |-> Members(e)]
  BY <1>1 DEF LogSeen
<1>3. \A e \in DOMAIN epochs : Members(e) \in SUBSET User
  BY LeafTyped, MembersHaveLeaves DEF BaseInv, DocInv
<1> HIDE DEF Members
<1>4. LogSeen \in [1..Len(epochs) -> SUBSET User]
  BY <1>1, <1>2, <1>3
<1>5. LogSeen \in Seq(SUBSET User) /\ Len(LogSeen) = Len(epochs)
  BY <1>1, <1>4
<1> QED BY <1>1, <1>2, <1>5

\* The log stays, or has one epoch more.
LEMMA LogStays ==
    ASSUME BaseInv, BaseInv', Grows, epochs' = epochs
    PROVE  LogSeen' = LogSeen
<1>1. \A e \in DOMAIN epochs : Members(e)' = Members(e)
  BY EpochStays DEF BaseInv, DocInv
<1> QED BY <1>1 DEF LogSeen

LEMMA LogGrows ==
    ASSUME BaseInv, BaseInv', Grows, NEW S, NEW n \in Nat, n = Len(epochs) + 1, Len(epochs') = n,
           Members(n)' = S
    PROVE  LogSeen' = Append(LogSeen, S)
<1>1. /\ DOMAIN epochs = 1..Len(epochs) /\ Len(epochs) \in Nat /\ DOMAIN epochs' = 1..n
      /\ LogSeen \in Seq(SUBSET User) /\ Len(LogSeen) = Len(epochs)
      /\ \A e \in DOMAIN epochs : LogSeen[e] = Members(e)
  <2>1. DOMAIN epochs' = 1..Len(epochs')
    BY DEF BaseInv, DocInv, DocShape
  <2> QED BY <2>1, LogTyped
<1>2. \A e \in DOMAIN epochs : Members(e)' = LogSeen[e]
  BY <1>1, EpochStays DEF BaseInv, DocInv
<1>3. LogSeen' = [e \in 1..n |-> Members(e)']
  BY <1>1 DEF LogSeen
<1>4. \A e \in 1..n : Members(e)' = IF e = n THEN S ELSE LogSeen[e]
  BY <1>1, <1>2
<1> DEFINE T == (SUBSET User) \cup {S}
<1> HIDE DEF LogSeen, Members
<1>5. LogSeen \in Seq(T)
  BY <1>1, SeqMonotonic
<1>6. /\ Append(LogSeen, S) \in Seq(T) /\ Len(Append(LogSeen, S)) = n
      /\ \A e \in 1..n : Append(LogSeen, S)[e] = IF e = n THEN S ELSE LogSeen[e]
  <2>1. S \in T
    OBVIOUS
  <2> HIDE DEF T
  <2> QED BY <1>1, <1>5, <2>1
<1>7. LogSeen' \in Seq(T) /\ Len(LogSeen') = n
  <2>1. \A e \in 1..n : Members(e)' \in T
    BY <1>1, <1>4
  <2> HIDE DEF T
  <2>2. LogSeen' \in [1..n -> T]
    BY <1>3, <2>1
  <2> QED BY <2>2
<1>8. \A e \in 1..n : LogSeen'[e] = Append(LogSeen, S)[e]
  BY <1>3, <1>4, <1>6
<1> HIDE DEF T
<1> QED BY <1>6, <1>7, <1>8, SeqEqual

\* What GroupLog sees of a client that keeps its group and its snapshot.
LEMMA SeenStays ==
    ASSUME BaseInv, BaseInv', Grows, UNCHANGED <<epochs, group, disk>>
    PROVE  UNCHANGED <<LogSeen, PositionSeen, ReachedSeen>>
<1>1. LogSeen' = LogSeen
  BY LogStays
<1> QED BY <1>1 DEF PositionSeen, ReachedSeen, Established

\* Of a client that comes to an epoch.
LEMMA SeenMoves ==
    ASSUME NEW c \in Client, NEW e, group'[c] # NoGroup, group'[c].epoch = e, disk' = disk,
           \A d \in Client \ {c} : group'[d] = group[d]
    PROVE  /\ PositionSeen' = [PositionSeen EXCEPT ![c] = e]
           /\ ReachedSeen' = [ReachedSeen EXCEPT ![c] = e]
  BY DEF PositionSeen, ReachedSeen, Established

\* The actions of GroupLog, in these terms.
LEMMA LogActions ==
    ASSUME NEW c \in Client
    PROVE  /\ Log!Found(c) <=>
                /\ LogSeen = <<>> /\ LogSeen' = <<{UserId[c]}>>
                /\ PositionSeen' = [PositionSeen EXCEPT ![c] = 1]
                /\ ReachedSeen' = [ReachedSeen EXCEPT ![c] = 1]
           /\ \A u : Log!Admit(c, u) <=>
                /\ LogSeen # <<>> /\ PositionSeen[c] = Len(LogSeen) /\ u \notin LogSeen[Len(LogSeen)]
                /\ LogSeen' = Append(LogSeen, LogSeen[Len(LogSeen)] \cup {u})
                /\ PositionSeen' = [PositionSeen EXCEPT ![c] = Len(LogSeen) + 1]
                /\ ReachedSeen' = [ReachedSeen EXCEPT ![c] = Len(LogSeen) + 1]
           /\ Log!Enter(c) <=>
                /\ ReachedSeen[c] = 0 /\ LogSeen' = LogSeen
                /\ \E e \in 2..Len(LogSeen) :
                      /\ UserId[c] \in LogSeen[e] \ LogSeen[e - 1]
                      /\ PositionSeen' = [PositionSeen EXCEPT ![c] = e]
                      /\ ReachedSeen' = [ReachedSeen EXCEPT ![c] = e]
           /\ Log!Advance(c) <=>
                /\ PositionSeen[c] \in 1..(Len(LogSeen) - 1) /\ LogSeen' = LogSeen
                /\ PositionSeen' = [PositionSeen EXCEPT ![c] = PositionSeen[c] + 1]
                /\ ReachedSeen' = [ReachedSeen EXCEPT ![c] = PositionSeen[c] + 1]
           /\ Log!Stop(c) <=>
                /\ PositionSeen' = [PositionSeen EXCEPT ![c] = 0]
                /\ LogSeen' = LogSeen /\ ReachedSeen' = ReachedSeen
           /\ Log!Return(c) <=>
                /\ PositionSeen' = [PositionSeen EXCEPT ![c] = ReachedSeen[c]]
                /\ LogSeen' = LogSeen /\ ReachedSeen' = ReachedSeen
<1>1. Log!Found(c) <=>
        /\ LogSeen = <<>> /\ LogSeen' = <<{UserId[c]}>>
        /\ PositionSeen' = [PositionSeen EXCEPT ![c] = 1]
        /\ ReachedSeen' = [ReachedSeen EXCEPT ![c] = 1]
  BY Zenon DEF Log!Found, Log!GoTo, LogSeen, PositionSeen, ReachedSeen
<1>2. ASSUME NEW u
      PROVE  Log!Admit(c, u) <=>
                /\ LogSeen # <<>> /\ PositionSeen[c] = Len(LogSeen) /\ u \notin LogSeen[Len(LogSeen)]
                /\ LogSeen' = Append(LogSeen, LogSeen[Len(LogSeen)] \cup {u})
                /\ PositionSeen' = [PositionSeen EXCEPT ![c] = Len(LogSeen) + 1]
                /\ ReachedSeen' = [ReachedSeen EXCEPT ![c] = Len(LogSeen) + 1]
  BY Zenon DEF Log!Admit, Log!GoTo, LogSeen, PositionSeen, ReachedSeen
<1>3. Log!Enter(c) <=>
        /\ ReachedSeen[c] = 0 /\ LogSeen' = LogSeen
        /\ \E e \in 2..Len(LogSeen) :
              /\ UserId[c] \in LogSeen[e] \ LogSeen[e - 1]
              /\ PositionSeen' = [PositionSeen EXCEPT ![c] = e]
              /\ ReachedSeen' = [ReachedSeen EXCEPT ![c] = e]
  BY Zenon DEF Log!Enter, Log!GoTo, LogSeen, PositionSeen, ReachedSeen
<1>4. Log!Advance(c) <=>
        /\ PositionSeen[c] \in 1..(Len(LogSeen) - 1) /\ LogSeen' = LogSeen
        /\ PositionSeen' = [PositionSeen EXCEPT ![c] = PositionSeen[c] + 1]
        /\ ReachedSeen' = [ReachedSeen EXCEPT ![c] = PositionSeen[c] + 1]
  BY Zenon DEF Log!Advance, Log!GoTo, LogSeen, PositionSeen, ReachedSeen
<1>5. Log!Stop(c) <=>
        /\ PositionSeen' = [PositionSeen EXCEPT ![c] = 0]
        /\ LogSeen' = LogSeen /\ ReachedSeen' = ReachedSeen
  BY Zenon DEF Log!Stop, LogSeen, PositionSeen, ReachedSeen
<1>6. Log!Return(c) <=>
        /\ PositionSeen' = [PositionSeen EXCEPT ![c] = ReachedSeen[c]]
        /\ LogSeen' = LogSeen /\ ReachedSeen' = ReachedSeen
  BY Zenon DEF Log!Return, LogSeen, PositionSeen, ReachedSeen
<1> QED BY <1>1, <1>2, <1>3, <1>4, <1>5, <1>6

LogStep == (\E c \in Client : \/ Log!Found(c) \/ Log!Enter(c) \/ Log!Advance(c) \/ Log!Stop(c)
                              \/ Log!Return(c) \/ \E u \in User : Log!Admit(c, u))
           \/ UNCHANGED <<LogSeen, PositionSeen, ReachedSeen>>

LEMMA ConnectIsFound ==
    ASSUME BaseInv, BaseInv', Grows, Chain, NEW c \in Client, Connect(c)
    PROVE  LogStep
<1>1. CASE UNCHANGED docVars
  BY <1>1, SeenStays DEF docVars, mlsVars, LogStep
<1>2. CASE DocGenerateKeyPackage(c)
  BY <1>2, SeenStays DEF DocGenerateKeyPackage, GenerateKeyPackage, LogStep
<1>3. CASE c = Owner /\ ~Established(c) /\ pending[c] = 0 /\ DocCreate(c)
  <2>1. epochs = <<>> /\ Len(epochs) = 0
    BY <1>3, ConnectKeepsChain
  <2>2. PICK n \in Nat : n = Len(epochs) + 1 /\ n = 1
    BY <2>1
  <2>3. DocInv /\ WireShape /\ link' = [link EXCEPT ![c] = "online"] /\ disk' = disk
    BY ConnectSends DEF BaseInv
  <2>4. /\ group'[c] # NoGroup /\ group'[c].epoch = 1 /\ Len(epochs') = n
        /\ \A d \in Client \ {c} : group'[d] = group[d]
        /\ Members(n)' = {UserId[c]}
    BY <1>3, <2>2, <2>3, CreateStep DEF Established
  <2>5. LogSeen' = Append(LogSeen, {UserId[c]})
    BY <2>2, <2>4, LogGrows
  <2>6. LogSeen = <<>>
    BY <2>1, LogTyped
  <2>7. LogSeen' = <<{UserId[c]}>>
    BY <2>5, <2>6
  <2>8. /\ PositionSeen' = [PositionSeen EXCEPT ![c] = 1]
        /\ ReachedSeen' = [ReachedSeen EXCEPT ![c] = 1]
    BY <2>3, <2>4, SeenMoves
  <2>9. Log!Found(c)
    BY <2>6, <2>7, <2>8, LogActions
  <2> QED BY <2>9 DEF LogStep
<1> QED BY <1>1, <1>2, <1>3, ConnectSends

LEMMA AnswerIsAdmit ==
    ASSUME BaseInv, BaseInv', Grows, Chain, NEW c \in Client, NEW p, link[c] = "online", link' = link,
           Answers(c, p)
    PROVE  LogStep
<1>1. /\ DocInv /\ p \in DOMAIN packages /\ disk' = disk /\ Len(epochs) \in Nat
      /\ group[c].epoch \in DOMAIN epochs /\ DOMAIN epochs = 1..Len(epochs)
  BY GroupFields DEF Answers, BaseInv, DocInv, DocShape, DocCreateInvite, Established
<1>2. PICK n \in Nat : n = Len(epochs) + 1
  BY <1>1
<1>3. /\ group'[c] # NoGroup /\ group'[c].epoch = n /\ Len(epochs') = n
      /\ Members(n)' = Members(group[c].epoch) \cup {CredentialIdentity(p)}
      /\ \A d \in Client \ {c} : group'[d] = group[d]
  BY <1>1, <1>2, AddStep DEF Answers, Established
<1>4. group[c].epoch = Len(epochs) /\ epochs # <<>>
  BY <1>1 DEF Chain, OwnerAtTheEnd, Answers
<1>5. PICK u \in User : u = CredentialIdentity(p)
  <2>1. packages[p] \in Client
    BY <1>1 DEF BaseInv, DocInv, DocShape
  <2> QED BY <2>1, MlsAssumption DEF CredentialIdentity
<1>6. /\ Len(LogSeen) = Len(epochs) /\ LogSeen[Len(LogSeen)] = Members(Len(epochs)) /\ LogSeen # <<>>
  <2>1. Len(epochs) \in DOMAIN epochs
    BY <1>1, <1>4
  <2>2. Len(LogSeen) # 0
    BY <1>1, <1>4, LogTyped
  <2> QED BY <2>1, <2>2, LogTyped
<1>7. u \notin LogSeen[Len(LogSeen)]
  <2>1. LeavesOf(Len(epochs), u) = {}
    BY <1>4, <1>5 DEF Answers, IsMember
  <2> QED BY <1>6, <2>1, MembersHaveLeaves DEF LeavesOf
<1>8. LogSeen' = Append(LogSeen, LogSeen[Len(LogSeen)] \cup {u})
  BY <1>2, <1>3, <1>4, <1>5, <1>6, LogGrows
<1>9. PositionSeen[c] = Len(LogSeen)
  BY <1>4, <1>6 DEF PositionSeen, Answers
<1>10. /\ PositionSeen' = [PositionSeen EXCEPT ![c] = Len(LogSeen) + 1]
       /\ ReachedSeen' = [ReachedSeen EXCEPT ![c] = Len(LogSeen) + 1]
  BY <1>1, <1>2, <1>3, <1>6, SeenMoves
<1>11. Log!Admit(c, u)
  BY <1>6, <1>7, <1>8, <1>9, <1>10, LogActions
<1> QED BY <1>11 DEF LogStep

LEMMA JoinIsEnter ==
    ASSUME BaseInv, BaseInv', Grows, Chain, NEW c \in Client, NEW e, link[c] = "online", link' = link,
           Joins(c, e)
    PROVE  LogStep
<1>1. /\ DocInv /\ e \in DOMAIN epochs /\ epochs' = epochs /\ disk' = disk
      /\ \A d \in Client \ {c} : group'[d] = group[d]
      /\ OpensWelcome(c, e) => group'[c] # NoGroup /\ group'[c].epoch = e
      /\ ~OpensWelcome(c, e) => group' = group
  BY JoinStep DEF Joins, BaseInv
<1>2. CASE ~OpensWelcome(c, e)
  BY <1>1, <1>2, SeenStays DEF LogStep
<1>3. CASE OpensWelcome(c, e)
  <2>1. LogSeen' = LogSeen
    BY <1>1, LogStays
  <2>2. /\ PositionSeen' = [PositionSeen EXCEPT ![c] = e]
        /\ ReachedSeen' = [ReachedSeen EXCEPT ![c] = e]
    BY <1>1, <1>3, SeenMoves
  <2>3. ReachedSeen[c] = 0
    BY DEF Chain, NothingLeftOnDisk, ReachedSeen, Joins
  <2>4. Chained(e) /\ e # 1 /\ epochs[e].subject = pending[c] /\ packages[pending[c]] = c
    BY <1>1, <1>3 DEF OpensWelcome, Chain, ChainSound, Chained, BaseInv, DocInv, PendingSound, Joins
  <2>5. CredentialIdentity(epochs[e].subject) = UserId[c]
    BY <2>4 DEF CredentialIdentity
  <2>6. UserId[c] \in Members(e) \ Members(e - 1)
    BY <2>4, <2>5 DEF Chained
  <2>7. e \in 2..Len(LogSeen) /\ LogSeen[e] = Members(e) /\ LogSeen[e - 1] = Members(e - 1)
    <3>1. e \in 1..Len(epochs) /\ Len(epochs) \in Nat /\ Len(LogSeen) = Len(epochs)
      BY <1>1, LogTyped
    <3>2. e - 1 \in DOMAIN epochs
      BY <2>4, <3>1, LogTyped
    <3> QED BY <1>1, <2>4, <3>1, <3>2, LogTyped
  <2>8. Log!Enter(c)
    BY <2>1, <2>2, <2>3, <2>6, <2>7, LogActions
  <2> QED BY <2>8 DEF LogStep
<1> QED BY <1>2, <1>3

LEMMA FollowIsAdvance ==
    ASSUME BaseInv, BaseInv', Grows, Chain, NEW c \in Client, NEW e, link[c] = "online", link' = link,
           Follows(c, e)
    PROVE  LogStep
<1>1. /\ DocInv /\ e \in DOMAIN epochs /\ epochs' = epochs /\ disk' = disk
      /\ \A d \in Client \ {c} : group'[d] = group[d]
      /\ group'[c] # NoGroup /\ group'[c].epoch = e
  BY FollowStep DEF Follows, BaseInv
<1>2. /\ LogSeen' = LogSeen
      /\ PositionSeen' = [PositionSeen EXCEPT ![c] = e]
      /\ ReachedSeen' = [ReachedSeen EXCEPT ![c] = e]
  BY <1>1, LogStays, SeenMoves
<1>3. group[c].epoch = e - 1 /\ group[c].epoch \in DOMAIN epochs
  BY <1>1, GroupFields DEF Follows, Chain, ChainSound, Chained, Established
<1>4. PositionSeen[c] \in 1..(Len(LogSeen) - 1) /\ e = PositionSeen[c] + 1
  <2>1. e \in 1..Len(epochs) /\ e - 1 \in 1..Len(epochs) /\ Len(epochs) \in Nat /\ Len(LogSeen) = Len(epochs)
    BY <1>1, <1>3, LogTyped
  <2>2. PositionSeen[c] = e - 1
    BY <1>3 DEF PositionSeen, Follows
  <2> QED BY <2>1, <2>2
<1>5. Log!Advance(c)
  BY <1>2, <1>4, LogActions
<1> QED BY <1>5 DEF LogStep

LEMMA StopIsStop ==
    ASSUME BaseInv, BaseInv', Grows, Chain, WritesLand, NEW c \in Client, StopSession(c)
    PROVE  LogStep
<1>1. /\ epochs' = epochs /\ group'[c] = NoGroup /\ disk'[c] = group[c] /\ link[c] # "stopped"
      /\ \A d \in Client \ {c} : group'[d] = group[d] /\ disk'[d] = disk[d]
  BY StopStep DEF BaseInv, StopSession
<1>2. LogSeen' = LogSeen
  BY <1>1, LogStays
<1>3. PositionSeen' = [PositionSeen EXCEPT ![c] = 0]
  BY <1>1 DEF PositionSeen, Established
<1>4. ReachedSeen' = ReachedSeen
  <2>1. group[c] = NoGroup => disk[c] = NoGroup
    BY <1>1 DEF Chain, NothingLeftOnDisk, Established
  <2> QED BY <1>1, <2>1 DEF ReachedSeen, Established
<1>5. Log!Stop(c)
  BY <1>2, <1>3, <1>4, LogActions
<1> QED BY <1>5 DEF LogStep

LEMMA StartIsReturn ==
    ASSUME BaseInv, BaseInv', Grows, Chain, NEW c \in Client, StartSession(c)
    PROVE  LogStep
<1>1. /\ epochs' = epochs /\ disk' = disk /\ ~Established(c)
      /\ \A d \in Client \ {c} : group'[d] = group[d]
      /\ disk[c] = NoGroup => group' = group
      /\ disk[c] # NoGroup => group'[c] # NoGroup /\ group'[c].epoch = disk[c].epoch
  BY ReturnStep DEF BaseInv, StartSession, DocInv, PendingSound
<1>2. LogSeen' = LogSeen
  BY <1>1, LogStays
<1>3. CASE disk[c] = NoGroup
  BY <1>1, <1>3, SeenStays DEF LogStep
<1>4. CASE disk[c] # NoGroup
  <2>1. ReachedSeen[c] = disk[c].epoch
    BY <1>1, <1>4 DEF ReachedSeen
  <2>2. PositionSeen' = [PositionSeen EXCEPT ![c] = ReachedSeen[c]]
    BY <1>1, <1>4, <2>1, SeenMoves
  <2>3. ReachedSeen' = ReachedSeen
    BY <1>1, <1>4 DEF ReachedSeen, Established
  <2>4. Log!Return(c)
    BY <1>2, <2>2, <2>3, LogActions
  <2> QED BY <2>4 DEF LogStep
<1> QED BY <1>3, <1>4

LEMMA StepIsLogStep ==
    ASSUME BaseInv, BaseInv', Grows, Chain, WritesLand, [Next]_vars
    PROVE  LogStep
<1>1. ASSUME UNCHANGED <<epochs, group, disk>>
      PROVE  LogStep
  BY <1>1, SeenStays DEF LogStep
<1>2. ASSUME NEW c \in Client, RelayHandle(c)
      PROVE  LogStep
  BY <1>1, <1>2, RelayTakes DEF docVars, mlsVars
<1>3. ASSUME NEW c \in Client, Drop(c) \/ ExpireJoin(c)
      PROVE  LogStep
  BY <1>1, <1>3 DEF Drop, ExpireJoin, docVars, mlsVars
<1>4. CASE UNCHANGED vars
  BY <1>1, <1>4 DEF vars, docVars, mlsVars
<1>5. ASSUME NEW c \in Client, Receive(c)
      PROVE  LogStep
  <2>1. CASE UNCHANGED <<docVars, wire>>
    BY <1>1, <2>1 DEF docVars, mlsVars
  <2> QED BY <1>5, <2>1, ReceiveDoes, AnswerIsAdmit, JoinIsEnter, FollowIsAdvance
<1> QED BY <1>2, <1>3, <1>4, <1>5, ConnectIsFound, StopIsStop, StartIsReturn DEF Next, Progress, Fault

\* main.ts:530-541, collab-client.ts:352-380: where a save at the end of a session
\* is written, the group is one sequence of epochs, whatever frames and sessions are
\* lost: a session that starts again goes on where the last one stopped, and no
\* member is taken back or onto a branch of its own.  Every step of the handshake
\* is one of GroupLog, or changes nothing that GroupLog sees.
THEOREM HandshakeMakesOneLog ==
    ASSUME WritesLand
    PROVE  Spec => ImplementsLog
<1>1. Init => Log!Init
  <2> SUFFICES ASSUME Init PROVE Log!Init
    OBVIOUS
  <2>1. epochs = <<>> /\ group = [c \in Client |-> NoGroup] /\ disk = [c \in Client |-> NoGroup]
    BY DEF Init, DocInit, MlsInit
  <2>2. LogSeen = <<>>
    BY <2>1, InitBase, LogTyped
  <2>3. PositionSeen = [c \in Client |-> 0] /\ ReachedSeen = [c \in Client |-> 0]
    BY <2>1 DEF PositionSeen, ReachedSeen, Established
  <2> QED BY <2>2, <2>3, Zenon DEF Log!Init, LogSeen, PositionSeen, ReachedSeen
<1>2. BaseInv /\ BaseInv' /\ Chain /\ [Next]_vars => [Log!Next]_Log!vars
  <2> SUFFICES ASSUME BaseInv, BaseInv', Chain, [Next]_vars
               PROVE  [Log!Next]_Log!vars
    OBVIOUS
  <2>1. LogStep
    BY StepKeepsBase, StepIsLogStep
  <2>2. CASE UNCHANGED <<LogSeen, PositionSeen, ReachedSeen>>
    BY <2>2, Zenon DEF Log!vars, LogSeen, PositionSeen, ReachedSeen
  <2>3. CASE ~UNCHANGED <<LogSeen, PositionSeen, ReachedSeen>>
    BY <2>1, <2>3, Zenon DEF LogStep, Log!Next
  <2> QED BY <2>2, <2>3
<1>3. Kept
  BY DEF Kept
<1> QED BY <1>1, <1>2, <1>3, BaseAlways, ChainAlways, PTL DEF Spec, ImplementsLog, Log!Spec

-----------------------------------------------------------------------------
(* While nothing was lost, the owner's registrations are ahead of all that   *)
(* depends on them.                                                          *)

\* The frames the owner has sent, for an anchor a and n epochs: their epochs go up,
\* and every epoch above the anchor is registered before it is used.
OwnerFrames(w, a, n) ==
    /\ \A i \in DOMAIN w : w[i].e <= n /\ (w[i].type = "register" => w[i].e > a)
    /\ \A i, j \in DOMAIN w : i < j =>
          w[i].e <= w[j].e /\ (w[j].type = "register" => w[i].e < w[j].e)
    /\ \A e \in (a + 1)..n : \E i \in DOMAIN w : w[i].type = "register" /\ w[i].e = e

\* The first of them is the next registration, or is not ahead of the anchor.
LEMMA FirstFrame ==
    ASSUME NEW w \in Seq(FrameRecord), w # <<>>, NEW a \in Nat, NEW n \in Nat, a <= n,
           OwnerFrames(w, a, n)
    PROVE  /\ Head(w).type = "register" => Head(w).e = a + 1 /\ OwnerFrames(Tail(w), a + 1, n)
           /\ Head(w).type # "register" => Head(w).e <= a /\ OwnerFrames(Tail(w), a, n)
<1>1. /\ Len(w) \in Nat \ {0} /\ DOMAIN w = 1..Len(w) /\ Head(w) = w[1]
      /\ DOMAIN Tail(w) = 1..(Len(w) - 1) /\ \A i \in 1..(Len(w) - 1) : Tail(w)[i] = w[i + 1]
      /\ \A i \in 1..Len(w) : w[i] \in FrameRecord
  <2>1. Len(w) \in Nat \ {0} /\ DOMAIN w = 1..Len(w)
    BY EmptySeq, LenProperties
  <2>2. Tail(w) \in Seq(FrameRecord) /\ Len(Tail(w)) = Len(w) - 1
        /\ \A i \in 1..Len(Tail(w)) : Tail(w)[i] = w[i + 1]
    BY HeadTailProperties
  <2>3. DOMAIN Tail(w) = 1..Len(Tail(w))
    BY <2>2, LenProperties
  <2> QED BY <2>1, <2>2, <2>3, ElementOfSeq
<1>2. \A i \in 1..Len(w) : w[i].e \in Nat
  BY <1>1 DEF FrameRecord
<1>3. \A i \in DOMAIN Tail(w) : i + 1 \in DOMAIN w /\ 1 \in DOMAIN w /\ 1 < i + 1 /\ Tail(w)[i] = w[i + 1]
  BY <1>1
<1>4. \A i \in DOMAIN w : i # 1 => i - 1 \in DOMAIN Tail(w) /\ Tail(w)[i - 1] = w[i]
  BY <1>1
<1>5. \A i, j \in DOMAIN Tail(w) : i < j =>
         Tail(w)[i].e <= Tail(w)[j].e /\ (Tail(w)[j].type = "register" => Tail(w)[i].e < Tail(w)[j].e)
  <2> SUFFICES ASSUME NEW i \in DOMAIN Tail(w), NEW j \in DOMAIN Tail(w), i < j
               PROVE  Tail(w)[i].e <= Tail(w)[j].e /\ (Tail(w)[j].type = "register" => Tail(w)[i].e < Tail(w)[j].e)
    OBVIOUS
  <2>1. i + 1 \in DOMAIN w /\ j + 1 \in DOMAIN w /\ i + 1 < j + 1
    BY <1>1
  <2>2. w[i + 1].e <= w[j + 1].e /\ (w[j + 1].type = "register" => w[i + 1].e < w[j + 1].e)
    BY <2>1 DEF OwnerFrames
  <2> QED BY <1>3, <2>2
<1>6. CASE Head(w).type = "register"
  <2>1. w[1].e > a /\ w[1].e <= n
    BY <1>1, <1>6 DEF OwnerFrames
  <2>2. PICK k \in DOMAIN w : w[k].type = "register" /\ w[k].e = a + 1
    <3>1. a + 1 \in (a + 1)..n
      BY <1>1, <1>2, <2>1
    <3> QED BY <3>1 DEF OwnerFrames
  <2>3. w[1].e = a + 1
    <3>1. CASE k = 1
      BY <2>2, <3>1
    <3>2. CASE k # 1
      <4>1. 1 < k
        BY <1>1, <3>2
      <4>2. w[1].e < w[k].e
        BY <1>1, <2>2, <4>1 DEF OwnerFrames
      <4> QED BY <1>1, <1>2, <2>1, <2>2, <4>2
    <3> QED BY <3>1, <3>2
  <2>4. ASSUME NEW i \in DOMAIN Tail(w)
        PROVE  Tail(w)[i].e <= n /\ (Tail(w)[i].type = "register" => Tail(w)[i].e > a + 1)
    BY <1>3, <2>3, <2>4 DEF OwnerFrames
  <2>5. ASSUME NEW e \in (a + 1 + 1)..n
        PROVE  \E i \in DOMAIN Tail(w) : Tail(w)[i].type = "register" /\ Tail(w)[i].e = e
    <3>1. e \in (a + 1)..n /\ e # a + 1
      BY <2>5
    <3>2. PICK i \in DOMAIN w : w[i].type = "register" /\ w[i].e = e
      BY <3>1 DEF OwnerFrames
    <3> QED BY <1>4, <2>3, <3>1, <3>2
  <2> QED BY <1>1, <1>5, <1>6, <2>3, <2>4, <2>5 DEF OwnerFrames
<1>7. CASE Head(w).type # "register"
  <2>1. w[1].e <= a
    <3> SUFFICES ASSUME ~(w[1].e <= a) PROVE FALSE
      OBVIOUS
    <3>1. w[1].e \in (a + 1)..n
      BY <1>1, <1>2 DEF OwnerFrames
    <3>2. PICK k \in DOMAIN w : w[k].type = "register" /\ w[k].e = w[1].e
      BY <3>1 DEF OwnerFrames
    <3>3. 1 < k
      BY <1>1, <1>7, <3>2
    <3>4. w[1].e < w[k].e
      BY <1>1, <3>2, <3>3 DEF OwnerFrames
    <3> QED BY <1>1, <1>2, <3>2, <3>4
  <2>2. \A i \in DOMAIN Tail(w) : Tail(w)[i].e <= n /\ (Tail(w)[i].type = "register" => Tail(w)[i].e > a)
    BY <1>3 DEF OwnerFrames
  <2>3. ASSUME NEW e \in (a + 1)..n
        PROVE  \E i \in DOMAIN Tail(w) : Tail(w)[i].type = "register" /\ Tail(w)[i].e = e
    <3>1. PICK i \in DOMAIN w : w[i].type = "register" /\ w[i].e = e
      BY <2>3 DEF OwnerFrames
    <3>2. i # 1
      BY <1>1, <1>7, <3>1
    <3> QED BY <1>4, <3>1, <3>2
  <2> QED BY <1>1, <1>5, <1>7, <2>1, <2>2, <2>3 DEF OwnerFrames
<1> QED BY <1>6, <1>7

\* Frames of a new epoch, the registration first, go behind the others.
LEMMA NewFrames ==
    ASSUME NEW w \in Seq(FrameRecord), NEW a \in Nat, NEW n \in Nat, a <= n, OwnerFrames(w, a, n),
           NEW new \in Seq(FrameRecord), 1 \in DOMAIN new, new[1].type = "register",
           \A i \in DOMAIN new : new[i].e = n + 1 /\ (i # 1 => new[i].type # "register")
    PROVE  OwnerFrames(w \o new, a, n + 1)
<1> DEFINE v == w \o new
<1>1. /\ Len(w) \in Nat /\ Len(new) \in Nat /\ DOMAIN w = 1..Len(w) /\ DOMAIN new = 1..Len(new)
      /\ DOMAIN v = 1..Len(w) + Len(new)
      /\ \A i \in 1..Len(w) + Len(new) : v[i] = IF i <= Len(w) THEN w[i] ELSE new[i - Len(w)]
  <2>1. /\ v \in Seq(FrameRecord) /\ Len(v) = Len(w) + Len(new)
        /\ \A i \in 1..Len(w) + Len(new) : v[i] = IF i <= Len(w) THEN w[i] ELSE new[i - Len(w)]
    BY ConcatProperties
  <2> HIDE DEF v
  <2> QED BY <2>1, LenProperties
<1> HIDE DEF v
<1>2. \A i \in DOMAIN v : \/ i \in DOMAIN w /\ v[i] = w[i]
                          \/ ~(i <= Len(w)) /\ i - Len(w) \in DOMAIN new /\ v[i] = new[i - Len(w)]
  <2> SUFFICES ASSUME NEW i \in DOMAIN v
               PROVE  \/ i \in DOMAIN w /\ v[i] = w[i]
                      \/ ~(i <= Len(w)) /\ i - Len(w) \in DOMAIN new /\ v[i] = new[i - Len(w)]
    OBVIOUS
  <2>1. i \in 1..Len(w) + Len(new) /\ v[i] = IF i <= Len(w) THEN w[i] ELSE new[i - Len(w)]
    BY <1>1
  <2>2. i <= Len(w) => i \in DOMAIN w
    BY <1>1, <2>1
  <2>3. ~(i <= Len(w)) => i - Len(w) \in DOMAIN new
    BY <1>1, <2>1
  <2> QED BY <2>1, <2>2, <2>3
<1>3. \A i \in DOMAIN w : w[i].e \in Nat
  <2>1. \A i \in DOMAIN w : w[i] \in FrameRecord
    BY <1>1, ElementOfSeq
  <2> QED BY <2>1 DEF FrameRecord
<1>4. ASSUME NEW i \in DOMAIN v
      PROVE  v[i].e <= n + 1 /\ (v[i].type = "register" => v[i].e > a)
  <2>1. CASE i \in DOMAIN w /\ v[i] = w[i]
    BY <1>3, <2>1 DEF OwnerFrames
  <2>2. CASE i - Len(w) \in DOMAIN new /\ v[i] = new[i - Len(w)]
    BY <2>2
  <2> QED BY <1>2, <2>1, <2>2
<1>5. ASSUME NEW i \in DOMAIN v, NEW j \in DOMAIN v, i < j
      PROVE  v[i].e <= v[j].e /\ (v[j].type = "register" => v[i].e < v[j].e)
  <2>1. CASE j \in DOMAIN w /\ v[j] = w[j]
    <3>1. i \in DOMAIN w /\ v[i] = w[i]
      BY <1>1, <1>5, <2>1
    <3> QED BY <1>5, <2>1, <3>1 DEF OwnerFrames
  <2>2. CASE ~(j <= Len(w)) /\ j - Len(w) \in DOMAIN new /\ v[j] = new[j - Len(w)]
    <3>1. v[j].e = n + 1
      BY <2>2
    <3>2. CASE i \in DOMAIN w /\ v[i] = w[i]
      <4>1. v[i].e <= n /\ v[i].e \in Nat
        BY <1>3, <3>2 DEF OwnerFrames
      <4> QED BY <3>1, <4>1
    <3>3. CASE ~(i <= Len(w)) /\ i - Len(w) \in DOMAIN new /\ v[i] = new[i - Len(w)]
      <4>1. v[i].e = n + 1 /\ j - Len(w) # 1
        BY <1>1, <1>5, <2>2, <3>3
      <4>2. v[j].type # "register"
        BY <2>2, <4>1
      <4> QED BY <3>1, <4>1, <4>2
    <3> QED BY <1>2, <3>2, <3>3
  <2> QED BY <1>2, <2>1, <2>2
<1>6. ASSUME NEW e \in (a + 1)..(n + 1)
      PROVE  \E i \in DOMAIN v : v[i].type = "register" /\ v[i].e = e
  <2>1. CASE e \in (a + 1)..n
    <3>1. PICK i \in DOMAIN w : w[i].type = "register" /\ w[i].e = e
      BY <2>1 DEF OwnerFrames
    <3>2. i \in DOMAIN v /\ v[i] = w[i]
      BY <1>1
    <3> QED BY <3>1, <3>2
  <2>2. CASE e = n + 1
    <3>1. Len(w) + 1 \in DOMAIN v /\ v[Len(w) + 1] = new[1]
      BY <1>1
    <3> QED BY <2>2, <3>1
  <2> QED BY <2>1, <2>2
<1>7. OwnerFrames(v, a, n + 1)
  BY <1>4, <1>5, <1>6 DEF OwnerFrames
<1> QED BY <1>7 DEF v

\* The frames of a group that is made.
LEMMA FoundingFrames ==
    ASSUME NEW x \in FrameRecord, NEW y \in FrameRecord, NEW z \in FrameRecord,
           x.type = "subscribe", x.e = 0, y.type = "register", y.e = 1, z.type = "subscribe", z.e = 1
    PROVE  OwnerFrames(<<x, y, z>>, 0, 1)
<1> DEFINE w == <<x, y, z>>
<1>1. DOMAIN w = {1, 2, 3} /\ w[1] = x /\ w[2] = y /\ w[3] = z
  OBVIOUS
<1> HIDE DEF w
<1>2. \A i \in DOMAIN w : w[i].e <= 1 /\ (w[i].type = "register" => w[i].e > 0)
  BY <1>1
<1>3. \A i, j \in DOMAIN w : i < j =>
         w[i].e <= w[j].e /\ (w[j].type = "register" => w[i].e < w[j].e)
  BY <1>1
<1>4. \A e \in 1..1 : \E i \in DOMAIN w : w[i].type = "register" /\ w[i].e = e
  BY <1>1
<1>5. OwnerFrames(w, 0, 1)
  BY <1>2, <1>3, <1>4 DEF OwnerFrames
<1> QED BY <1>5 DEF w

\* Without a fault a client is online once it has something to lose, the owner's
\* frames are in order, and nothing else is ahead of the anchor.
NobodyWasCut == \A c \in Client :
    /\ link[c] # "stopped"
    /\ link[c] = "offline" => ~Established(c) /\ pending[c] = 0 /\ wire[c] = <<>>

AnchorLeads ==
    /\ OwnerFrames(wire[Owner], anchor, Len(epochs))
    /\ \A c \in Client \ {Owner} : \A f \in Elements(wire[c]) :
          f.type = "subscribe" => f.e <= anchor
    /\ \A c \in Client : \A f \in Elements(inbox[c]) :
          f.type # "key_package" => f.e <= anchor

Undisturbed == NobodyWasCut /\ AnchorLeads

\* The anchor follows the owner's registration.
LEMMA RelayKeepsLead ==
    ASSUME BaseInv, BaseInv', Chain, Undisturbed, NEW c \in Client, RelayHandle(c)
    PROVE  Undisturbed'
<1> DEFINE f == Head(wire[c])
<1>1. /\ wire[c] # <<>> /\ f \in FrameRecord /\ WireFrame(c, f)
      /\ wire' = [wire EXCEPT ![c] = Tail(wire[c])]
      /\ \A d \in Client : Elements(wire'[d]) \subseteq Elements(wire[d])
      /\ UNCHANGED <<docVars, link, faults>>
  BY RelayTakes
<1>2. /\ wire \in [Client -> Seq(FrameRecord)] /\ wire[c] \in Seq(FrameRecord)
      /\ anchor \in Nat /\ Len(epochs) \in Nat /\ DOMAIN epochs = 1..Len(epochs) /\ anchor <= Len(epochs)
      /\ Owner \in Client
  <2>1. wire \in [Client -> Seq(FrameRecord)] /\ anchor \in Nat /\ anchor <= Len(epochs)
    BY DEF BaseInv, WireShape, FramesSound
  <2>2. Len(epochs) \in Nat /\ DOMAIN epochs = 1..Len(epochs)
    BY DEF BaseInv, DocInv, DocShape
  <2> QED BY <2>1, <2>2, HandshakeAssumption
<1>3. f.e \in Nat /\ f.type \in {"register", "subscribe", "key_package", "commit", "welcome"}
  BY <1>1 DEF FrameRecord
<1>4. UNCHANGED <<epochs, group, pending, link>>
  BY <1>1 DEF docVars, mlsVars
<1>5. NobodyWasCut'
  BY <1>1, <1>2, <1>4 DEF Undisturbed, NobodyWasCut, Established
<1>6. /\ f.type = "register" => anchor' = IF AcceptsAnchor(f.e) THEN f.e ELSE anchor
      /\ f.type # "register" => anchor' = anchor
      /\ inbox' # inbox => f.type \in Handshakes /\ inbox' = [d \in Client |->
                              IF d \in subscribers \ {c} THEN Append(inbox[d], f) ELSE inbox[d]]
  BY <1>3 DEF RelayHandle, Handshakes, relayVars
<1>7. ASSUME f.type \in Handshakes, inbox' # inbox
      PROVE  \A d \in Client : Elements(inbox'[d]) \subseteq Elements(inbox[d]) \cup {f}
  <2>1. PICK h \in FrameRecord : h = f
    BY <1>1
  <2>2. PICK S \in SUBSET Client : S = subscribers \ {c}
    BY DEF BaseInv, WireShape
  <2>3. inbox' = [d \in Client |-> IF d \in S THEN Append(inbox[d], h) ELSE inbox[d]]
    BY <1>6, <1>7, <2>1, <2>2
  <2>4. WireShape
    BY DEF BaseInv
  <2> HIDE DEF f
  <2>5. \A d \in Client : Elements(inbox'[d]) \subseteq
             Elements(inbox[d]) \cup (IF d \in S THEN {h} ELSE {})
    BY <2>3, <2>4, FanOutTyped
  <2> QED BY <2>1, <2>5
<1>8. ASSUME anchor' \in Nat, anchor <= anchor',
             OwnerFrames(wire'[Owner], anchor', Len(epochs)),
             inbox' # inbox => (f.type # "key_package" => f.e <= anchor')
      PROVE  AnchorLeads'
  <2>1. OwnerFrames(wire[Owner], anchor, Len(epochs))'
    BY <1>4, <1>8
  <2>2. ASSUME NEW d \in Client \ {Owner}, NEW g \in Elements(wire'[d]), g.type = "subscribe"
        PROVE  g.e <= anchor'
    <3>1. g \in Elements(wire[d]) /\ g.e <= anchor
      BY <1>1, <2>2 DEF Undisturbed, AnchorLeads
    <3>2. g.e \in Nat
      <4>1. wire[d] \in Seq(FrameRecord)
        BY <1>2
      <4>2. g \in FrameRecord
        BY <3>1, <4>1, LenProperties, ElementOfSeq DEF Elements
      <4> QED BY <4>2 DEF FrameRecord
    <3> QED BY <1>2, <1>8, <3>1, <3>2
  <2>3. ASSUME NEW d \in Client, NEW g \in Elements(inbox'[d]), g.type # "key_package"
        PROVE  g.e <= anchor'
    <3>1. CASE g \in Elements(inbox[d])
      <4>1. g.e <= anchor
        BY <2>3, <3>1 DEF Undisturbed, AnchorLeads
      <4>2. g.e \in Nat
        <5>1. inbox[d] \in Seq(FrameRecord)
          BY DEF BaseInv, WireShape
        <5>2. g \in FrameRecord
          BY <3>1, <5>1, LenProperties, ElementOfSeq DEF Elements
        <5> QED BY <5>2 DEF FrameRecord
      <4> QED BY <1>2, <1>8, <4>1, <4>2
    <3>2. CASE g \notin Elements(inbox[d])
      <4>1. inbox' # inbox
        BY <2>3, <3>2
      <4>2. g = f
        BY <1>6, <1>7, <2>3, <3>2, <4>1
      <4> QED BY <1>8, <2>3, <4>1, <4>2
    <3> QED BY <3>1, <3>2
  <2> QED BY <2>1, <2>2, <2>3 DEF AnchorLeads
<1>9. CASE c = Owner /\ f.type = "register"
  <2>1. /\ f.e = anchor + 1 /\ OwnerFrames(Tail(wire[c]), anchor + 1, Len(epochs))
    BY <1>1, <1>2, <1>9, FirstFrame DEF Undisturbed, AnchorLeads
  <2>2. f.e \in DOMAIN epochs
    BY <1>1, <1>9 DEF WireFrame
  <2>3. AcceptsAnchor(f.e)
    <3>1. epochs[f.e].parent = anchor /\ epochs[f.e].number = anchor
      <4>1. PICK e \in DOMAIN epochs : e = f.e
        BY <2>2
      <4>2. epochs[e].parent = e - 1 /\ epochs[e].number = e - 1
        BY DEF Chain, ChainSound, Chained
      <4>3. e - 1 = anchor
        BY <1>2, <2>1, <4>1
      <4> QED BY <4>1, <4>2, <4>3
    <3>2. CASE anchor = 0
      BY <3>2 DEF AcceptsAnchor
    <3>3. CASE anchor # 0
      <4>1. anchor \in DOMAIN epochs
        BY <1>2, <3>3
      <4>2. epochs[anchor].number = anchor - 1
        BY <4>1 DEF Chain, ChainSound, Chained
      <4> QED BY <1>2, <3>1, <4>2 DEF AcceptsAnchor
    <3> QED BY <3>2, <3>3
  <2>4. anchor' = anchor + 1
    BY <1>6, <1>9, <2>1, <2>3
  <2>5. wire'[Owner] = Tail(wire[c])
    BY <1>1, <1>2, <1>9
  <2>6. inbox' = inbox
    BY <1>6, <1>9 DEF Handshakes
  <2> QED BY <1>2, <1>5, <1>8, <2>1, <2>4, <2>5, <2>6 DEF Undisturbed
<1>10. CASE c = Owner /\ f.type # "register"
  <2>1. f.e <= anchor /\ OwnerFrames(Tail(wire[c]), anchor, Len(epochs))
    BY <1>1, <1>2, <1>10, FirstFrame DEF Undisturbed, AnchorLeads
  <2>2. anchor' = anchor /\ wire'[Owner] = Tail(wire[c])
    BY <1>1, <1>2, <1>6, <1>10
  <2> QED BY <1>2, <1>5, <1>8, <2>1, <2>2 DEF Undisturbed
<1>11. CASE c # Owner
  <2>1. f.type \notin {"register", "commit", "welcome"}
    BY <1>1, <1>11 DEF WireFrame
  <2>2. anchor' = anchor /\ wire'[Owner] = wire[Owner]
    BY <1>1, <1>2, <1>6, <1>11, <2>1
  <2>3. inbox' # inbox => f.type = "key_package"
    BY <1>6, <2>1 DEF Handshakes
  <2>4. OwnerFrames(wire'[Owner], anchor', Len(epochs))
    BY <2>2 DEF Undisturbed, AnchorLeads
  <2> QED BY <1>2, <1>5, <1>8, <2>2, <2>3, <2>4 DEF Undisturbed
<1> QED BY <1>9, <1>10, <1>11

\* A frame a client has sent or is to take has a number.
LEMMA FramesTyped ==
    ASSUME WireShape, NEW c \in Client
    PROVE  /\ \A f \in Elements(wire[c]) : f \in FrameRecord /\ f.e \in Nat
           /\ \A f \in Elements(inbox[c]) : f \in FrameRecord /\ f.e \in Nat
<1>1. wire[c] \in Seq(FrameRecord) /\ inbox[c] \in Seq(FrameRecord)
  BY DEF WireShape
<1>2. /\ \A f \in Elements(wire[c]) : f \in FrameRecord
      /\ \A f \in Elements(inbox[c]) : f \in FrameRecord
  BY <1>1, LenProperties, ElementOfSeq DEF Elements
<1> QED BY <1>2 DEF FrameRecord

LEMMA ConnectKeepsLead ==
    ASSUME BaseInv, BaseInv', Chain, Undisturbed, NEW c \in Client, Connect(c)
    PROVE  Undisturbed'
<1>1. /\ link[c] = "offline" /\ link' = [link EXCEPT ![c] = "online"]
      /\ inbox' = inbox /\ anchor' = anchor
      /\ ~Established(c) /\ pending[c] = 0 /\ wire[c] = <<>>
      /\ link \in [Client -> {"stopped", "offline", "online"}] /\ wire \in [Client -> Seq(FrameRecord)]
      /\ anchor \in Nat /\ DocInv /\ WireShape /\ Owner \in Client
  BY ConnectSends, HandshakeAssumption
     DEF Undisturbed, NobodyWasCut, relayVars, BaseInv, WireShape
<1>2. CASE /\ c = Owner /\ DocCreate(c)
           /\ \A e : e = Len(epochs) + 1 =>
                 Send(c, <<Frame("subscribe", 0), Frame("register", e), Frame("subscribe", e)>>)
  <2>1. epochs = <<>> /\ Len(epochs) = 0 /\ anchor = 0
    <3>1. epochs = <<>> /\ Len(epochs) = 0
      BY <1>1, <1>2, ConnectKeepsChain, StepKeepsBase DEF Next, Progress
    <3> QED BY <1>1, <3>1 DEF BaseInv, FramesSound
  <2>2. Send(c, <<Frame("subscribe", 0), Frame("register", 1), Frame("subscribe", 1)>>)
    BY <1>2, <2>1
  <2>3. PICK x, y, z \in FrameRecord :
           /\ x = Frame("subscribe", 0) /\ y = Frame("register", 1) /\ z = Frame("subscribe", 1)
           /\ x.type = "subscribe" /\ x.e = 0 /\ y.type = "register" /\ y.e = 1
           /\ z.type = "subscribe" /\ z.e = 1
    BY FrameTyped
  <2>4. <<x, y, z>> \in Seq(FrameRecord)
    BY FewFrames
  <2>5. /\ wire'[c] = wire[c] \o <<x, y, z>> /\ \A d \in Client \ {c} : wire'[d] = wire[d]
    BY <1>1, <2>2, <2>3, <2>4, SendAdds
  <2>6. wire'[Owner] = <<x, y, z>>
    BY <1>1, <1>2, <2>4, <2>5, ConcatEmptySeq
  <2>7. Len(epochs') = 1 /\ \A d \in Client \ {c} : group'[d] = group[d]
    <3>1. Len(epochs') = Len(epochs) + 1 /\ \A d \in Client \ {c} : group'[d] = group[d]
      BY <1>1, <1>2, CreateStep
    <3> QED BY <2>1, <3>1
  <2>8. OwnerFrames(wire'[Owner], anchor', Len(epochs'))
    BY <1>1, <2>1, <2>3, <2>6, <2>7, FoundingFrames
  <2>9. AnchorLeads'
    BY <1>1, <1>2, <2>5, <2>8 DEF Undisturbed, AnchorLeads
  <2>10. NobodyWasCut'
    <3>1. pending' = pending
      BY <1>2 DEF DocCreate, MlsCreate
    <3> QED BY <1>1, <2>5, <2>7, <3>1 DEF Undisturbed, NobodyWasCut, Established
  <2> QED BY <2>9, <2>10 DEF Undisturbed
<1>3. CASE /\ c # Owner /\ DocGenerateKeyPackage(c)
           /\ \A p : p = Len(packages) + 1 => Send(c, <<Frame("subscribe", 0), Frame("key_package", p)>>)
  <2>1. /\ epochs' = epochs /\ group' = group /\ pending' = [pending EXCEPT ![c] = Len(packages) + 1]
        /\ pending \in [Client -> Nat]
    BY <1>1, <1>3 DEF DocGenerateKeyPackage, GenerateKeyPackage, DocInv, DocShape
  <2>2. PICK p \in Nat : p = Len(packages) + 1
    BY <1>1 DEF DocInv, DocShape
  <2>3. PICK x, y \in FrameRecord :
           /\ x = Frame("subscribe", 0) /\ y = Frame("key_package", p)
           /\ x.type = "subscribe" /\ x.e = 0 /\ y.type = "key_package"
    BY FrameTyped
  <2>4. <<x, y>> \in Seq(FrameRecord) /\ Elements(<<x, y>>) = {x, y}
    BY FewFrames
  <2>5. Send(c, <<x, y>>)
    BY <1>3, <2>2, <2>3
  <2>6. /\ \A d \in Client \ {c} : wire'[d] = wire[d]
        /\ Elements(wire'[c]) = Elements(wire[c]) \cup {x, y}
    BY <1>1, <2>4, <2>5, SendAdds
  <2>7. wire'[Owner] = wire[Owner] /\ x.e <= anchor /\ y.type # "subscribe"
    BY <1>1, <1>3, <2>3, <2>6
  <2>8. ASSUME NEW d \in Client \ {Owner}, NEW f \in Elements(wire'[d]), f.type = "subscribe"
        PROVE  f.e <= anchor'
    <3>1. f \in Elements(wire[d]) \/ f = x
      BY <2>6, <2>7, <2>8
    <3> QED BY <1>1, <2>7, <2>8, <3>1 DEF Undisturbed, AnchorLeads
  <2>9. AnchorLeads'
    BY <1>1, <2>1, <2>7, <2>8 DEF Undisturbed, AnchorLeads
  <2>10. NobodyWasCut'
    BY <1>1, <2>1, <2>6 DEF Undisturbed, NobodyWasCut, Established
  <2> QED BY <2>9, <2>10 DEF Undisturbed
<1> QED BY <1>1, <1>2, <1>3, ConnectSends

LEMMA ReceiveKeepsLead ==
    ASSUME BaseInv, BaseInv', Chain, Undisturbed, NEW c \in Client, Receive(c)
    PROVE  Undisturbed'
<1> DEFINE f == Head(inbox[c])
<1>1. /\ link[c] = "online" /\ link' = link /\ anchor' = anchor
      /\ \A d \in Client : Elements(inbox'[d]) \subseteq Elements(inbox[d])
      /\ f \in Elements(inbox[c])
      /\ \/ f.type = "key_package" /\ Answers(c, f.e)
         \/ f.type = "welcome" /\ Joins(c, f.e)
         \/ f.type = "commit" /\ Follows(c, f.e)
         \/ UNCHANGED <<docVars, wire>>
  BY ReceiveDoes DEF relayVars
<1>2. /\ anchor \in Nat /\ Len(epochs) \in Nat /\ anchor <= Len(epochs)
      /\ DocInv /\ WireShape /\ Owner \in Client /\ wire \in [Client -> Seq(FrameRecord)]
  <2>1. /\ wire \in [Client -> Seq(FrameRecord)] /\ anchor \in Nat /\ anchor <= Len(epochs)
        /\ DocInv /\ WireShape
    BY DEF BaseInv, WireShape, FramesSound
  <2>2. Len(epochs) \in Nat
    BY DEF BaseInv, DocInv, DocShape
  <2> QED BY <2>1, <2>2, HandshakeAssumption
<1>3. f.type # "key_package" => f.e <= anchor /\ f.e \in Nat
  BY <1>1, <1>2, FramesTyped DEF Undisturbed, AnchorLeads
<1>4. \A d \in Client : \A g \in Elements(inbox'[d]) : g.type # "key_package" => g.e <= anchor'
  BY <1>1 DEF Undisturbed, AnchorLeads
<1> HIDE DEF f
\* A joiner presents what it has come to, which is not ahead.
<1>5. ASSUME c # Owner, epochs' = epochs, NEW e \in Nat, e <= anchor,
             Send(c, <<Frame("subscribe", e)>>) \/ wire' = wire
      PROVE  AnchorLeads'
  <2>1. PICK x \in FrameRecord : x = Frame("subscribe", e) /\ x.e = e
    BY FrameTyped
  <2>2. <<x>> \in Seq(FrameRecord) /\ Elements(<<x>>) = {x}
    BY FewFrames
  <2>3. /\ wire'[Owner] = wire[Owner]
        /\ \A d \in Client : Elements(wire'[d]) \subseteq Elements(wire[d]) \cup {x}
    <3>1. CASE wire' = wire
      BY <3>1
    <3>2. CASE Send(c, <<x>>)
      <4>1. /\ \A d \in Client \ {c} : wire'[d] = wire[d]
            /\ Elements(wire'[c]) = Elements(wire[c]) \cup {x}
        BY <1>2, <2>2, <3>2, SendAdds
      <4> QED BY <1>2, <1>5, <4>1
    <3> QED BY <1>5, <2>1, <3>1, <3>2
  <2>4. ASSUME NEW d \in Client \ {Owner}, NEW g \in Elements(wire'[d]), g.type = "subscribe"
        PROVE  g.e <= anchor'
    <3>1. g \in Elements(wire[d]) \/ g = x
      BY <2>3, <2>4
    <3> QED BY <1>1, <1>5, <2>1, <2>4, <3>1 DEF Undisturbed, AnchorLeads
  <2>5. OwnerFrames(wire'[Owner], anchor', Len(epochs'))
    BY <1>1, <1>5, <2>3 DEF Undisturbed, AnchorLeads
  <2> QED BY <1>4, <2>4, <2>5 DEF AnchorLeads
<1>6. CASE f.type = "key_package" /\ Answers(c, f.e)
  <2>1. PICK n \in Nat : n = Len(epochs) + 1
    BY <1>2
  <2>2. PICK w, x, y, z \in FrameRecord :
           /\ w = Frame("register", n) /\ x = Frame("subscribe", n)
           /\ y = Frame("commit", n) /\ z = Frame("welcome", n)
           /\ w.type = "register" /\ w.e = n /\ x.type = "subscribe" /\ x.e = n
           /\ y.type = "commit" /\ y.e = n /\ z.type = "welcome" /\ z.e = n
    BY FrameTyped
  <2>3. PICK new \in Seq(FrameRecord) : new = <<w, x, y, z>>
    BY FewFrames
  <2>4. DOMAIN new = {1, 2, 3, 4} /\ new[1] = w /\ new[2] = x /\ new[3] = y /\ new[4] = z
    BY <2>3
  <2>5. 1 \in DOMAIN new /\ \A i \in DOMAIN new : new[i].e = n /\ (i # 1 => new[i].type # "register")
    BY <2>2, <2>4
  <2>6. Send(c, new) /\ c = Owner
    BY <1>6, <2>1, <2>2, <2>3 DEF Answers
  <2>7. wire'[Owner] = wire[Owner] \o new /\ \A d \in Client \ {Owner} : wire'[d] = wire[d]
    BY <1>2, <2>6, SendAdds
  <2>8. OwnerFrames(wire[Owner] \o new, anchor, n)
    <3>1. wire[Owner] \in Seq(FrameRecord) /\ new[1].type = "register"
      BY <1>2, <2>2, <2>4
    <3>2. OwnerFrames(wire[Owner], anchor, Len(epochs))
      BY DEF Undisturbed, AnchorLeads
    <3> QED BY <1>2, <2>1, <2>5, <3>1, <3>2, NewFrames
  <2>9. Len(epochs') = n /\ group'[c] # NoGroup /\ \A d \in Client \ {c} : group'[d] = group[d]
    BY <1>1, <1>2, <1>6, <2>1, AddStep DEF Answers, Established
  <2>10. AnchorLeads'
    BY <1>1, <1>4, <2>7, <2>8, <2>9 DEF Undisturbed, AnchorLeads
  <2>11. NobodyWasCut'
    <3>1. pending' = pending
      BY <1>6 DEF Answers, DocCreateInvite, AddMember, Commit
    <3> QED BY <1>1, <2>6, <2>7, <2>9, <3>1 DEF Undisturbed, NobodyWasCut, Established
  <2> QED BY <2>10, <2>11 DEF Undisturbed
\* Nothing happens to those who are not online.
<1>7. ASSUME \A d \in Client \ {c} : group'[d] = group[d] /\ pending'[d] = pending[d] /\ wire'[d] = wire[d]
      PROVE  NobodyWasCut'
  BY <1>1, <1>7 DEF Undisturbed, NobodyWasCut, Established
<1>8. ASSUME NEW e, Send(c, <<Frame("subscribe", e)>>)
      PROVE  \A d \in Client \ {c} : wire'[d] = wire[d]
  BY <1>2, <1>8 DEF Send
<1>9. CASE f.type = "welcome" /\ Joins(c, f.e)
  <2>1. epochs' = epochs /\ \A d \in Client \ {c} : group'[d] = group[d]
    BY <1>1, <1>2, <1>9, JoinStep DEF Joins
  <2>2. pending' = [pending EXCEPT ![c] = 0] /\ pending \in [Client -> Nat]
    BY <1>2, <1>9 DEF Joins, DocJoin, MlsJoin, DocInv, DocShape
  <2>3. Send(c, <<Frame("subscribe", f.e)>>) \/ wire' = wire
    BY <1>9 DEF Joins
  <2>4. c # Owner
    BY <1>9 DEF Joins
  <2>5. AnchorLeads'
    BY <1>3, <1>5, <1>9, <2>1, <2>3, <2>4
  <2>6. NobodyWasCut'
    BY <1>7, <1>8, <2>1, <2>2, <2>3
  <2> QED BY <2>5, <2>6 DEF Undisturbed
<1>10. CASE f.type = "commit" /\ Follows(c, f.e)
  <2>1. epochs' = epochs /\ \A d \in Client \ {c} : group'[d] = group[d]
    BY <1>1, <1>2, <1>10, FollowStep DEF Follows
  <2>2. pending' = pending
    BY <1>10 DEF Follows, DocProcessCommit, ProcessCommit
  <2>3. Send(c, <<Frame("subscribe", f.e)>>) /\ c # Owner
    BY <1>10 DEF Follows
  <2>4. AnchorLeads'
    BY <1>3, <1>5, <1>10, <2>1, <2>3
  <2>5. NobodyWasCut'
    BY <1>7, <1>8, <2>1, <2>2, <2>3
  <2> QED BY <2>4, <2>5 DEF Undisturbed
<1>11. CASE UNCHANGED <<docVars, wire>>
  <2>1. UNCHANGED <<epochs, group, pending, wire>>
    BY <1>11 DEF docVars, mlsVars
  <2>2. AnchorLeads'
    BY <1>1, <1>4, <2>1 DEF Undisturbed, AnchorLeads
  <2>3. NobodyWasCut'
    BY <1>7, <2>1
  <2> QED BY <2>2, <2>3 DEF Undisturbed
<1> QED BY <1>1, <1>6, <1>9, <1>10, <1>11

LEMMA StepKeepsLead ==
    ASSUME BaseInv, BaseInv', Chain, Undisturbed, [Next]_vars, faults' = 0
    PROVE  Undisturbed'
<1>1. ASSUME NEW c \in Client, ExpireJoin(c)
      PROVE  Undisturbed'
  <2>1. /\ pending' = [pending EXCEPT ![c] = 0] /\ UNCHANGED <<epochs, group, link, wire, inbox, anchor>>
        /\ pending \in [Client -> Nat]
    BY <1>1 DEF ExpireJoin, relayVars, BaseInv, DocInv, DocShape
  <2>2. AnchorLeads'
    BY <2>1 DEF Undisturbed, AnchorLeads
  <2>3. NobodyWasCut'
    BY <2>1 DEF Undisturbed, NobodyWasCut, Established
  <2> QED BY <2>2, <2>3 DEF Undisturbed
<1>2. CASE UNCHANGED vars
  BY <1>2 DEF vars, docVars, mlsVars, relayVars, Undisturbed, NobodyWasCut, AnchorLeads, Established
<1>3. \A c \in Client : ~StartSession(c)
  BY DEF StartSession, Undisturbed, NobodyWasCut
<1>4. \A c \in Client : ~StopSession(c) /\ ~Drop(c)
  BY FaultsGrow
<1> QED BY <1>1, <1>2, <1>3, <1>4, RelayKeepsLead, ConnectKeepsLead, ReceiveKeepsLead
        DEF Next, Progress, Fault

\* collab-client.ts:1176-1190: unless a connection was lost or a session stopped, no
\* capability reaches the relay ahead of its anchor, where it would be rejected: the
\* owner registers an epoch before anything it sends at that epoch, the relay takes a
\* client's frames in order, and nobody else learns of an epoch but through the relay.
THEOREM CapabilitiesFollowTheAnchor == Spec => []CapabilityNotAhead
<1>1. Init => Undisturbed
  <2> SUFFICES ASSUME Init PROVE Undisturbed
    OBVIOUS
  <2>1. /\ epochs = <<>> /\ group = [c \in Client |-> NoGroup] /\ pending = [c \in Client |-> 0]
        /\ link = [c \in Client |-> "offline"] /\ anchor = 0
        /\ \A c \in Client : wire[c] = <<>> /\ inbox[c] = <<>>
    BY DEF Init, DocInit, MlsInit
  <2>2. OwnerFrames(wire[Owner], anchor, Len(epochs))
    BY <2>1, HandshakeAssumption DEF OwnerFrames
  <2>3. \A c \in Client : Elements(wire[c]) = {} /\ Elements(inbox[c]) = {}
    BY <2>1 DEF Elements
  <2> QED BY <2>1, <2>2, <2>3 DEF Undisturbed, NobodyWasCut, AnchorLeads, Established
<1>2. BaseInv /\ (Kept => Chain) /\ (faults = 0 => Undisturbed) /\ [Next]_vars => (faults = 0 => Undisturbed)'
  <2> SUFFICES ASSUME BaseInv, Kept => Chain, faults = 0 => Undisturbed, [Next]_vars, faults' = 0
               PROVE  Undisturbed'
    OBVIOUS
  <2>1. faults = 0 /\ Kept
    BY FaultsGrow DEF Kept
  <2> QED BY <2>1, StepKeepsBase, StepKeepsLead
<1>3. BaseInv /\ (Kept => Chain) /\ (faults = 0 => Undisturbed) => CapabilityNotAhead
  <2> SUFFICES ASSUME BaseInv, Chain, Undisturbed, NEW c \in Client, wire[c] # <<>>,
                      Head(wire[c]).type = "subscribe", Head(wire[c]).e # 0
               PROVE  anchor # 0 /\ epochs[Head(wire[c]).e].number <= epochs[anchor].number
    BY DEF CapabilityNotAhead, Kept
  <2>1. /\ wire[c] \in Seq(FrameRecord) /\ anchor \in Nat /\ Len(epochs) \in Nat
        /\ anchor <= Len(epochs) /\ WireShape /\ DOMAIN epochs = 1..Len(epochs)
    BY DEF BaseInv, WireShape, DocInv, DocShape, FramesSound
  <2>2. Head(wire[c]) \in Elements(wire[c])
    BY <2>1, ElementsOfTail
  <2>3. Head(wire[c]).e \in Nat
    BY <2>1, <2>2, FramesTyped
  <2>4. Head(wire[c]).e <= anchor
    <3>1. CASE c = Owner
      BY <2>1, <3>1, FirstFrame DEF Undisturbed, AnchorLeads
    <3>2. CASE c # Owner
      BY <2>2, <3>2 DEF Undisturbed, AnchorLeads
    <3> QED BY <3>1, <3>2
  <2>5. PICK e \in DOMAIN epochs : e = Head(wire[c]).e
    BY <2>1, <2>3, <2>4
  <2>6. anchor \in DOMAIN epochs /\ anchor # 0
    BY <2>1, <2>3, <2>4
  <2>7. epochs[e].number = e - 1 /\ epochs[anchor].number = anchor - 1
    BY <2>6 DEF Chain, ChainSound, Chained
  <2>8. e - 1 <= anchor - 1
    BY <2>1, <2>4, <2>5
  <2> QED BY <2>5, <2>6, <2>7, <2>8
<1> QED BY <1>1, <1>2, <1>3, BaseAlways, ChainAlways, PTL DEF Spec
=============================================================================
