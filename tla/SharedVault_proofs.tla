------------------------- MODULE SharedVault_proofs -------------------------
(***************************************************************************)
(* Proofs about SharedVault, for any clients, paths, scope, settings and   *)
(* bounds.  Whatever a manager handles, its manifest and registry go from  *)
(* one pair that agrees to another (Manages); each handler is shown to do  *)
(* so once, and the actions that call it only add what becomes of files,   *)
(* watchers and updates.  What a native client says itself goes from disk  *)
(* to manifest by known files and events: a second invariant, WordSound,   *)
(* follows it on its way, once no old word can come back from others.      *)
(***************************************************************************)
EXTENDS SharedVault, SequenceTheorems, TLAPS

Manifest == [Path -> Entry]
Event == [kind : {"created", "deleted", "modified"}, path : Path]

\* What each variable is made of.
Shape ==
    /\ manifest \in [Client -> Manifest]
    /\ registry \in [Client -> SUBSET Scope]
    /\ docId \in [Client -> Nat]
    /\ updates \subseteq [to : Client, state : Manifest]

VaultShape ==
    /\ files \in [Client -> SUBSET Path] /\ known \in [Client -> SUBSET Path]
    /\ notices \in [Client -> SUBSET Path] /\ unseen \in [Client -> SUBSET Path]
    /\ watch \in [Client -> {"off", "scanned", "on"}]
    /\ events \in [Client -> Seq(Event)]
    /\ folders \in [Client -> SUBSET Folder]

Call == [of : Client \ Native, slot : 1..MaxCalls, path : Path,
         awaits : {"folder", "file"}, rest : SUBSET Path]

\* A call that waits has the guard of its path up, unless its client's calls have
\* overlapped there; two that wait for one path have.
CallsSound ==
    /\ making \in [Client -> SUBSET Path] /\ calls \subseteq Call
    /\ \A k \in calls : k.path \in making[k.of] \/ <<k.of, k.path>> \in overlaps
    /\ \A k, l \in calls : k # l /\ k.of = l.of /\ k.path = l.path =>
          <<k.of, k.path>> \in overlaps

\* A session has an id of its own, which was drawn; without one there is nothing.
SessionsSound ==
    /\ \A c \in Client : Running(c) => docId[c] \in ids /\ docId[c] \in Ids[c]
    /\ \A c, d \in Client : Running(c) /\ docId[c] = docId[d] => c = d
    /\ \A c \in Client : ~Running(c) =>
          manifest[c] = EmptyManifest /\ registry[c] = {} /\ watch[c] = "off"

\* r has the documents of the files in scope that m says are alive.
Mirrors(r, m) == r = {p \in ListFiles(m) : ShouldSync(p)}

\* Who may announce a path, by what users have done and where calls overlapped.
Credit(id, p, a, o) ==
    <<id, p>> \in a \/ \E c \in Client : id \in Ids[c] /\ <<c, p>> \in o

\* Whoever was the last in m to say that a path is alive may have said so.
Credited(m, a, o) == \A p \in Path :
    m[p].alive => Credit(m[p].chain[Len(m[p].chain)], p, a, o)

\* id was the last to write what the chain s leads to.
Ends(s, id) == s # <<>> /\ s[Len(s)] = id

\* Whoever wrote an entry of m has drawn its id.
Drawn(m, is) == \A p \in Path : m[p].chain # <<>> => m[p].chain[Len(m[p].chain)] \in is

\* What id wrote in m is not to the right of what there is in n.
Behind(m, n, id) == \A p \in Path :
    Ends(m[p].chain, id) => ~Precedes(n[p].chain, m[p].chain)

\* No write of a session that goes on is ahead of it, here or on its way: what
\* comes back to a client from others never takes the place of what it has.
WritesSound ==
    /\ \A c \in Client : Drawn(manifest[c], ids)
    /\ \A u \in updates : Drawn(u.state, ids)
    /\ \A c \in Client : Running(c) =>
          /\ \A d \in Client : Behind(manifest[d], manifest[c], docId[c])
          /\ \A u \in updates : Behind(u.state, manifest[c], docId[c])

ManifestsSound ==
    /\ \A c \in Client : Mirrors(registry[c], manifest[c])
    /\ \A c \in Client : Credited(manifest[c], acted, overlaps)
    /\ \A u \in updates : Credited(u.state, acted, overlaps)

\* A watcher is a native client's; a file it has to look at and does not know was
\* made or edited by its user.
WatcherSound(c) ==
    /\ watch[c] = "off" => events[c] = <<>> /\ notices[c] = {}
    /\ watch[c] # "off" => c \in Native
    /\ watch[c] # "off" =>
          /\ \A p \in Path \ (notices[c] \cup unseen[c]) : p \in known[c] <=> p \in files[c]
          /\ \A p \in (files[c] \cap notices[c]) \ known[c] : <<docId[c], p>> \in acted
          /\ \A i \in 1..Len(events[c]) : events[c][i].kind = "created" =>
                <<docId[c], events[c][i].path>> \in acted

WatchersSound == \A c \in Client : WatcherSound(c)

Inv ==
    /\ Shape /\ VaultShape /\ CallsSound /\ SessionsSound
    /\ ManifestsSound /\ WritesSound /\ WatchersSound

-----------------------------------------------------------------------------
(* Manifests.                                                              *)

\* VaultManifest::new: nothing is alive in it.
LEMMA EmptyManifestIsSound ==
    EmptyManifest \in Manifest /\ Mirrors({}, EmptyManifest) /\ \A a, o : Credited(EmptyManifest, a, o)
  BY DEF EmptyManifest, Manifest, Entry, Mirrors, Credited, ListFiles, IsAlive

\* A write is to the right of the one it replaces.
LEMMA AppendFollows ==
    ASSUME NEW s \in Seq(Nat), NEW id \in Nat
    PROVE  Precedes(s, Append(s, id))
<1>1. Len(s) \in 0..Len(s) /\ Len(s) < Len(Append(s, id))
  OBVIOUS
<1>2. SubSeq(s, 1, Len(s)) = SubSeq(Append(s, id), 1, Len(s))
  OBVIOUS
<1> QED BY <1>1, <1>2 DEF Precedes

\* Precedes, with the common prefix element by element.
LEMMA PrecedesAt ==
    ASSUME NEW s \in Seq(Nat), NEW t \in Seq(Nat)
    PROVE  Precedes(s, t) <=>
             \E i \in 0..Len(s) :
                /\ i < Len(t) /\ \A k \in 1..i : s[k] = t[k]
                /\ i = Len(s) \/ s[i + 1] < t[i + 1]
<1>1. ASSUME NEW i \in 0..Len(s), i < Len(t)
      PROVE  SubSeq(s, 1, i) = SubSeq(t, 1, i) <=> \A k \in 1..i : s[k] = t[k]
  <2>1. Len(s) \in Nat /\ Len(t) \in Nat /\ i \in Nat /\ i <= Len(s) /\ i <= Len(t)
    BY <1>1
  <2>2. /\ SubSeq(s, 1, i) = [k \in 1..i |-> s[k]]
        /\ SubSeq(t, 1, i) = [k \in 1..i |-> t[k]]
    BY <2>1
  <2> QED BY <2>2
<1> QED BY <1>1 DEF Precedes

\* No write is to the right of itself, and what is to the right of a write is to
\* the right of those that are to its left.
LEMMA PrecedesIsAnOrder ==
    ASSUME NEW s \in Seq(Nat), NEW t \in Seq(Nat), NEW u \in Seq(Nat)
    PROVE  ~Precedes(s, s) /\ (Precedes(s, t) /\ Precedes(t, u) => Precedes(s, u))
<1>1. ~Precedes(s, s)
  <2>1. \A i \in 0..Len(s) : i < Len(s) => s[i + 1] \in Nat
    OBVIOUS
  <2> QED BY <2>1, PrecedesAt
<1>2. ASSUME Precedes(s, t), Precedes(t, u) PROVE Precedes(s, u)
  <2>1. PICK i \in 0..Len(s) : /\ i < Len(t) /\ \A k \in 1..i : s[k] = t[k]
                               /\ i = Len(s) \/ s[i + 1] < t[i + 1]
    BY <1>2, PrecedesAt
  <2>2. PICK j \in 0..Len(t) : /\ j < Len(u) /\ \A k \in 1..j : t[k] = u[k]
                               /\ j = Len(t) \/ t[j + 1] < u[j + 1]
    BY <1>2, PrecedesAt
  <2>3. /\ i \in Nat /\ j \in Nat /\ Len(s) \in Nat /\ Len(t) \in Nat /\ Len(u) \in Nat
        /\ i <= Len(s) /\ j <= Len(t)
    OBVIOUS
  <2>4. \A k \in 1..Len(s) : s[k] \in Nat
    OBVIOUS
  <2>5. \A k \in 1..Len(t) : t[k] \in Nat
    OBVIOUS
  <2>6. \A k \in 1..Len(u) : u[k] \in Nat
    OBVIOUS
  <2>7. PICK k \in Nat : k = IF i < j THEN i ELSE j
    BY <2>3
  <2>8. k <= i /\ k <= j /\ k <= Len(s) /\ k < Len(t) /\ k < Len(u)
    <3>1. i < Len(t) /\ j < Len(u)
      BY <2>1, <2>2
    <3> QED BY <2>3, <2>7, <3>1
  <2>9. \A n \in 1..k : s[n] = u[n]
    <3> SUFFICES ASSUME NEW n \in 1..k PROVE s[n] = u[n]
      OBVIOUS
    <3>1. n \in 1..i /\ n \in 1..j
      BY <2>3, <2>8
    <3> QED BY <2>1, <2>2, <3>1
  <2>10. k = Len(s) \/ s[k + 1] < u[k + 1]
    <3> SUFFICES ASSUME k # Len(s) PROVE s[k + 1] < u[k + 1]
      OBVIOUS
    <3>1. k + 1 \in 1..Len(s) /\ k + 1 \in 1..Len(t) /\ k + 1 \in 1..Len(u)
      BY <2>3, <2>8
    <3>2. s[k + 1] \in Nat /\ t[k + 1] \in Nat /\ u[k + 1] \in Nat
      BY <2>4, <2>5, <2>6, <3>1
    <3>3. s[k + 1] = t[k + 1] \/ (k = i /\ s[k + 1] < t[k + 1])
      <4>1. CASE k < i
        <5>1. k + 1 \in 1..i
          BY <2>3, <4>1
        <5> QED BY <2>1, <5>1
      <4>2. CASE k = i
        BY <2>1, <4>2
      <4> QED BY <2>3, <2>8, <4>1, <4>2
    <3>4. t[k + 1] = u[k + 1] \/ (k = j /\ t[k + 1] < u[k + 1])
      <4>1. CASE k < j
        <5>1. k + 1 \in 1..j
          BY <2>3, <4>1
        <5> QED BY <2>2, <5>1
      <4>2. CASE k = j
        BY <2>2, <2>3, <2>8, <4>2
      <4> QED BY <2>3, <2>8, <4>1, <4>2
    <3>5. k = i \/ k = j
      BY <2>7
    <3>6. k = i => s[k + 1] < t[k + 1]
      BY <2>1
    <3>7. k = j => t[k + 1] < u[k + 1]
      BY <2>2, <2>8
    <3> QED BY <3>2, <3>3, <3>4, <3>5, <3>6, <3>7
  <2>11. k \in 0..Len(s)
    BY <2>3, <2>8
  <2> QED BY <2>8, <2>9, <2>10, <2>11, PrecedesAt
<1> QED BY <1>1, <1>2

\* Nothing precedes a key that was never written.
LEMMA WrittenAfter ==
    ASSUME NEW s \in Seq(Nat), NEW t \in Seq(Nat), Precedes(s, t)
    PROVE  t # <<>>
  BY DEF Precedes

\* Map::insert makes one entry.
LEMMA InsertedEntry ==
    ASSUME NEW m \in Manifest, NEW id \in Nat, NEW p \in Path, NEW alive \in BOOLEAN
    PROVE  /\ [chain |-> Append(m[p].chain, id), alive |-> alive] \in Entry
           /\ Insert(m, id, p, alive) =
                [m EXCEPT ![p] = [chain |-> Append(m[p].chain, id), alive |-> alive]]
<1>1. Append(m[p].chain, id) \in Seq(Nat)
  BY DEF Manifest, Entry
<1> QED BY <1>1 DEF Insert, Entry

\* n is m but for a later entry of p, written by id.
Writes(n, m, id, p) ==
    /\ n \in Manifest
    /\ Ends(n[p].chain, id)
    /\ Precedes(m[p].chain, n[p].chain)
    /\ \A q \in Path : q # p => n[q] = m[q]

\* add_file: the path is alive, by the one who says so.
LEMMA AddedEntry ==
    ASSUME NEW m \in Manifest, NEW id \in Nat, NEW p \in Path
    PROVE  Writes(AddFile(m, id, p), m, id, p) /\ AddFile(m, id, p)[p].alive
<1> DEFINE n == AddFile(m, id, p)
           e == [chain |-> Append(m[p].chain, id), alive |-> TRUE]
<1>1. e \in Entry /\ n = [m EXCEPT ![p] = e]
  BY InsertedEntry DEF AddFile
<1>2. n \in Manifest /\ n[p] = e /\ \A q \in Path : q # p => n[q] = m[q]
  <2> HIDE DEF n, e
  <2> QED BY <1>1 DEF Manifest
<1>3. m[p].chain \in Seq(Nat)
  BY DEF Manifest, Entry
<1>4. Precedes(m[p].chain, e.chain)
  BY <1>3, AppendFollows
<1>5. Ends(e.chain, id)
  BY <1>3 DEF Ends
<1> HIDE DEF n
<1>6. Writes(n, m, id, p)
  BY <1>2, <1>4, <1>5 DEF Writes
<1> QED BY <1>2, <1>6 DEF n

\* delete_file: a tombstone.
LEMMA DeletedEntry ==
    ASSUME NEW m \in Manifest, NEW id \in Nat, NEW p \in Path
    PROVE  Writes(DeleteFile(m, id, p), m, id, p) /\ ~DeleteFile(m, id, p)[p].alive
<1> DEFINE n == DeleteFile(m, id, p)
           e == [chain |-> Append(m[p].chain, id), alive |-> FALSE]
<1>1. e \in Entry /\ n = [m EXCEPT ![p] = e]
  BY InsertedEntry DEF DeleteFile
<1>2. n \in Manifest /\ n[p] = e /\ \A q \in Path : q # p => n[q] = m[q]
  <2> HIDE DEF n, e
  <2> QED BY <1>1 DEF Manifest
<1>3. m[p].chain \in Seq(Nat)
  BY DEF Manifest, Entry
<1>4. Precedes(m[p].chain, e.chain)
  BY <1>3, AppendFollows
<1>5. Ends(e.chain, id)
  BY <1>3 DEF Ends
<1> HIDE DEF n
<1>6. Writes(n, m, id, p)
  BY <1>2, <1>4, <1>5 DEF Writes
<1> QED BY <1>2, <1>6 DEF n

\* add_file and delete_file keep registry and manifest together.
LEMMA InsertMirrors ==
    ASSUME NEW m \in Manifest, NEW r, Mirrors(r, m), NEW id \in Nat, NEW p \in Scope
    PROVE  /\ Mirrors(Open(r, p), AddFile(m, id, p))
           /\ Mirrors(CloseAny(r, p), DeleteFile(m, id, p))
<1>1. p \in Path
  BY SyncAssumption
<1>2. ASSUME NEW n, n = AddFile(m, id, p) PROVE Mirrors(r \cup {p}, n)
  <2>1. n[p].alive /\ \A q \in Path : q # p => n[q] = m[q]
    BY <1>1, <1>2, AddedEntry DEF Writes
  <2> QED BY <1>1, <2>1 DEF Mirrors, ListFiles, IsAlive, ShouldSync
<1>3. ASSUME NEW n, n = DeleteFile(m, id, p) PROVE Mirrors(r \ {p}, n)
  <2>1. ~n[p].alive /\ \A q \in Path : q # p => n[q] = m[q]
    BY <1>1, <1>3, DeletedEntry DEF Writes
  <2> QED BY <1>1, <2>1 DEF Mirrors, ListFiles, IsAlive, ShouldSync
<1> QED BY <1>2, <1>3 DEF Open, CloseAny, DocIdForPath

-----------------------------------------------------------------------------
(* Handlers.                                                               *)

\* A later entry, which the client wrote or was sent.
Replaces(c, p, e) ==
    /\ Precedes(manifest[c][p].chain, e.chain)
    /\ Ends(e.chain, docId[c]) \/ \E u \in updates : e = u.state[p]

\* What handling anything does to the manager of c.
Manages(c) ==
    \E m \in Manifest, r \in SUBSET Scope :
        /\ manifest' = [manifest EXCEPT ![c] = m]
        /\ registry' = [registry EXCEPT ![c] = r]
        /\ docId' = docId
        /\ Mirrors(r, m)
        /\ Credited(m, acted', overlaps')
        /\ \A p \in Path : m[p] = manifest[c][p] \/ Replaces(c, p, m[p])

\* The registry's documents are in scope.
LEMMA MirrorsInScope ==
    ASSUME NEW r, NEW m, Mirrors(r, m)
    PROVE  r \in SUBSET Scope
  BY DEF Mirrors, ShouldSync

\* What was credited stays so.
LEMMA CreditGrows ==
    ASSUME NEW m, NEW a, NEW b, NEW o, NEW q, Credited(m, a, o), a \subseteq b, o \subseteq q
    PROVE  Credited(m, b, q)
  BY DEF Credited, Credit

\* An ignored event leaves the manager as it is, which it may.
LEMMA IgnoredManages ==
    ASSUME Shape, ManifestsSound, NEW c \in Client, acted \subseteq acted',
           overlaps \subseteq overlaps', UNCHANGED managerVars
    PROVE  Manages(c)
<1>1. manifest[c] \in Manifest /\ Mirrors(registry[c], manifest[c])
  BY DEF Shape, ManifestsSound
<1>2. Credited(manifest[c], acted', overlaps')
  BY CreditGrows DEF ManifestsSound
<1>3. manifest' = [manifest EXCEPT ![c] = manifest[c]] /\ registry' = [registry EXCEPT ![c] = registry[c]]
  BY DEF Shape, managerVars
<1>4. registry[c] \in SUBSET Scope /\ docId' = docId
  BY DEF Shape, managerVars
<1> QED BY <1>1, <1>2, <1>3, <1>4 DEF Manages

\* handle_created, for a path its user has made.
LEMMA CreatedManages ==
    ASSUME Shape, ManifestsSound, NEW c \in Client, NEW p \in Path, acted \subseteq acted',
           overlaps \subseteq overlaps', Credit(docId[c], p, acted', overlaps'), HandleCreated(c, p)
    PROVE  Manages(c)
<1>1. CASE CreatedIgnored(p)
  BY <1>1, IgnoredManages DEF HandleCreated
<1>2. CASE ~CreatedIgnored(p)
  <2> DEFINE m == AddFile(manifest[c], docId[c], p)
             r == Open(registry[c], p)
  <2>1. p \in Scope /\ manifest[c] \in Manifest /\ docId[c] \in Nat
    BY <1>2 DEF CreatedIgnored, ShouldSync, Shape
  <2>2. Mirrors(r, m)
    BY <2>1, InsertMirrors DEF ManifestsSound
  <2>3. Writes(m, manifest[c], docId[c], p)
    BY <2>1, AddedEntry
  <2>4. Credited(manifest[c], acted', overlaps')
    BY CreditGrows DEF ManifestsSound
  <2> HIDE DEF m
  <2>5. Credited(m, acted', overlaps')
    BY <2>3, <2>4 DEF Credited, Writes, Ends
  <2>6. /\ manifest' = [manifest EXCEPT ![c] = m] /\ registry' = [registry EXCEPT ![c] = r]
        /\ docId' = docId
    BY <1>2 DEF HandleCreated, Shape, m
  <2>7. r \in SUBSET Scope
    BY <2>2, MirrorsInScope
  <2> HIDE DEF r
  <2>8. \A q \in Path : m[q] = manifest[c][q] \/ Replaces(c, q, m[q])
    BY <2>3 DEF Writes, Replaces
  <2> QED BY <2>2, <2>3, <2>5, <2>6, <2>7, <2>8 DEF Manages, Writes
<1> QED BY <1>1, <1>2

\* handle_deleted: a tombstone credits nobody.
LEMMA DeletedManages ==
    ASSUME Shape, ManifestsSound, NEW c \in Client, NEW p \in Path, acted \subseteq acted',
           overlaps \subseteq overlaps', HandleDeleted(c, p)
    PROVE  Manages(c)
<1>1. CASE DeletedIgnored(p)
  BY <1>1, IgnoredManages DEF HandleDeleted
<1>2. CASE ~DeletedIgnored(p)
  <2> DEFINE m == DeleteFile(manifest[c], docId[c], p)
             r == CloseAny(registry[c], p)
  <2>1. p \in Scope /\ manifest[c] \in Manifest /\ docId[c] \in Nat
    BY <1>2 DEF DeletedIgnored, ShouldSync, Shape
  <2>2. Mirrors(r, m)
    BY <2>1, InsertMirrors DEF ManifestsSound
  <2>3. Writes(m, manifest[c], docId[c], p) /\ ~m[p].alive
    BY <2>1, DeletedEntry
  <2>4. Credited(manifest[c], acted', overlaps')
    BY CreditGrows DEF ManifestsSound
  <2> HIDE DEF m
  <2>5. Credited(m, acted', overlaps')
    BY <2>3, <2>4 DEF Credited, Writes, Ends
  <2>6. /\ manifest' = [manifest EXCEPT ![c] = m] /\ registry' = [registry EXCEPT ![c] = r]
        /\ docId' = docId
    BY <1>2 DEF HandleDeleted, Shape, m
  <2>7. r \in SUBSET Scope
    BY <2>2, MirrorsInScope
  <2> HIDE DEF r
  <2>8. \A q \in Path : m[q] = manifest[c][q] \/ Replaces(c, q, m[q])
    BY <2>3 DEF Writes, Replaces
  <2> QED BY <2>2, <2>3, <2>5, <2>6, <2>7, <2>8 DEF Manages, Writes
<1> QED BY <1>1, <1>2

\* handle_renamed, for a new path its user has made.
LEMMA RenamedManages ==
    ASSUME Shape, ManifestsSound, NEW c \in Client, NEW old \in Path, NEW new \in Path, old # new,
           acted \subseteq acted', overlaps \subseteq overlaps', <<docId[c], new>> \in acted',
           HandleRenamed(c, old, new)
    PROVE  Manages(c)
<1>1. CASE RenamedIgnored(old, new)
  BY <1>1, IgnoredManages DEF HandleRenamed
<1>2. CASE ~RenamedIgnored(old, new)
  <2> DEFINE d == DeleteFile(manifest[c], docId[c], old)
             m == AddFile(d, docId[c], new)
             r == Open(CloseAny(registry[c], old), new)
  <2>1. old \in Scope /\ new \in Scope /\ manifest[c] \in Manifest /\ docId[c] \in Nat
    BY <1>2 DEF RenamedIgnored, ShouldSync, Shape
  <2>2. Mirrors(CloseAny(registry[c], old), d)
    BY <2>1, InsertMirrors DEF ManifestsSound
  <2>3. Writes(d, manifest[c], docId[c], old) /\ ~d[old].alive
    BY <2>1, DeletedEntry
  <2>4. manifest' = [manifest EXCEPT ![c] = m] /\ registry' = [registry EXCEPT ![c] = r]
        /\ docId' = docId
    BY <1>2 DEF HandleRenamed, RenameFile, Shape
  <2> HIDE DEF d
  <2>5. Mirrors(r, m)
    BY <2>1, <2>2, <2>3, InsertMirrors DEF Writes
  <2>6. Writes(m, d, docId[c], new)
    <3>1. d \in Manifest
      BY <2>3 DEF Writes
    <3> QED BY <2>1, <3>1, AddedEntry
  <2>7. Credited(manifest[c], acted', overlaps')
    BY CreditGrows DEF ManifestsSound
  <2>8. r \in SUBSET Scope
    BY <2>5, MirrorsInScope
  <2> HIDE DEF m, r
  <2>9. Credited(m, acted', overlaps')
    BY <2>3, <2>6, <2>7 DEF Credited, Credit, Writes, Ends
  <2>10. \A p \in Path : m[p] = manifest[c][p] \/ Replaces(c, p, m[p])
    BY <2>3, <2>6 DEF Writes, Replaces
  <2> QED BY <2>4, <2>5, <2>6, <2>8, <2>9, <2>10 DEF Manages, Writes
<1> QED BY <1>1, <1>2

\* A merged manifest has, of each path, the entry it had or a later one.
LEMMA MergedEntries ==
    ASSUME NEW m \in Manifest, NEW u \in Manifest
    PROVE  /\ ApplyUpdate(m, u) \in Manifest
           /\ \A p \in Path :
                 \/ ApplyUpdate(m, u)[p] = m[p]
                 \/ ApplyUpdate(m, u)[p] = u[p] /\ Precedes(m[p].chain, u[p].chain)
  BY DEF ApplyUpdate, Manifest

\* What is open and not deleted after a merge is what is alive: a document that
\* was open has either its entry still, or one that somebody wrote.
LEMMA MergeMirrors ==
    ASSUME NEW m \in Manifest, NEW u \in Manifest, NEW r, Mirrors(r, m), NEW n, n = ApplyUpdate(m, u),
           NEW open, open = r \cup ({p \in ListFiles(n) : ShouldSync(p)} \ r)
    PROVE  Mirrors(open \ ToRemove(open, n, u), n)
<1>1. n \in Manifest
  BY MergedEntries
<1>2. ASSUME NEW p \in r
      PROVE  p \in Path /\ ShouldSync(p) /\ (n[p].alive \/ n[p].chain # <<>>)
  <2>1. p \in Path /\ ShouldSync(p) /\ m[p].alive
    BY <1>2 DEF Mirrors, ListFiles, IsAlive
  <2>2. m[p].chain \in Seq(Nat) /\ u[p].chain \in Seq(Nat)
    BY <2>1 DEF Manifest, Entry
  <2>3. CASE n[p] = m[p]
    BY <2>1, <2>3
  <2>4. CASE n[p] = u[p] /\ Precedes(m[p].chain, u[p].chain)
    BY <2>1, <2>2, <2>4, WrittenAfter
  <2> QED BY <2>1, <2>3, <2>4, MergedEntries
<1> QED BY <1>2 DEF Mirrors, ToRemove, IsDeleted, ListFiles, IsAlive

\* apply_remote_manifest
LEMMA AppliedManages ==
    ASSUME Shape, ManifestsSound, NEW c \in Client, NEW u \in updates, acted \subseteq acted',
           overlaps \subseteq overlaps', ApplyRemoteManifest(c, u.state)
    PROVE  Manages(c)
<1>1. CASE Rejects(c, u.state)
  BY <1>1, IgnoredManages DEF ApplyRemoteManifest
<1>2. CASE ~Rejects(c, u.state)
  <2> DEFINE m == ApplyUpdate(manifest[c], u.state)
             open == registry[c] \cup ToOpen(c, u.state)
             r == open \ ToRemove(open, m, u.state)
  <2>1. manifest[c] \in Manifest /\ u.state \in Manifest /\ Mirrors(registry[c], manifest[c])
    BY DEF Shape, ManifestsSound
  <2>2. /\ manifest' = [manifest EXCEPT ![c] = m] /\ registry' = [registry EXCEPT ![c] = r]
        /\ docId' = docId
    BY <1>2 DEF ApplyRemoteManifest
  <2>3. open = registry[c] \cup ({p \in ListFiles(m) : ShouldSync(p)} \ registry[c])
    BY DEF ToOpen
  <2>4. /\ m \in Manifest
        /\ \A p \in Path :
              \/ m[p] = manifest[c][p]
              \/ m[p] = u.state[p] /\ Precedes(manifest[c][p].chain, u.state[p].chain)
    BY <2>1, MergedEntries
  <2>5. Mirrors(r, m)
    <3> HIDE DEF open
    <3> QED BY <2>1, <2>3, MergeMirrors
  <2>6. Credited(manifest[c], acted', overlaps') /\ Credited(u.state, acted', overlaps')
    BY CreditGrows DEF ManifestsSound
  <2>7. r \in SUBSET Scope
    BY <2>5, MirrorsInScope
  <2> HIDE DEF m, r
  <2>8. Credited(m, acted', overlaps')
    BY <2>4, <2>6 DEF Credited
  <2>9. \A p \in Path : m[p] = manifest[c][p] \/ Replaces(c, p, m[p])
    BY <2>4 DEF Replaces
  <2> QED BY <2>2, <2>4, <2>5, <2>7, <2>8, <2>9 DEF Manages
<1> QED BY <1>1, <1>2

-----------------------------------------------------------------------------
(* Steps in which a manager handles something, or nothing.                 *)

\* Whatever is new in flight is what c has come to.
Sends(c) == \A u \in updates' :
    u \in updates \/ \E d \in Client : u = [to |-> d, state |-> manifest'[c]]

Handles(c) ==
    /\ Manages(c) /\ Sends(c)
    /\ acted \subseteq acted' /\ overlaps \subseteq overlaps' /\ ids' = ids
    /\ Running(c) \/ UNCHANGED managerVars

\* A manager that goes from one pair to another keeps all that is said of
\* managers, and sends what is as sound.
LEMMA HandlesKeeps ==
    ASSUME Inv, NEW c \in Client, Handles(c),
           \A d \in Client : ~Running(d) => watch'[d] = "off"
    PROVE  Shape' /\ SessionsSound' /\ ManifestsSound' /\ WritesSound' /\ docId' = docId
<1>1. PICK m \in Manifest, r \in SUBSET Scope :
        /\ manifest' = [manifest EXCEPT ![c] = m]
        /\ registry' = [registry EXCEPT ![c] = r]
        /\ docId' = docId
        /\ Mirrors(r, m)
        /\ Credited(m, acted', overlaps')
        /\ \A p \in Path : m[p] = manifest[c][p] \/ Replaces(c, p, m[p])
  BY DEF Handles, Manages
<1>2. \A d \in Client : /\ manifest'[d] = IF d = c THEN m ELSE manifest[d]
                        /\ registry'[d] = IF d = c THEN r ELSE registry[d]
  BY <1>1 DEF Inv, Shape
<1>3. \A u \in updates' : u \in updates \/ \E d \in Client : u = [to |-> d, state |-> m]
  BY <1>2 DEF Handles, Sends
<1>4. Shape'
  BY <1>1, <1>3 DEF Inv, Shape
<1>6. ManifestsSound'
  <2>1. \A d \in Client : Mirrors(registry'[d], manifest'[d])
    BY <1>1, <1>2 DEF Inv, ManifestsSound
  <2>2. \A d \in Client : Credited(manifest[d], acted', overlaps')
    BY CreditGrows DEF Inv, ManifestsSound, Handles
  <2>3. \A u \in updates : Credited(u.state, acted', overlaps')
    BY CreditGrows DEF Inv, ManifestsSound, Handles
  <2>4. \A d \in Client : Credited(manifest'[d], acted', overlaps')
    BY <1>1, <1>2, <2>2
  <2>5. \A u \in updates' : Credited(u.state, acted', overlaps')
    BY <1>1, <1>3, <2>3
  <2> QED BY <2>1, <2>4, <2>5 DEF ManifestsSound
<1>7. SessionsSound'
  <2>1. ids' = ids /\ docId' = docId
    BY <1>1 DEF Handles
  <2>2. \A d \in Client : ~Running(d) => manifest'[d] = manifest[d] /\ registry'[d] = registry[d]
    BY <1>2 DEF Handles, managerVars, Running
  <2> QED BY <2>1, <2>2 DEF Inv, SessionsSound, Running
<1>8. WritesSound'
  <2>1. \A d \in Client : Drawn(manifest[d], ids)
    BY DEF Inv, WritesSound
  <2>2. Drawn(m, ids)
    <3> SUFFICES ASSUME NEW p \in Path, m[p].chain # <<>>
                 PROVE  m[p].chain[Len(m[p].chain)] \in ids
      BY DEF Drawn
    <3>1. CASE m[p] = manifest[c][p]
      BY <2>1, <3>1 DEF Drawn
    <3>2. CASE m[p] # manifest[c][p] /\ Ends(m[p].chain, docId[c])
      <4>1. Running(c)
        BY <1>1, <1>2, <3>2 DEF Handles, managerVars
      <4> QED BY <3>2, <4>1 DEF Ends, Inv, SessionsSound
    <3>3. CASE \E u \in updates : m[p] = u.state[p]
      BY <3>3 DEF Inv, WritesSound, Drawn
    <3> QED BY <1>1, <3>1, <3>2, <3>3 DEF Replaces
  <2>3. /\ \A d \in Client : Drawn(manifest'[d], ids')
        /\ \A u \in updates' : Drawn(u.state, ids')
    <3>1. ids' = ids
      BY DEF Handles
    <3>2. \A u \in updates : Drawn(u.state, ids)
      BY DEF Inv, WritesSound
    <3> QED BY <1>2, <1>3, <2>1, <2>2, <3>1, <3>2
  <2>4. ASSUME NEW d \in Client, Running(d)
        PROVE  /\ \A e \in Client : Behind(manifest'[e], manifest'[d], docId[d])
               /\ \A u \in updates' : Behind(u.state, manifest'[d], docId[d])
    <3>1. ASSUME NEW n \in Manifest, Behind(n, manifest[d], docId[d])
          PROVE  Behind(n, manifest'[d], docId[d])
      <4> SUFFICES ASSUME NEW p \in Path, Ends(n[p].chain, docId[d]),
                          Precedes(manifest'[d][p].chain, n[p].chain)
                   PROVE  FALSE
        BY DEF Behind
      <4>1. ~Precedes(manifest[d][p].chain, n[p].chain)
        BY <3>1 DEF Behind
      <4>2. Precedes(manifest[d][p].chain, manifest'[d][p].chain)
        BY <1>1, <1>2, <4>1 DEF Replaces
      <4>3. /\ n[p].chain \in Seq(Nat) /\ manifest[d][p].chain \in Seq(Nat)
            /\ manifest'[d][p].chain \in Seq(Nat)
        <5>1. manifest[d] \in Manifest /\ manifest'[d] \in Manifest
          BY <1>4 DEF Inv, Shape
        <5> QED BY <5>1 DEF Manifest, Entry
      <4> QED BY <4>1, <4>2, <4>3, PrecedesIsAnOrder
    <3>2. /\ \A e \in Client : manifest[e] \in Manifest /\ Behind(manifest[e], manifest[d], docId[d])
          /\ \A u \in updates : u.state \in Manifest /\ Behind(u.state, manifest[d], docId[d])
      BY <2>4 DEF Inv, Shape, WritesSound
    <3>3. Behind(m, manifest'[d], docId[d])
      <4> SUFFICES ASSUME NEW p \in Path, Ends(m[p].chain, docId[d])
                   PROVE  ~Precedes(manifest'[d][p].chain, m[p].chain)
        BY DEF Behind
      <4>1. CASE d = c
        <5>1. manifest'[d][p] = m[p] /\ m[p].chain \in Seq(Nat)
          BY <1>2, <4>1 DEF Manifest, Entry
        <5> QED BY <5>1, PrecedesIsAnOrder
      <4>2. CASE d # c
        <5>1. manifest'[d] = manifest[d] /\ docId[c] # docId[d]
          BY <1>2, <2>4, <4>2 DEF Inv, SessionsSound
        <5>2. ~Ends(m[p].chain, docId[c])
          BY <5>1 DEF Ends
        <5>3. m[p] = manifest[c][p] \/ \E u \in updates : m[p] = u.state[p]
          BY <1>1, <5>2 DEF Replaces
        <5> QED BY <3>2, <5>1, <5>3 DEF Behind
      <4> QED BY <4>1, <4>2
    <3> QED BY <1>2, <1>3, <3>1, <3>2, <3>3
  <2>5. docId' = docId
    BY <1>1
  <2> QED BY <2>3, <2>4, <2>5 DEF WritesSound, Running
<1> QED BY <1>1, <1>4, <1>6, <1>7, <1>8

\* A step that touches no manager is one in which nothing is handled.
LEMMA IdleHandles ==
    ASSUME Inv, NEW c \in Client, UNCHANGED managerVars, ids' = ids, acted \subseteq acted',
           overlaps \subseteq overlaps', updates' \subseteq updates
    PROVE  Handles(c)
<1>1. Manages(c)
  BY IgnoredManages DEF Inv
<1>2. Sends(c)
  BY DEF Sends
<1> QED BY <1>1, <1>2 DEF Handles

\* A manifest that was broadcast, or not, is all there is to send.
LEMMA BroadcastSends ==
    ASSUME NEW c \in Client, NEW ignored, Broadcast(c, ignored)
    PROVE  Sends(c)
  BY DEF Broadcast, Sends

-----------------------------------------------------------------------------
(* Watchers.                                                               *)

\* A watcher stays sound as long as nothing happens to it: credit only grows.
LEMMA WatcherStays ==
    ASSUME NEW d \in Client, WatcherSound(d), acted \subseteq acted', docId'[d] = docId[d],
           watch'[d] = watch[d], events'[d] = events[d], notices'[d] = notices[d],
           unseen'[d] = unseen[d], known'[d] = known[d], files'[d] = files[d]
    PROVE  WatcherSound(d)'
  BY DEF WatcherSound

\* A change of the user's: what is different is noticed or unseen, and what is
\* there was made or edited by its user.
LEMMA UserActKeeps ==
    ASSUME Inv, NEW c \in Client, NEW ps \in SUBSET Path, NEW f \in SUBSET Path,
           files' = [files EXCEPT ![c] = f], folders' \in [Client -> SUBSET Folder],
           Notify(c, ps) \/ NotifyOfFolder(c, ps),
           \A p \in Path \ ps : p \in f <=> p \in files[c],
           UNCHANGED <<watch, known, events, callVars, docId>>,
           acted \subseteq acted',
           Running(c) => \A p \in f \cap ps : <<docId[c], p>> \in acted'
    PROVE  VaultShape' /\ CallsSound' /\ WatchersSound'
<1>1. VaultShape' /\ CallsSound'
  <2>1. notices' \in [Client -> SUBSET Path]
    <3>1. notices' = notices \/ notices' = [notices EXCEPT ![c] = @ \cup ps]
      BY DEF Notify, NotifyOfFolder
    <3> QED BY <3>1 DEF Inv, VaultShape
  <2>2. unseen' \in [Client -> SUBSET Path]
    <3>1. unseen' = unseen \/ unseen' = [unseen EXCEPT ![c] = @ \cup ps]
      BY DEF Notify, NotifyOfFolder
    <3> QED BY <3>1 DEF Inv, VaultShape
  <2>3. VaultShape'
    BY <2>1, <2>2 DEF Inv, VaultShape
  <2>4. CallsSound'
    BY DEF Inv, CallsSound, callVars
  <2> QED BY <2>3, <2>4
<1>2. ASSUME NEW d \in Client, d # c PROVE WatcherSound(d)'
  <2>1. files'[d] = files[d] /\ notices'[d] = notices[d] /\ unseen'[d] = unseen[d]
    BY <1>2 DEF Inv, VaultShape, Notify, NotifyOfFolder
  <2> QED BY <2>1, WatcherStays DEF Inv, WatchersSound
<1>3. WatcherSound(c)'
  <2>1. WatcherSound(c) /\ files'[c] = f
    BY DEF Inv, WatchersSound, VaultShape
  <2>2. watch[c] # "off" => Running(c)
    BY DEF Inv, SessionsSound
  <2>3. CASE watch[c] = "off"
    <3>1. notices' = notices
      BY <2>3 DEF Notify, NotifyOfFolder
    <3> QED BY <2>1, <2>3, <3>1 DEF WatcherSound
  <2>4. CASE watch[c] # "off"
    <3>1. /\ notices[c] \subseteq notices'[c] /\ notices'[c] \subseteq notices[c] \cup ps
          /\ unseen[c] \subseteq unseen'[c] /\ ps \subseteq notices'[c] \cup unseen'[c]
      BY <2>4 DEF Notify, NotifyOfFolder, Inv, VaultShape
    <3>2. \A p \in Path \ (notices'[c] \cup unseen'[c]) : p \in known[c] <=> p \in f
      BY <2>1, <2>4, <3>1 DEF WatcherSound
    <3>3. \A p \in (f \cap notices'[c]) \ known[c] : <<docId[c], p>> \in acted'
      <4> SUFFICES ASSUME NEW p \in (f \cap notices'[c]) \ known[c]
                   PROVE  <<docId[c], p>> \in acted'
        OBVIOUS
      <4>1. CASE p \in ps
        BY <2>2, <2>4, <4>1
      <4>2. CASE p \notin ps
        <5>1. p \in (files[c] \cap notices[c]) \ known[c]
          BY <3>1, <4>2
        <5> QED BY <2>1, <2>4, <5>1 DEF WatcherSound
      <4> QED BY <4>1, <4>2
    <3> QED BY <2>1, <2>4, <3>2, <3>3 DEF WatcherSound
  <2> QED BY <2>3, <2>4
<1> QED BY <1>1, <1>2, <1>3 DEF WatchersSound

-----------------------------------------------------------------------------
(* Every step.                                                             *)

\* An action that leaves watchers on only where sessions run keeps the
\* invariant once it handles something and keeps what is said of the vaults.
LEMMA StepKeeps ==
    ASSUME Inv, NEW c \in Client, Handles(c), VaultShape', CallsSound', WatchersSound',
           \A d \in Client : watch'[d] \in {watch[d], "off"} \/ Running(d)
    PROVE  Inv'
<1>1. \A d \in Client : ~Running(d) => watch'[d] = "off"
  BY DEF Inv, SessionsSound
<1> QED BY <1>1, HandlesKeeps DEF Inv

\* The folder of a file is one.
LEMMA FoldersKeep ==
    ASSUME VaultShape, NEW c \in Client, NEW p \in Path,
           folders' = [folders EXCEPT ![c] = @ \cup {Parent[p]}]
    PROVE  folders' \in [Client -> SUBSET Folder]
  BY SharedAssumption DEF VaultShape

\* UserCreate.
LEMMA UserCreateKeeps ==
    ASSUME Inv, NEW c \in Client, NEW p \in Path, UserCreate(c, p)
    PROVE  Inv'
<1>1. /\ acted \subseteq acted' /\ ids' = ids /\ overlaps' = overlaps
      /\ Running(c) => <<docId[c], p>> \in acted'
  BY DEF UserCreate, Act, callVars
<1>2. Handles(c)
  <2>1. CASE Plugin(c) /\ Running(c) /\ p \notin making[c]
    <3>1. Credit(docId[c], p, acted', overlaps')
      BY <1>1, <2>1 DEF Credit
    <3>2. Manages(c)
      BY <1>1, <2>1, <3>1, CreatedManages DEF UserCreate, CreateEvent, Inv
    <3> QED BY <1>1, <2>1, <3>2, BroadcastSends DEF UserCreate, CreateEvent, Handles
  <2>2. CASE ~(Plugin(c) /\ Running(c) /\ p \notin making[c])
    BY <1>1, <2>2, IdleHandles DEF UserCreate, CreateEvent
  <2> QED BY <2>1, <2>2
<1>3. docId' = docId
  BY <1>2 DEF Handles, Manages
<1>4. VaultShape' /\ CallsSound' /\ WatchersSound'
  <2>1. files[c] \cup {p} \in SUBSET Path /\ {p} \in SUBSET Path
    BY DEF Inv, VaultShape
  <2>2. folders' \in [Client -> SUBSET Folder]
    BY FoldersKeep DEF UserCreate, Put, Inv
  <2>3. /\ files' = [files EXCEPT ![c] = files[c] \cup {p}]
        /\ UNCHANGED <<watch, known, events, callVars, docId>> /\ Notify(c, {p})
    BY <1>3 DEF UserCreate, Put
  <2>4. \A q \in Path \ {p} : q \in files[c] \cup {p} <=> q \in files[c]
    OBVIOUS
  <2>5. Running(c) => \A q \in (files[c] \cup {p}) \cap {p} : <<docId[c], q>> \in acted'
    BY <1>1
  <2> QED BY <1>1, <2>1, <2>2, <2>3, <2>4, <2>5, UserActKeeps
<1> QED BY <1>2, <1>4, StepKeeps DEF UserCreate

\* UserModify: what was edited may be reported as created.
LEMMA UserModifyKeeps ==
    ASSUME Inv, NEW c \in Client, NEW p \in Path, UserModify(c, p)
    PROVE  Inv'
<1>1. /\ acted \subseteq acted' /\ ids' = ids /\ overlaps' = overlaps
      /\ Running(c) => <<docId[c], p>> \in acted'
  BY DEF UserModify, Act, callVars
<1>2. Handles(c) /\ docId' = docId
  BY <1>1, IdleHandles DEF UserModify, managerVars
<1>3. VaultShape' /\ CallsSound' /\ WatchersSound'
  <2>1. files[c] \in SUBSET Path /\ {p} \in SUBSET Path /\ files' = [files EXCEPT ![c] = files[c]]
    BY DEF Inv, VaultShape, UserModify
  <2>2. folders' \in [Client -> SUBSET Folder]
    BY DEF UserModify, Inv, VaultShape
  <2> QED BY <1>1, <1>2, <2>1, <2>2, UserActKeeps DEF UserModify
<1> QED BY <1>2, <1>3, StepKeeps DEF UserModify

\* UserDelete.
LEMMA UserDeleteKeeps ==
    ASSUME Inv, NEW c \in Client, NEW p \in Path, UserDelete(c, p)
    PROVE  Inv'
<1>1. acted \subseteq acted' /\ ids' = ids /\ overlaps' = overlaps
  BY DEF UserDelete, Act, callVars
<1>2. Handles(c)
  <2>1. CASE Plugin(c) /\ Running(c)
    BY <1>1, <2>1, DeletedManages, BroadcastSends DEF UserDelete, Handles, Inv
  <2>2. CASE ~(Plugin(c) /\ Running(c))
    BY <1>1, <2>2, IdleHandles DEF UserDelete
  <2> QED BY <2>1, <2>2
<1>3. docId' = docId
  BY <1>2 DEF Handles, Manages
<1>4. VaultShape' /\ CallsSound' /\ WatchersSound'
  <2>1. files[c] \ {p} \in SUBSET Path /\ {p} \in SUBSET Path
    BY DEF Inv, VaultShape
  <2>2. folders' \in [Client -> SUBSET Folder]
    BY DEF UserDelete, Inv, VaultShape
  <2> QED BY <1>1, <1>3, <2>1, <2>2, UserActKeeps DEF UserDelete
<1> QED BY <1>2, <1>4, StepKeeps DEF UserDelete

\* UserRename, and UserRenameFolder, of which no manager hears.
LEMMA UserRenameKeeps ==
    ASSUME Inv, NEW c \in Client, NEW p \in Path, NEW q \in Path,
           UserRename(c, p, q) \/ UserRenameFolder(c, p, q)
    PROVE  Inv'
<1>1. /\ acted \subseteq acted' /\ ids' = ids /\ overlaps' = overlaps /\ p # q
      /\ Running(c) => <<docId[c], q>> \in acted'
  BY DEF UserRename, UserRenameFolder, Act, callVars
<1>2. Handles(c)
  <2>1. CASE UserRename(c, p, q) /\ Plugin(c) /\ Running(c)
    BY <1>1, <2>1, RenamedManages, BroadcastSends DEF UserRename, Handles, Inv
  <2>2. CASE UserRename(c, p, q) /\ ~(Plugin(c) /\ Running(c))
    BY <1>1, <2>2, IdleHandles DEF UserRename
  <2>3. CASE UserRenameFolder(c, p, q)
    BY <1>1, <2>3, IdleHandles DEF UserRenameFolder
  <2> QED BY <2>1, <2>2, <2>3
<1>3. docId' = docId
  BY <1>2 DEF Handles, Manages
<1>4. VaultShape' /\ CallsSound' /\ WatchersSound'
  <2> DEFINE f == (files[c] \ {p}) \cup {q}
             ps == {p, q}
  <2>1. f \in SUBSET Path /\ ps \in SUBSET Path
    BY DEF Inv, VaultShape
  <2>2. folders' \in [Client -> SUBSET Folder]
    BY FoldersKeep DEF UserRename, UserRenameFolder, Put, Inv
  <2>3. /\ files' = [files EXCEPT ![c] = f]
        /\ Notify(c, ps) \/ NotifyOfFolder(c, ps)
        /\ UNCHANGED <<watch, known, events, callVars, docId>>
    BY <1>3 DEF UserRename, UserRenameFolder, Put
  <2>4. \A r \in Path \ ps : r \in f <=> r \in files[c]
    OBVIOUS
  <2>5. Running(c) => \A r \in f \cap ps : <<docId[c], r>> \in acted'
    BY <1>1
  <2> HIDE DEF f, ps
  <2> QED BY <1>1, <2>1, <2>2, <2>3, <2>4, <2>5, UserActKeeps
<1> QED BY <1>2, <1>4, StepKeeps DEF UserRename, UserRenameFolder

\* LookAt: what is found and was not known is its user's; it is reported so.
LEMMA LookAtKeeps ==
    ASSUME Inv, NEW c \in Client, NEW p \in Path, LookAt(c, p)
    PROVE  Inv'
<1> DEFINE e == [kind |-> Kind(c, p), path |-> p]
<1>1. Handles(c)
  BY IdleHandles DEF LookAt, auxVars, callVars
<1>2. /\ watch[c] = "on" /\ WatcherSound(c)
      /\ notices[c] \in SUBSET Path /\ known[c] \in SUBSET Path /\ events[c] \in Seq(Event)
  BY DEF LookAt, Inv, WatchersSound, VaultShape
<1>3. /\ notices' = [notices EXCEPT ![c] = @ \ {p}]
      /\ known' = [known EXCEPT ![c] = Known(c, p)]
      /\ events' = [events EXCEPT ![c] = Append(@, e)]
      /\ unseen' = [unseen EXCEPT ![c] = @ \ {p}] /\ p \in notices[c]
      /\ UNCHANGED <<managerVars, files, folders, watch, callVars, acted>>
  BY DEF LookAt, ProcessSingleEvent, SendEvent, auxVars
<1>4. /\ notices'[c] = notices[c] \ {p} /\ known'[c] = Known(c, p)
      /\ events'[c] = Append(events[c], e) /\ unseen'[c] = unseen[c] \ {p}
      /\ \A d \in Client : d # c =>
            /\ notices'[d] = notices[d] /\ known'[d] = known[d] /\ events'[d] = events[d]
            /\ unseen'[d] = unseen[d]
  BY <1>3 DEF Inv, VaultShape
<1>5. e \in Event
  BY DEF Kind, Event
<1>6. VaultShape' /\ CallsSound'
  <2>1. Known(c, p) \in SUBSET Path
    BY <1>2 DEF Known
  <2>2. Append(events[c], e) \in Seq(Event)
    BY <1>2, <1>5
  <2> QED BY <1>3, <2>1, <2>2 DEF Inv, VaultShape, CallsSound, callVars
<1>7. WatcherSound(c)'
  <2>1. p \in known'[c] <=> p \in files[c]
    BY <1>4 DEF Known
  <2>2. \A q \in Path : q # p => (q \in known'[c] <=> q \in known[c])
    BY <1>4 DEF Known
  <2>3. \A q \in Path \ (notices'[c] \cup unseen'[c]) : q \in known'[c] <=> q \in files[c]
    BY <1>2, <1>4, <2>1, <2>2 DEF WatcherSound
  <2>4. \A q \in (files[c] \cap notices'[c]) \ known'[c] : <<docId[c], q>> \in acted
    BY <1>2, <1>4, <2>1, <2>2 DEF WatcherSound, Inv, VaultShape
  <2>5. e.kind = "created" => <<docId[c], p>> \in acted
    BY <1>2, <1>3 DEF Kind, WatcherSound
  <2>6. \A i \in 1..Len(events'[c]) : events'[c][i].kind = "created" =>
           <<docId[c], events'[c][i].path>> \in acted
    <3> SUFFICES ASSUME NEW i \in 1..Len(events'[c]), events'[c][i].kind = "created"
                 PROVE  <<docId[c], events'[c][i].path>> \in acted
      OBVIOUS
    <3>1. CASE i \in 1..Len(events[c])
      <4>1. events'[c][i] = events[c][i]
        BY <1>2, <1>4, <1>5, <3>1
      <4> QED BY <1>2, <3>1, <4>1 DEF WatcherSound
    <3>2. CASE i = Len(events[c]) + 1
      <4>1. events'[c][i] = e
        BY <1>2, <1>4, <1>5, <3>2
      <4> QED BY <2>5, <4>1
    <3>3. Len(Append(events[c], e)) = Len(events[c]) + 1 /\ Len(events[c]) \in Nat
      BY <1>2, <1>5
    <3> HIDE DEF e
    <3>4. Len(events'[c]) = Len(events[c]) + 1
      BY <1>4, <3>3
    <3> QED BY <3>1, <3>2, <3>3, <3>4
  <2> QED BY <1>2, <1>3, <2>3, <2>4, <2>6 DEF WatcherSound, managerVars
<1>8. ASSUME NEW d \in Client, d # c PROVE WatcherSound(d)'
  BY <1>3, <1>4, <1>8, WatcherStays DEF Inv, WatchersSound, managerVars
<1>9. WatchersSound'
  BY <1>7, <1>8 DEF WatchersSound
<1> QED BY <1>1, <1>3, <1>6, <1>9, StepKeeps

\* TakeEvent: a created file that is reported is its user's.
LEMMA TakeEventKeeps ==
    ASSUME Inv, NEW c \in Client, TakeEvent(c)
    PROVE  Inv'
<1> DEFINE e == Head(events[c])
<1>1. /\ events[c] \in Seq(Event) /\ events[c] # <<>> /\ WatcherSound(c)
      /\ watch[c] # "off" /\ Running(c)
  BY DEF TakeEvent, Inv, VaultShape, WatchersSound, WatcherSound, SessionsSound
<1>2. e \in Event /\ e = events[c][1] /\ 1 \in 1..Len(events[c])
  BY <1>1
<1>3. e.kind = "created" => <<docId[c], e.path>> \in acted
  BY <1>1, <1>2 DEF WatcherSound
<1>4. UNCHANGED <<files, folders, watch, known, notices, unseen, making, calls, overlaps, acted, ids>>
  BY DEF TakeEvent, callVars, auxVars
<1>5. Handles(c)
  <2>1. CASE HandleCreated(c, e.path) /\ Broadcast(c, CreatedIgnored(e.path)) /\ e.kind = "created"
    <3>1. e.path \in Path /\ Credit(docId[c], e.path, acted', overlaps')
      BY <1>2, <1>3, <1>4, <2>1 DEF Event, Credit
    <3> HIDE DEF e
    <3>2. Manages(c)
      BY <1>4, <2>1, <3>1, CreatedManages DEF Inv
    <3> QED BY <1>1, <1>4, <2>1, <3>2, BroadcastSends DEF Handles
  <2>2. CASE HandleDeleted(c, e.path) /\ Broadcast(c, DeletedIgnored(e.path))
    BY <1>1, <1>2, <1>4, <2>2, DeletedManages, BroadcastSends DEF Handles, Inv, Event
  <2>3. CASE UNCHANGED <<managerVars, updates>>
    BY <1>4, <2>3, IdleHandles
  <2> QED BY <2>1, <2>2, <2>3 DEF TakeEvent
<1>6. docId' = docId
  BY <1>5 DEF Handles, Manages
<1>7. events' = [events EXCEPT ![c] = Tail(@)]
  BY DEF TakeEvent
<1>8. Tail(events[c]) \in Seq(Event)
  BY <1>1
<1>9. events'[c] = Tail(events[c]) /\ \A d \in Client : d # c => events'[d] = events[d]
  BY <1>7 DEF Inv, VaultShape
<1>10. VaultShape' /\ CallsSound'
  BY <1>4, <1>7, <1>8 DEF Inv, VaultShape, CallsSound
<1>11. WatcherSound(c)'
  <2>1. \A i \in 1..Len(Tail(events[c])) :
           i + 1 \in 1..Len(events[c]) /\ Tail(events[c])[i] = events[c][i + 1]
    BY <1>1
  <2> QED BY <1>1, <1>4, <1>6, <1>9, <2>1 DEF WatcherSound
<1>12. ASSUME NEW d \in Client, d # c PROVE WatcherSound(d)'
  BY <1>4, <1>6, <1>9, <1>12, WatcherStays DEF Inv, WatchersSound
<1>13. WatchersSound'
  BY <1>11, <1>12 DEF WatchersSound
<1> QED BY <1>4, <1>5, <1>10, <1>13, StepKeeps

\* StartWatching: what the scan saw is still what it takes for known.
LEMMA StartWatchingKeeps ==
    ASSUME Inv, NEW c \in Client, StartWatching(c)
    PROVE  Inv'
<1>1. Handles(c) /\ Running(c)
  BY IdleHandles DEF StartWatching, auxVars, callVars
<1>2. /\ watch[c] = "scanned" /\ watch' = [watch EXCEPT ![c] = "on"]
      /\ UNCHANGED <<managerVars, files, folders, known, notices, events, unseen, callVars, acted>>
  BY DEF StartWatching, Watch, auxVars
<1>3. watch'[c] = "on" /\ \A d \in Client : d # c => watch'[d] = watch[d]
  BY <1>2 DEF Inv, VaultShape
<1>4. VaultShape' /\ CallsSound'
  BY <1>2 DEF Inv, VaultShape, CallsSound, callVars
<1>5. WatcherSound(c)'
  BY <1>2, <1>3 DEF Inv, WatchersSound, WatcherSound, managerVars
<1>6. ASSUME NEW d \in Client, d # c PROVE WatcherSound(d)'
  BY <1>2, <1>3, <1>6, WatcherStays DEF Inv, WatchersSound, managerVars
<1>7. WatchersSound'
  BY <1>5, <1>6 DEF WatchersSound
<1> QED BY <1>1, <1>3, <1>4, <1>7, StepKeeps

\* A manager that is new, or gone, has an empty manifest and no document.
LEMMA EmptiedManagers ==
    ASSUME Inv, NEW c \in Client, NEW id \in Nat, id # docId[c],
           docId' = [docId EXCEPT ![c] = id],
           manifest' = [manifest EXCEPT ![c] = EmptyManifest],
           registry' = [registry EXCEPT ![c] = {}],
           updates' = updates, acted' = acted, overlaps' = overlaps, ids \subseteq ids', id \in ids => id = 0
    PROVE  Shape' /\ ManifestsSound' /\ WritesSound'
<1>1. \A d \in Client : /\ manifest'[d] = IF d = c THEN EmptyManifest ELSE manifest[d]
                        /\ registry'[d] = IF d = c THEN {} ELSE registry[d]
                        /\ docId'[d] = IF d = c THEN id ELSE docId[d]
  BY DEF Inv, Shape
<1>2. Shape'
  BY EmptyManifestIsSound DEF Inv, Shape
<1>3. ManifestsSound'
  <2>1. \A d \in Client : Mirrors(registry'[d], manifest'[d])
    BY <1>1, EmptyManifestIsSound DEF Inv, ManifestsSound
  <2>2. \A d \in Client : Credited(manifest'[d], acted, overlaps)
    BY <1>1, EmptyManifestIsSound DEF Inv, ManifestsSound
  <2> QED BY <2>1, <2>2 DEF Inv, ManifestsSound
<1>5. WritesSound'
  <2>1. \A n : Behind(EmptyManifest, n, id) /\ Drawn(EmptyManifest, ids')
    BY DEF EmptyManifest, Behind, Drawn, Ends
  <2>2. \A n : Drawn(n, ids) => Drawn(n, ids')
    BY DEF Drawn
  <2>3. /\ \A d \in Client : Drawn(manifest'[d], ids')
        /\ \A u \in updates' : Drawn(u.state, ids')
    BY <1>1, <2>1, <2>2 DEF Inv, WritesSound
  <2>4. ASSUME NEW d \in Client, docId'[d] # 0
        PROVE  /\ \A e \in Client : Behind(manifest'[e], manifest'[d], docId'[d])
               /\ \A u \in updates' : Behind(u.state, manifest'[d], docId'[d])
    <3>1. CASE d = c
      <4>1. docId'[d] = id /\ id \notin ids
        BY <1>1, <2>4, <3>1
      <4>2. \A n, m : Drawn(n, ids) => Behind(n, m, id)
        BY <4>1 DEF Drawn, Behind, Ends
      <4>3. \A n, m : n = EmptyManifest => Behind(n, m, id)
        BY DEF EmptyManifest, Behind, Ends
      <4> QED BY <1>1, <4>1, <4>2, <4>3 DEF Inv, WritesSound
    <3>2. CASE d # c
      <4>1. docId'[d] = docId[d] /\ manifest'[d] = manifest[d] /\ Running(d)
        BY <1>1, <2>4, <3>2 DEF Running
      <4>2. \A m, i : Behind(EmptyManifest, m, i)
        BY DEF EmptyManifest, Behind, Ends
      <4> QED BY <1>1, <4>1, <4>2 DEF Inv, WritesSound
    <3> QED BY <3>1, <3>2
  <2> QED BY <2>3, <2>4 DEF WritesSound, Running
<1> QED BY <1>2, <1>3, <1>5

\* StartSession, with an id of its own and, in a native client, a scan.
LEMMA StartSessionKeeps ==
    ASSUME Inv, NEW c \in Client, StartSession(c)
    PROVE  Inv'
<1>1. PICK id \in Ids[c] \ ids : ManagerNew(c, id) /\ ids' = ids \cup {id}
  BY DEF StartSession
<1>2. id \in Nat /\ id # 0 /\ docId[c] = 0
  BY <1>1, SharedAssumption DEF StartSession, Running
<1>3. UNCHANGED <<files, folders, making, calls, overlaps, updates, acted>>
  BY DEF StartSession, callVars
<1>4. Shape' /\ ManifestsSound' /\ WritesSound'
  BY <1>1, <1>2, <1>3, EmptiedManagers DEF ManagerNew
<1>5. \A d \in Client : /\ manifest'[d] = IF d = c THEN EmptyManifest ELSE manifest[d]
                        /\ registry'[d] = IF d = c THEN {} ELSE registry[d]
                        /\ docId'[d] = IF d = c THEN id ELSE docId[d]
  BY <1>1 DEF ManagerNew, Inv, Shape
<1>6. watch[c] = "off" /\ WatcherSound(c)
  BY <1>2 DEF Inv, SessionsSound, WatchersSound, Running
<1>7. /\ UNCHANGED <<notices, events>>
      /\ \/ UNCHANGED <<watch, known, unseen>>
         \/ \E found \in SUBSET files[c] :
               /\ c \in Native
               /\ watch' = [watch EXCEPT ![c] = "scanned"]
               /\ known' = [known EXCEPT ![c] = found]
               /\ unseen' = [unseen EXCEPT ![c] = files[c] \ found]
  BY DEF StartSession, Plugin, Scan, ScanExistingFiles, watcherVars
<1>8. \A d \in Client : d # c =>
         watch'[d] = watch[d] /\ known'[d] = known[d] /\ unseen'[d] = unseen[d]
  BY <1>7 DEF Inv, VaultShape
<1>9. VaultShape' /\ CallsSound'
  <2>1. VaultShape /\ CallsSound
    BY DEF Inv
  <2>2. watch' \in [Client -> {"off", "scanned", "on"}]
    BY <1>7, <2>1 DEF VaultShape
  <2>3. known' \in [Client -> SUBSET Path] /\ unseen' \in [Client -> SUBSET Path]
    <3>1. files[c] \in SUBSET Path
      BY <2>1 DEF VaultShape
    <3>2. CASE UNCHANGED <<watch, known, unseen>>
      BY <2>1, <3>2 DEF VaultShape
    <3>3. ASSUME NEW found \in SUBSET files[c],
                 known' = [known EXCEPT ![c] = found],
                 unseen' = [unseen EXCEPT ![c] = files[c] \ found]
          PROVE  /\ known' \in [Client -> SUBSET Path]
                 /\ unseen' \in [Client -> SUBSET Path]
      <4>1. found \in SUBSET Path /\ files[c] \ found \in SUBSET Path
        BY <3>1
      <4> QED BY <2>1, <3>3, <4>1 DEF VaultShape
    <3> QED BY <1>7, <3>2, <3>3
  <2> QED BY <1>3, <1>7, <2>1, <2>2, <2>3 DEF VaultShape, CallsSound
<1>10. SessionsSound'
  <2>1. \A d \in Client : Running(d)' => docId'[d] \in ids' /\ docId'[d] \in Ids[d]
    BY <1>1, <1>5 DEF Inv, SessionsSound, Running
  <2>2. \A d, e \in Client : Running(d)' /\ docId'[d] = docId'[e] => d = e
    BY <1>1, <1>5 DEF Inv, SessionsSound, Running
  <2>3. \A d \in Client : ~Running(d)' =>
           manifest'[d] = EmptyManifest /\ registry'[d] = {} /\ watch'[d] = "off"
    BY <1>2, <1>5, <1>8 DEF Inv, SessionsSound, Running
  <2> QED BY <2>1, <2>2, <2>3 DEF SessionsSound, Running
<1>11. WatcherSound(c)'
  <2>1. CASE UNCHANGED <<watch, known, unseen>>
    BY <1>3, <1>6, <1>7, <2>1 DEF WatcherSound
  <2>2. ASSUME NEW found \in SUBSET files[c], c \in Native,
               watch' = [watch EXCEPT ![c] = "scanned"],
               known' = [known EXCEPT ![c] = found],
               unseen' = [unseen EXCEPT ![c] = files[c] \ found]
        PROVE  WatcherSound(c)'
    <3>1. watch'[c] = "scanned" /\ known'[c] = found /\ unseen'[c] = files[c] \ found
      BY <2>2 DEF Inv, VaultShape
    <3>2. notices'[c] = {} /\ events'[c] = <<>> /\ files' = files /\ Len(<<>>) = 0
      BY <1>3, <1>6, <1>7 DEF WatcherSound
    <3> QED BY <2>2, <3>1, <3>2 DEF WatcherSound
  <2> QED BY <1>7, <2>1, <2>2
<1>12. ASSUME NEW d \in Client, d # c PROVE WatcherSound(d)'
  BY <1>3, <1>5, <1>7, <1>8, <1>12, WatcherStays DEF Inv, WatchersSound
<1>13. WatchersSound'
  BY <1>11, <1>12 DEF WatchersSound
<1> QED BY <1>4, <1>9, <1>10, <1>13 DEF Inv

\* StopSession, with which the watcher goes.
LEMMA StopSessionKeeps ==
    ASSUME Inv, NEW c \in Client, StopSession(c)
    PROVE  Inv'
<1>1. /\ ManagerFree(c) /\ WatcherStop(c) /\ docId[c] # 0
      /\ UNCHANGED <<files, folders, making, calls, overlaps, updates, acted, ids>>
  BY DEF StopSession, Running, callVars
<1>2. Shape' /\ ManifestsSound' /\ WritesSound'
  BY <1>1, EmptiedManagers DEF ManagerFree
<1>3. \A d \in Client : /\ manifest'[d] = IF d = c THEN EmptyManifest ELSE manifest[d]
                        /\ registry'[d] = IF d = c THEN {} ELSE registry[d]
                        /\ docId'[d] = IF d = c THEN 0 ELSE docId[d]
  BY <1>1 DEF ManagerFree, Inv, Shape
<1>4. /\ watch'[c] = "off" /\ events'[c] = <<>> /\ notices'[c] = {}
      /\ \A d \in Client : d # c =>
            /\ watch'[d] = watch[d] /\ known'[d] = known[d] /\ notices'[d] = notices[d]
            /\ events'[d] = events[d] /\ unseen'[d] = unseen[d]
  BY <1>1 DEF WatcherStop, Inv, VaultShape
<1>5. VaultShape' /\ CallsSound'
  BY <1>1 DEF WatcherStop, Inv, VaultShape, CallsSound
<1>6. SessionsSound'
  <2>1. \A d \in Client : Running(d)' => docId'[d] \in ids' /\ docId'[d] \in Ids[d]
    BY <1>1, <1>3 DEF Inv, SessionsSound, Running
  <2>2. \A d, e \in Client : Running(d)' /\ docId'[d] = docId'[e] => d = e
    BY <1>3 DEF Inv, SessionsSound, Running
  <2>3. \A d \in Client : ~Running(d)' =>
           manifest'[d] = EmptyManifest /\ registry'[d] = {} /\ watch'[d] = "off"
    BY <1>3, <1>4 DEF Inv, SessionsSound, Running
  <2> QED BY <2>1, <2>2, <2>3 DEF SessionsSound, Running
<1>7. WatcherSound(c)'
  BY <1>1, <1>4 DEF Inv, WatchersSound, WatcherSound
<1>8. ASSUME NEW d \in Client, d # c PROVE WatcherSound(d)'
  BY <1>1, <1>3, <1>4, <1>8, WatcherStays DEF Inv, WatchersSound
<1>9. WatchersSound'
  BY <1>7, <1>8 DEF WatchersSound
<1> QED BY <1>2, <1>5, <1>6, <1>9 DEF Inv

\* Iterate: the guard of the path it comes to goes up; if another call waits for
\* the path, they overlap.
LEMMA IterateSound ==
    ASSUME CallsSound, NEW c \in Client \ Native, NEW slot \in 1..MaxCalls, NEW ps \in SUBSET Path,
           NEW others \in SUBSET calls, NEW guard \in SUBSET Path,
           \A k \in others : k.of = c => k.path \in guard \/ <<c, k.path>> \in overlaps,
           Iterate(c, slot, ps, others, guard)
    PROVE  CallsSound' /\ overlaps \subseteq overlaps'
<1>1. PICK p \in ps \ files'[c], skipped \in SUBSET (ps \cap files'[c]) :
        /\ making' = [making EXCEPT ![c] = guard \cup {p}]
        /\ calls' = others \cup {[of |-> c, slot |-> slot, path |-> p,
                 awaits |-> IF Parent[p] \in folders'[c] THEN "file" ELSE "folder",
                 rest |-> ps \ ({p} \cup skipped)]}
        /\ overlaps' = IF \E k \in others : k.of = c /\ k.path = p
                       THEN overlaps \cup {<<c, p>>} ELSE overlaps
  BY DEF Iterate
<1> DEFINE n == [of |-> c, slot |-> slot, path |-> p,
                 awaits |-> IF Parent[p] \in folders'[c] THEN "file" ELSE "folder",
                 rest |-> ps \ ({p} \cup skipped)]
<1>2. p \in Path /\ n \in Call /\ n.of = c /\ n.path = p
  BY DEF Call
<1> HIDE DEF n
<1>3. calls' = others \cup {n} /\ calls' \subseteq Call
  BY <1>1, <1>2 DEF n, CallsSound
<1>4. overlaps \subseteq overlaps'
  BY <1>1
<1>5. /\ making' \in [Client -> SUBSET Path] /\ making'[c] = guard \cup {p}
      /\ \A d \in Client : d # c => making'[d] = making[d]
  BY <1>1, <1>2 DEF CallsSound
<1>6. \A k \in calls' : k.path \in making'[k.of] \/ <<k.of, k.path>> \in overlaps'
  <2> SUFFICES ASSUME NEW k \in others
               PROVE  k.path \in making'[k.of] \/ <<k.of, k.path>> \in overlaps'
    BY <1>2, <1>3, <1>5
  <2>1. k \in calls /\ k.of \in Client
    BY DEF CallsSound, Call
  <2>2. CASE k.of = c
    BY <1>4, <1>5, <2>2
  <2>3. CASE k.of # c
    BY <1>4, <1>5, <2>1, <2>3 DEF CallsSound
  <2> QED BY <2>2, <2>3
<1>7. \A k \in others : k.of = c /\ k.path = p => <<c, p>> \in overlaps'
  BY <1>1
<1>8. ASSUME NEW k \in calls', NEW l \in calls', k # l, k.of = l.of, k.path = l.path
      PROVE  <<k.of, k.path>> \in overlaps'
  <2>1. CASE k \in others /\ l \in others
    BY <1>4, <1>8, <2>1 DEF CallsSound
  <2>2. CASE k = n \/ l = n
    BY <1>2, <1>3, <1>7, <1>8, <2>2
  <2> QED BY <1>3, <2>1, <2>2
<1> QED BY <1>3, <1>4, <1>5, <1>6, <1>8 DEF CallsSound

\* finally: who still waits for the path has overlapped with the call.
LEMMA FinallySound ==
    ASSUME CallsSound, NEW k \in calls, Finally(k)
    PROVE  CallsSound' /\ overlaps \subseteq overlaps'
<1> DEFINE guard == making[k.of] \ {k.path}
<1>1. /\ k.of \in Client \ Native /\ k.slot \in 1..MaxCalls /\ k.rest \in SUBSET Path
      /\ guard \in SUBSET Path /\ calls \ {k} \in SUBSET calls
  BY DEF CallsSound, Call
<1>2. \A l \in calls \ {k} : l.of = k.of => l.path \in guard \/ <<k.of, l.path>> \in overlaps
  <2> SUFFICES ASSUME NEW l \in calls \ {k}, l.of = k.of, l.path = k.path
               PROVE  <<k.of, l.path>> \in overlaps
    BY DEF CallsSound
  <2> QED BY DEF CallsSound
<1>3. CASE /\ making' = [making EXCEPT ![k.of] = guard]
           /\ calls' = calls \ {k}
           /\ UNCHANGED overlaps
  <2>1. /\ making' \in [Client -> SUBSET Path] /\ making'[k.of] = guard
        /\ \A d \in Client : d # k.of => making'[d] = making[d]
    BY <1>1, <1>3 DEF CallsSound
  <2>2. \A l \in calls' : l.path \in making'[l.of] \/ <<l.of, l.path>> \in overlaps'
    <3> SUFFICES ASSUME NEW l \in calls \ {k}
                 PROVE  l.path \in making'[l.of] \/ <<l.of, l.path>> \in overlaps
      BY <1>3
    <3>1. l.of \in Client
      BY DEF CallsSound, Call
    <3>2. CASE l.of = k.of
      BY <1>2, <2>1, <3>2
    <3>3. CASE l.of # k.of
      BY <2>1, <3>1, <3>3 DEF CallsSound
    <3> QED BY <3>2, <3>3
  <2> QED BY <1>3, <2>1, <2>2 DEF CallsSound
<1>4. CASE Iterate(k.of, k.slot, k.rest, calls \ {k}, guard)
  <2> HIDE DEF guard
  <2> QED BY <1>1, <1>2, <1>4, IterateSound
<1> QED BY <1>3, <1>4 DEF Finally

\* Deliver: only a plugin is given paths to materialize.
LEMMA DeliverKeeps ==
    ASSUME Inv, NEW u \in updates, NEW c \in Client, Deliver(c, u)
    PROVE  Inv'
<1>1. /\ Running(c) /\ ApplyRemoteManifest(c, u.state) /\ updates' = updates \ {u}
      /\ UNCHANGED <<files, folders, watch, known, notices, events, unseen, acted, ids>>
  BY DEF Deliver, watcherVars
<1>2. CallsSound' /\ overlaps \subseteq overlaps'
  <2>1. CASE UNCHANGED callVars
    BY <2>1 DEF Inv, CallsSound, callVars
  <2>2. CASE Plugin(c) /\ MaterializeRemotePaths(c, ToOpen(c, u.state))
    <3>1. ToOpen(c, u.state) \in SUBSET Path /\ c \in Client \ Native
      BY <2>2 DEF ToOpen, ListFiles, Plugin
    <3>2. making[c] \in SUBSET Path /\ calls \in SUBSET calls
      BY DEF Inv, CallsSound
    <3>3. \A k \in calls : k.of = c => k.path \in making[c] \/ <<c, k.path>> \in overlaps
      BY DEF Inv, CallsSound
    <3>4. CASE UNCHANGED callVars
      BY <2>1, <3>4
    <3>5. ASSUME NEW slot \in 1..MaxCalls, Iterate(c, slot, ToOpen(c, u.state), calls, making[c])
          PROVE  CallsSound' /\ overlaps \subseteq overlaps'
      BY <3>1, <3>2, <3>3, <3>5, IterateSound DEF Inv
    <3> QED BY <2>1, <2>2, <3>5 DEF MaterializeRemotePaths
  <2> QED BY <2>1, <2>2 DEF Deliver
<1>3. Handles(c) /\ docId' = docId
  <2>1. Manages(c)
    BY <1>1, <1>2, AppliedManages DEF Inv
  <2> QED BY <1>1, <1>2, <2>1 DEF Handles, Sends, Manages
<1>4. VaultShape'
  BY <1>1 DEF Inv, VaultShape
<1>5. WatchersSound'
  BY <1>1, <1>3, WatcherStays DEF Inv, WatchersSound
<1> QED BY <1>1, <1>2, <1>3, <1>4, <1>5, StepKeeps

\* Lose, and a step that changes nothing.
LEMMA LoseKeeps ==
    ASSUME Inv, NEW c \in Client,
           UNCHANGED <<managerVars, files, folders, watcherVars, callVars, acted, ids>>,
           updates' \subseteq updates
    PROVE  Inv'
<1>1. Handles(c)
  BY IdleHandles DEF callVars
<1>2. VaultShape' /\ CallsSound' /\ WatchersSound'
  BY DEF Inv, VaultShape, CallsSound, WatchersSound, WatcherSound, watcherVars, callVars, managerVars
<1> QED BY <1>1, <1>2, StepKeeps DEF watcherVars

\* What happens to the files of a plugin is nothing to any watcher.
LEMMA PluginsHaveNoWatcher ==
    ASSUME Inv, NEW c \in Client \ Native, UNCHANGED <<watcherVars, docId, acted>>,
           \A d \in Client : d # c => files'[d] = files[d]
    PROVE  WatchersSound'
<1>1. WatcherSound(c)'
  BY DEF Inv, WatchersSound, WatcherSound, watcherVars
<1>2. ASSUME NEW d \in Client, d # c PROVE WatcherSound(d)'
  BY <1>2, WatcherStays DEF Inv, WatchersSound, watcherVars
<1> QED BY <1>1, <1>2 DEF WatchersSound

\* CreateFolder: the call is another, at the same path.
LEMMA CreateFolderKeeps ==
    ASSUME Inv, NEW k \in calls, CreateFolder(k)
    PROVE  Inv'
<1> DEFINE n == [k EXCEPT !.awaits = "file"]
<1>1. k \in Call /\ k.of \in Client \ Native /\ k.path \in Path
  BY DEF Inv, CallsSound, Call
<1>2. n \in Call /\ n.of = k.of /\ n.path = k.path
  BY <1>1 DEF Call
<1>3. /\ calls' = (calls \ {k}) \cup {n}
      /\ UNCHANGED <<managerVars, files, watcherVars, making, overlaps, updates, acted, ids>>
      /\ folders' = [folders EXCEPT ![k.of] = @ \cup {Parent[k.path]}]
  BY DEF CreateFolder, auxVars
<1> HIDE DEF n
<1>4. CallsSound'
  <2>1. making' \in [Client -> SUBSET Path] /\ calls' \subseteq Call
    BY <1>2, <1>3 DEF Inv, CallsSound
  <2>2. \A l \in calls' : l.path \in making[l.of] \/ <<l.of, l.path>> \in overlaps
    BY <1>2, <1>3 DEF Inv, CallsSound
  <2>3. ASSUME NEW l \in calls', NEW m \in calls', l # m, l.of = m.of, l.path = m.path
        PROVE  <<l.of, l.path>> \in overlaps
    BY <1>2, <1>3, <2>3 DEF Inv, CallsSound
  <2> QED BY <1>3, <2>1, <2>2, <2>3 DEF CallsSound
<1>5. VaultShape'
  <2>1. folders' \in [Client -> SUBSET Folder]
    BY <1>1, <1>3, FoldersKeep DEF Inv
  <2> QED BY <1>3, <2>1 DEF Inv, VaultShape, watcherVars
<1>6. WatchersSound'
  BY <1>1, <1>3, PluginsHaveNoWatcher DEF managerVars
<1>7. Handles(k.of)
  BY <1>1, <1>3, IdleHandles
<1> QED BY <1>1, <1>3, <1>4, <1>5, <1>6, <1>7, StepKeeps DEF watcherVars

\* CreateFile: without the guard, other calls of the client have been at the path.
LEMMA CreateFileKeeps ==
    ASSUME Inv, NEW k \in calls, CreateFile(k)
    PROVE  Inv'
<1>1. k.of \in Client \ Native /\ k.path \in Path
  BY DEF Inv, CallsSound, Call
<1>2. CallsSound' /\ overlaps \subseteq overlaps'
  BY FinallySound DEF CreateFile, Inv
<1>3. /\ UNCHANGED <<folders, watcherVars, acted, ids>>
      /\ files' = [files EXCEPT ![k.of] = @ \cup {k.path}]
  BY DEF CreateFile, auxVars
<1>4. Handles(k.of)
  <2>1. CASE UNCHANGED <<managerVars, updates>>
    BY <1>1, <1>2, <1>3, <2>1, IdleHandles
  <2>2. CASE /\ Running(k.of) /\ k.path \notin making[k.of]
             /\ HandleCreated(k.of, k.path) /\ Broadcast(k.of, CreatedIgnored(k.path))
    <3>1. <<k.of, k.path>> \in overlaps
      BY <2>2 DEF Inv, CallsSound
    <3>2. docId[k.of] \in Ids[k.of]
      BY <1>1, <2>2 DEF Inv, SessionsSound
    <3>3. Credit(docId[k.of], k.path, acted', overlaps')
      BY <1>1, <1>2, <3>1, <3>2 DEF Credit
    <3>4. Manages(k.of)
      BY <1>1, <1>2, <1>3, <2>2, <3>3, CreatedManages DEF Inv
    <3> QED BY <1>1, <1>2, <1>3, <2>2, <3>4, BroadcastSends DEF Handles
  <2> QED BY <2>1, <2>2 DEF CreateFile, CreateEvent
<1>5. docId' = docId
  BY <1>4 DEF Handles, Manages
<1>6. VaultShape' /\ \A d \in Client : d # k.of => files'[d] = files[d]
  BY <1>1, <1>3 DEF Inv, VaultShape, watcherVars
<1>7. WatchersSound'
  BY <1>1, <1>3, <1>5, <1>6, PluginsHaveNoWatcher
<1> QED BY <1>1, <1>2, <1>3, <1>4, <1>6, <1>7, StepKeeps DEF watcherVars

\* MaterializeFail.
LEMMA MaterializeFailKeeps ==
    ASSUME Inv, NEW k \in calls, MaterializeFail(k)
    PROVE  Inv'
<1>1. k.of \in Client
  BY DEF Inv, CallsSound, Call
<1>2. CallsSound' /\ overlaps \subseteq overlaps'
  BY FinallySound DEF MaterializeFail, Inv
<1>3. UNCHANGED <<managerVars, files, folders, watcherVars, updates, acted, ids>>
  BY DEF MaterializeFail
<1>4. VaultShape' /\ WatchersSound'
  BY <1>3 DEF Inv, VaultShape, WatchersSound, WatcherSound, watcherVars, managerVars
<1>5. Handles(k.of)
  BY <1>1, <1>2, <1>3, IdleHandles
<1> QED BY <1>1, <1>2, <1>3, <1>4, <1>5, StepKeeps DEF watcherVars

\* Every step keeps the invariant.
LEMMA NextKeeps ==
    ASSUME Inv, Next
    PROVE  Inv'
<1>1. CASE \E u \in updates : Deliver(u.to, u)
  BY <1>1, DeliverKeeps DEF Inv, Shape
<1>2. CASE \E k \in calls : CreateFolder(k) \/ CreateFile(k) \/ MaterializeFail(k)
  BY <1>2, CreateFolderKeeps, CreateFileKeeps, MaterializeFailKeeps
<1>3. CASE \E c \in Client : StartWatching(c) \/ TakeEvent(c) \/ \E p \in Path : LookAt(c, p)
  BY <1>3, StartWatchingKeeps, TakeEventKeeps, LookAtKeeps
<1>4. CASE UserAct
  BY <1>4, UserCreateKeeps, UserModifyKeeps, UserDeleteKeeps, UserRenameKeeps DEF UserAct
<1>5. CASE \E u \in updates : Lose(u)
  <2>1. PICK u \in updates : Lose(u)
    BY <1>5
  <2>2. u.to \in Client
    BY DEF Inv, Shape
  <2> QED BY <2>1, <2>2, LoseKeeps DEF Lose
<1>6. CASE \E c \in Client : StopSession(c) \/ StartSession(c)
  BY <1>6, StopSessionKeeps, StartSessionKeeps
<1> QED BY <1>1, <1>2, <1>3, <1>4, <1>5, <1>6 DEF Next, Progress, Fault

\* Nothing is there at first.
LEMMA InitSound ==
    ASSUME Init
    PROVE  Inv
<1>1. Shape /\ VaultShape /\ CallsSound
  BY EmptyManifestIsSound, SharedAssumption DEF Init, Shape, VaultShape, Event, CallsSound
<1>2. SessionsSound /\ WatchersSound
  BY DEF Init, SessionsSound, Running, WatchersSound, WatcherSound
<1>3. ManifestsSound
  BY EmptyManifestIsSound DEF Init, ManifestsSound
<1>4. WritesSound
  BY DEF Init, WritesSound, Running, Drawn, EmptyManifest
<1> QED BY <1>1, <1>2, <1>3, <1>4 DEF Inv

\* A step that changes nothing keeps everything.
LEMMA StutterKeeps ==
    ASSUME Inv, UNCHANGED vars
    PROVE  Inv'
<1>1. UNCHANGED <<manifest, registry, docId, files, folders, watch, known, notices, events, unseen,
                  making, calls, overlaps, updates, acted, ids>>
  BY DEF vars, managerVars, watcherVars, callVars, auxVars
<1> QED BY <1>1 DEF Inv, Shape, VaultShape, CallsSound, SessionsSound, Running, ManifestsSound,
                    WritesSound, WatchersSound, WatcherSound

\* The invariant holds in every state.
LEMMA Invariant == Spec => []Inv
<1>1. Inv /\ [Next]_vars => Inv'
  BY NextKeeps, StutterKeeps
<1> QED BY <1>1, InitSound, PTL DEF Spec

-----------------------------------------------------------------------------
(* What a native client said last.                                         *)

\* The client was the last to write the path.
Own(c, p) == Ends(manifest[c][p].chain, docId[c])

\* An event that has the manager say whether the path is there.
Tells(e, p) == e.path = p /\ e.kind # "modified"

Silent(es, p) == \A i \in 1..Len(es) : ~Tells(es[i], p)

\* The i-th event is the last to tell of the path.
LastWord(es, p, i) ==
    /\ i \in 1..Len(es) /\ Tells(es[i], p)
    /\ \A j \in 1..Len(es) : j > i => ~Tells(es[j], p)

\* Between watcher and manifest nothing is said twice or forgotten: the last event
\* on its way, or if there is none the manifest, agrees with known_files.
WordSound(c) ==
    /\ Running(c) => watch[c] # "off"
    /\ watch[c] # "on" => notices[c] = {} /\ events[c] = <<>> /\ \A p \in Path : ~Own(c, p)
    /\ \A p \in Path : Own(c, p) => ShouldSync(p)
    /\ \A p \in Path, i \in 1..Len(events[c]) : LastWord(events[c], p, i) =>
          (events[c][i].kind = "created" <=> p \in known[c])
    /\ \A p \in Path : Own(c, p) /\ Silent(events[c], p) =>
          (manifest[c][p].alive <=> p \in known[c])

WatchKept(c) ==
    /\ watch'[c] = watch[c] /\ known'[c] = known[c] /\ notices'[c] = notices[c]
    /\ events'[c] = events[c]

\* What is still the client's own word is what it was.
OwnKept(c) ==
    /\ docId'[c] = docId[c]
    /\ \A p \in Path : Ends(manifest'[c][p].chain, docId[c]) => manifest'[c][p] = manifest[c][p]

\* The order of events without the first.
LEMMA TailTells ==
    ASSUME NEW es \in Seq(Event), es # <<>>, NEW p
    PROVE  /\ \A i \in 1..Len(Tail(es)) : i + 1 \in 1..Len(es) /\ Tail(es)[i] = es[i + 1]
           /\ \A i \in 1..Len(Tail(es)) : LastWord(Tail(es), p, i) => LastWord(es, p, i + 1)
           /\ Silent(Tail(es), p) => LastWord(es, p, 1) \/ (Silent(es, p) /\ ~Tells(es[1], p))
<1>1. Len(es) \in Nat \ {0} /\ Len(Tail(es)) = Len(es) - 1
  OBVIOUS
<1>2. \A i \in 1..Len(Tail(es)) : i + 1 \in 1..Len(es) /\ Tail(es)[i] = es[i + 1]
  OBVIOUS
<1> DEFINE ts == Tail(es)
<1>3. Len(ts) = Len(es) - 1 /\ \A i \in 1..Len(ts) : i + 1 \in 1..Len(es) /\ ts[i] = es[i + 1]
  BY <1>1, <1>2
<1> HIDE DEF ts
<1>4. \A j \in 1..Len(es) : j = 1 \/ (j - 1 \in 1..Len(ts) /\ ts[j - 1] = es[j])
  <2> SUFFICES ASSUME NEW j \in 1..Len(es), j # 1
               PROVE  j - 1 \in 1..Len(ts) /\ ts[j - 1] = es[j]
    OBVIOUS
  <2>1. j - 1 \in 1..Len(ts) /\ (j - 1) + 1 = j
    BY <1>1, <1>3
  <2> QED BY <1>3, <2>1
<1>5. ASSUME NEW i \in 1..Len(ts), LastWord(ts, p, i) PROVE LastWord(es, p, i + 1)
  <2>1. i + 1 \in 1..Len(es) /\ Tells(es[i + 1], p)
    BY <1>3, <1>5 DEF LastWord
  <2>2. ASSUME NEW j \in 1..Len(es), j > i + 1 PROVE ~Tells(es[j], p)
    <3>1. j - 1 \in 1..Len(ts) /\ ts[j - 1] = es[j] /\ j - 1 > i
      BY <1>1, <1>3, <1>4, <2>2
    <3> QED BY <1>5, <3>1 DEF LastWord
  <2> QED BY <2>1, <2>2 DEF LastWord
<1>6. ASSUME Silent(ts, p) PROVE LastWord(es, p, 1) \/ (Silent(es, p) /\ ~Tells(es[1], p))
  <2>1. \A j \in 1..Len(es) : j > 1 => ~Tells(es[j], p)
    BY <1>4, <1>6 DEF Silent
  <2>2. 1 \in 1..Len(es) /\ \A j \in 1..Len(es) : j = 1 \/ j > 1
    BY <1>1
  <2> QED BY <2>1, <2>2 DEF LastWord, Silent
<1> QED BY <1>2, <1>5, <1>6 DEF ts

\* The order of events with one more.
LEMMA AppendTells ==
    ASSUME NEW es \in Seq(Event), NEW e \in Event, NEW p, NEW fs, fs = Append(es, e)
    PROVE  /\ \A i \in 1..Len(fs) : fs[i] = e \/ (i \in 1..Len(es) /\ fs[i] = es[i])
           /\ Silent(fs, p) => Silent(es, p) /\ ~Tells(e, p)
<1>1. /\ Len(es) \in Nat /\ Len(fs) = Len(es) + 1 /\ fs[Len(es) + 1] = e
      /\ \A i \in 1..Len(es) : fs[i] = es[i]
  OBVIOUS
<1>2. /\ Len(es) + 1 \in 1..Len(fs)
      /\ \A i \in 1..Len(es) : i \in 1..Len(fs)
      /\ \A i \in 1..Len(fs) : i = Len(es) + 1 \/ i \in 1..Len(es)
  BY <1>1
<1>3. Silent(fs, p) => Silent(es, p) /\ ~Tells(e, p)
  BY <1>1, <1>2 DEF Silent
<1> QED BY <1>1, <1>2, <1>3

\* The last event of a path that had one more.
LEMMA AppendLast ==
    ASSUME NEW es \in Seq(Event), NEW e \in Event, NEW p,
           NEW i \in 1..Len(Append(es, e)), LastWord(Append(es, e), p, i)
    PROVE  \/ Tells(e, p) /\ Append(es, e)[i] = e
           \/ ~Tells(e, p) /\ i \in 1..Len(es) /\ LastWord(es, p, i) /\ Append(es, e)[i] = es[i]
<1> DEFINE fs == Append(es, e)
<1>1. /\ Len(es) \in Nat /\ Len(fs) = Len(es) + 1 /\ fs[Len(es) + 1] = e
      /\ \A j \in 1..Len(es) : fs[j] = es[j]
  OBVIOUS
<1> HIDE DEF fs
<1>2. /\ Len(es) + 1 \in 1..Len(fs)
      /\ \A j \in 1..Len(es) : j \in 1..Len(fs) /\ Len(es) + 1 > j
      /\ \A j \in 1..Len(fs) : j = Len(es) + 1 \/ j \in 1..Len(es)
  BY <1>1
<1>3. i \in 1..Len(fs) /\ LastWord(fs, p, i)
  BY DEF fs
<1>4. CASE Tells(e, p)
  <2>1. ~(Len(es) + 1 > i)
    BY <1>1, <1>2, <1>3, <1>4 DEF LastWord
  <2>2. fs[i] = e
    BY <1>1, <1>2, <1>3, <2>1
  <2> QED BY <1>4, <2>2 DEF fs
<1>5. CASE ~Tells(e, p)
  <2>1. i \in 1..Len(es) /\ fs[i] = es[i]
    BY <1>1, <1>2, <1>3, <1>5 DEF LastWord
  <2>2. \A j \in 1..Len(es) : j > i => ~Tells(es[j], p)
    BY <1>1, <1>2, <1>3 DEF LastWord
  <2>3. LastWord(es, p, i)
    BY <1>3, <2>1, <2>2 DEF LastWord
  <2> QED BY <1>5, <2>1, <2>3 DEF fs
<1> QED BY <1>4, <1>5

\* While nothing happens to the watcher, and what is the client's own word stays.
LEMMA WordStays ==
    ASSUME Inv, NEW c \in Client, WordSound(c), OwnKept(c), WatchKept(c)
    PROVE  WordSound(c)'
<1>1. \A p \in Path : Own(c, p)' => Own(c, p) /\ manifest'[c][p] = manifest[c][p]
  BY DEF OwnKept, Own
<1>2. Running(c)' <=> Running(c)
  BY DEF OwnKept, Running
<1>3. \A p \in Path, i \in 1..Len(events'[c]) : LastWord(events'[c], p, i) =>
         (events'[c][i].kind = "created" <=> p \in known'[c])
  BY DEF WordSound, WatchKept
<1>4. \A p \in Path : Own(c, p)' /\ Silent(events'[c], p) => (manifest'[c][p].alive <=> p \in known'[c])
  BY <1>1 DEF WordSound, WatchKept
<1>6. /\ Running(c)' => watch'[c] # "off"
      /\ watch'[c] # "on" => notices'[c] = {} /\ events'[c] = <<>> /\ \A p \in Path : ~Own(c, p)'
      /\ \A p \in Path : Own(c, p)' => ShouldSync(p)
  BY <1>1, <1>2 DEF WordSound, WatchKept
<1> QED BY <1>3, <1>4, <1>6 DEF WordSound

\* What another client, or none, does leaves managers and watchers as they are.
LEMMA OthersLeaveWords ==
    ASSUME Inv, NEW c \in Client, WordSound(c),
           manifest'[c] = manifest[c], docId'[c] = docId[c], WatchKept(c)
    PROVE  WordSound(c)'
  BY WordStays DEF OwnKept

\* handle_created, handle_deleted and handle_renamed touch one manifest.
LEMMA HandledElsewhere ==
    ASSUME Inv, NEW c \in Client, NEW d \in Client, d # c, NEW p \in Path, NEW q \in Path,
           HandleCreated(d, p) \/ HandleDeleted(d, p) \/ HandleRenamed(d, p, q) \/ UNCHANGED managerVars
    PROVE  manifest'[c] = manifest[c] /\ docId'[c] = docId[c]
  BY DEF HandleCreated, HandleDeleted, HandleRenamed, managerVars, Inv, Shape

\* A native client's user changes files: the watcher, if it is on, will look.
LEMMA UserKeepsWords ==
    ASSUME Inv, NEW c \in Native, WordSound(c), NEW d \in Client, NEW p \in Path, NEW q \in Path,
           \/ UserCreate(d, p) \/ UserModify(d, p) \/ UserDelete(d, p)
           \/ UserRename(d, p, q) \/ UserRenameFolder(d, p, q)
    PROVE  WordSound(c)'
<1>1. c \in Client /\ UNCHANGED <<watch, known, events>>
  BY SharedAssumption DEF UserCreate, UserModify, UserDelete, UserRename, UserRenameFolder
<1>2. PICK ps \in SUBSET Path : Notify(d, ps) \/ NotifyOfFolder(d, ps)
  BY DEF UserCreate, UserModify, UserDelete, UserRename, UserRenameFolder
<1>3. CASE d # c
  <2>1. manifest'[c] = manifest[c] /\ docId'[c] = docId[c]
    BY <1>1, <1>3, HandledElsewhere
    DEF UserCreate, CreateEvent, UserModify, UserDelete, UserRename, UserRenameFolder
  <2>2. notices'[c] = notices[c]
    BY <1>1, <1>2, <1>3 DEF Notify, NotifyOfFolder, Inv, VaultShape
  <2> QED BY <1>1, <2>1, <2>2, OthersLeaveWords DEF WatchKept
<1>4. CASE d = c
  <2>1. UNCHANGED managerVars
    BY <1>4 DEF UserCreate, CreateEvent, UserModify, UserDelete, UserRename, UserRenameFolder, Plugin
  <2>2. /\ Running(c)' <=> Running(c)
        /\ \A r \in Path : Own(c, r)' <=> Own(c, r)
        /\ manifest' = manifest /\ docId' = docId
    BY <2>1 DEF managerVars, Running, Own
  <2>3. CASE watch[c] = "on"
    BY <1>1, <2>2, <2>3 DEF WordSound
  <2>4. CASE watch[c] # "on"
    <3>1. notices' = notices
      BY <1>2, <1>4, <2>4 DEF Notify, NotifyOfFolder
    <3> QED BY <1>1, <2>2, <3>1, OthersLeaveWords DEF WatchKept
  <2> QED BY <2>3, <2>4
<1> QED BY <1>3, <1>4

\* An update that is applied never brings a client its own words: those that are
\* on their way are behind what it has.
LEMMA DeliverKeepsWords ==
    ASSUME Inv, NEW c \in Native, WordSound(c), NEW d \in Client, NEW u \in updates, Deliver(d, u)
    PROVE  WordSound(c)'
<1>1. c \in Client /\ WatchKept(c) /\ ApplyRemoteManifest(d, u.state) /\ Running(d)
  BY SharedAssumption DEF Deliver, WatchKept, watcherVars
<1>2. docId' = docId
  BY <1>1 DEF ApplyRemoteManifest, managerVars
<1>3. CASE d # c
  <2>1. manifest'[c] = manifest[c]
    BY <1>1, <1>3 DEF ApplyRemoteManifest, managerVars, Inv, Shape
  <2> QED BY <1>1, <1>2, <2>1, OthersLeaveWords
<1>4. CASE d = c
  <2>1. manifest[c] \in Manifest /\ u.state \in Manifest
    BY <1>1 DEF Inv, Shape
  <2>2. manifest'[c] = manifest[c] \/ manifest'[c] = ApplyUpdate(manifest[c], u.state)
    BY <1>1, <1>4 DEF ApplyRemoteManifest, managerVars, Inv, Shape
  <2>3. ASSUME NEW p \in Path, manifest'[c][p] # manifest[c][p]
        PROVE  ~Ends(manifest'[c][p].chain, docId[c])
    <3>1. manifest'[c][p] = u.state[p] /\ Precedes(manifest[c][p].chain, u.state[p].chain)
      BY <2>1, <2>2, <2>3, MergedEntries
    <3>2. Behind(u.state, manifest[c], docId[c])
      BY <1>1, <1>4 DEF Inv, WritesSound
    <3> QED BY <3>1, <3>2 DEF Behind
  <2> QED BY <1>1, <1>2, <2>3, WordStays DEF OwnKept
<1> QED BY <1>3, <1>4

\* LookAt: what is reported last is what is known from then on.
LEMMA LookAtKeepsWords ==
    ASSUME Inv, NEW c \in Native, WordSound(c), NEW d \in Client, NEW q \in Path, LookAt(d, q)
    PROVE  WordSound(c)'
<1>1. c \in Client /\ UNCHANGED <<managerVars, files, watch>>
  BY SharedAssumption DEF LookAt, ProcessSingleEvent
<1>2. /\ Running(c)' <=> Running(c)
      /\ \A r \in Path : Own(c, r)' <=> Own(c, r)
      /\ manifest' = manifest /\ docId' = docId
  BY <1>1 DEF managerVars, Running, Own
<1>3. CASE d # c
  <2>1. WatchKept(c)
    BY <1>1, <1>3 DEF LookAt, ProcessSingleEvent, SendEvent, WatchKept, Inv, VaultShape
  <2> QED BY <1>1, <1>2, <2>1, OthersLeaveWords
<1>4. CASE d = c
  <2> DEFINE e == [kind |-> Kind(c, q), path |-> q]
             fs == Append(events[c], e)
  <2>1. /\ watch[c] = "on" /\ q \in notices[c] /\ events[c] \in Seq(Event)
        /\ known[c] \subseteq Path
    BY <1>1, <1>4 DEF LookAt, ProcessSingleEvent, Inv, VaultShape
  <2>2. e \in Event /\ e.path = q /\ e.kind = Kind(c, q)
    BY DEF Kind, Event
  <2>3. notices'[c] = notices[c] \ {q} /\ known'[c] = Known(c, q) /\ events'[c] = fs
    BY <1>1, <1>4 DEF LookAt, ProcessSingleEvent, SendEvent, Inv, VaultShape
  <2>4. \A p \in Path : p # q => (p \in known'[c] <=> p \in known[c])
    BY <2>3 DEF Known
  <2>5. e.kind = "created" => q \in known'[c]
    BY <2>2, <2>3 DEF Kind, Known
  <2>6. e.kind = "deleted" => q \notin known'[c]
    BY <2>2, <2>3 DEF Kind, Known
  <2>7. e.kind = "modified" => q \in known'[c] /\ q \in known[c]
    BY <2>2, <2>3 DEF Kind, Known
  <2>8. e.kind \in {"created", "deleted", "modified"}
    BY <2>2 DEF Kind
  <2> HIDE DEF e, fs
  <2>9. fs = Append(events[c], e)
    BY DEF fs
  <2>11. \A p \in Path, i \in 1..Len(events'[c]) : LastWord(events'[c], p, i) =>
            (events'[c][i].kind = "created" <=> p \in known'[c])
    <3> SUFFICES ASSUME NEW p \in Path, NEW i \in 1..Len(fs), LastWord(fs, p, i)
                 PROVE  fs[i].kind = "created" <=> p \in known'[c]
      BY <2>3
    <3>1. \/ Tells(e, p) /\ fs[i] = e
          \/ ~Tells(e, p) /\ i \in 1..Len(events[c]) /\ LastWord(events[c], p, i) /\ fs[i] = events[c][i]
      <4>1. i \in 1..Len(Append(events[c], e)) /\ LastWord(Append(events[c], e), p, i)
        BY <2>9
      <4> QED BY <2>1, <2>2, <2>9, <4>1, AppendLast
    <3>2. CASE Tells(e, p)
      <4>1. fs[i] = e /\ p = q /\ e.kind # "modified"
        BY <2>2, <3>2, <3>1 DEF Tells
      <4> QED BY <2>5, <2>6, <2>8, <4>1
    <3>3. CASE ~Tells(e, p)
      <4>1. fs[i].kind = "created" <=> p \in known[c]
        BY <3>3, <3>1 DEF WordSound
      <4>2. p = q => e.kind = "modified"
        BY <2>2, <3>3 DEF Tells
      <4> QED BY <2>4, <2>7, <4>1, <4>2
    <3> QED BY <3>2, <3>3
  <2>12. \A p \in Path : Own(c, p)' /\ Silent(events'[c], p) => (manifest'[c][p].alive <=> p \in known'[c])
    <3> SUFFICES ASSUME NEW p \in Path, Own(c, p), Silent(fs, p)
                 PROVE  manifest[c][p].alive <=> p \in known'[c]
      BY <1>2, <2>3
    <3>1. Silent(events[c], p) /\ ~Tells(e, p)
      BY <2>1, <2>2, <2>9, AppendTells
    <3>2. manifest[c][p].alive <=> p \in known[c]
      BY <3>1 DEF WordSound
    <3>3. p = q => e.kind = "modified"
      BY <2>2, <3>1 DEF Tells
    <3> QED BY <2>4, <2>7, <3>2, <3>3
  <2>13. watch'[c] = "on" /\ \A p \in Path : Own(c, p)' => ShouldSync(p)
    BY <1>1, <1>2, <2>1 DEF WordSound
  <2> QED BY <2>11, <2>12, <2>13 DEF WordSound
<1> QED BY <1>3, <1>4

\* TakeEvent: the manifest comes to say what the event said, where deletions are
\* synchronized; a path out of scope it leaves alone.
LEMMA TakeEventKeepsWords ==
    ASSUME Inv, SyncDeletions, NEW c \in Native, WordSound(c), NEW d \in Client, TakeEvent(d)
    PROVE  WordSound(c)'
<1>1. c \in Client /\ UNCHANGED <<files, watch, known, notices>>
  BY SharedAssumption DEF TakeEvent
<1>2. events' = [events EXCEPT ![d] = Tail(@)] /\ events[d] # <<>> /\ events[d] \in Seq(Event)
  BY DEF TakeEvent, Inv, VaultShape
<1> DEFINE e == Head(events[d])
<1>3. e = events[d][1] /\ e \in Event /\ 1 \in 1..Len(events[d])
  BY <1>2
<1>4. \/ e.kind = "created" /\ HandleCreated(d, e.path)
      \/ e.kind = "deleted" /\ HandleDeleted(d, e.path)
      \/ e.kind = "modified" /\ UNCHANGED managerVars
  BY DEF TakeEvent
<1> HIDE DEF e
<1>5. docId' = docId /\ e.path \in Path
  BY <1>3, <1>4 DEF HandleCreated, HandleDeleted, managerVars, Event
<1>6. CASE d # c
  <2>1. manifest'[c] = manifest[c]
    BY <1>1, <1>4, <1>5, <1>6, HandledElsewhere
  <2>2. WatchKept(c)
    BY <1>1, <1>2, <1>6 DEF WatchKept, Inv, VaultShape
  <2> QED BY <1>1, <1>5, <2>1, <2>2, OthersLeaveWords
<1>7. CASE d = c
  <2> DEFINE es == events[c]
             ts == Tail(events[c])
  <2>1. es \in Seq(Event) /\ es # <<>> /\ events'[c] = ts /\ e = es[1] /\ 1 \in 1..Len(es)
    BY <1>1, <1>2, <1>3, <1>7 DEF Inv, VaultShape
  <2>2. watch[c] = "on"
    BY <2>1 DEF WordSound
  <2>3. \A i \in 1..Len(ts) : i + 1 \in 1..Len(es) /\ ts[i] = es[i + 1]
    BY <2>1, TailTells
  <2>4. manifest[c] \in Manifest /\ docId[c] \in Nat
    BY <1>1 DEF Inv, Shape
  <2>5. \A p \in Path : p # e.path => manifest'[c][p] = manifest[c][p]
    <3>1. CASE manifest' = manifest
      BY <3>1
    <3>2. CASE manifest' = [manifest EXCEPT ![c] = AddFile(@, docId[c], e.path)]
      <4>1. manifest'[c] = AddFile(manifest[c], docId[c], e.path)
        BY <1>1, <3>2 DEF Inv, Shape
      <4> QED BY <1>5, <2>4, <4>1, AddedEntry DEF Writes
    <3>3. CASE manifest' = [manifest EXCEPT ![c] = DeleteFile(@, docId[c], e.path)]
      <4>1. manifest'[c] = DeleteFile(manifest[c], docId[c], e.path)
        BY <1>1, <3>3 DEF Inv, Shape
      <4> QED BY <1>5, <2>4, <4>1, DeletedEntry DEF Writes
    <3> QED BY <1>4, <1>7, <3>1, <3>2, <3>3 DEF HandleCreated, HandleDeleted, managerVars
  <2>6. \/ /\ manifest'[c][e.path] = manifest[c][e.path]
           /\ e.kind = "modified" \/ ~ShouldSync(e.path)
        \/ /\ ShouldSync(e.path) /\ e.kind # "modified"
           /\ manifest'[c][e.path].alive <=> e.kind = "created"
    <3>1. CASE e.kind = "modified" /\ UNCHANGED managerVars
      BY <3>1 DEF managerVars
    <3>2. CASE e.kind = "created" /\ HandleCreated(c, e.path)
      <4>1. CASE ~ShouldSync(e.path)
        BY <3>2, <4>1 DEF HandleCreated, CreatedIgnored, managerVars
      <4>2. CASE ShouldSync(e.path)
        <5>1. manifest'[c] = AddFile(manifest[c], docId[c], e.path)
          BY <1>1, <3>2, <4>2 DEF HandleCreated, CreatedIgnored, Inv, Shape
        <5> QED BY <1>5, <2>4, <3>2, <4>2, <5>1, AddedEntry
      <4> QED BY <4>1, <4>2
    <3>3. CASE e.kind = "deleted" /\ HandleDeleted(c, e.path)
      <4>1. CASE ~ShouldSync(e.path)
        BY <3>3, <4>1 DEF HandleDeleted, DeletedIgnored, managerVars
      <4>2. CASE ShouldSync(e.path)
        <5>1. manifest'[c] = DeleteFile(manifest[c], docId[c], e.path)
          BY <1>1, <3>3, <4>2 DEF HandleDeleted, DeletedIgnored, Inv, Shape
        <5> QED BY <1>5, <2>4, <3>3, <4>2, <5>1, DeletedEntry
      <4> QED BY <4>1, <4>2
    <3> QED BY <1>4, <1>7, <3>1, <3>2, <3>3
  <2> HIDE DEF es, ts
  <2>7. \A p \in Path : Own(c, p)' => ShouldSync(p) /\ (Own(c, p) \/ p = e.path)
    BY <1>5, <2>5, <2>6 DEF WordSound, Own
  <2>8. notices' = notices /\ known' = known
    BY <1>1
  <2>10. \A p \in Path, i \in 1..Len(events'[c]) : LastWord(events'[c], p, i) =>
            (events'[c][i].kind = "created" <=> p \in known'[c])
    <3> SUFFICES ASSUME NEW p \in Path, NEW i \in 1..Len(ts), LastWord(ts, p, i)
                 PROVE  ts[i].kind = "created" <=> p \in known[c]
      BY <2>1, <2>8
    <3>1. i + 1 \in 1..Len(es) /\ ts[i] = es[i + 1] /\ LastWord(es, p, i + 1)
      BY <2>1, <2>3, TailTells DEF ts, es
    <3> QED BY <3>1 DEF WordSound, es
  <2>11. \A p \in Path : Own(c, p)' /\ Silent(events'[c], p) => (manifest'[c][p].alive <=> p \in known'[c])
    <3> SUFFICES ASSUME NEW p \in Path, Own(c, p)', Silent(ts, p)
                 PROVE  manifest'[c][p].alive <=> p \in known[c]
      BY <2>1, <2>8
    <3>1. CASE LastWord(es, p, 1)
      <4>1. p = e.path /\ e.kind # "modified"
        BY <2>1, <3>1 DEF LastWord, Tells
      <4>2. e.kind = "created" <=> p \in known[c]
        BY <2>1, <3>1 DEF WordSound, es
      <4> QED BY <2>6, <2>7, <4>1, <4>2
    <3>2. CASE Silent(es, p) /\ ~Tells(e, p)
      <4>1. p = e.path => e.kind = "modified"
        BY <3>2 DEF Tells
      <4>2. manifest'[c][p] = manifest[c][p]
        BY <2>5, <2>6, <4>1
      <4>3. Own(c, p)
        BY <1>5, <4>2 DEF Own
      <4> QED BY <3>2, <4>2, <4>3 DEF WordSound, es
    <3>3. LastWord(es, p, 1) \/ (Silent(es, p) /\ ~Tells(e, p))
      BY <2>1, TailTells DEF ts, es
    <3> QED BY <3>1, <3>2, <3>3
  <2>12. watch'[c] = "on"
    BY <1>1, <2>2
  <2> QED BY <2>7, <2>10, <2>11, <2>12 DEF WordSound
<1> QED BY <1>6, <1>7

\* StartWatching, StartSession and StopSession: a session begins with nothing said.
LEMMA SessionKeepsWords ==
    ASSUME Inv, NEW c \in Native, WordSound(c), NEW d \in Client,
           StartWatching(d) \/ StartSession(d) \/ StopSession(d)
    PROVE  WordSound(c)'
<1>1. c \in Client
  BY SharedAssumption
<1>2. CASE d # c
  <2>1. manifest'[c] = manifest[c] /\ docId'[c] = docId[c]
    BY <1>1, <1>2 DEF StartWatching, StartSession, StopSession, ManagerNew, ManagerFree,
                      managerVars, Inv, Shape
  <2>2. WatchKept(c)
    BY <1>1, <1>2 DEF StartWatching, StartSession, StopSession, Watch, Scan, WatcherStop,
                      watcherVars, WatchKept, Inv, VaultShape
  <2> QED BY <1>1, <2>1, <2>2, OthersLeaveWords
<1>3. CASE d = c /\ StartWatching(d)
  <2>1. /\ watch[c] = "scanned" /\ watch'[c] = "on"
        /\ UNCHANGED <<managerVars, known, notices, events>>
    BY <1>1, <1>3 DEF StartWatching, Watch, Inv, VaultShape
  <2>2. /\ \A r \in Path : Own(c, r)' <=> Own(c, r)
        /\ manifest' = manifest
    BY <2>1 DEF managerVars, Own
  <2> QED BY <2>1, <2>2 DEF WordSound
<1>4. CASE d = c /\ StartSession(d)
  <2>1. /\ ~Running(c) /\ c \in Native /\ Scan(c) /\ manifest'[c] = EmptyManifest
    BY <1>1, <1>4 DEF StartSession, ManagerNew, Plugin, Inv, Shape
  <2>2. watch[c] = "off" /\ watch'[c] = "scanned" /\ UNCHANGED <<notices, events>>
    BY <1>1, <2>1 DEF Scan, Inv, VaultShape
  <2>3. \A p \in Path : ~Own(c, p)'
    BY <2>1 DEF Own, Ends, EmptyManifest
  <2>4. notices'[c] = {} /\ events'[c] = <<>> /\ Len(<<>>) = 0
    BY <1>1, <2>2 DEF WordSound
  <2> QED BY <2>2, <2>3, <2>4 DEF WordSound
<1>5. CASE d = c /\ StopSession(d)
  <2>1. /\ manifest'[c] = EmptyManifest /\ docId'[c] = 0 /\ watch'[c] = "off"
        /\ notices'[c] = {} /\ events'[c] = <<>>
    BY <1>1, <1>5 DEF StopSession, ManagerFree, WatcherStop, Inv, Shape, VaultShape
  <2>2. \A p \in Path : ~Own(c, p)'
    BY <2>1 DEF Own, Ends, EmptyManifest
  <2>3. ~Running(c)' /\ Len(<<>>) = 0
    BY <2>1 DEF Running
  <2> QED BY <2>1, <2>2, <2>3 DEF WordSound
<1> QED BY <1>2, <1>3, <1>4, <1>5

\* What is lost, and nothing at all.
LEMMA OtherStepsKeepWords ==
    ASSUME Inv, NEW c \in Native, WordSound(c), UNCHANGED <<managerVars, watcherVars>>
    PROVE  WordSound(c)'
<1>1. c \in Client /\ manifest' = manifest /\ docId' = docId /\ WatchKept(c)
  BY SharedAssumption DEF managerVars, watcherVars, WatchKept
<1> QED BY <1>1, OthersLeaveWords

\* A call of a plugin's makes a file, which the plugin may announce.
LEMMA CallKeepsWords ==
    ASSUME Inv, NEW c \in Native, WordSound(c), NEW k \in calls,
           CreateFolder(k) \/ CreateFile(k) \/ MaterializeFail(k)
    PROVE  WordSound(c)'
<1>1. c \in Client /\ k.of \in Client /\ k.of # c /\ k.path \in Path
  BY SharedAssumption DEF Inv, CallsSound, Call
<1>2. WatchKept(c)
  BY DEF CreateFolder, CreateFile, MaterializeFail, watcherVars, WatchKept
<1>3. HandleCreated(k.of, k.path) \/ UNCHANGED managerVars
  BY DEF CreateFolder, CreateFile, CreateEvent, MaterializeFail
<1>4. manifest'[c] = manifest[c] /\ docId'[c] = docId[c]
  BY <1>1, <1>3, HandledElsewhere
<1> QED BY <1>1, <1>2, <1>4, OthersLeaveWords

\* Every step.
LEMMA NextKeepsWords ==
    ASSUME Inv, SyncDeletions, NEW c \in Native, WordSound(c), [Next]_vars
    PROVE  WordSound(c)'
<1>1. CASE \E u \in updates : Deliver(u.to, u)
  BY <1>1, DeliverKeepsWords DEF Inv, Shape
<1>2. CASE \E d \in Client : StartWatching(d) \/ TakeEvent(d)
  BY <1>2, SessionKeepsWords, TakeEventKeepsWords
<1>3. CASE \E d \in Client, p \in Path : LookAt(d, p)
  BY <1>3, LookAtKeepsWords
<1>4. CASE \E k \in calls : CreateFolder(k) \/ CreateFile(k) \/ MaterializeFail(k)
  BY <1>4, CallKeepsWords
<1>5. CASE UserAct
  BY <1>5, UserKeepsWords DEF UserAct
<1>6. CASE \E u \in updates : Lose(u)
  BY <1>6, OtherStepsKeepWords DEF Lose
<1>7. CASE \E d \in Client : StopSession(d) \/ StartSession(d)
  BY <1>7, SessionKeepsWords
<1>8. CASE UNCHANGED vars
  BY <1>8, OtherStepsKeepWords DEF vars
<1> QED BY <1>1, <1>2, <1>3, <1>4, <1>5, <1>6, <1>7, <1>8 DEF Next, Progress, Fault

\* Nobody has said anything at first.
LEMMA InitWords ==
    ASSUME Init, NEW c \in Native
    PROVE  WordSound(c)
<1>1. /\ ~Running(c) /\ watch[c] = "off" /\ notices[c] = {}
      /\ events[c] = <<>> /\ Len(<<>>) = 0 /\ manifest[c] = EmptyManifest
  BY SharedAssumption DEF Init, Running
<1>2. \A p \in Path : ~Own(c, p)
  BY <1>1 DEF Own, Ends, EmptyManifest
<1> QED BY <1>1, <1>2 DEF WordSound

-----------------------------------------------------------------------------
(* Theorems.                                                               *)

\* vault_sync.rs: every variable has its type, sessions have ids of their own,
\* and a session that is stopped has left nothing.
THEOREM VaultTypeCorrect == Spec => []TypeOK
<1>1. Inv => TypeOK
  BY DEF Inv, Shape, VaultShape, CallsSound, Call, SessionsSound, TypeOK, Manifest
<1> QED BY <1>1, Invariant, PTL

\* vault_sync.rs:371-397: the documents that are open are those of the files that
\* the manifest says are alive, after any events and updates in any order.
THEOREM RegistryAlwaysFollows == Spec => []RegistryFollowsManifest
<1>1. Inv => RegistryFollowsManifest
  BY DEF Inv, ManifestsSound, Mirrors, RegistryFollowsManifest
<1> QED BY <1>1, Invariant, PTL

\* main.ts:65-67: no client ever announces a file it made for another, but for paths
\* at which its calls have overlapped.
THEOREM NothingIsEchoed == Spec => []NoEcho
<1>1. Inv => NoEcho
  BY DEF Inv, ManifestsSound, Credited, Credit, NoEcho, Announces
<1> QED BY <1>1, Invariant, PTL

\* watcher.rs:78-88, 112-114: what a watcher takes for known is on the disk, but for
\* what it has still to look at or was not told of, whatever its scan found.
THEOREM WatchersFollowTheDisk == Spec => []WatcherFollowsDisk
<1>1. Inv => WatcherFollowsDisk
  <2> SUFFICES ASSUME Inv, NEW c \in Native, watch[c] = "on"
               PROVE  \A p \in Path \ (notices[c] \cup unseen[c]) : p \in known[c] <=> p \in files[c]
    BY DEF WatcherFollowsDisk
  <2>1. WatcherSound(c)
    BY SharedAssumption DEF Inv, WatchersSound
  <2> QED BY <2>1 DEF WatcherSound
<1> QED BY <1>1, Invariant, PTL

\* vault_sync.rs:141-152 with watcher.rs: where deletions are synchronized, what a
\* native client was the last to say of a path that it was told of is so on its disk
\* whenever its watcher has caught up.
THEOREM OwnWordStaysTrue ==
    ASSUME SyncDeletions
    PROVE  Spec => []OwnWordIsTrue
<1> DEFINE WordsSound == \A c \in Native : WordSound(c)
<1>1. Init => WordsSound
  BY InitWords
<1>2. Inv /\ WordsSound /\ [Next]_vars => WordsSound'
  BY NextKeepsWords
<1>3. Inv /\ WordsSound => OwnWordIsTrue
  <2> SUFFICES ASSUME Inv, WordsSound, NEW c \in Native, Running(c), notices[c] = {}, events[c] = <<>>,
                      NEW p \in Path \ unseen[c], manifest[c][p].chain # <<>>,
                      manifest[c][p].chain[Len(manifest[c][p].chain)] = docId[c]
               PROVE  manifest[c][p].alive <=> p \in files[c]
    BY DEF OwnWordIsTrue
  <2>1. c \in Client /\ WordSound(c) /\ Own(c, p)
    BY SharedAssumption DEF Own, Ends
  <2>2. Silent(events[c], p)
    <3>1. Len(events[c]) = 0
      OBVIOUS
    <3> QED BY <3>1 DEF Silent
  <2>3. manifest[c][p].alive <=> p \in known[c]
    BY <2>1, <2>2 DEF WordSound
  <2>4. watch[c] # "off"
    BY <2>1 DEF WordSound
  <2>5. p \in known[c] <=> p \in files[c]
    BY <2>1, <2>4 DEF Inv, WatchersSound, WatcherSound
  <2> QED BY <2>3, <2>5
<1> HIDE DEF WordsSound
<1> QED BY <1>1, <1>2, <1>3, Invariant, PTL DEF Spec
=============================================================================
