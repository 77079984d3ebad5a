--------------------------- MODULE VaultManifest ---------------------------
(***************************************************************************)
(* The vault manifest (crates/collab-core/src/vault_manifest.rs): a Yrs    *)
(* map from path to alive or deleted.                                      *)
(*                                                                         *)
(* Yrs keeps the writes of a key in one list, each to the right of the one *)
(* that held the key when it was made, concurrent ones in the order of     *)
(* their documents' client ids, and the rightmost holds the key.  A write  *)
(* is here the chain of client ids that leads to it, and the rightmost is  *)
(* the greatest in lexicographic order, whatever the order of arrival: the *)
(* state of a key is the greatest write that is known.                     *)
(***************************************************************************)
EXTENDS Naturals, Sequences, FiniteSets

CONSTANT Path  \* vault-relative paths

\* VaultManifest::new
EmptyManifest == [p \in Path |-> [chain |-> <<>>, alive |-> FALSE]]

IsAlive(entry) == entry.alive

\* list_files; is_deleted is not its complement.
ListFiles(m) == {p \in Path : IsAlive(m[p])}
IsDeleted(m, p) == m[p].chain # <<>> /\ ~IsAlive(m[p])

\* Map::insert by the document id.
Insert(m, id, p, alive) == [m EXCEPT ![p] = [chain |-> Append(@.chain, id), alive |-> alive]]

\* add_file overwrites a tombstone; delete_file makes one of an unknown path.
AddFile(m, id, p) == Insert(m, id, p, TRUE)
DeleteFile(m, id, p) == Insert(m, id, p, FALSE)

\* rename_file, in one transaction
RenameFile(m, id, old, new) == AddFile(DeleteFile(m, id, old), id, new)

\* s is to the left of t in the list of a key.
Precedes(s, t) ==
    \E i \in 0..Len(s) :
        /\ i < Len(t) /\ SubSeq(s, 1, i) = SubSeq(t, 1, i)
        /\ i = Len(s) \/ s[i + 1] < t[i + 1]

\* Mutated form of ApplyUpdate: what arrives last wins.
ApplyUpdate_Arrival(m, update) ==
    [p \in Path |-> IF update[p].chain = <<>> THEN m[p] ELSE update[p]]

\* apply_update, with the full state of another manifest
ApplyUpdate(m, update) ==
    [p \in Path |-> IF Precedes(m[p].chain, update[p].chain) THEN update[p] ELSE m[p]]

\* encode_full_state grows with the writes it has to name; those that lost the
\* key to a concurrent one are not counted.
Bytes(m) == Cardinality(UNION {{p} \X DOMAIN m[p].chain : p \in Path})
=============================================================================
