----------------------------- MODULE VaultSync -----------------------------
(***************************************************************************)
(* VaultSyncManager (crates/collab-core/src/vault_sync.rs) and its binding *)
(* (crates/collab-wasm/src/vault_sync.rs): it keeps a manifest and a       *)
(* registry of plain documents (registry.rs) together, under local file    *)
(* events and remote updates.  Each handler leaves in "manifest" what its  *)
(* SyncAction tells the caller to broadcast, unless it ignored the event.  *)
(***************************************************************************)
EXTENDS VaultManifest

CONSTANTS
    Client,           \* clients
    Scope,            \* the paths VaultSyncConfig includes
    SyncDeletions,    \* VaultSyncConfig::sync_deletions
    SyncRenames,      \* VaultSyncConfig::sync_renames
    MaxNewPaths,      \* MAX_NEW_PATHS_PER_APPLY
    MaxManifestBytes  \* MAX_MANIFEST_UPDATE_BYTES

ASSUME SyncAssumption ==
    /\ Scope \subseteq Path
    /\ {SyncDeletions, SyncRenames} \subseteq BOOLEAN
    /\ MaxNewPaths \in Nat /\ MaxManifestBytes \in Nat

VARIABLES
    manifest,  \* each client's manifest
    registry,  \* the document ids open in each client's registry
    docId      \* the Yrs client id of each manifest, 0 for none: a new one
               \* for every VaultSyncManager

managerVars == <<manifest, registry, docId>>

\* should_sync: extension, folders and exclusions
ShouldSync(p) == p \in Scope

\* doc_id_for_path is the path itself, so that a tombstone names a document.
DocIdForPath(p) == p

\* VaultSyncManager::new, with a document id nobody has had
ManagerNew(c, id) ==
    /\ docId' = [docId EXCEPT ![c] = id]
    /\ manifest' = [manifest EXCEPT ![c] = EmptyManifest]
    /\ registry' = [registry EXCEPT ![c] = {}]

\* Its end
ManagerFree(c) ==
    /\ docId' = [docId EXCEPT ![c] = 0]
    /\ manifest' = [manifest EXCEPT ![c] = EmptyManifest]
    /\ registry' = [registry EXCEPT ![c] = {}]

\* create, where get has found none, and close_any
Open(open, p) == open \cup {DocIdForPath(p)}
CloseAny(open, p) == open \ {DocIdForPath(p)}

-----------------------------------------------------------------------------
(* Local events.                                                           *)

CreatedIgnored(p) == ~ShouldSync(p)

\* handle_created
HandleCreated(c, p) ==
    IF CreatedIgnored(p) THEN UNCHANGED managerVars
    ELSE /\ registry' = [registry EXCEPT ![c] = Open(@, p)]
         /\ manifest' = [manifest EXCEPT ![c] = AddFile(@, docId[c], p)]
         /\ UNCHANGED docId

DeletedIgnored(p) == ~ShouldSync(p) \/ ~SyncDeletions

\* handle_deleted
HandleDeleted(c, p) ==
    IF DeletedIgnored(p) THEN UNCHANGED managerVars
    ELSE /\ registry' = [registry EXCEPT ![c] = CloseAny(@, p)]
         /\ manifest' = [manifest EXCEPT ![c] = DeleteFile(@, docId[c], p)]
         /\ UNCHANGED docId

RenamedIgnored(old, new) == ~SyncRenames \/ ~ShouldSync(old) \/ ~ShouldSync(new)

\* handle_renamed: across the border of the scope it does nothing.
HandleRenamed(c, old, new) ==
    IF RenamedIgnored(old, new) THEN UNCHANGED managerVars
    ELSE /\ registry' = [registry EXCEPT ![c] = Open(CloseAny(@, old), new)]
         /\ manifest' = [manifest EXCEPT ![c] = RenameFile(@, docId[c], old, new)]
         /\ UNCHANGED docId

-----------------------------------------------------------------------------
(* Remote updates.                                                         *)

\* The paths that a scratch copy of the manifest has once it is merged, and the
\* registry has not.
ToOpen(c, update) ==
    {p \in ListFiles(ApplyUpdate(manifest[c], update)) : ShouldSync(p)} \ registry[c]

\* The binding's cap and the manager's: an update above either is rejected whole.
TooLarge(update) == Bytes(update) > MaxManifestBytes
TooMany(c, update) == Cardinality(ToOpen(c, update)) > MaxNewPaths
Rejects(c, update) == TooLarge(update) \/ TooMany(c, update)

\* Mutated form of ToRemove: only what the update itself deletes.
ToRemove_OfUpdate(open, m, update) == {p \in open : IsDeleted(update, p)}

\* What is open and deleted in the merged manifest.
ToRemove(open, m, update) == {p \in open : IsDeleted(m, p)}

\* apply_remote_manifest; ToOpen is what it returns.
ApplyRemoteManifest(c, update) ==
    LET merged == ApplyUpdate(manifest[c], update)
        open == registry[c] \cup ToOpen(c, update)
    IN  IF Rejects(c, update) THEN UNCHANGED managerVars
        ELSE /\ manifest' = [manifest EXCEPT ![c] = merged]
             /\ registry' = [registry EXCEPT ![c] = open \ ToRemove(open, merged, update)]
             /\ UNCHANGED docId
=============================================================================
