---------------------------- MODULE SharedVault ----------------------------
(***************************************************************************)
(* Vaults shared by several clients: their users change files, the sync    *)
(* managers hear of it - in the plugin from Obsidian's vault events, in a  *)
(* native client from the watcher - and broadcast manifests, from which    *)
(* plugins make the files they do not have                                 *)
(* (plugins/obsidian-ee/src/main.ts, collab-client.ts).                    *)
(*                                                                         *)
(* A broadcast is in flight to each other client until it is applied or    *)
(* lost, in any order: the relay replays what it queued after what is      *)
(* live, and the group may not be able to decrypt it any more.  The crates *)
(* leave the code between watcher and manager to the application; it hands *)
(* a created and a deleted file on, as the plugin does.                    *)
(***************************************************************************)
EXTENDS VaultWatcher

CONSTANTS
    Native,    \* the clients with a watcher; the others are plugins
    Ids,       \* the Yrs client ids each client may draw, one for each session
    Folder, Root, Parent,  \* folders, the vault's root, and the folder of each path
    MaxCalls,  \* bound: calls of materializeRemotePaths a plugin has at once
    MaxActs,   \* bound: changes made by users
    MaxFaults  \* bound: updates lost, files that cannot be made, sessions stopped

ASSUME SharedAssumption ==
    /\ Native \subseteq Client /\ Capacity \in Nat \ {0}
    /\ Ids \in [Client -> SUBSET (Nat \ {0})]
    /\ Root \in Folder /\ Parent \in [Path -> Folder]
    /\ MaxCalls \in Nat /\ MaxActs \in Nat /\ MaxFaults \in Nat

VARIABLES
    folders,   \* the folders there are in each client's vault
    making,    \* materializing: the paths whose create event is an echo
    calls,     \* calls of materializeRemotePaths that wait: whose, for which path,
               \* for its folder or its file, and the paths still to come
    updates,   \* broadcasts in flight: receiver and full state
    gaps,      \* auxiliary: clients that missed an update or a file, or stopped
    acted,     \* auxiliary: who has made or edited which path, by document id
    overlaps,  \* auxiliary: who came to a path that another call was waiting for
    strays,    \* auxiliary: paths moved across the border of the scope
    acts, faults, ids

callVars == <<making, calls, overlaps>>
auxVars == <<gaps, acted, strays, acts, faults, ids>>
vars == <<managerVars, files, folders, watcherVars, callVars, updates, auxVars>>

Init ==
    /\ manifest = [c \in Client |-> EmptyManifest]
    /\ registry = [c \in Client |-> {}]
    /\ docId = [c \in Client |-> 0]
    /\ files = [c \in Client |-> {}]
    /\ watch = [c \in Client |-> "off"]
    /\ known = [c \in Client |-> {}]
    /\ notices = [c \in Client |-> {}]
    /\ events = [c \in Client |-> <<>>]
    /\ unseen = [c \in Client |-> {}]
    /\ folders = [c \in Client |-> {Root}]
    /\ making = [c \in Client |-> {}] /\ calls = {} /\ overlaps = {}
    /\ updates = {} /\ gaps = {} /\ acted = {} /\ strays = {}
    /\ acts = 0 /\ faults = 0 /\ ids = {}

Running(c) == docId[c] # 0
Plugin(c) == c \notin Native

\* handleVaultAction and sendManifestUpdate: the full state to everyone else.
Broadcast(c, ignored) ==
    updates' = IF ignored THEN updates
               ELSE updates \cup {[to |-> d, state |-> manifest'[c]] : d \in Client \ {c}}

Act(c, ps) ==
    /\ acts < MaxActs /\ acts' = acts + 1
    /\ acted' = IF Running(c) THEN acted \cup {<<docId[c], p>> : p \in ps} ELSE acted

-----------------------------------------------------------------------------
(* Sessions.                                                               *)

\* startSession, or VaultWatcher::new and VaultSyncManager::new
StartSession(c) ==
    /\ ~Running(c)
    /\ \E id \in Ids[c] \ ids : ManagerNew(c, id) /\ ids' = ids \cup {id}
    /\ IF Plugin(c) THEN UNCHANGED watcherVars ELSE Scan(c)
    /\ UNCHANGED <<files, folders, callVars, updates, gaps, acted, strays, acts, faults>>

StartWatching(c) ==
    /\ Running(c) /\ Watch(c)
    /\ UNCHANGED <<managerVars, files, folders, callVars, updates, auxVars>>

\* stopSession: vaultSync.free(); nothing of the manifest is kept.  Calls go on,
\* and the plugin keeps materializing.
StopSession(c) ==
    /\ Running(c)
    /\ faults < MaxFaults /\ faults' = faults + 1
    /\ ManagerFree(c)
    /\ WatcherStop(c)
    /\ gaps' = gaps \cup {c}
    /\ UNCHANGED <<files, folders, callVars, updates, acted, strays, acts, ids>>

-----------------------------------------------------------------------------
(* Users, whose changes a plugin handles at once, but for those it takes   *)
(* for its own.                                                            *)

\* The vault of c has the files fs from now on, and the folder of p.
Put(c, fs, p) ==
    /\ files' = [files EXCEPT ![c] = fs]
    /\ folders' = [folders EXCEPT ![c] = @ \cup {Parent[p]}]

\* The vault's create event in a plugin
CreateEvent(c, p) ==
    IF Plugin(c) /\ Running(c) /\ p \notin making[c]
    THEN HandleCreated(c, p) /\ Broadcast(c, CreatedIgnored(p))
    ELSE UNCHANGED <<managerVars, updates>>

UserCreate(c, p) ==
    /\ p \notin files[c]
    /\ Act(c, {p})
    /\ Put(c, files[c] \cup {p}, p)
    /\ CreateEvent(c, p)
    /\ Notify(c, {p})
    /\ UNCHANGED <<watch, known, events, callVars, gaps, strays, faults, ids>>

\* An edit: plugins handle no such event.
UserModify(c, p) ==
    /\ p \in files[c] /\ ~Plugin(c)
    /\ Act(c, {p})
    /\ Notify(c, {p})
    /\ UNCHANGED <<managerVars, files, folders, watch, known, events, callVars, updates,
                   gaps, strays, faults, ids>>

UserDelete(c, p) ==
    /\ p \in files[c]
    /\ Act(c, {})
    /\ files' = [files EXCEPT ![c] = @ \ {p}]
    /\ IF Plugin(c) /\ Running(c)
       THEN HandleDeleted(c, p) /\ Broadcast(c, DeletedIgnored(p))
       ELSE UNCHANGED <<managerVars, updates>>
    /\ Notify(c, {p})
    /\ UNCHANGED <<folders, watch, known, events, callVars, gaps, strays, faults, ids>>

Strays(old, new) ==
    strays' = IF ShouldSync(old) /\ ShouldSync(new) THEN strays ELSE strays \cup {old, new}

UserRename(c, old, new) ==
    /\ old \in files[c] /\ new \notin files[c]
    /\ Act(c, {new})
    /\ Put(c, (files[c] \ {old}) \cup {new}, new)
    /\ IF Plugin(c) /\ Running(c)
       THEN HandleRenamed(c, old, new) /\ Broadcast(c, RenamedIgnored(old, new))
       ELSE UNCHANGED <<managerVars, updates>>
    /\ Strays(old, new)
    /\ Notify(c, {old, new})
    /\ UNCHANGED <<watch, known, events, callVars, gaps, faults, ids>>

\* A folder with one file in it gets another name.  (In a plugin the file has a
\* rename event, as in UserRename.)
UserRenameFolder(c, old, new) ==
    /\ ~Plugin(c)
    /\ old \in files[c] /\ Parent[old] # Parent[new] /\ Root \notin {Parent[old], Parent[new]}
    /\ \A p \in files[c] \ {old} : Parent[p] \notin {Parent[old], Parent[new]}
    /\ Act(c, {new})
    /\ Put(c, (files[c] \ {old}) \cup {new}, new)
    /\ Strays(old, new)
    /\ NotifyOfFolder(c, {old, new})
    /\ UNCHANGED <<managerVars, watch, known, events, callVars, updates, gaps, faults, ids>>

-----------------------------------------------------------------------------
(* The watcher's events reach the manager of a native client.              *)

LookAt(c, p) ==
    /\ watch[c] = "on"
    /\ ProcessSingleEvent(c, p)
    /\ UNCHANGED <<managerVars, files, folders, callVars, updates, auxVars>>

TakeEvent(c) ==
    /\ events[c] # <<>>
    /\ LET e == Head(events[c])
       IN  \/ /\ e.kind = "created" /\ HandleCreated(c, e.path)
              /\ Broadcast(c, CreatedIgnored(e.path))
           \/ /\ e.kind = "deleted" /\ HandleDeleted(c, e.path)
              /\ Broadcast(c, DeletedIgnored(e.path))
           \/ e.kind = "modified" /\ UNCHANGED <<managerVars, updates>>
    /\ events' = [events EXCEPT ![c] = Tail(@)]
    /\ UNCHANGED <<files, folders, watch, known, notices, unseen, callVars, auxVars>>

-----------------------------------------------------------------------------
(* Updates arrive, and plugins make the files they announce, in calls that *)
(* nobody waits for: several may be on their way, for one path too.        *)

\* The loop of a call of c, with the paths ps to go and the other calls others,
\* leaves alone what is there and comes to a path that is not.
Iterate(c, slot, ps, others, guard) ==
    \E p \in ps \ files'[c], skipped \in SUBSET (ps \cap files'[c]) :
        /\ making' = [making EXCEPT ![c] = guard \cup {p}]
        /\ calls' = others \cup {[of |-> c, slot |-> slot, path |-> p,
                 awaits |-> IF Parent[p] \in folders'[c] THEN "file" ELSE "folder",
                 rest |-> ps \ ({p} \cup skipped)]}
        /\ overlaps' = IF \E k \in others : k.of = c /\ k.path = p
                       THEN overlaps \cup {<<c, p>>} ELSE overlaps

\* materializeRemotePaths is called; a call that finds everything there is over.
MaterializeRemotePaths(c, ps) ==
    \/ ps \subseteq files'[c] /\ UNCHANGED callVars
    \/ \E slot \in 1..MaxCalls :
          /\ \A s \in 1..MaxCalls :
                (\E k \in calls : k.of = c /\ k.slot = s) <=> s < slot
          /\ Iterate(c, slot, ps, calls, making[c])

\* finally: the guard is down, whoever else is at the path; the loop goes on.
Finally(k) ==
    LET guard == making[k.of] \ {k.path}
    IN  \/ /\ k.rest \subseteq files'[k.of]
           /\ making' = [making EXCEPT ![k.of] = guard]
           /\ calls' = calls \ {k}
           /\ UNCHANGED overlaps
        \/ Iterate(k.of, k.slot, k.rest, calls \ {k}, guard)

\* handleManifestUpdate: what is rejected is reported, and gone.
Deliver(c, u) ==
    /\ u.to = c /\ Running(c)
    /\ updates' = updates \ {u}
    /\ UNCHANGED <<files, folders, watcherVars, acted, strays, acts, faults, ids>>
    /\ ApplyRemoteManifest(c, u.state)
    /\ IF Rejects(c, u.state)
       THEN gaps' = gaps \cup {c} /\ UNCHANGED callVars
       ELSE /\ UNCHANGED gaps
            /\ IF Plugin(c) THEN MaterializeRemotePaths(c, ToOpen(c, u.state))
                            ELSE UNCHANGED callVars

\* An update that is lost: to the send queue, the relay or the group's epoch.
Lose(u) ==
    /\ faults < MaxFaults /\ faults' = faults + 1
    /\ updates' = updates \ {u}
    /\ gaps' = gaps \cup {u.to}
    /\ UNCHANGED <<managerVars, files, folders, watcherVars, callVars, acted, strays, acts, ids>>

\* vault.createFolder: of two that find no folder both may make it.
CreateFolder(k) ==
    /\ k.awaits = "folder"
    /\ folders' = [folders EXCEPT ![k.of] = @ \cup {Parent[k.path]}]
    /\ calls' = (calls \ {k}) \cup {[k EXCEPT !.awaits = "file"]}
    /\ UNCHANGED <<managerVars, files, watcherVars, making, overlaps, updates, auxVars>>

\* Mutated form of CreateFile: its create event is handled as the user's.
CreateFile_Echoes(k) ==
    /\ k.awaits = "file"
    /\ files' = [files EXCEPT ![k.of] = @ \cup {k.path}]
    /\ IF Running(k.of) /\ k.path \notin files[k.of]
       THEN HandleCreated(k.of, k.path) /\ Broadcast(k.of, CreatedIgnored(k.path))
       ELSE UNCHANGED <<managerVars, updates>>
    /\ UNCHANGED <<folders, watcherVars, auxVars>>
    /\ Finally(k)

\* vault.create makes an empty file, whose create event comes before it returns; if
\* someone was faster it fails, and the file is there.
CreateFile(k) ==
    /\ k.awaits = "file"
    /\ files' = [files EXCEPT ![k.of] = @ \cup {k.path}]
    /\ IF k.path \in files[k.of] THEN UNCHANGED <<managerVars, updates>>
       ELSE CreateEvent(k.of, k.path)
    /\ UNCHANGED <<folders, watcherVars, auxVars>>
    /\ Finally(k)

\* createFolder fails as another call was faster, or either fails otherwise: the
\* user is told, and the path is not made.
MaterializeFail(k) ==
    /\ IF k.awaits = "folder" /\ Parent[k.path] \in folders[k.of]
       THEN UNCHANGED faults
       ELSE faults < MaxFaults /\ faults' = faults + 1
    /\ gaps' = gaps \cup {k.of}
    /\ UNCHANGED <<managerVars, files, folders, watcherVars, updates, acted, strays, acts, ids>>
    /\ Finally(k)

Progress ==
    \/ \E u \in updates : Deliver(u.to, u)
    \/ \E k \in calls : CreateFolder(k) \/ CreateFile(k)
    \/ \E c \in Client : StartWatching(c) \/ TakeEvent(c) \/ \E p \in Path : LookAt(c, p)

UserAct == \E c \in Client, p \in Path :
    \/ UserCreate(c, p) \/ UserModify(c, p) \/ UserDelete(c, p)
    \/ \E q \in Path : UserRename(c, p, q) \/ UserRenameFolder(c, p, q)

Fault ==
    \/ \E u \in updates : Lose(u)
    \/ \E k \in calls : MaterializeFail(k)
    \/ \E c \in Client : StopSession(c)

Next == Progress \/ UserAct \/ Fault \/ \E c \in Client : StartSession(c)

\* Timers, callbacks and the network go on; users and faults need not.
Fairness == WF_vars(Progress)

Spec == Init /\ [][Next]_vars /\ Fairness

-----------------------------------------------------------------------------
(* Properties.                                                             *)

Entry == [chain : Seq(Nat), alive : BOOLEAN]

\* A session that is stopped has nothing; ids are unique.
TypeOK ==
    /\ manifest \in [Client -> [Path -> Entry]]
    /\ registry \in [Client -> SUBSET Scope]
    /\ files \in [Client -> SUBSET Path] /\ known \in [Client -> SUBSET Path]
    /\ \A c \in Client : ~Running(c) =>
          manifest[c] = EmptyManifest /\ registry[c] = {} /\ watch[c] = "off"
    /\ \A c, d \in Client : Running(c) /\ docId[c] = docId[d] => c = d
    /\ \A u \in updates : u.to \in Client /\ u.state \in [Path -> Entry]
    /\ folders \in [Client -> SUBSET Folder] /\ making \in [Client -> SUBSET Path]
    /\ calls \subseteq [of : Client \ Native, slot : 1..MaxCalls, path : Path,
                       awaits : {"folder", "file"}, rest : SUBSET Path]

\* vault_sync.rs:371-397: a document is open exactly for the files that are alive
\* in the manifest, also after concurrent creations and deletions of one path.
RegistryFollowsManifest == \A c \in Client :
    registry[c] = {p \in ListFiles(manifest[c]) : ShouldSync(p)}

\* Who announces the path p as id has made or edited it, or is a client whose
\* calls came to wait for it at once.
Announces(id, p) ==
    <<id, p>> \in acted \/ \E c \in Client : id \in Ids[c] /\ <<c, p>> \in overlaps

\* main.ts:65-67, 326-330: what a client materialized for another it does not
\* announce as its own, but for paths at which its calls overlapped: the last to say
\* a path is alive is one whose user made it.
NoEcho == \A c \in Client, p \in Path :
    LET chain == manifest[c][p].chain
    IN  manifest[c][p].alive => Announces(chain[Len(chain)], p)

\* watcher.rs:78-88, 112-114, 186-197: what a watcher takes for known is what there
\* is on the disk, but for what it has still to look at, and for what it was not told
\* of: what a failed scan did not find, what changed between scan and watch, and
\* what moved with its folder.
WatcherFollowsDisk == \A c \in Native :
    watch[c] = "on" =>
        \A p \in Path \ (notices[c] \cup unseen[c]) : p \in known[c] <=> p \in files[c]

\* vault_sync.rs:141-152 with watcher.rs: once the watcher of a native client has
\* caught up, what the client was the last to say of a path is so on its disk, but
\* for paths it was not told of.
OwnWordIsTrue == \A c \in Native :
    (Running(c) /\ notices[c] = {} /\ events[c] = <<>>) =>
        \A p \in Path \ unseen[c] :
            LET chain == manifest[c][p].chain
            IN  chain # <<>> /\ chain[Len(chain)] = docId[c] =>
                    (manifest[c][p].alive <=> p \in files[c])

Complete(c) == Running(c) /\ c \notin gaps

InSync(c, d) ==
    /\ manifest[c] = manifest[d]
    /\ Plugin(c) => \A p \in ListFiles(manifest[c]) \ strays : ShouldSync(p) => p \in files[c]

\* vault_manifest.rs:3-7: clients that missed nothing end up with one manifest, and
\* plugins with every file that it says is alive.
Settles == <>[](\A c, d \in Client : Complete(c) /\ Complete(d) => InSync(c, d))
=============================================================================
