---------------------------- MODULE VaultWatcher ----------------------------
(***************************************************************************)
(* The file watcher (crates/collab-watcher/src/watcher.rs) of a native     *)
(* client: it scans the vault, starts to watch it, and turns each path the *)
(* debouncer reports into an event, by whether the file is there and was   *)
(* known at the moment the path is looked at, not when it changed.         *)
(***************************************************************************)
EXTENDS VaultSync

CONSTANT Capacity  \* the bound of the event channel, 100 in the code

VARIABLES
    files,    \* the files in each client's vault
    watch,    \* each watcher: off, scanned, or on
    known,    \* its known_files
    notices,  \* paths the debouncer holds, each once
    events,   \* its event channel: the kind and path of each VaultEvent
    unseen    \* auxiliary: paths of which the watcher was not told how they are

watcherVars == <<watch, known, notices, events, unseen>>

\* What a change of the paths ps tells a watcher that is on; the debouncer
\* coalesces what happens to one path.
Notify(c, ps) ==
    /\ notices' = IF watch[c] = "on" THEN [notices EXCEPT ![c] = @ \cup ps] ELSE notices
    /\ unseen' = IF watch[c] = "scanned" THEN [unseen EXCEPT ![c] = @ \cup ps] ELSE unseen

\* A folder's new name comes as an event of the folder, which has no watched
\* extension; nothing is said of the files in it.
NotifyOfFolder(c, ps) ==
    /\ unseen' = IF watch[c] = "off" THEN unseen ELSE [unseen EXCEPT ![c] = @ \cup ps]
    /\ UNCHANGED notices

\* scan_existing_files: one entry that cannot be read, and nothing is known.
ScanExistingFiles(c) == {files[c], {}}

\* VaultWatcher::new, which goes on to start watching when it has scanned.
Scan(c) ==
    /\ watch[c] = "off"
    /\ watch' = [watch EXCEPT ![c] = "scanned"]
    /\ \E found \in ScanExistingFiles(c) :
          /\ known' = [known EXCEPT ![c] = found]
          /\ unseen' = [unseen EXCEPT ![c] = files[c] \ found]
    /\ UNCHANGED <<notices, events>>

Watch(c) ==
    /\ watch[c] = "scanned"
    /\ watch' = [watch EXCEPT ![c] = "on"]
    /\ UNCHANGED <<known, notices, events, unseen>>

\* stop, and the receiver goes with it.
WatcherStop(c) ==
    /\ watch' = [watch EXCEPT ![c] = "off"]
    /\ known' = [known EXCEPT ![c] = {}]
    /\ notices' = [notices EXCEPT ![c] = {}]
    /\ events' = [events EXCEPT ![c] = <<>>]
    /\ unseen' = [unseen EXCEPT ![c] = {}]

Kind(c, p) ==
    IF p \notin files[c] THEN "deleted" ELSE IF p \in known[c] THEN "modified" ELSE "created"

\* Mutated form of Known: a deleted file stays known.
Known_Kept(c, p) == known[c] \cup {p}

\* known_files once p has been looked at.
Known(c, p) == IF p \in files[c] THEN known[c] \cup {p} ELSE known[c] \ {p}

\* Mutated form of SendEvent: what does not fit is dropped.
SendEvent_Dropped(c, e) ==
    events' = IF Len(events[c]) < Capacity THEN [events EXCEPT ![c] = Append(@, e)] ELSE events

\* event_tx.send(..).await: one event more than the channel holds waits for room,
\* and the loop with it.
SendEvent(c, e) ==
    /\ Len(events[c]) <= Capacity
    /\ events' = [events EXCEPT ![c] = Append(@, e)]

\* process_single_event, of paths with a watched extension
ProcessSingleEvent(c, p) ==
    /\ p \in notices[c]
    /\ notices' = [notices EXCEPT ![c] = @ \ {p}]
    /\ known' = [known EXCEPT ![c] = Known(c, p)]
    /\ unseen' = [unseen EXCEPT ![c] = @ \ {p}]
    /\ SendEvent(c, [kind |-> Kind(c, p), path |-> p])
    /\ UNCHANGED watch
=============================================================================
