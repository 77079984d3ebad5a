# Obsidian-ee in TLA+

Obsidian-ee is end-to-end encrypted collaborative editing for Obsidian: a relay
that forwards ciphertext, a Rust core (Yrs documents, MLS groups, connection and
vault handling), a command-line client, and a TypeScript plugin. This directory
specifies the parts of it whose correctness depends on an order of events nobody
wrote down in a test: TLC checks the modules on small instances, TLAPS proves
some of their properties for every value of the constants.

Paths below are relative to the repository; `relay.rs`, `routing.rs` and
`storage.rs` are in `crates/collab-relay/src/`, `capability.rs` in
`crates/collab-proto/src/`, the other Rust files in `crates/collab-core/src/`
unless a crate is named, and the TypeScript files in `plugins/obsidian-ee/src/`.

## 1. The system

| part | source | state | operations | hard because |
|---|---|---|---|---|
| connections | `relay.rs` | per connection: user id, bounded channel, close signal, writer task; a connection count | accept, Identify, Subscribe, Unsubscribe, RegisterDocKey, YrsUpdate, MlsHandshake, read end, close signal, teardown | a task per connection, and one per writer; handlers await in the middle |
| message router | `routing.rs` | `clients`, `subscriptions`, `anchors`, a lock each | register and take over, unregister, drain, subscribe, unsubscribe, route, disconnect_slow, drop_subscriptions, set_anchor, recipients | no operation holds two locks |
| offline queue | `storage.rs` | a queue per user, insertion order, byte counters per kind | enqueue, drain | five limits at once, incremental books, eviction of third parties |
| capabilities | `capability.rs` | none | sign and verify: subscribe capability, key proof, anchor rotation | verified against what is read before it is used |
| connection state machine | `connection.rs`, `collab-cli/src/commands.rs` | state, retry count; the command's clock | on_connected, on_stable_connection, on_error, on_retry_tick, next_action | several processes may fight for one session |
| plugin client | `collab-client.ts` | socket, attempt and its promise, timers, two group slots, send queue | connect, disconnect, destroy, socket events, timers, handshake frames | events of sockets that were already replaced |
| MLS group | `mls.rs` | MLS epoch state | create, add, remove, join, process_commit, encrypt, decrypt, anchor rotation | members advance by messages that may be late or lost |
| documents | `encryption.rs`, `document.rs` | a Yrs text and a group | edit, encrypt, apply | little: sequential |
| persistence | `persistence.rs` | a sealed snapshot | snapshot, restore | a restart may restore an old epoch |
| registry, manifest, vault sync | `registry.rs`, `vault_manifest.rs`, `vault_sync.rs` | open documents; a CRDT map of paths | created, deleted, renamed, remote manifest | concurrent changes of one path |
| watcher | `collab-watcher/src/watcher.rs` | the files it knows | an event per path | debounced, polled events |
| plugin session, editor | `main.ts`, `editor-sync.ts` | session, debounce timer | start, stop, local and remote change | an edit waits while remote text arrives |
| bindings, types, tooling | `collab-wasm`, `collab-proto/src/lib.rs`, `main.rs` files, `xtask`, `docker`, `scripts`, `tests` | none | conversions, options, builds | not core logic |

How they interact: a client opens a WebSocket to the relay, identifies (which
takes over its user's previous session and drains the user's offline queue),
subscribes to its documents and publishes. The router fans a message out to the
channels of the subscribers that are connected and queues it for those that are
not, or are too slow. An owner's client anchors a document's verifying key at the
relay and rotates it with every MLS commit; with authorization on, content goes
only to subscriptions verified under the current anchor. Clients answer a drop
with a retry under a budget, refilled by a connection that lasted.

What makes each part correct:

- *queue*: the incremental books equal what a scan would find; every limit holds;
  what is dropped is reported; pressure takes from the biggest; callers see one
  atomic enqueue or drain.
- *connections, router*: a message is in exactly one place for each subscriber;
  a session is removed only by its own end; one that was replaced or is slow is
  told to close and does, and every handler returns, unless the connection's own
  peer neither reads nor closes: no connection waits for another's peer.
- *authorization*: anchors only move forward, by a holder of the key they replace
  but for first registrations (section 6, item 6); only holders are authorized; content reaches only holders of the sender's
  anchor's key or of a later one.
- *reconnection*: the budget ends every storm, exactly when it is spent; rivals
  for one user settle.
- *plugin client*: at most one live socket, its own; the retry loop never dies
  silently; each connect() settles; a group is made and announced once and kept.
- *MLS library*: only the owner removes; whoever can derive an epoch's key has a
  leaf in it; anchor rotations follow the tree of epochs.
- *group over the relay*: members go through one sequence of epochs; nobody has
  two leaves; no capability is ahead of its anchor; where nothing is lost everyone
  ends up at the owner's epoch and authorized for it.
- *vault*: what is open is what the manifest says is alive; nobody announces what
  it only materialized, as long as its calls do not overlap; a watcher knows what is
  on the disk, but for what nobody told it; its client's word is true; clients that
  missed nothing converge.

## 2. Modules

| module | models | is used by |
|---|---|---|
| `OfflineStore` | what the queue promises: enqueue and drain, each at once | `OfflineQueue`, `RelaySessions` (refinement) |
| `OfflineQueue` | `storage.rs`, one loop iteration per step | `MCOfflineQueue`, `OfflineQueue_proofs` |
| `RelaySessions` | connections, router and queue as one system | `MCRelaySessions`, `RelaySessions_proofs` |
| `Capability` | `capability.rs`: what is signed and what is verified | `SubscribeAuthz` |
| `SubscribeAuthz` | anchors, capabilities, the content gate | `MCSubscribeAuthz`, `SubscribeAuthz_proofs` |
| `ConnectionStateMachine` | `connection.rs`: the state machine and the retry policy | `Reconnect` |
| `Reconnect` | the `connect` command that drives it, with time and rivals | `MCReconnect`, `Reconnect_proofs` |
| `CollabClient` | attempts, timers and group slots of the plugin client | `MCCollabClient`, `CollabClient_proofs` |
| `MlsGroup` | `mls.rs`: the group of one document | `EncryptedDocument` |
| `EncryptedDocument` | `encryption.rs`, `document.rs`, `persistence.rs` | `DocumentRegistry`, `GroupHandshake` |
| `DocumentRegistry` | `registry.rs`: the library, its operations in any order | `MCDocumentRegistry`, `DocumentRegistry_proofs` |
| `GroupLog` | what members are promised: one sequence of epochs | `GroupHandshake` (refinement) |
| `GroupHandshake` | the plugin's clients making a group over the relay | `MCGroupHandshake`, `GroupHandshake_proofs` |
| `VaultManifest` | `vault_manifest.rs`: the CRDT map of paths | `VaultSync` |
| `VaultSync` | `vault_sync.rs` and its binding: manifest and registry | `VaultWatcher` |
| `VaultWatcher` | `collab-watcher/src/watcher.rs` | `SharedVault` |
| `SharedVault` | plugins and native clients that share a vault | `MCSharedVault`, `SharedVault_proofs` |

Operations of a synchronous library (`Capability`, `ConnectionStateMachine`,
`MlsGroup`, `EncryptedDocument`, `VaultManifest`, `VaultSync`, `VaultWatcher`) are
operators and actions without a `Next` of their own: the modules that stand for
their callers say when they happen.

A definition whose name ends in `_Something` and whose comment says "Mutated
form of" is a variation of the definition after it with a plausible mistake. No
specification uses one; each shows that a property is not vacuous, by breaking it.

### OfflineQueue and OfflineStore

`queues`, `order` and `bytes` are the fields of `Inner`; `call` is the critical
section in progress with `enqueue`'s locals, and stands for the write lock: while
it is not idle no other operation starts. `EnqueueStart`/`EnqueueRefused` are the
entry of `enqueue`; `TrimUserBudget`, `MakeRoom` and `TrimToCap` are one iteration
of its three loops, `...Trimmed` and `RoomMade` their exits; `Admit` and
`AdmitEvicting` push the message, the second after evicting a user; `Drain` is
`drain`. A payload is its size. Ties of `max_by_key` over a hash map are a choice.

`OfflineStore` has one variable, what each user's queue holds, and says which
messages an enqueue may cost whom. `ImplementsStore` maps it to the queues the
lock's last holder left (`Committed`), so that a whole loop is a stutter and its
return the step.

### RelaySessions

The relay with authorization off, as `RelayServer::new` makes it (the binary turns
it on unless `RELAY_SUBSCRIBE_AUTHZ` says otherwise). `clients`, `subs` are the router's
maps; `offline` and `order` are the queue, at the granularity `OfflineQueue` was
shown to provide; `conn` has each connection's phase, user id, close signal,
channel and whether its writer lives; `task` is the handler a connection is in.
A handler is cut wherever the code releases a lock or awaits: Identify is
`Identify` (register and take over, under the clients lock), `Greet` (the
Identified reply), `Drain` and `Replay` (frame by frame, waiting for room); a
publication is `Publish`, the `FanOut...` steps (one per subscriber, the clients
lock held for reading, so writers wait), `DisconnectSlow`, `Enqueue`,
`DropSubscriptions`. What changes nothing is answered too (`Refuse`), and every
reply waits for room in its own channel (`SendReply`), which only the writer makes,
as fast as the peer reads. `Accept`, `ReadEnds`, `CloseSignalled`, `Cleanup`, `Write`
and `WriteFails` are the connection's life. A second Identify on a connection
makes a new close signal; the old handle then signals nobody, which is modelled
(`Signalled`). Auxiliary variables record what was sent, to whom, what was read
and what was lost where.

Left out: auth tokens and length checks, whose refusals are `Refuse`'s, and what a
reply says. A relay shutdown is a read end of every connection.

### Capability and SubscribeAuthz

A signature is the key it verifies under together with what it covers; a label
keeps the three kinds of proof apart. `VerifySubscribeCapability` has one conjunct
per `CapabilityError`.

`anchors` and `subs` with authorization on. Every read of either map is a step:
RegisterDocKey is `RegisterDocKey` (read the anchor, check the proofs) then
`SetAnchor` or `SetAnchorRefused`; Subscribe is `SubscribeBare` or
`SubscribeWithCapability` (verify) then `Subscribe` or `SubscribeRefused`; a
publication is `Publish`, `CheckSender`, `Gate`, `Recipients`, which read anchor,
subscriptions, anchor and subscriptions again. `Knows` says who has which private
key, so a removed member is one that lacks the next epoch's. The clock of
`now_unix` has two values, before and after the expiry. Users mint capabilities for
themselves only, as the clients in the repository do; any session may present any
of them.

### ConnectionStateMachine and Reconnect

A machine is a record, its methods are functions of it, and `NextAction` tells the
driver what to do, as in the code. In `Reconnect`, `sm` is each process's machine,
`left` the sleep of `WaitAndRetry`, `age` that of the current session up to
`MIN_STABLE_CONNECTION`, `holder` whose session the relay has for the user: a new
session takes over, and the replaced process sees its stream end without a Close
frame, which is `SessionError`. `Tick` is a second; it cannot pass a sleep's end.
`calm` stands for a network that has stopped failing: from then on attempts succeed
and sessions end by takeover only. Delays are deterministic, as
`delay_for_attempt` is (`docs/architecture.md:128` speaks of a 25% jitter that the
code does not have).

### CollabClient

A JavaScript handler is an action. `socket[i]` is the WebSocket that the attempt
with `connectGeneration` i made; `ws`, `generation`, `promise`, `state`, `stopped`,
`destroyed`, `isInitialConnect`, `attempts` are the fields of those names.
A close event is a step of its own (`CloseEvent`), some time after the socket was
closed by the client or lost (`Lose`), which is how browsers deliver it. `Open`
and `OpenFails` are `onopen`: identify, subscribe, bootstrap of the empty slots
(the file's group, then the vault manifest's), then the stability timer; it may
fail at any point, between two slots too. A timer is armed or not and may fire at
any time while it is. Slots are modelled by whether they hold a group or a pending
key package. `promise.finally` runs before any other event, as microtasks do.

### MlsGroup, EncryptedDocument and DocumentRegistry

The epochs of a group form a tree: a commit makes a child of the epoch it was made
at, and two commits at one epoch make two. A client derives the same exporter
secret as another exactly when both are at the same node, so the node stands for
the subscribe key. A leaf is the key package it was added by; `leaves` has blanks,
which the next add fills, as openmls does. `group[c]` is `MlsDocumentGroup`: epoch,
own leaf, `owner_user_id`, whether it was evicted, and how much of its ratchets is
used. The policies of `mls.rs` are `MayRemove` (mint side), `HonoursCommit`
(receive side) and `StaysIn` (eviction). A commit is merged by whoever makes it at
once, as `add_member` and `remove_member` do; Welcome, commit and rotation of an
epoch are one record, because nobody may alter one without its being refused.

`EncryptedDocument` adds the text (the set of edits in it; Yrs updates are the full
state, so applying one is a union), and the snapshot on disk. `RestoreEncrypted`
refuses a snapshot older than `min_epoch`, and what it restores has no text.

`DocumentRegistry` calls all of it in any order: each client may be handed any key
package, Welcome, commit or message that was ever made, late, twice or not at all,
may write a snapshot at any time and restart from it later. The current epoch that
`join_encrypted` checks an invite against is whatever its caller believes, any
number: the library has no way to know it. User ids are not unique: in the instance one client goes by the owner's.

### GroupHandshake and GroupLog

`link`, `wire` and `inbox` are a client's session and the frames under way.
`RelayHandle` is the relay as its clients see it: frames of one client in order,
handshakes to every other subscriber, kept for those away, an anchor and an epoch
per subscription. `Connect` is `onopen` with `bootstrapGroup`; `OnKeyPackage`,
`OnWelcome`, `OnCommit` are the cases of `applyGroupHandshake`, each with all it
sends, in its order (`Answer`). `Drop` loses what was under way from some point on;
`StopSession` and `StartSession` are a restart of the plugin with the same user id,
whose snapshot may not have been written (`WritesLand`); `ExpireJoin` is the join
deadline. Faults are counted, up to `MaxFaults`.

`GroupLog` is one growing sequence of member sets that clients enter, follow and
come back to. `ImplementsLog` maps a client's position to its epoch and, while it
is stopped, to the one on its disk.

### VaultManifest, VaultSync, VaultWatcher and SharedVault

A path's entry is the chain of writes that leads to it, each by the client id of a
Yrs document. `ApplyUpdate` keeps the write that is rightmost in the list Yrs keeps
of a key: a later write is to the right of the one it replaced, concurrent ones are
in the order of client ids. This is the one assumption about Yrs; it makes merging
commutative whatever the order of arrival.

`VaultSync` has the handlers of `VaultSyncManager` for local events, each with its
`...Ignored` condition, and `ApplyRemoteManifest`, which rejects an update that is
too large or opens too many documents, applies the rest, opens what is alive and
closes what is deleted. `VaultWatcher` scans, then watches; a path is looked at
some time after it changed and classified by what is on the disk then; the event
channel is bounded. A scan that meets an entry it cannot read finds nothing
(`ScanExistingFiles`), and a renamed folder is one event of the folder, which is
not a watched file (`NotifyOfFolder`): `unseen` has the paths of which a watcher was
not told how they are.

`SharedVault` composes them. A plugin handles vault events at once, unless the path
is being materialized (`making`); a native client's go through watcher, channel and
manager. A broadcast is in flight to each other client until it is applied, lost or
rejected, in any order. What an update opens is materialized by a call of
`materializeRemotePaths`, which nobody awaits: `calls` has one record for each call
that waits, with the path it is at, what it awaits (`createFolder` or `create`) and
the paths it has still to come to. `Iterate` is the loop up to its next await,
`CreateFolder`, `CreateFile` and `MaterializeFail` are what the vault answers, and
`Finally` takes the path out of `making`, whichever call put it there, and goes on
with the loop. Two calls at one path are recorded in `overlaps`. Paths are safe
ones (`isSafeVaultPath`). A stopped session keeps nothing: manifests are not
persisted, and each session has a new client id; its calls go on.

## 3. Runs

| run | constants | shows |
|---|---|---|
| `queue` | 3 users, 2 kinds, sizes 0..2, budgets 3 and 2, per user 2 and 1, 2 messages per user, 2 users tracked, 4 arrivals, fairness | every limit is reached, also by payloads of no bytes; books, caps, fairness and reporting hold; each call ends; `OfflineStore` is implemented |
| `sessions` | 2 users, 1 document, 3 connections of which 2 at a time, channel of 1, queue of 2 messages (1 per user, 1 user), 2 publications | takeover, slow consumer, queueing and teardown interleave: places, registrations, and the queue is `OfflineStore` to the router |
| `sessions_live` | 2 users, 2 documents for 1 slot, 2 connections that may identify again, 1 publication, peers that may stop reading, fairness | handlers return and replaced sessions close, whatever the peers of others do; subscription caps |
| `authz` | owner, deputy and a member removed at epoch 2, a session each; 2 documents of which 1 may exist, 2 keys, 2 epochs | registrations, subscriptions and publications through a rotation, with both caps reached |
| `reconnect` | 2 processes of one user, default policy (5 retries, 1 s doubling to 30 s, stable after 10 s), fairness | the budget, storms, rivals |
| `client` | owner or joiner, 2 slots, 2 retries, 4 sockets, fairness | every order of calls, timers and late events |
| `registry` | 3 clients, one of them by the owner's user id, 4 epochs, 3 key packages, 1 message, 1 client that persists | the library's operations in any order, with anything delivered at any time |
| `handshake` | owner and 2 joiners, 3 epochs, 3 key packages, 1 fault, early deadlines, fairness | a group made over the relay, through one drop or restart; `GroupLog` is implemented |
| `vault` | a plugin and a native client, 3 paths of which 2 in scope, in 2 folders, 3 changes, 1 fault, 2 calls of `materializeRemotePaths` at once, an update opens at most 2 documents and names at most 3 writes, channel of 1, fairness | users, watchers, scans, updates and overlapping materialization interleave |

Three runs each refute what the repository says, in one property (section 6):
`sessions_stranded` (as `sessions`, 1 publication), `lockout` (as `handshake`, no
fault and no early deadline) and `lost_write` (as `handshake`, 2 faults, writes that
may not land).

Why these bounds are enough for the questions asked. *queue*: a recipient, a
biggest holder and an evicted user are different users in three, and four
arrivals fill a queue, exceed it and evict; the two kinds have different budgets
so that one is spent while the other is not. *sessions*: a takeover needs two
connections of one user beside one of a sender; with a channel of one frame,
every send may find it full; two messages let one be queued and the other fan
out. The third connection comes when one has gone, so a user returns while an
earlier route or teardown is under way. *sessions_live* adds what multiplies
states too much there: identifying again, as the same or as another user, and
competing documents. *authz*: two registrations race, one by a user other than
the anchor's; a removed member is current at epoch 1 and not at 2, and the time
between any two of a publication's four reads suffices for a rotation. *reconnect*:
two rivals are the least that can fight; the policy is the default one. *client*:
four sockets allow a superseded one, a failed one, a live one and another after
the budget of two is spent; nothing in the client tells a fifth from a fourth.
*registry*: four epochs hold create, add, remove and one more commit, so an evicted
member may restore a snapshot from before and rejoin, and the owner's namesake may
be added, try to remove and be removed; two commits at one epoch make a fork.
*handshake*: three epochs are the group with both joiners in it; the third package
lets one of them ask again after a fault or an early deadline. *vault*: three
changes are a creation, a concurrent one or a deletion, and a change that answers
either; of the plugin's two client ids one is smaller and one greater than the
other's, so that a concurrent write may win or lose. Three writes is where an
update of both paths is still accepted and one more is too large; that an update may
open both lets one call come to two paths. The cap on the paths it opens is then out
of reach: what is rejected is rejected for its size. The two paths share a folder, so
that two calls may both find it missing; the third path has another, so that a
folder may be renamed. A third call at once would wait for a path where two do.

`authz` checks invariants only and its two documents are interchangeable, so it
uses their symmetry. No other run does: the state spaces are small enough without,
and most of them have temporal or action properties.

`CHECK_DEADLOCK FALSE` where the system really stops: in RelaySessions a behaviour
ends when its `MaxConn` connections are gone; in Reconnect every process may have
given up in a network without events; in CollabClient a client that is stopped or
destroyed, or out of `MaxSockets`, does nothing more; a registry that nobody calls
stands still; in GroupHandshake and SharedVault everything has arrived once users
and faults have used their bounds. OfflineQueue and SubscribeAuthz are checked for
deadlock.

## 4. Fairness

- *OfflineQueue*: weak fairness of the lock holder's steps. No loop awaits.
- *RelaySessions*: weak fairness of each handler's steps and each teardown: the
  runtime runs every runnable task. Strong fairness of `CloseSignalled`: a close
  signal stays, and the `select!` that meets it again and again picks at random
  among the branches that are ready. Nothing else: a writer sends its next frame as
  fast as its peer reads, no timeout or ping bounds that, and so neither writers nor
  clients are fair in any respect. What the properties promise is therefore
  conditional: a handler that never returns, and a superseded session that never
  closes, is forever waiting for room in its own connection's channel
  (`AwaitsItsPeer`).
- *Reconnect*: time passes, sleeps end, an attempt ends either way and a lost
  session is noticed. Neither success nor `CalmDown` is fair;
  `TakeoverSettles` is conditional on calm.
- *CollabClient*: a socket that is opening opens or fails (browsers time out), and
  one that is closed has its close event (the WebSocket API promises it). Timers
  and callers are not fair.
- *DocumentRegistry*: none. A library is called or it is not.
- *GroupHandshake*, *SharedVault*: weak fairness of `Progress` as a whole: while
  the relay, an event loop, the debouncer or a timer has something to do, something
  of it is done. Who comes first is left open. Users and faults are not fair, and
  both are finite in number, as a network that is ever to settle requires.

## 5. Proofs

All theorems are of the form `Spec => []Inv`, `Spec => [][A]_vars` for action
properties, or `Spec => Abstract!Spec` for the refinements, and use no assumption but
the `ASSUME` on the constants, which TLC evaluates in every run. Two have a
hypothesis, which is said where they are described.

- `OfflineQueue_proofs`: `QueueTypeCorrect`, `OrderAlwaysTracksQueues`,
  `CountsStayCapped`, `BudgetAlwaysHolds` and `QueueImplementsStore`, for any users,
  kinds, sizes, budgets and caps. The inductive invariant has four layers. `Inv` adds
  to the types, the order list and the count caps what the locals mean at each point
  of the loops (which user is being trimmed, that an admission finds a free place).
  `BytesInv` says that the counters are the sums of what is queued, that the ceilings
  hold, and with what room each loop exits: a loop that finds nothing to drop has
  counters at zero, because they are exact, and a message that fits its caps then
  fits. That the counters are natural numbers, as `TypeOK` has them, follows from this
  and not from the types, which `Inv` therefore states over the integers. `HistoryInv`
  relates the call in progress to the queues it found: ids are
  fresh, what each user has lost is what the counts say, and whoever lost to byte
  pressure held as much as anybody has left. `StoreInv` keeps the order of arrival
  and says who may lose a message of the other kind. The steps are removals,
  admissions and exits, and each layer has a lemma for each of the three.
  `QueueImplementsStore` follows: while a call runs, what is committed is what it
  found, so every loop step stutters, and what its return shows satisfies
  `OfflineStore`'s clauses by the invariant. Sums are the library's folds, which
  recurse through finite sets by `CHOOSE`. What they add up to is an induction over
  data, done here without the induction theorems: the set of numbers at which the
  claim fails has a least element (`WFMin`), and there is none (`Smallest`,
  `SetInduction`, `SumExists`, `IterationEnds`).
- `SubscribeAuthz_proofs`: `AuthzTypeCorrect`, `AnchorStaysNewest`,
  `AuthorizedAreHolders`, `ContentStaysWithHolders`, for any users, sessions,
  documents, keys and distribution of keys. The invariant adds `TasksSound`: what
  a handler carries between its locks is still true when it is used, because
  `past` only grows and anchors only rise (`PastGrows`, `AnchorsRise`): a
  capability verified against an anchor that was rotated meanwhile was still
  verified by a holder at that epoch, and the epoch is what is stored.
- `Reconnect_proofs`: `GivesUpExactly`, for any processes and policy. The counter
  in the state machine equals the streak of attempts that came to nothing, in
  every process that has not ended; times and the relay play no part, which the
  proof shows by not mentioning them.
- `DocumentRegistry_proofs`: `RegistryTypeCorrect`, `OwnerAloneRemoves`,
  `KeyHoldersHaveLeaves`, `RotationsFollowTheTree`, for any
  clients, user ids (unique or not) and bounds. The invariant (`MlsInv`) says of
  every epoch that it follows from its parent as its commit says, and of every
  group, pending member and snapshot that it refers to a package of its client's
  and, unless it was evicted, to an epoch that has its leaf: the snapshots are why
  eviction alone does not make the property inductive. `EntriesSound` ties groups
  to registry entries. Each operation of `MlsGroup` has a lemma (`CommitKeeps`,
  `JoinKeeps`, ...), on which the actions of the layers above rest.
- `SharedVault_proofs`: `VaultTypeCorrect`, `RegistryAlwaysFollows`,
  `NothingIsEchoed`, `WatchersFollowTheDisk` and `OwnWordStaysTrue`, for any clients,
  plugin or native, paths, folders, scope, settings and caps. Every handler of the
  manager is shown to do one and the same thing (`Manages`): it goes from a manifest
  and a registry that agree to a pair that agrees, replaces entries only by later
  ones, and credits a living path only to whoever made or edited it, or overlapped
  there. The last is not inductive without what is on its way: the invariant says it
  of the updates in flight too, and `WatcherSound` says that a file which a watcher
  does not know, or has reported as created, was made or edited by its own user, or is
  one it was not told of, which needs that only plugins materialize. `CallsSound` says
  that the guard of a path a call waits for is up, unless calls of its client have
  overlapped there, and that two calls at one path have: so what is made without a
  guard is credited by `overlaps`.
  `WritesSound` says that `Precedes`, which is shown to be an order, never puts a
  client's own write ahead of what that client has, wherever a copy of it is: so an
  update that is applied never brings a client its own words. `OwnWordStaysTrue` rests
  on this and on `WordSound`, that the last event on its way to the manager, or if
  there is none the manifest, agrees with the watcher's known files. Its hypothesis is
  `SyncDeletions`, the default of `VaultSyncConfig` (`vault_sync.rs:85`): where
  deletions are not synchronized the manifest keeps saying that a deleted file is
  alive, as it is meant to.
- `RelaySessions_proofs`: `SessionsTypeCorrect`, `NewerSessionsSurvive`,
  `SubscriptionsStayCapped`, `EachMessageInOnePlace`, `QueueKeepsItsPromise`, for any
  users, documents, connections, channel and queue limits and numbers of messages. `Types` adds to the
  type invariant what the later proofs need of it: a route has no recipient in two of
  its sets `to`, `away` and `slow` (`RouteSound`), a replay is of an identified
  connection, and every message id anywhere is below `sent`, so a message that is
  being published is nowhere yet. `ExactlyOnePlace` is not inductive: it counts the
  replays that hold a message, and a replay that held it twice would count once and
  send it twice. `Once` strengthens it to one member among six sets of positions, each
  a function of the variables it depends on. A step then does one of three things to
  them, and each has its lemmas: it leaves them alone (`QuietStepKeeps`), renumbers
  one (a channel's or a replay's head goes, `ShiftedOn`), or takes the member from one
  and puts it into another (publish, fan-out, enqueue, drain, replay, write, loss). The
  enqueue does the second and the third at once: `Fewer` says what each of its ways of
  making room leaves of a queue, and composes.
  `QueueKeepsItsPromise` is the refinement of `OfflineStore`: every step of the relay
  leaves the stored queues alone or is one `Enqueue` or `Drained` of it. That a
  message is queued fresh rests on `RoutesAddressed` (a route bears its message only to
  those it was addressed to) and on `Once`; that the store is within its limits
  afterwards rests on `QueueCaps`, the caps and the byte total as an invariant. Entries
  are of one kind and one byte, so what a queue weighs is its length
  (`PayloadIsLen`) and an admission may lose older entries of anybody; the sums over
  users are those of `OfflineQueue_proofs`, taken by `INSTANCE`.
- `CollabClient_proofs`: `ClientTypeCorrect`, `NoSocketIsOrphaned`,
  `RetryLoopStaysAlive`, `GuardStaysPending`, `SlotsStaySound`, for any numbers of
  sockets, attempts and slots. No one of them is inductive, and they lean on each
  other: because an opening socket is the last attempt's, its promise is the guard's;
  because a closed last socket has closed its stability window (`RetrySound`), nothing
  refills a budget that is spent. The slots need in addition that an owner has
  registered exactly the groups it has (`OwnerSound`).
- `GroupHandshake_proofs`: `NobodyHasTwoLeaves`, `HandshakeTypeCorrect`,
  `CapabilitiesFollowTheAnchor`, `HandshakeMakesOneLog`, for any clients, user ids and
  bounds, on three invariants. `BaseInv` holds whatever is lost: frames and groups
  refer to what was made, and the leaves of an epoch differ in identity, which is what
  `admits` and the leftmost-blank rule keep. `Chain` says that the epochs are one
  chain and the owner, or while it is stopped its snapshot, is at the end of it; it
  holds while writes land or nothing was lost yet (`ChainAlways`). `Undisturbed` says,
  while nothing was lost, that the owner's registrations on their way are ahead of
  every frame that depends on them. `HandshakeMakesOneLog` shows that the initial
  states are `GroupLog`'s and that every step is a step of it or a stutter, under the
  hypothesis `WritesLand`: snapshots are on the disk when a session stops. The code
  does not promise that (`main.ts:540-541`), and the run `lost_write` shows that without
  it there are two histories; with it the theorem holds however many connections,
  frames and sessions are lost.

Model-checked only: everything temporal under fairness (`LockReleased`,
`HandlersReturn`, `SupersededCloses`, `NoReconnectStorm`, `TakeoverSettles`,
`ConnectSettles`, both `Settles`), which is out of the prover's reach.
`TypeOK` of CollabClient, GroupHandshake and SharedVault is proved and no run checks it:
the runs spend their properties on what could go wrong.

## 6. What the repository says and the code does not do

Refuted by a run:

1. `docs/protocol.md:250`: all queued messages are sent on reconnection. A route
   finds the user away, the user identifies and drains an empty queue, the route
   enqueues: the message waits for the next reconnection. (`sessions_stranded`)
2. `docs/security.md:114`: "a joiner whose Welcome was genuinely lost is now
   stuck". So is one whose Welcome was not lost: a Welcome goes to every subscriber,
   and a joiner that waits consumes its pending member by whichever comes first
   (`collab-client.ts:1215-1238`). With two joiners at once, the Welcome of one uses
   up the package of the other, and the owner refuses the other ever after.
   (`lockout`)
3. `main.ts:540-541`: losing the last write costs "one re-bootstrap on next start,
   not divergence". There is no re-bootstrap: an older snapshot is restored, with
   `min_epoch` 0 (`collab-client.ts:372`), and an owner that commits from it makes
   a second epoch of a number that exists. (`lost_write`)

Plain enough to see in the code, and modelled as the code has it, without a run of
their own:

4. `docs/protocol.md:234`: on a disconnect a client is removed from all
   subscriptions. The code keeps them, on purpose (`routing.rs:283-286`): they are
   what messages are queued by. The document is wrong.
5. `storage.rs:3-5`: briefly-offline peers do not miss updates. The queue is
   emptied before it is sent on (`relay.rs:440`); a second drop during the replay
   loses the rest. `ExactlyOnePlace` counts these as lost.
6. `relay.rs:562-564`: a rotation must be signed under the current anchor's key.
   Of two first registrations at rising epochs that both found no anchor, the
   later replaces the earlier without a proof (`relay.rs:613`).
7. `collab-client.ts:1409-1410`: a refill of the retry budget never outlives the
   connection that earned it. `connect()` on a live client replaces the socket and
   leaves the old stability timer armed (`collab-client.ts:727`).
8. `crate-guide.md:227` (in `docs/`): a fresh Identify "takes over and closes the
   prior session", and `relay.rs:33-35`: a consumer that is too slow is disconnected.
   The close signal is looked at between two frames only. A handler that waits for
   room for its reply (`relay.rs:437-442`, `854`) waits as long as its peer does not
   read, and nothing bounds that: such a session stays open, though no longer
   registered, and takes one of `max_connections`. `HandlersReturn` and
   `SupersededCloses` except exactly this.
9. `main.ts:65-67`: a create event of a file that is made for a remote manifest must
   not echo. The callback is not awaited (`collab-client.ts:1340`), so two calls may
   wait for one path, and the first one's `finally` (`main.ts:392`) takes the guard
   down for both: a path that is announced, deleted and announced again while its
   folder is being made is then made without a guard and announced as the plugin's
   own. `NoEcho` leaves out the paths where calls have overlapped; without the
   exception TLC finds it violated.
10. `vault_manifest.rs:11-14`: a tombstone keeps a lagging peer's add from
    resurrecting a deleted file. An add made concurrently with the deletion wins
    over it whenever its client id is the greater.

Behaviour that contradicts no sentence, but that a reader of the properties should
know, because they are stated around it:

- An explicit `connect()` during the backoff does not clear the retry timer, which
  later replaces the live connection by another (`ReconnectTimer`).
- A registration that is lost leaves a session that the relay refuses content for
  as long as its group lives; `collab-client.ts:466-482` says so. `Settles` of
  GroupHandshake is about behaviours without losses.
- A path deleted by a remote client is closed in the registry, but the plugin never
  deletes the file (`main.ts:223-224`); when a session starts again, files that are
  there are not announced, so `InSync` asks for the files that are alive only.
- A rename across the border of the scope is ignored on both ends
  (`vault_sync.rs:287-292`): the manifest keeps the old path (`strays`).
- An update that opens more than 1024 documents (`vault_sync.rs:19`), or is larger
  than a megabyte, is rejected whole, and every broadcast is the full state: a client
  that once missed that much never catches up (`gaps`).
- Two calls of `materializeRemotePaths` that both find a folder missing both make it;
  the second is refused, and its file is not made, nor is it by a later update, for
  which its document is open already (`MaterializeFail`).
- What changes between a watcher's scan and its watch is noticed by neither, a scan
  that fails knows no file (`watcher.rs:113`), and a native client whose folder is
  renamed hears nothing of the files in it: the manifest keeps the old paths
  (`unseen`).

## 7. Not modelled, and why

- *Cryptography and Yrs*: OpenMLS, Ed25519, AES-GCM and Yrs are libraries; they are
  modelled by what their callers rely on, and marked external.
- *The editor's debounce* (`editor-sync.ts:82`): an edit still in the debounce
  window is not in the document when remote text replaces the editor's. That it is
  lost is what the code does in two adjacent statements; a model would restate it.
- *The text diff* (`collab-client.ts:1523`): it counts UTF-16 units, the document
  the units of a yrs `Doc` with default options. This is a question about two
  encodings of one string, without states or interleavings; a test settles it.
- *The send queue's bound* (`collab-client.ts:933`): GroupHandshake loses any suffix
  of what was sent; dropping the oldest of a thousand frames would need a thousand.
- *The command-line client's other commands*: `init`, `keygen`, `create-invite`,
  `join` and `demo` work on files once; `session_check` plays one fixed session of
  two clients in one process, in the order GroupHandshake has for its own.
- *Settings, commands and views* of the plugin: no state that outlives them.
- *Auth tokens and length checks* of the relay: what they refuse is answered and
  changes nothing else, as `Refuse` of RelaySessions does. A relay shutdown is a read
  end of every connection.
- *The order of replayed handshakes*: GroupHandshake delivers a client's frames in
  the order they were sent. The relay replays what it queued after what is live
  (RelaySessions has this), so that a commit may be met before the one it follows.
- *Encodings, sealing, WebAssembly conversions, protocol types, the relay's main,
  build and deployment files*: no behaviour of their own.
- *The composition of RelaySessions with SubscribeAuthz* and the relay inside
  GroupHandshake in full: their product is beyond TLC. GroupHandshake has the relay
  as its clients see it, which the other two justify.

## 8. Running

```
tlc -workers 2 -config MCOfflineQueue.cfg MCOfflineQueue
tlapm OfflineQueue_proofs.tla
```

and likewise for the other `MC*.cfg`, each with the module whose name it begins
with, and the other `*_proofs.tla`.
