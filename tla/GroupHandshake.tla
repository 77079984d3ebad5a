--------------------------- MODULE GroupHandshake ---------------------------
(***************************************************************************)
(* How the plugin's clients make a group over the relay                    *)
(* (plugins/obsidian-ee/src/collab-client.ts, main.ts, through             *)
(* crates/collab-wasm/src/mls.rs): the owner creates it and answers key    *)
(* packages, joiners come in by a Welcome and follow commits, everyone     *)
(* re-presents its capability when its epoch changes, and a session that   *)
(* stops saves its group for the next.                                     *)
(*                                                                         *)
(* A frame is its type and the epoch, or the key package, that it carries. *)
(* The relay is here as far as its clients see it: it handles each         *)
(* client's frames in order, fans a handshake out to every other           *)
(* subscriber, keeps it for those that are away, and has one anchor and    *)
(* the epoch each subscriber is authorized at.  SubscribeAuthz and         *)
(* RelaySessions have its insides, CollabClient the life of a connection.  *)
(***************************************************************************)
EXTENDS EncryptedDocument

CONSTANTS
    Owner,        \* the client whose role is owner; the others are joiners
    Allowed,      \* the owner's allowedJoiners
    MaxFaults,    \* bound: connections dropped and sessions stopped
    DeadlinesPass, \* whether a join deadline may pass before the answer comes
    WritesLand    \* whether a save at the end of a session is always written

ASSUME HandshakeAssumption ==
    /\ Owner \in Client /\ Allowed \subseteq User
    /\ MaxFaults \in Nat /\ {DeadlinesPass, WritesLand} \subseteq BOOLEAN

VARIABLES
    link,        \* each client's session: stopped, or with or without a socket
    wire,        \* frames each client has sent, for the relay
    inbox,       \* frames the relay has for each client
    anchor,      \* the relay's anchor of the document, 0 for none
    subscribers, \* the relay's subscriptions
    authorized,  \* the epoch each subscription is authorized at, 0 for none
    faults       \* connections dropped and sessions stopped so far

relayVars == <<anchor, subscribers, authorized>>
vars == <<docVars, link, wire, inbox, relayVars, faults>>

Init ==
    /\ DocInit
    /\ link = [c \in Client |-> "offline"]
    /\ wire = [c \in Client |-> <<>>]
    /\ inbox = [c \in Client |-> <<>>]
    /\ anchor = 0
    /\ subscribers = {}
    /\ authorized = [c \in Client |-> 0]
    /\ faults = 0

Frame(type, e) == [type |-> type, e |-> e]

Handshakes == {"key_package", "welcome", "commit"}

Send(c, frames) == wire' = [wire EXCEPT ![c] = @ \o frames]

-----------------------------------------------------------------------------
(* The relay.                                                              *)

\* handle_register_doc_key: the first anchor is taken as it comes; a rotation
\* is signed under the anchor it replaces and goes to a higher epoch.
AcceptsAnchor(e) ==
    \/ anchor = 0
    \/ epochs[e].parent = anchor /\ epochs[e].number > epochs[anchor].number

RelayHandle(c) ==
    /\ wire[c] # <<>>
    /\ LET f == Head(wire[c])
       IN  \/ /\ f.type = "register"
              /\ anchor' = IF AcceptsAnchor(f.e) THEN f.e ELSE anchor
              /\ UNCHANGED <<subscribers, authorized, inbox>>
           \/ /\ f.type = "subscribe"
              /\ IF f.e \in {0, anchor}
                 THEN /\ subscribers' = subscribers \cup {c}
                      /\ authorized' = [authorized EXCEPT ![c] = f.e]
                 ELSE UNCHANGED <<subscribers, authorized>>
              /\ UNCHANGED <<anchor, inbox>>
           \/ /\ f.type \in Handshakes
              /\ inbox' = [d \in Client |->
                    IF d \in subscribers \ {c} THEN Append(inbox[d], f) ELSE inbox[d]]
              /\ UNCHANGED relayVars
    /\ wire' = [wire EXCEPT ![c] = Tail(@)]
    /\ UNCHANGED <<docVars, link, faults>>

-----------------------------------------------------------------------------
(* A session connects, loses its socket, stops and starts.                 *)

\* subscribeTo: a capability of the group's epoch, none without a group.
SubscribeFrame(g) ==
    Frame("subscribe", IF g = NoGroup THEN 0 ELSE MintSubscribeCapability(g))

\* registerAnchor
RegisterFrame(g) == Frame("register", SignDocKeyProof(g))

\* onopen: subscribe, then establishGroup for a slot with neither a document
\* nor a pending member: the owner creates the group, registers its anchor and
\* presents itself again, a joiner sends a key package.
Connect(c) ==
    /\ link[c] = "offline"
    /\ link' = [link EXCEPT ![c] = "online"]
    /\ \/ /\ Established(c) \/ pending[c] # 0
          /\ Send(c, <<SubscribeFrame(group[c])>>)
          /\ UNCHANGED docVars
       \/ /\ ~Established(c) /\ pending[c] = 0
          /\ c = Owner
          /\ DocCreate(c)
          /\ Send(c, <<SubscribeFrame(NoGroup), RegisterFrame(group'[c]), SubscribeFrame(group'[c])>>)
       \/ /\ ~Established(c) /\ pending[c] = 0
          /\ c # Owner
          /\ DocGenerateKeyPackage(c)
          /\ Send(c, <<SubscribeFrame(NoGroup), Frame("key_package", Len(packages) + 1)>>)
    /\ UNCHANGED <<inbox, relayVars, faults>>

\* The frames that were on their way, either way, are lost from some point on:
\* the relay keeps for the user what it has not yet written to the socket.
LoseFrames(c) ==
    /\ \E i \in 0..Len(wire[c]) : wire' = [wire EXCEPT ![c] = SubSeq(@, 1, i)]
    /\ \E i \in 0..Len(inbox[c]) : inbox' = [inbox EXCEPT ![c] = SubSeq(@, i + 1, Len(@))]

\* The socket drops: the group and the pending member stay.
Drop(c) ==
    /\ link[c] = "online"
    /\ faults < MaxFaults
    /\ faults' = faults + 1
    /\ link' = [link EXCEPT ![c] = "offline"]
    /\ LoseFrames(c)
    /\ UNCHANGED <<docVars, relayVars>>

\* Mutated form of Saved: the snapshot is taken once destroy has freed the group.
Saved_AfterDestroy(c) == NoGroup

\* What snapshot has of the slot: its group, taken before destroy frees it.
Saved(c) == Snapshot(c)

\* stopSession: snapshot, an unawaited write, destroy.  A session that found its
\* group unsaved, or none, writes what it has: nothing.
StopSession(c) ==
    /\ link[c] # "stopped"
    /\ faults < MaxFaults
    /\ faults' = faults + 1
    /\ link' = [link EXCEPT ![c] = "stopped"]
    /\ group' = [group EXCEPT ![c] = NoGroup]
    /\ pending' = [pending EXCEPT ![c] = 0]
    /\ text' = [text EXCEPT ![c] = {}]
    /\ \/ disk' = [disk EXCEPT ![c] = Saved(c)]
       \/ ~WritesLand /\ UNCHANGED disk
    /\ LoseFrames(c)
    /\ UNCHANGED <<packages, epochs, messages, rotations, relayVars>>

\* The binding throws for a snapshot that is stale or not there, and the slot
\* stays without a group.
RestoreSlot(c, minEpoch) ==
    IF disk[c] # NoGroup /\ IsFresh(disk[c], minEpoch)
    THEN RestoreEncrypted(c, minEpoch)
    ELSE UNCHANGED docVars

\* startSession: restoreSlots takes a snapshot of any epoch.
StartSession(c) ==
    /\ link[c] = "stopped"
    /\ link' = [link EXCEPT ![c] = "offline"]
    /\ RestoreSlot(c, 0)
    /\ UNCHANGED <<wire, inbox, relayVars, faults>>

\* The join deadline passes: the pending member is freed, and the next connect
\* asks again.
ExpireJoin(c) ==
    /\ DeadlinesPass
    /\ pending[c] # 0 /\ ~Established(c)
    /\ pending' = [pending EXCEPT ![c] = 0]
    /\ UNCHANGED <<packages, epochs, group, messages, rotations, text, disk,
                   link, wire, inbox, relayVars, faults>>

-----------------------------------------------------------------------------
(* applyGroupHandshake.                                                    *)

\* Mutated form of Admits: an identity may be admitted again.
Admits_Again(p) == CredentialIdentity(p) \in Allowed

\* admits: the package's own identity is allowed, and is not in the group yet.
Admits(p) == CredentialIdentity(p) \in Allowed /\ ~IsMember(Owner, CredentialIdentity(p))

\* Mutated form of Answer: the anchor is moved after the Welcome has gone out.
Answer_WelcomeFirst(e) ==
    <<Frame("commit", e), Frame("welcome", e), Frame("register", e), Frame("subscribe", e)>>

\* What the owner sends for the epoch e it has just made, in this order.
Answer(e) ==
    <<Frame("register", e), Frame("subscribe", e), Frame("commit", e), Frame("welcome", e)>>

\* case 'key_package': only an owner with a group answers.
OnKeyPackage(c, p) ==
    IF c = Owner /\ Established(c) /\ Admits(p)
    THEN DocCreateInvite(c, p) /\ Send(c, Answer(Len(epochs) + 1))
    ELSE UNCHANGED <<docVars, wire>>

\* case 'welcome': only a joiner that waits for one.  The pending member and its
\* deadline are gone before the join is known to succeed.
OnWelcome(c, e) ==
    IF c # Owner /\ pending[c] # 0 /\ ~Established(c)
    THEN /\ DocJoin(c, e)
         /\ IF OpensWelcome(c, e) THEN Send(c, <<Frame("subscribe", e)>>) ELSE UNCHANGED wire
    ELSE UNCHANGED <<docVars, wire>>

\* Mutated form of OnCommit: the capability is not presented again.
OnCommit_Silent(c, e) ==
    IF Established(c) /\ AcceptsCommit(c, e)
    THEN DocProcessCommit(c, e) /\ UNCHANGED wire
    ELSE UNCHANGED <<docVars, wire>>

\* case 'commit': a member follows, and presents itself at the new epoch.  The
\* rotation is dropped: the owner has registered the same.
OnCommit(c, e) ==
    IF Established(c) /\ AcceptsCommit(c, e)
    THEN DocProcessCommit(c, e) /\ Send(c, <<Frame("subscribe", e)>>)
    ELSE UNCHANGED <<docVars, wire>>

Receive(c) ==
    /\ link[c] = "online" /\ inbox[c] # <<>>
    /\ LET f == Head(inbox[c])
       IN  \/ f.type = "key_package" /\ OnKeyPackage(c, f.e)
           \/ f.type = "welcome" /\ OnWelcome(c, f.e)
           \/ f.type = "commit" /\ OnCommit(c, f.e)
    /\ inbox' = [inbox EXCEPT ![c] = Tail(@)]
    /\ UNCHANGED <<link, relayVars, faults>>

\* What goes on by itself: the relay and the event loops, timers, and a client
\* that lost its socket trying again.
Progress == \E c \in Client :
    RelayHandle(c) \/ Receive(c) \/ Connect(c) \/ StartSession(c) \/ ExpireJoin(c)

Fault == \E c \in Client : Drop(c) \/ StopSession(c)

Next == Progress \/ Fault

\* Nothing makes a socket drop or a user stop; as long as something can go on by
\* itself, something does.  Who comes first is not fair.
Fairness == WF_vars(Progress)

Spec == Init /\ [][Next]_vars /\ Fairness

-----------------------------------------------------------------------------
(* Properties.                                                             *)

Frames == Seq([type : {"register", "subscribe", "key_package", "commit", "welcome"}, e : Nat])

\* Frames name what was made; a pending member is one's own and has no group.
TypeOK ==
    /\ link \in [Client -> {"stopped", "offline", "online"}]
    /\ wire \in [Client -> Frames] /\ inbox \in [Client -> Frames]
    /\ anchor \in 0..Len(epochs) /\ subscribers \subseteq Client
    /\ authorized \in [Client -> 0..Len(epochs)]
    /\ \A c \in Client : pending[c] # 0 =>
          packages[pending[c]] = c /\ ~Established(c) /\ link[c] # "stopped"

\* docs/security.md:91-103: however often a joiner asks again, by lost Welcomes,
\* deadlines and restarts, no identity ever has two leaves, of which
\* remove_member would take one.
OneLeafEach == \A e \in DOMAIN epochs : \A u \in User : Cardinality(LeavesOf(e, u)) <= 1

\* collab-client.ts:1176-1190: unless a connection was lost or a session stopped,
\* no capability reaches the relay ahead of its anchor, where it is rejected.
CapabilityNotAhead ==
    faults = 0 =>
        \A c \in Client : wire[c] # <<>> /\ Head(wire[c]).type = "subscribe" =>
            LET e == Head(wire[c]).e
            IN  e # 0 => anchor # 0 /\ epochs[e].number <= epochs[anchor].number

\* A joiner without a group that is not waiting for one either: it has given
\* up, or been refused, until it connects again.
Idle(c) == c # Owner /\ ~Established(c) /\ pending[c] = 0

InStep(c) ==
    /\ Established(c) /\ Established(Owner)
    /\ group[c].epoch = group[Owner].epoch
    /\ authorized[c] = anchor /\ anchor = group[c].epoch

\* collab-client.ts:1191-1208, 1247-1273: where nothing is lost, everyone who is
\* in the group ends up at the owner's epoch, and authorized for it at the relay:
\* adding a member leaves no other behind, and nobody waits for ever.
Settles == <>[](faults > 0 \/ \A c \in Client : Idle(c) \/ InStep(c))

Members(e) == {CredentialIdentity(p) : p \in LeafSet(e)}

Log == INSTANCE GroupLog WITH
    log <- [e \in DOMAIN epochs |-> Members(e)],
    position <- [c \in Client |-> IF Established(c) THEN group[c].epoch ELSE 0],
    reached <- [c \in Client |->
        IF Established(c) THEN group[c].epoch
        ELSE IF disk[c] # NoGroup THEN disk[c].epoch ELSE 0]

\* main.ts:530-541, collab-client.ts:352-380: the group is one sequence of epochs
\* whatever is lost on the way, a session that starts again goes on where the
\* last one stopped, and no member is taken back or onto a branch of its own.
ImplementsLog == Log!Spec

\* collab-client.ts:1215-1232: a joiner whose identity has a leaf that it does not
\* hold the key of can never be admitted again.
LockedOut(c) == Idle(c) /\ \E e \in DOMAIN epochs : UserId[c] \in Members(e)

\* docs/security.md:114: "a joiner whose Welcome was genuinely lost is now stuck":
\* no other joiner is.
OnlyTheLostAreStuck ==
    faults = 0 => \A c \in Client : (link[c] = "online") => ~LockedOut(c)

\* main.ts:540: "Losing the write costs one re-bootstrap on next start, not
\* divergence": two clients at the same epoch number are at the same epoch.
NoDivergence == \A c, d \in Client :
    Established(c) /\ Established(d) /\ EpochNumber(c) = EpochNumber(d) =>
        group[c].epoch = group[d].epoch
=============================================================================
