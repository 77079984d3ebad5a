-------------------------- MODULE SubscribeAuthz --------------------------
(***************************************************************************)
(* Subscribe authorization in the relay, when it is turned on: each        *)
(* document's anchor (an epoch and a verifying key), the registrations     *)
(* that set and rotate it, the subscriptions verified against it, and the  *)
(* gate that content passes on its way from a sender to the recipients     *)
(* (crates/collab-relay/src/relay.rs, routing.rs; capability.rs of         *)
(* crates/collab-proto).                                                   *)
(*                                                                         *)
(* A session is an identified connection; it handles one request at a time *)
(* but the handlers of several interleave wherever they release a lock:    *)
(* every read of `anchors` or `subs` is a step of its own.  A user signs   *)
(* under the keys it knows, and mints capabilities for itself only, but    *)
(* any session may present any of them, at any time.                       *)
(* Requests that fail a check before changing anything are left out, as    *)
(* are handshakes, which nothing gates; RelaySessions models the delivery. *)
(***************************************************************************)
EXTENDS Capability, FiniteSets

CONSTANTS
    User,            \* user ids
    Session,         \* identified connections
    UserOf,          \* the user each session identified as
    Doc,             \* document ids
    Key,             \* verifying keys
    Knows,           \* the keys each user holds the private half of
    Epoch,           \* the epochs that clients use
    NoAnchor, Absent, HandshakeOnly,   \* no anchor; no subscription; None
    MaxDocuments,    \* max_documents
    MaxSubscribers,  \* max_subscribers_per_doc
    MaxInitialEpoch  \* MAX_INITIAL_ANCHOR_EPOCH

ASSUME AuthzAssumption ==
    /\ UserOf \in [Session -> User]
    /\ Knows \in [User -> SUBSET Key]
    /\ Epoch \subseteq Nat
    /\ Absent \notin Nat /\ HandshakeOnly \notin Nat
    /\ Absent # HandshakeOnly
    /\ NoAnchor \notin [epoch : Epoch, key : Key]
    /\ MaxDocuments \in Nat /\ MaxSubscribers \in Nat \ {0} /\ MaxInitialEpoch \in Nat

VARIABLES
    anchors,  \* anchors: the anchor of each document
    subs,     \* subscriptions: what each user holds of each document
    task,     \* the handler in progress in each session
    past,     \* auxiliary: every anchor a document has had
    reached   \* auxiliary: whom the last content was routed to, and what it held

vars == <<anchors, subs, task, past, reached>>

Anchor == [epoch : Epoch, key : Key]
Idle == [pc |-> "idle"]

Init ==
    /\ anchors = [d \in Doc |-> NoAnchor]
    /\ subs = [d \in Doc |-> [u \in User |-> Absent]]
    /\ task = [s \in Session |-> Idle]
    /\ past = [d \in Doc |-> {}]
    /\ reached = {}

Members(d) == {u \in User : subs[d][u] # Absent}

-----------------------------------------------------------------------------
(* RegisterDocKey.                                                         *)

\* The proofs that a user can sign.
DocKeyProofs(u, d, e) == {SignDocKeyProof(k, d, e) : k \in Knows[u]}
RotationProofs(u, d, e, k) == {SignAnchorRotation(current, d, e, k) : current \in Knows[u]}

\* handle_register_doc_key up to its read of the anchor: an anchor that is there
\* needs a rotation proof under its key, a first registration ignores it.
RegisterDocKey(s, d, e, k) ==
    LET u == UserOf[s]
        under == IF anchors[d] = NoAnchor THEN k ELSE anchors[d].key
    IN  /\ task[s] = Idle
        /\ \E proof \in DocKeyProofs(u, d, e) : VerifyDocKeyProof(d, e, k, proof)
        /\ anchors[d] # NoAnchor =>
              \E proof \in RotationProofs(u, d, e, k) :
                 VerifyAnchorRotation(d, e, k, anchors[d].key, proof)
        /\ task' = [task EXCEPT ![s] =
              [pc |-> "set_anchor", doc |-> d, epoch |-> e, key |-> k, under |-> under]]
        /\ UNCHANGED <<anchors, subs, past, reached>>

\* Mutated form of IsAcceptable: a rotation may stay at the same epoch.
IsAcceptable_Equal(d, e) ==
    IF anchors[d] = NoAnchor
    THEN /\ Cardinality({x \in Doc : anchors[x] # NoAnchor}) < MaxDocuments
         /\ e <= MaxInitialEpoch
    ELSE e >= anchors[d].epoch

\* What set_anchor accepts, a first anchor (accept_first_anchor) or a rotation.
IsAcceptable(d, e) ==
    IF anchors[d] = NoAnchor
    THEN /\ Cardinality({x \in Doc : anchors[x] # NoAnchor}) < MaxDocuments
         /\ e <= MaxInitialEpoch
    ELSE e > anchors[d].epoch

SetAnchor(s) ==
    /\ task[s].pc = "set_anchor"
    /\ IsAcceptable(task[s].doc, task[s].epoch)
    /\ anchors' = [anchors EXCEPT ![task[s].doc] = [epoch |-> task[s].epoch, key |-> task[s].key]]
    /\ past' = [past EXCEPT ![task[s].doc] = @ \cup {[epoch |-> task[s].epoch, key |-> task[s].key]}]
    /\ task' = [task EXCEPT ![s] = Idle]
    /\ UNCHANGED <<subs, reached>>

SetAnchorRefused(s) ==
    /\ task[s].pc = "set_anchor"
    /\ ~IsAcceptable(task[s].doc, task[s].epoch)
    /\ task' = [task EXCEPT ![s] = Idle]
    /\ UNCHANGED <<anchors, subs, past, reached>>

-----------------------------------------------------------------------------
(* Subscribe and Unsubscribe.                                              *)

\* A Subscribe without a capability is for the handshake only.
SubscribeBare(s, d) ==
    /\ task[s] = Idle
    /\ task' = [task EXCEPT ![s] = [pc |-> "subscribe", doc |-> d, at |-> HandshakeOnly]]
    /\ UNCHANGED <<anchors, subs, past, reached>>

\* All that matters of the relay's clock and a capability's expiry is which is
\* the later.
Time == 0..1

\* The capabilities that members mint, each naming its minter.
CapabilitiesOf(u) ==
    {SignSubscribeCapability(k, u, d, e, x) : k \in Knows[u], d \in Doc, e \in Epoch, x \in Time}

Capabilities == UNION {CapabilitiesOf(u) : u \in User}

\* authorize_subscribe: verified against the anchor of the moment, whose epoch
\* is what the subscription will hold.
SubscribeWithCapability(s, d) ==
    /\ task[s] = Idle
    /\ anchors[d] # NoAnchor
    /\ \E cap \in Capabilities, now \in Time :
          VerifySubscribeCapability(cap, anchors[d].key, UserOf[s], d, anchors[d].epoch, now)
    /\ task' = [task EXCEPT ![s] = [pc |-> "subscribe", doc |-> d, at |-> anchors[d].epoch]]
    /\ UNCHANGED <<anchors, subs, past, reached>>

\* MessageRouter::subscribe has room: the user is a member, or within both caps.
HasRoom(d, u) ==
    \/ subs[d][u] # Absent
    \/ /\ Members(d) = {} => Cardinality({x \in Doc : Members(x) # {}}) < MaxDocuments
       /\ Cardinality(Members(d)) < MaxSubscribers

\* MessageRouter::subscribe: what the user held before is overwritten.
Subscribe(s) ==
    /\ task[s].pc = "subscribe"
    /\ HasRoom(task[s].doc, UserOf[s])
    /\ subs' = [subs EXCEPT ![task[s].doc][UserOf[s]] = task[s].at]
    /\ task' = [task EXCEPT ![s] = Idle]
    /\ UNCHANGED <<anchors, past, reached>>

SubscribeRefused(s) ==
    /\ task[s].pc = "subscribe"
    /\ ~HasRoom(task[s].doc, UserOf[s])
    /\ task' = [task EXCEPT ![s] = Idle]
    /\ UNCHANGED <<anchors, subs, past, reached>>

Unsubscribe(s, d) ==
    /\ task[s] = Idle
    /\ subs' = [subs EXCEPT ![d][UserOf[s]] = Absent]
    /\ UNCHANGED <<anchors, task, past, reached>>

-----------------------------------------------------------------------------
(* YrsUpdate: the sender is checked, then the recipients are selected; each   *)
(* check reads the anchor first and the subscriptions after.                  *)

\* is_content_authorized reads the anchor; without one nobody may publish.
Publish(s, d) ==
    /\ task[s] = Idle
    /\ anchors[d] # NoAnchor
    /\ task' = [task EXCEPT ![s] = [pc |-> "check_sender", doc |-> d, since |-> anchors[d].epoch]]
    /\ UNCHANGED <<anchors, subs, past, reached>>

\* ... and then what the sender holds.
CheckSender(s) ==
    /\ task[s].pc = "check_sender"
    /\ task' = [task EXCEPT ![s] =
          IF subs[task[s].doc][UserOf[s]] = task[s].since THEN [@ EXCEPT !.pc = "gate"] ELSE Idle]
    /\ UNCHANGED <<anchors, subs, past, reached>>

\* recipients reads the anchor again.
Gate(s) ==
    /\ task[s].pc = "gate"
    /\ task' = [task EXCEPT ![s] =
          [pc |-> "recipients", doc |-> task[s].doc, since |-> task[s].since,
           at |-> anchors[task[s].doc].epoch]]
    /\ UNCHANGED <<anchors, subs, past, reached>>

\* Mutated form of IsEligible: every subscriber but the sender, as for a handshake.
IsEligible_Ungated(s, u) == u # UserOf[s] /\ subs[task[s].doc][u] # Absent

\* Mutated form of IsEligible: authorized at whichever epoch.
IsEligible_Ever(s, u) ==
    u # UserOf[s] /\ subs[task[s].doc][u] \notin {Absent, HandshakeOnly}

IsEligible(s, u) == u # UserOf[s] /\ subs[task[s].doc][u] = task[s].at

\* ... and selects who is authorized at that epoch, online or not.
Recipients(s) ==
    /\ task[s].pc = "recipients"
    /\ reached' =
          {[doc |-> task[s].doc, user |-> u, held |-> subs[task[s].doc][u],
            since |-> task[s].since] : u \in {v \in User : IsEligible(s, v)}}
    /\ task' = [task EXCEPT ![s] = Idle]
    /\ UNCHANGED <<anchors, subs, past>>

-----------------------------------------------------------------------------
Step(s) ==
    \/ \E d \in Doc, e \in Epoch, k \in Key : RegisterDocKey(s, d, e, k)
    \/ SetAnchor(s) \/ SetAnchorRefused(s)
    \/ \E d \in Doc : SubscribeBare(s, d) \/ SubscribeWithCapability(s, d)
    \/ Subscribe(s) \/ SubscribeRefused(s)
    \/ \E d \in Doc : Unsubscribe(s, d) \/ Publish(s, d)
    \/ CheckSender(s) \/ Gate(s) \/ Recipients(s)

Next == \E s \in Session : Step(s)

Spec == Init /\ [][Next]_vars
-----------------------------------------------------------------------------
(* Properties.                                                             *)

Task ==
    {Idle}
    \cup [pc : {"set_anchor"}, doc : Doc, epoch : Epoch, key : Key, under : Key]
    \cup [pc : {"subscribe"}, doc : Doc, at : Epoch \cup {HandshakeOnly}]
    \cup [pc : {"check_sender", "gate"}, doc : Doc, since : Epoch]
    \cup [pc : {"recipients"}, doc : Doc, since : Epoch, at : Epoch]

\* Every variable has its type; what content met at a recipient is an epoch.
TypeOK ==
    /\ anchors \in [Doc -> Anchor \cup {NoAnchor}]
    /\ subs \in [Doc -> [User -> Epoch \cup {HandshakeOnly, Absent}]]
    /\ task \in [Session -> Task]
    /\ past \in [Doc -> SUBSET Anchor]
    /\ reached \subseteq [doc : Doc, user : User, held : Epoch, since : Epoch]

\* A document was anchored at epoch e under a key that u holds.
IsHolderAt(u, d, e) == \E a \in past[d] : a.epoch = e /\ a.key \in Knows[u]

\* routing.rs:156-170: a document has had one key per epoch, its anchor is the
\* newest, and no registration, however late, brings back an older one.
AnchorIsNewest ==
    \A d \in Doc :
        /\ \A a, b \in past[d] : a.epoch = b.epoch => a = b
        /\ \A a \in past[d] : anchors[d] # NoAnchor /\ a.epoch <= anchors[d].epoch
        /\ anchors[d] # NoAnchor => anchors[d] \in past[d]

\* relay.rs:530-549: a subscription is authorized at an epoch only for a user that
\* holds the key the document was anchored under at that epoch, whatever rotations
\* came between the capability's verification and the subscription.
AuthorizedIsHolder ==
    \A d \in Doc, u \in User :
        subs[d][u] \in Epoch => IsHolderAt(u, d, subs[d][u])

\* routing.rs:438-450 and docs/security.md:410-413: content reaches only users
\* that hold the key of the anchor in force when its sender was checked, or of a
\* later one: a rotation that was done by then has revoked everybody else.
ContentReachesHolders ==
    \A r \in reached : r.held >= r.since /\ IsHolderAt(r.user, r.doc, r.held)

=============================================================================
