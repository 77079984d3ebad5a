----------------------- MODULE SubscribeAuthz_proofs -----------------------
(***************************************************************************)
(* Proofs about SubscribeAuthz, for any users, sessions, documents, keys   *)
(* and epochs.  TasksSound is what the handlers in progress must satisfy   *)
(* for the invariants to be inductive: a subscription still to be          *)
(* stored was verified for a holder, and a publication that is still to be *)
(* gated was checked against an anchor no newer than today's.              *)
(***************************************************************************)
EXTENDS SubscribeAuthz, TLAPS

\* What a handler in progress has established.
TaskSound(s) ==
    /\ task[s].pc = "subscribe" /\ task[s].at \in Epoch =>
          IsHolderAt(UserOf[s], task[s].doc, task[s].at)
    /\ task[s].pc \in {"check_sender", "gate", "recipients"} =>
          /\ anchors[task[s].doc] # NoAnchor
          /\ task[s].since <= anchors[task[s].doc].epoch
    /\ task[s].pc = "recipients" => task[s].since <= task[s].at

TasksSound == \A s \in Session : TaskSound(s)

Inv ==
    /\ TypeOK
    /\ AnchorIsNewest
    /\ AuthorizedIsHolder
    /\ ContentReachesHolders
    /\ TasksSound

-----------------------------------------------------------------------------
(* Facts about tasks and constants.                                        *)

\* The constants, one fact at a time.
LEMMA Constants ==
    /\ Epoch \subseteq Nat
    /\ Absent \notin Epoch /\ HandshakeOnly \notin Epoch
    /\ \A s \in Session : UserOf[s] \in User
    /\ NoAnchor \notin Anchor
BY AuthzAssumption DEF AuthzAssumption, Anchor

\* A task has the fields of its program counter.
LEMMA TaskFields ==
    ASSUME NEW s \in Session, task[s] \in Task
    PROVE  /\ task[s].pc = "set_anchor" =>
                 task[s].doc \in Doc /\ task[s].epoch \in Epoch /\ task[s].key \in Key
           /\ task[s].pc = "subscribe" =>
                 task[s].doc \in Doc /\ task[s].at \in Epoch \cup {HandshakeOnly}
           /\ task[s].pc \in {"check_sender", "gate"} =>
                 task[s].doc \in Doc /\ task[s].since \in Epoch
           /\ task[s].pc = "recipients" =>
                 task[s].doc \in Doc /\ task[s].since \in Epoch /\ task[s].at \in Epoch
BY DEF Task, Idle

-----------------------------------------------------------------------------
\* The initial state satisfies the invariant.
LEMMA InitInv == Init => Inv
<1> SUFFICES ASSUME Init PROVE Inv
    OBVIOUS
<1>1. TypeOK
    BY DEF Init, TypeOK, Task, Idle
<1>2. AnchorIsNewest /\ AuthorizedIsHolder /\ ContentReachesHolders
    BY Constants DEF Init, AnchorIsNewest, AuthorizedIsHolder, ContentReachesHolders
<1>3. TasksSound
    BY DEF Init, TasksSound, TaskSound, Idle
<1> QED
    BY <1>1, <1>2, <1>3 DEF Inv

\* Types are preserved.
LEMMA StepType ==
    ASSUME Inv, NEW s \in Session, Step(s)
    PROVE  TypeOK'
<1> USE Constants DEF Inv, TypeOK
<1> task[s] \in Task
    OBVIOUS
<1>0. Idle \in Task
    BY DEF Task
<1>1. ASSUME NEW d \in Doc, NEW e \in Epoch, NEW k \in Key,
             RegisterDocKey(s, d, e, k)
      PROVE  TypeOK'
    <2> DEFINE under == IF anchors[d] = NoAnchor THEN k ELSE anchors[d].key
    <2>1. under \in Key
        BY DEF Anchor
    <2>2. [pc |-> "set_anchor", doc |-> d, epoch |-> e, key |-> k, under |-> under] \in Task
        BY <2>1 DEF Task
    <2> QED
        BY <1>1, <2>2 DEF RegisterDocKey
<1>2. CASE SetAnchor(s)
    BY <1>0, <1>2, TaskFields DEF SetAnchor, Anchor
<1>3. CASE SetAnchorRefused(s)
    BY <1>0, <1>3 DEF SetAnchorRefused
<1>4. ASSUME NEW d \in Doc, SubscribeBare(s, d)
      PROVE  TypeOK'
    BY <1>4 DEF SubscribeBare, Task
<1>5. ASSUME NEW d \in Doc, SubscribeWithCapability(s, d)
      PROVE  TypeOK'
    BY <1>5 DEF SubscribeWithCapability, Task, Anchor
<1>6. CASE Subscribe(s)
    BY <1>0, <1>6, TaskFields DEF Subscribe
<1>7. CASE SubscribeRefused(s)
    BY <1>0, <1>7 DEF SubscribeRefused
<1>8. ASSUME NEW d \in Doc, Unsubscribe(s, d)
      PROVE  TypeOK'
    BY <1>8 DEF Unsubscribe
<1>9. ASSUME NEW d \in Doc, Publish(s, d)
      PROVE  TypeOK'
    BY <1>9 DEF Publish, Task, Anchor
<1>10. CASE CheckSender(s)
    <2>1. [task[s] EXCEPT !.pc = "gate"] \in Task
        BY <1>10 DEF CheckSender, Task, Idle
    <2> QED
        BY <1>0, <1>10, <2>1 DEF CheckSender
<1>11. CASE Gate(s)
    <2>1. anchors[task[s].doc] \in Anchor
        BY <1>11, TaskFields DEF Gate, TasksSound, TaskSound
    <2> QED
        BY <1>11, <2>1, TaskFields DEF Gate, Task, Anchor
<1>12. CASE Recipients(s)
    <2>1. \A u \in User : IsEligible(s, u) => subs[task[s].doc][u] \in Epoch
        BY <1>12, TaskFields DEF Recipients, IsEligible
    <2> QED
        BY <1>0, <1>12, <2>1, TaskFields DEF Recipients
<1> QED
    BY <1>1, <1>2, <1>3, <1>4, <1>5, <1>6, <1>7, <1>8, <1>9, <1>10, <1>11, <1>12 DEF Step

-----------------------------------------------------------------------------
(* Which steps touch what.                                                 *)

\* Only SetAnchor writes anchors.
LEMMA WhoAnchors ==
    ASSUME NEW s \in Session, Step(s), ~SetAnchor(s)
    PROVE  UNCHANGED <<anchors, past>>
BY DEF Step, RegisterDocKey, SetAnchorRefused, SubscribeBare, SubscribeWithCapability, Subscribe,
       SubscribeRefused, Unsubscribe, Publish, CheckSender, Gate, Recipients

\* Only Subscribe and Unsubscribe write subscriptions.
LEMMA WhoSubscribes ==
    ASSUME NEW s \in Session, Step(s), ~Subscribe(s), \A d \in Doc : ~Unsubscribe(s, d)
    PROVE  UNCHANGED subs
BY DEF Step, RegisterDocKey, SetAnchor, SetAnchorRefused, SubscribeBare, SubscribeWithCapability,
       SubscribeRefused, Publish, CheckSender, Gate, Recipients

\* Only Recipients routes content.
LEMMA WhoReaches ==
    ASSUME NEW s \in Session, Step(s), ~Recipients(s)
    PROVE  UNCHANGED reached
BY DEF Step, RegisterDocKey, SetAnchor, SetAnchorRefused, SubscribeBare, SubscribeWithCapability,
       Subscribe, SubscribeRefused, Unsubscribe, Publish, CheckSender, Gate

\* A step is its own session's: the other handlers stay where they are.
LEMMA OthersStay ==
    ASSUME TypeOK, NEW s \in Session, Step(s), NEW t \in Session, t # s
    PROVE  task'[t] = task[t]
BY DEF TypeOK, Step, RegisterDocKey, SetAnchor, SetAnchorRefused, SubscribeBare,
       SubscribeWithCapability, Subscribe, SubscribeRefused, Unsubscribe, Publish, CheckSender,
       Gate, Recipients

\* What SetAnchor does to the document it is about.
LEMMA SetAnchorEffect ==
    ASSUME Inv, NEW s \in Session, SetAnchor(s)
    PROVE  /\ task[s].doc \in Doc
           /\ task[s].epoch \in Nat
           /\ \A d \in Doc \ {task[s].doc} : anchors'[d] = anchors[d] /\ past'[d] = past[d]
           /\ anchors'[task[s].doc] = [epoch |-> task[s].epoch, key |-> task[s].key]
           /\ past'[task[s].doc] = past[task[s].doc] \cup {anchors'[task[s].doc]}
           /\ \A a \in past[task[s].doc] : a.epoch < task[s].epoch
           /\ anchors[task[s].doc] # NoAnchor => anchors[task[s].doc].epoch < task[s].epoch
<1> DEFINE d == task[s].doc
<1>1. d \in Doc /\ task[s].epoch \in Epoch /\ task[s].pc = "set_anchor"
    BY TaskFields DEF Inv, TypeOK, SetAnchor
<1>2. /\ \A x \in Doc \ {d} : anchors'[x] = anchors[x] /\ past'[x] = past[x]
      /\ anchors'[d] = [epoch |-> task[s].epoch, key |-> task[s].key]
      /\ past'[d] = past[d] \cup {anchors'[d]}
    BY <1>1 DEF SetAnchor, Inv, TypeOK
<1>3. anchors[d] # NoAnchor => anchors[d].epoch < task[s].epoch
    <2>1. anchors[d] # NoAnchor => anchors[d].epoch \in Nat
        BY <1>1, Constants DEF Inv, TypeOK, Anchor
    <2> QED
        BY <1>1, <2>1, Constants DEF SetAnchor, IsAcceptable
<1>4. ASSUME NEW a \in past[d] PROVE a.epoch < task[s].epoch
    <2>1. anchors[d] # NoAnchor /\ a.epoch <= anchors[d].epoch
        BY <1>1, <1>4 DEF Inv, AnchorIsNewest
    <2>2. a.epoch \in Nat /\ anchors[d].epoch \in Nat /\ task[s].epoch \in Nat
        <3>1. a \in Anchor /\ anchors[d] \in Anchor
            BY <1>1, <1>4, <2>1 DEF Inv, TypeOK
        <3> QED
            BY <1>1, <3>1, Constants DEF Anchor
    <2> QED
        BY <1>3, <2>1, <2>2
<1> QED
    BY <1>1, <1>2, <1>3, <1>4, Constants

\* Every step keeps the anchors a document has had.
LEMMA PastGrows ==
    ASSUME Inv, NEW s \in Session, Step(s), NEW d \in Doc
    PROVE  past[d] \subseteq past'[d]
<1>1. CASE SetAnchor(s)
    BY <1>1, SetAnchorEffect
<1>2. CASE ~SetAnchor(s)
    BY <1>2, WhoAnchors
<1> QED
    BY <1>1, <1>2

\* An anchor is never removed and its epoch never falls.
LEMMA AnchorsRise ==
    ASSUME Inv, NEW s \in Session, Step(s), NEW d \in Doc, anchors[d] # NoAnchor
    PROVE  /\ anchors'[d] # NoAnchor
           /\ anchors[d].epoch \in Nat /\ anchors'[d].epoch \in Nat
           /\ anchors[d].epoch <= anchors'[d].epoch
<1>1. anchors[d].epoch \in Nat
    BY Constants DEF Inv, TypeOK, Anchor
<1>2. CASE SetAnchor(s)
    <2>1. CASE d = task[s].doc
        <3>1. /\ anchors'[d] = [epoch |-> task[s].epoch, key |-> task[s].key]
              /\ anchors[d].epoch < task[s].epoch /\ task[s].epoch \in Nat
            BY <1>2, <2>1, SetAnchorEffect
        <3>2. task[s].epoch \in Epoch /\ task[s].key \in Key
            BY <1>2, TaskFields DEF Inv, TypeOK, SetAnchor
        <3>3. anchors'[d] \in Anchor
            BY <3>1, <3>2 DEF Anchor
        <3>4. anchors'[d] # NoAnchor
            BY <3>3, Constants
        <3> QED
            BY <1>1, <3>1, <3>4
    <2>2. CASE d # task[s].doc
        <3>1. anchors'[d] = anchors[d]
            BY <1>2, <2>2, SetAnchorEffect
        <3> QED
            BY <1>1, <3>1
    <2> QED
        BY <2>1, <2>2
<1>4. CASE ~SetAnchor(s)
    BY <1>1, <1>4, WhoAnchors
<1> QED
    BY <1>2, <1>4

-----------------------------------------------------------------------------
(* Each invariant, step by step.                                           *)

\* The anchor stays the newest: SetAnchor adds an epoch above all earlier ones.
LEMMA StepNewest ==
    ASSUME Inv, NEW s \in Session, Step(s)
    PROVE  AnchorIsNewest'
<1>1. CASE SetAnchor(s)
    <2> DEFINE d == task[s].doc
               new == anchors'[d]
    <2>0. /\ d \in Doc /\ task[s].epoch \in Nat
          /\ past'[d] = past[d] \cup {new}
          /\ \A a \in past[d] : a.epoch < task[s].epoch
          /\ new = [epoch |-> task[s].epoch, key |-> task[s].key]
        BY <1>1, SetAnchorEffect
    <2>1. /\ d \in Doc /\ task[s].epoch \in Nat
          /\ new.epoch = task[s].epoch
          /\ past'[d] = past[d] \cup {new}
          /\ \A a \in past[d] : a.epoch < task[s].epoch
        <3> HIDE DEF new, d
        <3> QED
            BY <2>0
    <2>2. new # NoAnchor
        <3>1. new = [epoch |-> task[s].epoch, key |-> task[s].key]
            BY <1>1, SetAnchorEffect
        <3>2. task[s].epoch \in Epoch /\ task[s].key \in Key
            BY <1>1, TaskFields DEF Inv, TypeOK, SetAnchor
        <3> QED
            BY <3>1, <3>2, Constants DEF Anchor
    <2>3. \A a \in past[d] : a.epoch \in Nat
        <3>1. past[d] \subseteq Anchor
            BY <2>1 DEF Inv, TypeOK
        <3> QED
            BY <3>1, Constants DEF Anchor
    <2>4. \A a, b \in past'[d] : a.epoch = b.epoch => a = b
        <3> HIDE DEF new
        <3> SUFFICES ASSUME NEW a \in past[d] \cup {new}, NEW b \in past[d] \cup {new},
                            a.epoch = b.epoch
                     PROVE  a = b
            BY <2>1
        <3>1. CASE a \in past[d] /\ b \in past[d]
            BY <2>1, <3>1 DEF Inv, AnchorIsNewest
        <3>2. CASE a = new \/ b = new
            BY <2>1, <2>3, <3>2
        <3> QED
            BY <3>1, <3>2
    <2>5. \A a \in past'[d] : new # NoAnchor /\ a.epoch <= new.epoch
        <3> HIDE DEF new
        <3> QED
            BY <2>1, <2>2, <2>3
    <2>6. \A x \in Doc \ {d} : past'[x] = past[x] /\ anchors'[x] = anchors[x]
        BY <1>1, SetAnchorEffect
    <2> HIDE DEF d
    <2> QED
        BY <2>1, <2>4, <2>5, <2>6 DEF Inv, AnchorIsNewest
<1>2. CASE ~SetAnchor(s)
    BY <1>2, WhoAnchors DEF Inv, AnchorIsNewest
<1> QED
    BY <1>1, <1>2

\* Authorized subscriptions stay with holders: what Subscribe stores was verified
\* for a holder when its handler started.
LEMMA StepHolder ==
    ASSUME Inv, NEW s \in Session, Step(s)
    PROVE  AuthorizedIsHolder'
<1> SUFFICES ASSUME NEW d \in Doc, NEW u \in User, subs'[d][u] \in Epoch
             PROVE  IsHolderAt(u, d, subs[d][u])'
    BY DEF AuthorizedIsHolder
<1>1. \A x \in Doc : past[x] \subseteq past'[x]
    BY PastGrows
<1>2. IsHolderAt(u, d, subs'[d][u])
    <2>1. CASE Subscribe(s)
        <3>1. task[s].doc \in Doc /\ UserOf[s] \in User
            BY <2>1, TaskFields, Constants DEF Inv, TypeOK, Subscribe
        <3>2. CASE d = task[s].doc /\ u = UserOf[s]
            <4>1. subs'[d][u] = task[s].at
                BY <2>1, <3>1, <3>2 DEF Subscribe, Inv, TypeOK
            <4> QED
                BY <2>1, <3>2, <4>1 DEF Subscribe, Inv, TasksSound, TaskSound
        <3>3. CASE ~(d = task[s].doc /\ u = UserOf[s])
            <4>1. subs'[d][u] = subs[d][u]
                BY <2>1, <3>1, <3>3 DEF Subscribe, Inv, TypeOK
            <4> QED
                BY <4>1 DEF Inv, AuthorizedIsHolder
        <3> QED
            BY <3>2, <3>3
    <2>2. ASSUME NEW e \in Doc, Unsubscribe(s, e)
          PROVE  IsHolderAt(u, d, subs'[d][u])
        <3>1. subs'[d][u] = subs[d][u] \/ subs'[d][u] = Absent
            BY <2>2, Constants DEF Unsubscribe, Inv, TypeOK
        <3>2. subs'[d][u] = subs[d][u]
            BY <3>1, Constants
        <3> QED
            BY <3>2 DEF Inv, AuthorizedIsHolder
    <2>3. CASE ~Subscribe(s) /\ \A e \in Doc : ~Unsubscribe(s, e)
        BY <2>3, WhoSubscribes DEF Inv, AuthorizedIsHolder
    <2> QED
        BY <2>1, <2>2, <2>3
<1> QED
    BY <1>1, <1>2 DEF IsHolderAt

\* Content reaches holders only: the recipients hold the epoch that Gate read,
\* which is no older than the one the sender was checked against.
LEMMA StepReaches ==
    ASSUME Inv, NEW s \in Session, Step(s)
    PROVE  ContentReachesHolders'
<1>1. \A x \in Doc : past[x] \subseteq past'[x]
    BY PastGrows
<1>2. ASSUME NEW r \in reached'
      PROVE  r.doc \in Doc /\ r.held >= r.since /\ IsHolderAt(r.user, r.doc, r.held)
    <2>1. CASE r \in reached
        BY <2>1 DEF Inv, TypeOK, ContentReachesHolders
    <2>2. CASE r \notin reached
        <3>1. Recipients(s)
            BY <1>2, <2>2, WhoReaches
        <3>2. PICK u \in User :
                 /\ IsEligible(s, u)
                 /\ r = [doc |-> task[s].doc, user |-> u, held |-> subs[task[s].doc][u],
                         since |-> task[s].since]
            BY <1>2, <2>2, <3>1 DEF Recipients
        <3>3. /\ task[s].doc \in Doc /\ task[s].at \in Epoch /\ task[s].since \in Epoch
              /\ task[s].since <= task[s].at
            BY <3>1, TaskFields DEF Recipients, Inv, TypeOK, TasksSound, TaskSound
        <3>4. subs[task[s].doc][u] = task[s].at
            BY <3>2 DEF IsEligible
        <3>5. IsHolderAt(u, task[s].doc, task[s].at)
            BY <3>3, <3>4 DEF Inv, AuthorizedIsHolder
        <3>6. task[s].at >= task[s].since
            BY <3>3, Constants
        <3> QED
            BY <3>2, <3>3, <3>4, <3>5, <3>6
    <2> QED
        BY <2>1, <2>2
<1> QED
    BY <1>1, <1>2 DEF ContentReachesHolders, IsHolderAt

\* What a handler has established stays true while others take steps.
LEMMA StepTasksOther ==
    ASSUME Inv, NEW s \in Session, Step(s), NEW t \in Session, t # s
    PROVE  TaskSound(t)'
<1>1. task'[t] = task[t]
    BY OthersStay DEF Inv
<1>2. task[t] \in Task /\ TaskSound(t)
    BY DEF Inv, TypeOK, TasksSound
<1>3. \A d \in Doc : past[d] \subseteq past'[d]
    BY PastGrows
<1>4. ASSUME task[t].pc = "subscribe", task[t].at \in Epoch
      PROVE  \E a \in past'[task[t].doc] : a.epoch = task[t].at /\ a.key \in Knows[UserOf[t]]
    <2>1. task[t].doc \in Doc
        BY <1>2, <1>4, TaskFields
    <2>2. \E a \in past[task[t].doc] : a.epoch = task[t].at /\ a.key \in Knows[UserOf[t]]
        BY <1>2, <1>4 DEF TaskSound, IsHolderAt
    <2> QED
        BY <1>3, <2>1, <2>2
<1>5. ASSUME task[t].pc \in {"check_sender", "gate", "recipients"}
      PROVE  /\ anchors'[task[t].doc] # NoAnchor
             /\ task[t].since <= anchors'[task[t].doc].epoch
    <2>1. task[t].doc \in Doc /\ task[t].since \in Nat
        BY <1>2, <1>5, TaskFields, Constants
    <2>2. /\ anchors[task[t].doc] # NoAnchor
          /\ task[t].since <= anchors[task[t].doc].epoch
        BY <1>2, <1>5 DEF TaskSound
    <2>3. /\ anchors'[task[t].doc] # NoAnchor
          /\ anchors[task[t].doc].epoch \in Nat /\ anchors'[task[t].doc].epoch \in Nat
          /\ anchors[task[t].doc].epoch <= anchors'[task[t].doc].epoch
        BY <2>1, <2>2, AnchorsRise
    <2> QED
        BY <2>1, <2>2, <2>3
<1>6. task[t].pc = "recipients" => task[t].since <= task[t].at
    BY <1>2 DEF TaskSound
<1> QED
    BY <1>1, <1>4, <1>5, <1>6 DEF TaskSound, IsHolderAt

\* A capability that verifies for a user was minted by that user, who therefore
\* holds the anchor's key, whichever session it was first presented in.
LEMMA VerifiedIsHolder ==
    ASSUME NEW cap \in Capabilities, NEW now \in Time, NEW key, NEW user, NEW doc, NEW epoch,
           VerifySubscribeCapability(cap, key, user, doc, epoch, now)
    PROVE  key \in Knows[user]
<1>1. PICK u \in User : cap \in CapabilitiesOf(u)
    BY DEF Capabilities
<1>2. PICK k \in Knows[u], d \in Doc, e \in Epoch, x \in Time :
         cap = SignSubscribeCapability(k, u, d, e, x)
    BY <1>1 DEF CapabilitiesOf
<1>3. cap.user_id = u /\ cap.signature.key = k
    BY <1>2 DEF SignSubscribeCapability, SubscribeCapability, Sign
<1>4. cap.user_id = user /\ cap.signature.key = key
    BY DEF VerifySubscribeCapability, VerifyStrict, Sign
<1> QED
    BY <1>2, <1>3, <1>4

\* What a handler establishes by a step of its own.
LEMMA StepTasksOwn ==
    ASSUME Inv, NEW s \in Session, Step(s)
    PROVE  TaskSound(s)'
<1> task[s] \in Task /\ TaskSound(s)
    BY DEF Inv, TypeOK, TasksSound
<1>0. CASE task'[s] = Idle
    BY <1>0 DEF TaskSound, Idle
<1>1. ASSUME NEW d \in Doc, NEW e \in Epoch, NEW k \in Key,
             RegisterDocKey(s, d, e, k)
      PROVE  TaskSound(s)'
    BY <1>1 DEF RegisterDocKey, Inv, TypeOK, TaskSound
<1>2. ASSUME NEW d \in Doc, SubscribeBare(s, d)
      PROVE  TaskSound(s)'
    BY <1>2, Constants DEF SubscribeBare, Inv, TypeOK, TaskSound
<1>3. ASSUME NEW d \in Doc, SubscribeWithCapability(s, d)
      PROVE  TaskSound(s)'
    <2>1. /\ task'[s] = [pc |-> "subscribe", doc |-> d, at |-> anchors[d].epoch]
          /\ past' = past /\ anchors[d] # NoAnchor /\ anchors[d].key \in Knows[UserOf[s]]
        BY <1>3, VerifiedIsHolder DEF SubscribeWithCapability, Inv, TypeOK
    <2>2. anchors[d] \in past[d]
        BY <2>1 DEF Inv, AnchorIsNewest
    <2> QED
        BY <2>1, <2>2 DEF TaskSound, IsHolderAt
<1>4. ASSUME NEW d \in Doc, Publish(s, d)
      PROVE  TaskSound(s)'
    <2>1. /\ task'[s] = [pc |-> "check_sender", doc |-> d, since |-> anchors[d].epoch]
          /\ anchors' = anchors /\ anchors[d] # NoAnchor
        BY <1>4 DEF Publish, Inv, TypeOK
    <2>2. anchors[d].epoch \in Nat
        BY <2>1, Constants DEF Inv, TypeOK, Anchor
    <2> QED
        BY <2>1, <2>2 DEF TaskSound
<1>5. CASE CheckSender(s) /\ task'[s] # Idle
    <2>1. task'[s] = [task[s] EXCEPT !.pc = "gate"] /\ anchors' = anchors
        BY <1>5 DEF CheckSender, Inv, TypeOK
    <2>2. task'[s].doc = task[s].doc /\ task'[s].since = task[s].since /\ task'[s].pc = "gate"
        BY <1>5, <2>1 DEF CheckSender, Task, Idle
    <2> QED
        BY <1>5, <2>1, <2>2 DEF CheckSender, TaskSound
<1>6. CASE Gate(s)
    <2>1. /\ task'[s] = [pc |-> "recipients", doc |-> task[s].doc, since |-> task[s].since,
                         at |-> anchors[task[s].doc].epoch]
          /\ anchors' = anchors
        BY <1>6 DEF Gate, Inv, TypeOK
    <2> QED
        BY <1>6, <2>1 DEF Gate, TaskSound
<1>7. ASSUME NEW d \in Doc, Unsubscribe(s, d)
      PROVE  TaskSound(s)'
    BY <1>7 DEF Unsubscribe, TaskSound, Idle
<1>8. CASE SetAnchor(s) \/ SetAnchorRefused(s) \/ Subscribe(s) \/ SubscribeRefused(s) \/ Recipients(s)
    <2>1. task'[s] = Idle
        BY <1>8 DEF SetAnchor, SetAnchorRefused, Subscribe, SubscribeRefused, Recipients, Inv, TypeOK
    <2> QED
        BY <1>0, <2>1
<1> QED
    BY <1>0, <1>1, <1>2, <1>3, <1>4, <1>5, <1>6, <1>7, <1>8 DEF Step

-----------------------------------------------------------------------------
\* Every step preserves the invariant.
LEMMA NextInv == Inv /\ [Next]_vars => Inv'
<1>1. ASSUME Inv, NEW s \in Session, Step(s)
      PROVE  Inv'
    <2>1. \A t \in Session : TaskSound(t)'
        BY <1>1, StepTasksOther, StepTasksOwn
    <2> QED
        BY <1>1, <2>1, StepType, StepNewest, StepHolder, StepReaches DEF Inv, TasksSound
<1>2. CASE UNCHANGED vars
    BY <1>2 DEF vars, Inv, TypeOK, AnchorIsNewest, AuthorizedIsHolder, ContentReachesHolders,
                IsHolderAt, TasksSound, TaskSound
<1> QED
    BY <1>1, <1>2 DEF Next

\* The inductive invariant holds in every behaviour.
THEOREM Invariance == Spec => []Inv
BY InitInv, NextInv, PTL DEF Spec

\* Anchors, subscriptions and handlers have their types: in particular content is
\* only ever routed to a recipient that holds an epoch (routing.rs, recipients).
THEOREM AuthzTypeCorrect == Spec => []TypeOK
<1>1. Inv => TypeOK
    BY DEF Inv
<1> QED
    BY <1>1, Invariance, PTL

\* A document has one key per epoch and the newest is its anchor, however
\* registrations interleave (routing.rs, set_anchor).
THEOREM AnchorStaysNewest == Spec => []AnchorIsNewest
<1>1. Inv => AnchorIsNewest
    BY DEF Inv
<1> QED
    BY <1>1, Invariance, PTL

\* A subscription is authorized at an epoch only for a holder of that epoch's key,
\* though it is verified and stored under different locks (relay.rs,
\* authorize_subscribe and handle_subscribe).
THEOREM AuthorizedAreHolders == Spec => []AuthorizedIsHolder
<1>1. Inv => AuthorizedIsHolder
    BY DEF Inv
<1> QED
    BY <1>1, Invariance, PTL

\* Content reaches holders of the anchor its sender was checked against, or of a
\* later one, though sender and recipients are checked apart (routing.rs,
\* is_content_authorized and recipients).
THEOREM ContentStaysWithHolders == Spec => []ContentReachesHolders
<1>1. Inv => ContentReachesHolders
    BY DEF Inv
<1> QED
    BY <1>1, Invariance, PTL
=============================================================================
