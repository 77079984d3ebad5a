--------------------------- MODULE OfflineQueue ---------------------------
(***************************************************************************)
(* The relay's in-memory buffer for subscribed-but-disconnected users      *)
(* (crates/collab-relay/src/storage.rs).  Two operations change it,        *)
(* enqueue and drain, each under the write lock of `inner` from its first  *)
(* line to its last.  enqueue holds three loops, so it is modelled one     *)
(* loop iteration per step: `call` is the critical section in progress and *)
(* no other operation starts before it has returned.  A payload is its     *)
(* size in bytes; an id, counting arrivals, tells messages apart.          *)
(***************************************************************************)
EXTENDS Naturals, SequencesExt

CONSTANTS
    User,         \* user ids
    Kind,         \* the budgeted message kinds: content and handshake
    Size,         \* payload sizes of arriving messages
    Budget,       \* ByteLimits::budget, aggregate bytes per kind
    PerUser,      \* ByteLimits::per_user, bytes per kind of one user
    MaxPerUser,   \* max_per_user, messages of one user
    MaxUsers,     \* max_users, users tracked at once
    MaxMessages   \* bound on the arrivals a behaviour makes

ASSUME QueueAssumption ==
    /\ Size \subseteq Nat
    /\ Budget \in [Kind -> Nat]
    /\ PerUser \in [Kind -> Nat]
    /\ MaxPerUser \in Nat \ {0}
    /\ MaxUsers \in Nat \ {0}
    /\ MaxMessages \in Nat

VARIABLES
    queues,   \* Inner::queues, a function on the tracked users
    order,    \* Inner::order, tracked users by insertion
    bytes,    \* Inner::content_bytes and handshake_bytes, by kind
    call,     \* the enqueue holding the lock, or the idle lock
    arrivals  \* auxiliary: how many messages have been offered

vars == <<queues, order, bytes, call, arrivals>>

Message == [id : Nat, kind : Kind, bytes : Size]
UserQueue == [messages : Seq(Message), bytes : [Kind -> Nat]]

Idle == [pc |-> "idle"]
Loops == {"trim_user_budget", "make_room", "admit", "trim_to_cap", "done"}

Init ==
    /\ queues = <<>>
    /\ order = <<>>
    /\ bytes = [k \in Kind |-> 0]
    /\ call = Idle
    /\ arrivals = 0

-----------------------------------------------------------------------------
(* Reading the state.                                                      *)

Tracked == DOMAIN queues

\* q.bytes(kind), 0 for a user with no entry.
Held(u, k) == IF u \in Tracked THEN queues[u].bytes[k] ELSE 0

\* Mutated form of PositionsOf: the oldest message of any kind is dropped.
PositionsOf_AnyKind(u, k) == IF u \in Tracked THEN DOMAIN queues[u].messages ELSE {}

\* Positions of u's messages of kind k.
PositionsOf(u, k) ==
    IF u \in Tracked
    THEN {i \in DOMAIN queues[u].messages : queues[u].messages[i].kind = k}
    ELSE {}

\* The position drop_oldest_of takes.
IsOldestOf(u, k, i) ==
    /\ i \in PositionsOf(u, k)
    /\ \A j \in PositionsOf(u, k) : i <= j

\* The answers largest_holder may give: max_by_key over a hash map leaves open
\* which of several equal holders it returns.
LargestHolders(k) ==
    {u \in Tracked : Held(u, k) > 0 /\ \A v \in Tracked : Held(v, k) <= Held(u, k)}

-----------------------------------------------------------------------------
(* The single removal path.                                                *)

\* Mutated form of Without: a reaped or drained user stays listed.
Without_Kept(s, u) == s

\* order.retain(|v| v # u).  OrderTracksQueues: u is there at most once.
Without(s, u) == RemoveFirst(s, u)

\* charge and credit, of a user's counters or of the aggregate ones.
Charge(b, m) == [b EXCEPT ![m.kind] = @ + m.bytes]
Credit(b, m) == [b EXCEPT ![m.kind] = @ - m.bytes]

\* remove_at: credit both counters, reap the entry with its last message.
RemoveMessage(u, i) ==
    LET m == queues[u].messages[i]
        left == RemoveAt(queues[u].messages, i)
    IN  /\ bytes' = Credit(bytes, m)
        /\ IF left = <<>>
           THEN /\ queues' = [v \in Tracked \ {u} |-> queues[v]]
                /\ order' = Without(order, u)
           ELSE /\ queues' = [queues EXCEPT ![u] =
                        [messages |-> left, bytes |-> Credit(queues[u].bytes, m)]]
                /\ UNCHANGED order

\* drop_oldest_of, for a caller that has found such a message.
DropOldestOf(u, k) == \E i \in PositionsOf(u, k) : IsOldestOf(u, k, i) /\ RemoveMessage(u, i)

-----------------------------------------------------------------------------
(* enqueue, one loop iteration per step.                                   *)

Fits(m) == m.bytes <= PerUser[m.kind] /\ m.bytes <= Budget[m.kind]

Offered(k, b) == [id |-> arrivals, kind |-> k, bytes |-> b]

\* Over its own kind's cap or budget: refused before anything is touched.
EnqueueRefused(u, k, b) ==
    /\ call = Idle
    /\ arrivals < MaxMessages
    /\ ~Fits(Offered(k, b))
    /\ arrivals' = arrivals + 1
    /\ UNCHANGED <<queues, order, bytes, call>>

\* `call` holds enqueue's locals; `before` is auxiliary, the queues as found.
EnqueueStart(u, k, b) ==
    /\ call = Idle
    /\ arrivals < MaxMessages
    /\ Fits(Offered(k, b))
    /\ call' = [pc |-> "trim_user_budget", user |-> u, msg |-> Offered(k, b),
                displaced |-> 0, trimmed |-> 0, evicted |-> {}, before |-> queues]
    /\ arrivals' = arrivals + 1
    /\ UNCHANGED <<queues, order, bytes>>

OverUserBudget == Held(call.user, call.msg.kind) + call.msg.bytes > PerUser[call.msg.kind]
OverBudget == bytes[call.msg.kind] + call.msg.bytes > Budget[call.msg.kind]

\* An iteration of trim_user_budget: the recipient gives up its own oldest.
TrimUserBudget ==
    /\ call.pc = "trim_user_budget"
    /\ OverUserBudget
    /\ DropOldestOf(call.user, call.msg.kind)
    /\ call' = [call EXCEPT !.displaced = @ + 1]
    /\ UNCHANGED arrivals

\* Its exit: the message fits, or there is nothing to drop.
UserBudgetTrimmed ==
    /\ call.pc = "trim_user_budget"
    /\ OverUserBudget => PositionsOf(call.user, call.msg.kind) = {}
    /\ call' = [call EXCEPT !.pc = "make_room"]
    /\ UNCHANGED <<queues, order, bytes, arrivals>>

\* Mutated form of MakeRoom: only the recipient's own messages may make room, so
\* the loop spins once it has none.
MakeRoom_Own ==
    /\ call.pc = "make_room"
    /\ OverBudget
    /\ DropOldestOf(call.user, call.msg.kind)
    /\ call' = [call EXCEPT !.displaced = @ + 1]
    /\ UNCHANGED arrivals

\* An iteration of make_room: a largest holder of the kind loses its oldest.
MakeRoom ==
    /\ call.pc = "make_room"
    /\ OverBudget
    /\ \E victim \in LargestHolders(call.msg.kind) : DropOldestOf(victim, call.msg.kind)
    /\ call' = [call EXCEPT !.displaced = @ + 1]
    /\ UNCHANGED arrivals

RoomMade ==
    /\ call.pc = "make_room"
    /\ OverBudget =>
          \/ LargestHolders(call.msg.kind) = {}
          \/ \E v \in LargestHolders(call.msg.kind) : PositionsOf(v, call.msg.kind) = {}
    /\ call' = [call EXCEPT !.pc = "admit"]
    /\ UNCHANGED <<queues, order, bytes, arrivals>>

\* evict_if_full pops order until it meets a user that has a queue.
IsEvicted(u, i) ==
    /\ i \in DOMAIN order
    /\ u = order[i]
    /\ u \in Tracked
    /\ \A j \in 1..(i - 1) : order[j] \notin Tracked

\* Mutated form of AdmitTo: only the aggregate counters are charged.
AdmitTo_ChargedOnce(q, o, b, evicted) ==
    LET u == call.user
        m == call.msg
        new == u \notin DOMAIN q
        old == IF new THEN [messages |-> <<>>, bytes |-> [k \in Kind |-> 0]] ELSE q[u]
    IN  /\ queues' = [v \in DOMAIN q \cup {u} |->
                        IF v = u
                        THEN [messages |-> Append(old.messages, m), bytes |-> old.bytes]
                        ELSE q[v]]
        /\ order' = IF new THEN Append(o, u) ELSE o
        /\ bytes' = Charge(b, m)
        /\ call' = [call EXCEPT !.pc = "trim_to_cap", !.evicted = evicted]
        /\ UNCHANGED arrivals

\* queues, order, bytes and the eviction verdict after the admission of call.msg
\* to the state q, o, b.
AdmitTo(q, o, b, evicted) ==
    LET u == call.user
        m == call.msg
        new == u \notin DOMAIN q
        old == IF new THEN [messages |-> <<>>, bytes |-> [k \in Kind |-> 0]] ELSE q[u]
    IN  /\ queues' = [v \in DOMAIN q \cup {u} |->
                        IF v = u
                        THEN [messages |-> Append(old.messages, m),
                              bytes |-> Charge(old.bytes, m)]
                        ELSE q[v]]
        /\ order' = IF new THEN Append(o, u) ELSE o
        /\ bytes' = Charge(b, m)
        /\ call' = [call EXCEPT !.pc = "trim_to_cap", !.evicted = evicted]
        /\ UNCHANGED arrivals

\* Mutated form of MustEvict: evicts one user too late.
MustEvict_Late == call.user \notin Tracked /\ Cardinality(Tracked) > MaxUsers

MustEvict == call.user \notin Tracked /\ Cardinality(Tracked) >= MaxUsers

Admit ==
    /\ call.pc = "admit"
    /\ ~MustEvict
    /\ AdmitTo(queues, order, bytes, {})

\* A new user at capacity: the least recently inserted user goes, queue and all.
AdmitEvicting ==
    /\ call.pc = "admit"
    /\ MustEvict
    /\ \E i \in DOMAIN order :
          /\ IsEvicted(order[i], i)
          /\ AdmitTo([v \in Tracked \ {order[i]} |-> queues[v]],
                     SubSeq(order, i + 1, Len(order)),
                     [k \in Kind |-> bytes[k] - queues[order[i]].bytes[k]],
                     {order[i]})

\* An iteration of trim_to_cap: the recipient's oldest message, of any kind.
TrimToCap ==
    /\ call.pc = "trim_to_cap"
    /\ Len(queues[call.user].messages) > MaxPerUser
    /\ RemoveMessage(call.user, 1)
    /\ call' = [call EXCEPT !.trimmed = @ + 1]
    /\ UNCHANGED arrivals

CapTrimmed ==
    /\ call.pc = "trim_to_cap"
    /\ Len(queues[call.user].messages) <= MaxPerUser
    /\ call' = [call EXCEPT !.pc = "done"]
    /\ UNCHANGED <<queues, order, bytes, arrivals>>

\* drop(inner) and the EnqueueOutcome.
EnqueueReturn ==
    /\ call.pc = "done"
    /\ call' = Idle
    /\ UNCHANGED <<queues, order, bytes, arrivals>>

EnqueueStep ==
    \/ TrimUserBudget \/ UserBudgetTrimmed
    \/ MakeRoom \/ RoomMade
    \/ Admit \/ AdmitEvicting
    \/ TrimToCap \/ CapTrimmed
    \/ EnqueueReturn

-----------------------------------------------------------------------------
\* Mutated form of Drain: the aggregate counters are not credited.
Drain_Uncredited(u) ==
    /\ call = Idle
    /\ queues' = [v \in Tracked \ {u} |-> queues[v]]
    /\ order' = Without(order, u)
    /\ UNCHANGED <<bytes, call, arrivals>>

\* drain removes the user's whole queue and returns it in order.
Drain(u) ==
    /\ call = Idle
    /\ queues' = [v \in Tracked \ {u} |-> queues[v]]
    /\ bytes' = [k \in Kind |-> bytes[k] - Held(u, k)]
    /\ order' = Without(order, u)
    /\ UNCHANGED <<call, arrivals>>

Next ==
    \/ \E u \in User, k \in Kind, b \in Size :
          EnqueueRefused(u, k, b) \/ EnqueueStart(u, k, b)
    \/ EnqueueStep
    \/ \E u \in User : Drain(u)

Spec == Init /\ [][Next]_vars

\* A task that holds the lock runs on: nothing in the loops awaits.
FairSpec == Spec /\ WF_vars(EnqueueStep)
-----------------------------------------------------------------------------
(* Properties.                                                             *)

IsQueueMap(q) == DOMAIN q \subseteq User /\ q \in [DOMAIN q -> UserQueue]

IsCall(c) ==
    /\ c \in [pc : Loops, user : User, msg : Message, displaced : Nat,
              trimmed : Nat, evicted : SUBSET User, before : {c.before}]
    /\ IsQueueMap(c.before)

\* storage.rs:134-138, 177-181: every variable has its type; the counters, unsigned
\* in the code and lowered without a check, never wrap.
TypeOK ==
    /\ IsQueueMap(queues)
    /\ order \in Seq(User)
    /\ bytes \in [Kind -> Nat]
    /\ call # Idle => IsCall(call)
    /\ arrivals \in Nat

\* storage.rs:148-150, 185-188: the order list names every tracked user exactly
\* once and nobody else, and a user whose last message went is no longer
\* tracked; through every loop iteration and removal path.
OrderTracksQueues ==
    /\ \A i, j \in DOMAIN order : order[i] = order[j] => i = j
    /\ {order[i] : i \in DOMAIN order} = Tracked
    /\ \A u \in Tracked : queues[u].messages # <<>>

SumOf(messages, k) ==
    FoldSeq(LAMBDA m, t : t + (IF m.kind = k THEN m.bytes ELSE 0), 0, messages)

\* The running counters, which no code recomputes, are what a scan would find:
\* per user over its messages, in total over the users.
CountersExact ==
    \A k \in Kind :
        /\ \A u \in Tracked : queues[u].bytes[k] = SumOf(queues[u].messages, k)
        /\ bytes[k] = SumFunction([u \in Tracked |-> queues[u].bytes[k]])

\* The byte ceilings hold at every step: the loops' early exits never leave
\* them without the room the admission then uses.
ByteCeilings ==
    \A k \in Kind :
        /\ bytes[k] <= Budget[k]
        /\ \A u \in Tracked : queues[u].bytes[k] <= PerUser[k]

\* The count caps: at most max_users queues at every step, and whenever the lock
\* is free at most max_per_user messages in each.
CountCaps ==
    /\ Cardinality(Tracked) <= MaxUsers
    /\ \A u \in Tracked :
          Len(queues[u].messages) <=
              IF call # Idle /\ u = call.user /\ call.pc = "trim_to_cap"
              THEN MaxPerUser + 1 ELSE MaxPerUser

\* Messages u had when the lock was taken and has no longer.
LostBy(u) ==
    LET had == IF u \in DOMAIN call.before THEN ToSet(call.before[u].messages) ELSE {}
        has == IF u \in Tracked THEN ToSet(queues[u].messages) ELSE {}
    IN  had \ has

\* storage.rs:457-466: the outcome accounts for every message an enqueue cost.
\* Outside an evicted user's queue nothing goes that displaced and trimmed do
\* not count, they count nothing that is still queued, and the message itself is
\* queued for its recipient.
EveryDropReported ==
    call.pc = "done" =>
        LET lost == UNION {LostBy(u) : u \in User}
            elsewhere == UNION {LostBy(u) : u \in User \ call.evicted}
            reported == call.displaced + call.trimmed
        IN  /\ Cardinality(elsewhere) <= reported
            /\ reported <= Cardinality(lost)
            /\ call.evicted # {} => \A v \in call.evicted : v \notin Tracked
            /\ Last(queues[call.user].messages) = call.msg

\* storage.rs:31-34: byte pressure takes from the biggest consumer, so a bystander
\* that lost bytes held at the start at least what any other user is left with
\* (the recipient's new message set aside).
ModestQueueSpared ==
    call.pc = "done" =>
        LET k == call.msg.kind
            Left(v) == Held(v, k) - (IF v = call.user THEN call.msg.bytes ELSE 0)
        IN  \A u \in User \ ({call.user} \cup call.evicted) :
               LostBy(u) # {} =>
                  \A v \in User : Left(v) <= call.before[u].bytes[k]

\* The byte budget in all: the counters are right, the ceilings hold, the biggest
\* holders pay, and the outcome says what was paid.
BudgetHolds == CountersExact /\ ByteCeilings /\ ModestQueueSpared /\ EveryDropReported

\* The loops end: an enqueue that took the lock gives it back.
LockReleased == (call # Idle) ~> (call = Idle)

-----------------------------------------------------------------------------
(* The queue implements the store the router relies on: what the lock's      *)
(* next holder will see is, until enqueue returns, what its holder found.    *)
Committed == IF call = Idle THEN queues ELSE call.before

Kept == [u \in User |-> IF u \in DOMAIN Committed THEN Committed[u].messages ELSE <<>>]

Store == INSTANCE OfflineStore WITH store <- Kept

\* Every enqueue and drain is one step of OfflineStore: arrivals stay in order,
\* the other kind is never dropped for bytes, all limits hold when it is done.
ImplementsStore == Store!StoreSpec
=============================================================================
