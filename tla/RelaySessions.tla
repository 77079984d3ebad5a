--------------------------- MODULE RelaySessions ---------------------------
(***************************************************************************)
(* Sessions and delivery in the relay: connections that identify, take a   *)
(* user over from one another, subscribe, publish and tear down            *)
(* (crates/collab-relay/src/relay.rs) around the router's three maps       *)
(* (routing.rs).  This is the relay with subscribe authorization off, as   *)
(* RelayServer::new makes it; SubscribeAuthz models the authorization.     *)
(*                                                                         *)
(* A connection handles one frame at a time; a handler is cut where it     *)
(* releases a lock or awaits, and `task` holds the locals it carries       *)
(* across.  Every lock of the code is per map.  The clients lock is held   *)
(* for reading through fan_out, here one subscriber per step, so the steps *)
(* that write `clients` wait for it.                                       *)
(***************************************************************************)
EXTENDS Naturals, SequencesExt

CONSTANTS
    User,            \* user ids
    Doc,             \* document ids
    NoUser,          \* a connection that has not identified
    MaxConn,         \* bound on the connections a behaviour makes
    MaxConnections,  \* max_connections, at any one time
    Capacity,        \* CHANNEL_CAPACITY
    MaxDocuments,    \* max_documents
    MaxSubscribers,  \* max_subscribers_per_doc
    QueueBudget,     \* the offline queue's budget, in messages of one size
    MaxPerUser,      \* max_per_user
    MaxUsers,        \* max_users
    MaxMessages,     \* bound on the messages a behaviour publishes
    Reidentify       \* whether clients identify twice on one connection

ASSUME SessionsAssumption ==
    /\ NoUser \notin User
    /\ {MaxConn, MaxConnections, MaxDocuments, MaxMessages} \subseteq Nat
    /\ {Capacity, MaxSubscribers, QueueBudget, MaxPerUser, MaxUsers} \subseteq Nat \ {0}
    /\ Reidentify \in BOOLEAN

VARIABLES
    subs,      \* subscriptions: the subscribers of each tracked document
    clients,   \* clients: the connection of each registered user's handle
    offline,   \* the offline queue, a function on the users it tracks
    order,     \* its insertion order
    conn,      \* each connection: phase, user_id, close signal, channel, writer
    task,      \* the handler in progress on each connection
    sent,      \* auxiliary: how many messages have been published
    received,  \* auxiliary: what each user's clients have read, in order
    addressed, \* auxiliary: whom each message was to reach
    lost       \* auxiliary: what was dropped, and where

vars == <<subs, clients, offline, order, conn, task, sent, received, addressed, lost>>
history == <<sent, received, addressed, lost>>

Conn == 1..MaxConn

Idle == [pc |-> "idle"]
Replying == [pc |-> "reply"]
Identified == [control |-> "Identified"]
Reply == [control |-> "Reply"]
SessionReplaced == [control |-> "SessionReplaced"]

Fresh == [phase |-> "new", uid |-> NoUser, signal |-> FALSE, out |-> <<>>, writer |-> FALSE]

Init ==
    /\ subs = <<>>
    /\ clients = <<>>
    /\ offline = <<>>
    /\ order = <<>>
    /\ conn = [c \in Conn |-> Fresh]
    /\ task = [c \in Conn |-> Idle]
    /\ sent = 0
    /\ received = [u \in User |-> <<>>]
    /\ addressed = {}
    /\ lost = {}

-----------------------------------------------------------------------------
(* Reading the state.                                                      *)

Registered(u, c) == u \in DOMAIN clients /\ clients[u] = c

Dropping(f, S) == Restrict(f, DOMAIN f \ S)

\* Between two frames, in the select! of handle_connection.
AtSelect(c) == conn[c].phase = "open" /\ task[c] = Idle

IsIdentified(c) == AtSelect(c) /\ conn[c].uid # NoUser

\* fan_out holds the clients lock for reading from its first subscriber on.
ClientsReadLocked == \E c \in Conn : task[c].pc = "fan_out"

HasRoom(k) == k.writer /\ Len(k.out) < Capacity

\* send_msg waits for room, unless the channel is closed.
CanSend(c) == HasRoom(conn[c]) \/ ~conn[c].writer

\* try_send, on the channel of a connection.
Pushed(k, frame) == IF HasRoom(k) THEN [k EXCEPT !.out = Append(@, frame)] ELSE k

\* signal_close on u's handle.  Each Identify makes a handle and its own Notify,
\* and a connection waits on the last one: an older handle signals nobody.
Signalled(k, u) == [k EXCEPT !.signal = @ \/ k.uid = u]

\* A routed message in a channel; replayed if it was drained from the queue.
Frame(u, m, replayed) == [to |-> u, msg |-> m, replayed |-> replayed]

IsMessage(f) == "msg" \in DOMAIN f

\* What goes with a channel when its receiver does.
LostWith(k) ==
    {[to |-> f.to, id |-> f.msg.id, where |-> IF f.replayed THEN "replay" ELSE "channel"] :
        f \in {g \in ToSet(k.out) : IsMessage(g)}}

-----------------------------------------------------------------------------
(* Connections.                                                            *)

\* run_accept_loop and the id from conn_counter.
Accept(c) ==
    /\ conn[c].phase = "new"
    /\ \A k \in 1..(c - 1) : conn[k].phase # "new"
    /\ Cardinality({k \in Conn : conn[k].phase \in {"open", "closing"}}) < MaxConnections
    /\ conn' = [conn EXCEPT ![c].phase = "open", ![c].writer = TRUE]
    /\ UNCHANGED <<subs, clients, offline, order, task, history>>

\* The peer closed, the read failed, or the server is shutting down.
ReadEnds(c) ==
    /\ AtSelect(c)
    /\ conn' = [conn EXCEPT ![c].phase = "closing"]
    /\ UNCHANGED <<subs, clients, offline, order, task, history>>

\* wait_for_close resolves: its Notify has a permit.
CloseResolves(c) == conn[c].signal

\* The permit is taken.
CloseSignalled(c) ==
    /\ AtSelect(c)
    /\ CloseResolves(c)
    /\ conn' = [conn EXCEPT ![c].phase = "closing", ![c].signal = FALSE]
    /\ UNCHANGED <<subs, clients, offline, order, task, history>>

\* Mutated form of Cleanup: the user is unregistered whoever holds its session.
Cleanup_Blind(c) ==
    /\ conn[c].phase = "closing"
    /\ ~ClientsReadLocked
    /\ clients' = Dropping(clients, {conn[c].uid})
    /\ conn' = [conn EXCEPT ![c] = [Fresh EXCEPT !.phase = "gone", !.uid = conn[c].uid]]
    /\ lost' = lost \cup LostWith(conn[c])
    /\ UNCHANGED <<subs, offline, order, task, sent, received, addressed>>

\* unregister_client, which compares and removes, then the writer is aborted.
Cleanup(c) ==
    /\ conn[c].phase = "closing"
    /\ ~ClientsReadLocked
    /\ clients' = IF Registered(conn[c].uid, c) THEN Dropping(clients, {conn[c].uid}) ELSE clients
    /\ conn' = [conn EXCEPT ![c] = [Fresh EXCEPT !.phase = "gone", !.uid = conn[c].uid]]
    /\ lost' = lost \cup LostWith(conn[c])
    /\ UNCHANGED <<subs, offline, order, task, sent, received, addressed>>

\* forward_messages_to_websocket: the head of the channel goes to the peer.
Write(c) ==
    /\ conn[c].writer
    /\ conn[c].out # <<>>
    /\ LET f == Head(conn[c].out)
       IN  received' = IF IsMessage(f) THEN [received EXCEPT ![f.to] = Append(@, f.msg)]
                                       ELSE received
    /\ conn' = [conn EXCEPT ![c].out = Tail(@)]
    /\ UNCHANGED <<subs, clients, offline, order, task, sent, addressed, lost>>

\* The write fails: the task ends, and with it the channel's receiver.
WriteFails(c) ==
    /\ conn[c].writer
    /\ conn[c].out # <<>>
    /\ conn' = [conn EXCEPT ![c].out = <<>>, ![c].writer = FALSE]
    /\ lost' = lost \cup LostWith(conn[c])
    /\ UNCHANGED <<subs, clients, offline, order, task, sent, received, addressed>>

-----------------------------------------------------------------------------
(* Identify: register, greet, drain, replay.                               *)

\* register_client: an older connection is told, signalled and replaced, and
\* session_close and user_id are set.  Takeover is always allowed here.
Identify(c, u) ==
    /\ AtSelect(c)
    /\ ~ClientsReadLocked
    /\ conn[c].uid # NoUser => Reidentify
    /\ clients' = [v \in DOMAIN clients \cup {u} |-> IF v = u THEN c ELSE clients[v]]
    /\ conn' = [k \in Conn |->
          CASE k = c -> [conn[c] EXCEPT !.uid = u, !.signal = FALSE]
            [] k # c /\ Registered(u, k) -> Signalled(Pushed(conn[k], SessionReplaced), u)
            [] OTHER -> conn[k]]
    /\ task' = [task EXCEPT ![c] = [pc |-> "greet"]]
    /\ UNCHANGED <<subs, offline, order, history>>

\* On a closed channel send_msg drops the frame.
Greet(c) ==
    /\ task[c].pc = "greet"
    /\ CanSend(c)
    /\ conn' = [conn EXCEPT ![c] = Pushed(@, Identified)]
    /\ task' = [task EXCEPT ![c] = [pc |-> "drain"]]
    /\ UNCHANGED <<subs, clients, offline, order, history>>

\* Mutated form of Drain: a drained user stays in the insertion order.
Drain_Listed(c) ==
    /\ task[c].pc = "drain"
    /\ LET u == conn[c].uid
       IN  IF u \in DOMAIN offline
           THEN /\ task' = [task EXCEPT ![c] = [pc |-> "replay", rest |-> offline[u]]]
                /\ offline' = Dropping(offline, {u})
           ELSE task' = [task EXCEPT ![c] = Idle] /\ UNCHANGED offline
    /\ UNCHANGED <<subs, clients, order, conn, history>>

\* drain_offline, under the queue's own lock.
Drain(c) ==
    /\ task[c].pc = "drain"
    /\ LET u == conn[c].uid
       IN  IF u \in DOMAIN offline
           THEN /\ task' = [task EXCEPT ![c] = [pc |-> "replay", rest |-> offline[u]]]
                /\ offline' = Dropping(offline, {u})
                /\ order' = RemoveFirst(order, u)
           ELSE task' = [task EXCEPT ![c] = Idle] /\ UNCHANGED <<offline, order>>
    /\ UNCHANGED <<subs, clients, conn, history>>

\* Mutated form of Replay: the send waits for room even if nobody will make any.
Replay_Blocking(c) ==
    /\ task[c].pc = "replay"
    /\ HasRoom(conn[c])
    /\ LET m == Head(task[c].rest)
           rest == Tail(task[c].rest)
       IN  /\ task' = [task EXCEPT ![c] =
                          IF rest = <<>> THEN Idle ELSE [pc |-> "replay", rest |-> rest]]
           /\ conn' = [conn EXCEPT ![c] = Pushed(@, Frame(conn[c].uid, m, TRUE))]
    /\ UNCHANGED <<subs, clients, offline, order, history>>

\* One drained message is sent on, or dropped if the channel is closed.
Replay(c) ==
    /\ task[c].pc = "replay"
    /\ CanSend(c)
    /\ LET m == Head(task[c].rest)
           rest == Tail(task[c].rest)
           u == conn[c].uid
       IN  /\ task' = [task EXCEPT ![c] =
                          IF rest = <<>> THEN Idle ELSE [pc |-> "replay", rest |-> rest]]
           /\ conn' = [conn EXCEPT ![c] = Pushed(@, Frame(u, m, TRUE))]
           /\ lost' = IF conn[c].writer THEN lost
                      ELSE lost \cup {[to |-> u, id |-> m.id, where |-> "replay"]}
    /\ UNCHANGED <<subs, clients, offline, order, sent, received, addressed>>

-----------------------------------------------------------------------------
(* Subscriptions.  They outlive the connection that made them.             *)

Subscribe(c, d) ==
    /\ IsIdentified(c)
    /\ d \notin DOMAIN subs => Cardinality(DOMAIN subs) < MaxDocuments
    /\ LET members == IF d \in DOMAIN subs THEN subs[d] ELSE {}
       IN  /\ conn[c].uid \notin members => Cardinality(members) < MaxSubscribers
           /\ subs' = [e \in DOMAIN subs \cup {d} |->
                          IF e = d THEN members \cup {conn[c].uid} ELSE subs[e]]
    /\ task' = [task EXCEPT ![c] = Replying]
    /\ UNCHANGED <<clients, offline, order, conn, history>>

\* Mutated form of Pruned: emptied documents stay.
Pruned_Never(s) == s

\* A document goes with its last subscriber.
Pruned(s) == Dropping(s, {d \in DOMAIN s : s[d] = {}})

Unsubscribe(c, d) ==
    /\ IsIdentified(c)
    /\ d \in DOMAIN subs
    /\ subs' = Pruned([subs EXCEPT ![d] = @ \ {conn[c].uid}])
    /\ task' = [task EXCEPT ![c] = Replying]
    /\ UNCHANGED <<clients, offline, order, conn, history>>

\* A frame that changes nothing is answered all the same: a cap is reached, the
\* document is not one the user subscribes to, the sender has not identified.
Refuse(c) ==
    /\ AtSelect(c)
    /\ task' = [task EXCEPT ![c] = Replying]
    /\ UNCHANGED <<subs, clients, offline, order, conn, history>>

\* The reply, through the caller's own channel.
SendReply(c) ==
    /\ task[c].pc = "reply"
    /\ CanSend(c)
    /\ conn' = [conn EXCEPT ![c] = Pushed(@, Reply)]
    /\ task' = [task EXCEPT ![c] = Idle]
    /\ UNCHANGED <<subs, clients, offline, order, history>>

-----------------------------------------------------------------------------
(* route_message: recipients, fan_out, disconnect_slow, enqueue each, drop.  *)

\* The rest of a route once its fan-out is over: slow consumers first, then the
\* queueing, then the subscriptions of whom the queue evicted.
Onward(t) ==
    CASE t.to # {} -> [t EXCEPT !.pc = "fan_out"]
      [] t.to = {} /\ t.slow # {} -> [t EXCEPT !.pc = "disconnect_slow"]
      [] t.to = {} /\ t.slow = {} /\ t.away # {} -> [t EXCEPT !.pc = "enqueue"]
      [] OTHER -> Idle

\* handle_yrs_update and handle_mls_handshake, to the snapshot that recipients
\* takes.  A message with no recipient changes nothing.
Publish(c, d) ==
    /\ IsIdentified(c)
    /\ sent < MaxMessages
    /\ d \in DOMAIN subs
    /\ LET to == subs[d] \ {conn[c].uid}
           m == [id |-> sent, from |-> conn[c].uid, via |-> c]
       IN  /\ to # {}
           /\ task' = [task EXCEPT ![c] = [pc |-> "route", msg |-> m, to |-> to,
                                           slow |-> {}, away |-> {}, evicted |-> {}]]
           /\ addressed' = addressed \cup {[to |-> u, id |-> sent] : u \in to}
    /\ sent' = sent + 1
    /\ UNCHANGED <<subs, clients, offline, order, conn, received, lost>>

\* fan_out, one subscriber: a session with room gets the message, ...
FanOutSent(c, u) ==
    /\ task[c].pc \in {"route", "fan_out"}
    /\ u \in task[c].to \cap DOMAIN clients
    /\ HasRoom(conn[clients[u]])
    /\ conn' = [conn EXCEPT ![clients[u]] = Pushed(@, Frame(u, task[c].msg, FALSE))]
    /\ task' = [task EXCEPT ![c] = Onward([task[c] EXCEPT !.to = @ \ {u}])]
    /\ UNCHANGED <<subs, clients, offline, order, history>>

\* Mutated form of FanOutSlow: who is too slow is not queued for.
FanOutSlow_Unqueued(c, u) ==
    /\ task[c].pc \in {"route", "fan_out"}
    /\ u \in task[c].to \cap DOMAIN clients
    /\ ~HasRoom(conn[clients[u]])
    /\ task' = [task EXCEPT ![c] = Onward([task[c] EXCEPT !.to = @ \ {u}])]
    /\ UNCHANGED <<subs, clients, offline, order, conn, history>>

\* ... one that is full or closed is remembered with its connection, ...
FanOutSlow(c, u) ==
    /\ task[c].pc \in {"route", "fan_out"}
    /\ u \in task[c].to \cap DOMAIN clients
    /\ ~HasRoom(conn[clients[u]])
    /\ task' = [task EXCEPT ![c] =
          Onward([task[c] EXCEPT !.to = @ \ {u}, !.slow = @ \cup {<<u, clients[u]>>}])]
    /\ UNCHANGED <<subs, clients, offline, order, conn, history>>

\* ... and a user without a session is away.
FanOutAway(c, u) ==
    /\ task[c].pc \in {"route", "fan_out"}
    /\ u \in task[c].to \ DOMAIN clients
    /\ task' = [task EXCEPT ![c] = Onward([task[c] EXCEPT !.to = @ \ {u}, !.away = @ \cup {u}])]
    /\ UNCHANGED <<subs, clients, offline, order, conn, history>>

\* Mutated form of DisconnectSlow: the session is dropped but not told to close.
DisconnectSlow_Unsignalled(c) ==
    /\ task[c].pc = "disconnect_slow"
    /\ ~ClientsReadLocked
    /\ clients' = Dropping(clients, {s[1] : s \in {t \in task[c].slow : Registered(t[1], t[2])}})
    /\ task' = [task EXCEPT ![c].pc = "enqueue"]
    /\ UNCHANGED <<subs, offline, order, conn, history>>

\* disconnect_slow: compare, remove, signal.
DisconnectSlow(c) ==
    /\ task[c].pc = "disconnect_slow"
    /\ ~ClientsReadLocked
    /\ LET found == {s \in task[c].slow : Registered(s[1], s[2])}
       IN  /\ clients' = Dropping(clients, {s[1] : s \in found})
           /\ conn' = [k \in Conn |->
                 IF <<conn[k].uid, k>> \in found THEN Signalled(conn[k], conn[k].uid) ELSE conn[k]]
    /\ task' = [task EXCEPT ![c].pc = "enqueue"]
    /\ UNCHANGED <<subs, offline, order, history>>

\* OfflineQueue::enqueue for messages of one size, with OfflineQueue's own order
\* of dropping: a largest holder's oldest, then a whole queue, then u's oldest.
\* q and o are the queues and their insertion order.
Largest(q) == {v \in DOMAIN q : \A w \in DOMAIN q : Len(q[w]) <= Len(q[v])}

IsFull(q) == SumFunction([v \in DOMAIN q |-> Len(q[v])]) >= QueueBudget

MinusOldest(q, v) ==
    IF Len(q[v]) = 1 THEN Dropping(q, {v}) ELSE [q EXCEPT ![v] = Tail(@)]

\* Inner::remove_at keeps the insertion order in step with the queues.
WithRoom(q, o) ==
    IF IsFull(q)
    THEN {<<MinusOldest(q, v), IF Len(q[v]) = 1 THEN RemoveFirst(o, v) ELSE o>> : v \in Largest(q)}
    ELSE {<<q, o>>}

\* Mutated form of Evictee: one user more is tracked than the cap allows.
Evictee_Late(q, listed, u) ==
    IF u \notin DOMAIN q /\ Cardinality(DOMAIN q) > MaxUsers THEN {Head(listed)} ELSE {}

\* evict_if_full, for a user the queue does not track yet.
Evictee(q, listed, u) ==
    IF u \notin DOMAIN q /\ Cardinality(DOMAIN q) >= MaxUsers THEN {Head(listed)} ELSE {}

Admitted(q, u, m) ==
    LET s == IF u \in DOMAIN q THEN Append(q[u], m) ELSE <<m>>
    IN  [v \in DOMAIN q \cup {u} |->
            IF v # u THEN q[v] ELSE IF Len(s) > MaxPerUser THEN Tail(s) ELSE s]

LostFromQueue(v) ==
    {[to |-> v, id |-> m.id, where |-> "queue"] :
        m \in ToSet(offline[v]) \
              (IF v \in DOMAIN offline' THEN ToSet(offline'[v]) ELSE {})}

\* The message of route c is queued for u: those away first, then the slow.
Enqueue(c, u) ==
    /\ task[c].pc = "enqueue"
    /\ IF task[c].away # {} THEN u \in task[c].away ELSE u \in {s[1] : s \in task[c].slow}
    /\ \E room \in WithRoom(offline, order) :
          LET q == room[1]
              listed == room[2]
              evicted == Evictee(q, listed, u)
              left == [task[c] EXCEPT !.away = @ \ {u},
                                      !.slow = {s \in @ : s[1] # u},
                                      !.evicted = @ \cup evicted]
          IN  /\ offline' = Admitted(Dropping(q, evicted), u, task[c].msg)
              /\ order' = (IF evicted = {} THEN listed ELSE Tail(listed))
                             \o (IF u \in DOMAIN q THEN <<>> ELSE <<u>>)
              /\ task' = [task EXCEPT ![c] =
                    CASE left.away \cup left.slow # {} -> left
                      [] left.away \cup left.slow = {} /\ left.evicted # {} ->
                            [left EXCEPT !.pc = "drop_subscriptions"]
                      [] OTHER -> Idle]
    /\ lost' = lost \cup UNION {LostFromQueue(v) : v \in DOMAIN offline}
    /\ UNCHANGED <<subs, clients, conn, sent, received, addressed>>

\* drop_subscriptions, for the users the queue evicted.
DropSubscriptions(c) ==
    /\ task[c].pc = "drop_subscriptions"
    /\ subs' = Pruned([d \in DOMAIN subs |-> subs[d] \ task[c].evicted])
    /\ task' = [task EXCEPT ![c] = Idle]
    /\ UNCHANGED <<clients, offline, order, conn, history>>

-----------------------------------------------------------------------------
HandlerStep(c) ==
    \/ Greet(c) \/ Drain(c) \/ Replay(c) \/ SendReply(c)
    \/ \E u \in User : FanOutSent(c, u) \/ FanOutSlow(c, u) \/ FanOutAway(c, u) \/ Enqueue(c, u)
    \/ DisconnectSlow(c) \/ DropSubscriptions(c)

WriterStep(c) == Write(c) \/ WriteFails(c)

Next ==
    \E c \in Conn :
        \/ Accept(c) \/ ReadEnds(c) \/ CloseSignalled(c) \/ Cleanup(c)
        \/ WriterStep(c) \/ Refuse(c)
        \/ \E u \in User : Identify(c, u)
        \/ \E d \in Doc : Subscribe(c, d) \/ Unsubscribe(c, d) \/ Publish(c, d)
        \/ HandlerStep(c)

Spec == Init /\ [][Next]_vars

\* The runtime runs every task that can run.  A writer need neither send its next
\* frame nor fail: there is no write timeout and no ping (routing.rs:244-246), and
\* a live peer may keep its window closed for as long as it likes.  A connection that
\* is back at its select! over and over sees the close signal: select! is not biased.
Fairness ==
    \A c \in Conn :
        /\ WF_vars(HandlerStep(c))
        /\ SF_vars(CloseSignalled(c))
        /\ WF_vars(Cleanup(c))

FairSpec == Spec /\ Fairness
-----------------------------------------------------------------------------
(* Properties.                                                             *)

Message == [id : Nat, from : User, via : Conn]

IsFrame(f) ==
    \/ f \in {Identified, Reply, SessionReplaced}
    \/ f \in [to : User, msg : Message, replayed : BOOLEAN]

IsTask(t) ==
    \/ t \in {Idle, Replying, [pc |-> "greet"], [pc |-> "drain"]}
    \/ t.pc = "replay" /\ t.rest # <<>> /\ t.rest \in Seq(Message)
    \/ t \in [pc : {"route", "fan_out", "disconnect_slow", "enqueue", "drop_subscriptions"},
              msg : Message, to : SUBSET User, slow : SUBSET (User \X Conn),
              away : SUBSET User, evicted : SUBSET User]

\* Every variable has its type; a connection works on a frame only while open.
TypeOK ==
    /\ DOMAIN subs \subseteq Doc /\ \A d \in DOMAIN subs : subs[d] \subseteq User
    /\ DOMAIN clients \subseteq User /\ \A u \in DOMAIN clients : clients[u] \in Conn
    /\ DOMAIN offline \subseteq User
    /\ \A u \in DOMAIN offline : offline[u] # <<>> /\ offline[u] \in Seq(Message)
    /\ order \in Seq(User) /\ ToSet(order) = DOMAIN offline /\ IsInjective(order)
    /\ \A c \in Conn :
          /\ conn[c].phase \in {"new", "open", "closing", "gone"}
          /\ conn[c].uid \in User \cup {NoUser}
          /\ conn[c].signal \in BOOLEAN
          /\ conn[c].writer \in BOOLEAN
          /\ Len(conn[c].out) <= Capacity
          /\ \A i \in DOMAIN conn[c].out : IsFrame(conn[c].out[i])
          /\ IsTask(task[c])
          /\ conn[c].phase # "open" => task[c] = Idle
    /\ sent \in Nat

\* relay.rs:10-13, routing.rs:279-281, 501-504: a user's registered session is removed
\* only by its own teardown or because a fan-out found that very connection too
\* slow; never by the teardown or the slowness of one it replaced.
NewerSessionSurvives ==
    [][\A u \in DOMAIN clients :
          u \notin DOMAIN clients' =>
             LET c == clients[u]
             IN  \/ conn[c].phase = "closing" /\ conn'[c].phase = "gone"
                 \/ \E k \in Conn : task[k].pc = "disconnect_slow" /\ <<u, c>> \in task[k].slow]_vars

\* An open connection whose user's session is another one's, or nobody's.
IsSuperseded(c) ==
    conn[c].phase = "open" /\ conn[c].uid # NoUser /\ ~Registered(conn[c].uid, c)

\* subscription caps, and no document is tracked for nobody: the document cap
\* counts documents that somebody subscribes to.
SubscriptionCaps ==
    /\ Cardinality(DOMAIN subs) <= MaxDocuments
    /\ \A d \in DOMAIN subs : subs[d] # {} /\ Cardinality(subs[d]) <= MaxSubscribers

\* Where message id is for u: with a route that has not dealt with u, in the
\* queue, with a replay, in a channel, read, or lost.
RoutesWith(u, id) ==
    {c \in Conn : "msg" \in DOMAIN task[c] /\ task[c].msg.id = id /\
        u \in task[c].to \cup task[c].away \cup {s[1] : s \in task[c].slow}}
QueuedAs(u, id) ==
    IF u \in DOMAIN offline THEN {i \in DOMAIN offline[u] : offline[u][i].id = id} ELSE {}
ReplaysOf(u, id) ==
    {c \in Conn : task[c].pc = "replay" /\ conn[c].uid = u /\
        \E i \in DOMAIN task[c].rest : task[c].rest[i].id = id}
FramesOf(u, id) ==
    UNION {{<<c, i>> : i \in {j \in DOMAIN conn[c].out :
        LET f == conn[c].out[j] IN IsMessage(f) /\ f.to = u /\ f.msg.id = id}} : c \in Conn}
ReadsOf(u, id) == {i \in DOMAIN received[u] : received[u][i].id = id}
LossesOf(u, id) == {l \in lost : l.to = u /\ l.id = id}

\* routing.rs:356-360: every message is at exactly one place for each subscriber
\* it was routed to.  Sent or queued, never both and never neither; a takeover,
\* a slow consumer or a drain neither copies nor forgets it.
ExactlyOnePlace ==
    \A a \in addressed :
        Cardinality(RoutesWith(a.to, a.id)) + Cardinality(QueuedAs(a.to, a.id))
        + Cardinality(ReplaysOf(a.to, a.id)) + Cardinality(FramesOf(a.to, a.id))
        + Cardinality(ReadsOf(a.to, a.id)) + Cardinality(LossesOf(a.to, a.id)) = 1

\* A handler waits for room in its own connection's channel, to greet, replay or
\* reply: its peer does not read, and has not gone.
AwaitsItsPeer(c) == task[c].pc \in {"greet", "replay", "reply"} /\ ~CanSend(c)

\* routing.rs:371-396: a handler finishes, whatever the others do and whichever peers
\* read or close, unless its own peer keeps it waiting for good: a slow consumer
\* holds up nobody else's frames, and no handler waits for another one's lock.
HandlersReturn == \A c \in Conn : <>[](task[c] # Idle) => <>[]AwaitsItsPeer(c)

\* routing.rs:216-222, 356-360: a connection that lost its session to a takeover or
\* to its own slowness does end, whatever handler it was in the middle of, unless
\* its client identifies on it again or its peer keeps that handler waiting for good,
\* outside the select! that would see the close signal (relay.rs:437-442).
SupersededCloses == \A c \in Conn : <>[]IsSuperseded(c) => <>[]AwaitsItsPeer(c)

\* The router's queue as OfflineStore sees it: messages of one kind and one byte.
Stored(m) == [id |-> m.id, kind |-> "content", bytes |-> 1]

Waiting ==
    [u \in User |-> IF u \in DOMAIN offline
                    THEN [i \in DOMAIN offline[u] |-> Stored(offline[u][i])]
                    ELSE <<>>]

\* The router's queue keeps the promises OfflineStore makes of OfflineQueue.
Store == INSTANCE OfflineStore WITH
    Kind <- {"content"},
    Budget <- [k \in {"content"} |-> QueueBudget],
    PerUser <- [k \in {"content"} |-> QueueBudget],
    store <- Waiting

\* Concurrent routes and drains see enqueue and drain as single steps of it.
QueueAsPromised == Store!StoreSpec

-----------------------------------------------------------------------------
(* What the repository says of the relay and it does not do.               *)

\* docs/protocol.md:250, "All queued messages sent on reconnection": once a user is
\* back, and every handler is done, nothing waits for it in the queue.
QueuedIsSent ==
    (\A c \in Conn : task[c] = Idle) => DOMAIN clients \cap DOMAIN offline = {}

=============================================================================
