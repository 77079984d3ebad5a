----------------------- MODULE RelaySessions_proofs -----------------------
(***************************************************************************)
(* Proofs about RelaySessions, for any users, connections and caps.        *)
(*                                                                         *)
(* Types gives every variable its shape: in a route no recipient is in two *)
(* of its three sets (RouteSound), the insertion order lists exactly the   *)
(* users with a queue, and message ids are below `sent`.  With it come the *)
(* subscription caps (CapsHold) and what a step may do to a session.       *)
(*                                                                         *)
(* Once is ExactlyOnePlace as an invariant of the steps: the six places of *)
(* a message, each a function of the variables it depends on, have one     *)
(* member between them.  Each step is shown to leave them alone, to        *)
(* renumber one, or to move a member from one to another.                  *)
(*                                                                         *)
(* QueueCaps and RoutesAddressed, with Once, are what the refinement of    *)
(* OfflineStore needs: room for what is admitted, and that it is new.  The *)
(* sums of queue lengths are those of OfflineQueue_proofs.                 *)
(***************************************************************************)
EXTENDS RelaySessions, SequenceTheorems, FiniteSetTheorems, TLAPS

RoutePc == {"route", "fan_out", "disconnect_slow", "enqueue", "drop_subscriptions"}

\* The messages of the first n ids, and what is built of them.
Issued(n) == [id : 0..(n - 1), from : User, via : Conn]

Control == {Identified, Reply, SessionReplaced}
Routed(n) == [to : User, msg : Issued(n), replayed : BOOLEAN]
FrameType(n) == Control \cup Routed(n)

Connection(n) ==
    [phase : {"new", "open", "closing", "gone"}, uid : User \cup {NoUser}, signal : BOOLEAN,
     out : Seq(FrameType(n)), writer : BOOLEAN]

ReplayTask(n) == [pc : {"replay"}, rest : Seq(Issued(n)) \ {<<>>}]
RouteTask(n) ==
    [pc : RoutePc, msg : Issued(n), to : SUBSET User, slow : SUBSET (User \X Conn),
     away : SUBSET User, evicted : SUBSET User]
TaskType(n) == {Idle, Replying, [pc |-> "greet"], [pc |-> "drain"]} \cup ReplayTask(n) \cup RouteTask(n)

\* A route has each recipient in one of its three sets, and is through with the
\* fan-out, and then with the queueing, before it goes on.
RouteSound(t) ==
    /\ t.to \cap t.away = {}
    /\ \A s \in t.slow : s[1] \notin t.to \cup t.away
    /\ t.pc \notin {"route", "fan_out"} => t.to = {}
    /\ t.pc = "drop_subscriptions" => t.away = {} /\ t.slow = {}

SubsTyped == DOMAIN subs \subseteq Doc /\ \A d \in DOMAIN subs : subs[d] \subseteq User
ClientsTyped == DOMAIN clients \subseteq User /\ \A u \in DOMAIN clients : clients[u] \in Conn
QueueTyped(n) ==
    /\ DOMAIN offline \subseteq User
    /\ \A u \in DOMAIN offline : offline[u] # <<>> /\ offline[u] \in Seq(Issued(n))
OrderTyped == order \in Seq(User) /\ ToSet(order) = DOMAIN offline /\ IsInjective(order)
ConnTyped(n) ==
    /\ conn \in [Conn -> Connection(n)]
    /\ \A c \in Conn : Len(conn[c].out) <= Capacity
TaskTyped(n) ==
    /\ task \in [Conn -> TaskType(n)]
    /\ \A c \in Conn : task[c].pc \in RoutePc => RouteSound(task[c])
LinkTyped ==
    \A c \in Conn :
        /\ conn[c].phase # "open" => task[c] = Idle
        /\ task[c].pc = "replay" => conn[c].uid \in User
HistoryTyped(n) ==
    /\ received \in [User -> Seq(Issued(n))]
    /\ addressed \subseteq [to : User, id : 0..(n - 1)]
    /\ lost \subseteq [to : User, id : 0..(n - 1), where : {"replay", "channel", "queue"}]

Typed(n) ==
    /\ SubsTyped /\ ClientsTyped /\ QueueTyped(n) /\ OrderTyped
    /\ ConnTyped(n) /\ TaskTyped(n) /\ LinkTyped /\ HistoryTyped(n)

Types == \E n \in Nat : sent = n /\ Typed(n)

\* What tells a routed message from a control frame.
LEMMA FrameShapes ==
    ASSUME NEW n \in Nat
    PROVE  /\ \A f \in Control : ~IsMessage(f)
           /\ \A f \in Routed(n) : IsMessage(f)
           /\ \A f \in FrameType(n) : IsMessage(f) => f \in Routed(n)
<1>1. \A f \in Control : ~IsMessage(f)
  BY DEF IsMessage, Control, Identified, Reply, SessionReplaced
<1>2. \A f \in Routed(n) : IsMessage(f)
  BY DEF IsMessage, Routed
<1> QED  BY <1>1, <1>2 DEF FrameType

\* What pc says of a handler.
LEMMA TaskShapes ==
    ASSUME NEW n \in Nat, NEW t \in TaskType(n)
    PROVE  /\ t.pc = "idle" => t = Idle
           /\ t.pc = "replay" => t \in ReplayTask(n) 
           /\ t.pc \in RoutePc => t \in RouteTask(n)
           /\ t.pc \in {"idle", "reply", "greet", "drain", "replay"} \cup RoutePc
           /\ "msg" \in DOMAIN t <=> t.pc \in RoutePc
<1>1. CASE t = Idle
  BY <1>1 DEF Idle, RoutePc
<1>2. CASE t = [pc |-> "greet"]
  BY <1>2 DEF Idle, RoutePc
<1>3. CASE t \in {[pc |-> "drain"], Replying}
  BY <1>3 DEF Idle, Replying, RoutePc
<1>4. CASE t \in ReplayTask(n)
  BY <1>4 DEF ReplayTask, RoutePc
<1>5. CASE t \in RouteTask(n)
  BY <1>5 DEF RouteTask, RoutePc
<1> QED  BY <1>1, <1>2, <1>3, <1>4, <1>5 DEF TaskType

\* try_send on a channel.
LEMMA PushedTyped ==
    ASSUME NEW n \in Nat, NEW k \in Connection(n), Len(k.out) <= Capacity, NEW f \in FrameType(n)
    PROVE  /\ Pushed(k, f) \in Connection(n)
           /\ Len(Pushed(k, f).out) <= Capacity
           /\ Pushed(k, f).phase = k.phase /\ Pushed(k, f).uid = k.uid
           /\ Pushed(k, f).signal = k.signal /\ Pushed(k, f).writer = k.writer
           /\ Pushed(k, f).out = IF HasRoom(k) THEN Append(k.out, f) ELSE k.out
<1>1. CASE HasRoom(k)
  <2>1. k.out \in Seq(FrameType(n)) /\ Len(k.out) \in Nat
    BY LenProperties DEF Connection
  <2>2. Append(k.out, f) \in Seq(FrameType(n)) /\ Len(Append(k.out, f)) = Len(k.out) + 1
    BY <2>1, AppendProperties
  <2>3. Len(k.out) + 1 <= Capacity
    BY <1>1, <2>1, SessionsAssumption DEF HasRoom
  <2> QED  BY <1>1, <2>2, <2>3 DEF Pushed, Connection
<1>2. CASE ~HasRoom(k)
  BY <1>2 DEF Pushed
<1> QED  BY <1>1, <1>2

\* signal_close touches neither the channel nor the session.
LEMMA SignalledTyped ==
    ASSUME NEW n \in Nat, NEW k \in Connection(n), NEW u
    PROVE  /\ Signalled(k, u) \in Connection(n)
           /\ Signalled(k, u).phase = k.phase /\ Signalled(k, u).uid = k.uid
           /\ Signalled(k, u).out = k.out /\ Signalled(k, u).writer = k.writer
BY DEF Signalled, Connection

-----------------------------------------------------------------------------
(* Types, step by step.                                                    *)

\* What does not change stays typed.
LEMMA Stays ==
    ASSUME NEW n \in Nat, Typed(n)
    PROVE  /\ UNCHANGED subs => SubsTyped'
           /\ UNCHANGED clients => ClientsTyped'
           /\ UNCHANGED offline => QueueTyped(n)'
           /\ UNCHANGED <<offline, order>> => OrderTyped'
           /\ UNCHANGED conn => ConnTyped(n)'
           /\ UNCHANGED task => TaskTyped(n)'
           /\ UNCHANGED <<conn, task>> => LinkTyped'
           /\ UNCHANGED <<received, addressed, lost>> => HistoryTyped(n)'
<1>1. UNCHANGED subs => SubsTyped'
  BY DEF Typed, SubsTyped
<1>2. UNCHANGED clients => ClientsTyped'
  BY DEF Typed, ClientsTyped
<1>3. UNCHANGED offline => QueueTyped(n)'
  BY DEF Typed, QueueTyped
<1>4. UNCHANGED <<offline, order>> => OrderTyped'
  BY DEF Typed, OrderTyped
<1>5. UNCHANGED conn => ConnTyped(n)'
  BY DEF Typed, ConnTyped
<1>6. UNCHANGED task => TaskTyped(n)'
  BY DEF Typed, TaskTyped
<1>7. UNCHANGED <<conn, task>> => LinkTyped'
  BY DEF Typed, LinkTyped
<1>8. UNCHANGED <<received, addressed, lost>> => HistoryTyped(n)'
  BY DEF Typed, HistoryTyped
<1> QED  BY <1>1, <1>2, <1>3, <1>4, <1>5, <1>6, <1>7, <1>8

\* One connection's record changes.
LEMMA ConnMoves ==
    ASSUME NEW n \in Nat, Typed(n), NEW c \in Conn,
           NEW k \in Connection(n), Len(k.out) <= Capacity, conn' = [conn EXCEPT ![c] = k]
    PROVE  /\ ConnTyped(n)'
           /\ \A j \in Conn : conn'[j] = IF j = c THEN k ELSE conn[j]
BY DEF Typed, ConnTyped

\* One connection's handler moves on.
LEMMA TaskMoves ==
    ASSUME NEW n \in Nat, Typed(n), NEW c \in Conn,
           NEW t \in TaskType(n), t.pc \in RoutePc => RouteSound(t),
           task' = [task EXCEPT ![c] = t]
    PROVE  /\ TaskTyped(n)'
           /\ \A j \in Conn : task'[j] = IF j = c THEN t ELSE task[j]
<1>1. /\ task' \in [Conn -> TaskType(n)]
      /\ \A j \in Conn : task'[j] = IF j = c THEN t ELSE task[j]
  BY DEF Typed, TaskTyped
<1>2. \A j \in Conn : task'[j].pc \in RoutePc => RouteSound(task'[j])
  BY <1>1 DEF Typed, TaskTyped
<1> QED  BY <1>1, <1>2 DEF TaskTyped

\* What the invariant says of one connection.
LEMMA OfConn ==
    ASSUME NEW n \in Nat, Typed(n), NEW c \in Conn
    PROVE  /\ conn[c] \in Connection(n)
           /\ Len(conn[c].out) <= Capacity
           /\ Len(conn[c].out) \in Nat
           /\ DOMAIN conn[c].out = 1..Len(conn[c].out)
           /\ \A i \in DOMAIN conn[c].out : conn[c].out[i] \in FrameType(n)
           /\ task[c] \in TaskType(n)
           /\ conn[c].phase # "open" => task[c] = Idle
           /\ task[c].pc = "replay" => conn[c].uid \in User
           /\ task[c].pc \in RoutePc => RouteSound(task[c])
<1>1. conn[c] \in Connection(n) /\ Len(conn[c].out) <= Capacity /\ conn[c].out \in Seq(FrameType(n))
  BY DEF Typed, ConnTyped, Connection
<1>2. /\ Len(conn[c].out) \in Nat
      /\ DOMAIN conn[c].out = 1..Len(conn[c].out)
      /\ \A i \in DOMAIN conn[c].out : conn[c].out[i] \in FrameType(n)
  BY <1>1, LenProperties, ElementOfSeq
<1> QED  BY <1>1, <1>2 DEF Typed, TaskTyped, LinkTyped

\* A step of a connection's own phase, close signal or channel.
LEMMA ConnStepTyped ==
    ASSUME NEW n \in Nat, Typed(n), NEW c \in Conn,
           NEW k \in Connection(n), Len(k.out) <= Capacity,
           conn' = [conn EXCEPT ![c] = k], UNCHANGED task,
           k.phase # "open" => task[c] = Idle,
           k.uid = conn[c].uid
    PROVE  ConnTyped(n)' /\ TaskTyped(n)' /\ LinkTyped'
<1>1. /\ ConnTyped(n)'
      /\ \A j \in Conn : conn'[j] = IF j = c THEN k ELSE conn[j]
  BY ConnMoves
<1>2. LinkTyped'
  BY <1>1 DEF Typed, LinkTyped
<1>3. TaskTyped(n)'
  BY Stays
<1> QED  BY <1>1, <1>2, <1>3

LEMMA AcceptTyped ==
    ASSUME NEW n \in Nat, Typed(n), NEW c \in Conn, Accept(c)
    PROVE  Typed(n)'
<1> DEFINE k == [conn[c] EXCEPT !.phase = "open", !.writer = TRUE]
<1>1. conn' = [conn EXCEPT ![c] = k] /\ UNCHANGED task
  BY DEF Accept
<1>2. k \in Connection(n) /\ k.out = conn[c].out /\ k.uid = conn[c].uid /\ k.phase = "open"
  BY OfConn DEF Connection
<1>3. Len(k.out) <= Capacity
  BY <1>2, OfConn
<1> HIDE DEF k
<1>4. ConnTyped(n)' /\ TaskTyped(n)' /\ LinkTyped'
  BY <1>1, <1>2, <1>3, ConnStepTyped
<1> QED  BY <1>4, Stays DEF Accept, Typed, history

LEMMA ReadEndsTyped ==
    ASSUME NEW n \in Nat, Typed(n), NEW c \in Conn, ReadEnds(c)
    PROVE  Typed(n)'
<1> DEFINE k == [conn[c] EXCEPT !.phase = "closing"]
<1>1. conn' = [conn EXCEPT ![c] = k] /\ UNCHANGED task /\ task[c] = Idle
  BY DEF ReadEnds, AtSelect
<1>2. k \in Connection(n) /\ k.out = conn[c].out /\ k.uid = conn[c].uid
  BY OfConn DEF Connection
<1>3. Len(k.out) <= Capacity
  BY <1>2, OfConn
<1> HIDE DEF k
<1>4. ConnTyped(n)' /\ TaskTyped(n)' /\ LinkTyped'
  BY <1>1, <1>2, <1>3, ConnStepTyped
<1> QED  BY <1>4, Stays DEF ReadEnds, Typed, history

LEMMA CloseSignalledTyped ==
    ASSUME NEW n \in Nat, Typed(n), NEW c \in Conn, CloseSignalled(c)
    PROVE  Typed(n)'
<1> DEFINE k == [conn[c] EXCEPT !.phase = "closing", !.signal = FALSE]
<1>1. conn' = [conn EXCEPT ![c] = k] /\ UNCHANGED task /\ task[c] = Idle
  BY DEF CloseSignalled, AtSelect
<1>2. k \in Connection(n) /\ k.out = conn[c].out /\ k.uid = conn[c].uid
  BY OfConn DEF Connection
<1>3. Len(k.out) <= Capacity
  BY <1>2, OfConn
<1> HIDE DEF k
<1>4. ConnTyped(n)' /\ TaskTyped(n)' /\ LinkTyped'
  BY <1>1, <1>2, <1>3, ConnStepTyped
<1> QED  BY <1>4, Stays DEF CloseSignalled, Typed, history

LEMMA LostWithTyped ==
    ASSUME NEW n \in Nat, Typed(n), NEW c \in Conn
    PROVE  LostWith(conn[c]) \subseteq [to : User, id : 0..(n - 1), where : {"replay", "channel", "queue"}]
<1> SUFFICES ASSUME NEW i \in DOMAIN conn[c].out, IsMessage(conn[c].out[i])
             PROVE  conn[c].out[i].to \in User /\ conn[c].out[i].msg.id \in 0..(n - 1)
  BY DEF LostWith, ToSet
<1>1. conn[c].out[i] \in Routed(n)
  BY OfConn, FrameShapes
<1> QED  BY <1>1 DEF Routed, Issued

LEMMA CleanupTyped ==
    ASSUME NEW n \in Nat, Typed(n), NEW c \in Conn, Cleanup(c)
    PROVE  Typed(n)'
<1> DEFINE k == [Fresh EXCEPT !.phase = "gone", !.uid = conn[c].uid]
<1>1. conn' = [conn EXCEPT ![c] = k] /\ UNCHANGED task /\ task[c] = Idle
  BY OfConn DEF Cleanup
<1>2. k \in Connection(n) /\ k.out = <<>> /\ k.uid = conn[c].uid
  <2>1. <<>> \in Seq(FrameType(n))
    OBVIOUS
  <2> QED  BY <2>1, OfConn DEF Connection, Fresh
<1>3. Len(k.out) <= Capacity
  BY <1>2, SessionsAssumption
<1> HIDE DEF k
<1>4. ConnTyped(n)' /\ TaskTyped(n)' /\ LinkTyped'
  BY <1>1, <1>2, <1>3, ConnStepTyped
<1>5. ClientsTyped'
  BY DEF Cleanup, Typed, ClientsTyped, Dropping, Restrict
<1>6. HistoryTyped(n)'
  BY LostWithTyped DEF Cleanup, Typed, HistoryTyped
<1> QED  BY <1>4, <1>5, <1>6, Stays DEF Cleanup, Typed

LEMMA WriteTyped ==
    ASSUME NEW n \in Nat, Typed(n), NEW c \in Conn, Write(c)
    PROVE  Typed(n)'
<1> DEFINE k == [conn[c] EXCEPT !.out = Tail(@)]
           f == Head(conn[c].out)
<1>1. conn' = [conn EXCEPT ![c] = k] /\ UNCHANGED task
  BY DEF Write
<1>2. conn[c].out \in Seq(FrameType(n)) /\ conn[c].out # <<>>
  BY OfConn DEF Connection, Write
<1>3. /\ f \in FrameType(n)
      /\ Tail(conn[c].out) \in Seq(FrameType(n))
      /\ Len(Tail(conn[c].out)) <= Capacity
  <2>1. /\ f \in FrameType(n)
        /\ Tail(conn[c].out) \in Seq(FrameType(n))
        /\ Len(Tail(conn[c].out)) = Len(conn[c].out) - 1
    BY <1>2, HeadTailProperties
  <2> QED  BY <2>1, OfConn, SessionsAssumption
<1>4. k \in Connection(n) /\ Len(k.out) <= Capacity /\ k.phase = conn[c].phase /\ k.uid = conn[c].uid
  BY <1>3, OfConn DEF Connection
<1>5. k.phase # "open" => task[c] = Idle
  BY <1>4, OfConn
<1> HIDE DEF k
<1>6. ConnTyped(n)' /\ TaskTyped(n)' /\ LinkTyped'
  BY <1>1, <1>4, <1>5, ConnStepTyped
<1>7. HistoryTyped(n)'
  <2>1. CASE IsMessage(f)
    <3>1. f \in Routed(n)
      BY <1>3, <2>1, FrameShapes
    <3>2. f.to \in User /\ f.msg \in Issued(n) /\ received[f.to] \in Seq(Issued(n))
      BY <3>1 DEF Routed, Typed, HistoryTyped
    <3>3. Append(received[f.to], f.msg) \in Seq(Issued(n))
      BY <3>2, AppendProperties
    <3>4. received' = [received EXCEPT ![f.to] = Append(@, f.msg)]
      BY <2>1 DEF Write
    <3> QED  BY <3>2, <3>3, <3>4 DEF Write, Typed, HistoryTyped
  <2>2. CASE ~IsMessage(f)
    BY <2>2 DEF Write, Typed, HistoryTyped
  <2> QED  BY <2>1, <2>2
<1> QED  BY <1>6, <1>7, Stays DEF Write, Typed

LEMMA WriteFailsTyped ==
    ASSUME NEW n \in Nat, Typed(n), NEW c \in Conn, WriteFails(c)
    PROVE  Typed(n)'
<1> DEFINE k == [conn[c] EXCEPT !.out = <<>>, !.writer = FALSE]
<1>1. conn' = [conn EXCEPT ![c] = k] /\ UNCHANGED task
  BY DEF WriteFails
<1>2. k \in Connection(n) /\ k.out = <<>> /\ k.uid = conn[c].uid /\ k.phase = conn[c].phase
  <2>1. <<>> \in Seq(FrameType(n))
    OBVIOUS
  <2> QED  BY <2>1, OfConn DEF Connection
<1>3. Len(k.out) <= Capacity /\ (k.phase # "open" => task[c] = Idle)
  BY <1>2, OfConn, SessionsAssumption
<1> HIDE DEF k
<1>4. ConnTyped(n)' /\ TaskTyped(n)' /\ LinkTyped'
  BY <1>1, <1>2, <1>3, ConnStepTyped
<1>5. HistoryTyped(n)'
  BY LostWithTyped DEF WriteFails, Typed, HistoryTyped
<1> QED  BY <1>4, <1>5, Stays DEF WriteFails, Typed

\* A handler's step, whatever it does to the channels.
LEMMA HandlerStepTyped ==
    ASSUME NEW n \in Nat, Typed(n), NEW c \in Conn, ConnTyped(n)',
           \A j \in Conn : /\ conn'[j].phase = conn[j].phase
                           /\ j # c => conn'[j].uid = conn[j].uid,
           NEW t \in TaskType(n), t.pc \in RoutePc => RouteSound(t),
           task' = [task EXCEPT ![c] = t], conn[c].phase = "open",
           t.pc = "replay" => conn'[c].uid \in User
    PROVE  TaskTyped(n)' /\ LinkTyped'
<1>1. /\ TaskTyped(n)'
      /\ \A j \in Conn : task'[j] = IF j = c THEN t ELSE task[j]
  BY TaskMoves
<1>2. LinkTyped'
  BY <1>1 DEF Typed, LinkTyped
<1> QED  BY <1>1, <1>2

\* Only an open connection is in a handler.
LEMMA BusyIsOpen ==
    ASSUME NEW n \in Nat, Typed(n), NEW c \in Conn, task[c].pc # "idle"
    PROVE  conn[c].phase = "open"
BY OfConn DEF Idle

LEMMA WaitingTyped ==
    ASSUME NEW n \in Nat, NEW t \in {Idle, Replying, [pc |-> "greet"], [pc |-> "drain"]}
    PROVE  t \in TaskType(n) /\ t.pc \notin RoutePc /\ t.pc # "replay"
BY DEF TaskType, Idle, Replying, RoutePc

LEMMA IdentifyDoes ==
    ASSUME NEW n \in Nat, Typed(n), NEW c \in Conn, NEW u \in User, Identify(c, u)
    PROVE  /\ conn' \in [Conn -> Connection(n)]
           /\ \A k \in Conn :
                /\ Len(conn'[k].out) <= Capacity
                /\ conn'[k].phase = conn[k].phase
                /\ conn'[k].writer = conn[k].writer
                /\ conn'[k].uid = IF k = c THEN u ELSE conn[k].uid
                /\ \/ conn'[k].out = conn[k].out
                   \/ conn'[k].out = Append(conn[k].out, SessionReplaced)
<1> DEFINE C(k) == CASE k = c -> [conn[c] EXCEPT !.uid = u, !.signal = FALSE]
                     [] k # c /\ Registered(u, k) -> Signalled(Pushed(conn[k], SessionReplaced), u)
                     [] OTHER -> conn[k]
<1>1. conn' = [k \in Conn |-> C(k)]
  BY DEF Identify
<1>2. ASSUME NEW k \in Conn
      PROVE  /\ C(k) \in Connection(n)
             /\ Len(C(k).out) <= Capacity
             /\ C(k).phase = conn[k].phase
             /\ C(k).writer = conn[k].writer
             /\ C(k).uid = IF k = c THEN u ELSE conn[k].uid
             /\ C(k).out = conn[k].out \/ C(k).out = Append(conn[k].out, SessionReplaced)
  <2>0. conn[k] \in Connection(n) /\ Len(conn[k].out) <= Capacity
    BY OfConn
  <2>1. CASE k = c
    <3>1. C(k) = [conn[k] EXCEPT !.uid = u, !.signal = FALSE]
      BY <2>1
    <3> HIDE DEF C
    <3> QED  BY <2>0, <2>1, <3>1 DEF Connection
  <2>2. CASE k # c /\ Registered(u, k)
    <3> DEFINE p == Pushed(conn[k], SessionReplaced)
    <3>1. C(k) = Signalled(p, u)
      BY <2>2
    <3>2. SessionReplaced \in FrameType(n)
      BY DEF FrameType, Control
    <3>3. /\ p \in Connection(n)
          /\ Len(p.out) <= Capacity
          /\ p.phase = conn[k].phase /\ p.uid = conn[k].uid
          /\ p.signal = conn[k].signal /\ p.writer = conn[k].writer
          /\ p.out = IF HasRoom(conn[k]) THEN Append(conn[k].out, SessionReplaced) ELSE conn[k].out
      BY <2>0, <3>2, PushedTyped
    <3> HIDE DEF C, p
    <3>4. /\ Signalled(p, u) \in Connection(n)
          /\ Signalled(p, u).phase = p.phase /\ Signalled(p, u).uid = p.uid
          /\ Signalled(p, u).out = p.out /\ Signalled(p, u).writer = p.writer
      BY <3>3, SignalledTyped
    <3> QED  BY <2>2, <3>1, <3>3, <3>4
  <2>3. CASE k # c /\ ~Registered(u, k)
    <3>1. C(k) = conn[k]
      BY <2>3
    <3> HIDE DEF C
    <3> QED  BY <2>0, <2>3, <3>1
  <2> QED  BY <2>1, <2>2, <2>3
<1> HIDE DEF C
<1> QED  BY <1>1, <1>2

LEMMA IdentifyTyped ==
    ASSUME NEW n \in Nat, Typed(n), NEW c \in Conn, NEW u \in User, Identify(c, u)
    PROVE  Typed(n)'
<1>1. ConnTyped(n)'
  BY IdentifyDoes DEF ConnTyped
<1>2. TaskTyped(n)' /\ LinkTyped'
  <2>1. conn[c].phase = "open" /\ task' = [task EXCEPT ![c] = [pc |-> "greet"]]
    BY DEF Identify, AtSelect
  <2>2. \A j \in Conn : /\ conn'[j].phase = conn[j].phase
                        /\ j # c => conn'[j].uid = conn[j].uid
    BY IdentifyDoes
  <2> QED  BY <1>1, <2>1, <2>2, WaitingTyped, HandlerStepTyped
<1>3. ClientsTyped'
  BY DEF Identify, Typed, ClientsTyped
<1> QED  BY <1>1, <1>2, <1>3, Stays DEF Identify, Typed, history

LEMMA PushStepTyped ==
    ASSUME NEW n \in Nat, Typed(n), NEW d \in Conn, NEW f \in FrameType(n),
           conn' = [conn EXCEPT ![d] = Pushed(@, f)]
    PROVE  /\ ConnTyped(n)'
           /\ \A j \in Conn : /\ conn'[j].phase = conn[j].phase /\ conn'[j].uid = conn[j].uid
                              /\ conn'[j].out = IF j = d /\ HasRoom(conn[d])
                                                THEN Append(conn[d].out, f) ELSE conn[j].out
<1> DEFINE k == Pushed(conn[d], f)
<1>1. conn' = [conn EXCEPT ![d] = k]
  OBVIOUS
<1>2. /\ k \in Connection(n)
      /\ Len(k.out) <= Capacity
      /\ k.phase = conn[d].phase /\ k.uid = conn[d].uid
      /\ k.out = IF HasRoom(conn[d]) THEN Append(conn[d].out, f) ELSE conn[d].out
  BY OfConn, PushedTyped
<1> HIDE DEF k
<1>3. /\ ConnTyped(n)'
      /\ \A j \in Conn : conn'[j] = IF j = d THEN k ELSE conn[j]
  BY <1>1, <1>2, ConnMoves
<1> QED  BY <1>2, <1>3

LEMMA GreetTyped ==
    ASSUME NEW n \in Nat, Typed(n), NEW c \in Conn, Greet(c)
    PROVE  Typed(n)'
<1>1. Identified \in FrameType(n)
  BY DEF FrameType, Control
<1>2. /\ ConnTyped(n)'
      /\ \A j \in Conn : conn'[j].phase = conn[j].phase /\ conn'[j].uid = conn[j].uid
  BY <1>1, PushStepTyped DEF Greet
<1>3. TaskTyped(n)' /\ LinkTyped'
  <2>1. task' = [task EXCEPT ![c] = [pc |-> "drain"]] /\ conn[c].phase = "open"
    BY BusyIsOpen DEF Greet
  <2> QED  BY <1>2, <2>1, WaitingTyped, HandlerStepTyped
<1> QED  BY <1>2, <1>3, Stays DEF Greet, Typed, history

LEMMA ReplayTyped ==
    ASSUME NEW n \in Nat, Typed(n), NEW c \in Conn, Replay(c)
    PROVE  Typed(n)'
<1> DEFINE m == Head(task[c].rest)
           rest == Tail(task[c].rest)
           u == conn[c].uid
           t == IF rest = <<>> THEN Idle ELSE [pc |-> "replay", rest |-> rest]
<1>1. /\ task' = [task EXCEPT ![c] = t]
      /\ conn' = [conn EXCEPT ![c] = Pushed(@, Frame(u, m, TRUE))]
      /\ conn[c].phase = "open" /\ u \in User
      /\ task[c].rest \in Seq(Issued(n)) /\ task[c].rest # <<>>
  BY OfConn, TaskShapes, BusyIsOpen DEF Replay, ReplayTask
<1>2. m \in Issued(n) /\ rest \in Seq(Issued(n))
  BY <1>1, HeadTailProperties
<1>3. t \in TaskType(n) /\ t.pc \notin RoutePc
  <2>1. CASE rest = <<>>
    BY <2>1, WaitingTyped
  <2>2. CASE rest # <<>>
    BY <1>2, <2>2 DEF TaskType, ReplayTask, RoutePc
  <2> QED  BY <2>1, <2>2
<1>4. Frame(u, m, TRUE) \in FrameType(n)
  BY <1>1, <1>2 DEF Frame, FrameType, Routed
<1> HIDE DEF m, rest, t
<1>5. /\ ConnTyped(n)'
      /\ \A j \in Conn : conn'[j].phase = conn[j].phase /\ conn'[j].uid = conn[j].uid
  BY <1>1, <1>4, PushStepTyped
<1>6. TaskTyped(n)' /\ LinkTyped'
  BY <1>1, <1>3, <1>5, HandlerStepTyped
<1>7. HistoryTyped(n)'
  <2>1. [to |-> u, id |-> m.id, where |-> "replay"]
           \in [to : User, id : 0..(n - 1), where : {"replay", "channel", "queue"}]
    BY <1>1, <1>2 DEF Issued
  <2>2. /\ lost' \subseteq lost \cup {[to |-> u, id |-> m.id, where |-> "replay"]}
        /\ UNCHANGED <<received, addressed>>
    BY DEF Replay, m
  <2> QED  BY <2>1, <2>2 DEF Typed, HistoryTyped
<1> QED  BY <1>5, <1>6, <1>7, Stays DEF Replay, Typed

LEMMA SendReplyTyped ==
    ASSUME NEW n \in Nat, Typed(n), NEW c \in Conn, SendReply(c)
    PROVE  Typed(n)'
<1>1. Reply \in FrameType(n)
  BY DEF FrameType, Control
<1>2. /\ ConnTyped(n)'
      /\ \A j \in Conn : conn'[j].phase = conn[j].phase /\ conn'[j].uid = conn[j].uid
  BY <1>1, PushStepTyped DEF SendReply
<1>3. TaskTyped(n)' /\ LinkTyped'
  <2>1. task' = [task EXCEPT ![c] = Idle] /\ conn[c].phase = "open"
    BY BusyIsOpen DEF SendReply
  <2> QED  BY <1>2, <2>1, WaitingTyped, HandlerStepTyped
<1> QED  BY <1>2, <1>3, Stays DEF SendReply, Typed, history

LEMMA ReplyingTyped ==
    ASSUME NEW n \in Nat, Typed(n), NEW c \in Conn, conn[c].phase = "open",
           task' = [task EXCEPT ![c] = Replying], UNCHANGED conn
    PROVE  TaskTyped(n)' /\ LinkTyped'
<1>1. ConnTyped(n)'
  BY Stays DEF Typed
<1> QED  BY <1>1, WaitingTyped, HandlerStepTyped

LEMMA RefuseTyped ==
    ASSUME NEW n \in Nat, Typed(n), NEW c \in Conn, Refuse(c)
    PROVE  Typed(n)'
<1>1. TaskTyped(n)' /\ LinkTyped'
  BY ReplyingTyped DEF Refuse, AtSelect
<1> QED  BY <1>1, Stays DEF Refuse, Typed, history

LEMMA SubscribeTyped ==
    ASSUME NEW n \in Nat, Typed(n), NEW c \in Conn, NEW d \in Doc, Subscribe(c, d)
    PROVE  Typed(n)'
<1>1. conn[c].uid \in User
  BY OfConn DEF Subscribe, IsIdentified, Connection
<1>2. SubsTyped'
  BY <1>1 DEF Subscribe, Typed, SubsTyped
<1>3. TaskTyped(n)' /\ LinkTyped'
  BY ReplyingTyped DEF Subscribe, IsIdentified, AtSelect
<1> QED  BY <1>2, <1>3, Stays DEF Subscribe, Typed, history

LEMMA PrunedTyped ==
    ASSUME NEW s, DOMAIN s \subseteq Doc, \A d \in DOMAIN s : s[d] \subseteq User
    PROVE  /\ DOMAIN Pruned(s) \subseteq DOMAIN s
           /\ \A d \in DOMAIN Pruned(s) : Pruned(s)[d] = s[d] /\ s[d] # {}
BY DEF Pruned, Dropping, Restrict

LEMMA UnsubscribeTyped ==
    ASSUME NEW n \in Nat, Typed(n), NEW c \in Conn, NEW d \in Doc, Unsubscribe(c, d)
    PROVE  Typed(n)'
<1> DEFINE s == [subs EXCEPT ![d] = @ \ {conn[c].uid}]
<1>1. DOMAIN s \subseteq Doc /\ \A e \in DOMAIN s : s[e] \subseteq User
  BY DEF Typed, SubsTyped
<1>2. subs' = Pruned(s)
  BY DEF Unsubscribe
<1> HIDE DEF s
<1>3. SubsTyped'
  BY <1>1, <1>2, PrunedTyped DEF SubsTyped
<1>4. TaskTyped(n)' /\ LinkTyped'
  BY ReplyingTyped DEF Unsubscribe, IsIdentified, AtSelect
<1> QED  BY <1>3, <1>4, Stays DEF Unsubscribe, Typed, history

LEMMA DropSubscriptionsTyped ==
    ASSUME NEW n \in Nat, Typed(n), NEW c \in Conn, DropSubscriptions(c)
    PROVE  Typed(n)'
<1> DEFINE s == [d \in DOMAIN subs |-> subs[d] \ task[c].evicted]
<1>1. DOMAIN s \subseteq Doc /\ \A e \in DOMAIN s : s[e] \subseteq User
  BY DEF Typed, SubsTyped
<1>2. subs' = Pruned(s)
  BY DEF DropSubscriptions
<1> HIDE DEF s
<1>3. SubsTyped'
  BY <1>1, <1>2, PrunedTyped DEF SubsTyped
<1>4. TaskTyped(n)' /\ LinkTyped'
  <2>1. task' = [task EXCEPT ![c] = Idle] /\ conn[c].phase = "open" /\ UNCHANGED conn
    BY BusyIsOpen DEF DropSubscriptions
  <2>2. ConnTyped(n)'
    BY <2>1, Stays
  <2> QED  BY <2>1, <2>2, WaitingTyped, HandlerStepTyped
<1> QED  BY <1>3, <1>4, Stays DEF DropSubscriptions, Typed, history

-----------------------------------------------------------------------------
(* Sequences.                                                              *)

\* Removing one position shifts what follows down by one (VecDeque::remove).
LEMMA RemoveAtProperties ==
    ASSUME NEW S, NEW s \in Seq(S), NEW i \in 1..Len(s)
    PROVE  /\ RemoveAt(s, i) \in Seq(S)
           /\ Len(RemoveAt(s, i)) = Len(s) - 1
           /\ \A j \in 1..(Len(s) - 1) :
                RemoveAt(s, i)[j] = IF j < i THEN s[j] ELSE s[j + 1]
<1> DEFINE a == SubSeq(s, 1, i - 1)
           b == SubSeq(s, i + 1, Len(s))
<1>1. Len(s) \in Nat /\ \A j \in 1..Len(s) : s[j] \in S
  BY LenProperties, ElementOfSeq
<1>2. /\ a \in Seq(S)
      /\ Len(a) = i - 1
      /\ \A j \in 1..(i - 1) : a[j] = s[j]
  BY <1>1, SubSeqProperties
<1>3. /\ b \in Seq(S)
      /\ Len(b) = Len(s) - i
      /\ \A j \in 1..(Len(s) - i) : b[j] = s[j + i]
  BY <1>1, SubSeqProperties
<1>4. /\ a \o b \in Seq(S)
      /\ Len(a \o b) = Len(a) + Len(b)
      /\ \A j \in 1..(Len(a) + Len(b)) :
            (a \o b)[j] = IF j <= Len(a) THEN a[j] ELSE b[j - Len(a)]
  BY <1>2, <1>3, ConcatProperties
<1> HIDE DEF a, b
<1>5. ASSUME NEW j \in 1..(Len(s) - 1)
      PROVE  (a \o b)[j] = IF j < i THEN s[j] ELSE s[j + 1]
  <2>1. CASE j < i
    BY <1>1, <1>2, <1>3, <1>4, <2>1
  <2>2. CASE ~(j < i)
    <3>1. (a \o b)[j] = b[j - (i - 1)]
      BY <1>1, <1>2, <1>3, <1>4, <2>2
    <3>2. j - (i - 1) \in 1..(Len(s) - i) /\ (j - (i - 1)) + i = j + 1
      BY <1>1, <2>2
    <3> QED  BY <1>3, <2>2, <3>1, <3>2
  <2> QED  BY <2>1, <2>2
<1>6. RemoveAt(s, i) = a \o b
  BY DEF RemoveAt, a, b
<1> QED
  BY <1>1, <1>2, <1>3, <1>4, <1>5, <1>6

\* Where a user is listed once, removing it leaves the others, each once.
LEMMA RemoveFirstProperties ==
    ASSUME NEW S, NEW s \in Seq(S), NEW e, IsInjective(s)
    PROVE  /\ RemoveFirst(s, e) \in Seq(S)
           /\ IsInjective(RemoveFirst(s, e))
           /\ ToSet(RemoveFirst(s, e)) = ToSet(s) \ {e}
<1>1. Len(s) \in Nat /\ DOMAIN s = 1..Len(s)
  BY LenProperties
<1>2. CASE ~ \E i \in 1..Len(s) : s[i] = e
  BY <1>1, <1>2 DEF RemoveFirst, ToSet
<1>3. CASE \E i \in 1..Len(s) : s[i] = e
  <2> DEFINE at == SelectInSeq(s, LAMBDA v : v = e)
             t == RemoveAt(s, at)
  <2>1. PICK i \in 1..Len(s) : s[i] = e
    BY <1>3
  <2>2. {j \in 1..Len(s) : s[j] = e} = {i}
    BY <1>1, <2>1 DEF IsInjective
  <2>3. at = i
    <3>1. at = IF {j \in 1..Len(s) : s[j] = e} # {}
               THEN CHOOSE k \in {j \in 1..Len(s) : s[j] = e} :
                       \A l \in {j \in 1..Len(s) : s[j] = e} : k <= l
               ELSE 0
      BY DEF SelectInSeq, Min
    <3> QED  BY <1>1, <2>2, <3>1
  <2>4. RemoveFirst(s, e) = t
    BY <1>3 DEF RemoveFirst
  <2> HIDE DEF at, t
  <2>5. /\ t \in Seq(S)
        /\ Len(t) = Len(s) - 1
        /\ \A j \in 1..(Len(s) - 1) : t[j] = IF j < i THEN s[j] ELSE s[j + 1]
    BY <2>3, RemoveAtProperties DEF t
  <2>6. DOMAIN t = 1..(Len(s) - 1)
    BY <2>5, LenProperties
  <2>7. IsInjective(t)
    <3> SUFFICES ASSUME NEW j \in DOMAIN t, NEW k \in DOMAIN t, t[j] = t[k]
                 PROVE  j = k
      BY DEF IsInjective
    <3> DEFINE up(x) == IF x < i THEN x ELSE x + 1
    <3>1. t[j] = s[up(j)] /\ t[k] = s[up(k)]
      BY <2>5, <2>6
    <3>2. up(j) \in DOMAIN s /\ up(k) \in DOMAIN s
      BY <1>1, <2>6
    <3>3. up(j) = up(k)
      BY <3>1, <3>2 DEF IsInjective
    <3> QED  BY <1>1, <2>6, <3>3
  <2>8. ToSet(t) \subseteq ToSet(s) \ {e}
    BY <1>1, <2>1, <2>5, <2>6 DEF IsInjective, ToSet
  <2>9. ASSUME NEW x \in ToSet(s) \ {e}  PROVE x \in ToSet(t)
    <3>1. PICK k \in 1..Len(s) : s[k] = x /\ k # i
      BY <1>1, <2>1 DEF ToSet
    <3>2. CASE k < i
      BY <1>1, <2>5, <2>6, <3>1, <3>2 DEF ToSet
    <3>3. CASE k > i
      <4>1. k - 1 \in 1..(Len(s) - 1) /\ t[k - 1] = s[k]
        BY <1>1, <2>5, <3>3
      <4> QED  BY <2>6, <3>1, <4>1 DEF ToSet
    <3> QED  BY <1>1, <3>1, <3>2, <3>3
  <2> QED  BY <2>4, <2>5, <2>7, <2>8, <2>9
<1> QED  BY <1>2, <1>3

LEMMA HeadOfListed ==
    ASSUME NEW S, NEW s \in Seq(S), s # <<>>, IsInjective(s)
    PROVE  /\ Tail(s) \in Seq(S)
           /\ IsInjective(Tail(s))
           /\ Head(s) \in ToSet(s)
           /\ ToSet(Tail(s)) = ToSet(s) \ {Head(s)}
<1>1. /\ Len(s) \in Nat \ {0} /\ DOMAIN s = 1..Len(s)
      /\ Head(s) = s[1]
  BY LenProperties, EmptySeq
<1>2. /\ Tail(s) \in Seq(S)
      /\ Len(Tail(s)) = Len(s) - 1
      /\ \A i \in 1..Len(Tail(s)) : Tail(s)[i] = s[i + 1]
  BY HeadTailProperties
<1>3. DOMAIN Tail(s) = 1..(Len(s) - 1)
  BY <1>2, LenProperties
<1>4. IsInjective(Tail(s))
  <2> SUFFICES ASSUME NEW i \in DOMAIN Tail(s), NEW j \in DOMAIN Tail(s), Tail(s)[i] = Tail(s)[j]
               PROVE  i = j
    BY DEF IsInjective
  <2>1. s[i + 1] = s[j + 1] /\ i + 1 \in DOMAIN s /\ j + 1 \in DOMAIN s
    BY <1>1, <1>2, <1>3
  <2>2. i + 1 = j + 1
    BY <2>1 DEF IsInjective
  <2> QED  BY <1>1, <1>3, <2>2
<1>5. ToSet(Tail(s)) \subseteq ToSet(s) \ {Head(s)}
  <2> SUFFICES ASSUME NEW i \in DOMAIN Tail(s)
               PROVE  Tail(s)[i] \in ToSet(s) /\ Tail(s)[i] # s[1]
    BY <1>1 DEF ToSet
  <2>1. Tail(s)[i] = s[i + 1] /\ i + 1 \in DOMAIN s /\ i + 1 # 1 /\ 1 \in DOMAIN s
    BY <1>1, <1>2, <1>3
  <2> QED  BY <2>1 DEF ToSet, IsInjective
<1>6. ASSUME NEW x \in ToSet(s) \ {Head(s)}  PROVE x \in ToSet(Tail(s))
  <2>1. PICK k \in 1..Len(s) : s[k] = x /\ k # 1
    BY <1>1, <1>6 DEF ToSet
  <2>2. k - 1 \in DOMAIN Tail(s) /\ Tail(s)[k - 1] = s[k]
    <3>1. k - 1 \in 1..(Len(s) - 1) /\ (k - 1) + 1 = k
      BY <1>1, <2>1
    <3> QED  BY <1>2, <1>3, <3>1
  <2> QED  BY <2>1, <2>2 DEF ToSet
<1>7. Head(s) \in ToSet(s)
  <2>1. 1 \in DOMAIN s
    BY <1>1
  <2> QED  BY <1>1, <2>1 DEF ToSet
<1> QED  BY <1>2, <1>4, <1>5, <1>6, <1>7

LEMMA ListedLast ==
    ASSUME NEW S, NEW s \in Seq(S), IsInjective(s), NEW e \in S, e \notin ToSet(s)
    PROVE  /\ s \o <<e>> \in Seq(S)
           /\ IsInjective(s \o <<e>>)
           /\ ToSet(s \o <<e>>) = ToSet(s) \cup {e}
<1> DEFINE t == s \o <<e>>
<1>1. /\ <<e>> \in Seq(S) /\ Len(<<e>>) = 1 /\ <<e>>[1] = e
  OBVIOUS
<1>2. Len(s) \in Nat /\ DOMAIN s = 1..Len(s)
  BY LenProperties
<1>3. /\ t \in Seq(S)
      /\ Len(t) = Len(s) + 1
      /\ \A i \in 1..(Len(s) + 1) : t[i] = IF i <= Len(s) THEN s[i] ELSE <<e>>[i - Len(s)]
  BY <1>1, ConcatProperties
<1>4. DOMAIN t = 1..(Len(s) + 1)
  BY <1>3, LenProperties
<1> HIDE DEF t
<1>5. t[Len(s) + 1] = e /\ \A i \in DOMAIN s : t[i] = s[i] /\ i \in DOMAIN t
  BY <1>1, <1>2, <1>3, <1>4
<1>6. \A i \in DOMAIN t : i \in DOMAIN s \/ i = Len(s) + 1
  BY <1>2, <1>4
<1>7. \A i \in DOMAIN s : s[i] \in ToSet(s) /\ s[i] # e
  BY DEF ToSet
<1>8. IsInjective(t)
  BY <1>5, <1>6, <1>7 DEF IsInjective
<1>9. ToSet(t) = ToSet(s) \cup {e}
  <2>1. Len(s) + 1 \in DOMAIN t
    BY <1>2, <1>4
  <2> QED  BY <2>1, <1>5, <1>6, <1>7 DEF ToSet
<1> QED  BY <1>3, <1>8, <1>9 DEF t

-----------------------------------------------------------------------------
(* Types: routes and the queue.                                            *)

LEMMA DrainTyped ==
    ASSUME NEW n \in Nat, Typed(n), NEW c \in Conn, Drain(c)
    PROVE  Typed(n)'
<1> DEFINE u == conn[c].uid
           t == IF u \in DOMAIN offline THEN [pc |-> "replay", rest |-> offline[u]] ELSE Idle
<1>1. task' = [task EXCEPT ![c] = t] /\ UNCHANGED conn /\ conn[c].phase = "open"
  BY BusyIsOpen DEF Drain
<1>2. t \in TaskType(n) /\ t.pc \notin RoutePc /\ (t.pc = "replay" => u \in User)
  <2>1. CASE u \in DOMAIN offline
    <3>1. offline[u] \in Seq(Issued(n)) /\ offline[u] # <<>> /\ u \in User
      BY <2>1 DEF Typed, QueueTyped
    <3> QED  BY <2>1, <3>1 DEF TaskType, ReplayTask, RoutePc
  <2>2. CASE u \notin DOMAIN offline
    <3>1. t = Idle
      BY <2>2
    <3> QED  BY <3>1, WaitingTyped
  <2> QED  BY <2>1, <2>2
<1> HIDE DEF t
<1>3. ConnTyped(n)'
  BY <1>1, Stays
<1>4. TaskTyped(n)' /\ LinkTyped'
  BY <1>1, <1>2, <1>3, HandlerStepTyped
<1>5. QueueTyped(n)' /\ OrderTyped'
  <2>1. CASE u \in DOMAIN offline
    <3>1. offline' = Dropping(offline, {u}) /\ order' = RemoveFirst(order, u)
      BY <2>1 DEF Drain
    <3>2. DOMAIN offline' = DOMAIN offline \ {u} /\ \A v \in DOMAIN offline' : offline'[v] = offline[v]
      BY <3>1 DEF Dropping, Restrict
    <3>3. /\ RemoveFirst(order, u) \in Seq(User)
          /\ IsInjective(RemoveFirst(order, u))
          /\ ToSet(RemoveFirst(order, u)) = ToSet(order) \ {u}
      BY RemoveFirstProperties DEF Typed, OrderTyped
    <3>4. OrderTyped'
      BY <3>1, <3>2, <3>3 DEF Typed, OrderTyped
    <3>5. QueueTyped(n)'
      BY <3>2 DEF Typed, QueueTyped
    <3> QED  BY <3>4, <3>5
  <2>2. CASE u \notin DOMAIN offline
    <3>1. UNCHANGED <<offline, order>>
      BY <2>2 DEF Drain
    <3> QED  BY <3>1, Stays
  <2> QED  BY <2>1, <2>2
<1> QED  BY <1>1, <1>3, <1>4, <1>5, Stays DEF Drain, Typed, history

\* Whom a handler's message has yet to be sent to or queued for.
Bearing(t) == t.to \cup t.away \cup {s[1] : s \in t.slow}

\* Where a fan-out goes next, it still bears its message to the same users.
LEMMA OnwardTyped ==
    ASSUME NEW n \in Nat, NEW t \in RouteTask(n), RouteSound(t), t.pc \in {"route", "fan_out"}
    PROVE  /\ Onward(t) \in TaskType(n)
           /\ Onward(t).pc \in RoutePc =>
                 /\ RouteSound(Onward(t))
                 /\ Onward(t).msg = t.msg
                 /\ Bearing(Onward(t)) = Bearing(t)
           /\ Onward(t).pc \notin RoutePc => Onward(t) = Idle /\ Bearing(t) = {}
<1>1. CASE t.to # {}
  <2>1. Onward(t) = [t EXCEPT !.pc = "fan_out"]
    BY <1>1 DEF Onward
  <2> QED  BY <2>1 DEF RouteTask, TaskType, RoutePc, RouteSound, Bearing
<1>2. CASE t.to = {} /\ t.slow # {}
  <2>1. Onward(t) = [t EXCEPT !.pc = "disconnect_slow"]
    BY <1>2 DEF Onward
  <2> QED  BY <1>2, <2>1 DEF RouteTask, TaskType, RoutePc, RouteSound, Bearing
<1>3. CASE t.to = {} /\ t.slow = {} /\ t.away # {}
  <2>1. Onward(t) = [t EXCEPT !.pc = "enqueue"]
    BY <1>3 DEF Onward
  <2> QED  BY <1>3, <2>1 DEF RouteTask, TaskType, RoutePc, RouteSound, Bearing
<1>4. CASE t.to = {} /\ t.slow = {} /\ t.away = {}
  <2>1. Onward(t) = Idle
    BY <1>4 DEF Onward
  <2>2. Bearing(t) = {}
    BY <1>4 DEF Bearing
  <2> QED  BY <2>1, <2>2, WaitingTyped
<1> QED  BY <1>1, <1>2, <1>3, <1>4

LEMMA PublishTyped ==
    ASSUME NEW n \in Nat, Typed(n), NEW c \in Conn, NEW d \in Doc, Publish(c, d), sent < n, sent \in Nat
    PROVE  Typed(n)'
<1> DEFINE to == subs[d] \ {conn[c].uid}
           m == [id |-> sent, from |-> conn[c].uid, via |-> c]
           t == [pc |-> "route", msg |-> m, to |-> to, slow |-> {}, away |-> {}, evicted |-> {}]
<1>1. /\ task' = [task EXCEPT ![c] = t]
      /\ conn[c].phase = "open" /\ UNCHANGED conn
      /\ addressed' = addressed \cup {[to |-> u, id |-> sent] : u \in to}
  BY DEF Publish, IsIdentified, AtSelect
<1>2. to \subseteq User /\ sent \in 0..(n - 1)
  BY DEF Publish, Typed, SubsTyped
<1>3. m \in Issued(n)
  BY <1>2, OfConn DEF Issued, Publish, IsIdentified, Connection
<1>4. t \in TaskType(n) /\ t.pc = "route" /\ RouteSound(t)
  BY <1>2, <1>3 DEF TaskType, RouteTask, RoutePc, RouteSound
<1>5. HistoryTyped(n)'
  BY <1>1, <1>2 DEF Typed, HistoryTyped, Publish
<1> HIDE DEF t
<1>6. ConnTyped(n)'
  BY <1>1, Stays
<1>7. TaskTyped(n)' /\ LinkTyped'
  BY <1>1, <1>4, <1>6, HandlerStepTyped
<1> QED  BY <1>5, <1>6, <1>7, Stays DEF Publish, Typed

\* A fan-out's own step: what is left of the route, typed.
LEMMA FanOutRoute ==
    ASSUME NEW n \in Nat, Typed(n), NEW c \in Conn, task[c].pc \in {"route", "fan_out"}
    PROVE  /\ task[c] \in RouteTask(n) /\ RouteSound(task[c]) /\ conn[c].phase = "open"
           /\ task[c].to \subseteq User /\ task[c].msg \in Issued(n)
<1>1. task[c] \in RouteTask(n) /\ RouteSound(task[c])
  BY OfConn, TaskShapes DEF RoutePc
<1> QED  BY <1>1, BusyIsOpen DEF RouteTask

LEMMA FanOutSentTyped ==
    ASSUME NEW n \in Nat, Typed(n), NEW c \in Conn, NEW u \in User, FanOutSent(c, u)
    PROVE  Typed(n)'
<1> DEFINE t == [task[c] EXCEPT !.to = @ \ {u}]
           f == Frame(u, task[c].msg, FALSE)
<1>1. /\ task[c] \in RouteTask(n) /\ RouteSound(task[c]) /\ conn[c].phase = "open"
      /\ task[c].msg \in Issued(n) /\ task[c].pc \in {"route", "fan_out"}
      /\ clients[u] \in Conn
  BY FanOutRoute DEF FanOutSent, Typed, ClientsTyped
<1>2. t \in RouteTask(n) /\ RouteSound(t) /\ t.pc \in {"route", "fan_out"}
  BY <1>1 DEF RouteTask, RouteSound
<1>3. f \in FrameType(n)
  BY <1>1 DEF Frame, FrameType, Routed
<1>4. /\ task' = [task EXCEPT ![c] = Onward(t)]
      /\ conn' = [conn EXCEPT ![clients[u]] = Pushed(@, f)]
  BY DEF FanOutSent
<1> HIDE DEF t, f
<1>5. Onward(t) \in TaskType(n) /\ (Onward(t).pc \in RoutePc => RouteSound(Onward(t)))
      /\ Onward(t).pc # "replay"
  BY <1>2, OnwardTyped DEF RoutePc, Idle
<1>6. /\ ConnTyped(n)'
      /\ \A j \in Conn : conn'[j].phase = conn[j].phase /\ conn'[j].uid = conn[j].uid
  BY <1>1, <1>3, <1>4, PushStepTyped
<1>7. TaskTyped(n)' /\ LinkTyped'
  BY <1>1, <1>4, <1>5, <1>6, HandlerStepTyped
<1> QED  BY <1>6, <1>7, Stays DEF FanOutSent, Typed, history

LEMMA FanOutSlowTyped ==
    ASSUME NEW n \in Nat, Typed(n), NEW c \in Conn, NEW u \in User, FanOutSlow(c, u)
    PROVE  Typed(n)'
<1> DEFINE t == [task[c] EXCEPT !.to = @ \ {u}, !.slow = @ \cup {<<u, clients[u]>>}]
<1>1. /\ task[c] \in RouteTask(n) /\ RouteSound(task[c]) /\ conn[c].phase = "open"
      /\ task[c].pc \in {"route", "fan_out"} /\ u \in task[c].to
      /\ clients[u] \in Conn
  BY FanOutRoute DEF FanOutSlow, Typed, ClientsTyped
<1>2. t \in RouteTask(n) /\ RouteSound(t) /\ t.pc \in {"route", "fan_out"}
  <2>0. /\ task[c].slow \cup {<<u, clients[u]>>} \in SUBSET (User \X Conn)
        /\ task[c].to \ {u} \in SUBSET User
    BY <1>1 DEF RouteTask
  <2>1. /\ t \in RouteTask(n)
        /\ t.pc = task[c].pc /\ t.to = task[c].to \ {u} /\ t.away = task[c].away
        /\ t.slow = task[c].slow \cup {<<u, clients[u]>>}
    BY <1>1, <2>0 DEF RouteTask
  <2> HIDE DEF t
  <2>2. u \notin task[c].away /\ <<u, clients[u]>>[1] = u
    BY <1>1 DEF RouteSound
  <2>3. \A s \in t.slow : s[1] \notin t.to \cup t.away
    BY <1>1, <2>1, <2>2 DEF RouteSound
  <2> QED  BY <1>1, <2>1, <2>3 DEF RouteSound
<1>3. task' = [task EXCEPT ![c] = Onward(t)] /\ UNCHANGED conn
  BY DEF FanOutSlow
<1> HIDE DEF t
<1>4. Onward(t) \in TaskType(n) /\ (Onward(t).pc \in RoutePc => RouteSound(Onward(t)))
      /\ Onward(t).pc # "replay"
  BY <1>2, OnwardTyped DEF RoutePc, Idle
<1>5. ConnTyped(n)'
  BY <1>3, Stays
<1>6. TaskTyped(n)' /\ LinkTyped'
  BY <1>1, <1>3, <1>4, <1>5, HandlerStepTyped
<1> QED  BY <1>5, <1>6, Stays DEF FanOutSlow, Typed, history

LEMMA FanOutAwayTyped ==
    ASSUME NEW n \in Nat, Typed(n), NEW c \in Conn, NEW u \in User, FanOutAway(c, u)
    PROVE  Typed(n)'
<1> DEFINE t == [task[c] EXCEPT !.to = @ \ {u}, !.away = @ \cup {u}]
<1>1. /\ task[c] \in RouteTask(n) /\ RouteSound(task[c]) /\ conn[c].phase = "open"
      /\ task[c].pc \in {"route", "fan_out"} /\ u \in task[c].to
  BY FanOutRoute DEF FanOutAway
<1>2. t \in RouteTask(n) /\ RouteSound(t) /\ t.pc \in {"route", "fan_out"}
  BY <1>1 DEF RouteTask, RouteSound
<1>3. task' = [task EXCEPT ![c] = Onward(t)] /\ UNCHANGED conn
  BY DEF FanOutAway
<1> HIDE DEF t
<1>4. Onward(t) \in TaskType(n) /\ (Onward(t).pc \in RoutePc => RouteSound(Onward(t)))
      /\ Onward(t).pc # "replay"
  BY <1>2, OnwardTyped DEF RoutePc, Idle
<1>5. ConnTyped(n)'
  BY <1>3, Stays
<1>6. TaskTyped(n)' /\ LinkTyped'
  BY <1>1, <1>3, <1>4, <1>5, HandlerStepTyped
<1> QED  BY <1>5, <1>6, Stays DEF FanOutAway, Typed, history

LEMMA DisconnectSlowTyped ==
    ASSUME NEW n \in Nat, Typed(n), NEW c \in Conn, DisconnectSlow(c)
    PROVE  /\ Typed(n)'
           /\ \A k \in Conn : /\ conn'[k].phase = conn[k].phase /\ conn'[k].uid = conn[k].uid
                              /\ conn'[k].out = conn[k].out
           /\ task[c] \in RouteTask(n)
<1> DEFINE found == {s \in task[c].slow : Registered(s[1], s[2])}
           C(k) == IF <<conn[k].uid, k>> \in found THEN Signalled(conn[k], conn[k].uid) ELSE conn[k]
           t == [task[c] EXCEPT !.pc = "enqueue"]
<1>1. /\ conn' = [k \in Conn |-> C(k)]
      /\ clients' = Dropping(clients, {s[1] : s \in found})
      /\ task' = [task EXCEPT ![c] = t]
      /\ conn[c].phase = "open" /\ task[c].pc = "disconnect_slow"
  BY BusyIsOpen DEF DisconnectSlow
<1>2. ASSUME NEW k \in Conn
      PROVE  /\ C(k) \in Connection(n) /\ Len(C(k).out) <= Capacity
             /\ C(k).phase = conn[k].phase /\ C(k).uid = conn[k].uid /\ C(k).out = conn[k].out
  <2>1. conn[k] \in Connection(n) /\ Len(conn[k].out) <= Capacity
    BY OfConn
  <2>2. C(k) = Signalled(conn[k], conn[k].uid) \/ C(k) = conn[k]
    OBVIOUS
  <2> HIDE DEF C
  <2> QED  BY <2>1, <2>2, SignalledTyped
<1>3. task[c] \in RouteTask(n) /\ RouteSound(task[c])
  BY <1>1, OfConn, TaskShapes DEF RoutePc
<1>4. t \in TaskType(n) /\ RouteSound(t) /\ t.pc # "replay"
  BY <1>1, <1>3 DEF TaskType, RouteTask, RoutePc, RouteSound
<1> HIDE DEF C, t, found
<1>5. /\ ConnTyped(n)'
      /\ \A k \in Conn : /\ conn'[k].phase = conn[k].phase /\ conn'[k].uid = conn[k].uid
                         /\ conn'[k].out = conn[k].out
  BY <1>1, <1>2 DEF ConnTyped
<1>6. TaskTyped(n)' /\ LinkTyped'
  BY <1>1, <1>4, <1>5, HandlerStepTyped
<1>7. ClientsTyped'
  BY <1>1 DEF Typed, ClientsTyped, Dropping, Restrict
<1> QED  BY <1>3, <1>5, <1>6, <1>7, Stays DEF DisconnectSlow, Typed, history

\* t is s, or s without its oldest.
Shorter(t, s) == t = s \/ (s # <<>> /\ t = Tail(s))

LEMMA RoomTyped ==
    ASSUME NEW n \in Nat, Typed(n), NEW room \in WithRoom(offline, order)
    PROVE  /\ DOMAIN room[1] \subseteq DOMAIN offline
           /\ \A v \in DOMAIN room[1] :
                room[1][v] # <<>> /\ room[1][v] \in Seq(Issued(n)) /\ Shorter(room[1][v], offline[v])
           /\ room[2] \in Seq(User) /\ ToSet(room[2]) = DOMAIN room[1] /\ IsInjective(room[2])
<1>0. /\ \A u \in DOMAIN offline : offline[u] # <<>> /\ offline[u] \in Seq(Issued(n))
      /\ order \in Seq(User) /\ ToSet(order) = DOMAIN offline /\ IsInjective(order)
  BY DEF Typed, QueueTyped, OrderTyped
<1>1. CASE room = <<offline, order>>
  BY <1>0, <1>1 DEF Shorter
<1>2. ASSUME NEW v \in DOMAIN offline,
             room = <<MinusOldest(offline, v),
                      IF Len(offline[v]) = 1 THEN RemoveFirst(order, v) ELSE order>>
      PROVE  /\ DOMAIN room[1] \subseteq DOMAIN offline
             /\ \A w \in DOMAIN room[1] :
                  room[1][w] # <<>> /\ room[1][w] \in Seq(Issued(n)) /\ Shorter(room[1][w], offline[w])
             /\ room[2] \in Seq(User) /\ ToSet(room[2]) = DOMAIN room[1] /\ IsInjective(room[2])
  <2>0. /\ room[1] = MinusOldest(offline, v)
        /\ room[2] = IF Len(offline[v]) = 1 THEN RemoveFirst(order, v) ELSE order
    BY <1>2
  <2>1. CASE Len(offline[v]) = 1
    <3>1. /\ DOMAIN room[1] = DOMAIN offline \ {v}
          /\ \A w \in DOMAIN room[1] : room[1][w] = offline[w]
      BY <2>0, <2>1 DEF MinusOldest, Dropping, Restrict
    <3>2. /\ room[2] \in Seq(User)
          /\ IsInjective(room[2])
          /\ ToSet(room[2]) = ToSet(order) \ {v}
      BY <1>0, <2>0, <2>1, RemoveFirstProperties
    <3> QED  BY <1>0, <3>1, <3>2 DEF Shorter
  <2>2. CASE Len(offline[v]) # 1
    <3>1. /\ DOMAIN room[1] = DOMAIN offline
          /\ \A w \in DOMAIN room[1] : room[1][w] = IF w = v THEN Tail(offline[v]) ELSE offline[w]
      BY <2>0, <2>2 DEF MinusOldest
    <3>2. /\ Tail(offline[v]) \in Seq(Issued(n)) /\ Len(Tail(offline[v])) = Len(offline[v]) - 1
          /\ Len(offline[v]) \in Nat
      BY <1>0, HeadTailProperties, LenProperties
    <3>3. Tail(offline[v]) # <<>>
      <4>1. Len(Tail(offline[v])) # Len(<<>>)
        BY <2>2, <3>2, EmptySeq
      <4> QED  BY <4>1, Zenon
    <3>4. room[2] = order
      BY <2>0, <2>2
    <3> QED  BY <1>0, <3>1, <3>2, <3>3, <3>4 DEF Shorter
  <2> QED  BY <2>1, <2>2
<1>3. \/ room = <<offline, order>>
      \/ \E v \in DOMAIN offline :
            room = <<MinusOldest(offline, v),
                     IF Len(offline[v]) = 1 THEN RemoveFirst(order, v) ELSE order>>
  BY DEF WithRoom, Largest
<1> QED  BY <1>1, <1>2, <1>3

\* All that later proofs need of Enqueue: what it does to the queues of others, to
\* u's, and to the route.
LEMMA EnqueueDoes ==
    ASSUME NEW n \in Nat, Typed(n), NEW c \in Conn, NEW u \in User, Enqueue(c, u)
    PROVE  /\ task[c] \in RouteTask(n) /\ RouteSound(task[c])
           /\ task[c].pc = "enqueue" /\ u \in Bearing(task[c])
           /\ QueueTyped(n)' /\ OrderTyped'
           /\ \A v \in DOMAIN offline' :
                v # u => v \in DOMAIN offline /\ Shorter(offline'[v], offline[v])
           /\ u \in DOMAIN offline'
           /\ \E t \in Seq(Issued(n)) :
                /\ t = <<>> \/ (u \in DOMAIN offline /\ Shorter(t, offline[u]))
                /\ \/ offline'[u] = Append(t, task[c].msg)
                   \/ t # <<>> /\ offline'[u] = Tail(Append(t, task[c].msg))
           /\ \E t \in TaskType(n) :
                /\ task' = [task EXCEPT ![c] = t]
                /\ t.pc \in RoutePc =>
                      /\ RouteSound(t)
                      /\ t.msg = task[c].msg
                      /\ Bearing(t) = Bearing(task[c]) \ {u}
                /\ t.pc \notin RoutePc => t = Idle /\ Bearing(task[c]) \subseteq {u}
<1> DEFINE m == task[c].msg
<1>1. task[c] \in RouteTask(n) /\ RouteSound(task[c]) /\ task[c].pc = "enqueue"
  BY OfConn, TaskShapes DEF Enqueue, RoutePc
<1>2. u \in Bearing(task[c]) /\ m \in Issued(n) /\ task[c].to = {}
  BY <1>1 DEF Enqueue, Bearing, RouteTask, RouteSound
<1> DEFINE Ev(room) == Evictee(room[1], room[2], u)
           left(room) == [task[c] EXCEPT !.away = @ \ {u},
                                         !.slow = {s \in @ : s[1] # u},
                                         !.evicted = @ \cup Ev(room)]
<1>3. PICK room \in WithRoom(offline, order) :
        /\ offline' = Admitted(Dropping(room[1], Ev(room)), u, m)
        /\ order' = (IF Ev(room) = {} THEN room[2] ELSE Tail(room[2]))
                       \o (IF u \in DOMAIN room[1] THEN <<>> ELSE <<u>>)
        /\ task' = [task EXCEPT ![c] =
              CASE left(room).away \cup left(room).slow # {} -> left(room)
                [] left(room).away \cup left(room).slow = {} /\ left(room).evicted # {} ->
                      [left(room) EXCEPT !.pc = "drop_subscriptions"]
                [] OTHER -> Idle]
  BY DEF Enqueue
<1> DEFINE q == room[1]
           listed == room[2]
           evicted == Evictee(q, listed, u)
           kept == IF evicted = {} THEN listed ELSE Tail(listed)
<1>4. /\ DOMAIN q \subseteq DOMAIN offline
      /\ \A v \in DOMAIN q : q[v] # <<>> /\ q[v] \in Seq(Issued(n)) /\ Shorter(q[v], offline[v])
      /\ listed \in Seq(User) /\ ToSet(listed) = DOMAIN q /\ IsInjective(listed)
  BY RoomTyped
<1>5. /\ offline' = Admitted(Dropping(q, evicted), u, m)
      /\ order' = kept \o (IF u \in DOMAIN q THEN <<>> ELSE <<u>>)
  BY <1>3
<1> HIDE DEF q, listed
<1>6. \/ evicted = {}
      \/ evicted = {Head(listed)} /\ u \notin DOMAIN q /\ listed # <<>>
  <2>1. CASE evicted # {}
    <3>1. evicted = {Head(listed)} /\ u \notin DOMAIN q /\ Cardinality(DOMAIN q) >= MaxUsers
      BY <2>1 DEF Evictee
    <3>2. DOMAIN q # {}
      BY <3>1, FS_EmptySet, SessionsAssumption
    <3>3. listed # <<>>
      BY <1>4, <3>2 DEF ToSet
    <3> QED  BY <3>1, <3>3
  <2> QED  BY <2>1
<1>7. /\ kept \in Seq(User) /\ IsInjective(kept) /\ ToSet(kept) = DOMAIN q \ evicted
      /\ evicted \subseteq DOMAIN q
      /\ u \in DOMAIN q => evicted = {}
  BY <1>4, <1>6, HeadOfListed
<1>8. DOMAIN q \subseteq User
  BY <1>4 DEF Typed, QueueTyped
<1> HIDE DEF evicted, kept
<1> DEFINE p == Dropping(q, evicted)
<1>9. DOMAIN p = DOMAIN q \ evicted /\ \A v \in DOMAIN p : p[v] = q[v]
  BY DEF Dropping, Restrict
<1> DEFINE t == IF u \in DOMAIN p THEN p[u] ELSE <<>>
           s == Append(t, m)
<1>10. /\ t \in Seq(Issued(n))
       /\ t = <<>> \/ (u \in DOMAIN offline /\ Shorter(t, offline[u]))
       /\ s = IF u \in DOMAIN p THEN Append(p[u], m) ELSE <<m>>
  <2>1. CASE u \in DOMAIN p
    <3>1. t = q[u] /\ u \in DOMAIN q /\ s = Append(p[u], m)
      BY <1>9, <2>1
    <3> QED  BY <1>4, <2>1, <3>1
  <2>2. CASE u \notin DOMAIN p
    <3>1. t = <<>> /\ s = <<m>>
      BY <2>2
    <3> QED  BY <2>2, <3>1
  <2> QED  BY <2>1, <2>2
<1> HIDE DEF p, t
<1>11. /\ s \in Seq(Issued(n)) /\ s # <<>> /\ Len(s) = Len(t) + 1 /\ Len(t) \in Nat
  <2>1. t \in Seq(Issued(n)) /\ m \in Issued(n)
    BY <1>2, <1>10
  <2> QED  BY <2>1, AppendProperties, LenProperties
<1> HIDE DEF s
<1>12. /\ DOMAIN offline' = DOMAIN p \cup {u}
       /\ \A v \in DOMAIN offline' :
             offline'[v] = IF v # u THEN p[v] ELSE IF Len(s) > MaxPerUser THEN Tail(s) ELSE s
  BY <1>5, <1>10 DEF Admitted, p
<1>13. \/ offline'[u] = s
       \/ t # <<>> /\ offline'[u] = Tail(s)
  <2>1. CASE Len(s) > MaxPerUser
    <3>1. t # <<>>
      BY <1>11, <2>1, SessionsAssumption
    <3> QED  BY <1>12, <2>1, <3>1
  <2>2. CASE ~(Len(s) > MaxPerUser)
    BY <1>12, <2>2
  <2> QED  BY <2>1, <2>2
<1>14. offline'[u] # <<>> /\ offline'[u] \in Seq(Issued(n))
  <2>1. CASE t # <<>> /\ offline'[u] = Tail(s)
    <3>1. Tail(s) \in Seq(Issued(n)) /\ Len(Tail(s)) = Len(s) - 1
      BY <1>11, HeadTailProperties
    <3>2. Len(t) # 0
      BY <1>10, <2>1, EmptySeq
    <3>3. Len(Tail(s)) # Len(<<>>)
      BY <1>11, <3>1, <3>2, EmptySeq
    <3>4. Tail(s) # <<>>
      BY <3>3, Zenon
    <3> QED  BY <2>1, <3>1, <3>4
  <2> QED  BY <1>11, <1>13, <2>1
<1>15. QueueTyped(n)'
  <2>1. DOMAIN offline' \subseteq User
    BY <1>8, <1>9, <1>12
  <2>2. \A v \in DOMAIN offline' : v # u => offline'[v] = q[v] /\ v \in DOMAIN q
    BY <1>9, <1>12
  <2>3. \A v \in DOMAIN offline' : offline'[v] # <<>> /\ offline'[v] \in Seq(Issued(n))
    BY <1>4, <1>14, <2>2
  <2> QED  BY <2>1, <2>3 DEF QueueTyped
<1>16. \A v \in DOMAIN offline' :
          v # u => v \in DOMAIN offline /\ Shorter(offline'[v], offline[v])
  BY <1>4, <1>9, <1>12
<1>17. OrderTyped'
  <2>1. CASE u \in DOMAIN q
    <3>1. order' = kept
      BY <1>5, <1>7, <2>1, ConcatEmptySeq
    <3>2. DOMAIN offline' = DOMAIN q \ evicted
      BY <1>7, <1>9, <1>12, <2>1
    <3> QED  BY <1>7, <3>1, <3>2 DEF OrderTyped
  <2>2. CASE u \notin DOMAIN q
    <3>1. order' = kept \o <<u>>
      BY <1>5, <2>2
    <3>2. u \notin ToSet(kept)
      BY <1>7, <2>2
    <3>3. /\ order' \in Seq(User) /\ IsInjective(order')
          /\ ToSet(order') = ToSet(kept) \cup {u}
      BY <1>7, <3>1, <3>2, ListedLast
    <3>4. DOMAIN offline' = ToSet(kept) \cup {u}
      BY <1>7, <1>9, <1>12
    <3> QED  BY <3>3, <3>4 DEF OrderTyped
  <2> QED  BY <2>1, <2>2
<1> DEFINE rest == left(room)
           x == CASE rest.away \cup rest.slow # {} -> rest
                  [] rest.away \cup rest.slow = {} /\ rest.evicted # {} ->
                        [rest EXCEPT !.pc = "drop_subscriptions"]
                  [] OTHER -> Idle
<1>18. task' = [task EXCEPT ![c] = x]
  BY <1>3
<1>19. /\ rest \in RouteTask(n)
       /\ rest.pc = "enqueue" /\ rest.msg = m
       /\ rest.to = {} /\ rest.away = task[c].away \ {u}
       /\ rest.slow = {y \in task[c].slow : y[1] # u}
  <2>1. Ev(room) \subseteq User
    BY <1>7, <1>8 DEF evicted, q, listed
  <2> HIDE DEF Ev
  <2> QED  BY <1>1, <1>2, <2>1 DEF RouteTask
<1> HIDE DEF left, rest
<1>20. Bearing(rest) = Bearing(task[c]) \ {u} /\ RouteSound(rest)
  <2>1. Bearing(rest) = Bearing(task[c]) \ {u}
    BY <1>2, <1>19 DEF Bearing
  <2>2. RouteSound(rest)
    BY <1>1, <1>19 DEF RouteSound
  <2> QED  BY <2>1, <2>2
<1>21. /\ x \in TaskType(n)
       /\ x.pc \in RoutePc =>
             /\ RouteSound(x)
             /\ x.msg = m
             /\ Bearing(x) = Bearing(task[c]) \ {u}
       /\ x.pc \notin RoutePc => x = Idle /\ Bearing(task[c]) \subseteq {u}
  <2>1. CASE rest.away \cup rest.slow # {}
    <3>1. x = rest
      BY <2>1
    <3> HIDE DEF x
    <3> QED  BY <1>19, <1>20, <3>1 DEF TaskType, RoutePc
  <2>2. CASE rest.away \cup rest.slow = {} /\ rest.evicted # {}
    <3>1. x = [rest EXCEPT !.pc = "drop_subscriptions"]
      BY <2>2
    <3> HIDE DEF x
    <3>2. /\ x \in RouteTask(n) /\ x.pc = "drop_subscriptions" /\ x.msg = m
          /\ x.to = {} /\ x.away = {} /\ x.slow = {}
          /\ rest.away = {} /\ rest.slow = {}
      BY <1>19, <2>2, <3>1 DEF RouteTask, RoutePc
    <3>3. RouteSound(x) /\ Bearing(x) = Bearing(rest)
      BY <1>19, <3>2 DEF RouteSound, Bearing
    <3> QED  BY <1>20, <3>2, <3>3 DEF TaskType, RoutePc
  <2>3. CASE rest.away \cup rest.slow = {} /\ rest.evicted = {}
    <3>1. x = Idle
      BY <2>3
    <3>2. Bearing(rest) = {}
      BY <1>19, <2>3 DEF Bearing
    <3> HIDE DEF x
    <3> QED  BY <1>20, <3>1, <3>2, WaitingTyped
  <2> QED  BY <2>1, <2>2, <2>3
<1> HIDE DEF x
<1>22. u \in DOMAIN offline'
  BY <1>12
<1>23. \E y \in Seq(Issued(n)) :
          /\ y = <<>> \/ (u \in DOMAIN offline /\ Shorter(y, offline[u]))
          /\ \/ offline'[u] = Append(y, m)
             \/ y # <<>> /\ offline'[u] = Tail(Append(y, m))
  BY <1>10, <1>13 DEF s
<1>24. \E y \in TaskType(n) :
          /\ task' = [task EXCEPT ![c] = y]
          /\ y.pc \in RoutePc =>
                /\ RouteSound(y)
                /\ y.msg = m
                /\ Bearing(y) = Bearing(task[c]) \ {u}
          /\ y.pc \notin RoutePc => y = Idle /\ Bearing(task[c]) \subseteq {u}
  BY <1>18, <1>21
<1> QED  BY <1>1, <1>2, <1>15, <1>16, <1>17, <1>22, <1>23, <1>24

LEMMA EnqueueTyped ==
    ASSUME NEW n \in Nat, Typed(n), NEW c \in Conn, NEW u \in User, Enqueue(c, u)
    PROVE  Typed(n)'
<1>1. QueueTyped(n)' /\ OrderTyped'
  BY EnqueueDoes
<1>2. PICK t \in TaskType(n) : /\ task' = [task EXCEPT ![c] = t]
                               /\ t.pc \in RoutePc => RouteSound(t)
                               /\ t.pc \notin RoutePc => t = Idle
  BY EnqueueDoes
<1>3. t.pc # "replay"
  BY <1>2 DEF Idle, RoutePc
<1>4. UNCHANGED conn /\ conn[c].phase = "open"
  BY BusyIsOpen DEF Enqueue
<1>5. ConnTyped(n)'
  BY <1>4, Stays
<1>6. TaskTyped(n)' /\ LinkTyped'
  BY <1>2, <1>3, <1>4, <1>5, HandlerStepTyped
<1>7. HistoryTyped(n)'
  <2>1. ASSUME NEW v \in DOMAIN offline, NEW m \in ToSet(offline[v])
        PROVE  [to |-> v, id |-> m.id, where |-> "queue"]
                  \in [to : User, id : 0..(n - 1), where : {"replay", "channel", "queue"}]
    <3>1. offline[v] \in Seq(Issued(n)) /\ v \in User
      BY DEF Typed, QueueTyped
    <3>2. m \in Issued(n)
      BY <3>1, ElementOfSeq, LenProperties DEF ToSet
    <3> QED  BY <3>1, <3>2 DEF Issued
  <2>2. \A v \in DOMAIN offline :
          LostFromQueue(v) \subseteq [to : User, id : 0..(n - 1), where : {"replay", "channel", "queue"}]
    BY <2>1 DEF LostFromQueue
  <2>3. /\ lost' = lost \cup UNION {LostFromQueue(v) : v \in DOMAIN offline}
        /\ UNCHANGED <<received, addressed>>
    BY DEF Enqueue
  <2> QED  BY <2>2, <2>3 DEF Typed, HistoryTyped
<1> QED  BY <1>1, <1>4, <1>5, <1>6, <1>7, Stays DEF Enqueue, Typed

-----------------------------------------------------------------------------
(* Types always, and what follows from them alone.                         *)

\* Ids that are allowed stay allowed when one more is issued.
LEMMA MoreIssued ==
    ASSUME NEW n \in Nat, Typed(n)
    PROVE  Typed(n + 1)
<1>1. Issued(n) \subseteq Issued(n + 1) /\ 0..(n - 1) \subseteq 0..((n + 1) - 1)
  BY DEF Issued
<1>2. FrameType(n) \subseteq FrameType(n + 1)
  BY <1>1 DEF FrameType, Routed
<1>3. \A s \in Seq(Issued(n)) : s \in Seq(Issued(n + 1))
  BY <1>1, SeqMonotonic
<1>4. \A s \in Seq(FrameType(n)) : s \in Seq(FrameType(n + 1))
  BY <1>2, SeqMonotonic
<1>5. Connection(n) \subseteq Connection(n + 1)
  BY <1>4 DEF Connection
<1>6. ReplayTask(n) \subseteq ReplayTask(n + 1)
  BY <1>3 DEF ReplayTask
<1>7. RouteTask(n) \subseteq RouteTask(n + 1)
  BY <1>1 DEF RouteTask
<1>8. TaskType(n) \subseteq TaskType(n + 1)
  BY <1>6, <1>7 DEF TaskType
<1>9. QueueTyped(n + 1)
  BY <1>3 DEF Typed, QueueTyped
<1>10. ConnTyped(n + 1)
  BY <1>5 DEF Typed, ConnTyped
<1>11. TaskTyped(n + 1)
  BY <1>8 DEF Typed, TaskTyped
<1>12. HistoryTyped(n + 1)
  <2>1. received \in [User -> Seq(Issued(n + 1))]
    BY <1>3 DEF Typed, HistoryTyped
  <2> QED  BY <1>1, <2>1 DEF Typed, HistoryTyped
<1> QED  BY <1>9, <1>10, <1>11, <1>12 DEF Typed

LEMMA InitTyped == Init => Types
<1> SUFFICES ASSUME Init PROVE Typed(0)
  BY DEF Types, Init
<1>1. <<>> \in Seq(Issued(0)) /\ <<>> \in Seq(FrameType(0)) /\ <<>> \in Seq(User)
  OBVIOUS
<1>2. Fresh \in Connection(0) /\ Fresh.out = <<>>
  BY <1>1 DEF Fresh, Connection
<1>3. ConnTyped(0)
  BY <1>2, SessionsAssumption DEF Init, ConnTyped
<1>4. Idle \in TaskType(0) /\ Idle.pc \notin RoutePc /\ Idle.pc # "replay"
  BY WaitingTyped
<1>5. TaskTyped(0) /\ LinkTyped
  BY <1>4 DEF Init, TaskTyped, LinkTyped
<1>6. HistoryTyped(0)
  BY <1>1 DEF Init, HistoryTyped
<1>7. OrderTyped
  BY <1>1 DEF Init, OrderTyped, ToSet, IsInjective
<1>8. SubsTyped /\ ClientsTyped /\ QueueTyped(0)
  BY DEF Init, SubsTyped, ClientsTyped, QueueTyped
<1> QED  BY <1>3, <1>5, <1>6, <1>7, <1>8 DEF Typed

LEMMA ConnStep ==
    ASSUME NEW n \in Nat, Typed(n), NEW c \in Conn,
           Accept(c) \/ ReadEnds(c) \/ CloseSignalled(c) \/ Cleanup(c) \/ WriterStep(c) \/ Refuse(c)
    PROVE  Typed(n)' /\ sent' = sent
<1>1. Typed(n)'
  BY AcceptTyped, ReadEndsTyped, CloseSignalledTyped, CleanupTyped, WriteTyped, WriteFailsTyped,
     RefuseTyped DEF WriterStep
<1>2. sent' = sent
  BY DEF Accept, ReadEnds, CloseSignalled, Cleanup, WriterStep, Write, WriteFails, Refuse, history
<1> QED  BY <1>1, <1>2

LEMMA ClientStep ==
    ASSUME NEW n \in Nat, Typed(n), NEW c \in Conn,
           \/ \E u \in User : Identify(c, u)
           \/ \E d \in Doc : Subscribe(c, d) \/ Unsubscribe(c, d)
           \/ Refuse(c)
    PROVE  Typed(n)' /\ sent' = sent
<1>1. Typed(n)'
  BY IdentifyTyped, SubscribeTyped, UnsubscribeTyped, RefuseTyped
<1>2. sent' = sent
  BY DEF Identify, Subscribe, Unsubscribe, Refuse, history
<1> QED  BY <1>1, <1>2

LEMMA HandlerStepKeeps ==
    ASSUME NEW n \in Nat, Typed(n), NEW c \in Conn, HandlerStep(c)
    PROVE  Typed(n)' /\ sent' = sent
<1>1. Typed(n)'
  BY GreetTyped, DrainTyped, ReplayTyped, SendReplyTyped, FanOutSentTyped, FanOutSlowTyped, FanOutAwayTyped,
     EnqueueTyped, DisconnectSlowTyped, DropSubscriptionsTyped DEF HandlerStep
<1>2. sent' = sent
  BY DEF HandlerStep, Greet, Drain, Replay, SendReply, FanOutSent, FanOutSlow, FanOutAway, Enqueue,
         DisconnectSlow, DropSubscriptions, history
<1> QED  BY <1>1, <1>2

LEMMA TypesKept == Types /\ [Next]_vars => Types'
<1> SUFFICES ASSUME Types, [Next]_vars PROVE Types'
  OBVIOUS
<1>1. PICK n \in Nat : sent = n /\ Typed(n)
  BY DEF Types
<1>2. CASE UNCHANGED vars
  <2>1. Typed(n)' /\ sent' = n
    BY <1>1, <1>2, Stays DEF vars, Typed
  <2> QED  BY <2>1 DEF Types
<1>3. ASSUME NEW c \in Conn, NEW d \in Doc, Publish(c, d)
      PROVE  Types'
  <2> DEFINE m == n + 1
  <2>1. Typed(m) /\ m \in Nat /\ sent < m
    BY <1>1, MoreIssued
  <2>2. sent' = m
    BY <1>1, <1>3 DEF Publish
  <2> HIDE DEF m
  <2>3. Typed(m)'
    BY <1>1, <1>3, <2>1, PublishTyped
  <2> QED  BY <2>1, <2>2, <2>3 DEF Types
<1>4. ASSUME NEW c \in Conn,
             \/ Accept(c) \/ ReadEnds(c) \/ CloseSignalled(c) \/ Cleanup(c) \/ WriterStep(c) \/ Refuse(c)
             \/ \E u \in User : Identify(c, u)
             \/ \E d \in Doc : Subscribe(c, d) \/ Unsubscribe(c, d)
             \/ HandlerStep(c)
      PROVE  Types'
  <2>1. Typed(n)' /\ sent' = sent
    BY <1>1, <1>4, ConnStep, ClientStep, HandlerStepKeeps
  <2> QED  BY <1>1, <2>1 DEF Types
<1> QED  BY <1>2, <1>3, <1>4 DEF Next

LEMMA TypesAlways == Spec => []Types
BY InitTyped, TypesKept, PTL DEF Spec

\* Every variable has its type; the insertion order lists each user that has
\* queued messages once and no other, and only an open connection is in a
\* handler (relay.rs, routing.rs, storage.rs).
THEOREM SessionsTypeCorrect == Spec => []TypeOK
<1>1. Types => TypeOK
  <2> SUFFICES ASSUME NEW n \in Nat, sent = n, Typed(n) PROVE TypeOK
    BY DEF Types
  <2>1. Issued(n) \subseteq Message
    BY DEF Issued, Message
  <2>2. \A s \in Seq(Issued(n)) : s \in Seq(Message)
    BY <2>1, SeqMonotonic
  <2>3. \A u \in DOMAIN offline : offline[u] # <<>> /\ offline[u] \in Seq(Message)
    BY <2>2 DEF Typed, QueueTyped
  <2>4. ASSUME NEW c \in Conn
        PROVE  /\ conn[c].phase \in {"new", "open", "closing", "gone"}
               /\ conn[c].uid \in User \cup {NoUser}
               /\ conn[c].signal \in BOOLEAN
               /\ conn[c].writer \in BOOLEAN
               /\ Len(conn[c].out) <= Capacity
               /\ conn[c].phase # "open" => task[c] = Idle
    BY OfConn DEF Connection
  <2>5. ASSUME NEW c \in Conn, NEW i \in DOMAIN conn[c].out
        PROVE  IsFrame(conn[c].out[i])
    <3>1. conn[c].out[i] \in FrameType(n)
      BY OfConn
    <3> QED  BY <2>1, <3>1 DEF IsFrame, FrameType, Control, Routed
  <2>6. ASSUME NEW c \in Conn
        PROVE  IsTask(task[c])
    <3>1. task[c] \in TaskType(n)
      BY OfConn
    <3>2. CASE task[c] \in RouteTask(n)
      BY <2>1, <3>2 DEF IsTask, RouteTask, RoutePc
    <3>3. CASE task[c] \in ReplayTask(n)
      BY <2>2, <3>3 DEF IsTask, ReplayTask
    <3> QED  BY <3>1, <3>2, <3>3 DEF IsTask, TaskType
  <2>7. /\ DOMAIN subs \subseteq Doc /\ \A d \in DOMAIN subs : subs[d] \subseteq User
        /\ DOMAIN clients \subseteq User /\ \A u \in DOMAIN clients : clients[u] \in Conn
        /\ DOMAIN offline \subseteq User
        /\ order \in Seq(User) /\ ToSet(order) = DOMAIN offline /\ IsInjective(order)
        /\ sent \in Nat
    BY DEF Typed, SubsTyped, ClientsTyped, QueueTyped, OrderTyped
  <2> QED  BY <2>3, <2>4, <2>5, <2>6, <2>7 DEF TypeOK
<1> QED  BY <1>1, TypesAlways, PTL

\* Which steps write the client map, and which the subscriptions.
LEMMA WhoWrites ==
    ASSUME NEW c \in Conn
    PROVE  /\ Accept(c) \/ ReadEnds(c) \/ CloseSignalled(c) \/ WriterStep(c) \/ Refuse(c) =>
                 UNCHANGED <<clients, subs>>
           /\ Cleanup(c) => UNCHANGED subs
           /\ \A u \in User : Identify(c, u) => UNCHANGED subs
           /\ \A d \in Doc : Subscribe(c, d) \/ Unsubscribe(c, d) => UNCHANGED clients
           /\ \A d \in Doc : Publish(c, d) => UNCHANGED <<clients, subs>>
           /\ HandlerStep(c) => DisconnectSlow(c) \/ UNCHANGED clients
           /\ HandlerStep(c) => DropSubscriptions(c) \/ UNCHANGED subs
<1>1. Accept(c) \/ ReadEnds(c) \/ CloseSignalled(c) \/ WriterStep(c) \/ Refuse(c) =>
         UNCHANGED <<clients, subs>>
  BY DEF Accept, ReadEnds, CloseSignalled, WriterStep, Write, WriteFails, Refuse, history
<1>2. /\ Cleanup(c) => UNCHANGED subs
      /\ \A u \in User : Identify(c, u) => UNCHANGED subs
      /\ \A d \in Doc : Subscribe(c, d) \/ Unsubscribe(c, d) => UNCHANGED clients
      /\ \A d \in Doc : Publish(c, d) => UNCHANGED <<clients, subs>>
  BY DEF Cleanup, Identify, Subscribe, Unsubscribe, Publish
<1>3. ASSUME NEW u \in User, FanOutSent(c, u) \/ FanOutSlow(c, u) \/ FanOutAway(c, u) \/ Enqueue(c, u)
      PROVE  UNCHANGED <<clients, subs>>
  BY <1>3 DEF FanOutSent, FanOutSlow, FanOutAway, Enqueue
<1>4. /\ Greet(c) \/ Drain(c) \/ Replay(c) \/ SendReply(c) => UNCHANGED <<clients, subs>>
      /\ DisconnectSlow(c) => UNCHANGED subs
      /\ DropSubscriptions(c) => UNCHANGED clients
  BY DEF Greet, Drain, Replay, SendReply, DisconnectSlow, DropSubscriptions
<1> QED  BY <1>1, <1>2, <1>3, <1>4 DEF HandlerStep

\* A session is unregistered by its own connection's teardown or by a fan-out
\* that found that connection too slow: which of the two removed it.
LEMMA WhoUnregisters ==
    ASSUME Types, [Next]_vars, NEW u \in DOMAIN clients, u \notin DOMAIN clients'
    PROVE  \E k \in Conn :
              \/ Cleanup(k) /\ clients[u] = k
              \/ task[k].pc = "disconnect_slow" /\ <<u, clients[u]>> \in task[k].slow
<1>1. PICK n \in Nat : sent = n /\ Typed(n)
  BY DEF Types
<1>2. clients' # clients
  OBVIOUS
<1>3. PICK c \in Conn : Cleanup(c) \/ DisconnectSlow(c) \/ \E v \in User : Identify(c, v)
  BY <1>2, WhoWrites DEF Next, vars
<1>4. CASE Cleanup(c)
  <2>1. Registered(conn[c].uid, c) /\ clients' = Dropping(clients, {conn[c].uid})
    BY <1>2, <1>4 DEF Cleanup
  <2>2. u = conn[c].uid
    BY <2>1 DEF Dropping, Restrict
  <2> QED  BY <1>4, <2>1, <2>2 DEF Registered
<1>5. CASE DisconnectSlow(c)
  <2>1. task[c].slow \subseteq User \X Conn /\ task[c].pc = "disconnect_slow"
    BY <1>1, <1>5, DisconnectSlowTyped DEF RouteTask, DisconnectSlow
  <2>2. PICK s \in task[c].slow : Registered(s[1], s[2]) /\ s[1] = u
    BY <1>5 DEF DisconnectSlow, Dropping, Restrict
  <2>3. s = <<u, clients[u]>>
    BY <2>1, <2>2 DEF Registered
  <2> QED  BY <2>1, <2>2, <2>3
<1>6. CASE \E v \in User : Identify(c, v)
  BY <1>6 DEF Identify
<1> QED  BY <1>3, <1>4, <1>5, <1>6

\* A takeover's new session is never unregistered by the teardown or by the
\* slowness of the connection it replaced (relay.rs:10-13, routing.rs:279-281).
THEOREM NewerSessionsSurvive == Spec => NewerSessionSurvives
<1>1. ASSUME Types, [Next]_vars, NEW u \in DOMAIN clients, u \notin DOMAIN clients'
      PROVE  LET c == clients[u]
             IN  \/ conn[c].phase = "closing" /\ conn'[c].phase = "gone"
                 \/ \E k \in Conn : task[k].pc = "disconnect_slow" /\ <<u, c>> \in task[k].slow
  <2>1. PICK n \in Nat : sent = n /\ Typed(n)
    BY <1>1 DEF Types
  <2>2. ASSUME NEW k \in Conn, Cleanup(k)
        PROVE  conn[k].phase = "closing" /\ conn'[k].phase = "gone"
    BY <2>1, <2>2 DEF Cleanup, Typed, ConnTyped, Fresh
  <2> QED  BY <1>1, <2>2, WhoUnregisters
<1>2. Types /\ [Next]_vars =>
        [\A u \in DOMAIN clients :
            u \notin DOMAIN clients' =>
               LET c == clients[u]
               IN  \/ conn[c].phase = "closing" /\ conn'[c].phase = "gone"
                   \/ \E k \in Conn : task[k].pc = "disconnect_slow" /\ <<u, c>> \in task[k].slow]_vars
  BY <1>1
<1> QED  BY <1>2, TypesAlways, PTL DEF Spec, NewerSessionSurvives

-----------------------------------------------------------------------------
(* The subscription caps.                                                  *)

\* A cap is on the size of a finite set, though User and Doc may be infinite.
Capped(S, k) == IsFiniteSet(S) /\ Cardinality(S) <= k

CapsHold ==
    /\ Capped(DOMAIN subs, MaxDocuments)
    /\ \A d \in DOMAIN subs : subs[d] # {} /\ Capped(subs[d], MaxSubscribers)

LEMMA CappedSubset ==
    ASSUME NEW S, NEW k \in Nat, Capped(S, k), NEW T \in SUBSET S
    PROVE  Capped(T, k)
BY FS_Subset, FS_CardinalityType DEF Capped

LEMMA CappedAdd ==
    ASSUME NEW S, NEW k \in Nat, Capped(S, k), NEW x, x \notin S => Cardinality(S) < k
    PROVE  Capped(S \cup {x}, k)
<1>1. CASE x \in S
  <2>1. S \cup {x} = S
    BY <1>1
  <2> QED  BY <2>1
<1>2. CASE x \notin S
  <2>1. /\ IsFiniteSet(S \cup {x}) /\ Cardinality(S \cup {x}) = Cardinality(S) + 1
        /\ Cardinality(S) \in Nat
    BY <1>2, FS_AddElement, FS_CardinalityType DEF Capped
  <2> QED  BY <1>2, <2>1 DEF Capped
<1> QED  BY <1>1, <1>2

LEMMA PrunedCaps ==
    ASSUME CapsHold, NEW s, DOMAIN s = DOMAIN subs, \A d \in DOMAIN s : s[d] \subseteq subs[d],
           subs' = Pruned(s)
    PROVE  CapsHold'
<1>1. /\ DOMAIN subs' \subseteq DOMAIN subs
      /\ \A d \in DOMAIN subs' : subs'[d] \subseteq subs[d] /\ subs'[d] # {}
  BY DEF Pruned, Dropping, Restrict
<1>2. MaxDocuments \in Nat /\ MaxSubscribers \in Nat
  BY SessionsAssumption
<1>3. Capped(DOMAIN subs', MaxDocuments)
  BY <1>1, <1>2, CappedSubset DEF CapsHold
<1>4. \A d \in DOMAIN subs' : Capped(subs'[d], MaxSubscribers)
  BY <1>1, <1>2, CappedSubset DEF CapsHold
<1> QED  BY <1>1, <1>3, <1>4 DEF CapsHold

LEMMA CapsKept == Types /\ CapsHold /\ [Next]_vars => CapsHold'
<1> SUFFICES ASSUME Types, CapsHold, [Next]_vars, subs' # subs PROVE CapsHold'
  BY DEF CapsHold
<1>1. PICK c \in Conn :
        \/ \E d \in Doc : Subscribe(c, d) \/ Unsubscribe(c, d)
        \/ DropSubscriptions(c)
  BY WhoWrites DEF Next, vars
<1>2. ASSUME NEW d \in Doc, Subscribe(c, d)
      PROVE  CapsHold'
  <2> DEFINE members == IF d \in DOMAIN subs THEN subs[d] ELSE {}
             u == conn[c].uid
  <2>1. /\ d \notin DOMAIN subs => Cardinality(DOMAIN subs) < MaxDocuments
        /\ u \notin members => Cardinality(members) < MaxSubscribers
        /\ subs' = [e \in DOMAIN subs \cup {d} |-> IF e = d THEN members \cup {u} ELSE subs[e]]
    BY <1>2 DEF Subscribe
  <2>2. MaxDocuments \in Nat /\ MaxSubscribers \in Nat
    BY SessionsAssumption
  <2>3. Capped(members, MaxSubscribers)
    BY <2>2, FS_EmptySet DEF CapsHold, Capped
  <2> HIDE DEF members, u
  <2>4. Capped(members \cup {u}, MaxSubscribers)
    BY <2>1, <2>2, <2>3, CappedAdd
  <2>5. Capped(DOMAIN subs \cup {d}, MaxDocuments)
    BY <2>1, <2>2, CappedAdd DEF CapsHold
  <2>6. /\ DOMAIN subs' = DOMAIN subs \cup {d}
        /\ \A e \in DOMAIN subs' : subs'[e] = IF e = d THEN members \cup {u} ELSE subs[e]
    BY <2>1
  <2> QED  BY <2>4, <2>5, <2>6 DEF CapsHold
<1>3. ASSUME NEW d \in Doc, Unsubscribe(c, d)
      PROVE  CapsHold'
  <2> DEFINE s == [subs EXCEPT ![d] = @ \ {conn[c].uid}]
  <2>1. DOMAIN s = DOMAIN subs /\ \A e \in DOMAIN s : s[e] \subseteq subs[e]
    OBVIOUS
  <2>2. subs' = Pruned(s)
    BY <1>3 DEF Unsubscribe
  <2> HIDE DEF s
  <2> QED  BY <2>1, <2>2, PrunedCaps
<1>4. CASE DropSubscriptions(c)
  <2> DEFINE s == [d \in DOMAIN subs |-> subs[d] \ task[c].evicted]
  <2>1. DOMAIN s = DOMAIN subs /\ \A e \in DOMAIN s : s[e] \subseteq subs[e]
    OBVIOUS
  <2>2. subs' = Pruned(s)
    BY <1>4 DEF DropSubscriptions
  <2> HIDE DEF s
  <2> QED  BY <2>1, <2>2, PrunedCaps
<1> QED  BY <1>1, <1>2, <1>3, <1>4

\* No document is tracked for nobody, and neither the documents nor a document's
\* subscribers outgrow their caps (routing.rs, subscribe and drop_subscriptions).
THEOREM SubscriptionsStayCapped == Spec => []SubscriptionCaps
<1>1. Init => CapsHold
  BY FS_EmptySet, SessionsAssumption DEF Init, CapsHold, Capped
<1>2. CapsHold => SubscriptionCaps
  BY DEF CapsHold, SubscriptionCaps, Capped
<1> QED  BY <1>1, <1>2, CapsKept, TypesAlways, PTL DEF Spec

-----------------------------------------------------------------------------
(* Where a message is, as a function of the variables it depends on.       *)

Hit(f, u, id) == IsMessage(f) /\ f.to = u /\ f.msg.id = id
HitsIn(s, u, id) == {i \in DOMAIN s : Hit(s[i], u, id)}
IdsIn(s, id) == {i \in DOMAIN s : s[i].id = id}

InRoutes(tk, u, id) ==
    {c \in Conn : tk[c].pc \in RoutePc /\ tk[c].msg.id = id /\ u \in Bearing(tk[c])}
InQueue(off, u, id) == IF u \in DOMAIN off THEN IdsIn(off[u], id) ELSE {}
InReplays(tk, cn, u, id) ==
    {x \in Conn \X Nat :
        tk[x[1]].pc = "replay" /\ cn[x[1]].uid = u /\ x[2] \in IdsIn(tk[x[1]].rest, id)}
InChannels(cn, u, id) == {x \in Conn \X Nat : x[2] \in HitsIn(cn[x[1]].out, u, id)}
InLost(ls, u, id) == {l \in ls : l.to = u /\ l.id = id}

Single(S) == \E x \in S : S = {x}

\* Exactly one of the six has a member, and it has exactly one.
OneOf(R, Q, P, F, D, L) ==
    \/ Single(R) /\ Q = {} /\ P = {} /\ F = {} /\ D = {} /\ L = {}
    \/ R = {} /\ Single(Q) /\ P = {} /\ F = {} /\ D = {} /\ L = {}
    \/ R = {} /\ Q = {} /\ Single(P) /\ F = {} /\ D = {} /\ L = {}
    \/ R = {} /\ Q = {} /\ P = {} /\ Single(F) /\ D = {} /\ L = {}
    \/ R = {} /\ Q = {} /\ P = {} /\ F = {} /\ Single(D) /\ L = {}
    \/ R = {} /\ Q = {} /\ P = {} /\ F = {} /\ D = {} /\ Single(L)

At(tk, cn, off, rc, ls, u, id) ==
    OneOf(InRoutes(tk, u, id), InQueue(off, u, id), InReplays(tk, cn, u, id),
          InChannels(cn, u, id), IdsIn(rc[u], id), InLost(ls, u, id))

\* The strengthening of ExactlyOnePlace that is inductive: a replay holds a
\* message once, and not merely one replay does.
Once == \A a \in addressed : At(task, conn, offline, received, lost, a.to, a.id)

\* Renumbering a place keeps what OneOf sees of it.
Like(A, B) == (Single(A) => Single(B)) /\ (A = {} => B = {})

LEMMA LikeItself == \A S : Like(S, S)
BY DEF Like

LEMMA OneOfLike ==
    ASSUME NEW R, NEW Q, NEW P, NEW F, NEW D, NEW L, OneOf(R, Q, P, F, D, L),
           NEW R1, NEW Q1, NEW P1, NEW F1, NEW D1, NEW L1,
           Like(R, R1), Like(Q, Q1), Like(P, P1), Like(F, F1), Like(D, D1), Like(L, L1)
    PROVE  OneOf(R1, Q1, P1, F1, D1, L1)
BY DEF OneOf, Like

\* What has a member is the one place, and has no other.
LEMMA OneOfHas ==
    ASSUME NEW R, NEW Q, NEW P, NEW F, NEW D, NEW L, OneOf(R, Q, P, F, D, L)
    PROVE  /\ \A x \in R : R = {x} /\ Q = {} /\ P = {} /\ F = {} /\ D = {} /\ L = {}
           /\ \A x \in Q : R = {} /\ Q = {x} /\ P = {} /\ F = {} /\ D = {} /\ L = {}
           /\ \A x \in P : R = {} /\ Q = {} /\ P = {x} /\ F = {} /\ D = {} /\ L = {}
           /\ \A x \in F : R = {} /\ Q = {} /\ P = {} /\ F = {x} /\ D = {} /\ L = {}
           /\ \A x \in D : R = {} /\ Q = {} /\ P = {} /\ F = {} /\ D = {x} /\ L = {}
           /\ \A x \in L : R = {} /\ Q = {} /\ P = {} /\ F = {} /\ D = {} /\ L = {x}
<1>1. \A S : Single(S) => \A x \in S : S = {x}
  BY DEF Single
<1> QED  BY <1>1 DEF OneOf

LEMMA SingleIs == \A x : Single({x})
BY DEF Single

\* Sequences of frames and of messages.
LEMMA HitsAppend ==
    ASSUME NEW S, NEW s \in Seq(S), NEW f \in S, NEW u, NEW id
    PROVE  HitsIn(Append(s, f), u, id)
              = HitsIn(s, u, id) \cup (IF Hit(f, u, id) THEN {Len(s) + 1} ELSE {})
<1>1. /\ Len(s) \in Nat /\ DOMAIN s = 1..Len(s)
      /\ DOMAIN Append(s, f) = 1..(Len(s) + 1)
      /\ \A i \in 1..Len(s) : Append(s, f)[i] = s[i]
      /\ Append(s, f)[Len(s) + 1] = f
  BY LenProperties, AppendProperties
<1>2. \A i : i \in 1..(Len(s) + 1) <=> i \in 1..Len(s) \/ i = Len(s) + 1
  BY <1>1
<1> QED  BY <1>1, <1>2 DEF HitsIn

LEMMA IdsAppend ==
    ASSUME NEW S, NEW s \in Seq(S), NEW m \in S, NEW id
    PROVE  IdsIn(Append(s, m), id) = IdsIn(s, id) \cup (IF m.id = id THEN {Len(s) + 1} ELSE {})
<1>1. /\ Len(s) \in Nat /\ DOMAIN s = 1..Len(s)
      /\ DOMAIN Append(s, m) = 1..(Len(s) + 1)
      /\ \A i \in 1..Len(s) : Append(s, m)[i] = s[i]
      /\ Append(s, m)[Len(s) + 1] = m
  BY LenProperties, AppendProperties
<1>2. \A i : i \in 1..(Len(s) + 1) <=> i \in 1..Len(s) \/ i = Len(s) + 1
  BY <1>1
<1> QED  BY <1>1, <1>2 DEF IdsIn

LEMMA TailShifts ==
    ASSUME NEW S, NEW s \in Seq(S), s # <<>>
    PROVE  /\ Head(s) = s[1] /\ 1 \in DOMAIN s
           /\ \A i \in DOMAIN Tail(s) : i \in Nat \ {0} /\ i + 1 \in DOMAIN s /\ Tail(s)[i] = s[i + 1]
           /\ \A j \in DOMAIN s : j \in Nat \ {0} /\ (j # 1 => j - 1 \in DOMAIN Tail(s))
<1>1. /\ Len(s) \in Nat \ {0} /\ DOMAIN s = 1..Len(s)
      /\ Head(s) = s[1]
  BY LenProperties, EmptySeq
<1>2. /\ Tail(s) \in Seq(S)
      /\ Len(Tail(s)) = Len(s) - 1
      /\ \A i \in 1..Len(Tail(s)) : Tail(s)[i] = s[i + 1]
  BY HeadTailProperties
<1>3. DOMAIN Tail(s) = 1..(Len(s) - 1)
  BY <1>2, LenProperties
<1> QED  BY <1>1, <1>2, <1>3

LEMMA HitsTail ==
    ASSUME NEW S, NEW s \in Seq(S), s # <<>>, NEW u, NEW id
    PROVE  /\ \A i \in HitsIn(Tail(s), u, id) : i \in Nat \ {0} /\ i + 1 \in HitsIn(s, u, id)
           /\ \A j \in HitsIn(s, u, id) : j \in Nat \ {0} /\ (j # 1 => j - 1 \in HitsIn(Tail(s), u, id))
           /\ 1 \in HitsIn(s, u, id) <=> Hit(Head(s), u, id)
<1>1. \A i \in HitsIn(Tail(s), u, id) : i \in Nat \ {0} /\ i + 1 \in HitsIn(s, u, id)
  BY TailShifts DEF HitsIn
<1>2. ASSUME NEW j \in HitsIn(s, u, id), j # 1
      PROVE  j - 1 \in HitsIn(Tail(s), u, id)
  <2>1. j \in DOMAIN s /\ Hit(s[j], u, id)
    BY DEF HitsIn
  <2>2. j \in Nat /\ j - 1 \in DOMAIN Tail(s) /\ Tail(s)[j - 1] = s[(j - 1) + 1]
    BY <1>2, <2>1, TailShifts
  <2>3. (j - 1) + 1 = j
    BY <2>2
  <2> QED  BY <2>1, <2>2, <2>3 DEF HitsIn
<1>3. \A j \in HitsIn(s, u, id) : j \in Nat \ {0}
  BY TailShifts DEF HitsIn
<1>4. 1 \in HitsIn(s, u, id) <=> Hit(Head(s), u, id)
  BY TailShifts DEF HitsIn
<1> QED  BY <1>1, <1>2, <1>3, <1>4

LEMMA IdsTail ==
    ASSUME NEW S, NEW s \in Seq(S), s # <<>>, NEW id
    PROVE  /\ \A i \in IdsIn(Tail(s), id) : i \in Nat \ {0} /\ i + 1 \in IdsIn(s, id)
           /\ \A j \in IdsIn(s, id) : j \in Nat \ {0} /\ (j # 1 => j - 1 \in IdsIn(Tail(s), id))
           /\ 1 \in IdsIn(s, id) <=> Head(s).id = id
<1>1. \A i \in IdsIn(Tail(s), id) : i \in Nat \ {0} /\ i + 1 \in IdsIn(s, id)
  BY TailShifts DEF IdsIn
<1>2. ASSUME NEW j \in IdsIn(s, id), j # 1
      PROVE  j - 1 \in IdsIn(Tail(s), id)
  <2>1. j \in DOMAIN s /\ s[j].id = id
    BY DEF IdsIn
  <2>2. j \in Nat /\ j - 1 \in DOMAIN Tail(s) /\ Tail(s)[j - 1] = s[(j - 1) + 1]
    BY <1>2, <2>1, TailShifts
  <2>3. (j - 1) + 1 = j
    BY <2>2
  <2> QED  BY <2>1, <2>2, <2>3 DEF IdsIn
<1>3. \A j \in IdsIn(s, id) : j \in Nat \ {0}
  BY TailShifts DEF IdsIn
<1>4. 1 \in IdsIn(s, id) <=> Head(s).id = id
  BY TailShifts DEF IdsIn
<1> QED  BY <1>1, <1>2, <1>3, <1>4

LEMMA ControlAppend ==
    ASSUME NEW n \in Nat, NEW s \in Seq(FrameType(n)), NEW f \in Control, NEW u, NEW id
    PROVE  HitsIn(Append(s, f), u, id) = HitsIn(s, u, id)
<1>1. HitsIn(Append(s, f), u, id)
         = HitsIn(s, u, id) \cup (IF Hit(f, u, id) THEN {Len(s) + 1} ELSE {})
  BY HitsAppend DEF FrameType
<1>2. ~Hit(f, u, id)
  <2>1. 0 \in Nat
    OBVIOUS
  <2> QED  BY <2>1, FrameShapes DEF Hit
<1> QED  BY <1>1, <1>2

LEMMA FrameHits ==
    ASSUME NEW n \in Nat, NEW v \in User, NEW m \in Issued(n), NEW r \in BOOLEAN, NEW u, NEW id
    PROVE  Hit(Frame(v, m, r), u, id) <=> v = u /\ m.id = id
<1>1. Frame(v, m, r) \in Routed(n) /\ Frame(v, m, r).to = v /\ Frame(v, m, r).msg = m
  BY DEF Frame, Routed
<1> QED  BY <1>1, FrameShapes DEF Hit

-----------------------------------------------------------------------------
(* Every step leaves each message in one place.                            *)

LEMMA RoutesSame ==
    ASSUME NEW tk, NEW uk, NEW c, NEW u, NEW id,
           \A j \in Conn : j # c => uk[j] = tk[j],
           c \in InRoutes(uk, u, id) <=> c \in InRoutes(tk, u, id)
    PROVE  InRoutes(uk, u, id) = InRoutes(tk, u, id)
<1>1. \A j \in Conn : j # c => (j \in InRoutes(uk, u, id) <=> j \in InRoutes(tk, u, id))
  BY DEF InRoutes
<1>2. InRoutes(uk, u, id) \subseteq Conn /\ InRoutes(tk, u, id) \subseteq Conn
  BY DEF InRoutes
<1> QED  BY <1>1, <1>2

LEMMA ReplaysSame ==
    ASSUME NEW tk, NEW uk, NEW cn, NEW dn, NEW u, NEW id,
           \A j \in Conn : \/ uk[j] = tk[j] /\ dn[j].uid = cn[j].uid
                           \/ uk[j].pc # "replay" /\ tk[j].pc # "replay"
    PROVE  InReplays(uk, dn, u, id) = InReplays(tk, cn, u, id)
<1>1. ASSUME NEW x \in Conn \X Nat
      PROVE  x \in InReplays(uk, dn, u, id) <=> x \in InReplays(tk, cn, u, id)
  <2>1. x[1] \in Conn
    OBVIOUS
  <2>2. \/ uk[x[1]] = tk[x[1]] /\ dn[x[1]].uid = cn[x[1]].uid
        \/ uk[x[1]].pc # "replay" /\ tk[x[1]].pc # "replay"
    BY <2>1
  <2> QED  BY <2>2 DEF InReplays
<1>2. InReplays(uk, dn, u, id) \subseteq Conn \X Nat /\ InReplays(tk, cn, u, id) \subseteq Conn \X Nat
  BY DEF InReplays
<1> QED  BY <1>1, <1>2

LEMMA ChannelsSame ==
    ASSUME NEW cn, NEW dn, NEW u, NEW id,
           \A j \in Conn : HitsIn(dn[j].out, u, id) = HitsIn(cn[j].out, u, id)
    PROVE  InChannels(dn, u, id) = InChannels(cn, u, id)
<1>1. \A x \in Conn \X Nat : x \in InChannels(dn, u, id) <=> x \in InChannels(cn, u, id)
  BY DEF InChannels
<1>2. InChannels(dn, u, id) \subseteq Conn \X Nat /\ InChannels(cn, u, id) \subseteq Conn \X Nat
  BY DEF InChannels
<1> QED  BY <1>1, <1>2

\* A step that touches none of the six places.
LEMMA OneOfSame ==
    ASSUME NEW u, NEW id, At(task, conn, offline, received, lost, u, id),
           InRoutes(task', u, id) = InRoutes(task, u, id),
           InReplays(task', conn', u, id) = InReplays(task, conn, u, id),
           InChannels(conn', u, id) = InChannels(conn, u, id),
           offline' = offline, received' = received, lost' = lost
    PROVE  At(task', conn', offline', received', lost', u, id)
BY DEF At

\* Steps that touch no message: a phase, a close signal, a control frame.
LEMMA QuietStepKeeps ==
    ASSUME NEW n \in Nat, Typed(n), NEW c \in Conn,
           \/ Accept(c) \/ ReadEnds(c) \/ CloseSignalled(c) \/ Greet(c) \/ SendReply(c) \/ Refuse(c)
           \/ \E v \in User : Identify(c, v)
           \/ DisconnectSlow(c) \/ DropSubscriptions(c)
           \/ \E d \in Doc : Subscribe(c, d) \/ Unsubscribe(c, d),
           NEW u \in User, NEW id, At(task, conn, offline, received, lost, u, id)
    PROVE  At(task', conn', offline', received', lost', u, id)
<1>0. /\ conn \in [Conn -> Connection(n)] /\ task \in [Conn -> TaskType(n)]
      /\ \A j \in Conn : conn[j].out \in Seq(FrameType(n))
  BY DEF Typed, ConnTyped, TaskTyped, Connection
<1>1. CASE Accept(c) \/ ReadEnds(c) \/ CloseSignalled(c)
  <2>1. /\ \A j \in Conn : conn'[j].out = conn[j].out /\ conn'[j].uid = conn[j].uid
        /\ UNCHANGED <<task, offline, received, lost>>
    <3>1. UNCHANGED <<task, offline, received, lost>>
      BY <1>1 DEF Accept, ReadEnds, CloseSignalled, history
    <3>2. conn[c] \in Connection(n)
      BY <1>0
    <3>3. \/ conn' = [conn EXCEPT ![c] = [conn[c] EXCEPT !.phase = "open", !.writer = TRUE]]
          \/ conn' = [conn EXCEPT ![c] = [conn[c] EXCEPT !.phase = "closing"]]
          \/ conn' = [conn EXCEPT ![c] = [conn[c] EXCEPT !.phase = "closing", !.signal = FALSE]]
      BY <1>1 DEF Accept, ReadEnds, CloseSignalled
    <3>4. \A k \in Connection(n) :
            /\ [k EXCEPT !.phase = "open", !.writer = TRUE].out = k.out
            /\ [k EXCEPT !.phase = "open", !.writer = TRUE].uid = k.uid
            /\ [k EXCEPT !.phase = "closing"].out = k.out
            /\ [k EXCEPT !.phase = "closing"].uid = k.uid
            /\ [k EXCEPT !.phase = "closing", !.signal = FALSE].out = k.out
            /\ [k EXCEPT !.phase = "closing", !.signal = FALSE].uid = k.uid
      BY DEF Connection
    <3>5. PICK k : /\ conn' = [conn EXCEPT ![c] = k]
                   /\ k.out = conn[c].out /\ k.uid = conn[c].uid
      BY <3>2, <3>3, <3>4
    <3> QED  BY <1>0, <3>1, <3>5
  <2>2. InChannels(conn', u, id) = InChannels(conn, u, id)
    BY <2>1, ChannelsSame
  <2>3. InReplays(task', conn', u, id) = InReplays(task, conn, u, id)
    BY <2>1, ReplaysSame
  <2> QED  BY <2>1, <2>2, <2>3, OneOfSame
<1>2. CASE Greet(c) \/ SendReply(c)
  <2>1. /\ \/ task' = [task EXCEPT ![c] = [pc |-> "drain"]]
           \/ task' = [task EXCEPT ![c] = Idle]
        /\ task[c].pc \in {"greet", "reply"}
        /\ UNCHANGED <<offline, received, lost>>
    BY <1>2 DEF Greet, SendReply, history
  <2>2. PICK f \in Control : conn' = [conn EXCEPT ![c] = Pushed(@, f)]
    BY <1>2 DEF Greet, SendReply, Control
  <2>3. \A j \in Conn : /\ conn'[j].uid = conn[j].uid
                        /\ conn'[j].out = IF j = c /\ HasRoom(conn[c])
                                          THEN Append(conn[c].out, f) ELSE conn[j].out
    BY <2>2, PushStepTyped DEF FrameType
  <2>4. \A j \in Conn : HitsIn(conn'[j].out, u, id) = HitsIn(conn[j].out, u, id)
    BY <1>0, <2>3, ControlAppend
  <2>5. /\ \A j \in Conn : j # c => task'[j] = task[j]
        /\ task'[c].pc \in {"drain", "idle"}
    BY <1>0, <2>1 DEF Idle
  <2>6. InChannels(conn', u, id) = InChannels(conn, u, id)
    BY <2>4, ChannelsSame
  <2>7. InRoutes(task', u, id) = InRoutes(task, u, id)
    <3>1. c \notin InRoutes(task', u, id) /\ c \notin InRoutes(task, u, id)
      BY <2>1, <2>5 DEF InRoutes, RoutePc
    <3> QED  BY <2>5, <3>1, RoutesSame
  <2>8. InReplays(task', conn', u, id) = InReplays(task, conn, u, id)
    <3>1. \A j \in Conn : \/ task'[j] = task[j] /\ conn'[j].uid = conn[j].uid
                          \/ task'[j].pc # "replay" /\ task[j].pc # "replay"
      BY <2>1, <2>3, <2>5
    <3> QED  BY <3>1, ReplaysSame
  <2> QED  BY <2>1, <2>6, <2>7, <2>8, OneOfSame
<1>3. CASE \E v \in User : Identify(c, v)
  <2>0. PICK v \in User : Identify(c, v)
    BY <1>3
  <2>1. /\ task' = [task EXCEPT ![c] = [pc |-> "greet"]] /\ task[c].pc = "idle"
        /\ UNCHANGED <<offline, received, lost>>
    <3>1. task[c] = Idle /\ UNCHANGED <<offline, received, lost>>
      BY <2>0 DEF Identify, history, AtSelect
    <3>2. task' = [task EXCEPT ![c] = [pc |-> "greet"]]
      BY <2>0 DEF Identify
    <3> QED  BY <3>1, <3>2 DEF Idle
  <2>2. SessionReplaced \in Control
    BY DEF Control
  <2>3. \A j \in Conn : /\ conn'[j].uid = IF j = c THEN v ELSE conn[j].uid
                        /\ \/ conn'[j].out = conn[j].out
                           \/ conn'[j].out = Append(conn[j].out, SessionReplaced)
    BY <2>0, IdentifyDoes
  <2>4. ASSUME NEW j \in Conn
        PROVE  HitsIn(conn'[j].out, u, id) = HitsIn(conn[j].out, u, id)
    <3>1. conn[j].out \in Seq(FrameType(n))
      BY <1>0
    <3>2. HitsIn(Append(conn[j].out, SessionReplaced), u, id) = HitsIn(conn[j].out, u, id)
      BY <2>2, <3>1, ControlAppend
    <3> QED  BY <2>3, <3>2
  <2>5. /\ \A j \in Conn : j # c => task'[j] = task[j]
        /\ task'[c].pc = "greet"
    BY <1>0, <2>1
  <2>6. InChannels(conn', u, id) = InChannels(conn, u, id)
    BY <2>4, ChannelsSame
  <2>7. InRoutes(task', u, id) = InRoutes(task, u, id)
    <3>1. c \notin InRoutes(task', u, id) /\ c \notin InRoutes(task, u, id)
      BY <2>1, <2>5 DEF InRoutes, RoutePc
    <3> QED  BY <2>5, <3>1, RoutesSame
  <2>8. InReplays(task', conn', u, id) = InReplays(task, conn, u, id)
    <3>1. \A j \in Conn : \/ task'[j] = task[j] /\ conn'[j].uid = conn[j].uid
                          \/ task'[j].pc # "replay" /\ task[j].pc # "replay"
      BY <2>1, <2>3, <2>5
    <3> QED  BY <3>1, ReplaysSame
  <2> QED  BY <2>1, <2>6, <2>7, <2>8, OneOfSame
<1>4. CASE DisconnectSlow(c)
  <2>1. /\ task' = [task EXCEPT ![c].pc = "enqueue"] /\ task[c].pc = "disconnect_slow"
        /\ UNCHANGED <<offline, received, lost>>
    BY <1>4 DEF DisconnectSlow, history
  <2>2. /\ task[c] \in RouteTask(n)
        /\ \A j \in Conn : conn'[j].uid = conn[j].uid /\ conn'[j].out = conn[j].out
    BY <1>4, DisconnectSlowTyped
  <2>3. /\ \A j \in Conn : j # c => task'[j] = task[j]
        /\ task'[c].pc = "enqueue" /\ task'[c].msg = task[c].msg
        /\ Bearing(task'[c]) = Bearing(task[c])
    BY <1>0, <2>1, <2>2 DEF RouteTask, Bearing
  <2>4. InChannels(conn', u, id) = InChannels(conn, u, id)
    BY <2>2, ChannelsSame
  <2>5. InRoutes(task', u, id) = InRoutes(task, u, id)
    <3>1. c \in InRoutes(task', u, id) <=> c \in InRoutes(task, u, id)
      BY <2>1, <2>3 DEF InRoutes, RoutePc
    <3> QED  BY <2>3, <3>1, RoutesSame
  <2>6. InReplays(task', conn', u, id) = InReplays(task, conn, u, id)
    <3>1. \A j \in Conn : \/ task'[j] = task[j] /\ conn'[j].uid = conn[j].uid
                          \/ task'[j].pc # "replay" /\ task[j].pc # "replay"
      BY <2>1, <2>2, <2>3
    <3> QED  BY <3>1, ReplaysSame
  <2> QED  BY <2>1, <2>4, <2>5, <2>6, OneOfSame
<1>5. CASE DropSubscriptions(c)
  <2>1. /\ task' = [task EXCEPT ![c] = Idle] /\ task[c].pc = "drop_subscriptions"
        /\ UNCHANGED <<conn, offline, received, lost>>
    BY <1>5 DEF DropSubscriptions, history
  <2>2. /\ \A j \in Conn : j # c => task'[j] = task[j]
        /\ task'[c].pc = "idle"
    BY <1>0, <2>1 DEF Idle
  <2>3. Bearing(task[c]) = {}
    <3>1. RouteSound(task[c])
      BY <2>1, OfConn DEF RoutePc
    <3> QED  BY <2>1, <3>1 DEF RouteSound, Bearing
  <2>4. InRoutes(task', u, id) = InRoutes(task, u, id)
    <3>1. c \notin InRoutes(task', u, id) /\ c \notin InRoutes(task, u, id)
      BY <2>2, <2>3 DEF InRoutes, RoutePc
    <3> QED  BY <2>2, <3>1, RoutesSame
  <2>5. InReplays(task', conn', u, id) = InReplays(task, conn, u, id)
    <3>1. \A j \in Conn : \/ task'[j] = task[j] /\ conn'[j].uid = conn[j].uid
                          \/ task'[j].pc # "replay" /\ task[j].pc # "replay"
      BY <2>1, <2>2
    <3> QED  BY <3>1, ReplaysSame
  <2> QED  BY <2>1, <2>4, <2>5, OneOfSame
<1>6. CASE Refuse(c) \/ \E d \in Doc : Subscribe(c, d) \/ Unsubscribe(c, d)
  <2>1. /\ UNCHANGED <<conn, offline, received, lost>>
        /\ task' = [task EXCEPT ![c] = Replying] /\ task[c] = Idle
    BY <1>6 DEF Refuse, Subscribe, Unsubscribe, IsIdentified, AtSelect, history
  <2>2. /\ \A j \in Conn : j # c => task'[j] = task[j]
        /\ task'[c].pc = "reply" /\ task[c].pc = "idle"
    BY <1>0, <2>1 DEF Idle, Replying
  <2>3. InRoutes(task', u, id) = InRoutes(task, u, id)
    <3>1. c \notin InRoutes(task', u, id) /\ c \notin InRoutes(task, u, id)
      BY <2>2 DEF InRoutes, RoutePc
    <3> QED  BY <2>2, <3>1, RoutesSame
  <2>4. InReplays(task', conn', u, id) = InReplays(task, conn, u, id)
    <3>1. \A j \in Conn : \/ task'[j] = task[j] /\ conn'[j].uid = conn[j].uid
                          \/ task'[j].pc # "replay" /\ task[j].pc # "replay"
      BY <2>1, <2>2
    <3> QED  BY <3>1, ReplaysSame
  <2>5. InChannels(conn', u, id) = InChannels(conn, u, id)
    BY <2>1, ChannelsSame
  <2> QED  BY <2>1, <2>3, <2>4, <2>5, OneOfSame
<1> QED  BY <1>1, <1>2, <1>3, <1>4, <1>5, <1>6

\* A closing connection, or a writer that fails, takes its channel with it.
LEMMA ChannelLostKeeps ==
    ASSUME NEW n \in Nat, Typed(n), NEW c \in Conn,
           \A j \in Conn : /\ conn'[j].uid = conn[j].uid
                           /\ conn'[j].out = IF j = c THEN <<>> ELSE conn[j].out,
           lost' = lost \cup LostWith(conn[c]), UNCHANGED <<task, offline, received>>,
           NEW u \in User, NEW id, At(task, conn, offline, received, lost, u, id)
    PROVE  At(task', conn', offline', received', lost', u, id)
<1> DEFINE R == InRoutes(task, u, id)
           Q == InQueue(offline, u, id)
           P == InReplays(task, conn, u, id)
           F == InChannels(conn, u, id)
           D == IdsIn(received[u], id)
           L == InLost(lost, u, id)
           F1 == InChannels(conn', u, id)
           L1 == InLost(lost', u, id)
<1>1. OneOf(R, Q, P, F, D, L)
  BY DEF At
<1>2. InReplays(task', conn', u, id) = P
  BY ReplaysSame
<1>3. \A x : x \in F1 <=> x \in F /\ x[1] # c
  BY DEF InChannels, HitsIn
<1>4. ASSUME NEW i \in DOMAIN conn[c].out
      PROVE  IsMessage(conn[c].out[i]) => conn[c].out[i] \in Routed(n) /\ i \in Nat
  BY OfConn, FrameShapes
<1> DEFINE Rec(f) == [to |-> f.to, id |-> f.msg.id, where |-> IF f.replayed THEN "replay" ELSE "channel"]
<1>5. \A l : l \in L1 <=> \/ l \in L
                          \/ \E i \in HitsIn(conn[c].out, u, id) : l = Rec(conn[c].out[i])
  BY DEF InLost, LostWith, ToSet, HitsIn, Hit
<1>6. \A i \in HitsIn(conn[c].out, u, id) : <<c, i>> \in F
  BY <1>4 DEF InChannels, HitsIn, Hit
<1>7. \A x \in F : x[1] = c => x[2] \in HitsIn(conn[c].out, u, id) /\ x = <<c, x[2]>>
  BY DEF InChannels
<1> HIDE DEF R, Q, P, F, D, L, F1, L1, Rec
<1>8. OneOf(R, Q, P, F1, D, L1)
  <2>1. CASE \E i \in HitsIn(conn[c].out, u, id) : TRUE
    <3>1. PICK i \in HitsIn(conn[c].out, u, id) : TRUE
      BY <2>1
    <3>2. R = {} /\ Q = {} /\ P = {} /\ F = {<<c, i>>} /\ D = {} /\ L = {}
      <4>1. <<c, i>> \in F
        BY <1>6
      <4> QED  BY <1>1, <4>1, OneOfHas
    <3>3. F1 = {}
      BY <1>3, <3>2
    <3>4. \A j \in HitsIn(conn[c].out, u, id) : j = i
      BY <1>6, <3>2
    <3>5. L1 = {Rec(conn[c].out[i])}
      BY <1>5, <3>1, <3>2, <3>4
    <3> QED  BY <3>2, <3>3, <3>5, SingleIs DEF OneOf
  <2>2. CASE ~ \E i \in HitsIn(conn[c].out, u, id) : TRUE
    <3>1. F1 = F /\ L1 = L
      BY <1>3, <1>5, <1>7, <2>2
    <3> QED  BY <1>1, <3>1
  <2> QED  BY <2>1, <2>2
<1> QED  BY <1>2, <1>8 DEF At, R, Q, D, F1, L1

LEMMA CleanupKeeps ==
    ASSUME NEW n \in Nat, Typed(n), NEW c \in Conn, Cleanup(c) \/ WriteFails(c),
           NEW u \in User, NEW id, At(task, conn, offline, received, lost, u, id)
    PROVE  At(task', conn', offline', received', lost', u, id)
<1>1. /\ \A j \in Conn : /\ conn'[j].uid = conn[j].uid
                         /\ conn'[j].out = IF j = c THEN <<>> ELSE conn[j].out
      /\ lost' = lost \cup LostWith(conn[c]) /\ UNCHANGED <<task, offline, received>>
  <2>1. conn \in [Conn -> Connection(n)]
    BY DEF Typed, ConnTyped
  <2>2. lost' = lost \cup LostWith(conn[c]) /\ UNCHANGED <<task, offline, received>>
    BY DEF Cleanup, WriteFails
  <2>3. CASE Cleanup(c)
    <3>1. conn' = [conn EXCEPT ![c] = [Fresh EXCEPT !.phase = "gone", !.uid = conn[c].uid]]
      BY <2>3 DEF Cleanup
    <3> QED  BY <2>1, <2>2, <3>1 DEF Fresh
  <2>4. CASE WriteFails(c)
    <3>1. conn' = [conn EXCEPT ![c] = [conn[c] EXCEPT !.out = <<>>, !.writer = FALSE]]
      BY <2>4 DEF WriteFails
    <3>2. \A k \in Connection(n) : /\ [k EXCEPT !.out = <<>>, !.writer = FALSE].out = <<>>
                                   /\ [k EXCEPT !.out = <<>>, !.writer = FALSE].uid = k.uid
      BY DEF Connection
    <3> QED  BY <2>1, <2>2, <3>1, <3>2
  <2> QED  BY <2>3, <2>4
<1> QED  BY <1>1, ChannelLostKeeps

\* Of numbered places on one connection, the others staying as they are.
LEMMA ShiftedOn ==
    ASSUME NEW F, NEW G, NEW c \in Conn, F \subseteq Conn \X Nat, G \subseteq Conn \X Nat,
           \A x \in Conn \X Nat : x[1] # c => (x \in F <=> x \in G),
           <<c, 1>> \notin F,
           \A i \in Nat : <<c, i>> \in G => i # 0 /\ <<c, i + 1>> \in F,
           \A j \in Nat : <<c, j>> \in F => j # 0 /\ (j # 1 => <<c, j - 1>> \in G)
    PROVE  Like(F, G)
<1>0. \A x \in Conn \X Nat : x[1] = c => x = <<c, x[2]>> /\ x[2] \in Nat
  OBVIOUS
<1>1. ASSUME F = {} PROVE G = {}
  <2>1. ASSUME NEW x \in G PROVE FALSE
    <3>1. x[1] = c
      BY <1>1
    <3>2. x = <<c, x[2]>> /\ x[2] \in Nat
      BY <1>0, <3>1
    <3>3. <<c, x[2] + 1>> \in F
      BY <3>2
    <3> QED  BY <1>1, <3>3
  <2> QED  BY <2>1
<1>2. ASSUME NEW x \in F, F = {x}, x[1] = c PROVE Single(G)
  <2>1. x = <<c, x[2]>> /\ x[2] \in Nat
    BY <1>0, <1>2
  <2>2. x[2] # 0 /\ x[2] # 1 /\ <<c, x[2] - 1>> \in G
    BY <2>1
  <2>3. ASSUME NEW y \in G PROVE y = <<c, x[2] - 1>>
    <3>1. y[1] = c
      <4>1. y[1] # c => y \in F
        OBVIOUS
      <4> QED  BY <1>2, <4>1
    <3>2. y = <<c, y[2]>> /\ y[2] \in Nat
      BY <1>0, <3>1
    <3>3. <<c, y[2] + 1>> \in F
      BY <3>2
    <3>4. <<c, y[2] + 1>> = <<c, x[2]>>
      BY <1>2, <2>1, <3>3
    <3>5. y[2] + 1 = x[2]
      BY <3>4
    <3>6. y[2] = x[2] - 1
      BY <2>1, <3>2, <3>5
    <3> QED  BY <3>2, <3>6
  <2>4. G = {<<c, x[2] - 1>>}
    BY <2>2, <2>3
  <2> QED  BY <2>4, SingleIs
<1>3. ASSUME NEW x \in F, F = {x}, x[1] # c PROVE Single(G)
  <2>1. x \in G
    BY <1>3
  <2>2. ASSUME NEW y \in G PROVE y = x
    <3>1. CASE y[1] # c
      BY <1>3, <3>1
    <3>2. CASE y[1] = c
      <4>1. y = <<c, y[2]>> /\ y[2] \in Nat
        BY <1>0, <3>2
      <4>2. <<c, y[2] + 1>> \in F
        BY <4>1
      <4> QED  BY <1>3, <4>2
    <3> QED  BY <3>1, <3>2
  <2>3. G = {x}
    BY <2>1, <2>2
  <2> QED  BY <2>3, SingleIs
<1> QED  BY <1>1, <1>2, <1>3 DEF Like, Single

\* A message moves from the place that has it to the one that takes it.
LEMMA WriteKeeps ==
    ASSUME NEW n \in Nat, Typed(n), NEW c \in Conn, Write(c),
           NEW u \in User, NEW id, At(task, conn, offline, received, lost, u, id)
    PROVE  At(task', conn', offline', received', lost', u, id)
<1> DEFINE s == conn[c].out
           f == Head(s)
           R == InRoutes(task, u, id)
           Q == InQueue(offline, u, id)
           P == InReplays(task, conn, u, id)
           F == InChannels(conn, u, id)
           D == IdsIn(received[u], id)
           L == InLost(lost, u, id)
           F1 == InChannels(conn', u, id)
           D1 == IdsIn(received'[u], id)
<1>0. /\ conn \in [Conn -> Connection(n)] /\ s \in Seq(FrameType(n)) /\ s # <<>>
      /\ received \in [User -> Seq(Issued(n))]
  BY DEF Typed, ConnTyped, Connection, Write, HistoryTyped
<1>1. OneOf(R, Q, P, F, D, L)
  BY DEF At
<1>2. UNCHANGED <<task, offline, lost>>
  BY DEF Write
<1>3. \A j \in Conn : /\ conn'[j].uid = conn[j].uid
                      /\ conn'[j].out = IF j = c THEN Tail(s) ELSE conn[j].out
  BY <1>0 DEF Write, Connection
<1>4. InReplays(task', conn', u, id) = P
  BY <1>2, <1>3, ReplaysSame
<1>5. \A i : <<c, i>> \in F <=> i \in Nat /\ i \in HitsIn(s, u, id)
  BY DEF InChannels
<1>6. \A i : <<c, i>> \in F1 <=> i \in Nat /\ i \in HitsIn(Tail(s), u, id)
  BY <1>3 DEF InChannels
<1>7. \A x \in Conn \X Nat : x[1] # c => (x \in F <=> x \in F1)
  BY <1>3 DEF InChannels
<1>8. F \subseteq Conn \X Nat /\ F1 \subseteq Conn \X Nat
  BY DEF InChannels
<1>9. /\ \A i \in HitsIn(Tail(s), u, id) : i \in Nat \ {0} /\ i + 1 \in HitsIn(s, u, id)
      /\ \A j \in HitsIn(s, u, id) : j \in Nat \ {0} /\ (j # 1 => j - 1 \in HitsIn(Tail(s), u, id))
      /\ 1 \in HitsIn(s, u, id) <=> Hit(f, u, id)
  BY <1>0, HitsTail
<1>10. received' = IF IsMessage(f) THEN [received EXCEPT ![f.to] = Append(@, f.msg)] ELSE received
  BY DEF Write
<1>11. IsMessage(f) => f.to \in User /\ f.msg \in Issued(n)
  <2>1. f \in FrameType(n)
    BY <1>0, HeadTailProperties
  <2> QED  BY <2>1, FrameShapes DEF Routed
<1>12. received[u] \in Seq(Issued(n)) /\ Len(received[u]) \in Nat
  BY <1>0, LenProperties
<1> HIDE DEF R, Q, P, F, D, L, F1, D1, f, s
<1>13. CASE Hit(f, u, id)
  <2>1. <<c, 1>> \in F
    BY <1>5, <1>9, <1>13
  <2>2. R = {} /\ Q = {} /\ P = {} /\ F = {<<c, 1>>} /\ D = {} /\ L = {}
    BY <1>1, <2>1, OneOfHas
  <2>3. F1 = {}
    <3> SUFFICES ASSUME NEW x \in F1 PROVE FALSE
      OBVIOUS
    <3>1. x \in Conn \X Nat
      BY <1>8
    <3>2. CASE x[1] # c
      <4>1. x \in F
        BY <1>7, <3>1, <3>2
      <4> QED  BY <2>2, <3>2, <4>1
    <3>3. CASE x[1] = c
      <4>1. x = <<c, x[2]>>
        BY <3>1, <3>3
      <4>2. x[2] \in Nat \ {0} /\ <<c, x[2] + 1>> \in F
        BY <1>5, <1>6, <1>9, <4>1
      <4>3. x[2] + 1 = 1
        BY <2>2, <4>2
      <4> QED  BY <4>2, <4>3
    <3> QED  BY <3>2, <3>3
  <2>4. D1 = {Len(received[u]) + 1}
    <3>1. f.to = u /\ f.msg.id = id /\ received'[u] = Append(received[u], f.msg) /\ f.msg \in Issued(n)
      BY <1>0, <1>10, <1>11, <1>13 DEF Hit
    <3>2. IdsIn(Append(received[u], f.msg), id)
             = IdsIn(received[u], id) \cup (IF f.msg.id = id THEN {Len(received[u]) + 1} ELSE {})
      BY <1>12, <3>1, IdsAppend
    <3> QED  BY <2>2, <3>1, <3>2 DEF D, D1
  <2>5. OneOf(R, Q, P, F1, D1, L)
    BY <2>2, <2>3, <2>4, SingleIs DEF OneOf
  <2> QED  BY <1>2, <1>4, <2>5 DEF At, R, Q, P, L, F1, D1
<1>14. CASE ~Hit(f, u, id)
  <2>1. Like(F, F1)
    <3>1. <<c, 1>> \notin F
      BY <1>5, <1>9, <1>14
    <3>2. \A i \in Nat : <<c, i>> \in F1 => i # 0 /\ <<c, i + 1>> \in F
      BY <1>5, <1>6, <1>9
    <3>3. \A j \in Nat : <<c, j>> \in F => j # 0 /\ (j # 1 => <<c, j - 1>> \in F1)
      BY <1>5, <1>6, <1>9
    <3> QED  BY <1>7, <1>8, <3>1, <3>2, <3>3, ShiftedOn
  <2>2. D1 = D
    <3>1. CASE ~IsMessage(f) \/ f.to # u
      <4>1. received'[u] = received[u]
        BY <1>0, <1>10, <3>1
      <4> QED  BY <4>1 DEF D, D1
    <3>2. CASE IsMessage(f) /\ f.to = u
      <4>1. f.msg.id # id /\ received'[u] = Append(received[u], f.msg) /\ f.msg \in Issued(n)
        BY <1>0, <1>10, <1>11, <1>14, <3>2 DEF Hit
      <4>2. IdsIn(Append(received[u], f.msg), id)
               = IdsIn(received[u], id) \cup (IF f.msg.id = id THEN {Len(received[u]) + 1} ELSE {})
        BY <1>12, <4>1, IdsAppend
      <4> QED  BY <4>1, <4>2 DEF D, D1
    <3> QED  BY <3>1, <3>2
  <2>3. OneOf(R, Q, P, F1, D1, L)
    BY <1>1, <2>1, <2>2, LikeItself, OneOfLike
  <2> QED  BY <1>2, <1>4, <2>3 DEF At, R, Q, P, L, F1, D1
<1> QED  BY <1>13, <1>14

\* A routed frame enters one channel, if it has room.
LEMMA PushChannels ==
    ASSUME NEW n \in Nat, Typed(n), NEW d \in Conn, NEW f \in FrameType(n), NEW u, NEW id,
           \A j \in Conn : conn'[j].out = IF j = d /\ HasRoom(conn[d])
                                          THEN Append(conn[d].out, f) ELSE conn[j].out
    PROVE  /\ ~(HasRoom(conn[d]) /\ Hit(f, u, id)) =>
                 InChannels(conn', u, id) = InChannels(conn, u, id)
           /\ HasRoom(conn[d]) /\ Hit(f, u, id) =>
                 InChannels(conn', u, id)
                    = InChannels(conn, u, id) \cup {<<d, Len(conn[d].out) + 1>>}
<1> DEFINE s == conn[d].out
<1>1. \A j \in Conn :
         conn'[j].out = IF j = d /\ HasRoom(conn[d]) THEN Append(s, f) ELSE conn[j].out
  OBVIOUS
<1>2. s \in Seq(FrameType(n)) /\ Len(s) \in Nat
  BY OfConn DEF Connection
<1>3. HitsIn(Append(s, f), u, id) = HitsIn(s, u, id) \cup (IF Hit(f, u, id) THEN {Len(s) + 1} ELSE {})
  BY <1>2, HitsAppend
<1>4. CASE ~(HasRoom(conn[d]) /\ Hit(f, u, id))
  <2>1. \A j \in Conn : HitsIn(conn'[j].out, u, id) = HitsIn(conn[j].out, u, id)
    BY <1>1, <1>3, <1>4
  <2>2. InChannels(conn', u, id) = InChannels(conn, u, id)
    BY <2>1, ChannelsSame
  <2> QED  BY <1>4, <2>2
<1>5. CASE HasRoom(conn[d]) /\ Hit(f, u, id)
  <2> DEFINE p == <<d, Len(s) + 1>>
  <2>0. p \in Conn \X Nat /\ p[1] = d /\ p[2] = Len(s) + 1
    BY <1>2
  <2>1. ASSUME NEW x \in Conn \X Nat
        PROVE  x \in InChannels(conn', u, id) <=> x \in InChannels(conn, u, id) \/ x = p
    <3>1. CASE x[1] # d
      <4>1. conn'[x[1]].out = conn[x[1]].out
        BY <1>1, <3>1
      <4> QED  BY <2>0, <3>1, <4>1 DEF InChannels
    <3>2. CASE x[1] = d
      <4>1. x[2] \in HitsIn(conn'[d].out, u, id) <=> x[2] \in HitsIn(s, u, id) \/ x[2] = Len(s) + 1
        BY <1>1, <1>3, <1>5
      <4>2. x = <<d, x[2]>>
        BY <3>2
      <4>3. x = p <=> x[2] = Len(s) + 1
        BY <4>2
      <4> QED  BY <3>2, <4>1, <4>3 DEF InChannels
    <3> QED  BY <3>1, <3>2
  <2>2. InChannels(conn', u, id) \subseteq Conn \X Nat /\ InChannels(conn, u, id) \subseteq Conn \X Nat
    BY DEF InChannels
  <2>3. InChannels(conn', u, id) = InChannels(conn, u, id) \cup {p}
    BY <2>0, <2>1, <2>2
  <2> QED  BY <1>5, <2>3
<1> QED  BY <1>4, <1>5

LEMMA ReplayKeeps ==
    ASSUME NEW n \in Nat, Typed(n), NEW c \in Conn, Replay(c),
           NEW u \in User, NEW id, At(task, conn, offline, received, lost, u, id)
    PROVE  At(task', conn', offline', received', lost', u, id)
<1> DEFINE s == task[c].rest
           m == Head(s)
           v == conn[c].uid
           f == Frame(v, m, TRUE)
           R == InRoutes(task, u, id)
           Q == InQueue(offline, u, id)
           P == InReplays(task, conn, u, id)
           F == InChannels(conn, u, id)
           D == IdsIn(received[u], id)
           L == InLost(lost, u, id)
           P1 == InReplays(task', conn', u, id)
           F1 == InChannels(conn', u, id)
           L1 == InLost(lost', u, id)
           new == [to |-> v, id |-> m.id, where |-> "replay"]
<1>0. /\ task \in [Conn -> TaskType(n)] /\ s \in Seq(Issued(n)) /\ s # <<>> /\ v \in User
      /\ task[c].pc = "replay"
  BY OfConn, TaskShapes DEF Typed, TaskTyped, Replay, ReplayTask
<1>1. OneOf(R, Q, P, F, D, L)
  BY DEF At
<1>2. /\ task' = [task EXCEPT ![c] = IF Tail(s) = <<>> THEN Idle ELSE [pc |-> "replay", rest |-> Tail(s)]]
      /\ conn' = [conn EXCEPT ![c] = Pushed(@, f)]
      /\ lost' = IF conn[c].writer THEN lost ELSE lost \cup {new}
      /\ UNCHANGED <<offline, received>>
      /\ HasRoom(conn[c]) <=> conn[c].writer
  BY DEF Replay, CanSend, HasRoom
<1>3. /\ \A j \in Conn : j # c => task'[j] = task[j]
      /\ Tail(s) = <<>> => task'[c] = Idle
      /\ Tail(s) # <<>> => task'[c].pc = "replay" /\ task'[c].rest = Tail(s)
  BY <1>0, <1>2
<1>4. m \in Issued(n)
  BY <1>0, HeadTailProperties
<1>5. f \in FrameType(n) /\ (Hit(f, u, id) <=> v = u /\ m.id = id)
  <2>1. f \in FrameType(n)
    BY <1>0, <1>4 DEF Frame, FrameType, Routed
  <2>2. Hit(f, u, id) <=> v = u /\ m.id = id
    <3> HIDE DEF m, v
    <3> QED  BY <1>0, <1>4, FrameHits
  <2> QED  BY <2>1, <2>2
<1> HIDE DEF f
<1>6. /\ \A j \in Conn : conn'[j].uid = conn[j].uid
      /\ ~(HasRoom(conn[c]) /\ Hit(f, u, id)) => F1 = F
      /\ HasRoom(conn[c]) /\ Hit(f, u, id) => F1 = F \cup {<<c, Len(conn[c].out) + 1>>}
  <2>1. conn' = [conn EXCEPT ![c] = Pushed(@, f)] /\ f \in FrameType(n)
    BY <1>2, <1>5
  <2>2. \A j \in Conn : /\ conn'[j].uid = conn[j].uid
                        /\ conn'[j].out = IF j = c /\ HasRoom(conn[c])
                                          THEN Append(conn[c].out, f) ELSE conn[j].out
    BY <2>1, PushStepTyped
  <2>3. /\ ~(HasRoom(conn[c]) /\ Hit(f, u, id)) => F1 = F
        /\ HasRoom(conn[c]) /\ Hit(f, u, id) => F1 = F \cup {<<c, Len(conn[c].out) + 1>>}
    BY <1>5, <2>2, PushChannels
  <2> QED  BY <2>2, <2>3
<1>7. InRoutes(task', u, id) = R
  <2>1. task'[c].pc \notin RoutePc
    BY <1>3 DEF Idle, RoutePc
  <2>2. c \notin InRoutes(task', u, id) /\ c \notin InRoutes(task, u, id)
    BY <1>0, <2>1 DEF InRoutes, RoutePc
  <2> QED  BY <1>3, <2>2, RoutesSame
<1>8. \A i : <<c, i>> \in P <=> i \in Nat /\ v = u /\ i \in IdsIn(s, id)
  BY <1>0 DEF InReplays
<1>9. \A i : <<c, i>> \in P1 <=> i \in Nat /\ v = u /\ i \in IdsIn(Tail(s), id)
  <2>1. Tail(s) = <<>> => IdsIn(Tail(s), id) = {} /\ task'[c].pc # "replay"
    BY <1>3 DEF IdsIn, Idle
  <2> QED  BY <1>3, <1>6, <2>1 DEF InReplays
<1>10. \A x \in Conn \X Nat : x[1] # c => (x \in P <=> x \in P1)
  BY <1>3, <1>6 DEF InReplays
<1>11. P \subseteq Conn \X Nat /\ P1 \subseteq Conn \X Nat
  BY DEF InReplays
<1>12. /\ \A i \in IdsIn(Tail(s), id) : i \in Nat \ {0} /\ i + 1 \in IdsIn(s, id)
       /\ \A j \in IdsIn(s, id) : j \in Nat \ {0} /\ (j # 1 => j - 1 \in IdsIn(Tail(s), id))
       /\ 1 \in IdsIn(s, id) <=> m.id = id
  BY <1>0, IdsTail
<1>13. \A l : l \in L1 <=> l \in L \/ (~conn[c].writer /\ l = new /\ v = u /\ m.id = id)
  <2>1. new.to = v /\ new.id = m.id
    OBVIOUS
  <2> HIDE DEF new
  <2> QED  BY <1>2, <2>1 DEF InLost
<1> HIDE DEF R, Q, P, F, D, L, P1, F1, L1, new, m, s
<1>14. CASE v = u /\ m.id = id
  <2>1. <<c, 1>> \in P
    BY <1>8, <1>12, <1>14
  <2>2. R = {} /\ Q = {} /\ P = {<<c, 1>>} /\ F = {} /\ D = {} /\ L = {}
    BY <1>1, <2>1, OneOfHas
  <2>3. P1 = {}
    <3> SUFFICES ASSUME NEW x \in P1 PROVE FALSE
      OBVIOUS
    <3>1. x \in Conn \X Nat
      BY <1>11
    <3>2. CASE x[1] # c
      <4>1. x \in P
        BY <1>10, <3>1, <3>2
      <4> QED  BY <2>2, <3>2, <4>1
    <3>3. CASE x[1] = c
      <4>1. x = <<c, x[2]>>
        BY <3>1, <3>3
      <4>2. x[2] \in Nat \ {0} /\ <<c, x[2] + 1>> \in P
        BY <1>8, <1>9, <1>12, <4>1
      <4>3. x[2] + 1 = 1
        BY <2>2, <4>2
      <4> QED  BY <4>2, <4>3
    <3> QED  BY <3>2, <3>3
  <2>4. CASE conn[c].writer
    <3>1. F1 = {<<c, Len(conn[c].out) + 1>>} /\ L1 = {}
      BY <1>2, <1>5, <1>6, <1>13, <1>14, <2>2, <2>4
    <3> QED  BY <1>2, <1>7, <2>2, <2>3, <3>1, SingleIs DEF At, OneOf, R, Q, D, P1, F1, L1
  <2>5. CASE ~conn[c].writer
    <3>1. F1 = {} /\ L1 = {new}
      BY <1>2, <1>6, <1>13, <1>14, <2>2, <2>5
    <3> QED  BY <1>2, <1>7, <2>2, <2>3, <3>1, SingleIs DEF At, OneOf, R, Q, D, P1, F1, L1
  <2> QED  BY <2>4, <2>5
<1>15. CASE ~(v = u /\ m.id = id)
  <2>1. Like(P, P1)
    <3>1. <<c, 1>> \notin P
      BY <1>8, <1>12, <1>15
    <3>2. \A i \in Nat : <<c, i>> \in P1 => i # 0 /\ <<c, i + 1>> \in P
      BY <1>8, <1>9, <1>12
    <3>3. \A j \in Nat : <<c, j>> \in P => j # 0 /\ (j # 1 => <<c, j - 1>> \in P1)
      BY <1>8, <1>9, <1>12
    <3> QED  BY <1>10, <1>11, <3>1, <3>2, <3>3, ShiftedOn
  <2>2. F1 = F /\ L1 = L
    BY <1>5, <1>6, <1>13, <1>15
  <2>3. OneOf(R, Q, P1, F1, D, L1)
    BY <1>1, <2>1, <2>2, LikeItself, OneOfLike
  <2> QED  BY <1>2, <1>7, <2>3 DEF At, R, Q, D, P1, F1, L1
<1> QED  BY <1>14, <1>15

\* The queued messages of a user go to its replay.
LEMMA DrainKeeps ==
    ASSUME NEW n \in Nat, Typed(n), NEW c \in Conn, Drain(c),
           NEW u \in User, NEW id, At(task, conn, offline, received, lost, u, id)
    PROVE  At(task', conn', offline', received', lost', u, id)
<1> DEFINE v == conn[c].uid
           R == InRoutes(task, u, id)
           Q == InQueue(offline, u, id)
           P == InReplays(task, conn, u, id)
           F == InChannels(conn, u, id)
           D == IdsIn(received[u], id)
           L == InLost(lost, u, id)
           Q1 == InQueue(offline', u, id)
           P1 == InReplays(task', conn', u, id)
<1>0. task \in [Conn -> TaskType(n)] /\ task[c].pc = "drain"
  BY DEF Typed, TaskTyped, Drain
<1>1. OneOf(R, Q, P, F, D, L)
  BY DEF At
<1>2. UNCHANGED <<conn, received, lost>>
  BY DEF Drain, history
<1>3. /\ \A j \in Conn : j # c => task'[j] = task[j]
      /\ v \in DOMAIN offline =>
            task'[c].pc = "replay" /\ task'[c].rest = offline[v] /\ offline' = Dropping(offline, {v})
      /\ v \notin DOMAIN offline => task'[c] = Idle /\ offline' = offline
  BY <1>0 DEF Drain
<1>4. InRoutes(task', u, id) = R
  <2>1. task'[c].pc \notin RoutePc
    BY <1>3 DEF Idle, RoutePc
  <2>2. c \notin InRoutes(task', u, id) /\ c \notin InRoutes(task, u, id)
    BY <1>0, <2>1 DEF InRoutes, RoutePc
  <2> QED  BY <1>3, <2>2, RoutesSame
<1>5. CASE v \in DOMAIN offline /\ v = u
  <2>1. Q = IdsIn(offline[u], id) /\ Q1 = {}
    BY <1>3, <1>5 DEF InQueue, Dropping, Restrict
  <2>2. Q \subseteq Nat
    <3>1. offline[u] \in Seq(Issued(n))
      BY <1>5 DEF Typed, QueueTyped
    <3>2. DOMAIN offline[u] \subseteq Nat
      BY <3>1, LenProperties
    <3> QED  BY <2>1, <3>2 DEF IdsIn
  <2>3. ASSUME NEW x \in Conn \X Nat
        PROVE  x \in P1 <=> x \in P \/ (x[1] = c /\ x[2] \in Q)
    <3>1. CASE x[1] # c
      BY <1>2, <1>3, <3>1 DEF InReplays
    <3>2. CASE x[1] = c
      <4>1. x \notin P
        BY <1>0, <3>2 DEF InReplays
      <4>2. x \in P1 <=> x[2] \in Q
        BY <1>2, <1>3, <1>5, <2>1, <3>2 DEF InReplays
      <4> QED  BY <3>2, <4>1, <4>2
    <3> QED  BY <3>1, <3>2
  <2>4. P \subseteq Conn \X Nat /\ P1 \subseteq Conn \X Nat
    BY DEF InReplays
  <2> HIDE DEF R, Q, P, F, D, L, P1, Q1
  <2>5. CASE Q = {}
    <3>1. P1 = P
      BY <2>3, <2>4, <2>5
    <3>2. OneOf(R, Q1, P1, F, D, L)
      BY <1>1, <2>1, <2>5, <3>1
    <3> QED  BY <1>2, <1>4, <3>2 DEF At, R, F, D, L, P1, Q1
  <2>6. ASSUME NEW i \in Q
        PROVE  OneOf(R, Q1, P1, F, D, L)
    <3>1. R = {} /\ Q = {i} /\ P = {} /\ F = {} /\ D = {} /\ L = {}
      BY <1>1, OneOfHas
    <3>2. i \in Nat
      BY <2>2
    <3>3. <<c, i>> \in P1
      BY <2>3, <3>2
    <3>4. ASSUME NEW x \in P1 PROVE x = <<c, i>>
      <4>1. x \in Conn \X Nat
        BY <2>4
      <4>2. x[1] = c /\ x[2] = i
        BY <2>3, <3>1, <4>1
      <4> QED  BY <4>1, <4>2
    <3>5. P1 = {<<c, i>>}
      BY <3>3, <3>4
    <3> QED  BY <2>1, <3>1, <3>5, SingleIs DEF OneOf
  <2>7. ASSUME NEW i \in Q
        PROVE  At(task', conn', offline', received', lost', u, id)
    BY <1>2, <1>4, <2>6, <2>7 DEF At, R, F, D, L, P1, Q1
  <2> QED  BY <2>5, <2>7
<1>6. CASE ~(v \in DOMAIN offline /\ v = u)
  <2>1. Q1 = Q
    BY <1>3, <1>6 DEF InQueue, Dropping, Restrict
  <2>2. ASSUME NEW x \in Conn \X Nat
        PROVE  x \in P1 <=> x \in P
    <3>1. CASE x[1] # c
      BY <1>2, <1>3, <3>1 DEF InReplays
    <3>2. CASE x[1] = c
      <4>1. x \notin P
        BY <1>0, <3>2 DEF InReplays
      <4>2. v = u => task'[c] = Idle
        BY <1>3, <1>6
      <4>3. x \notin P1
        BY <1>2, <3>2, <4>2 DEF InReplays, Idle
      <4> QED  BY <4>1, <4>3
    <3> QED  BY <3>1, <3>2
  <2>3. P \subseteq Conn \X Nat /\ P1 \subseteq Conn \X Nat
    BY DEF InReplays
  <2>4. P1 = P
    BY <2>2, <2>3
  <2>5. OneOf(R, Q1, P1, F, D, L)
    BY <1>1, <2>1, <2>4
  <2> QED  BY <1>2, <1>4, <2>5 DEF At
<1> QED  BY <1>5, <1>6

\* A route goes on, bearing its message to those in B.
LEMMA RouteGoesOn ==
    ASSUME NEW c \in Conn, task[c].pc \in RoutePc, NEW t, NEW B,
           \A j \in Conn : task'[j] = IF j = c THEN t ELSE task[j],
           t.pc \in RoutePc => t.msg = task[c].msg /\ Bearing(t) = B,
           t.pc \notin RoutePc => t = Idle /\ B = {},
           \A j \in Conn : conn'[j].uid = conn[j].uid,
           NEW u, NEW id
    PROVE  /\ InReplays(task', conn', u, id) = InReplays(task, conn, u, id)
           /\ \A j \in Conn : j # c => task'[j] = task[j]
           /\ c \in InRoutes(task', u, id) <=> task[c].msg.id = id /\ u \in B
           /\ c \in InRoutes(task, u, id) <=> task[c].msg.id = id /\ u \in Bearing(task[c])
<1>1. \A j \in Conn : \/ task'[j] = task[j] /\ conn'[j].uid = conn[j].uid
                      \/ task'[j].pc # "replay" /\ task[j].pc # "replay"
  BY DEF Idle, RoutePc
<1>2. InReplays(task', conn', u, id) = InReplays(task, conn, u, id)
  BY <1>1, ReplaysSame
<1>3. c \in InRoutes(task', u, id) <=> task[c].msg.id = id /\ u \in B
  <2>1. c \in InRoutes(task', u, id) <=> t.pc \in RoutePc /\ t.msg.id = id /\ u \in Bearing(t)
    BY DEF InRoutes
  <2> QED  BY <2>1
<1>4. c \in InRoutes(task, u, id) <=> task[c].msg.id = id /\ u \in Bearing(task[c])
  BY DEF InRoutes
<1> QED  BY <1>2, <1>3, <1>4

\* The handlers after a step that moves one.
LEMMA TaskReads ==
    ASSUME NEW n \in Nat, Typed(n), NEW c \in Conn, NEW t, task' = [task EXCEPT ![c] = t]
    PROVE  \A j \in Conn : task'[j] = IF j = c THEN t ELSE task[j]
BY DEF Typed, TaskTyped

\* The message of a route goes to a channel.
LEMMA FanOutSentKeeps ==
    ASSUME NEW n \in Nat, Typed(n), NEW c \in Conn, NEW v \in User, FanOutSent(c, v),
           NEW u \in User, NEW id, At(task, conn, offline, received, lost, u, id)
    PROVE  At(task', conn', offline', received', lost', u, id)
<1> DEFINE t == [task[c] EXCEPT !.to = @ \ {v}]
           m == task[c].msg
           f == Frame(v, m, FALSE)
           d == clients[v]
           R == InRoutes(task, u, id)
           Q == InQueue(offline, u, id)
           P == InReplays(task, conn, u, id)
           F == InChannels(conn, u, id)
           D == IdsIn(received[u], id)
           L == InLost(lost, u, id)
           R1 == InRoutes(task', u, id)
           F1 == InChannels(conn', u, id)
<1>0. OneOf(R, Q, P, F, D, L)
  BY DEF At
<1>1. /\ task[c] \in RouteTask(n) /\ RouteSound(task[c])
      /\ m \in Issued(n) /\ task[c].pc \in {"route", "fan_out"}
      /\ d \in Conn /\ v \in task[c].to /\ HasRoom(conn[d])
      /\ UNCHANGED <<offline, received, lost>>
  BY FanOutRoute DEF FanOutSent, Typed, ClientsTyped, history
<1>2. /\ t \in RouteTask(n) /\ RouteSound(t) /\ t.pc \in {"route", "fan_out"} /\ t.msg = m
      /\ Bearing(t) = Bearing(task[c]) \ {v} /\ v \in Bearing(task[c])
  <2>1. /\ t \in RouteTask(n) /\ t.pc = task[c].pc /\ t.msg = m
        /\ t.to = task[c].to \ {v} /\ t.slow = task[c].slow /\ t.away = task[c].away
    BY <1>1 DEF RouteTask
  <2> HIDE DEF t
  <2>2. RouteSound(t)
    BY <1>1, <2>1 DEF RouteSound
  <2>3. Bearing(t) = Bearing(task[c]) \ {v} /\ v \in Bearing(task[c])
    BY <1>1, <2>1 DEF RouteSound, Bearing
  <2> QED  BY <1>1, <2>1, <2>2, <2>3
<1>3. f \in FrameType(n)
  BY <1>1 DEF Frame, FrameType, Routed
<1>4. Hit(f, u, id) <=> v = u /\ m.id = id
  <2>1. m \in Issued(n)
    BY <1>1
  <2> HIDE DEF m
  <2> QED  BY <2>1, FrameHits
<1>5. /\ task' = [task EXCEPT ![c] = Onward(t)]
      /\ conn' = [conn EXCEPT ![d] = Pushed(@, f)]
  BY DEF FanOutSent
<1> HIDE DEF t, f, d
<1>6. /\ Onward(t).pc \in RoutePc => Onward(t).msg = m /\ Bearing(Onward(t)) = Bearing(t)
      /\ Onward(t).pc \notin RoutePc => Onward(t) = Idle /\ Bearing(t) = {}
  BY <1>2, OnwardTyped
<1>7. \A j \in Conn : /\ conn'[j].uid = conn[j].uid
                      /\ conn'[j].out = IF j = d /\ HasRoom(conn[d])
                                        THEN Append(conn[d].out, f) ELSE conn[j].out
  BY <1>1, <1>3, <1>5, PushStepTyped
<1>8. /\ ~Hit(f, u, id) => F1 = F
      /\ Hit(f, u, id) => F1 = F \cup {<<d, Len(conn[d].out) + 1>>}
  BY <1>1, <1>3, <1>7, PushChannels
<1>9. /\ InReplays(task', conn', u, id) = P
      /\ \A j \in Conn : j # c => task'[j] = task[j]
      /\ c \in R1 <=> m.id = id /\ u \in Bearing(t)
      /\ c \in R <=> m.id = id /\ u \in Bearing(task[c])
  <2>1. task[c].pc \in RoutePc /\ \A j \in Conn : conn'[j].uid = conn[j].uid
    BY <1>1, <1>7 DEF RoutePc
  <2>2. \A j \in Conn : task'[j] = IF j = c THEN Onward(t) ELSE task[j]
    BY <1>5, TaskReads
  <2> DEFINE x == Onward(t)
             B == Bearing(t)
  <2>3. /\ x.pc \in RoutePc => x.msg = task[c].msg /\ Bearing(x) = B
        /\ x.pc \notin RoutePc => x = Idle /\ B = {}
        /\ \A j \in Conn : task'[j] = IF j = c THEN x ELSE task[j]
    BY <1>6, <2>2
  <2> HIDE DEF x, B
  <2>4. /\ InReplays(task', conn', u, id) = InReplays(task, conn, u, id)
        /\ \A j \in Conn : j # c => task'[j] = task[j]
        /\ c \in InRoutes(task', u, id) <=> task[c].msg.id = id /\ u \in B
        /\ c \in InRoutes(task, u, id) <=> task[c].msg.id = id /\ u \in Bearing(task[c])
    BY <2>1, <2>3, RouteGoesOn
  <2> QED  BY <2>4 DEF B
<1>10. CASE v = u /\ m.id = id
  <2>1. c \in R /\ c \notin R1
    BY <1>2, <1>9, <1>10
  <2>2. R = {c} /\ Q = {} /\ P = {} /\ F = {} /\ D = {} /\ L = {}
    <3> HIDE DEF R, Q, P, F, D, L
    <3> QED  BY <1>0, <2>1, OneOfHas
  <2>3. R1 = {}
    <3>1. \A j \in R1 : j # c /\ j \in R
      BY <1>9, <2>1 DEF InRoutes
    <3> HIDE DEF R, R1
    <3> QED  BY <2>2, <3>1
  <2>4. F1 = {<<d, Len(conn[d].out) + 1>>}
    BY <1>4, <1>8, <1>10, <2>2
  <2> HIDE DEF R, Q, P, F, D, L, R1, F1
  <2>5. OneOf(R1, Q, P, F1, D, L)
    BY <2>2, <2>3, <2>4, SingleIs DEF OneOf
  <2> QED  BY <1>1, <1>9, <2>5 DEF At, R1, F1, Q, P, D, L
<1>11. CASE ~(v = u /\ m.id = id)
  <2>1. R1 = R
    <3>1. c \in R1 <=> c \in R
      BY <1>2, <1>9, <1>11
    <3> QED  BY <1>9, <3>1, RoutesSame
  <2>2. F1 = F
    BY <1>4, <1>8, <1>11
  <2> HIDE DEF R, Q, P, F, D, L, R1, F1
  <2>3. OneOf(R1, Q, P, F1, D, L)
    BY <1>0, <2>1, <2>2
  <2> QED  BY <1>1, <1>9, <2>3 DEF At, R1, F1, Q, P, D, L
<1> QED  BY <1>10, <1>11

\* Whom the fan-out could not send to stays with the route.
LEMMA FanOutRestKeeps ==
    ASSUME NEW n \in Nat, Typed(n), NEW c \in Conn, NEW v \in User,
           FanOutSlow(c, v) \/ FanOutAway(c, v),
           NEW u \in User, NEW id, At(task, conn, offline, received, lost, u, id)
    PROVE  At(task', conn', offline', received', lost', u, id)
<1>1. /\ task[c] \in RouteTask(n) /\ RouteSound(task[c])
      /\ task[c].pc \in {"route", "fan_out"} /\ v \in task[c].to
      /\ UNCHANGED <<conn, offline, received, lost>>
  <2>1. task[c].pc \in {"route", "fan_out"} /\ v \in task[c].to /\ UNCHANGED <<conn, offline, received, lost>>
    BY DEF FanOutSlow, FanOutAway, history
  <2> QED  BY <2>1, FanOutRoute
<1>2. ASSUME NEW t, t \in RouteTask(n), RouteSound(t), t.pc \in {"route", "fan_out"},
             t.msg = task[c].msg, Bearing(t) = Bearing(task[c]),
             task' = [task EXCEPT ![c] = Onward(t)]
      PROVE  At(task', conn', offline', received', lost', u, id)
  <2>1. /\ Onward(t).pc \in RoutePc => Onward(t).msg = task[c].msg /\ Bearing(Onward(t)) = Bearing(t)
        /\ Onward(t).pc \notin RoutePc => Onward(t) = Idle /\ Bearing(t) = {}
    BY <1>2, OnwardTyped
  <2>2. task[c].pc \in RoutePc /\ \A j \in Conn : conn'[j].uid = conn[j].uid
    BY <1>1 DEF RoutePc
  <2>3. /\ InReplays(task', conn', u, id) = InReplays(task, conn, u, id)
        /\ \A j \in Conn : j # c => task'[j] = task[j]
        /\ c \in InRoutes(task', u, id) <=> c \in InRoutes(task, u, id)
    <3>1. /\ InReplays(task', conn', u, id) = InReplays(task, conn, u, id)
          /\ \A j \in Conn : j # c => task'[j] = task[j]
          /\ c \in InRoutes(task', u, id) <=> task[c].msg.id = id /\ u \in Bearing(t)
          /\ c \in InRoutes(task, u, id) <=> task[c].msg.id = id /\ u \in Bearing(task[c])
      <4>1. \A j \in Conn : task'[j] = IF j = c THEN Onward(t) ELSE task[j]
        BY <1>2, TaskReads
      <4> QED  BY <2>1, <2>2, <4>1, RouteGoesOn
    <3> QED  BY <1>2, <3>1
  <2>4. InRoutes(task', u, id) = InRoutes(task, u, id)
    BY <2>3, RoutesSame
  <2>5. InChannels(conn', u, id) = InChannels(conn, u, id)
    BY <1>1, ChannelsSame
  <2> QED  BY <1>1, <2>3, <2>4, <2>5, OneOfSame
<1>3. CASE FanOutSlow(c, v)
  <2> DEFINE t == [task[c] EXCEPT !.to = @ \ {v}, !.slow = @ \cup {<<v, clients[v]>>}]
  <2>0. /\ task[c].slow \cup {<<v, clients[v]>>} \in SUBSET (User \X Conn)
        /\ task[c].to \ {v} \in SUBSET User
    <3>1. clients[v] \in Conn
      BY <1>3 DEF FanOutSlow, Typed, ClientsTyped
    <3> QED  BY <1>1, <3>1 DEF RouteTask
  <2>1. /\ t \in RouteTask(n)
        /\ t.pc = task[c].pc /\ t.msg = task[c].msg
        /\ t.to = task[c].to \ {v} /\ t.away = task[c].away
        /\ t.slow = task[c].slow \cup {<<v, clients[v]>>}
    BY <1>1, <2>0 DEF RouteTask
  <2>2. task' = [task EXCEPT ![c] = Onward(t)]
    BY <1>3 DEF FanOutSlow
  <2> HIDE DEF t
  <2>3. v \notin task[c].away /\ <<v, clients[v]>>[1] = v
    BY <1>1 DEF RouteSound
  <2>4. \A s \in t.slow : s[1] \notin t.to \cup t.away
    BY <1>1, <2>1, <2>3 DEF RouteSound
  <2>5. RouteSound(t)
    BY <1>1, <2>1, <2>4 DEF RouteSound
  <2>6. Bearing(t) = Bearing(task[c])
    <3>1. {s[1] : s \in t.slow} = {s[1] : s \in task[c].slow} \cup {v}
      BY <2>1, <2>3
    <3> QED  BY <1>1, <2>1, <3>1 DEF Bearing
  <2> QED  BY <1>1, <1>2, <2>1, <2>2, <2>5, <2>6
<1>4. CASE FanOutAway(c, v)
  <2> DEFINE t == [task[c] EXCEPT !.to = @ \ {v}, !.away = @ \cup {v}]
  <2>1. /\ t \in RouteTask(n)
        /\ t.pc = task[c].pc /\ t.msg = task[c].msg
        /\ t.to = task[c].to \ {v} /\ t.away = task[c].away \cup {v}
        /\ t.slow = task[c].slow
    BY <1>1 DEF RouteTask
  <2>2. task' = [task EXCEPT ![c] = Onward(t)]
    BY <1>4 DEF FanOutAway
  <2> HIDE DEF t
  <2>3. RouteSound(t)
    BY <1>1, <2>1 DEF RouteSound
  <2>4. Bearing(t) = Bearing(task[c])
    BY <1>1, <2>1 DEF Bearing
  <2> QED  BY <1>1, <1>2, <2>1, <2>2, <2>3, <2>4
<1> QED  BY <1>3, <1>4

\* What the queue holds for u.
Held(off, u) == IF u \in DOMAIN off THEN off[u] ELSE <<>>

\* A message that s holds once is in t as well, still once, or t has dropped it;
\* and t holds none that s does not.
Fewer(s, t, id) ==
    /\ IdsIn(s, id) = {} => IdsIn(t, id) = {}
    /\ \A j : IdsIn(s, id) = {j} =>
          \/ IdsIn(t, id) = {}
          \/ \E i : IdsIn(t, id) = {i} /\ t[i] = s[j]

LEMMA FewerItself == \A s, id : Fewer(s, s, id)
BY DEF Fewer

LEMMA FewerThanFewer ==
    ASSUME NEW s, NEW t, NEW r, NEW id, Fewer(s, t, id), Fewer(t, r, id)
    PROVE  Fewer(s, r, id)
<1>1. IdsIn(s, id) = {} => IdsIn(r, id) = {}
  BY DEF Fewer
<1>2. ASSUME NEW j, IdsIn(s, id) = {j}
      PROVE  IdsIn(r, id) = {} \/ \E i : IdsIn(r, id) = {i} /\ r[i] = s[j]
  <2>1. CASE IdsIn(t, id) = {}
    BY <2>1 DEF Fewer
  <2>2. ASSUME NEW i, IdsIn(t, id) = {i}, t[i] = s[j]
        PROVE  IdsIn(r, id) = {} \/ \E k : IdsIn(r, id) = {k} /\ r[k] = s[j]
    BY <2>2 DEF Fewer
  <2> QED  BY <1>2, <2>1, <2>2 DEF Fewer
<1> QED  BY <1>1, <1>2 DEF Fewer

\* Dropping the oldest.
LEMMA FewerTail ==
    ASSUME NEW S, NEW s \in Seq(S), s # <<>>, NEW id
    PROVE  Fewer(s, Tail(s), id)
<1> DEFINE A == IdsIn(s, id)
           B == IdsIn(Tail(s), id)
<1>1. /\ \A i \in B : i \in Nat \ {0} /\ i + 1 \in A
      /\ \A j \in A : j \in Nat \ {0} /\ (j # 1 => j - 1 \in B)
  BY IdsTail
<1>2. \A i \in B : Tail(s)[i] = s[i + 1]
  BY TailShifts DEF IdsIn
<1> HIDE DEF A, B
<1>3. A = {} => B = {}
  BY <1>1
<1>4. ASSUME NEW j, A = {j}, j = 1 PROVE B = {}
  <2>1. \A i \in B : FALSE
    BY <1>1, <1>4
  <2> QED  BY <2>1
<1>5. ASSUME NEW j, A = {j}, j # 1 PROVE B = {j - 1} /\ Tail(s)[j - 1] = s[j]
  <2>1. j \in Nat /\ j - 1 \in B
    BY <1>1, <1>5
  <2>2. \A i \in B : i \in Nat /\ i + 1 = j
    BY <1>1, <1>5
  <2>3. \A i \in B : i = j - 1
    BY <2>1, <2>2
  <2>4. Tail(s)[j - 1] = s[(j - 1) + 1]
    BY <1>2, <2>1
  <2>5. (j - 1) + 1 = j
    BY <2>1
  <2>6. B = {j - 1}
    BY <2>1, <2>3
  <2> QED  BY <2>4, <2>5, <2>6
<1>6. \A j : A = {j} => B = {} \/ \E i : B = {i} /\ Tail(s)[i] = s[j]
  BY <1>4, <1>5
<1> QED  BY <1>3, <1>6 DEF Fewer, A, B

\* Adding a message of another id.
LEMMA FewerAppend ==
    ASSUME NEW S, NEW s \in Seq(S), NEW m \in S, NEW id, m.id # id
    PROVE  Fewer(s, Append(s, m), id)
<1>1. IdsIn(Append(s, m), id) = IdsIn(s, id)
  <2>1. IdsIn(Append(s, m), id) = IdsIn(s, id) \cup (IF m.id = id THEN {Len(s) + 1} ELSE {})
    BY IdsAppend
  <2> QED  BY <2>1
<1>2. \A j \in IdsIn(s, id) : Append(s, m)[j] = s[j]
  BY AppendProperties, LenProperties DEF IdsIn
<1> QED  BY <1>1, <1>2 DEF Fewer

LEMMA FewerShorter ==
    ASSUME NEW S, NEW s \in Seq(S), NEW t, Shorter(t, s), NEW id
    PROVE  Fewer(s, t, id)
BY FewerItself, FewerTail DEF Shorter

LEMMA FewerNone ==
    ASSUME NEW s, NEW id
    PROVE  Fewer(s, <<>>, id) /\ IdsIn(<<>>, id) = {}
<1>1. IdsIn(<<>>, id) = {}
  BY DEF IdsIn
<1> QED  BY <1>1 DEF Fewer

LEMMA QueueIsHeld ==
    ASSUME NEW off, NEW u, NEW id
    PROVE  InQueue(off, u, id) = IdsIn(Held(off, u), id)
BY FewerNone DEF InQueue, Held

\* What the queue holds for u after a message has been queued for v.
LEMMA EnqueueHolds ==
    ASSUME NEW n \in Nat, Typed(n), NEW c \in Conn, NEW v \in User, Enqueue(c, v),
           NEW u \in User, NEW id
    PROVE  /\ Held(offline, u) \in Seq(Issued(n))
           /\ Held(offline', u) \in Seq(Issued(n))
           /\ ~(v = u /\ task[c].msg.id = id) => Fewer(Held(offline, u), Held(offline', u), id)
           /\ v = u /\ task[c].msg.id = id /\ IdsIn(Held(offline, u), id) = {}
                 => Single(IdsIn(Held(offline', u), id))
<1> DEFINE s == Held(offline, u)
           s1 == Held(offline', u)
           m == task[c].msg
<1>0. task[c] \in RouteTask(n) /\ m \in Issued(n)
  BY EnqueueDoes DEF RouteTask
<1>1. s \in Seq(Issued(n))
  BY DEF Held, Typed, QueueTyped
<1>2. s1 \in Seq(Issued(n))
  BY EnqueueDoes DEF Held, QueueTyped
<1>3. CASE v # u
  <2>1. CASE u \in DOMAIN offline'
    <3>1. u \in DOMAIN offline /\ Shorter(offline'[u], offline[u])
      BY <1>3, <2>1, EnqueueDoes
    <3>2. Shorter(s1, s)
      BY <2>1, <3>1 DEF Held
    <3> HIDE DEF s, s1
    <3>3. Fewer(s, s1, id)
      BY <1>1, <3>2, FewerShorter
    <3> QED  BY <1>1, <1>2, <1>3, <3>3 DEF s, s1
  <2>2. CASE u \notin DOMAIN offline'
    <3>1. s1 = <<>>
      BY <2>2 DEF Held
    <3>2. Fewer(s, s1, id)
      BY <3>1, FewerNone
    <3> QED  BY <1>1, <1>2, <1>3, <3>2
  <2> QED  BY <2>1, <2>2
<1>4. CASE v = u
  <2>1. u \in DOMAIN offline' /\ s1 = offline'[u]
    BY <1>4, EnqueueDoes DEF Held
  <2>2. PICK t \in Seq(Issued(n)) :
          /\ t = <<>> \/ (u \in DOMAIN offline /\ Shorter(t, offline[u]))
          /\ offline'[u] = Append(t, m) \/ (t # <<>> /\ offline'[u] = Tail(Append(t, m)))
    BY <1>4, EnqueueDoes
  <2>3. t = <<>> \/ Shorter(t, s)
    BY <2>2 DEF Held
  <2>4. s1 = Append(t, m) \/ (t # <<>> /\ s1 = Tail(Append(t, m)))
    BY <2>1, <2>2
  <2> HIDE DEF s, s1, m
  <2>5. Fewer(s, t, id)
    BY <1>1, <2>3, FewerNone, FewerShorter
  <2>6. Append(t, m) \in Seq(Issued(n)) /\ Append(t, m) # <<>> /\ Len(t) \in Nat
    BY <1>0, AppendProperties, LenProperties
  <2>7. Fewer(Append(t, m), s1, id)
    <3>1. Fewer(Append(t, m), Tail(Append(t, m)), id)
      BY <2>6, FewerTail
    <3> QED  BY <2>4, <3>1, FewerItself
  <2>8. CASE m.id # id
    <3>1. Fewer(t, Append(t, m), id)
      BY <1>0, <2>8, FewerAppend
    <3>2. Fewer(s, s1, id)
      BY <2>5, <2>7, <3>1, FewerThanFewer
    <3> QED  BY <1>1, <1>2, <2>8, <3>2 DEF s, s1, m
  <2>9. ASSUME m.id = id, IdsIn(s, id) = {}
        PROVE  Single(IdsIn(s1, id))
    <3>1. IdsIn(t, id) = {}
      BY <2>5, <2>9 DEF Fewer
    <3>2. IdsIn(Append(t, m), id) = {Len(t) + 1}
      BY <1>0, <2>9, <3>1, IdsAppend
    <3>3. CASE s1 = Append(t, m)
      BY <3>2, <3>3, SingleIs
    <3>4. CASE t # <<>> /\ s1 = Tail(Append(t, m))
      <4>1. Len(t) + 1 # 1
        BY <2>6, <3>4, EmptySeq
      <4>2. (Len(t) + 1) - 1 \in IdsIn(s1, id)
        BY <2>6, <3>2, <3>4, <4>1, IdsTail
      <4>3. IdsIn(s1, id) # {}
        BY <4>2
      <4> QED  BY <2>7, <3>2, <4>3 DEF Fewer, Single
    <3> QED  BY <2>4, <3>3, <3>4
  <2> QED  BY <1>1, <1>2, <1>4, <2>8, <2>9 DEF s, s1, m
<1> QED  BY <1>3, <1>4

\* What the queue gives up for u when it queues a message for v.
LEMMA EnqueueLoses ==
    ASSUME NEW n \in Nat, Typed(n), NEW c \in Conn, NEW v \in User, Enqueue(c, v),
           NEW u \in User, NEW id
    PROVE  /\ IdsIn(Held(offline, u), id) = {} => InLost(lost', u, id) = InLost(lost, u, id)
           /\ \A j : IdsIn(Held(offline, u), id) = {j} =>
                InLost(lost', u, id) = InLost(lost, u, id) \cup
                   (IF Held(offline, u)[j] \in ToSet(Held(offline', u)) THEN {}
                    ELSE {[to |-> u, id |-> id, where |-> "queue"]})
<1> DEFINE s == Held(offline, u)
           s1 == Held(offline', u)
           X == {l \in UNION {LostFromQueue(w) : w \in DOMAIN offline} : l.to = u /\ l.id = id}
           G == {m \in ToSet(s) : m.id = id /\ m \notin ToSet(s1)}
<1>1. InLost(lost', u, id) = InLost(lost, u, id) \cup X
  BY DEF Enqueue, InLost
<1>2. X = {[to |-> u, id |-> m.id, where |-> "queue"] : m \in G}
  <2>0. ToSet(<<>>) = {}
    BY DEF ToSet
  <2>1. \A w \in DOMAIN offline : LostFromQueue(w) =
          {[to |-> w, id |-> m.id, where |-> "queue"] :
              m \in ToSet(Held(offline, w)) \ ToSet(Held(offline', w))}
    BY <2>0 DEF LostFromQueue, Held
  <2>2. u \notin DOMAIN offline => G = {}
    BY <2>0 DEF Held
  <2>3. ASSUME NEW l \in X PROVE \E m \in G : l = [to |-> u, id |-> m.id, where |-> "queue"]
    BY <2>1
  <2>4. ASSUME NEW m \in G PROVE [to |-> u, id |-> m.id, where |-> "queue"] \in X
    <3>1. u \in DOMAIN offline
      BY <2>2
    <3>2. [to |-> u, id |-> m.id, where |-> "queue"] \in LostFromQueue(u)
      BY <2>1, <3>1
    <3> QED  BY <3>1, <3>2
  <2> QED  BY <2>3, <2>4
<1>3. ToSet(s) = {s[i] : i \in DOMAIN s}
  BY DEF ToSet
<1>4. IdsIn(s, id) = {} => G = {}
  BY <1>3 DEF IdsIn
<1>5. ASSUME NEW j, IdsIn(s, id) = {j}
      PROVE  G = IF s[j] \in ToSet(s1) THEN {} ELSE {s[j]}
  <2>1. j \in DOMAIN s /\ s[j].id = id
    BY <1>5 DEF IdsIn
  <2>2. \A m \in G : m = s[j]
    BY <1>3, <1>5 DEF IdsIn
  <2>3. s[j] \in ToSet(s)
    BY <1>3, <2>1
  <2> QED  BY <2>1, <2>2, <2>3
<1> HIDE DEF s, s1, X, G
<1>6. IdsIn(s, id) = {} => InLost(lost', u, id) = InLost(lost, u, id)
  BY <1>1, <1>2, <1>4
<1>7. ASSUME NEW j, IdsIn(s, id) = {j}
      PROVE  InLost(lost', u, id) = InLost(lost, u, id) \cup
                (IF s[j] \in ToSet(s1) THEN {} ELSE {[to |-> u, id |-> id, where |-> "queue"]})
  <2>1. s[j].id = id
    BY <1>7 DEF IdsIn
  <2>2. CASE s[j] \in ToSet(s1)
    BY <1>1, <1>2, <1>5, <1>7, <2>2
  <2>3. CASE s[j] \notin ToSet(s1)
    <3>1. G = {s[j]}
      BY <1>5, <1>7, <2>3
    <3>2. X = {[to |-> u, id |-> id, where |-> "queue"]}
      BY <1>2, <2>1, <3>1
    <3> QED  BY <1>1, <2>3, <3>2
  <2> QED  BY <2>2, <2>3
<1> QED  BY <1>6, <1>7 DEF s, s1

\* The message of a route goes to the queue, and what the queue drops for it is lost.
LEMMA EnqueueKeeps ==
    ASSUME NEW n \in Nat, Typed(n), NEW c \in Conn, NEW v \in User, Enqueue(c, v),
           NEW u \in User, NEW id, At(task, conn, offline, received, lost, u, id)
    PROVE  At(task', conn', offline', received', lost', u, id)
<1> DEFINE m == task[c].msg
           s == Held(offline, u)
           s1 == Held(offline', u)
           R == InRoutes(task, u, id)
           Q == InQueue(offline, u, id)
           P == InReplays(task, conn, u, id)
           F == InChannels(conn, u, id)
           D == IdsIn(received[u], id)
           L == InLost(lost, u, id)
           R1 == InRoutes(task', u, id)
           Q1 == InQueue(offline', u, id)
           L1 == InLost(lost', u, id)
           lose == [to |-> u, id |-> id, where |-> "queue"]
<1>0. OneOf(R, Q, P, F, D, L)
  BY DEF At
<1>1. UNCHANGED <<conn, received>>
  BY DEF Enqueue
<1>2. /\ InReplays(task', conn', u, id) = P
      /\ \A j \in Conn : j # c => task'[j] = task[j]
      /\ c \in R1 <=> m.id = id /\ u \in Bearing(task[c]) \ {v}
      /\ c \in R <=> m.id = id /\ u \in Bearing(task[c])
      /\ v \in Bearing(task[c])
  <2>1. PICK t \in TaskType(n) :
          /\ task' = [task EXCEPT ![c] = t]
          /\ t.pc \in RoutePc =>
                /\ RouteSound(t)
                /\ t.msg = task[c].msg
                /\ Bearing(t) = Bearing(task[c]) \ {v}
          /\ t.pc \notin RoutePc => t = Idle /\ Bearing(task[c]) \subseteq {v}
    BY EnqueueDoes
  <2> DEFINE B == Bearing(task[c]) \ {v}
  <2>2. \A j \in Conn : task'[j] = IF j = c THEN t ELSE task[j]
    BY <2>1, TaskReads
  <2>3. /\ t.pc \in RoutePc => t.msg = task[c].msg /\ Bearing(t) = B
        /\ t.pc \notin RoutePc => t = Idle /\ B = {}
        /\ task[c].pc \in RoutePc
        /\ \A j \in Conn : conn'[j].uid = conn[j].uid
        /\ v \in Bearing(task[c])
    BY <1>1, <2>1, EnqueueDoes DEF RoutePc
  <2> HIDE DEF B
  <2>4. /\ InReplays(task', conn', u, id) = InReplays(task, conn, u, id)
        /\ \A j \in Conn : j # c => task'[j] = task[j]
        /\ c \in InRoutes(task', u, id) <=> task[c].msg.id = id /\ u \in B
        /\ c \in InRoutes(task, u, id) <=> task[c].msg.id = id /\ u \in Bearing(task[c])
    BY <2>2, <2>3, RouteGoesOn
  <2> QED  BY <2>3, <2>4 DEF B
<1>3. Q = IdsIn(s, id) /\ Q1 = IdsIn(s1, id)
  BY QueueIsHeld
<1>4. /\ ~(v = u /\ m.id = id) => Fewer(s, s1, id)
      /\ v = u /\ m.id = id /\ IdsIn(s, id) = {} => Single(IdsIn(s1, id))
  BY EnqueueHolds
<1>5. /\ IdsIn(s, id) = {} => L1 = L
      /\ \A j : IdsIn(s, id) = {j} => L1 = L \cup (IF s[j] \in ToSet(s1) THEN {} ELSE {lose})
  BY EnqueueLoses
<1>6. ASSUME OneOf(R1, Q1, P, F, D, L1)
      PROVE  At(task', conn', offline', received', lost', u, id)
  BY <1>1, <1>2, <1>6 DEF At
<1>7. CASE v = u /\ m.id = id
  <2>1. c \in R /\ c \notin R1
    BY <1>2, <1>7
  <2>2. \A j \in R1 : j # c /\ j \in R
    BY <1>2, <2>1 DEF InRoutes
  <2> HIDE DEF R, Q, P, F, D, L, R1, Q1, L1
  <2>3. R = {c} /\ Q = {} /\ P = {} /\ F = {} /\ D = {} /\ L = {}
    BY <1>0, <2>1, OneOfHas
  <2>4. R1 = {}
    BY <2>2, <2>3
  <2>5. Single(Q1) /\ L1 = {}
    BY <1>3, <1>4, <1>5, <1>7, <2>3
  <2>6. OneOf(R1, Q1, P, F, D, L1)
    BY <2>3, <2>4, <2>5 DEF OneOf
  <2> QED  BY <1>6, <2>6
<1>8. CASE ~(v = u /\ m.id = id)
  <2>1. R1 = R
    <3>1. c \in R1 <=> c \in R
      BY <1>2, <1>8
    <3> QED  BY <1>2, <3>1, RoutesSame
  <2>2. Fewer(s, s1, id)
    BY <1>4, <1>8
  <2>3. \A i : i \in IdsIn(s1, id) => s1[i] \in ToSet(s1)
    BY DEF IdsIn, ToSet
  <2>4. \A i : i \notin IdsIn(s1, id) /\ s1[i].id = id => i \notin DOMAIN s1
    BY DEF IdsIn
  <2>5. \A j \in IdsIn(s, id) : s[j].id = id
    BY DEF IdsIn
  <2>6. IdsIn(s1, id) = {} => \A x \in ToSet(s1) : x.id # id
    BY DEF IdsIn, ToSet
  <2> HIDE DEF R, Q, P, F, D, L, R1, Q1, L1, s, s1, lose
  <2>7. CASE Q = {}
    <3>1. Q1 = {} /\ L1 = L
      BY <1>3, <1>5, <2>2, <2>7 DEF Fewer
    <3>2. OneOf(R1, Q1, P, F, D, L1)
      BY <1>0, <2>1, <2>7, <3>1
    <3> QED  BY <1>6, <3>2
  <2>8. ASSUME NEW j \in Q PROVE OneOf(R1, Q1, P, F, D, L1)
    <3>1. R = {} /\ Q = {j} /\ P = {} /\ F = {} /\ D = {} /\ L = {}
      BY <1>0, OneOfHas
    <3>2. /\ s[j].id = id /\ L1 = IF s[j] \in ToSet(s1) THEN {} ELSE {lose}
          /\ Q1 = {} \/ \E i : Q1 = {i} /\ s1[i] = s[j]
      BY <1>3, <1>5, <2>2, <2>5, <3>1 DEF Fewer
    <3>3. CASE Q1 = {}
      <4>1. L1 = {lose}
        BY <1>3, <2>6, <3>2, <3>3
      <4>2. Single(L1)
        BY <4>1, SingleIs
      <4> QED  BY <2>1, <3>1, <3>3, <4>2 DEF OneOf
    <3>4. ASSUME NEW i, Q1 = {i}, s1[i] = s[j] PROVE OneOf(R1, Q1, P, F, D, L1)
      <4>1. L1 = {}
        BY <1>3, <2>3, <3>2, <3>4
      <4>2. Single(Q1)
        BY <3>4, SingleIs
      <4> QED  BY <2>1, <3>1, <4>1, <4>2 DEF OneOf
    <3> QED  BY <3>2, <3>3, <3>4
  <2> QED  BY <1>6, <2>7, <2>8
<1> QED  BY <1>7, <1>8

\* A message published is with its route, and nowhere before; the others stay.
LEMMA PublishKeeps ==
    ASSUME NEW n \in Nat, Typed(n), sent = n, NEW c \in Conn, NEW d \in Doc, Publish(c, d), Once
    PROVE  Once'
<1> DEFINE to == subs[d] \ {conn[c].uid}
           m == [id |-> sent, from |-> conn[c].uid, via |-> c]
           t == [pc |-> "route", msg |-> m, to |-> to, slow |-> {}, away |-> {}, evicted |-> {}]
<1>1. /\ task' = [task EXCEPT ![c] = t] /\ task[c] = Idle
      /\ addressed' = addressed \cup {[to |-> u, id |-> sent] : u \in to}
      /\ UNCHANGED <<conn, offline, received, lost>>
  BY DEF Publish, IsIdentified, AtSelect
<1>2. t.pc = "route" /\ t.msg.id = n /\ Bearing(t) = to
  BY DEF Bearing
<1> HIDE DEF t
<1>3. \A j \in Conn : task'[j] = IF j = c THEN t ELSE task[j]
  BY <1>1, TaskReads
<1>4. ASSUME NEW u, NEW id
      PROVE  /\ InReplays(task', conn', u, id) = InReplays(task, conn, u, id)
             /\ InChannels(conn', u, id) = InChannels(conn, u, id)
  <2>1. \A j \in Conn : \/ task'[j] = task[j] /\ conn'[j].uid = conn[j].uid
                        \/ task'[j].pc # "replay" /\ task[j].pc # "replay"
    BY <1>1, <1>2, <1>3 DEF Idle
  <2>2. InReplays(task', conn', u, id) = InReplays(task, conn, u, id)
    BY <2>1, ReplaysSame
  <2> QED  BY <1>1, <2>2, ChannelsSame
<1>5. ASSUME NEW u, NEW id
      PROVE  /\ c \notin InRoutes(task, u, id)
             /\ c \in InRoutes(task', u, id) <=> id = n /\ u \in to
             /\ \A j \in Conn : j # c => task'[j] = task[j]
  BY <1>1, <1>2, <1>3 DEF InRoutes, Idle, RoutePc
<1>6. ASSUME NEW a \in addressed
      PROVE  At(task', conn', offline', received', lost', a.to, a.id)
  <2>1. a.id # n
    BY DEF Typed, HistoryTyped
  <2>2. InRoutes(task', a.to, a.id) = InRoutes(task, a.to, a.id)
    BY <1>5, <2>1, RoutesSame
  <2>3. At(task, conn, offline, received, lost, a.to, a.id)
    BY DEF Once
  <2> QED  BY <1>1, <1>4, <2>2, <2>3, OneOfSame
<1>7. ASSUME NEW u \in to
      PROVE  At(task', conn', offline', received', lost', u, n)
  <2>0. u \in User /\ n \notin 0..(n - 1)
    BY DEF Publish, Typed, SubsTyped
  <2>1. \A s \in Seq(Issued(n)) : IdsIn(s, n) = {}
    <3>1. ASSUME NEW s \in Seq(Issued(n)), NEW i \in DOMAIN s PROVE s[i].id # n
      <4>1. s[i] \in Issued(n)
        BY ElementOfSeq, LenProperties
      <4> QED  BY <2>0, <4>1 DEF Issued
    <3> QED  BY <3>1 DEF IdsIn
  <2>2. InQueue(offline, u, n) = {} /\ IdsIn(received[u], n) = {}
    <3>1. u \in DOMAIN offline => offline[u] \in Seq(Issued(n))
      BY DEF Typed, QueueTyped
    <3>2. received[u] \in Seq(Issued(n))
      BY <2>0 DEF Typed, HistoryTyped
    <3> QED  BY <2>1, <3>1, <3>2 DEF InQueue
  <2>3. InReplays(task, conn, u, n) = {}
    <3>1. ASSUME NEW j \in Conn, task[j].pc = "replay" PROVE IdsIn(task[j].rest, n) = {}
      <4>1. task[j].rest \in Seq(Issued(n))
        BY <3>1, OfConn, TaskShapes DEF ReplayTask
      <4> QED  BY <2>1, <4>1
    <3> QED  BY <3>1 DEF InReplays
  <2>4. InChannels(conn, u, n) = {}
    <3>1. ASSUME NEW j \in Conn, NEW i \in DOMAIN conn[j].out PROVE ~Hit(conn[j].out[i], u, n)
      <4>1. conn[j].out[i] \in FrameType(n)
        BY OfConn
      <4>2. IsMessage(conn[j].out[i]) => conn[j].out[i].msg.id # n
        BY <2>0, <4>1, FrameShapes DEF Routed, Issued
      <4> QED  BY <4>2 DEF Hit
    <3> QED  BY <3>1 DEF InChannels, HitsIn
  <2>5. InLost(lost, u, n) = {}
    BY <2>0 DEF Typed, HistoryTyped, InLost
  <2>6. InRoutes(task', u, n) = {c}
    <3>1. ASSUME NEW j \in Conn, j # c PROVE j \notin InRoutes(task', u, n)
      <4>1. task'[j] = task[j]
        BY <1>5, <3>1
      <4>2. task[j].pc \in RoutePc => task[j].msg \in Issued(n)
        BY OfConn, TaskShapes DEF RouteTask
      <4>3. task[j].pc \in RoutePc => task[j].msg.id # n
        BY <2>0, <4>2 DEF Issued
      <4> QED  BY <4>1, <4>3 DEF InRoutes
    <3>2. InRoutes(task', u, n) \subseteq Conn
      BY DEF InRoutes
    <3> QED  BY <1>5, <3>1, <3>2
  <2> QED  BY <1>1, <1>4, <2>2, <2>3, <2>4, <2>5, <2>6, SingleIs DEF At, OneOf
<1>8. \A a \in addressed' : a \in addressed \/ \E u \in to : a.to = u /\ a.id = n
  BY <1>1
<1>9. \A a \in addressed' : At(task', conn', offline', received', lost', a.to, a.id)
  BY <1>6, <1>7, <1>8
<1> QED  BY <1>9 DEF Once

LEMMA StepKeeps ==
    ASSUME NEW n \in Nat, Typed(n), NEW c \in Conn,
           \/ Accept(c) \/ ReadEnds(c) \/ CloseSignalled(c) \/ Cleanup(c) \/ WriterStep(c) \/ Refuse(c)
           \/ \E v \in User : Identify(c, v)
           \/ \E d \in Doc : Subscribe(c, d) \/ Unsubscribe(c, d)
           \/ HandlerStep(c),
           NEW u \in User, NEW id, At(task, conn, offline, received, lost, u, id)
    PROVE  At(task', conn', offline', received', lost', u, id)
<1>1. CASE \/ Accept(c) \/ ReadEnds(c) \/ CloseSignalled(c) \/ Greet(c) \/ SendReply(c) \/ Refuse(c)
           \/ \E v \in User : Identify(c, v)
           \/ DisconnectSlow(c) \/ DropSubscriptions(c)
           \/ \E d \in Doc : Subscribe(c, d) \/ Unsubscribe(c, d)
  BY <1>1, QuietStepKeeps
<1>2. CASE Cleanup(c) \/ WriterStep(c)
  BY <1>2, CleanupKeeps, WriteKeeps DEF WriterStep
<1>3. CASE Drain(c) \/ Replay(c)
  BY <1>3, DrainKeeps, ReplayKeeps
<1>4. CASE \E v \in User : FanOutSent(c, v) \/ FanOutSlow(c, v) \/ FanOutAway(c, v) \/ Enqueue(c, v)
  BY <1>4, FanOutSentKeeps, FanOutRestKeeps, EnqueueKeeps
<1> QED  BY <1>1, <1>2, <1>3, <1>4 DEF HandlerStep

\* Whom a message is to reach is settled when it is published.
LEMMA OnlyPublishAddresses ==
    ASSUME NEW c \in Conn,
           \/ Accept(c) \/ ReadEnds(c) \/ CloseSignalled(c) \/ Cleanup(c) \/ WriterStep(c) \/ Refuse(c)
           \/ \E v \in User : Identify(c, v)
           \/ \E d \in Doc : Subscribe(c, d) \/ Unsubscribe(c, d)
           \/ HandlerStep(c)
    PROVE  addressed' = addressed
BY DEF Accept, ReadEnds, CloseSignalled, Cleanup, WriterStep, Write, WriteFails, Identify, Subscribe,
       Unsubscribe, Refuse, HandlerStep, Greet, Drain, Replay, SendReply, FanOutSent, FanOutSlow, FanOutAway, Enqueue,
       DisconnectSlow, DropSubscriptions, history

LEMMA OnceKept == Types /\ Once /\ [Next]_vars => Once'
<1> SUFFICES ASSUME Types, Once, [Next]_vars PROVE Once'
  OBVIOUS
<1>1. PICK n \in Nat : sent = n /\ Typed(n)
  BY DEF Types
<1>2. CASE UNCHANGED vars
  BY <1>2 DEF vars, Once, At
<1>3. ASSUME NEW c \in Conn, NEW d \in Doc, Publish(c, d)
      PROVE  Once'
  BY <1>1, <1>3, PublishKeeps
<1>4. ASSUME NEW c \in Conn,
             \/ Accept(c) \/ ReadEnds(c) \/ CloseSignalled(c) \/ Cleanup(c) \/ WriterStep(c) \/ Refuse(c)
             \/ \E v \in User : Identify(c, v)
             \/ \E d \in Doc : Subscribe(c, d) \/ Unsubscribe(c, d)
             \/ HandlerStep(c)
      PROVE  Once'
  <2>1. addressed' = addressed
    BY <1>4, OnlyPublishAddresses
  <2>2. ASSUME NEW a \in addressed
        PROVE  At(task', conn', offline', received', lost', a.to, a.id)
    <3>1. a.to \in User /\ At(task, conn, offline, received, lost, a.to, a.id)
      BY <1>1 DEF Typed, HistoryTyped, Once
    <3> QED  BY <1>1, <1>4, <3>1, StepKeeps
  <2>3. \A a \in addressed' : At(task', conn', offline', received', lost', a.to, a.id)
    BY <2>1, <2>2
  <2> QED  BY <2>3 DEF Once
<1> QED  BY <1>2, <1>3, <1>4 DEF Next

\* The places as ExactlyOnePlace counts them.
LEMMA PlacesAreCounted ==
    ASSUME NEW n \in Nat, Typed(n), NEW u \in User, NEW id,
           At(task, conn, offline, received, lost, u, id)
    PROVE  Cardinality(RoutesWith(u, id)) + Cardinality(QueuedAs(u, id))
           + Cardinality(ReplaysOf(u, id)) + Cardinality(FramesOf(u, id))
           + Cardinality(ReadsOf(u, id)) + Cardinality(LossesOf(u, id)) = 1
<1> DEFINE P == InReplays(task, conn, u, id)
           R == RoutesWith(u, id)
           Q == QueuedAs(u, id)
           C == ReplaysOf(u, id)
           F == FramesOf(u, id)
           D == ReadsOf(u, id)
           L == LossesOf(u, id)
<1>1. R = InRoutes(task, u, id)
  <2>1. ASSUME NEW c \in Conn
        PROVE  c \in R <=> c \in InRoutes(task, u, id)
    <3>1. "msg" \in DOMAIN task[c] <=> task[c].pc \in RoutePc
      BY OfConn, TaskShapes
    <3> QED  BY <3>1 DEF RoutesWith, InRoutes, Bearing
  <2>2. R \subseteq Conn /\ InRoutes(task, u, id) \subseteq Conn
    BY DEF RoutesWith, InRoutes
  <2> QED  BY <2>1, <2>2
<1>2. Q = InQueue(offline, u, id)
  BY DEF QueuedAs, InQueue, IdsIn
<1>3. C = {x[1] : x \in P}
  <2>1. ASSUME NEW c \in Conn, NEW i \in DOMAIN task[c].rest, task[c].pc = "replay"
        PROVE  i \in Nat
    <3>1. task[c].rest \in Seq(Issued(n))
      BY <2>1, OfConn, TaskShapes DEF ReplayTask
    <3> QED  BY <3>1, LenProperties
  <2>2. ASSUME NEW c \in C PROVE \E x \in P : c = x[1]
    <3>1. PICK i \in DOMAIN task[c].rest : task[c].rest[i].id = id
      BY DEF ReplaysOf
    <3>2. c \in Conn /\ task[c].pc = "replay" /\ conn[c].uid = u
      BY DEF ReplaysOf
    <3>3. i \in Nat
      BY <2>1, <3>2
    <3>4. <<c, i>> \in P
      BY <3>1, <3>2, <3>3 DEF InReplays, IdsIn
    <3> QED  BY <3>4
  <2>3. ASSUME NEW x \in P PROVE x[1] \in C
    BY DEF InReplays, IdsIn, ReplaysOf
  <2> QED  BY <2>2, <2>3
<1>4. F = InChannels(conn, u, id)
  <2>1. \A c \in Conn : DOMAIN conn[c].out \subseteq Nat
    BY OfConn
  <2>2. ASSUME NEW c \in Conn, NEW i \in Nat
        PROVE  <<c, i>> \in F <=> <<c, i>> \in InChannels(conn, u, id)
    BY DEF FramesOf, InChannels, HitsIn, Hit
  <2>3. F \subseteq Conn \X Nat
    BY <2>1 DEF FramesOf
  <2>4. InChannels(conn, u, id) \subseteq Conn \X Nat
    BY DEF InChannels
  <2> QED  BY <2>2, <2>3, <2>4
<1>5. D = IdsIn(received[u], id) /\ L = InLost(lost, u, id)
  BY DEF ReadsOf, IdsIn, LossesOf, InLost
<1>6. OneOf(R, Q, P, F, D, L)
  BY <1>1, <1>2, <1>4, <1>5 DEF At
<1> HIDE DEF P, R, Q, C, F, D, L
<1>7. (P = {} => C = {}) /\ (Single(P) => Single(C))
  BY <1>3 DEF Single
<1>8. OneOf(R, Q, C, F, D, L)
  BY <1>6, <1>7 DEF OneOf
<1>9. \A S : (S = {} => Cardinality(S) = 0) /\ (Single(S) => Cardinality(S) = 1)
  BY FS_EmptySet, FS_Singleton DEF Single
<1>10. Cardinality(R) + Cardinality(Q) + Cardinality(C) + Cardinality(F)
          + Cardinality(D) + Cardinality(L) = 1
  BY <1>8, <1>9 DEF OneOf
<1> QED  BY <1>10 DEF R, Q, C, F, D, L

\* routing.rs:356-360: for every user a message was routed to there is exactly
\* one copy of it, or one record of its loss, wherever the routes, takeovers,
\* drains, slow consumers and queue evictions running at once have got to.
THEOREM EachMessageInOnePlace == Spec => []ExactlyOnePlace
<1>1. Init => Once
  BY DEF Init, Once
<1>2. Types /\ Once => ExactlyOnePlace
  <2> SUFFICES ASSUME Types, Once, NEW a \in addressed
               PROVE  Cardinality(RoutesWith(a.to, a.id)) + Cardinality(QueuedAs(a.to, a.id))
                      + Cardinality(ReplaysOf(a.to, a.id)) + Cardinality(FramesOf(a.to, a.id))
                      + Cardinality(ReadsOf(a.to, a.id)) + Cardinality(LossesOf(a.to, a.id)) = 1
    BY DEF ExactlyOnePlace
  <2>1. PICK n \in Nat : Typed(n)
    BY DEF Types
  <2>2. a.to \in User /\ At(task, conn, offline, received, lost, a.to, a.id)
    BY <2>1 DEF Typed, HistoryTyped, Once
  <2> QED  BY <2>1, <2>2, PlacesAreCounted
<1> QED  BY <1>1, <1>2, OnceKept, TypesAlways, PTL DEF Spec

-----------------------------------------------------------------------------
(* The router's queue and the store it is to be: how many messages wait.   *)

\* What OfflineQueue_proofs says of sums, for messages of one kind and size.
Queue == INSTANCE OfflineQueue_proofs WITH
    Kind <- {"content"},
    Size <- {1},
    Budget <- [k \in {"content"} |-> QueueBudget],
    PerUser <- [k \in {"content"} |-> QueueBudget],
    queues <- offline, bytes <- QueueBudget, call <- Idle, arrivals <- sent

\* OfflineQueue's assumption, of the router's queue.
LEMMA QueueAssumed ==
    /\ {1} \subseteq Nat
    /\ [k \in {"content"} |-> QueueBudget] \in [{"content"} -> Nat]
    /\ MaxPerUser \in Nat \ {0}
    /\ MaxUsers \in Nat \ {0}
    /\ MaxMessages \in Nat
BY SessionsAssumption

\* The operators of the library are the same wherever they are instantiated.
LEMMA SameOperators ==
    /\ \A S : Queue!IsFiniteSet(S) <=> IsFiniteSet(S)
    /\ \A S : Store!Cardinality(S) = Cardinality(S)
    /\ \A f : Store!SumFunction(f) = SumFunction(f)
    /\ \A w, S : Queue!SumFunctionOnSet(w, S) = SumFunctionOnSet(w, S)
    /\ \A s : Store!ToSet(s) = ToSet(s)
    /\ \A s : Store!Front(s) = Front(s)
    /\ \A s : Store!Last(s) = Last(s)
<1>1. \A S : Store!Cardinality(S) = Cardinality(S)
  BY Zenon DEF Store!Cardinality, Cardinality
<1>2. \A S : Queue!IsFiniteSet(S) <=> IsFiniteSet(S)
  BY Zenon DEF Queue!IsFiniteSet, IsFiniteSet
<1>3. \A f : Store!SumFunction(f) = SumFunction(f)
  <2> SUFFICES ASSUME NEW f PROVE Store!SumFunction(f) = SumFunction(f)
    OBVIOUS
  <2> DEFINE total == (CHOOSE it : it = [s \in SUBSET DOMAIN f |->
            IF s = {} THEN 0
            ELSE f[CHOOSE x \in s : TRUE] + it[s \ {CHOOSE x \in s : TRUE}]])[DOMAIN f]
  <2>1. SumFunction(f) = total
    BY DEF SumFunction, SumFunctionOnSet, FoldFunctionOnSet, MapThenFoldSet
  <2>2. Store!SumFunction(f) = total
    BY DEF Store!SumFunction, Store!SumFunctionOnSet, Store!FoldFunctionOnSet,
           Store!MapThenFoldSet
  <2> QED  BY <2>1, <2>2, Zenon
<1>4. \A w, S : Queue!SumFunctionOnSet(w, S) = SumFunctionOnSet(w, S)
  <2> SUFFICES ASSUME NEW w, NEW S PROVE Queue!SumFunctionOnSet(w, S) = SumFunctionOnSet(w, S)
    OBVIOUS
  <2> DEFINE total == (CHOOSE it : it = [s \in SUBSET S |->
            IF s = {} THEN 0
            ELSE w[CHOOSE x \in s : TRUE] + it[s \ {CHOOSE x \in s : TRUE}]])[S]
  <2>1. SumFunctionOnSet(w, S) = total
    BY DEF SumFunctionOnSet, FoldFunctionOnSet, MapThenFoldSet
  <2>2. Queue!SumFunctionOnSet(w, S) = total
    BY DEF Queue!SumFunctionOnSet, Queue!FoldFunctionOnSet, Queue!MapThenFoldSet
  <2> QED  BY <2>1, <2>2, Zenon
<1>5. /\ \A s : Store!ToSet(s) = ToSet(s)
      /\ \A s : Store!Front(s) = Front(s)
      /\ \A s : Store!Last(s) = Last(s)
  BY Zenon DEF Store!ToSet, ToSet, Store!Front, Front, Store!Last, Last
<1> QED  BY <1>1, <1>2, <1>3, <1>4, <1>5, Zenon

\* What the queue holds in all.
Lens(q) == [v \in DOMAIN q |-> Len(q[v])]
Total(q) == SumFunction(Lens(q))

LEMMA TotalOf ==
    ASSUME NEW q, IsFiniteSet(DOMAIN q), \A v \in DOMAIN q : Len(q[v]) \in Nat, NEW u
    PROVE  /\ Total(q) = Len(Held(q, u)) + SumFunctionOnSet(Lens(q), DOMAIN q \ {u})
           /\ SumFunctionOnSet(Lens(q), DOMAIN q \ {u}) \in Nat
           /\ Len(Held(q, u)) \in Nat
<1> DEFINE w == Lens(q)
           S == DOMAIN q
<1>1. \A v \in S : w[v] = Len(q[v]) /\ w[v] \in Nat /\ w[v] \in Int
  BY DEF Lens
<1>2. Total(q) = SumFunctionOnSet(w, S)
  BY DEF Total, SumFunction, Lens
<1>3. IsFiniteSet(S) /\ IsFiniteSet(S \ {u})
  BY FS_Subset
<1> HIDE DEF w, S
<1>4. SumFunctionOnSet(w, S \ {u}) \in Nat
  <2>1. \A v \in S \ {u} : w[v] \in Nat
    BY <1>1
  <2>2. Queue!SumFunctionOnSet(w, S \ {u}) \in Nat
    BY <1>3, <2>1, Queue!SumBounds, QueueAssumed, SameOperators
  <2> QED  BY <2>2, SameOperators
<1>5. CASE u \in S
  <2>1. Queue!SumFunctionOnSet(w, S) = w[u] + Queue!SumFunctionOnSet(w, S \ {u})
    BY <1>1, <1>3, <1>5, Queue!SumProperties, QueueAssumed, SameOperators
  <2>2. SumFunctionOnSet(w, S) = w[u] + SumFunctionOnSet(w, S \ {u})
    BY <2>1, SameOperators
  <2>3. Len(Held(q, u)) = w[u]
    BY <1>1, <1>5 DEF Held, S
  <2> QED  BY <1>1, <1>2, <1>4, <1>5, <2>2, <2>3 DEF w, S
<1>6. CASE u \notin S
  <2>1. S \ {u} = S /\ Len(Held(q, u)) = 0
    BY <1>6, EmptySeq DEF Held, S
  <2> QED  BY <1>2, <1>4, <2>1 DEF w, S
<1> QED  BY <1>5, <1>6

\* Two queues that differ for u alone differ in all by what they hold for u.
LEMMA TotalChanges ==
    ASSUME NEW q, IsFiniteSet(DOMAIN q), \A v \in DOMAIN q : Len(q[v]) \in Nat,
           NEW r, IsFiniteSet(DOMAIN r), \A v \in DOMAIN r : Len(r[v]) \in Nat,
           NEW u, DOMAIN r \ {u} = DOMAIN q \ {u}, \A v \in DOMAIN q \ {u} : r[v] = q[v]
    PROVE  Total(r) = Total(q) - Len(Held(q, u)) + Len(Held(r, u))
<1> DEFINE x == Lens(r)
           w == Lens(q)
           R == DOMAIN q \ {u}
<1>1. \A v \in R : x[v] = w[v] /\ w[v] \in Int
  BY DEF Lens
<1>2. IsFiniteSet(R)
  BY FS_Subset
<1> HIDE DEF x, w, R
<1>3. SumFunctionOnSet(x, R) = SumFunctionOnSet(w, R)
  <2>1. Queue!SumFunctionOnSet(x, R) = Queue!SumFunctionOnSet(w, R)
    BY <1>1, <1>2, Queue!SumAgrees, QueueAssumed, SameOperators
  <2> QED  BY <2>1, SameOperators
<1>4. /\ Total(q) = Len(Held(q, u)) + SumFunctionOnSet(w, R)
      /\ SumFunctionOnSet(w, R) \in Nat /\ Len(Held(q, u)) \in Nat
  BY TotalOf DEF w, R
<1>5. Total(r) = Len(Held(r, u)) + SumFunctionOnSet(x, R) /\ Len(Held(r, u)) \in Nat
  BY TotalOf DEF x, R
<1> QED  BY <1>3, <1>4, <1>5

\* The caps on the queue: users, messages of each, messages in all.
QueueCaps(off) ==
    /\ Capped(DOMAIN off, MaxUsers)
    /\ \A v \in DOMAIN off : Len(off[v]) <= MaxPerUser
    /\ Total(off) <= QueueBudget

LEMMA LenOfQueues ==
    ASSUME NEW q, NEW S, \A v \in DOMAIN q : q[v] \in Seq(S)
    PROVE  \A v \in DOMAIN q : Len(q[v]) \in Nat
BY LenProperties

LEMMA TotalOfNone == Total(<<>>) = 0
<1> DEFINE e == <<>>
<1>1. DOMAIN e = {} /\ \A v \in DOMAIN e : Len(e[v]) \in Nat
  BY EmptySeq
<1>2. Lens(e) = [v \in {} |-> 0]
  BY <1>1 DEF Lens
<1>3. Total(e) = SumFunctionOnSet([v \in {} |-> 0], {})
  BY <1>2 DEF Total, SumFunction
<1>4. Queue!SumFunctionOnSet([v \in {} |-> 0], {}) = 0
  BY FS_EmptySet, Queue!SumProperties, QueueAssumed, SameOperators
<1> QED  BY <1>3, <1>4, SameOperators DEF e

\* Without a user the queue holds less.
LEMMA DroppingCaps ==
    ASSUME NEW q, NEW S, \A v \in DOMAIN q : q[v] \in Seq(S), IsFiniteSet(DOMAIN q), NEW u
    PROVE  /\ Total(Dropping(q, {u})) = Total(q) - Len(Held(q, u))
           /\ Total(q) \in Nat /\ Len(Held(q, u)) \in Nat
<1> DEFINE r == Dropping(q, {u})
<1>1. DOMAIN r = DOMAIN q \ {u} /\ \A v \in DOMAIN r : r[v] = q[v]
  BY DEF Dropping, Restrict
<1> HIDE DEF r
<1>2. \A v \in DOMAIN q : Len(q[v]) \in Nat
  BY LenOfQueues
<1>3. \A v \in DOMAIN r : Len(r[v]) \in Nat
  BY <1>1, <1>2
<1>4. Len(Held(r, u)) = 0
  BY <1>1, EmptySeq DEF Held
<1>5. IsFiniteSet(DOMAIN r)
  BY <1>1, FS_Subset
<1>6. Total(r) = Total(q) - Len(Held(q, u)) + Len(Held(r, u))
  BY <1>1, <1>2, <1>3, <1>5, TotalChanges
<1>7. /\ Total(q) = Len(Held(q, u)) + SumFunctionOnSet(Lens(q), DOMAIN q \ {u})
      /\ SumFunctionOnSet(Lens(q), DOMAIN q \ {u}) \in Nat /\ Len(Held(q, u)) \in Nat
  BY <1>2, TotalOf, Zenon
<1> QED  BY <1>4, <1>6, <1>7 DEF r

\* What WithRoom leaves has room for a message.
LEMMA RoomCaps ==
    ASSUME NEW n \in Nat, Typed(n), QueueCaps(offline), NEW room \in WithRoom(offline, order)
    PROVE  Total(room[1]) \in Nat /\ Total(room[1]) < QueueBudget
<1>0. /\ \A v \in DOMAIN offline : offline[v] # <<>> /\ offline[v] \in Seq(Issued(n))
      /\ IsFiniteSet(DOMAIN offline) /\ Total(offline) <= QueueBudget /\ QueueBudget \in Nat \ {0}
  BY SessionsAssumption DEF Typed, QueueTyped, QueueCaps, Capped
<1>1. Total(offline) \in Nat
  BY <1>0, DroppingCaps
<1>2. IsFull(offline) <=> Total(offline) >= QueueBudget
  BY DEF IsFull, Total, Lens
<1>3. CASE ~IsFull(offline)
  <2>1. room[1] = offline
    BY <1>3 DEF WithRoom
  <2> QED  BY <1>0, <1>1, <1>2, <1>3, <2>1
<1>4. CASE IsFull(offline)
  <2>1. PICK v \in DOMAIN offline : room[1] = MinusOldest(offline, v)
    BY <1>4 DEF WithRoom, Largest
  <2>2. offline[v] # <<>> /\ offline[v] \in Seq(Issued(n)) /\ Held(offline, v) = offline[v]
    BY <1>0 DEF Held
  <2>3. Len(offline[v]) \in Nat
    BY <2>2, LenProperties
  <2>4. CASE Len(offline[v]) = 1
    <3>1. room[1] = Dropping(offline, {v})
      BY <2>1, <2>4 DEF MinusOldest
    <3>2. Total(room[1]) = Total(offline) - 1
      BY <1>0, <2>2, <2>4, <3>1, DroppingCaps
    <3> QED  BY <1>0, <1>1, <1>2, <1>4, <3>2
  <2>5. CASE Len(offline[v]) # 1
    <3>1. room[1] = [offline EXCEPT ![v] = Tail(@)]
      BY <2>1, <2>5 DEF MinusOldest
    <3> DEFINE r == room[1]
    <3>2. /\ DOMAIN r = DOMAIN offline
          /\ \A w \in DOMAIN offline \ {v} : r[w] = offline[w]
          /\ r[v] = Tail(offline[v]) /\ Held(r, v) = Tail(offline[v])
      BY <3>1 DEF Held
    <3>3. Len(Tail(offline[v])) = Len(offline[v]) - 1 /\ Len(Tail(offline[v])) \in Nat
      BY <2>2, HeadTailProperties, LenProperties
    <3>4. \A w \in DOMAIN offline : Len(offline[w]) \in Nat
      BY <1>0, LenOfQueues
    <3> HIDE DEF r
    <3>5. \A w \in DOMAIN r : Len(r[w]) \in Nat
      BY <3>2, <3>3, <3>4
    <3>6. IsFiniteSet(DOMAIN r) /\ DOMAIN r \ {v} = DOMAIN offline \ {v}
      BY <1>0, <3>2
    <3>7. Total(r) = Total(offline) - Len(Held(offline, v)) + Len(Held(r, v))
      BY <1>0, <3>2, <3>4, <3>5, <3>6, TotalChanges
    <3>8. Total(room[1]) = Total(offline) - 1
      BY <1>1, <2>2, <2>3, <3>2, <3>3, <3>7 DEF r
    <3>9. Total(offline) # 0
      BY <1>0, <1>1, <1>2, <1>4
    <3> QED  BY <1>0, <1>1, <3>8, <3>9
  <2> QED  BY <2>4, <2>5
<1> QED  BY <1>3, <1>4

LEMMA ShorterLen ==
    ASSUME NEW S, NEW s \in Seq(S), NEW t, Shorter(t, s)
    PROVE  t \in Seq(S) /\ Len(t) \in Nat /\ Len(t) <= Len(s) /\ Len(s) \in Nat
BY HeadTailProperties, LenProperties DEF Shorter

\* The users tracked once u is: the queue makes way for a new one.
LEMMA EvicteeCaps ==
    ASSUME NEW q, Capped(DOMAIN q, MaxUsers), NEW listed, NEW u, NEW evicted,
           evicted = Evictee(q, listed, u), evicted \subseteq DOMAIN q
    PROVE  Capped((DOMAIN q \ evicted) \cup {u}, MaxUsers)
<1>0. MaxUsers \in Nat /\ Cardinality(DOMAIN q) \in Nat /\ IsFiniteSet(DOMAIN q)
      /\ Cardinality(DOMAIN q) <= MaxUsers
  BY SessionsAssumption, FS_CardinalityType DEF Capped
<1>1. Capped(DOMAIN q \ evicted, MaxUsers)
  BY <1>0, CappedSubset
<1>2. CASE u \in DOMAIN q
  <2>1. evicted = {}
    BY <1>2 DEF Evictee
  <2>2. (DOMAIN q \ evicted) \cup {u} = DOMAIN q
    BY <1>2, <2>1
  <2> QED  BY <2>2
<1>3. CASE u \notin DOMAIN q /\ ~(Cardinality(DOMAIN q) >= MaxUsers)
  <2>1. evicted = {}
    BY <1>3 DEF Evictee
  <2>2. DOMAIN q \ evicted = DOMAIN q /\ Cardinality(DOMAIN q) < MaxUsers
    BY <1>0, <1>3, <2>1
  <2> QED  BY <1>0, <1>1, <2>2, CappedAdd
<1>4. CASE u \notin DOMAIN q /\ Cardinality(DOMAIN q) >= MaxUsers
  <2>1. evicted = {Head(listed)} /\ Head(listed) \in DOMAIN q
    BY <1>4 DEF Evictee
  <2>2. Cardinality(DOMAIN q \ {Head(listed)}) = Cardinality(DOMAIN q) - 1
    BY <1>0, <2>1, FS_RemoveElement
  <2>3. Cardinality(DOMAIN q \ evicted) < MaxUsers
    BY <1>0, <2>1, <2>2
  <2> QED  BY <1>0, <1>1, <2>3, CappedAdd
<1> QED  BY <1>2, <1>3, <1>4

LEMMA EnqueueCaps ==
    ASSUME NEW n \in Nat, Typed(n), QueueCaps(offline), NEW c \in Conn, NEW u \in User, Enqueue(c, u)
    PROVE  QueueCaps(offline')
<1> DEFINE m == task[c].msg
<1>0. task[c] \in RouteTask(n) /\ m \in Issued(n)
  BY EnqueueDoes DEF RouteTask
<1>1. PICK room \in WithRoom(offline, order) :
        offline' = Admitted(Dropping(room[1], Evictee(room[1], room[2], u)), u, m)
  BY DEF Enqueue
<1> DEFINE q == room[1]
           evicted == Evictee(q, room[2], u)
           p == Dropping(q, evicted)
           t == Held(p, u)
           s == Append(t, m)
<1> HIDE DEF m
<1>2. /\ DOMAIN q \subseteq DOMAIN offline
      /\ \A v \in DOMAIN q : q[v] \in Seq(Issued(n)) /\ Shorter(q[v], offline[v])
      /\ room[2] \in Seq(User) /\ ToSet(room[2]) = DOMAIN q /\ IsInjective(room[2])
  BY RoomTyped
<1>3. Total(q) \in Nat /\ Total(q) < QueueBudget
  BY RoomCaps
<1>4. /\ QueueBudget \in Nat /\ MaxPerUser \in Nat \ {0} /\ MaxUsers \in Nat
      /\ Capped(DOMAIN offline, MaxUsers)
      /\ \A v \in DOMAIN offline : Len(offline[v]) <= MaxPerUser /\ offline[v] \in Seq(Issued(n))
  BY SessionsAssumption DEF QueueCaps, Typed, QueueTyped
<1>5. Capped(DOMAIN q, MaxUsers) /\ IsFiniteSet(DOMAIN q)
  BY <1>2, <1>4, CappedSubset DEF Capped
<1>6. \A v \in DOMAIN q : Len(q[v]) \in Nat /\ Len(q[v]) <= MaxPerUser
  <2> SUFFICES ASSUME NEW v \in DOMAIN q PROVE Len(q[v]) \in Nat /\ Len(q[v]) <= MaxPerUser
    OBVIOUS
  <2>1. v \in DOMAIN offline /\ Shorter(q[v], offline[v]) /\ offline[v] \in Seq(Issued(n))
    BY <1>2, <1>4
  <2>2. Len(q[v]) \in Nat /\ Len(q[v]) <= Len(offline[v]) /\ Len(offline[v]) \in Nat
    BY <2>1, ShorterLen
  <2> QED  BY <1>4, <2>1, <2>2
<1>7. evicted = {} \/ (evicted = {Head(room[2])} /\ Head(room[2]) \in DOMAIN q)
  <2>1. CASE evicted # {}
    <3>1. evicted = {Head(room[2])} /\ Cardinality(DOMAIN q) >= MaxUsers
      BY <2>1 DEF Evictee
    <3>2. DOMAIN q # {}
      BY <3>1, FS_EmptySet, SessionsAssumption
    <3>3. room[2] # <<>>
      BY <1>2, <3>2 DEF ToSet
    <3>4. Head(room[2]) \in ToSet(room[2])
      BY <1>2, <3>3, HeadOfListed
    <3> QED  BY <1>2, <3>1, <3>4
  <2> QED  BY <2>1
<1>8. Capped((DOMAIN q \ evicted) \cup {u}, MaxUsers)
  BY <1>5, <1>7, EvicteeCaps
<1>9. DOMAIN p = DOMAIN q \ evicted /\ \A v \in DOMAIN p : p[v] = q[v]
  BY DEF Dropping, Restrict
<1>10. Total(p) \in Nat /\ Total(p) <= Total(q)
  <2>1. CASE evicted = {}
    <3>1. Lens(p) = Lens(q)
      BY <1>9, <2>1 DEF Lens
    <3> QED  BY <1>3, <3>1 DEF Total
  <2>2. CASE evicted # {}
    <3>1. p = Dropping(q, {Head(room[2])})
      BY <1>7, <2>2
    <3> DEFINE h == Head(room[2])
    <3> HIDE DEF q, p, h
    <3>2. \A v \in DOMAIN q : q[v] \in Seq(Issued(n))
      BY <1>2
    <3>3. Total(Dropping(q, {h})) = Total(q) - Len(Held(q, h)) /\ Len(Held(q, h)) \in Nat
      BY <1>5, <3>2, DroppingCaps
    <3>4. IsFiniteSet(DOMAIN p) /\ \A v \in DOMAIN p : p[v] \in Seq(Issued(n))
      BY <1>5, <1>9, <3>2, FS_Subset
    <3>5. Total(p) \in Nat
      BY <3>4, DroppingCaps
    <3> QED  BY <1>3, <3>1, <3>3, <3>5 DEF h
  <2> QED  BY <2>1, <2>2
<1>11. offline' = Admitted(p, u, m)
  BY <1>1
<1> HIDE DEF q, evicted, p
<1>12. t \in Seq(Issued(n)) /\ Len(t) \in Nat /\ Len(t) <= MaxPerUser
  BY <1>2, <1>4, <1>6, <1>9, EmptySeq DEF Held
<1>13. s = IF u \in DOMAIN p THEN Append(p[u], m) ELSE <<m>>
  <2>1. CASE u \in DOMAIN p
    BY <2>1 DEF Held
  <2>2. CASE u \notin DOMAIN p
    <3>1. t = <<>>
      BY <2>2 DEF Held
    <3> HIDE DEF t
    <3>2. s = Append(<<>>, m)
      BY <3>1
    <3>3. Append(<<>>, m) = <<m>>
      OBVIOUS
    <3> QED  BY <2>2, <3>2, <3>3
  <2> QED  BY <2>1, <2>2
<1> HIDE DEF t
<1>14. s \in Seq(Issued(n)) /\ s # <<>> /\ Len(s) = Len(t) + 1
  BY <1>0, <1>12, AppendProperties
<1> HIDE DEF s
<1>15. /\ DOMAIN offline' = DOMAIN p \cup {u}
       /\ \A v \in DOMAIN offline' :
             offline'[v] = IF v # u THEN p[v] ELSE IF Len(s) > MaxPerUser THEN Tail(s) ELSE s
  BY <1>11, <1>13 DEF Admitted
<1>16. /\ Len(offline'[u]) \in Nat /\ Len(offline'[u]) <= MaxPerUser
       /\ Len(offline'[u]) <= Len(t) + 1
  <2>1. Len(Tail(s)) = Len(s) - 1
    BY <1>14, HeadTailProperties
  <2>2. CASE Len(s) > MaxPerUser
    <3>1. offline'[u] = Tail(s)
      BY <1>15, <2>2
    <3> QED  BY <1>4, <1>12, <1>14, <2>1, <3>1
  <2>3. CASE ~(Len(s) > MaxPerUser)
    <3>1. offline'[u] = s
      BY <1>15, <2>3
    <3> QED  BY <1>4, <1>12, <1>14, <2>3, <3>1
  <2> QED  BY <2>2, <2>3
<1>17. \A v \in DOMAIN offline' : Len(offline'[v]) \in Nat /\ Len(offline'[v]) <= MaxPerUser
  BY <1>6, <1>9, <1>15, <1>16
<1>18. Capped(DOMAIN offline', MaxUsers)
  BY <1>8, <1>9, <1>15
<1>19. Total(offline') <= QueueBudget
  <2> DEFINE r == offline'
  <2>1. Held(r, u) = offline'[u]
    BY <1>15 DEF Held
  <2>2. /\ \A v \in DOMAIN p : Len(p[v]) \in Nat
        /\ IsFiniteSet(DOMAIN p)
    BY <1>5, <1>6, <1>9, FS_Subset
  <2>3. /\ \A v \in DOMAIN r : Len(r[v]) \in Nat
        /\ IsFiniteSet(DOMAIN r)
        /\ DOMAIN r \ {u} = DOMAIN p \ {u}
        /\ \A v \in DOMAIN p \ {u} : r[v] = p[v]
    BY <1>15, <1>17, <1>18 DEF Capped
  <2> HIDE DEF r
  <2>4. Total(r) = Total(p) - Len(Held(p, u)) + Len(Held(r, u))
    BY <2>2, <2>3, TotalChanges
  <2>5. Total(r) = Total(p) - Len(t) + Len(offline'[u])
    BY <2>1, <2>4 DEF t
  <2>6. Total(r) <= QueueBudget
    BY <1>3, <1>4, <1>10, <1>12, <1>16, <2>5
  <2> QED  BY <2>6 DEF r
<1> QED  BY <1>17, <1>18, <1>19 DEF QueueCaps

\* Only an enqueue and a drain write the queue.
LEMMA WhoQueues ==
    ASSUME NEW c \in Conn,
           \/ Accept(c) \/ ReadEnds(c) \/ CloseSignalled(c) \/ Cleanup(c) \/ WriterStep(c) \/ Refuse(c)
           \/ \E v \in User : Identify(c, v)
           \/ \E d \in Doc : Subscribe(c, d) \/ Unsubscribe(c, d) \/ Publish(c, d)
           \/ HandlerStep(c)
    PROVE  UNCHANGED offline \/ (\E u \in User : Enqueue(c, u)) \/ Drain(c)
BY DEF Accept, ReadEnds, CloseSignalled, Cleanup, WriterStep, Write, WriteFails, Identify, Subscribe,
       Unsubscribe, Refuse, Publish, HandlerStep, Greet, Replay, SendReply, FanOutSent, FanOutSlow, FanOutAway,
       DisconnectSlow, DropSubscriptions, history

\* A drain takes everything that waits for its user, or finds nothing.
LEMMA DrainDoes ==
    ASSUME NEW n \in Nat, Typed(n), NEW c \in Conn, Drain(c)
    PROVE  \/ UNCHANGED offline
           \/ conn[c].uid \in User /\ offline' = Dropping(offline, {conn[c].uid})
BY DEF Drain, Typed, QueueTyped

LEMMA QueueCapsKept ==
    ASSUME NEW n \in Nat, Typed(n), QueueCaps(offline), [Next]_vars
    PROVE  QueueCaps(offline')
<1>1. ASSUME NEW c \in Conn, Drain(c), offline' # offline PROVE QueueCaps(offline')
  <2> DEFINE u == conn[c].uid
             r == Dropping(offline, {u})
  <2>1. offline' = r
    BY <1>1, DrainDoes
  <2>2. DOMAIN r \subseteq DOMAIN offline /\ \A v \in DOMAIN r : r[v] = offline[v]
    BY DEF Dropping, Restrict
  <2>3. /\ \A v \in DOMAIN offline : offline[v] \in Seq(Issued(n)) /\ Len(offline[v]) <= MaxPerUser
        /\ Capped(DOMAIN offline, MaxUsers) /\ IsFiniteSet(DOMAIN offline)
        /\ MaxUsers \in Nat /\ Total(offline) <= QueueBudget /\ QueueBudget \in Nat
    BY SessionsAssumption DEF QueueCaps, Capped, Typed, QueueTyped
  <2>4. /\ Total(r) = Total(offline) - Len(Held(offline, u))
        /\ Total(offline) \in Nat /\ Len(Held(offline, u)) \in Nat
    BY <2>3, DroppingCaps
  <2> HIDE DEF r, u
  <2>5. Capped(DOMAIN r, MaxUsers)
    BY <2>2, <2>3, CappedSubset
  <2>6. Total(r) <= QueueBudget
    BY <2>3, <2>4
  <2>7. QueueCaps(r)
    BY <2>2, <2>3, <2>5, <2>6 DEF QueueCaps
  <2> QED  BY <2>1, <2>7
<1>2. ASSUME NEW c \in Conn, NEW u \in User, Enqueue(c, u) PROVE QueueCaps(offline')
  BY <1>2, EnqueueCaps
<1>3. CASE offline' = offline
  BY <1>3
<1>4. offline' = offline \/ \E c \in Conn : Drain(c) \/ \E u \in User : Enqueue(c, u)
  BY WhoQueues DEF Next, vars
<1> QED  BY <1>1, <1>2, <1>3, <1>4

\* Whom a route has yet to reach was addressed by the publication it carries out.
RoutesAddressed ==
    \A c \in Conn : task[c].pc \in RoutePc =>
        \A v \in Bearing(task[c]) : [to |-> v, id |-> task[c].msg.id] \in addressed

LEMMA OnwardBears ==
    ASSUME NEW n \in Nat, NEW t \in RouteTask(n), Onward(t).pc \in RoutePc
    PROVE  Onward(t).msg = t.msg /\ Bearing(Onward(t)) = Bearing(t)
<1>1. ASSUME NEW p, Onward(t) = [t EXCEPT !.pc = p]
      PROVE  Onward(t).msg = t.msg /\ Bearing(Onward(t)) = Bearing(t)
  BY <1>1 DEF RouteTask, Bearing
<1>2. \/ Onward(t) = Idle
      \/ \E p : Onward(t) = [t EXCEPT !.pc = p]
  BY DEF Onward
<1>3. Onward(t) # Idle
  BY WaitingTyped
<1> QED  BY <1>1, <1>2, <1>3

\* The handler of j bears the message it bore, to no more users.
Shrinks(j) ==
    /\ task[j].pc \in RoutePc /\ task'[j].msg = task[j].msg
    /\ Bearing(task'[j]) \subseteq Bearing(task[j])

\* Until the next publication routes only come to an end.
LEMMA RoutesShrink ==
    ASSUME NEW n \in Nat, Typed(n), NEW c \in Conn,
           \/ Accept(c) \/ ReadEnds(c) \/ CloseSignalled(c) \/ Cleanup(c) \/ WriterStep(c) \/ Refuse(c)
           \/ \E v \in User : Identify(c, v)
           \/ \E d \in Doc : Subscribe(c, d) \/ Unsubscribe(c, d)
           \/ HandlerStep(c),
           NEW j \in Conn, task'[j].pc \in RoutePc
    PROVE  Shrinks(j)
<1>0. task'[j] = task[j] => Shrinks(j)
  BY DEF Shrinks
<1>1. ASSUME NEW t, task' = [task EXCEPT ![c] = t]
      PROVE  task'[j] = IF j = c THEN t ELSE task[j]
  BY <1>1, TaskReads
<1>2. ASSUME NEW t, task' = [task EXCEPT ![c] = t], t.pc \notin RoutePc
      PROVE  Shrinks(j)
  BY <1>0, <1>1, <1>2
<1>3. ASSUME NEW t, task' = [task EXCEPT ![c] = t], task[c].pc \in RoutePc,
             t.msg = task[c].msg, Bearing(t) \subseteq Bearing(task[c])
      PROVE  Shrinks(j)
  BY <1>0, <1>1, <1>3 DEF Shrinks
<1>4. ASSUME NEW t \in RouteTask(n), task' = [task EXCEPT ![c] = Onward(t)], task[c].pc \in RoutePc,
             t.msg = task[c].msg, Bearing(t) \subseteq Bearing(task[c])
      PROVE  Shrinks(j)
  <2>1. CASE Onward(t).pc \in RoutePc
    BY <1>3, <1>4, <2>1, OnwardBears
  <2>2. CASE Onward(t).pc \notin RoutePc
    BY <1>2, <1>4, <2>2
  <2> QED  BY <2>1, <2>2
<1>5. CASE Accept(c) \/ ReadEnds(c) \/ CloseSignalled(c) \/ Cleanup(c) \/ WriterStep(c)
  <2>1. task' = task
    BY <1>5 DEF Accept, ReadEnds, CloseSignalled, Cleanup, WriterStep, Write, WriteFails
  <2> QED  BY <1>0, <2>1
<1>6. CASE \/ Greet(c) \/ Drain(c) \/ Replay(c) \/ SendReply(c) \/ DropSubscriptions(c)
           \/ \E v \in User : Identify(c, v)
           \/ Refuse(c) \/ \E d \in Doc : Subscribe(c, d) \/ Unsubscribe(c, d)
  <2>1. CASE Drain(c)
    <3>1. \/ task' = [task EXCEPT ![c] = Idle]
          \/ task' = [task EXCEPT ![c] = [pc |-> "replay", rest |-> offline[conn[c].uid]]]
      BY <2>1 DEF Drain
    <3> QED  BY <1>2, <3>1 DEF Idle, RoutePc
  <2>2. CASE Replay(c)
    <3>1. \/ task' = [task EXCEPT ![c] = Idle]
          \/ task' = [task EXCEPT ![c] = [pc |-> "replay", rest |-> Tail(task[c].rest)]]
      BY <2>2 DEF Replay
    <3> QED  BY <1>2, <3>1 DEF Idle, RoutePc
  <2>3. CASE \/ Greet(c) \/ SendReply(c) \/ DropSubscriptions(c)
             \/ \E v \in User : Identify(c, v)
             \/ Refuse(c) \/ \E d \in Doc : Subscribe(c, d) \/ Unsubscribe(c, d)
    <3>1. \/ task' = [task EXCEPT ![c] = [pc |-> "drain"]]
          \/ task' = [task EXCEPT ![c] = Idle]
          \/ task' = [task EXCEPT ![c] = [pc |-> "greet"]]
          \/ task' = [task EXCEPT ![c] = Replying]
      BY <2>3 DEF Greet, SendReply, DropSubscriptions, Identify, Refuse, Subscribe, Unsubscribe
    <3> QED  BY <1>2, <3>1 DEF Idle, Replying, RoutePc
  <2> QED  BY <1>6, <2>1, <2>2, <2>3
<1>7. ASSUME NEW v \in User, FanOutSent(c, v) \/ FanOutSlow(c, v) \/ FanOutAway(c, v)
      PROVE  Shrinks(j)
  <2>1. /\ task[c] \in RouteTask(n) /\ task[c].pc \in {"route", "fan_out"} /\ v \in task[c].to
        /\ task[c].pc \in RoutePc
    <3>1. task[c].pc \in {"route", "fan_out"} /\ v \in task[c].to
      BY <1>7 DEF FanOutSent, FanOutSlow, FanOutAway
    <3> QED  BY <3>1, FanOutRoute DEF RoutePc
  <2>2. CASE FanOutSent(c, v)
    <3> DEFINE t == [task[c] EXCEPT !.to = @ \ {v}]
    <3>1. /\ t \in RouteTask(n) /\ t.msg = task[c].msg
          /\ t.to = task[c].to \ {v} /\ t.slow = task[c].slow /\ t.away = task[c].away
      BY <2>1 DEF RouteTask
    <3>2. task' = [task EXCEPT ![c] = Onward(t)]
      BY <2>2 DEF FanOutSent
    <3> HIDE DEF t
    <3>3. Bearing(t) \subseteq Bearing(task[c])
      BY <3>1 DEF Bearing
    <3> QED  BY <1>4, <2>1, <3>1, <3>2, <3>3
  <2>3. CASE FanOutSlow(c, v)
    <3> DEFINE t == [task[c] EXCEPT !.to = @ \ {v}, !.slow = @ \cup {<<v, clients[v]>>}]
    <3>0. /\ task[c].slow \cup {<<v, clients[v]>>} \in SUBSET (User \X Conn)
          /\ task[c].to \ {v} \in SUBSET User
      <4>1. clients[v] \in Conn
        BY <2>3 DEF FanOutSlow, Typed, ClientsTyped
      <4> QED  BY <2>1, <4>1 DEF RouteTask
    <3>1. /\ t \in RouteTask(n) /\ t.msg = task[c].msg
          /\ t.to = task[c].to \ {v} /\ t.away = task[c].away
          /\ t.slow = task[c].slow \cup {<<v, clients[v]>>}
      BY <2>1, <3>0 DEF RouteTask
    <3>2. task' = [task EXCEPT ![c] = Onward(t)]
      BY <2>3 DEF FanOutSlow
    <3> HIDE DEF t
    <3>3. Bearing(t) \subseteq Bearing(task[c])
      <4>1. <<v, clients[v]>>[1] = v
        OBVIOUS
      <4>2. \A s \in t.slow : s[1] = v \/ s \in task[c].slow
        BY <3>1, <4>1
      <4> QED  BY <2>1, <3>1, <4>2 DEF Bearing
    <3> QED  BY <1>4, <2>1, <3>1, <3>2, <3>3
  <2>4. CASE FanOutAway(c, v)
    <3> DEFINE t == [task[c] EXCEPT !.to = @ \ {v}, !.away = @ \cup {v}]
    <3>1. /\ t \in RouteTask(n) /\ t.msg = task[c].msg
          /\ t.to = task[c].to \ {v} /\ t.away = task[c].away \cup {v} /\ t.slow = task[c].slow
      BY <2>1 DEF RouteTask
    <3>2. task' = [task EXCEPT ![c] = Onward(t)]
      BY <2>4 DEF FanOutAway
    <3> HIDE DEF t
    <3>3. Bearing(t) \subseteq Bearing(task[c])
      BY <2>1, <3>1 DEF Bearing
    <3> QED  BY <1>4, <2>1, <3>1, <3>2, <3>3
  <2> QED  BY <1>7, <2>2, <2>3, <2>4
<1>8. CASE DisconnectSlow(c)
  <2> DEFINE t == [task[c] EXCEPT !.pc = "enqueue"]
  <2>1. task[c] \in RouteTask(n) /\ task[c].pc \in RoutePc /\ task' = [task EXCEPT ![c] = t]
    BY <1>8, DisconnectSlowTyped DEF DisconnectSlow, RoutePc
  <2>2. t.msg = task[c].msg /\ t.to = task[c].to /\ t.away = task[c].away /\ t.slow = task[c].slow
    BY <2>1 DEF RouteTask
  <2> HIDE DEF t
  <2>3. Bearing(t) = Bearing(task[c])
    BY <2>2 DEF Bearing
  <2> QED  BY <1>3, <2>1, <2>2, <2>3
<1>9. ASSUME NEW v \in User, Enqueue(c, v) PROVE Shrinks(j)
  <2>1. PICK t \in TaskType(n) :
          /\ task' = [task EXCEPT ![c] = t]
          /\ t.pc \in RoutePc =>
                /\ RouteSound(t)
                /\ t.msg = task[c].msg
                /\ Bearing(t) = Bearing(task[c]) \ {v}
          /\ t.pc \notin RoutePc => t = Idle /\ Bearing(task[c]) \subseteq {v}
    BY <1>9, EnqueueDoes, Zenon
  <2>2. task[c].pc \in RoutePc
    BY <1>9 DEF Enqueue, RoutePc
  <2>3. CASE t.pc \in RoutePc
    BY <1>3, <2>1, <2>2, <2>3
  <2>4. CASE t.pc \notin RoutePc
    BY <1>2, <2>1, <2>4
  <2> QED  BY <2>3, <2>4
<1>10. ASSUME HandlerStep(c) PROVE Shrinks(j)
  <2>1. \/ Greet(c) \/ Drain(c) \/ Replay(c) \/ SendReply(c) \/ DropSubscriptions(c)
        \/ \E v \in User : FanOutSent(c, v) \/ FanOutSlow(c, v) \/ FanOutAway(c, v)
        \/ \E v \in User : Enqueue(c, v)
        \/ DisconnectSlow(c)
    BY <1>10 DEF HandlerStep
  <2> QED  BY <1>6, <1>7, <1>8, <1>9, <2>1
<1> QED  BY <1>5, <1>6, <1>10

LEMMA RoutesAddressedKept ==
    ASSUME NEW n \in Nat, Typed(n), RoutesAddressed, [Next]_vars
    PROVE  RoutesAddressed'
<1>1. CASE UNCHANGED vars
  BY <1>1 DEF vars, RoutesAddressed
<1>2. ASSUME NEW c \in Conn, NEW d \in Doc, Publish(c, d)
      PROVE  RoutesAddressed'
  <2> DEFINE to == subs[d] \ {conn[c].uid}
             t == [pc |-> "route", msg |-> [id |-> sent, from |-> conn[c].uid, via |-> c], to |-> to,
                   slow |-> {}, away |-> {}, evicted |-> {}]
  <2>1. /\ task' = [task EXCEPT ![c] = t]
        /\ addressed' = addressed \cup {[to |-> u, id |-> sent] : u \in to}
    BY <1>2 DEF Publish
  <2>2. t.msg.id = sent /\ Bearing(t) = to
    BY DEF Bearing
  <2> HIDE DEF t
  <2>3. \A j \in Conn : task'[j] = IF j = c THEN t ELSE task[j]
    BY <2>1, TaskReads
  <2> QED  BY <2>1, <2>2, <2>3 DEF RoutesAddressed
<1>3. ASSUME NEW c \in Conn,
             \/ Accept(c) \/ ReadEnds(c) \/ CloseSignalled(c) \/ Cleanup(c) \/ WriterStep(c) \/ Refuse(c)
             \/ \E v \in User : Identify(c, v)
             \/ \E d \in Doc : Subscribe(c, d) \/ Unsubscribe(c, d)
             \/ HandlerStep(c)
      PROVE  RoutesAddressed'
  <2>1. addressed' = addressed
    BY <1>3, OnlyPublishAddresses
  <2>2. ASSUME NEW j \in Conn, task'[j].pc \in RoutePc, NEW v \in Bearing(task'[j])
        PROVE  [to |-> v, id |-> task'[j].msg.id] \in addressed
    <3>1. Shrinks(j)
      BY <1>3, <2>2, RoutesShrink
    <3> QED  BY <2>2, <3>1 DEF Shrinks, RoutesAddressed
  <2> QED  BY <2>1, <2>2 DEF RoutesAddressed
<1> QED  BY <1>1, <1>2, <1>3 DEF Next

-----------------------------------------------------------------------------
(* Sequences and what is left of them.                                     *)

\* What the store sees of a user's queue.
Entry == [id : Nat, kind : {"content"}, bytes : {1}]
Entries(s) == [i \in DOMAIN s |-> Stored(s[i])]

LEMMA EntriesTyped ==
    ASSUME NEW n \in Nat, NEW s \in Seq(Issued(n))
    PROVE  /\ Entries(s) \in Seq(Entry) /\ Len(Entries(s)) = Len(s) /\ Len(s) \in Nat
           /\ DOMAIN Entries(s) = DOMAIN s /\ DOMAIN s = 1..Len(s)
           /\ \A i \in DOMAIN s : Entries(s)[i] = Stored(s[i]) /\ s[i].id \in Nat
<1>1. DOMAIN s = 1..Len(s) /\ Len(s) \in Nat /\ \A i \in 1..Len(s) : s[i] \in Issued(n)
  BY LenProperties, ElementOfSeq
<1>2. \A i \in DOMAIN s : s[i].id \in Nat /\ Stored(s[i]) \in Entry
  BY <1>1 DEF Issued, Stored, Entry
<1>3. Entries(s) \in [1..Len(s) -> Entry]
  BY <1>1, <1>2 DEF Entries
<1>4. Entries(s) \in Seq(Entry) /\ Len(Entries(s)) = Len(s)
  BY <1>1, <1>3, SeqDef, LenProperties
<1> QED  BY <1>1, <1>2, <1>4 DEF Entries

\* A sequence is what is left of itself, and of a longer one.
LEMMA SubsequenceItself ==
    ASSUME NEW s
    PROVE  Store!IsSubsequence(s, s)
<1> DEFINE at == [i \in DOMAIN s |-> i]
<1>1. at \in [DOMAIN s -> DOMAIN s] /\ \A i \in DOMAIN s : at[i] = i
  OBVIOUS
<1> HIDE DEF at
<1> QED  BY <1>1 DEF Store!IsSubsequence

LEMMA SubsequenceNone ==
    ASSUME NEW s
    PROVE  Store!IsSubsequence(<<>>, s)
<1> DEFINE e == <<>>
           at == [i \in {} |-> i]
<1>1. DOMAIN e = {} /\ at \in [DOMAIN e -> DOMAIN s]
  OBVIOUS
<1> HIDE DEF e, at
<1>2. Store!IsSubsequence(e, s)
  BY <1>1 DEF Store!IsSubsequence
<1> QED  BY <1>2 DEF e

LEMMA SubsequenceTail ==
    ASSUME NEW S, NEW s \in Seq(S), s # <<>>
    PROVE  Store!IsSubsequence(Tail(s), s)
<1> DEFINE t == Tail(s)
           at == [i \in DOMAIN t |-> i + 1]
<1>1. /\ DOMAIN t = 1..Len(t) /\ DOMAIN s = 1..Len(s) /\ Len(s) \in Nat
      /\ Len(t) = Len(s) - 1 /\ Len(t) \in Nat
      /\ \A i \in 1..Len(t) : t[i] = s[i + 1]
  BY HeadTailProperties, LenProperties
<1>2. \A i \in DOMAIN t : at[i] = i + 1 /\ at[i] \in DOMAIN s
  BY <1>1
<1>3. at \in [DOMAIN t -> DOMAIN s]
  BY <1>2
<1> HIDE DEF at, t
<1>4. \A i, j \in DOMAIN t : i < j => at[i] < at[j]
  BY <1>1, <1>2
<1>5. \A i \in DOMAIN t : t[i] = s[at[i]]
  BY <1>1, <1>2
<1> QED  BY <1>3, <1>4, <1>5 DEF Store!IsSubsequence, t

LEMMA SubsequenceTwice ==
    ASSUME NEW r, NEW t, NEW s, Store!IsSubsequence(r, t), Store!IsSubsequence(t, s)
    PROVE  Store!IsSubsequence(r, s)
<1>1. PICK f \in [DOMAIN r -> DOMAIN t] :
        /\ \A i, j \in DOMAIN r : i < j => f[i] < f[j]
        /\ \A i \in DOMAIN r : r[i] = t[f[i]]
  BY DEF Store!IsSubsequence
<1>2. PICK g \in [DOMAIN t -> DOMAIN s] :
        /\ \A i, j \in DOMAIN t : i < j => g[i] < g[j]
        /\ \A i \in DOMAIN t : t[i] = s[g[i]]
  BY DEF Store!IsSubsequence
<1> DEFINE at == [i \in DOMAIN r |-> g[f[i]]]
<1>3. at \in [DOMAIN r -> DOMAIN s] /\ \A i \in DOMAIN r : at[i] = g[f[i]] /\ f[i] \in DOMAIN t
  BY <1>1, <1>2
<1> HIDE DEF at
<1>4. \A i, j \in DOMAIN r : i < j => at[i] < at[j]
  BY <1>1, <1>2, <1>3
<1>5. \A i \in DOMAIN r : r[i] = s[at[i]]
  BY <1>1, <1>2, <1>3
<1> QED  BY <1>3, <1>4, <1>5 DEF Store!IsSubsequence

LEMMA SubsequenceShorter ==
    ASSUME NEW S, NEW s \in Seq(S), NEW t, t = <<>> \/ Shorter(t, s)
    PROVE  Store!IsSubsequence(t, s)
BY SubsequenceItself, SubsequenceNone, SubsequenceTail DEF Shorter

\* Subsequences of a queue are subsequences in the store.
LEMMA SubsequenceEntries ==
    ASSUME NEW t, NEW s, Store!IsSubsequence(t, s)
    PROVE  Store!IsSubsequence(Entries(t), Entries(s))
<1>1. PICK at \in [DOMAIN t -> DOMAIN s] :
        /\ \A i, j \in DOMAIN t : i < j => at[i] < at[j]
        /\ \A i \in DOMAIN t : t[i] = s[at[i]]
  BY DEF Store!IsSubsequence
<1>2. /\ DOMAIN Entries(t) = DOMAIN t /\ DOMAIN Entries(s) = DOMAIN s
      /\ \A i \in DOMAIN t : Entries(t)[i] = Stored(t[i]) /\ Entries(s)[at[i]] = Stored(s[at[i]])
  BY <1>1 DEF Entries
<1>3. \A i \in DOMAIN t : Entries(t)[i] = Entries(s)[at[i]]
  BY <1>1, <1>2, Zenon
<1> QED  BY <1>1, <1>2, <1>3 DEF Store!IsSubsequence

\* All but the newest, after a message has been added and perhaps the oldest dropped.
LEMMA FrontOfAppend ==
    ASSUME NEW S, NEW t \in Seq(S), NEW m \in S, NEW s,
           s = Append(t, m) \/ (t # <<>> /\ s = Tail(Append(t, m)))
    PROVE  /\ s \in Seq(S) /\ s # <<>> /\ Last(s) = m
           /\ Front(s) \in Seq(S) /\ Shorter(Front(s), t)
<1> DEFINE x == Append(t, m)
<1>0. Len(t) \in Nat /\ DOMAIN t = 1..Len(t)
  BY LenProperties
<1>1. /\ x \in Seq(S) /\ x # <<>> /\ Len(x) = Len(t) + 1
      /\ x[Len(t) + 1] = m /\ \A i \in 1..Len(t) : x[i] = t[i]
  BY AppendProperties
<1> HIDE DEF x
<1>2. CASE s = x
  <2>1. s \in Seq(S) /\ s # <<>> /\ Last(s) = m
    BY <1>1, <1>2 DEF Last
  <2>2. /\ Front(s) \in Seq(S) /\ Len(Front(s)) = Len(t)
        /\ \A i \in 1..Len(t) : Front(s)[i] = t[i]
    <3>0. Len(x) - 1 = Len(t)
      BY <1>0, <1>1
    <3>1. Front(s) = SubSeq(x, 1, Len(t))
      BY <1>2, <3>0, Zenon DEF Front
    <3> QED  BY <1>0, <1>1, <3>1, SubSeqProperties
  <2>3. Front(s) = t
    BY <1>0, <2>2, SeqEqual
  <2> QED  BY <2>1, <2>2, <2>3 DEF Shorter
<1>3. CASE t # <<>> /\ s = Tail(x)
  <2>1. /\ s \in Seq(S) /\ Len(s) = Len(t)
        /\ \A i \in 1..Len(t) : s[i] = x[i + 1]
    BY <1>0, <1>1, <1>3, HeadTailProperties
  <2>2. Len(t) # 0
    BY <1>3, EmptySeq
  <2>3. s # <<>>
    BY <1>0, <2>1, <2>2, EmptySeq
  <2>4. Last(s) = m
    BY <1>0, <1>1, <2>1, <2>2 DEF Last
  <2>5. /\ Tail(t) \in Seq(S) /\ Len(Tail(t)) = Len(t) - 1
        /\ \A i \in 1..(Len(t) - 1) : Tail(t)[i] = t[i + 1]
    BY <1>0, <1>3, HeadTailProperties
  <2>6. /\ Front(s) \in Seq(S) /\ Len(Front(s)) = Len(t) - 1
        /\ \A i \in 1..(Len(t) - 1) : Front(s)[i] = s[i]
    <3>1. Front(s) = SubSeq(s, 1, Len(t) - 1)
      BY <2>1 DEF Front
    <3> QED  BY <1>0, <2>1, <2>2, <3>1, SubSeqProperties
  <2>7. \A i \in 1..(Len(t) - 1) : Front(s)[i] = Tail(t)[i]
    <3> SUFFICES ASSUME NEW i \in 1..(Len(t) - 1) PROVE Front(s)[i] = Tail(t)[i]
      OBVIOUS
    <3>1. i \in 1..Len(t) /\ i + 1 \in 1..Len(t)
      BY <1>0
    <3> QED  BY <1>1, <2>1, <2>5, <2>6, <3>1
  <2>8. Front(s) = Tail(t)
    BY <2>5, <2>6, <2>7, SeqEqual
  <2> QED  BY <1>3, <2>1, <2>3, <2>4, <2>6, <2>8 DEF Shorter
<1> QED  BY <1>2, <1>3 DEF x

-----------------------------------------------------------------------------
(* Every step is one of the store.                                         *)

\* The store as a function of the queue.
StoreOf(off) == [u \in User |-> Entries(Held(off, u))]

LEMMA WaitingIs == Waiting = StoreOf(offline) /\ Waiting' = StoreOf(offline')
<1>1. Entries(<<>>) = <<>>
  BY DEF Entries
<1>2. \A u \in User : /\ Waiting[u] = Entries(Held(offline, u))
                      /\ Waiting'[u] = Entries(Held(offline', u))
  BY <1>1 DEF Waiting, Entries, Held
<1>3. Waiting = [u \in User |-> Waiting[u]] /\ Waiting' = [u \in User |-> Waiting'[u]]
  BY DEF Waiting
<1> QED  BY <1>2, <1>3 DEF StoreOf

\* Messages of one byte: the payload of a queue is its length.
LEMMA PayloadIsLen ==
    ASSUME NEW s \in Seq(Entry)
    PROVE  Store!Payload(s, "content") = Len(s)
<1> DEFINE k == "content"
           w == Queue!Weights(s, k)
           one == [i \in Nat |-> 1]
           T == {j \in Nat : SumFunctionOnSet(one, 1..j) = j}
<1>0. DOMAIN s = 1..Len(s) /\ Len(s) \in Nat /\ \A i \in 1..Len(s) : s[i].kind = k /\ s[i].bytes = 1
  <2>1. DOMAIN s = 1..Len(s) /\ Len(s) \in Nat /\ \A i \in 1..Len(s) : s[i] \in Entry
    BY LenProperties, ElementOfSeq
  <2> QED  BY <2>1 DEF Entry
<1>1. Store!Payload(s, k) = Queue!SumOf(s, k)
  <2> DEFINE total == (CHOOSE it : it = [r \in SUBSET DOMAIN s |->
            IF r = {} THEN 0
            ELSE it[r \ {CHOOSE x \in r : TRUE}]
                 + (IF s[CHOOSE x \in r : TRUE].kind = k THEN s[CHOOSE x \in r : TRUE].bytes ELSE 0)])[DOMAIN s]
  <2>1. Queue!SumOf(s, k) = total
    BY DEF Queue!SumOf, Queue!FoldSeq, Queue!FoldFunction, Queue!FoldFunctionOnSet,
           Queue!MapThenFoldSet
  <2>2. Store!Payload(s, k) = total
    BY DEF Store!Payload, Store!FoldSeq, Store!FoldFunction, Store!FoldFunctionOnSet,
           Store!MapThenFoldSet
  <2> QED  BY <2>1, <2>2, Zenon
<1>2. Queue!SumOf(s, k) = SumFunctionOnSet(w, 1..Len(s))
  <2>1. Entry = Queue!Message
    BY DEF Entry, Queue!Message
  <2>2. s \in Seq(Queue!Message)
    BY <2>1
  <2>3. Queue!SumOf(s, k) = Queue!SumFunctionOnSet(w, 1..Len(s))
    BY <2>2, Queue!SumOfIsSum, QueueAssumed
  <2> QED  BY <2>3, SameOperators
<1>3. \A i \in 1..Len(s) : w[i] = one[i]
  BY <1>0 DEF Queue!Weights, Queue!Weight
<1>4. \A j \in Nat : IsFiniteSet(1..j)
  BY FS_Interval
<1>5. \A i \in Nat : one[i] = 1
  OBVIOUS
<1> HIDE DEF one, w, k
<1>6. 0 \in T
  <2>1. Queue!SumFunctionOnSet(one, {}) = 0
    BY FS_EmptySet, Queue!SumProperties, QueueAssumed, SameOperators
  <2>2. 1..0 = {}
    OBVIOUS
  <2>3. SumFunctionOnSet(one, 1..0) = 0
    BY <2>1, <2>2, SameOperators
  <2> QED  BY <2>3
<1>7. ASSUME NEW j \in T PROVE j + 1 \in T
  <2>1. 1..(j + 1) = 1..j \cup {j + 1} /\ j + 1 \notin 1..j /\ j \in Nat
    OBVIOUS
  <2>2. \A i \in 1..j \cup {j + 1} : one[i] \in Int
    BY <1>5
  <2> DEFINE S == 1..j
             i == j + 1
  <2>3. IsFiniteSet(S) /\ i \notin S /\ \A x \in S \cup {i} : one[x] \in Int
    BY <1>4, <2>1, <2>2
  <2> HIDE DEF S, i
  <2>4. SumFunctionOnSet(one, S \cup {i}) = one[i] + SumFunctionOnSet(one, S)
    <3>1. Queue!SumFunctionOnSet(one, S \cup {i}) = one[i] + Queue!SumFunctionOnSet(one, S)
      BY <2>3, Queue!SumInsert, QueueAssumed, SameOperators
    <3> QED  BY <3>1, SameOperators
  <2>5. SumFunctionOnSet(one, 1..(j + 1)) = one[j + 1] + SumFunctionOnSet(one, 1..j)
    BY <2>1, <2>4 DEF S, i
  <2> QED  BY <1>5, <2>1, <2>5
<1>8. T = Nat
  <2>1. T \in SUBSET Nat
    OBVIOUS
  <2> HIDE DEF T
  <2>2. \A R \in SUBSET Nat : 0 \in R /\ (\A j \in R : j + 1 \in R) => R = Nat
    BY Queue!SetInduction, QueueAssumed, Zenon
  <2> QED  BY <1>6, <1>7, <2>1, <2>2, Zenon
<1>9. SumFunctionOnSet(w, 1..Len(s)) = SumFunctionOnSet(one, 1..Len(s))
  <2>1. IsFiniteSet(1..Len(s)) /\ \A i \in 1..Len(s) : one[i] \in Int
    BY <1>0, <1>4, <1>5
  <2>2. Queue!SumFunctionOnSet(w, 1..Len(s)) = Queue!SumFunctionOnSet(one, 1..Len(s))
    BY <1>3, <2>1, Queue!SumAgrees, QueueAssumed, SameOperators
  <2> QED  BY <2>2, SameOperators
<1>10. SumFunctionOnSet(one, 1..Len(s)) = Len(s)
  BY <1>0, <1>8
<1> QED  BY <1>1, <1>2, <1>9, <1>10 DEF k

\* The caps on the queue are the store's limits.
LEMMA StoreWithinLimits ==
    ASSUME NEW n \in Nat, NEW off, QueueCaps(off), DOMAIN off \subseteq User,
           \A u \in DOMAIN off : off[u] # <<>> /\ off[u] \in Seq(Issued(n))
    PROVE  Store!WithinLimits(StoreOf(off))
<1> DEFINE s == StoreOf(off)
<1>0. MaxPerUser \in Nat /\ MaxUsers \in Nat /\ QueueBudget \in Nat
  BY SessionsAssumption
<1>1. ASSUME NEW u \in User
      PROVE  /\ s[u] = Entries(Held(off, u)) /\ Held(off, u) \in Seq(Issued(n))
             /\ s[u] \in Seq(Entry) /\ Len(s[u]) = Len(Held(off, u)) /\ Len(s[u]) \in Nat
             /\ Store!Payload(s[u], "content") = Len(s[u])
  <2>1. s[u] = Entries(Held(off, u))
    BY DEF StoreOf
  <2>2. Held(off, u) \in Seq(Issued(n))
    BY DEF Held
  <2> HIDE DEF s
  <2>3. s[u] \in Seq(Entry) /\ Len(s[u]) = Len(Held(off, u)) /\ Len(s[u]) \in Nat
    BY <2>1, <2>2, EntriesTyped
  <2> QED  BY <2>1, <2>2, <2>3, PayloadIsLen
<1> HIDE DEF s
<1>2. Store!Holders(s) = DOMAIN off
  <2>1. ASSUME NEW u \in DOMAIN off PROVE s[u] # <<>>
    <3>1. Len(s[u]) = Len(off[u]) /\ off[u] # <<>> /\ off[u] \in Seq(Issued(n))
      BY <1>1 DEF Held
    <3>2. Len(off[u]) # 0
      BY <3>1, EmptySeq
    <3>3. Len(s[u]) # Len(<<>>)
      BY <3>1, <3>2, EmptySeq
    <3> QED  BY <3>3, Zenon
  <2>2. ASSUME NEW u \in User \ DOMAIN off PROVE s[u] = <<>>
    BY <1>1, EmptySeq DEF Held
  <2>3. \A u \in User : s[u] # <<>> <=> u \in DOMAIN off
    BY <2>1, <2>2
  <2> QED  BY <2>3, Zenon DEF Store!Holders
<1>3. ASSUME NEW u \in User PROVE Len(s[u]) <= MaxPerUser
  <2>1. CASE u \in DOMAIN off
    BY <1>1, <2>1 DEF Held, QueueCaps
  <2>2. CASE u \notin DOMAIN off
    BY <1>0, <1>1, <2>2, EmptySeq DEF Held
  <2> QED  BY <2>1, <2>2
<1>4. [u \in Store!Holders(s) |-> Store!Payload(s[u], "content")] = Lens(off)
  <2>1. \A u \in DOMAIN off : Store!Payload(s[u], "content") = Len(off[u])
    BY <1>1 DEF Held
  <2> QED  BY <1>2, <2>1 DEF Lens
<1>5. SumFunction([u \in Store!Holders(s) |-> Store!Payload(s[u], "content")]) <= QueueBudget
  <2>1. SumFunction([u \in Store!Holders(s) |-> Store!Payload(s[u], "content")]) = Total(off)
    BY <1>4, Zenon DEF Total
  <2>2. Total(off) <= QueueBudget
    BY DEF QueueCaps
  <2> QED  BY <2>1, <2>2, Zenon
<1>6. ASSUME NEW u \in User PROVE Store!Payload(s[u], "content") <= QueueBudget
  <2>1. IsFiniteSet(DOMAIN off) /\ \A v \in DOMAIN off : Len(off[v]) \in Nat
    BY LenOfQueues DEF QueueCaps, Capped
  <2>2. /\ Total(off) = Len(Held(off, u)) + SumFunctionOnSet(Lens(off), DOMAIN off \ {u})
        /\ SumFunctionOnSet(Lens(off), DOMAIN off \ {u}) \in Nat /\ Len(Held(off, u)) \in Nat
    BY <2>1, TotalOf, Zenon
  <2>3. Total(off) <= QueueBudget
    BY DEF QueueCaps
  <2> QED  BY <1>0, <1>1, <2>2, <2>3
<1>7. Cardinality(Store!Holders(s)) <= MaxUsers
  BY <1>2 DEF QueueCaps, Capped
<1>8. Store!WithinLimits(s)
  <2>1. /\ Store!Cardinality(Store!Holders(s)) <= MaxUsers
        /\ Store!SumFunction([u \in Store!Holders(s) |-> Store!Payload(s[u], "content")]) <= QueueBudget
    BY <1>5, <1>7, SameOperators, Zenon
  <2>2. \A k \in {"content"} : [x \in {"content"} |-> QueueBudget][k] = QueueBudget
    OBVIOUS
  <2>3. ASSUME NEW k \in {"content"}
        PROVE  /\ Store!SumFunction([u \in Store!Holders(s) |-> Store!Payload(s[u], k)])
                    <= [x \in {"content"} |-> QueueBudget][k]
               /\ \A u \in User : Store!Payload(s[u], k) <= [x \in {"content"} |-> QueueBudget][k]
    <3>1. k = "content"
      OBVIOUS
    <3> QED  BY <1>6, <2>1, <2>2, <3>1, Zenon
  <2> QED  BY <1>3, <2>1, <2>3, Zenon DEF Store!WithinLimits
<1> QED  BY <1>8 DEF s

\* A message that a route is about to queue does not wait in the queue yet.
LEMMA NotYetQueued ==
    ASSUME NEW n \in Nat, Typed(n), Once, RoutesAddressed, NEW c \in Conn, NEW u \in User, Enqueue(c, u)
    PROVE  IdsIn(Held(offline, u), task[c].msg.id) = {}
<1> DEFINE id == task[c].msg.id
           a == [to |-> u, id |-> id]
<1>1. task[c].pc \in RoutePc /\ u \in Bearing(task[c])
  BY EnqueueDoes DEF RoutePc
<1>2. a \in addressed /\ a.to = u /\ a.id = id
  BY <1>1 DEF RoutesAddressed
<1>3. c \in InRoutes(task, u, id)
  BY <1>1 DEF InRoutes
<1> HIDE DEF a, id
<1>4. At(task, conn, offline, received, lost, u, id)
  BY <1>2 DEF Once
<1>5. InQueue(offline, u, id) = {}
  BY <1>3, <1>4, OneOfHas DEF At
<1> QED  BY <1>5, QueueIsHeld DEF id

\* Queueing the message of a route is an Enqueue of the store.
LEMMA EnqueueIsEnqueue ==
    ASSUME NEW n \in Nat, Typed(n), Once, RoutesAddressed, QueueCaps(offline),
           NEW c \in Conn, NEW u \in User, Enqueue(c, u)
    PROVE  Store!Enqueue(u)
<1> DEFINE m == task[c].msg
           x == Stored(m)
           old == StoreOf(offline)
           new == StoreOf(offline')
           s == Held(offline, u)
           s1 == Held(offline', u)
<1>0. m \in Issued(n)
  BY EnqueueDoes DEF RouteTask
<1>1. /\ Waiting = old /\ Waiting' = new
      /\ \A v \in User : old[v] = Entries(Held(offline, v)) /\ new[v] = Entries(Held(offline', v))
  BY WaitingIs DEF StoreOf
<1>2. \A v \in User : Held(offline, v) \in Seq(Issued(n)) /\ Held(offline', v) \in Seq(Issued(n))
  BY EnqueueHolds
<1>3. Store!WithinLimits(new)
  <2>1. QueueCaps(offline')
    BY EnqueueCaps
  <2>2. DOMAIN offline' \subseteq User
        /\ \A v \in DOMAIN offline' : offline'[v] # <<>> /\ offline'[v] \in Seq(Issued(n))
    BY EnqueueDoes DEF QueueTyped
  <2> QED  BY <2>1, <2>2, StoreWithinLimits
<1>4. ASSUME NEW v \in User \ {u} PROVE Store!IsSubsequence(new[v], old[v])
  <2>1. Held(offline', v) = <<>> \/ Shorter(Held(offline', v), Held(offline, v))
    BY EnqueueDoes DEF Held
  <2>2. Store!IsSubsequence(Held(offline', v), Held(offline, v))
    BY <1>2, <2>1, SubsequenceShorter
  <2> QED  BY <1>1, <2>2, SubsequenceEntries
<1>5. PICK t \in Seq(Issued(n)) :
        /\ t = <<>> \/ Shorter(t, s)
        /\ s1 = Append(t, m) \/ (t # <<>> /\ s1 = Tail(Append(t, m)))
  BY EnqueueDoes DEF Held
<1> HIDE DEF m, old, new, s, s1
<1>6. /\ s \in Seq(Issued(n)) /\ s1 \in Seq(Issued(n)) /\ s1 # <<>> /\ Last(s1) = m
      /\ Front(s1) \in Seq(Issued(n)) /\ Shorter(Front(s1), t)
  BY <1>0, <1>2, <1>5, FrontOfAppend DEF s
<1>7. Store!IsSubsequence(Front(s1), s)
  <2>1. Store!IsSubsequence(Front(s1), t)
    BY <1>6, SubsequenceShorter
  <2>2. Store!IsSubsequence(t, s)
    BY <1>5, <1>6, SubsequenceShorter
  <2> QED  BY <2>1, <2>2, SubsequenceTwice
<1>8. new[u] = Entries(s1) /\ old[u] = Entries(s)
  BY <1>1 DEF s, s1
<1>9. /\ new[u] # <<>> /\ Last(new[u]) = x
      /\ Store!IsSubsequence(Front(new[u]), old[u])
  <2>1. /\ Len(s1) \in Nat /\ DOMAIN s1 = 1..Len(s1) /\ Len(s1) # 0
        /\ Entries(s1) \in Seq(Entry) /\ Len(Entries(s1)) = Len(s1)
        /\ \A i \in DOMAIN s1 : Entries(s1)[i] = Stored(s1[i])
    BY <1>6, EntriesTyped, EmptySeq
  <2>2. Entries(s1) # <<>>
    BY <2>1, EmptySeq
  <2>3. Last(Entries(s1)) = Stored(Last(s1))
    BY <2>1 DEF Last
  <2>4. Front(Entries(s1)) = Entries(Front(s1))
    <3> DEFINE k == Len(s1) - 1
               f == Front(s1)
               e == Entries(s1)
    <3>1. k \in Nat /\ 1..k \subseteq DOMAIN s1 /\ k - 1 + 1 = k
      BY <2>1
    <3>2. Len(f) = k /\ \A i \in 1..k : f[i] = s1[i]
      <4>1. \A i \in 1..k : s1[i] \in Issued(n)
        BY <1>6, <2>1, <3>1, ElementOfSeq
      <4>2. f = SubSeq(s1, 1, k)
        BY DEF Front
      <4> HIDE DEF f
      <4> QED  BY <3>1, <4>1, <4>2, SubSeqProperties
    <3>3. Front(e) \in Seq(Entry) /\ Len(Front(e)) = k /\ \A i \in 1..k : Front(e)[i] = e[i]
      <4>1. \A i \in 1..k : e[i] \in Entry
        BY <2>1, <3>1, ElementOfSeq
      <4>2. Front(e) = SubSeq(e, 1, k)
        BY <2>1 DEF Front
      <4> HIDE DEF e
      <4> QED  BY <3>1, <4>1, <4>2, SubSeqProperties
    <3>4. /\ Entries(f) \in Seq(Entry) /\ Len(Entries(f)) = k /\ DOMAIN f = 1..k
          /\ \A i \in DOMAIN f : Entries(f)[i] = Stored(f[i])
      BY <1>6, <3>2, EntriesTyped
    <3> HIDE DEF k, f, e
    <3>5. \A i \in 1..k : Front(e)[i] = Entries(f)[i]
      BY <2>1, <3>1, <3>2, <3>3, <3>4 DEF e
    <3>6. Front(e) = Entries(f)
      BY <3>3, <3>4, <3>5, SeqEqual
    <3> QED  BY <3>6 DEF e, f
  <2>5. Store!IsSubsequence(Entries(Front(s1)), Entries(s))
    BY <1>7, SubsequenceEntries
  <2> QED  BY <1>6, <1>8, <2>2, <2>3, <2>4, <2>5
<1>10. x \notin ToSet(old[u])
  <2>1. IdsIn(s, m.id) = {}
    BY NotYetQueued DEF s, m
  <2>2. ASSUME NEW i \in DOMAIN Entries(s) PROVE Entries(s)[i] # x
    <3>1. i \in DOMAIN s /\ Entries(s)[i] = Stored(s[i])
      BY <1>6, EntriesTyped
    <3>2. s[i].id # m.id
      BY <2>1, <3>1 DEF IdsIn
    <3>3. Stored(s[i]).id = s[i].id /\ x.id = m.id
      BY DEF Stored
    <3> QED  BY <3>1, <3>2, <3>3
  <2> QED  BY <1>8, <2>2 DEF ToSet
<1>11. ASSUME NEW v \in User PROVE \A l \in ToSet(old[v]) : l.kind = "content"
  <2>1. old[v] \in Seq(Entry)
    BY <1>1, <1>2, EntriesTyped
  <2>2. \A i \in DOMAIN old[v] : old[v][i] \in Entry
    BY <2>1, ElementOfSeq, LenProperties
  <2> QED  BY <2>2 DEF ToSet, Entry
<1>12. x.kind = "content"
  BY DEF Stored
<1>13. \A v \in User : \A l \in Store!Lost(v) : l.kind = x.kind
  <2>1. \A v \in User : Store!Lost(v) \subseteq ToSet(old[v])
    BY <1>1, SameOperators, Zenon DEF Store!Lost
  <2> QED  BY <1>11, <1>12, <2>1
<1> HIDE DEF x
<1>14. Store!Queued(u, x, {})
  <2>1. Store!Last(new[u]) = x /\ x \notin Store!ToSet(old[u])
    BY <1>9, <1>10, SameOperators, Zenon
  <2>2. Store!IsSubsequence(Store!Front(new[u]), old[u])
    BY <1>9, SameOperators, Zenon
  <2>3. /\ \A v \in {} : v # u /\ Waiting'[v] = <<>>
        /\ {} # {} => old[u] = <<>> \/ \A l \in Store!Lost(u) : l.kind = x.kind
        /\ \A v \in User \ ({u} \cup {}) : \A l \in Store!Lost(v) : l.kind = x.kind
        /\ \A l \in Store!Lost(u) : l.kind = x.kind \/ Len(Waiting'[u]) = MaxPerUser
    BY <1>13
  <2> QED  BY <1>1, <1>3, <1>4, <1>9, <2>1, <2>2, <2>3, Zenon DEF Store!Queued
<1>15. Store!Last(Waiting'[u]) = x
  BY <1>1, <1>9, SameOperators, Zenon
<1>16. {} \in {{}} \cup {{v} : v \in User}
  OBVIOUS
<1> QED  BY <1>14, <1>15, <1>16, Zenon DEF Store!Enqueue

\* Draining a user's queue is a Drained of the store.
LEMMA DrainIsDrained ==
    ASSUME NEW n \in Nat, Typed(n), NEW c \in Conn, Drain(c), offline' # offline
    PROVE  conn[c].uid \in User /\ Store!Drained(conn[c].uid)
<1> DEFINE u == conn[c].uid
<1>1. u \in User /\ offline' = Dropping(offline, {u})
  BY DrainDoes
<1> HIDE DEF u
<1>2. Held(offline', u) = <<>> /\ \A v \in User \ {u} : Held(offline', v) = Held(offline, v)
  BY <1>1 DEF Held, Dropping, Restrict
<1>3. Entries(<<>>) = <<>>
  BY DEF Entries
<1>4. StoreOf(offline') = [StoreOf(offline) EXCEPT ![u] = <<>>]
  BY <1>1, <1>2, <1>3 DEF StoreOf
<1>5. Store!Drained(u)
  BY <1>4, WaitingIs, Zenon DEF Store!Drained
<1> QED  BY <1>1, <1>5 DEF u

\* What routes queue and drains take, and what the queue drops to stay within its
\* caps, is at every step what OfflineStore allows, however the routes, takeovers
\* and drains of different connections interleave (routing.rs, storage.rs).
THEOREM QueueKeepsItsPromise == Spec => QueueAsPromised
<1> DEFINE Sound == Types /\ Once /\ RoutesAddressed /\ QueueCaps(offline)
<1>1. Init => RoutesAddressed /\ QueueCaps(offline) /\ Store!StoreInit
  <2> SUFFICES ASSUME Init PROVE RoutesAddressed /\ QueueCaps(offline) /\ Store!StoreInit
    OBVIOUS
  <2>1. offline = <<>> /\ DOMAIN offline = {} /\ \A c \in Conn : task[c].pc \notin RoutePc
    BY DEF Init, Idle, RoutePc
  <2>2. QueueCaps(offline)
    BY <2>1, FS_EmptySet, TotalOfNone, SessionsAssumption DEF QueueCaps, Capped
  <2>3. Waiting = [u \in User |-> <<>>]
    BY <2>1 DEF Waiting
  <2> QED  BY <2>1, <2>2, <2>3, Zenon DEF RoutesAddressed, Store!StoreInit
<1>2. Init => Once
  BY DEF Init, Once
<1>3. Sound /\ [Next]_vars => RoutesAddressed' /\ QueueCaps(offline)'
  BY RoutesAddressedKept, QueueCapsKept DEF Types
<1>4. Sound /\ [Next]_vars => [Store!StoreNext]_Waiting
  <2> SUFFICES ASSUME Sound, [Next]_vars PROVE Store!StoreNext \/ Waiting' = Waiting
    OBVIOUS
  <2>1. PICK n \in Nat : Typed(n)
    BY DEF Types
  <2>2. CASE offline' = offline
    BY <2>2, WaitingIs, Zenon
  <2>3. ASSUME NEW c \in Conn, NEW u \in User, Enqueue(c, u) PROVE Store!StoreNext
    BY <2>1, <2>3, EnqueueIsEnqueue DEF Store!StoreNext
  <2>4. ASSUME NEW c \in Conn, Drain(c), offline' # offline PROVE Store!StoreNext
    BY <2>1, <2>4, DrainIsDrained DEF Store!StoreNext
  <2>5. offline' = offline \/ \E c \in Conn : Drain(c) \/ \E u \in User : Enqueue(c, u)
    BY WhoQueues DEF Next, vars
  <2> QED  BY <2>2, <2>3, <2>4, <2>5
<1>5. Spec => []Sound
  <2>1. Init => Sound
    BY <1>1, <1>2, InitTyped
  <2>2. Sound /\ [Next]_vars => Sound'
    BY <1>3, TypesKept, OnceKept
  <2> QED  BY <2>1, <2>2, PTL DEF Spec
<1> HIDE DEF Sound
<1> QED  BY <1>1, <1>4, <1>5, PTL DEF Spec, QueueAsPromised, Store!StoreSpec
=============================================================================
