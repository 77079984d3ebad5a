---------------------------- MODULE CollabClient ----------------------------
(***************************************************************************)
(* The life of the plugin's CollabClient                                   *)
(* (plugins/obsidian-ee/src/collab-client.ts): connection attempts and     *)
(* their promises, the retry loop with its timers, and the two MLS group   *)
(* slots that outlive sockets.  JavaScript runs one handler at a time, so  *)
(* a handler is an action; what interleaves are the caller, the timers and *)
(* the sockets' events, and a socket's close event arrives some time after *)
(* the socket was closed or lost.                                          *)
(*                                                                         *)
(* A timer is armed or not and may fire whenever it is; a socket is named  *)
(* by the connectGeneration that made it.  The frames and the send queue   *)
(* are left out but for what they do to a slot: an owner's registration of *)
(* the document's first anchor, and the answer to a joiner's key package.  *)
(***************************************************************************)
EXTENDS Naturals

CONSTANTS
    MaxAttempts,   \* config.maxReconnectAttempts
    MaxSockets     \* bound on the sockets a behaviour makes

ASSUME ClientAssumption == MaxAttempts \in Nat /\ MaxSockets \in Nat \ {0}

VARIABLES
    role,          \* config.role
    socket,        \* each socket's phase
    opened,        \* hasOpened of each attempt
    settled,       \* whether the promise of each attempt has settled
    ws,            \* this.ws, 0 for null
    generation,    \* connectGeneration
    promise,       \* connectPromise: the attempt it is of, 0 for null
    state,         \* connectionState
    stopped, destroyed, isInitialConnect,
    attempts,      \* reconnectAttempts
    reconnect,     \* reconnectTimer is armed
    stability,     \* stabilityTimer: the socket it was armed for, 0 if it is not
    doc, pending,  \* what each slot holds
    joinTimer,     \* joinTimers, by slot
    registered     \* auxiliary: first registrations of each slot's anchor so far

conn == <<ws, generation, promise, state>>
flags == <<stopped, destroyed, isInitialConnect>>
slots == <<doc, pending, joinTimer, registered>>
vars == <<role, socket, opened, settled, conn, flags, attempts, reconnect, stability, slots>>

Slot == {"file", "manifest"}
Socket == 1..MaxSockets

\* A joiner's group, or an owner's, may have been restored from a snapshot.
Init ==
    /\ role \in {"owner", "joiner"}
    /\ socket = [i \in Socket |-> "none"]
    /\ opened = [i \in Socket |-> FALSE]
    /\ settled = [i \in Socket |-> FALSE]
    /\ ws = 0 /\ generation = 0 /\ promise = 0
    /\ state = "disconnected"
    /\ stopped = FALSE /\ destroyed = FALSE /\ isInitialConnect = TRUE
    /\ attempts = 0
    /\ reconnect = FALSE
    /\ stability = 0
    /\ doc \in [Slot -> BOOLEAN]
    /\ pending = [s \in Slot |-> FALSE]
    /\ joinTimer = [s \in Slot |-> FALSE]
    /\ registered = [s \in Slot |-> IF doc[s] THEN 1 ELSE 0]

-----------------------------------------------------------------------------
(* Attempts.                                                               *)

\* close() on this.ws: the close event is still to come.
ClosingWs == [socket EXCEPT ![ws] = IF @ \in {"connecting", "open"} THEN "closing" ELSE @]
AfterClose == IF ws = 0 THEN socket ELSE ClosingWs

\* Mutated form of Settle: the finally clears whichever promise is there.
Settle_Always(i) ==
    /\ settled' = [settled EXCEPT ![i] = TRUE]
    /\ promise' = 0

\* A promise settles; its finally clears connectPromise unless superseded.
Settle(i) ==
    /\ settled' = [settled EXCEPT ![i] = TRUE]
    /\ promise' = IF i = generation THEN 0 ELSE promise

\* connect() when it makes a new attempt.
NewAttempt ==
    LET i == generation + 1
    IN  /\ i \in Socket
        /\ stopped' = FALSE
        /\ state' = "connecting"
        /\ generation' = i
        /\ socket' = [AfterClose EXCEPT ![i] = "connecting"]
        /\ ws' = i
        /\ promise' = i
        /\ UNCHANGED <<role, opened, settled, destroyed, isInitialConnect, attempts,
                       stability, slots>>

\* The caller calls connect(); one during an attempt gets that attempt's promise.
Connect ==
    /\ ~destroyed /\ promise = 0
    /\ NewAttempt
    /\ UNCHANGED reconnect

-----------------------------------------------------------------------------
(* onopen.                                                                 *)

ToBootstrap == {s \in Slot : ~doc[s] /\ ~pending[s]}

\* The slots that establishGroup got through, the file's first.
Bootstrapped(done) ==
    /\ done \subseteq ToBootstrap
    /\ "manifest" \in done /\ "file" \in ToBootstrap => "file" \in done

\* bootstrapGroup: an owner creates the group and registers its anchor, a joiner
\* sends a key package and arms the deadline.
BootstrapGroups(done) ==
    IF role = "owner"
    THEN /\ doc' = [s \in Slot |-> doc[s] \/ s \in done]
         /\ registered' = [s \in Slot |-> registered[s] + (IF s \in done THEN 1 ELSE 0)]
         /\ UNCHANGED <<pending, joinTimer>>
    ELSE /\ pending' = [s \in Slot |-> pending[s] \/ s \in done]
         /\ joinTimer' = [s \in Slot |-> joinTimer[s] \/ s \in done]
         /\ UNCHANGED <<doc, registered>>

\* The socket opens and the connection is set up.
Open(i) ==
    /\ socket[i] = "connecting"
    /\ socket' = [socket EXCEPT ![i] = "open"]
    /\ opened' = [opened EXCEPT ![i] = TRUE]
    /\ state' = "connected"
    /\ isInitialConnect' = FALSE
    /\ BootstrapGroups(ToBootstrap)
    /\ stability' = i
    /\ Settle(i)
    /\ UNCHANGED <<role, ws, generation, stopped, destroyed, attempts, reconnect>>

\* What may be done when setting up throws: after its last slot only an owner,
\* that still has capabilities to mint, can fail.
ThrewAfter(done) ==
    /\ Bootstrapped(done)
    /\ role = "joiner" => done = {} \/ done # ToBootstrap

\* It opens, but to identify, subscribe, bootstrap a slot or mint a capability
\* throws: failConnect.  Only the slot that threw is undone, which held nothing.
OpenFails(i) ==
    /\ socket[i] = "connecting"
    /\ socket' = [socket EXCEPT ![i] = "closing"]
    /\ opened' = [opened EXCEPT ![i] = TRUE]
    /\ state' = "connected"
    /\ isInitialConnect' = FALSE
    /\ \E done \in SUBSET Slot : ThrewAfter(done) /\ BootstrapGroups(done)
    /\ ws' = 0
    /\ Settle(i)
    /\ UNCHANGED <<role, generation, stopped, destroyed, attempts, reconnect, stability>>

-----------------------------------------------------------------------------
(* The loss of a socket, and the retry loop.                               *)

\* The relay or the network ends the socket, before it opened or after.
Lose(i) ==
    /\ socket[i] \in {"connecting", "open"}
    /\ socket' = [socket EXCEPT ![i] = "closing"]
    /\ UNCHANGED <<role, opened, settled, conn, flags, attempts, reconnect, stability, slots>>

\* handleReconnect.
HandleReconnect ==
    IF stopped THEN UNCHANGED <<state, attempts, reconnect, stability>>
    ELSE /\ stability' = 0
         /\ IF attempts < MaxAttempts
            THEN state' = "reconnecting" /\ attempts' = attempts + 1 /\ reconnect' = TRUE
            ELSE state' = "disconnected" /\ UNCHANGED attempts /\ reconnect' = FALSE

\* Mutated form of DrivesRetry: the socket that was replaced drives it too.
DrivesRetry_AnySocket(i) == opened[i] \/ ~isInitialConnect

\* Mutated form of DrivesRetry: a socket that failConnect let go does not.
DrivesRetry_ThisWs(i) == ws = i /\ (opened[i] \/ ~isInitialConnect)

DrivesRetry(i) == i = generation /\ (opened[i] \/ ~isInitialConnect)

\* Mutated form of CloseEvent: a superseded attempt is left alone altogether.
CloseEvent_Guarded(i) ==
    /\ socket[i] = "closing"
    /\ socket' = [socket EXCEPT ![i] = "closed"]
    /\ IF ~opened[i] /\ i = generation THEN Settle(i) ELSE UNCHANGED <<settled, promise>>
    /\ IF DrivesRetry(i) THEN HandleReconnect ELSE UNCHANGED <<state, attempts, reconnect, stability>>
    /\ UNCHANGED <<role, opened, ws, generation, flags, slots>>

\* onclose, and before it onerror: an attempt that did not open is rejected, then
\* the current one drives the retry loop.
CloseEvent(i) ==
    /\ socket[i] = "closing"
    /\ socket' = [socket EXCEPT ![i] = "closed"]
    /\ IF opened[i] THEN UNCHANGED <<settled, promise>> ELSE Settle(i)
    /\ IF DrivesRetry(i) THEN HandleReconnect ELSE UNCHANGED <<state, attempts, reconnect, stability>>
    /\ UNCHANGED <<role, opened, ws, generation, flags, slots>>

\* The retry's timer, which connects unless an attempt is being made.
ReconnectTimer ==
    /\ reconnect
    /\ reconnect' = FALSE
    /\ IF promise = 0 /\ ~stopped /\ ~destroyed THEN NewAttempt
       ELSE UNCHANGED <<role, socket, opened, settled, conn, flags, attempts, stability, slots>>

StabilityTimer ==
    /\ stability # 0
    /\ stability' = 0
    /\ attempts' = IF stopped THEN attempts ELSE 0
    /\ UNCHANGED <<role, socket, opened, settled, conn, flags, reconnect, slots>>

-----------------------------------------------------------------------------
(* Joining.                                                                *)

\* expireJoin.
JoinTimer(s) ==
    /\ joinTimer[s]
    /\ joinTimer' = [joinTimer EXCEPT ![s] = FALSE]
    /\ pending' = [pending EXCEPT ![s] = @ /\ doc[s]]
    /\ UNCHANGED <<role, socket, opened, settled, conn, flags, attempts, reconnect, stability,
                   doc, registered>>

\* Mutated form of Welcome: a Welcome that does not open keeps its deadline.
Welcome_TimerLeft(s) ==
    /\ ws # 0 /\ socket[ws] = "open"
    /\ role = "joiner" /\ pending[s] /\ ~doc[s]
    /\ pending' = [pending EXCEPT ![s] = FALSE]
    /\ \E ok \in BOOLEAN :
          /\ doc' = [doc EXCEPT ![s] = ok]
          /\ joinTimer' = [joinTimer EXCEPT ![s] = ~ok]
    /\ UNCHANGED <<role, socket, opened, settled, conn, flags, attempts, reconnect, stability,
                   registered>>

\* A Welcome arrives for a slot that waits for one: join consumes the key package
\* whether it succeeds or throws.
Welcome(s) ==
    /\ ws # 0 /\ socket[ws] = "open"
    /\ role = "joiner" /\ pending[s] /\ ~doc[s]
    /\ pending' = [pending EXCEPT ![s] = FALSE]
    /\ joinTimer' = [joinTimer EXCEPT ![s] = FALSE]
    /\ doc' \in {doc, [doc EXCEPT ![s] = TRUE]}
    /\ UNCHANGED <<role, socket, opened, settled, conn, flags, attempts, reconnect, stability,
                   registered>>

-----------------------------------------------------------------------------
(* Stopping.                                                               *)

\* disconnect() but for the slots.
Stopping ==
    /\ stopped' = TRUE
    /\ promise' = 0
    /\ state' = "disconnected"
    /\ reconnect' = FALSE
    /\ stability' = 0
    /\ socket' = AfterClose
    /\ ws' = 0
    /\ UNCHANGED <<role, opened, settled, generation, isInitialConnect, attempts, registered>>

\* freeSlot, of the slots in S.
FreeSlots(S) ==
    /\ doc' = [s \in Slot |-> doc[s] /\ s \notin S]
    /\ pending' = [s \in Slot |-> pending[s] /\ s \notin S]
    /\ joinTimer' = [s \in Slot |-> joinTimer[s] /\ s \notin S]

\* disconnect() keeps the groups that exist.
Disconnect ==
    /\ Stopping
    /\ FreeSlots({s \in Slot : ~doc[s]})
    /\ UNCHANGED destroyed

Destroy ==
    /\ Stopping
    /\ FreeSlots(Slot)
    /\ destroyed' = TRUE

-----------------------------------------------------------------------------
Next ==
    \/ Connect \/ Disconnect \/ Destroy
    \/ \E i \in Socket : Open(i) \/ OpenFails(i) \/ Lose(i) \/ CloseEvent(i)
    \/ ReconnectTimer \/ StabilityTimer
    \/ \E s \in Slot : JoinTimer(s) \/ Welcome(s)

Spec == Init /\ [][Next]_vars

\* A socket that is connecting opens or fails, and a closed one has its event.
Fairness ==
    \A i \in Socket :
        /\ WF_vars(Open(i) \/ OpenFails(i) \/ (Lose(i) /\ ~opened[i]))
        /\ WF_vars(CloseEvent(i))

FairSpec == Spec /\ Fairness
-----------------------------------------------------------------------------
(* Properties.                                                             *)

\* Every variable has its type; a socket is made for each attempt, and one that
\* has opened has settled its promise.
TypeOK ==
    /\ role \in {"owner", "joiner"}
    /\ socket \in [Socket -> {"none", "connecting", "open", "closing", "closed"}]
    /\ opened \in [Socket -> BOOLEAN] /\ settled \in [Socket -> BOOLEAN]
    /\ {ws, generation, promise, stability} \subseteq {0} \cup Socket
    /\ \A i \in Socket : socket[i] = "none" <=> i > generation
    /\ \A i \in Socket : opened[i] => settled[i]
    /\ state \in {"connected", "connecting", "disconnected", "reconnecting"}
    /\ {stopped, destroyed, isInitialConnect, reconnect} \subseteq BOOLEAN
    /\ attempts \in 0..MaxAttempts
    /\ doc \in [Slot -> BOOLEAN] /\ pending \in [Slot -> BOOLEAN]
    /\ joinTimer \in [Slot -> BOOLEAN] /\ registered \in [Slot -> Nat]

IsLive(i) == socket[i] \in {"connecting", "open"}

\* collab-client.ts:724-727, 808-815: no socket is orphaned.  One that is open or opening
\* is the client's own, of its last attempt, and the client is neither stopped
\* nor says that it is disconnected or between attempts.
NoOrphanSocket ==
    \A i \in Socket : IsLive(i) =>
        /\ ws = i /\ i = generation
        /\ ~stopped /\ ~destroyed
        /\ state = (IF socket[i] = "open" THEN "connected" ELSE "connecting")

\* collab-client.ts:817-821, 1431-1481: the retry loop never ends silently.  A client
\* that has been connected and was not stopped has a socket, or a close event of
\* its last one to come, or a retry scheduled, or has spent every attempt and
\* said so.
RetryLoopAlive ==
    ~stopped /\ ~isInitialConnect =>
        \/ socket[generation] # "closed"
        \/ reconnect
        \/ state = "disconnected" /\ attempts = MaxAttempts

\* collab-client.ts:729-732, 833-842: the dedup guard never returns a promise that has
\* settled already, and while a socket is opening it returns that attempt's, so
\* that nobody starts a second one.
GuardIsPending ==
    /\ promise # 0 => ~settled[promise]
    /\ \A i \in Socket : socket[i] = "connecting" => promise = i

\* collab-client.ts:602-622, 638-645: over all reconnects, failures half-way and pauses, an
\* owner registers each group's first anchor once and for the group it holds; the
\* relay would refuse another.
AnchorRegisteredOnce ==
    \A s \in Slot :
        /\ registered[s] <= 1
        /\ role = "owner" /\ doc[s] => registered[s] = 1

\* collab-client.ts:298-300, 503-509: a slot holds a group or waits for one, and a
\* deadline runs exactly while a key package is out.
JoinsAreTimed ==
    \A s \in Slot :
        /\ ~(doc[s] /\ pending[s])
        /\ joinTimer[s] = pending[s]

\* Both, for the slots of a client that comes and goes.
SlotsSound == AnchorRegisteredOnce /\ JoinsAreTimed

\* collab-client.ts:795-799: every connect() settles, superseded ones too.
ConnectSettles == \A i \in Socket : i <= generation ~> settled[i]

=============================================================================
