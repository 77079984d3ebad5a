------------------------- MODULE CollabClient_proofs -------------------------
(***************************************************************************)
(* Proofs about CollabClient, for any number of sockets and attempts.  The *)
(* four invariants need one another: that no socket is orphaned says that  *)
(* an attempt that opens or fails is the last one, which is what keeps the *)
(* promise, the retry loop and the slots in order.                         *)
(***************************************************************************)
EXTENDS CollabClient, TLAPS

\* What each variable is made of.
Shape ==
    /\ role \in {"owner", "joiner"}
    /\ socket \in [Socket -> {"none", "connecting", "open", "closing", "closed"}]
    /\ opened \in [Socket -> BOOLEAN] /\ settled \in [Socket -> BOOLEAN]
    /\ generation \in 0..MaxSockets
    /\ ws \in {0, generation} /\ promise \in {0, generation}
    /\ stability \in 0..MaxSockets
    /\ state \in {"connected", "connecting", "disconnected", "reconnecting"}
    /\ stopped \in BOOLEAN /\ destroyed \in BOOLEAN
    /\ isInitialConnect \in BOOLEAN /\ reconnect \in BOOLEAN
    /\ attempts \in 0..MaxAttempts

SlotShape ==
    /\ doc \in [Slot -> BOOLEAN] /\ pending \in [Slot -> BOOLEAN]
    /\ joinTimer \in [Slot -> BOOLEAN] /\ registered \in [Slot -> Nat]

\* A socket is made for each attempt.  One that has not been made has no
\* promise, and one that opened or is done with has settled it.
PhasesSound == \A i \in Socket :
    /\ socket[i] = "none" <=> i > generation
    /\ socket[i] \in {"none", "connecting"} => ~opened[i] /\ ~settled[i]
    /\ opened[i] => settled[i]
    /\ socket[i] = "closed" => settled[i]

\* A destroyed client stays stopped; one that has been connected has a socket.
FlagsSound ==
    /\ destroyed => stopped
    /\ ~isInitialConnect => generation # 0

\* When the last socket is done with, the retry loop has it, and no stability
\* window is left open to give it more attempts.
RetrySound ==
    ~stopped /\ ~isInitialConnect /\ socket[generation] = "closed" =>
        /\ stability = 0
        /\ reconnect \/ (state = "disconnected" /\ attempts = MaxAttempts)

\* An owner that is not destroyed has registered the anchors of the groups it has,
\* and waits for nobody.
OwnerSound ==
    \A s \in Slot :
        /\ registered[s] <= 1
        /\ role = "owner" => ~pending[s] /\ (doc[s] => registered[s] = 1)
        /\ role = "owner" /\ ~destroyed /\ ~doc[s] => registered[s] = 0

ConnInv ==
    Shape /\ PhasesSound /\ FlagsSound /\ NoOrphanSocket /\ GuardIsPending /\ RetrySound
SlotInv == SlotShape /\ OwnerSound /\ JoinsAreTimed

Inv == ConnInv /\ SlotInv

-----------------------------------------------------------------------------
(* Sockets.                                                                *)

\* close() leaves no socket live: the only one that may be is this.ws.
LEMMA AfterCloseIsQuiet ==
    ASSUME ConnInv
    PROVE  /\ AfterClose \in [Socket -> {"none", "connecting", "open", "closing", "closed"}]
           /\ \A i \in Socket :
                 /\ AfterClose[i] \notin {"connecting", "open"}
                 /\ AfterClose[i] = "none" <=> socket[i] = "none"
                 /\ AfterClose[i] = "closed" <=> socket[i] = "closed"
<1>1. CASE ws = 0
  BY <1>1 DEF AfterClose, ConnInv, Shape, NoOrphanSocket, IsLive, Socket
<1>2. CASE ws # 0
  <2>1. ws \in Socket
    BY <1>2, ClientAssumption DEF ConnInv, Shape, Socket
  <2>2. AfterClose = [socket EXCEPT ![ws] =
            IF socket[ws] \in {"connecting", "open"} THEN "closing" ELSE socket[ws]]
    BY <1>2 DEF AfterClose, ClosingWs
  <2> QED BY <2>1, <2>2 DEF ConnInv, Shape, NoOrphanSocket, IsLive
<1> QED BY <1>1, <1>2

\* connect(): the new attempt is the only live one, and its promise is pending.
LEMMA NewAttemptKeeps ==
    ASSUME ConnInv, NewAttempt, ~destroyed, reconnect' \in BOOLEAN
    PROVE  ConnInv'
<1> DEFINE i == generation + 1
<1>1. i \in Socket /\ generation' = i /\ ws' = i /\ promise' = i
  BY DEF NewAttempt
<1>2. /\ socket' = [AfterClose EXCEPT ![i] = "connecting"]
      /\ state' = "connecting" /\ stopped' = FALSE
      /\ UNCHANGED <<role, opened, settled, destroyed, isInitialConnect, attempts, stability>>
  BY DEF NewAttempt
<1>3. socket'[i] = "connecting" /\ \A j \in Socket : j # i => socket'[j] = AfterClose[j]
  BY <1>1, <1>2, AfterCloseIsQuiet
<1>4. socket' \in [Socket -> {"none", "connecting", "open", "closing", "closed"}]
  BY <1>1, <1>2, AfterCloseIsQuiet
<1>5. generation \in 0..MaxSockets /\ i \in 1..MaxSockets /\ socket[i] = "none"
  BY <1>1, ClientAssumption DEF ConnInv, Shape, PhasesSound, Socket
<1>6. Shape'
  <2>1. i \in 0..MaxSockets /\ stability \in 0..MaxSockets
    BY <1>5 DEF ConnInv, Shape
  <2> HIDE DEF i
  <2> QED BY <1>1, <1>2, <1>4, <2>1 DEF ConnInv, Shape
<1>7. PhasesSound'
  <2> SUFFICES ASSUME NEW j \in Socket
               PROVE  /\ socket'[j] = "none" <=> j > i
                      /\ socket'[j] \in {"none", "connecting"} => ~opened[j] /\ ~settled[j]
                      /\ opened[j] => settled[j]
                      /\ socket'[j] = "closed" => settled[j]
    BY <1>1, <1>2 DEF PhasesSound
  <2>1. CASE j = i
    BY <1>3, <1>5, <2>1 DEF ConnInv, PhasesSound
  <2>2. CASE j # i
    <3>1. j \in Nat /\ (j > i <=> j > generation)
      BY <1>5, <2>2 DEF Socket
    <3> QED BY <1>3, <2>2, <3>1, AfterCloseIsQuiet DEF ConnInv, PhasesSound
  <2> QED BY <2>1, <2>2
<1>8. NoOrphanSocket'
  BY <1>1, <1>2, <1>3, AfterCloseIsQuiet DEF NoOrphanSocket, IsLive
<1>9. GuardIsPending'
  BY <1>1, <1>2, <1>3, <1>5, AfterCloseIsQuiet DEF GuardIsPending, ConnInv, PhasesSound
<1>10. FlagsSound'
  BY <1>1, <1>2, <1>5 DEF FlagsSound
<1>11. RetrySound'
  BY <1>1, <1>3 DEF RetrySound
<1> QED BY <1>6, <1>7, <1>8, <1>9, <1>10, <1>11 DEF ConnInv

\* disconnect() and destroy(): nothing is live, nothing is pending.
LEMMA StoppingKeeps ==
    ASSUME ConnInv, Stopping, destroyed' \in BOOLEAN
    PROVE  ConnInv'
<1>1. /\ stopped' = TRUE /\ promise' = 0 /\ ws' = 0 /\ state' = "disconnected"
      /\ reconnect' = FALSE /\ stability' = 0 /\ socket' = AfterClose
      /\ UNCHANGED <<role, opened, settled, generation, isInitialConnect, attempts>>
  BY DEF Stopping
<1>2. Shape'
  <2>1. socket' \in [Socket -> {"none", "connecting", "open", "closing", "closed"}]
    BY <1>1, AfterCloseIsQuiet
  <2>2. 0 \in 0..MaxSockets
    BY ClientAssumption
  <2> QED BY <1>1, <2>1, <2>2 DEF ConnInv, Shape
<1>3. PhasesSound'
  BY <1>1, AfterCloseIsQuiet DEF ConnInv, PhasesSound
<1>4. NoOrphanSocket' /\ GuardIsPending'
  BY <1>1, AfterCloseIsQuiet DEF NoOrphanSocket, GuardIsPending, IsLive
<1>5. FlagsSound' /\ RetrySound'
  BY <1>1 DEF ConnInv, FlagsSound, RetrySound
<1> QED BY <1>2, <1>3, <1>4, <1>5 DEF ConnInv

\* A socket that is opening is the last attempt's, and nothing else is live.
LEMMA ConnectingIsLast ==
    ASSUME ConnInv, NEW i \in Socket, IsLive(i)
    PROVE  /\ i = generation /\ ws = i /\ ~stopped /\ ~destroyed
           /\ socket[i] = "connecting" => promise = i
           /\ \A j \in Socket : j # i => ~IsLive(j)
  BY DEF ConnInv, NoOrphanSocket, GuardIsPending, IsLive

\* onopen, whether setting up succeeds or throws.
LEMMA OpenKeepsConn ==
    ASSUME ConnInv, NEW i \in Socket, Open(i) \/ OpenFails(i)
    PROVE  ConnInv'
<1>1. /\ socket[i] = "connecting" /\ i = generation /\ ws = i /\ ~stopped /\ ~destroyed
      /\ \A j \in Socket : j # i => ~IsLive(j)
  BY ConnectingIsLast DEF Open, OpenFails, IsLive
<1>2. /\ opened' = [opened EXCEPT ![i] = TRUE] /\ settled' = [settled EXCEPT ![i] = TRUE]
      /\ promise' = 0 /\ state' = "connected" /\ isInitialConnect' = FALSE
      /\ UNCHANGED <<role, generation, stopped, destroyed, attempts, reconnect>>
  BY <1>1 DEF Open, OpenFails, Settle
<1>3. \/ socket' = [socket EXCEPT ![i] = "open"] /\ ws' = ws /\ stability' = i
      \/ socket' = [socket EXCEPT ![i] = "closing"] /\ ws' = 0 /\ stability' = stability
  BY DEF Open, OpenFails
<1>4. /\ socket'[i] \in {"open", "closing"} /\ opened'[i] = TRUE /\ settled'[i] = TRUE
      /\ \A j \in Socket : j # i =>
            socket'[j] = socket[j] /\ opened'[j] = opened[j] /\ settled'[j] = settled[j]
  BY <1>2, <1>3 DEF ConnInv, Shape
<1>5. i \in 1..MaxSockets /\ i \in 0..MaxSockets
  BY ClientAssumption DEF Socket
<1>6. Shape'
  BY <1>1, <1>2, <1>3, <1>5 DEF ConnInv, Shape
<1>7. PhasesSound'
  BY <1>1, <1>2, <1>4 DEF ConnInv, PhasesSound
<1>8. NoOrphanSocket' /\ GuardIsPending'
  <2>1. socket'[i] = "open" => ws' = i
    BY <1>1, <1>3, <1>4 DEF ConnInv, Shape
  <2> QED BY <1>1, <1>2, <1>4, <2>1 DEF NoOrphanSocket, GuardIsPending, IsLive
<1>9. FlagsSound' /\ RetrySound'
  BY <1>1, <1>2, <1>4, <1>5 DEF ConnInv, FlagsSound, RetrySound
<1> QED BY <1>6, <1>7, <1>8, <1>9 DEF ConnInv

\* A socket that is lost is closing; nothing else changes until its close event.
LEMMA LoseKeepsConn ==
    ASSUME ConnInv, NEW i \in Socket, Lose(i)
    PROVE  ConnInv'
<1>1. /\ socket[i] \in {"connecting", "open"} /\ socket' = [socket EXCEPT ![i] = "closing"]
      /\ UNCHANGED <<role, opened, settled, ws, generation, promise, state, stopped, destroyed,
                     isInitialConnect, attempts, reconnect, stability>>
  BY DEF Lose, conn, flags
<1>2. socket'[i] = "closing" /\ \A j \in Socket : j # i => socket'[j] = socket[j]
  BY <1>1 DEF ConnInv, Shape
<1>3. Shape'
  BY <1>1 DEF ConnInv, Shape
<1>4. PhasesSound'
  BY <1>1, <1>2 DEF ConnInv, PhasesSound
<1>5. NoOrphanSocket' /\ GuardIsPending'
  BY <1>1, <1>2 DEF ConnInv, NoOrphanSocket, GuardIsPending, IsLive
<1>6. FlagsSound' /\ RetrySound'
  <2>1. i = generation
    BY <1>1, ConnectingIsLast DEF IsLive
  <2> QED BY <1>1, <1>2, <2>1 DEF ConnInv, FlagsSound, RetrySound
<1> QED BY <1>3, <1>4, <1>5, <1>6 DEF ConnInv

\* onclose: of the last socket, it hands over to the retry loop; of an earlier
\* one it only settles that attempt's promise.
LEMMA CloseEventKeepsConn ==
    ASSUME ConnInv, NEW i \in Socket, CloseEvent(i)
    PROVE  ConnInv'
<1>1. /\ socket[i] = "closing" /\ socket' = [socket EXCEPT ![i] = "closed"]
      /\ UNCHANGED <<role, opened, ws, generation, stopped, destroyed, isInitialConnect>>
  BY DEF CloseEvent, flags
<1>2. socket'[i] = "closed" /\ \A j \in Socket : j # i => socket'[j] = socket[j]
  BY <1>1 DEF ConnInv, Shape
<1>3. /\ settled' \in [Socket -> BOOLEAN] /\ settled'[i] = TRUE
      /\ \A j \in Socket : j # i => settled'[j] = settled[j]
  BY DEF CloseEvent, Settle, ConnInv, Shape, PhasesSound
<1>4. promise' = IF i = generation THEN 0 ELSE promise
  BY DEF CloseEvent, Settle, ConnInv, Shape, PhasesSound, GuardIsPending
<1>5. \/ /\ DrivesRetry(i) /\ HandleReconnect
      \/ ~DrivesRetry(i) /\ UNCHANGED <<state, attempts, reconnect, stability>>
  BY DEF CloseEvent
<1>6. Shape'
  <2>1. 0 \in 0..MaxSockets /\ (attempts < MaxAttempts => attempts + 1 \in 0..MaxAttempts)
    BY ClientAssumption DEF ConnInv, Shape
  <2>2. CASE UNCHANGED <<state, attempts, reconnect, stability>>
    BY <1>1, <1>3, <1>4, <2>2 DEF ConnInv, Shape
  <2>3. CASE ~stopped /\ HandleReconnect
    <3>1. /\ stability' = 0 /\ attempts' \in {attempts, attempts + 1}
          /\ attempts' # attempts => attempts < MaxAttempts
          /\ state' \in {"disconnected", "reconnecting"} /\ reconnect' \in BOOLEAN
      BY <2>3 DEF HandleReconnect
    <3>2. attempts' \in 0..MaxAttempts
      BY <2>1, <3>1 DEF ConnInv, Shape
    <3> QED BY <1>1, <1>3, <1>4, <2>1, <3>1, <3>2 DEF ConnInv, Shape
  <2>4. CASE stopped /\ HandleReconnect
    BY <2>2, <2>4 DEF HandleReconnect
  <2> QED BY <1>5, <2>2, <2>3, <2>4
<1>7. PhasesSound'
  BY <1>1, <1>2, <1>3 DEF ConnInv, PhasesSound
<1>8. NoOrphanSocket'
  <2>1. CASE i = generation
    BY <1>1, <1>2, <2>1 DEF ConnInv, NoOrphanSocket, IsLive
  <2>2. CASE i # generation
    BY <1>1, <1>2, <1>5, <2>2 DEF ConnInv, NoOrphanSocket, IsLive, DrivesRetry
  <2> QED BY <2>1, <2>2
<1>9. GuardIsPending'
  <2>1. promise' # 0 => promise' = promise /\ promise \in Socket /\ promise # i
    BY <1>4, ClientAssumption DEF ConnInv, Shape, Socket
  <2>2. promise' # 0 => ~settled'[promise']
    BY <1>3, <2>1 DEF ConnInv, GuardIsPending
  <2>3. ASSUME NEW j \in Socket, socket'[j] = "connecting" PROVE promise' = j
    <3>1. j # i /\ promise = j /\ j = generation
      BY <1>2, <2>3 DEF ConnInv, NoOrphanSocket, IsLive, GuardIsPending
    <3> QED BY <1>4, <3>1
  <2> QED BY <2>2, <2>3 DEF GuardIsPending
<1>10. RetrySound'
  <2>1. CASE i = generation
    <3>1. ~stopped /\ ~isInitialConnect => DrivesRetry(i) /\ HandleReconnect
      BY <1>5, <2>1 DEF DrivesRetry
    <3>2. ~stopped /\ HandleReconnect =>
             stability' = 0 /\ (reconnect' \/ (state' = "disconnected" /\ attempts' = MaxAttempts))
      BY ClientAssumption DEF HandleReconnect, ConnInv, Shape
    <3> QED BY <1>1, <3>1, <3>2 DEF RetrySound
  <2>2. CASE i # generation
    <3>1. ~isInitialConnect => generation \in Socket
      BY ClientAssumption DEF ConnInv, Shape, FlagsSound, Socket
    <3> QED BY <1>1, <1>2, <1>5, <2>2, <3>1 DEF ConnInv, RetrySound, DrivesRetry
  <2> QED BY <2>1, <2>2
<1>11. FlagsSound'
  BY <1>1 DEF ConnInv, FlagsSound
<1> QED BY <1>6, <1>7, <1>8, <1>9, <1>10, <1>11 DEF ConnInv

\* The retry's timer: if it does not connect, an attempt is under way, or the
\* client is stopped.
LEMMA ReconnectTimerKeepsConn ==
    ASSUME ConnInv, ReconnectTimer
    PROVE  ConnInv'
<1>1. CASE promise = 0 /\ ~stopped /\ ~destroyed
  BY <1>1, NewAttemptKeeps DEF ReconnectTimer
<1>2. CASE ~(promise = 0 /\ ~stopped /\ ~destroyed)
  <2>1. /\ reconnect' = FALSE
        /\ UNCHANGED <<role, socket, opened, settled, ws, generation, promise, state, stopped,
                       destroyed, isInitialConnect, attempts, stability>>
    BY <1>2 DEF ReconnectTimer, conn, flags
  <2>2. ~stopped => promise # 0 /\ promise = generation /\ generation \in Socket
    BY <1>2, ClientAssumption DEF ConnInv, Shape, FlagsSound, Socket
  <2>3. ~stopped => socket[generation] # "closed"
    BY <2>2 DEF ConnInv, GuardIsPending, PhasesSound
  <2>4. RetrySound'
    BY <2>1, <2>3 DEF RetrySound
  <2>5. Shape' /\ PhasesSound' /\ FlagsSound'
    BY <2>1 DEF ConnInv, Shape, PhasesSound, FlagsSound
  <2>6. NoOrphanSocket' /\ GuardIsPending'
    BY <2>1 DEF ConnInv, NoOrphanSocket, IsLive, GuardIsPending
  <2> QED BY <2>4, <2>5, <2>6 DEF ConnInv
<1> QED BY <1>1, <1>2

\* The stability timer, which is not armed when the attempts are spent.
LEMMA StabilityTimerKeepsConn ==
    ASSUME ConnInv, StabilityTimer
    PROVE  ConnInv'
<1>1. /\ stability # 0 /\ stability' = 0 /\ attempts' = IF stopped THEN attempts ELSE 0
      /\ UNCHANGED <<role, socket, opened, settled, ws, generation, promise, state, stopped,
                     destroyed, isInitialConnect, reconnect>>
  BY DEF StabilityTimer, conn, flags
<1>2. RetrySound'
  BY <1>1 DEF ConnInv, RetrySound
<1>3. Shape'
  BY <1>1, ClientAssumption DEF ConnInv, Shape
<1>4. PhasesSound' /\ FlagsSound'
  BY <1>1 DEF ConnInv, PhasesSound, FlagsSound
<1>5. NoOrphanSocket' /\ GuardIsPending'
  BY <1>1 DEF ConnInv, NoOrphanSocket, IsLive, GuardIsPending
<1> QED BY <1>2, <1>3, <1>4, <1>5 DEF ConnInv

\* What does not touch the connection keeps all of that.
LEMMA ConnStays ==
    ASSUME ConnInv,
           UNCHANGED <<role, socket, opened, settled, conn, flags, attempts, reconnect, stability>>
    PROVE  ConnInv'
<1>1. UNCHANGED <<role, socket, opened, settled, ws, generation, promise, state, stopped,
                  destroyed, isInitialConnect, attempts, reconnect, stability>>
  BY DEF conn, flags
<1>2. Shape' /\ PhasesSound' /\ FlagsSound' /\ RetrySound'
  BY <1>1 DEF ConnInv, Shape, PhasesSound, FlagsSound, RetrySound
<1>3. NoOrphanSocket' /\ GuardIsPending'
  BY <1>1 DEF ConnInv, NoOrphanSocket, IsLive, GuardIsPending
<1> QED BY <1>2, <1>3 DEF ConnInv

-----------------------------------------------------------------------------
(* Slots.                                                                  *)

\* establishGroup, of slots that hold nothing: an owner's get the group and its
\* first anchor, a joiner's the key package and its deadline.
LEMMA BootstrapKeepsSlots ==
    ASSUME SlotInv, role \in {"owner", "joiner"}, ~destroyed, NEW done \in SUBSET ToBootstrap,
           BootstrapGroups(done), UNCHANGED <<role, destroyed>>
    PROVE  SlotInv'
<1>1. \A s \in done : s \in Slot /\ ~doc[s] /\ ~pending[s]
  BY DEF ToBootstrap
<1>2. CASE role = "owner"
  <2>1. /\ doc' = [s \in Slot |-> doc[s] \/ s \in done]
        /\ registered' = [s \in Slot |-> registered[s] + (IF s \in done THEN 1 ELSE 0)]
        /\ UNCHANGED <<pending, joinTimer>>
    BY <1>2 DEF BootstrapGroups
  <2>2. ASSUME NEW s \in Slot
        PROVE  /\ s \in done => doc'[s] /\ registered'[s] = 1
               /\ s \notin done => doc'[s] = doc[s] /\ registered'[s] = registered[s]
    <3>1. doc'[s] = (doc[s] \/ s \in done)
      BY <2>1
    <3>2. registered[s] \in Nat /\ registered'[s] = registered[s] + (IF s \in done THEN 1 ELSE 0)
      BY <2>1 DEF SlotInv, SlotShape
    <3>3. CASE s \in done
      <4>1. registered[s] = 0
        BY <1>1, <1>2, <3>3 DEF SlotInv, OwnerSound
      <4>2. registered'[s] = 1
        BY <3>2, <3>3, <4>1
      <4>3. doc'[s]
        BY <3>1, <3>3
      <4> QED BY <3>3, <4>2, <4>3
    <3>4. CASE s \notin done
      <4>1. doc'[s] = doc[s]
        BY <2>1, <3>4 DEF SlotInv, SlotShape
      <4> QED BY <3>2, <3>4, <4>1
    <3> QED BY <3>3, <3>4
  <2>3. SlotShape'
    BY <2>1 DEF SlotInv, SlotShape
  <2>4. OwnerSound'
    BY <1>2, <2>1, <2>2 DEF SlotInv, OwnerSound
  <2>5. JoinsAreTimed'
    BY <1>1, <2>1, <2>2 DEF SlotInv, JoinsAreTimed
  <2> QED BY <2>3, <2>4, <2>5 DEF SlotInv
<1>3. CASE role = "joiner"
  <2>1. /\ pending' = [s \in Slot |-> pending[s] \/ s \in done]
        /\ joinTimer' = [s \in Slot |-> joinTimer[s] \/ s \in done]
        /\ UNCHANGED <<doc, registered>>
    BY <1>3 DEF BootstrapGroups
  <2>2. SlotShape'
    BY <2>1 DEF SlotInv, SlotShape
  <2>3. OwnerSound'
    BY <1>3, <2>1 DEF SlotInv, OwnerSound
  <2>4. JoinsAreTimed'
    BY <1>1, <2>1 DEF SlotInv, JoinsAreTimed
  <2> QED BY <2>2, <2>3, <2>4 DEF SlotInv
<1> QED BY <1>2, <1>3

\* freeSlot, of slots that hold no group, or of all of them for good.
LEMMA FreeSlotsKeeps ==
    ASSUME SlotInv, NEW S \in SUBSET Slot, FreeSlots(S), UNCHANGED <<role, registered>>,
           destroyed' \/ (destroyed' = destroyed /\ \A s \in S : ~doc[s])
    PROVE  SlotInv'
<1>1. /\ doc' = [s \in Slot |-> doc[s] /\ s \notin S]
      /\ pending' = [s \in Slot |-> pending[s] /\ s \notin S]
      /\ joinTimer' = [s \in Slot |-> joinTimer[s] /\ s \notin S]
  BY DEF FreeSlots
<1>2. SlotShape'
  BY <1>1 DEF SlotInv, SlotShape
<1>3. OwnerSound'
  <2> SUFFICES ASSUME NEW s \in Slot
               PROVE  /\ registered[s] <= 1
                      /\ role = "owner" => ~pending'[s] /\ (doc'[s] => registered[s] = 1)
                      /\ role = "owner" /\ ~destroyed' /\ ~doc'[s] => registered[s] = 0
    BY DEF OwnerSound
  <2>1. /\ doc'[s] => doc[s]
        /\ pending'[s] => pending[s]
        /\ ~doc'[s] => ~doc[s] \/ s \in S
    BY <1>1
  <2>2. ~destroyed' => ~destroyed /\ (~doc'[s] => ~doc[s])
    BY <2>1
  <2> QED BY <2>1, <2>2 DEF SlotInv, OwnerSound
<1>4. JoinsAreTimed'
  BY <1>1 DEF SlotInv, JoinsAreTimed
<1> QED BY <1>2, <1>3, <1>4 DEF SlotInv

\* A deadline that passes, or a Welcome that arrives, ends the wait.
LEMMA WaitEndsKeeps ==
    ASSUME SlotInv, NEW s \in Slot, JoinTimer(s) \/ Welcome(s)
    PROVE  SlotInv'
<1>1. CASE JoinTimer(s)
  <2>1. /\ joinTimer' = [joinTimer EXCEPT ![s] = FALSE]
        /\ pending' = [pending EXCEPT ![s] = pending[s] /\ doc[s]]
        /\ UNCHANGED <<role, destroyed, doc, registered>>
    BY <1>1 DEF JoinTimer, flags
  <2>2. pending'[s] = FALSE /\ \A r \in Slot : r # s => pending'[r] = pending[r]
    BY <2>1 DEF SlotInv, SlotShape, JoinsAreTimed
  <2>3. joinTimer'[s] = FALSE /\ \A r \in Slot : r # s => joinTimer'[r] = joinTimer[r]
    BY <2>1 DEF SlotInv, SlotShape
  <2>4. SlotShape'
    BY <2>1 DEF SlotInv, SlotShape
  <2>5. OwnerSound' /\ JoinsAreTimed'
    BY <2>1, <2>2, <2>3 DEF SlotInv, OwnerSound, JoinsAreTimed
  <2> QED BY <2>4, <2>5 DEF SlotInv
<1>2. CASE Welcome(s)
  <2>1. /\ role = "joiner"
        /\ joinTimer' = [joinTimer EXCEPT ![s] = FALSE]
        /\ pending' = [pending EXCEPT ![s] = FALSE]
        /\ doc' = doc \/ doc' = [doc EXCEPT ![s] = TRUE]
        /\ UNCHANGED <<role, destroyed, registered>>
    BY <1>2 DEF Welcome, flags
  <2>2. \A r \in Slot : /\ pending'[r] = IF r = s THEN FALSE ELSE pending[r]
                        /\ joinTimer'[r] = IF r = s THEN FALSE ELSE joinTimer[r]
    BY <2>1 DEF SlotInv, SlotShape
  <2>3. \A r \in Slot : r # s => doc'[r] = doc[r]
    BY <2>1 DEF SlotInv, SlotShape
  <2>4. SlotShape'
    BY <2>1 DEF SlotInv, SlotShape
  <2>5. OwnerSound'
    BY <2>1 DEF SlotInv, OwnerSound
  <2>6. JoinsAreTimed'
    BY <2>2, <2>3 DEF SlotInv, JoinsAreTimed
  <2> QED BY <2>4, <2>5, <2>6 DEF SlotInv
<1> QED BY <1>1, <1>2

\* What does not touch the slots keeps all of that.
LEMMA SlotsStay ==
    ASSUME SlotInv, UNCHANGED <<role, slots>>, destroyed' = destroyed
    PROVE  SlotInv'
<1>1. UNCHANGED <<role, doc, pending, joinTimer, registered>>
  BY DEF slots
<1> QED BY <1>1 DEF SlotInv, SlotShape, OwnerSound, JoinsAreTimed

-----------------------------------------------------------------------------
(* Every step.                                                             *)

\* No handler breaks the invariant.
LEMMA NextKeeps ==
    ASSUME Inv, Next
    PROVE  Inv'
<1>0. ConnInv /\ SlotInv /\ role \in {"owner", "joiner"}
  BY DEF Inv, ConnInv, Shape
<1>1. CASE Connect
  BY <1>0, <1>1, NewAttemptKeeps, SlotsStay DEF Inv, Connect, NewAttempt, ConnInv, Shape
<1>2. CASE Disconnect
  <2>1. {s \in Slot : ~doc[s]} \in SUBSET Slot
    OBVIOUS
  <2>2. SlotInv'
    BY <1>0, <1>2, <2>1, FreeSlotsKeeps DEF Disconnect, Stopping
  <2>3. ConnInv'
    BY <1>0, <1>2, StoppingKeeps DEF Disconnect, ConnInv, Shape
  <2> QED BY <2>2, <2>3 DEF Inv
<1>3. CASE Destroy
  <2>1. SlotInv'
    BY <1>0, <1>3, FreeSlotsKeeps DEF Destroy, Stopping
  <2>2. ConnInv'
    BY <1>0, <1>3, StoppingKeeps DEF Destroy
  <2> QED BY <2>1, <2>2 DEF Inv
<1>4. ASSUME NEW i \in Socket, Open(i) \/ OpenFails(i) PROVE Inv'
  <2>1. ConnInv' /\ ~destroyed /\ UNCHANGED <<role, destroyed>>
    BY <1>0, <1>4, OpenKeepsConn, ConnectingIsLast DEF Open, OpenFails, IsLive
  <2>2. \E done \in SUBSET ToBootstrap : BootstrapGroups(done)
    BY <1>4 DEF Open, OpenFails, ThrewAfter, Bootstrapped
  <2>3. SlotInv'
    BY <1>0, <2>1, <2>2, BootstrapKeepsSlots
  <2> QED BY <2>1, <2>3 DEF Inv
<1>5. ASSUME NEW i \in Socket, Lose(i) \/ CloseEvent(i) PROVE Inv'
  BY <1>0, <1>5, LoseKeepsConn, CloseEventKeepsConn, SlotsStay DEF Inv, Lose, CloseEvent, flags
<1>6. CASE ReconnectTimer
  <2>1. UNCHANGED <<role, slots>> /\ destroyed' = destroyed
    BY <1>6 DEF ReconnectTimer, NewAttempt, flags
  <2> QED BY <1>0, <1>6, <2>1, ReconnectTimerKeepsConn, SlotsStay DEF Inv
<1>7. CASE StabilityTimer
  BY <1>0, <1>7, StabilityTimerKeepsConn, SlotsStay DEF Inv, StabilityTimer, flags
<1>8. ASSUME NEW s \in Slot, JoinTimer(s) \/ Welcome(s) PROVE Inv'
  <2>1. ConnInv'
    BY <1>0, <1>8, ConnStays DEF JoinTimer, Welcome
  <2> QED BY <1>0, <1>8, <2>1, WaitEndsKeeps DEF Inv
<1> QED BY <1>1, <1>2, <1>3, <1>4, <1>5, <1>6, <1>7, <1>8 DEF Next

\* A new client has nothing but the groups it restored.
LEMMA InitSound ==
    ASSUME Init
    PROVE  Inv
<1>1. Shape
  <2>1. 0 \in 0..MaxSockets /\ 0 \in 0..MaxAttempts
    BY ClientAssumption
  <2> QED BY <2>1 DEF Init, Shape
<1>2. PhasesSound /\ NoOrphanSocket /\ GuardIsPending
  BY DEF Init, PhasesSound, NoOrphanSocket, IsLive, GuardIsPending, Socket
<1>3. FlagsSound /\ RetrySound
  BY DEF Init, FlagsSound, RetrySound
<1>4. SlotShape
  BY DEF Init, SlotShape
<1>5. OwnerSound /\ JoinsAreTimed
  BY DEF Init, OwnerSound, JoinsAreTimed
<1> QED BY <1>1, <1>2, <1>3, <1>4, <1>5 DEF Inv, ConnInv, SlotInv

\* The invariant holds in every state, fair or not.
LEMMA Invariant == Spec => []Inv
<1>1. Inv /\ UNCHANGED vars => Inv'
  <2> SUFFICES ASSUME Inv, UNCHANGED vars PROVE Inv'
    OBVIOUS
  <2>1. UNCHANGED <<role, socket, opened, settled, conn, flags, attempts, reconnect, stability, slots>>
    BY DEF vars
  <2>2. destroyed' = destroyed
    BY <2>1 DEF flags
  <2> QED BY <2>1, <2>2, ConnStays, SlotsStay DEF Inv
<1>2. Inv /\ [Next]_vars => Inv'
  BY <1>1, NextKeeps
<1> QED BY <1>2, InitSound, PTL DEF Spec

-----------------------------------------------------------------------------
(* Theorems.                                                               *)

\* collab-client.ts: every variable has its type, and a socket that has opened
\* has settled its promise.
THEOREM ClientTypeCorrect == Spec => []TypeOK
<1>1. Inv => TypeOK
  BY ClientAssumption DEF Inv, ConnInv, SlotInv, Shape, SlotShape, PhasesSound, TypeOK, Socket
<1> QED BY <1>1, Invariant, PTL

\* collab-client.ts:724-727, 808-815: however calls, timers and close events
\* interleave, a socket that is open or opening is the client's own.
THEOREM NoSocketIsOrphaned == Spec => []NoOrphanSocket
<1>1. Inv => NoOrphanSocket
  BY DEF Inv, ConnInv
<1> QED BY <1>1, Invariant, PTL

\* collab-client.ts:817-821, 1431-1481: the retry loop ends only by spending every
\* attempt and saying so, for any number of attempts, 0 included.
THEOREM RetryLoopStaysAlive == Spec => []RetryLoopAlive
<1>1. Inv => RetryLoopAlive
  BY DEF Inv, ConnInv, RetrySound, RetryLoopAlive
<1> QED BY <1>1, Invariant, PTL

\* collab-client.ts:729-732, 833-842: the promise that a second connect() is given
\* has not settled yet.
THEOREM GuardStaysPending == Spec => []GuardIsPending
<1>1. Inv => GuardIsPending
  BY DEF Inv, ConnInv
<1> QED BY <1>1, Invariant, PTL

\* collab-client.ts:602-622, 298-300, 503-509: each group's first anchor is registered
\* once, and a slot's deadline runs exactly while its key package is out.
THEOREM SlotsStaySound == Spec => []SlotsSound
<1>1. Inv => SlotsSound
  BY DEF Inv, SlotInv, OwnerSound, SlotsSound, AnchorRegisteredOnce
<1> QED BY <1>1, Invariant, PTL
=============================================================================
