----------------------------- MODULE Reconnect -----------------------------
(***************************************************************************)
(* How a command-line client stays connected: ConnectionStateMachine       *)
(* driven by the `connect` command (crates/collab-cli/src/commands.rs).    *)
(* Several processes identify as the same user, and the relay lets the     *)
(* latest one take the user's session over, which ends the session before  *)
(* it.  A process is started at any time, with auto_connect as the command *)
(* has it or, as an embedding may, without and by an explicit connect.     *)
(*                                                                         *)
(* Time passes in whole seconds: delays and the age of a session are what  *)
(* the properties are about.  `calm` says that the network has stopped     *)
(* failing; from then on attempts succeed at once and sessions end by      *)
(* takeover only, and at once.                                             *)
(***************************************************************************)
EXTENDS ConnectionStateMachine, FiniteSets

CONSTANTS
    Client,        \* processes that connect as one user
    Nobody,        \* the user has no session
    MinStable      \* MIN_STABLE_CONNECTION

ASSUME ReconnectAssumption ==
    /\ Nobody \notin Client
    /\ MinStable \in Nat

VARIABLES
    sm,      \* each client's state machine: state and retry_count
    left,    \* seconds left of the sleep before the next attempt
    age,     \* age of the current session, up to MinStable
    holder,  \* the client whose session the relay has for the user
    calm,    \* the network has stopped failing
    streak   \* auxiliary: attempts that failed since the last stable session,
             \* counted up to two more than the policy allows retries

vars == <<sm, left, age, holder, calm, streak>>

-----------------------------------------------------------------------------
(* The connect command.                                                    *)

\* Off: not started yet.  Closed: connect returned Ok.
Init ==
    /\ sm = [c \in Client |-> [state |-> "Off", retry_count |-> 0]]
    /\ left = [c \in Client |-> 0]
    /\ age = [c \in Client |-> 0]
    /\ holder = Nobody
    /\ calm = FALSE
    /\ streak = [c \in Client |-> 0]

In(c, state) == sm[c].state = state

\* What the driver does next is what the machine asks for.
Does(c, type) == NextAction(sm[c]).type = type

Start(c, autoConnect) ==
    /\ In(c, "Off")
    /\ sm' = [sm EXCEPT ![c].state = NewMachine(autoConnect).state]
    /\ UNCHANGED <<left, age, holder, calm, streak>>

\* An explicit connect, of a process that was started without auto_connect.
Request(c) ==
    /\ Does(c, "DoNothing")
    /\ sm' = [sm EXCEPT ![c] = RequestConnection(@)]
    /\ UNCHANGED <<left, age, holder, calm, streak>>

OneMore(n) == IF n < MaxRetries + 2 THEN n + 1 ELSE n

\* on_error, and the next_action after it: the sleep of WaitAndRetry begins, or
\* GiveUp ends the command.  m is the machine on_error is called on.
OnError(c, m) ==
    LET next == AdvanceRetry(m)
    IN  /\ sm' = [sm EXCEPT ![c] = next]
        /\ left' = [left EXCEPT ![c] =
              IF NextAction(next).type = "WaitAndRetry" THEN NextAction(next).delay ELSE 0]

\* connect_async fails.
ConnectFails(c) ==
    /\ Does(c, "Connect")
    /\ ~calm
    /\ OnError(c, sm[c])
    /\ streak' = [streak EXCEPT ![c] = OneMore(@)]
    /\ UNCHANGED <<age, holder, calm>>

\* run_ws_session sends Identify and Subscribe, and the relay hands the user's
\* session over.
IdentifyAndSubscribe(c) == holder' = c

\* It succeeds, and the machine asks for IdentifyAndSubscribe.
ConnectOk(c) ==
    /\ Does(c, "Connect")
    /\ NextAction(OnConnected(sm[c])).type = "IdentifyAndSubscribe"
    /\ sm' = [sm EXCEPT ![c] = OnConnected(@)]
    /\ age' = [age EXCEPT ![c] = 0]
    /\ IdentifyAndSubscribe(c)
    /\ UNCHANGED <<left, calm, streak>>

\* Mutated form of IsStable: however short, a session is a useful one.
IsStable_Always(c) == TRUE

IsStable(c) == age[c] >= MinStable

\* run_ws_session has returned an error: the stream ended or failed.
SessionError(c) ==
    /\ In(c, "Connected")
    /\ holder # c
    /\ OnError(c, IF IsStable(c) THEN OnStableConnection(sm[c]) ELSE sm[c])
    /\ age' = [age EXCEPT ![c] = 0]
    /\ streak' = [streak EXCEPT ![c] = IF age[c] >= MinStable THEN 1 ELSE OneMore(@)]
    /\ UNCHANGED <<holder, calm>>

\* The server sent a Close frame: the command ends.
SessionCloses(c) ==
    /\ In(c, "Connected")
    /\ ~calm
    /\ LET m == IF IsStable(c) THEN OnStableConnection(sm[c]) ELSE sm[c]
       IN  sm' = [sm EXCEPT ![c] = [m EXCEPT !.state = "Closed"]]
    /\ age' = [age EXCEPT ![c] = 0]
    /\ holder' = IF holder = c THEN Nobody ELSE holder
    /\ UNCHANGED <<left, calm, streak>>

\* on_retry_tick, when the sleep is over.
RetryTick(c) ==
    /\ Does(c, "WaitAndRetry")
    /\ left[c] = 0
    /\ sm' = [sm EXCEPT ![c] = OnRetryTick(@)]
    /\ UNCHANGED <<left, age, holder, calm, streak>>

-----------------------------------------------------------------------------
(* The network and the clock.                                              *)

\* The relay or the network drops the user's session.
Drop ==
    /\ ~calm
    /\ holder # Nobody
    /\ holder' = Nobody
    /\ UNCHANGED <<sm, left, age, calm, streak>>

CalmDown ==
    /\ ~calm
    /\ calm' = TRUE
    /\ UNCHANGED <<sm, left, age, holder, streak>>

\* A sleep ends on its second; when calm, attempts and lost sessions do too.
MayWait(c) ==
    /\ In(c, "Reconnecting") => left[c] > 0
    /\ calm => ~In(c, "Connecting") /\ (In(c, "Connected") => holder = c)

Tick ==
    /\ \A c \in Client : MayWait(c)
    /\ left' = [c \in Client |-> IF left[c] > 0 THEN left[c] - 1 ELSE 0]
    /\ age' = [c \in Client |->
          IF In(c, "Connected") /\ age[c] < MinStable THEN age[c] + 1 ELSE age[c]]
    /\ UNCHANGED <<sm, holder, calm, streak>>

-----------------------------------------------------------------------------
Attempt(c) == ConnectOk(c) \/ ConnectFails(c)

Next ==
    \/ \E c \in Client :
          \/ \E autoConnect \in BOOLEAN : Start(c, autoConnect)
          \/ Request(c)
          \/ Attempt(c) \/ SessionError(c) \/ SessionCloses(c) \/ RetryTick(c)
    \/ Drop \/ CalmDown \/ Tick

Spec == Init /\ [][Next]_vars

\* Time passes, timers fire, an attempt ends and a lost session is noticed.
Fairness ==
    /\ WF_vars(Tick)
    /\ \A c \in Client : WF_vars(Attempt(c)) /\ WF_vars(SessionError(c)) /\ WF_vars(RetryTick(c))

FairSpec == Spec /\ Fairness
-----------------------------------------------------------------------------
(* Properties.                                                             *)

States == ConnectionState \cup {"Off", "Closed"}

\* Every variable has its type; only a sleeping client has a sleep left.
TypeOK ==
    /\ sm \in [Client -> [state : States, retry_count : Nat]]
    /\ left \in [Client -> 0..MaxDelay]
    /\ \A c \in Client : left[c] > 0 => In(c, "Reconnecting")
    /\ age \in [Client -> 0..MinStable]
    /\ holder \in Client \cup {Nobody}
    /\ holder \in Client => In(holder, "Connected")
    /\ calm \in BOOLEAN
    /\ streak \in [Client -> Nat]

\* connection.rs:23-25, 136-140: the command gives up after the first attempt and
\* max_retries more have failed, or ended before they were stable, in a row: not
\* one sooner and not one later, whatever mix of errors and drops they were.
GivesUpInTime ==
    \A c \in Client :
        /\ streak[c] <= MaxRetries + 1
        /\ In(c, "Failed") <=> streak[c] = MaxRetries + 1

IsOver(c) == sm[c].state \in {"Off", "Disconnected", "Failed", "Closed"}

\* connection.rs:23-25, commands.rs:660-663: no client reconnects forever without
\* ever having a session that lasts.
NoReconnectStorm ==
    \A c \in Client : []<>(IsOver(c) \/ (In(c, "Connected") /\ IsStable(c)))

\* Clients that take one user over from each other settle, although none of them
\* knows of the others: in a calm network all but one end up giving up, because
\* whoever is replaced early runs out of retries.
TakeoverSettles ==
    <>calm => <>[](Cardinality({c \in Client : ~IsOver(c)}) <= 1)
=============================================================================
