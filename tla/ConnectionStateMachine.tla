----------------------- MODULE ConnectionStateMachine -----------------------
(***************************************************************************)
(* The synchronous connection state machine and its retry policy           *)
(* (crates/collab-core/src/connection.rs).  It does no I/O: a machine is a *)
(* record, its methods are functions of it, and NextAction says what the   *)
(* driver has to do.  Delays are whole seconds.                            *)
(***************************************************************************)
EXTENDS Naturals

CONSTANTS
    MaxRetries,    \* RetryPolicy::max_retries
    InitialDelay,  \* initial_delay
    MaxDelay,      \* max_delay
    Multiplier     \* backoff_multiplier

\* What RetryPolicy::new asserts.
WellFormed == Multiplier > 0 /\ InitialDelay <= MaxDelay

ASSUME RetryPolicyAssumption ==
    /\ {MaxRetries, Multiplier} \subseteq Nat
    /\ {InitialDelay, MaxDelay} \subseteq Nat \ {0}
    /\ WellFormed

-----------------------------------------------------------------------------
(* RetryPolicy.                                                            *)

\* Mutated form of GivesOut: one retry more than the policy allows.
GivesOut_Late(attempt) == attempt > MaxRetries

\* delay_for_attempt is None.
GivesOut(attempt) == attempt >= MaxRetries

\* What delay_for_attempt returns otherwise; attempts count from 0.
DelayForAttempt(attempt) ==
    LET delay == InitialDelay * Multiplier^attempt
    IN  IF delay <= MaxDelay THEN delay ELSE MaxDelay

-----------------------------------------------------------------------------
(* ConnectionStateMachine.                                                 *)

ConnectionState == {"Disconnected", "Connecting", "Connected", "Reconnecting", "Failed"}

\* new, for a ConnectionConfig with and without auto_connect
NewMachine(autoConnect) ==
    [state |-> IF autoConnect THEN "Connecting" ELSE "Disconnected", retry_count |-> 0]

\* The attempt that Reconnecting carries is the retry_count of its making.
NextAction(m) ==
    CASE m.state = "Disconnected" -> [type |-> "DoNothing"]
      [] m.state = "Connecting" -> [type |-> "Connect"]
      [] m.state = "Connected" -> [type |-> "IdentifyAndSubscribe"]
      [] m.state = "Reconnecting" /\ ~GivesOut(m.retry_count - 1) ->
            [type |-> "WaitAndRetry", delay |-> DelayForAttempt(m.retry_count - 1)]
      [] OTHER -> [type |-> "GiveUp"]

\* connect
RequestConnection(m) ==
    IF m.state = "Disconnected" THEN [m EXCEPT !.state = "Connecting"] ELSE m

\* Mutated form of OnConnected: to be connected is enough to refill the budget.
OnConnected_Refills(m) == [state |-> "Connected", retry_count |-> 0]

OnConnected(m) == [m EXCEPT !.state = "Connected"]

OnStableConnection(m) == [m EXCEPT !.retry_count = 0]

\* advance_retry, which is all that on_error and on_disconnected do.
AdvanceRetry(m) ==
    [state |-> IF GivesOut(m.retry_count) THEN "Failed" ELSE "Reconnecting",
     retry_count |-> m.retry_count + 1]

OnRetryTick(m) == IF m.state = "Reconnecting" THEN [m EXCEPT !.state = "Connecting"] ELSE m
=============================================================================
