------------------------- MODULE Reconnect_proofs -------------------------
(***************************************************************************)
(* Proofs about Reconnect, for any clients and any retry policy.  The      *)
(* budget is right because the counter the state machine keeps is the      *)
(* number of attempts that came to nothing: Inv says so, of every client   *)
(* but one whose command has ended, and nothing of clocks or sessions.     *)
(***************************************************************************)
EXTENDS Reconnect, TLAPS

Counted(c) ==
    /\ streak[c] \in Nat
    /\ sm[c].state # "Closed" => sm[c].retry_count = streak[c]
    /\ streak[c] <= MaxRetries + 1
    /\ In(c, "Failed") <=> streak[c] = MaxRetries + 1

Inv ==
    /\ sm \in [Client -> [state : States, retry_count : Nat]]
    /\ streak \in [Client -> Nat]
    /\ \A c \in Client : Counted(c)

-----------------------------------------------------------------------------
\* The initial state satisfies the invariant.
LEMMA InitInv == Init => Inv
BY RetryPolicyAssumption DEF Init, Inv, Counted, In, States, ConnectionState, RetryPolicyAssumption

\* A failure counts once on both sides, and the last one ends in Failed: the
\* machine m that on_error is called on agrees with the streak n so far.
LEMMA OnErrorCounts ==
    ASSUME Inv, NEW c \in Client, NEW m \in [state : States, retry_count : Nat],
           m.retry_count <= MaxRetries,
           OnError(c, m),
           streak' = [streak EXCEPT ![c] = m.retry_count + 1]
    PROVE  Inv'
<1> DEFINE f == AdvanceRetry(m)
<1>1. /\ f \in [state : States, retry_count : Nat]
      /\ f.retry_count = m.retry_count + 1
      /\ f.state \in {"Failed", "Reconnecting"}
      /\ f.state = "Failed" <=> m.retry_count + 1 = MaxRetries + 1
    BY RetryPolicyAssumption DEF AdvanceRetry, GivesOut, States, ConnectionState, RetryPolicyAssumption
<1>2. sm' = [sm EXCEPT ![c] = f]
    BY DEF OnError
<1> HIDE DEF f
<1>3. /\ sm' \in [Client -> [state : States, retry_count : Nat]]
      /\ streak' \in [Client -> Nat]
    BY <1>1, <1>2 DEF Inv
<1>4. Counted(c)'
    BY <1>1, <1>2, RetryPolicyAssumption DEF Inv, Counted, In, RetryPolicyAssumption
<1>5. ASSUME NEW d \in Client, d # c PROVE Counted(d)'
    BY <1>2, <1>5 DEF Inv, Counted, In
<1> QED
    BY <1>3, <1>4, <1>5 DEF Inv

\* A client that has not given up and has not ended has retries to spend.
LEMMA RunningCount ==
    ASSUME Inv, NEW c \in Client, ~In(c, "Failed"), ~In(c, "Closed")
    PROVE  /\ sm[c] \in [state : States, retry_count : Nat]
           /\ sm[c].retry_count = streak[c]
           /\ streak[c] <= MaxRetries
           /\ OneMore(streak[c]) = streak[c] + 1
BY RetryPolicyAssumption DEF Inv, Counted, In, OneMore, RetryPolicyAssumption

\* A change of state that is no failure keeps the count.
LEMMA MoveCounts ==
    ASSUME Inv, NEW c \in Client, ~In(c, "Failed"), ~In(c, "Closed"),
           NEW s \in {"Disconnected", "Connecting", "Connected"},
           sm' = [sm EXCEPT ![c] = [@ EXCEPT !.state = s]], UNCHANGED streak
    PROVE  Inv'
<1> DEFINE f == [sm[c] EXCEPT !.state = s]
<1>1. sm[c] \in [state : States, retry_count : Nat]
    BY DEF Inv
<1>2. f.state = s /\ f.retry_count = sm[c].retry_count /\ f \in [state : States, retry_count : Nat]
    BY <1>1 DEF States, ConnectionState
<1>3. sm' = [sm EXCEPT ![c] = f]
    OBVIOUS
<1> HIDE DEF f
<1>4. sm' \in [Client -> [state : States, retry_count : Nat]] /\ streak' \in [Client -> Nat]
    BY <1>2, <1>3 DEF Inv
<1>5. Counted(c)'
    BY <1>2, <1>3 DEF Inv, Counted, In
<1>6. ASSUME NEW d \in Client, d # c PROVE Counted(d)'
    BY <1>3, <1>6 DEF Inv, Counted, In
<1> QED
    BY <1>4, <1>5, <1>6 DEF Inv

\* The machine asks for an attempt, a wait or nothing in one state each.
LEMMA ActionOfState ==
    ASSUME NEW c \in Client
    PROVE  /\ Does(c, "DoNothing") => In(c, "Disconnected")
           /\ Does(c, "Connect") => In(c, "Connecting")
           /\ Does(c, "WaitAndRetry") => In(c, "Reconnecting")
BY DEF Does, NextAction, In

\* Either outcome of an attempt.
LEMMA AttemptKeepsInv ==
    ASSUME Inv, NEW c \in Client, Attempt(c)
    PROVE  Inv'
<1>1. CASE ConnectOk(c)
    BY <1>1, ActionOfState, MoveCounts DEF ConnectOk, OnConnected, In
<1>2. CASE ConnectFails(c)
    <2>1. ~In(c, "Failed") /\ ~In(c, "Closed")
        BY <1>2, ActionOfState DEF ConnectFails, In
    <2>2. streak' = [streak EXCEPT ![c] = sm[c].retry_count + 1] /\ OnError(c, sm[c])
        BY <1>2, <2>1, RunningCount DEF ConnectFails
    <2> QED
        BY <2>1, <2>2, RunningCount, OnErrorCounts
<1> QED
    BY <1>1, <1>2 DEF Attempt

\* A session that failed: one more failure, or the first after a stable one.
LEMMA SessionErrorKeepsInv ==
    ASSUME Inv, NEW c \in Client, SessionError(c)
    PROVE  Inv'
<1>1. ~In(c, "Failed") /\ ~In(c, "Closed")
    BY DEF SessionError, In
<1>2. CASE IsStable(c)
    <2> DEFINE m == [sm[c] EXCEPT !.retry_count = 0]
    <2>1. m \in [state : States, retry_count : Nat] /\ m.retry_count = 0
        BY <1>1, RunningCount
    <2>2. OnError(c, m) /\ streak' = [streak EXCEPT ![c] = 1]
        BY <1>2 DEF SessionError, OnStableConnection, IsStable
    <2> HIDE DEF m
    <2>3. m.retry_count <= MaxRetries /\ streak' = [streak EXCEPT ![c] = m.retry_count + 1]
        BY <2>1, <2>2, RetryPolicyAssumption DEF RetryPolicyAssumption
    <2> QED
        BY <2>1, <2>2, <2>3, OnErrorCounts
<1>3. CASE ~IsStable(c)
    <2>1. OnError(c, sm[c]) /\ streak' = [streak EXCEPT ![c] = sm[c].retry_count + 1]
        BY <1>1, <1>3, RunningCount DEF SessionError, IsStable
    <2> QED
        BY <1>1, <2>1, RunningCount, OnErrorCounts
<1> QED
    BY <1>2, <1>3

\* A session the server closed: the count stays, the command is over.
LEMMA SessionClosesKeepsInv ==
    ASSUME Inv, NEW c \in Client, SessionCloses(c)
    PROVE  Inv'
<1> DEFINE m == IF IsStable(c) THEN OnStableConnection(sm[c]) ELSE sm[c]
           f == [m EXCEPT !.state = "Closed"]
<1>1. ~In(c, "Failed") /\ ~In(c, "Closed")
    BY DEF SessionCloses, In
<1>2. f \in [state : States, retry_count : Nat] /\ f.state = "Closed"
    BY <1>1, RunningCount DEF OnStableConnection, States, ConnectionState
<1>3. sm' = [sm EXCEPT ![c] = f] /\ UNCHANGED streak
    BY DEF SessionCloses
<1> HIDE DEF f
<1>4. sm' \in [Client -> [state : States, retry_count : Nat]] /\ streak' \in [Client -> Nat]
    BY <1>2, <1>3 DEF Inv
<1>5. Counted(c)'
    BY <1>1, <1>2, <1>3, RetryPolicyAssumption DEF Inv, Counted, In, RetryPolicyAssumption
<1>6. ASSUME NEW d \in Client, d # c PROVE Counted(d)'
    BY <1>3, <1>6 DEF Inv, Counted, In
<1> QED
    BY <1>4, <1>5, <1>6 DEF Inv

-----------------------------------------------------------------------------
\* Every step preserves the invariant.
LEMMA NextInv == Inv /\ [Next]_vars => Inv'
<1> SUFFICES ASSUME Inv, [Next]_vars PROVE Inv'
    OBVIOUS
<1>1. ASSUME NEW c \in Client, NEW auto \in BOOLEAN, Start(c, auto) PROVE Inv'
    BY <1>1, MoveCounts DEF Start, NewMachine, In
<1>2. ASSUME NEW c \in Client, Attempt(c) PROVE Inv'
    BY <1>2, AttemptKeepsInv
<1>3. ASSUME NEW c \in Client, SessionError(c) PROVE Inv'
    BY <1>3, SessionErrorKeepsInv
<1>4. ASSUME NEW c \in Client, SessionCloses(c) PROVE Inv'
    BY <1>4, SessionClosesKeepsInv
<1>5. ASSUME NEW c \in Client, RetryTick(c) PROVE Inv'
    BY <1>5, ActionOfState, MoveCounts DEF RetryTick, OnRetryTick, In
<1>6. CASE Drop \/ CalmDown \/ Tick \/ UNCHANGED vars
    BY <1>6 DEF Drop, CalmDown, Tick, vars, Inv, Counted, In
<1>7. ASSUME NEW c \in Client, Request(c) PROVE Inv'
    BY <1>7, ActionOfState, MoveCounts DEF Request, RequestConnection, In
<1> QED
    BY <1>1, <1>2, <1>3, <1>4, <1>5, <1>6, <1>7 DEF Next

\* The command gives up after max_retries + 1 attempts in a row that failed or
\* did not last, and only then, under every policy (connection.rs, advance_retry
\* and on_stable_connection; commands.rs, handle_connect_action).
THEOREM GivesUpExactly == Spec => []GivesUpInTime
<1>1. Inv => GivesUpInTime
    BY DEF Inv, Counted, GivesUpInTime
<1> QED
    BY <1>1, InitInv, NextInv, PTL DEF Spec
=============================================================================
