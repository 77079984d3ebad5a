------------------------------ MODULE GroupLog ------------------------------
(***************************************************************************)
(* What the members of a document are promised about its group: one        *)
(* sequence of epochs, each with one member more than the last, that       *)
(* everybody goes through in order and nobody goes back in.                *)
(***************************************************************************)
EXTENDS Naturals, Sequences

CONSTANTS Client, User, UserId

VARIABLES
    log,       \* the user ids in the group at each epoch
    position,  \* the epoch each client is at, 0 for none
    reached    \* the last epoch each client was at, 0 for none

vars == <<log, position, reached>>

Init ==
    /\ log = <<>>
    /\ position = [c \in Client |-> 0]
    /\ reached = [c \in Client |-> 0]

GoTo(c, e) ==
    /\ position' = [position EXCEPT ![c] = e]
    /\ reached' = [reached EXCEPT ![c] = e]

\* The group is founded by its first member, once.
Found(c) ==
    /\ log = <<>>
    /\ log' = <<{UserId[c]}>>
    /\ GoTo(c, 1)

\* A member at the last epoch admits a user who is not in the group.
Admit(c, u) ==
    /\ log # <<>> /\ position[c] = Len(log)
    /\ u \notin log[Len(log)]
    /\ log' = Append(log, log[Len(log)] \cup {u})
    /\ GoTo(c, Len(log) + 1)

\* A client comes in at the epoch that first has it,
Enter(c) ==
    /\ reached[c] = 0
    /\ \E e \in 2..Len(log) :
          UserId[c] \in log[e] \ log[e - 1] /\ GoTo(c, e)
    /\ UNCHANGED log

\* follows the others one epoch at a time,
Advance(c) ==
    /\ position[c] \in 1..(Len(log) - 1)
    /\ GoTo(c, position[c] + 1)
    /\ UNCHANGED log

\* may stop, and comes back to where it was.
Stop(c) == position' = [position EXCEPT ![c] = 0] /\ UNCHANGED <<log, reached>>

Return(c) ==
    /\ position' = [position EXCEPT ![c] = reached[c]]
    /\ UNCHANGED <<log, reached>>

Next == \E c \in Client :
    \/ Found(c) \/ Enter(c) \/ Advance(c) \/ Stop(c) \/ Return(c)
    \/ \E u \in User : Admit(c, u)

Spec == Init /\ [][Next]_vars
=============================================================================
