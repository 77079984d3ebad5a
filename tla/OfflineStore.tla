--------------------------- MODULE OfflineStore ---------------------------
(***************************************************************************)
(* What the offline queue promises its caller, the router: enqueue and     *)
(* drain happen at once, and between them a user's messages stay in order. *)
(* Admitting a message may cost others their messages, in three ways only: *)
(* of the same kind, to make room for its bytes; the recipient's oldest,   *)
(* to keep to the message cap; one user's whole queue, to track a new user *)
(* (the contract of crates/collab-relay/src/storage.rs: EnqueueOutcome and *)
(* the comments of OfflineQueue::enqueue and drain).                       *)
(***************************************************************************)
EXTENDS Naturals, SequencesExt

CONSTANTS User, Kind, Budget, PerUser, MaxPerUser, MaxUsers

VARIABLE store   \* each user's queued messages, in the order they arrived

Holders(s) == {u \in User : s[u] # <<>>}

Payload(s, k) == FoldSeq(LAMBDA m, t : t + (IF m.kind = k THEN m.bytes ELSE 0), 0, s)

\* t is s with some elements left out.
IsSubsequence(t, s) ==
    \E at \in [DOMAIN t -> DOMAIN s] :
        /\ \A i, j \in DOMAIN t : i < j => at[i] < at[j]
        /\ \A i \in DOMAIN t : t[i] = s[at[i]]

Lost(u) == ToSet(store[u]) \ ToSet(store'[u])

\* The resource bounds on what is retained.
WithinLimits(s) ==
    /\ Cardinality(Holders(s)) <= MaxUsers
    /\ \A u \in User : Len(s[u]) <= MaxPerUser
    /\ \A k \in Kind :
          /\ SumFunction([u \in Holders(s) |-> Payload(s[u], k)]) <= Budget[k]
          /\ \A u \in User : Payload(s[u], k) <= PerUser[k]

StoreInit == store = [u \in User |-> <<>>]

\* m, the newest arrival, is queued for u; evicted has at most one member.
Queued(u, m, evicted) ==
    /\ store'[u] # <<>>
    /\ Last(store'[u]) = m
    /\ m \notin ToSet(store[u])
    /\ IsSubsequence(Front(store'[u]), store[u])
    /\ \A v \in User \ {u} : IsSubsequence(store'[v], store[v])
    /\ \A v \in evicted : v # u /\ store'[v] = <<>>
    /\ evicted # {} => store[u] = <<>> \/ \A l \in Lost(u) : l.kind = m.kind
    /\ \A v \in User \ ({u} \cup evicted) : \A l \in Lost(v) : l.kind = m.kind
    \* The recipient loses the other kind only to the message cap, oldest first.
    /\ \A l \in Lost(u) :
          l.kind = m.kind \/ Len(store'[u]) = MaxPerUser
    /\ WithinLimits(store')

Enqueue(u) ==
    \E evicted \in {{}} \cup {{v} : v \in User} :
        Queued(u, Last(store'[u]), evicted)

Drained(u) == store' = [store EXCEPT ![u] = <<>>]

StoreNext == \E u \in User : Enqueue(u) \/ Drained(u)

StoreSpec == StoreInit /\ [][StoreNext]_store
=============================================================================
