------------------------ MODULE OfflineQueue_proofs ------------------------
(***************************************************************************)
(* Proofs about the offline queue, for every set of users and kinds, every *)
(* budget and every cap.  The inductive invariant has four layers, each    *)
(* preserved with the help of those before it: Inv, types, the order list  *)
(* naming each tracked user once, and the two count caps; BytesInv, exact  *)
(* counters, the byte ceilings, and the room each loop exits with;         *)
(* HistoryInv, what the running call has taken from whom; StoreInv, the    *)
(* order of arrival and which messages may go.                             *)
(***************************************************************************)
EXTENDS OfflineQueue, SequenceTheorems, FiniteSetTheorems, WellFoundedInduction, TLAPS

-----------------------------------------------------------------------------
(* Sequences.                                                              *)

\* Removing one position shifts what follows down by one (VecDeque::remove).
LEMMA RemoveAtProperties ==
    ASSUME NEW S, NEW s \in Seq(S), NEW i \in 1..Len(s)
    PROVE  /\ RemoveAt(s, i) \in Seq(S)
           /\ Len(RemoveAt(s, i)) = Len(s) - 1
           /\ \A j \in 1..(Len(s) - 1) :
                RemoveAt(s, i)[j] = IF j < i THEN s[j] ELSE s[j + 1]
<1> DEFINE a == SubSeq(s, 1, i - 1)
           b == SubSeq(s, i + 1, Len(s))
<1>1. Len(s) \in Nat /\ \A j \in 1..Len(s) : s[j] \in S
  BY LenProperties, ElementOfSeq
<1>2. /\ a \in Seq(S)
      /\ Len(a) = i - 1
      /\ \A j \in 1..(i - 1) : a[j] = s[j]
  BY <1>1, SubSeqProperties
<1>3. /\ b \in Seq(S)
      /\ Len(b) = Len(s) - i
      /\ \A j \in 1..(Len(s) - i) : b[j] = s[j + i]
  BY <1>1, SubSeqProperties
<1>4. /\ a \o b \in Seq(S)
      /\ Len(a \o b) = Len(a) + Len(b)
      /\ \A j \in 1..(Len(a) + Len(b)) :
            (a \o b)[j] = IF j <= Len(a) THEN a[j] ELSE b[j - Len(a)]
  BY <1>2, <1>3, ConcatProperties
<1> HIDE DEF a, b
<1>5. ASSUME NEW j \in 1..(Len(s) - 1)
      PROVE  (a \o b)[j] = IF j < i THEN s[j] ELSE s[j + 1]
  <2>1. CASE j < i
    BY <1>1, <1>2, <1>3, <1>4, <2>1
  <2>2. CASE ~(j < i)
    <3>1. (a \o b)[j] = b[j - (i - 1)]
      BY <1>1, <1>2, <1>3, <1>4, <2>2
    <3>2. j - (i - 1) \in 1..(Len(s) - i) /\ (j - (i - 1)) + i = j + 1
      BY <1>1, <2>2
    <3> QED  BY <1>3, <2>2, <3>1, <3>2
  <2> QED  BY <2>1, <2>2
<1>6. RemoveAt(s, i) = a \o b
  BY DEF RemoveAt, a, b
<1> QED
  BY <1>1, <1>2, <1>3, <1>4, <1>5, <1>6

Injective(s) == \A i, j \in DOMAIN s : s[i] = s[j] => i = j

\* Removing one position of a sequence without repetitions removes its element.
LEMMA RemoveAtElements ==
    ASSUME NEW S, NEW s \in Seq(S), Injective(s), NEW i \in DOMAIN s
    PROVE  /\ Injective(RemoveAt(s, i))
           /\ ToSet(RemoveAt(s, i)) = ToSet(s) \ {s[i]}
           /\ i < Len(s) => RemoveAt(s, i) # <<>> /\ Last(RemoveAt(s, i)) = Last(s)
<1> DEFINE t == RemoveAt(s, i)
<1>1. Len(s) \in Nat /\ DOMAIN s = 1..Len(s)
  BY LenProperties
<1>2. /\ t \in Seq(S) /\ Len(t) = Len(s) - 1
      /\ \A j \in 1..(Len(s) - 1) : t[j] = IF j < i THEN s[j] ELSE s[j + 1]
  BY <1>1, RemoveAtProperties
<1>3. DOMAIN t = 1..(Len(s) - 1)
  BY <1>2, LenProperties
<1> HIDE DEF t
<1>4. Injective(t)
  <2> SUFFICES ASSUME NEW j \in DOMAIN t, NEW k \in DOMAIN t, t[j] = t[k]
               PROVE  j = k
    BY DEF Injective
  <2> DEFINE up(x) == IF x < i THEN x ELSE x + 1
  <2>1. t[j] = s[up(j)] /\ t[k] = s[up(k)]
    BY <1>2, <1>3
  <2>2. up(j) \in DOMAIN s /\ up(k) \in DOMAIN s
    BY <1>1, <1>3
  <2>3. up(j) = up(k)
    BY <2>1, <2>2 DEF Injective
  <2> QED BY <1>1, <1>3, <2>3
<1>5. ToSet(t) \subseteq ToSet(s) \ {s[i]}
  BY <1>1, <1>2, <1>3 DEF Injective, ToSet
<1>6. ASSUME NEW x \in ToSet(s) \ {s[i]} PROVE x \in ToSet(t)
  <2>1. PICK k \in 1..Len(s) : s[k] = x /\ k # i
    BY <1>1 DEF ToSet
  <2>2. CASE k < i
    BY <1>1, <1>2, <1>3, <2>1, <2>2 DEF ToSet
  <2>3. CASE k > i
    <3>1. k - 1 \in 1..(Len(s) - 1) /\ t[k - 1] = s[k]
      BY <1>1, <1>2, <2>3
    <3> QED BY <1>3, <2>1, <3>1 DEF ToSet
  <2> QED BY <1>1, <2>1, <2>2, <2>3
<1>7. ASSUME i < Len(s) PROVE t # <<>> /\ Last(t) = Last(s)
  <2>1. Len(s) - 1 \in 1..(Len(s) - 1) /\ ~(Len(s) - 1 < i)
    BY <1>1, <1>7
  <2>2. t[Len(s) - 1] = s[(Len(s) - 1) + 1] /\ (Len(s) - 1) + 1 = Len(s)
    BY <1>1, <1>2, <2>1
  <2>3. t # <<>>
    BY <1>3, <2>1, EmptySeq
  <2> QED BY <1>2, <2>2, <2>3 DEF Last
<1> QED BY <1>4, <1>5, <1>6, <1>7 DEF t

\* Where a user is listed once, removing it leaves the others, each once.
LEMMA WithoutProperties ==
    ASSUME NEW S, NEW s \in Seq(S), NEW e, Injective(s)
    PROVE  /\ Without(s, e) \in Seq(S)
           /\ Injective(Without(s, e))
           /\ ToSet(Without(s, e)) = ToSet(s) \ {e}
<1>1. Len(s) \in Nat /\ DOMAIN s = 1..Len(s)
  BY LenProperties
<1>2. CASE ~ \E i \in 1..Len(s) : s[i] = e
  BY <1>1, <1>2 DEF Without, RemoveFirst, ToSet
<1>3. CASE \E i \in 1..Len(s) : s[i] = e
  <2> DEFINE at == SelectInSeq(s, LAMBDA v : v = e)
             t == RemoveAt(s, at)
  <2>1. PICK i \in 1..Len(s) : s[i] = e
    BY <1>3
  <2>2. {j \in 1..Len(s) : s[j] = e} = {i}
    BY <1>1, <2>1 DEF Injective
  <2>3. at = i
    <3>1. at = IF {j \in 1..Len(s) : s[j] = e} # {}
               THEN CHOOSE k \in {j \in 1..Len(s) : s[j] = e} :
                       \A l \in {j \in 1..Len(s) : s[j] = e} : k <= l
               ELSE 0
      BY DEF SelectInSeq, Min
    <3> QED  BY <1>1, <2>2, <3>1
  <2>4. Without(s, e) = t
    BY <1>3 DEF Without, RemoveFirst
  <2> HIDE DEF at, t
  <2>5. /\ t \in Seq(S) /\ Injective(t) /\ ToSet(t) = ToSet(s) \ {e}
    BY <1>1, <2>1, <2>3, RemoveAtProperties, RemoveAtElements DEF t
  <2> QED  BY <2>4, <2>5
<1> QED  BY <1>2, <1>3

-----------------------------------------------------------------------------
(* The inductive invariant.                                                *)

\* The types with integers for the counters: that these never wrap, which TypeOK
\* says, takes the exact counters of BytesInv.
IntQueue == [messages : Seq(Message), bytes : [Kind -> Int]]

IsIntMap(q) == DOMAIN q \subseteq User /\ q \in [DOMAIN q -> IntQueue]

IsIntCall(c) ==
    /\ c \in [pc : Loops, user : User, msg : Message, displaced : Nat,
              trimmed : Nat, evicted : SUBSET User, before : {c.before}]
    /\ IsIntMap(c.before)

IntTyped ==
    /\ IsIntMap(queues)
    /\ order \in Seq(User)
    /\ bytes \in [Kind -> Int]
    /\ call # Idle => IsIntCall(call)
    /\ arrivals \in Nat

\* What the removal paths keep, whatever the call in progress.
Shape ==
    /\ IsIntMap(queues)
    /\ order \in Seq(User)
    /\ bytes \in [Kind -> Int]
    /\ OrderTracksQueues

Inv ==
    /\ IntTyped
    /\ OrderTracksQueues
    /\ CountCaps
    /\ call.pc = "trim_to_cap" => call.user \in Tracked

\* A message is charged a natural number of bytes to a known kind.
LEMMA MessageTyped ==
    ASSUME NEW m \in Message
    PROVE  m.kind \in Kind /\ m.bytes \in Nat
<1>1. m.kind \in Kind /\ m.bytes \in Size
  BY DEF Message
<1>2. Size \subseteq Nat
  BY QueueAssumption
<1> QED  BY <1>1, <1>2

LEMMA OrderFacts ==
    OrderTracksQueues <=>
        /\ Injective(order)
        /\ ToSet(order) = Tracked
        /\ \A u \in Tracked : queues[u].messages # <<>>
BY DEF OrderTracksQueues, Injective, ToSet

\* The tracked users are finitely many: the order list names them all.
LEMMA TrackedFinite ==
    ASSUME Shape
    PROVE  IsFiniteSet(Tracked) /\ Cardinality(Tracked) \in Nat
<1>1. Len(order) \in Nat /\ order \in [1..Len(order) -> User] /\ DOMAIN order = 1..Len(order)
  BY LenProperties DEF Shape
<1>2. ToSet(order) = Tracked
  BY OrderFacts DEF Shape
<1>3. order \in Surjection(1..Len(order), Tracked)
  BY <1>1, <1>2 DEF Surjection, ToSet
<1>4. IsFiniteSet(1..Len(order))
  BY <1>1, FS_Interval
<1> QED
  BY <1>3, <1>4, FS_Surjection, FS_CardinalityType

\* remove_at keeps counters typed, queues nonempty and the order list exact, and
\* makes exactly one queue shorter by one.
LEMMA RemoveMessageKeepsShape ==
    ASSUME Shape, NEW u \in Tracked, NEW i \in DOMAIN queues[u].messages,
           RemoveMessage(u, i)
    PROVE  /\ Shape'
           /\ Tracked' \subseteq Tracked
           /\ \A v \in Tracked' :
                Len(queues'[v].messages) <=
                    IF v = u THEN Len(queues[u].messages) - 1 ELSE Len(queues[v].messages)
           /\ Len(queues[u].messages) > 1 => u \in Tracked'
<1> DEFINE s == queues[u].messages
           left == RemoveAt(s, i)
           m == s[i]
<1>1. /\ queues \in [Tracked -> IntQueue]
      /\ Tracked \subseteq User
      /\ queues[u] \in IntQueue
      /\ s \in Seq(Message)
      /\ \A v \in Tracked : queues[v].messages \in Seq(Message)
      /\ DOMAIN s = 1..Len(s) /\ Len(s) \in Nat
      /\ \A v \in Tracked : Len(queues[v].messages) \in Nat
  <2>1. queues \in [Tracked -> IntQueue] /\ Tracked \subseteq User
    BY DEF Shape, IsIntMap, Tracked
  <2>2. \A v \in Tracked : queues[v].messages \in Seq(Message)
    BY <2>1 DEF IntQueue
  <2> QED  BY <2>1, <2>2, LenProperties
<1>2. m \in Message /\ m.kind \in Kind /\ m.bytes \in Int
  <2>1. m \in Message
    BY <1>1, ElementOfSeq
  <2> HIDE DEF m
  <2> QED  BY <2>1, MessageTyped
<1>3. left \in Seq(Message) /\ Len(left) = Len(s) - 1
  BY <1>1, RemoveAtProperties
<1>4. bytes' \in [Kind -> Int]
  <2>1. bytes' = Credit(bytes, m)
    BY DEF RemoveMessage
  <2> HIDE DEF m
  <2> QED  BY <1>2, <2>1 DEF Credit, Shape
<1>5. CASE left = <<>>
  <2>1. /\ queues' = [v \in Tracked \ {u} |-> queues[v]]
        /\ order' = Without(order, u)
    BY <1>5 DEF RemoveMessage
  <2>2. Tracked' = Tracked \ {u}
    BY <2>1 DEF Tracked
  <2>3. IsIntMap(queues)'
    BY <1>1, <2>1 DEF IsIntMap
  <2>4. order' \in Seq(User) /\ Injective(order') /\ ToSet(order') = Tracked'
    BY <2>1, <2>2, OrderFacts, WithoutProperties DEF Shape
  <2>5. \A v \in Tracked' : queues'[v] = queues[v] /\ v # u
    BY <2>1, <2>2
  <2>6. OrderTracksQueues'
    BY <2>2, <2>4, <2>5, OrderFacts DEF Injective, ToSet, OrderTracksQueues, Shape
  <2>7. Len(s) = 1
    BY <1>1, <1>3, <1>5, EmptySeq
  <2>8. Shape'
    BY <1>4, <2>3, <2>4, <2>6 DEF Shape
  <2> QED  BY <1>1, <2>2, <2>5, <2>7, <2>8
<1>6. CASE left # <<>>
  <2> DEFINE q == [messages |-> left, bytes |-> Credit(queues[u].bytes, m)]
  <2>1. queues' = [queues EXCEPT ![u] = q] /\ order' = order
    BY <1>6 DEF RemoveMessage
  <2>2. Tracked' = Tracked
    BY <2>1 DEF Tracked
  <2>3. q \in IntQueue
    <3> HIDE DEF m, left
    <3> QED  BY <1>1, <1>2, <1>3 DEF IntQueue, Credit
  <2> HIDE DEF q
  <2>4. IsIntMap(queues)'
    BY <1>1, <2>1, <2>3 DEF IsIntMap, Tracked
  <2>5. /\ queues'[u].messages = left
        /\ \A v \in Tracked \ {u} : queues'[v] = queues[v]
    BY <1>1, <2>1 DEF q
  <2>6. OrderTracksQueues'
    BY <1>6, <2>1, <2>2, <2>5 DEF OrderTracksQueues, Shape
  <2>7. Shape'
    BY <1>4, <2>1, <2>4, <2>6 DEF Shape
  <2> HIDE DEF left
  <2> QED  BY <1>1, <1>3, <2>2, <2>5, <2>7
<1> QED  BY <1>5, <1>6

LEMMA DropOldestKeepsShape ==
    ASSUME Shape, NEW u, NEW k, DropOldestOf(u, k)
    PROVE  /\ Shape'
           /\ Tracked' \subseteq Tracked
           /\ \A v \in Tracked' : Len(queues'[v].messages) <= Len(queues[v].messages)
<1>1. PICK i \in PositionsOf(u, k) : RemoveMessage(u, i)
  BY DEF DropOldestOf
<1>2. u \in Tracked /\ i \in DOMAIN queues[u].messages
  BY <1>1 DEF PositionsOf
<1>3. queues[u].messages \in Seq(Message)
  BY <1>2 DEF Shape, IsIntMap, Tracked, IntQueue
<1>4. Len(queues[u].messages) \in Nat
  BY <1>3, LenProperties
<1>5. \A v \in Tracked' :
        Len(queues'[v].messages) <=
            IF v = u THEN Len(queues[u].messages) - 1 ELSE Len(queues[v].messages)
  BY <1>1, <1>2, RemoveMessageKeepsShape
<1>6. \A v \in Tracked' : Len(queues'[v].messages) \in Nat
  <2>1. Shape'
    BY <1>1, <1>2, RemoveMessageKeepsShape
  <2>2. \A v \in Tracked' : queues'[v].messages \in Seq(Message)
    BY <2>1 DEF Shape, IsIntMap, Tracked, IntQueue
  <2> QED  BY <2>2, LenProperties
<1> QED
  BY <1>1, <1>2, <1>4, <1>5, <1>6, RemoveMessageKeepsShape

\* The largest part of the state after an admission: the recipient is tracked,
\* its queue is one longer, everyone else's is what the caller passed in.
LEMMA AdmitToKeepsShape ==
    ASSUME IsIntCall(call), NEW q, NEW o, NEW b, NEW evicted,
           IsIntMap(q), o \in Seq(User), b \in [Kind -> Int],
           Injective(o), ToSet(o) = DOMAIN q,
           \A u \in DOMAIN q : q[u].messages # <<>>,
           AdmitTo(q, o, b, evicted)
    PROVE  /\ Shape'
           /\ Tracked' = DOMAIN q \cup {call.user}
           /\ \A v \in Tracked' :
                Len(queues'[v].messages) =
                    IF v # call.user THEN Len(q[v].messages)
                    ELSE IF v \in DOMAIN q THEN Len(q[v].messages) + 1 ELSE 1
<1> DEFINE u == call.user
           m == call.msg
           new == u \notin DOMAIN q
           old == IF new THEN [messages |-> <<>>, bytes |-> [k \in Kind |-> 0]] ELSE q[u]
           entry == [messages |-> Append(old.messages, m), bytes |-> Charge(old.bytes, m)]
<1>1. u \in User /\ m \in Message
  BY DEF IsIntCall
<1>2. /\ queues' = [v \in DOMAIN q \cup {u} |-> IF v = u THEN entry ELSE q[v]]
      /\ order' = IF new THEN Append(o, u) ELSE o
      /\ bytes' = Charge(b, m)
  BY DEF AdmitTo
<1>3. m.kind \in Kind /\ m.bytes \in Int
  BY <1>1, MessageTyped
<1>4. bytes' \in [Kind -> Int]
  BY <1>2, <1>3 DEF Charge
<1>5. old \in IntQueue
  BY <1>1 DEF IsIntMap, IntQueue
<1>6. /\ entry \in IntQueue
      /\ entry.messages # <<>>
      /\ Len(entry.messages) = Len(old.messages) + 1
      /\ Len(old.messages) = IF new THEN 0 ELSE Len(q[u].messages)
  <2>1. old.messages \in Seq(Message) /\ old.bytes \in [Kind -> Int]
    BY <1>5 DEF IntQueue
  <2>2. Len(old.messages) = IF new THEN 0 ELSE Len(q[u].messages)
    BY EmptySeq
  <2> HIDE DEF old
  <2>3. Charge(old.bytes, m) \in [Kind -> Int]
    BY <1>3, <2>1 DEF Charge
  <2>4. /\ Append(old.messages, m) \in Seq(Message)
        /\ Append(old.messages, m) # <<>>
        /\ Len(Append(old.messages, m)) = Len(old.messages) + 1
    BY <1>1, <2>1, AppendProperties, SMTT(30)
  <2> QED  BY <2>2, <2>3, <2>4 DEF IntQueue
<1> HIDE DEF entry, old
<1>7. Tracked' = DOMAIN q \cup {u}
  BY <1>2 DEF Tracked
<1>8. IsIntMap(queues)'
  BY <1>1, <1>2, <1>6 DEF IsIntMap
<1>9. order' \in Seq(User) /\ Injective(order') /\ ToSet(order') = Tracked'
  <2>1. CASE new
    <3>1. order' = Append(o, u) /\ Len(o) \in Nat /\ DOMAIN o = 1..Len(o)
      BY <1>2, <2>1, LenProperties
    <3>2. /\ order' \in Seq(User)
          /\ DOMAIN order' = 1..(Len(o) + 1)
          /\ \A i \in 1..Len(o) : order'[i] = o[i]
          /\ order'[Len(o) + 1] = u
      BY <1>1, <3>1, AppendProperties, LenProperties
    <3>3. \A i \in 1..Len(o) : o[i] # u
      BY <2>1, <3>1 DEF ToSet
    <3>4. Injective(order')
      BY <3>1, <3>2, <3>3 DEF Injective
    <3>5. ToSet(order') = ToSet(o) \cup {u}
      BY <3>1, <3>2 DEF ToSet
    <3> QED  BY <1>7, <3>2, <3>4, <3>5
  <2>2. CASE ~new
    BY <1>2, <1>7, <2>2
  <2> QED  BY <2>1, <2>2
<1>10. /\ queues'[u] = entry
       /\ \A v \in DOMAIN q \ {u} : queues'[v] = q[v]
  BY <1>2
<1>11. OrderTracksQueues'
  BY <1>6, <1>7, <1>9, <1>10 DEF OrderTracksQueues, Injective, ToSet
<1>12. Shape'
  BY <1>4, <1>8, <1>9, <1>11 DEF Shape
<1> QED  BY <1>6, <1>7, <1>10, <1>12

-----------------------------------------------------------------------------
(* Every step preserves Inv.                                               *)

LEMMA InvFacts ==
    ASSUME Inv
    PROVE  Shape /\ (call # Idle => IsIntCall(call)) /\ arrivals \in Nat
BY DEF Inv, IntTyped, Shape

LEMMA LenTyped ==
    ASSUME Shape
    PROVE  \A v \in Tracked : Len(queues[v].messages) \in Nat
<1>1. \A v \in Tracked : queues[v].messages \in Seq(Message)
  BY DEF Shape, IsIntMap, Tracked, IntQueue
<1> QED  BY <1>1, LenProperties

\* The assignments to enqueue's locals keep their types, user and message.
LEMMA CallUpdates ==
    ASSUME NEW c, IsIntCall(c), NEW p \in Loops, NEW e \in SUBSET User
    PROVE  /\ IsIntCall([c EXCEPT !.pc = p])
           /\ IsIntCall([c EXCEPT !.pc = p, !.evicted = e])
           /\ IsIntCall([c EXCEPT !.displaced = @ + 1])
           /\ IsIntCall([c EXCEPT !.trimmed = @ + 1])
<1> DEFINE R == [pc : Loops, user : User, msg : Message, displaced : Nat,
                 trimmed : Nat, evicted : SUBSET User, before : {c.before}]
<1>1. c \in R /\ IsIntMap(c.before)
  BY DEF IsIntCall
<1>2. ASSUME NEW d \in R  PROVE IsIntCall(d)
  <2>1. d.before = c.before
    OBVIOUS
  <2> QED  BY <1>1, <2>1 DEF IsIntCall
<1>3. [c EXCEPT !.pc = p] \in R /\ [c EXCEPT !.pc = p, !.evicted = e] \in R
  BY <1>1
<1>4. [c EXCEPT !.displaced = @ + 1] \in R /\ [c EXCEPT !.trimmed = @ + 1] \in R
  BY <1>1
<1> HIDE DEF R
<1> QED  BY <1>2, <1>3, <1>4

\* A step outside the count-cap loop that only takes messages away.
LEMMA ShrinkingStepKeepsInv ==
    ASSUME Inv, Shape', Tracked' \subseteq Tracked,
           \A v \in Tracked' : Len(queues'[v].messages) <= Len(queues[v].messages),
           call.pc # "trim_to_cap", call'.pc # "trim_to_cap",
           call' # Idle => IsIntCall(call'), arrivals' \in Nat
    PROVE  Inv'
<1>1. Shape /\ Shape'
  BY InvFacts
<1>2. IntTyped' /\ OrderTracksQueues'
  BY <1>1 DEF IntTyped, Shape
<1>3. Cardinality(Tracked') <= MaxUsers
  <2>1. IsFiniteSet(Tracked) /\ Cardinality(Tracked) \in Nat /\ Cardinality(Tracked) <= MaxUsers
    BY <1>1, TrackedFinite DEF Inv, CountCaps
  <2>2. Cardinality(Tracked') <= Cardinality(Tracked) /\ Cardinality(Tracked') \in Nat
    BY <2>1, FS_Subset, FS_CardinalityType
  <2> QED  BY <2>1, <2>2, QueueAssumption
<1>4. ASSUME NEW v \in Tracked'  PROVE Len(queues'[v].messages) <= MaxPerUser
  <2>1. Len(queues[v].messages) <= MaxPerUser
    BY DEF Inv, CountCaps
  <2>2. Len(queues[v].messages) \in Nat
    BY <1>1, LenTyped
  <2>3. Len(queues'[v].messages) \in Nat
    <3>1. queues'[v].messages \in Seq(Message)
      BY <1>1 DEF Shape, IsIntMap, Tracked, IntQueue
    <3> QED  BY <3>1, LenProperties
  <2>4. MaxPerUser \in Nat
    BY QueueAssumption
  <2> QED  BY <2>1, <2>2, <2>3, <2>4
<1>5. CountCaps'
  BY <1>3, <1>4 DEF CountCaps
<1> QED  BY <1>2, <1>5 DEF Inv

\* What both forms of admission establish, given the state they admit to.
LEMMA AdmissionKeepsInv ==
    ASSUME Inv, call # Idle, call.pc = "admit", NEW q, NEW o, NEW b, NEW e \in SUBSET User,
           IsIntMap(q), o \in Seq(User), b \in [Kind -> Int],
           Injective(o), ToSet(o) = DOMAIN q, DOMAIN q \subseteq Tracked,
           \A u \in DOMAIN q : q[u] = queues[u],
           Cardinality(DOMAIN q \cup {call.user}) <= MaxUsers,
           AdmitTo(q, o, b, e)
    PROVE  Inv'
<1>1. Shape /\ IsIntCall(call) /\ arrivals \in Nat
  BY InvFacts
<1>2. \A u \in DOMAIN q : q[u].messages # <<>>
  BY <1>1 DEF Shape, OrderTracksQueues
<1>3. /\ Shape'
      /\ Tracked' = DOMAIN q \cup {call.user}
      /\ \A v \in Tracked' :
           Len(queues'[v].messages) =
               IF v # call.user THEN Len(q[v].messages)
               ELSE IF v \in DOMAIN q THEN Len(q[v].messages) + 1 ELSE 1
  BY <1>1, <1>2, AdmitToKeepsShape
<1>4. call' = [call EXCEPT !.pc = "trim_to_cap", !.evicted = e] /\ arrivals' = arrivals
  BY DEF AdmitTo
<1>5. IsIntCall(call')
  BY <1>1, <1>4, CallUpdates DEF Loops
<1>6. call'.pc = "trim_to_cap" /\ call'.user = call.user
  BY <1>1, <1>4 DEF IsIntCall
<1>7. IntTyped' /\ OrderTracksQueues'
  BY <1>1, <1>3, <1>4, <1>5 DEF IntTyped, Shape
<1>8. \A v \in DOMAIN q : Len(q[v].messages) \in Nat /\ Len(q[v].messages) <= MaxPerUser
  BY <1>1, LenTyped DEF Inv, CountCaps
<1>9. MaxPerUser \in Nat /\ MaxPerUser >= 1
  BY QueueAssumption
<1>10. ASSUME NEW v \in Tracked'
       PROVE  Len(queues'[v].messages) <=
                  IF call' # Idle /\ v = call'.user /\ call'.pc = "trim_to_cap"
                  THEN MaxPerUser + 1 ELSE MaxPerUser
  <2>1. CASE v = call.user
    <3>1. Len(queues'[v].messages) <= MaxPerUser + 1
      BY <1>3, <1>8, <1>9, <2>1
    <3>2. call' # Idle
      BY <1>6 DEF Idle
    <3> QED  BY <1>6, <2>1, <3>1, <3>2
  <2>2. CASE v # call.user
    BY <1>3, <1>6, <1>8, <2>2
  <2> QED  BY <2>1, <2>2
<1>11. CountCaps'
  BY <1>3, <1>10 DEF CountCaps
<1> QED  BY <1>3, <1>6, <1>7, <1>11 DEF Inv

LEMMA AdmitKeepsInv == Inv /\ Admit => Inv'
<1> SUFFICES ASSUME Inv, Admit PROVE Inv'
  OBVIOUS
<1>1. call # Idle /\ call.pc = "admit"
  BY DEF Admit, Idle
<1>2. Shape /\ IsFiniteSet(Tracked) /\ Cardinality(Tracked) \in Nat
  BY InvFacts, TrackedFinite
<1>3. Cardinality(Tracked \cup {call.user}) <= MaxUsers
  <2>1. CASE call.user \in Tracked
    <3>1. Tracked \cup {call.user} = Tracked
      BY <2>1
    <3> QED  BY <3>1 DEF Inv, CountCaps
  <2>2. CASE call.user \notin Tracked
    <3>1. ~(Cardinality(Tracked) >= MaxUsers)
      BY <2>2 DEF Admit, MustEvict
    <3>2. Cardinality(Tracked \cup {call.user}) = Cardinality(Tracked) + 1
      BY <1>2, <2>2, FS_AddElement
    <3>3. MaxUsers \in Nat
      BY QueueAssumption
    <3> QED  BY <1>2, <3>1, <3>2, <3>3
  <2> QED  BY <2>1, <2>2
<1>4. IsIntMap(queues) /\ order \in Seq(User) /\ bytes \in [Kind -> Int]
  BY <1>2 DEF Shape
<1>5. Injective(order) /\ ToSet(order) = DOMAIN queues
  BY <1>2, OrderFacts DEF Shape, Tracked
<1>6. AdmitTo(queues, order, bytes, {})
  BY DEF Admit
<1> QED  BY <1>1, <1>3, <1>4, <1>5, <1>6, AdmissionKeepsInv DEF Tracked

LEMMA AdmitEvictingKeepsInv == Inv /\ AdmitEvicting => Inv'
<1> SUFFICES ASSUME Inv, AdmitEvicting PROVE Inv'
  OBVIOUS
<1>1. call # Idle /\ call.pc = "admit"
  BY DEF AdmitEvicting, Idle
<1>2. Shape /\ IsFiniteSet(Tracked) /\ Cardinality(Tracked) \in Nat
  BY InvFacts, TrackedFinite
<1>3. PICK i \in DOMAIN order :
        /\ IsEvicted(order[i], i)
        /\ AdmitTo([v \in Tracked \ {order[i]} |-> queues[v]],
                   SubSeq(order, i + 1, Len(order)),
                   [k \in Kind |-> bytes[k] - queues[order[i]].bytes[k]],
                   {order[i]})
  BY DEF AdmitEvicting
<1> DEFINE gone == order[i]
           q == [v \in Tracked \ {gone} |-> queues[v]]
           o == SubSeq(order, i + 1, Len(order))
           b == [k \in Kind |-> bytes[k] - queues[gone].bytes[k]]
<1>4. /\ order \in Seq(User) /\ Len(order) \in Nat /\ DOMAIN order = 1..Len(order)
      /\ \A j \in 1..Len(order) : order[j] \in User
      /\ Injective(order) /\ ToSet(order) = Tracked
  BY <1>2, LenProperties, ElementOfSeq, OrderFacts DEF Shape
<1>5. gone \in Tracked /\ gone \in User
  BY <1>3, <1>4 DEF IsEvicted
<1>6. i = 1
  <2>1. order[1] \in Tracked
    BY <1>4 DEF ToSet
  <2>2. i > 1 => order[1] \notin Tracked
    BY <1>3, <1>4 DEF IsEvicted
  <2> QED  BY <1>4, <2>1, <2>2
<1>7. /\ o \in Seq(User)
      /\ Len(o) = Len(order) - 1
      /\ \A j \in 1..(Len(order) - 1) : o[j] = order[j + 1]
  <2>1. o = SubSeq(order, 2, Len(order))
    BY <1>6
  <2>2. \A j \in 2..Len(order) : order[j] \in User
    BY <1>4
  <2>3. /\ SubSeq(order, 2, Len(order)) \in Seq(User)
        /\ Len(SubSeq(order, 2, Len(order))) = Len(order) - 1
        /\ \A j \in 1..(Len(order) - 1) : SubSeq(order, 2, Len(order))[j] = order[j + 1]
    <3>1. Len(order) >= 1
      BY <1>4
    <3> QED  BY <1>4, <2>2, <3>1, SubSeqProperties
  <2> QED  BY <2>1, <2>3
<1>8. DOMAIN o = 1..(Len(order) - 1)
  BY <1>7, LenProperties
<1>9. Injective(o) /\ ToSet(o) = Tracked \ {gone}
  <2> HIDE DEF o
  <2>1. Injective(o)
    <3> SUFFICES ASSUME NEW j \in DOMAIN o, NEW k \in DOMAIN o, o[j] = o[k]
                 PROVE  j = k
      BY DEF Injective
    <3>1. /\ j + 1 \in DOMAIN order /\ o[j] = order[j + 1]
          /\ k + 1 \in DOMAIN order /\ o[k] = order[k + 1]
      BY <1>4, <1>7, <1>8
    <3>2. j + 1 = k + 1
      BY <1>4, <3>1 DEF Injective
    <3> QED  BY <1>4, <1>8, <3>2
  <2>2. ToSet(o) \subseteq Tracked \ {gone}
    <3> SUFFICES ASSUME NEW j \in DOMAIN o PROVE o[j] \in Tracked \ {gone}
      BY DEF ToSet
    <3>1. j + 1 \in DOMAIN order /\ j + 1 # 1 /\ o[j] = order[j + 1]
      BY <1>4, <1>7, <1>8
    <3> QED  BY <1>4, <1>6, <3>1 DEF Injective, ToSet
  <2>3. ASSUME NEW x \in Tracked \ {gone} PROVE x \in ToSet(o)
    <3>1. PICK j \in 1..Len(order) : order[j] = x /\ j # 1
      BY <1>4, <1>6 DEF ToSet
    <3>2. j - 1 \in DOMAIN o /\ o[j - 1] = order[j]
      BY <1>4, <1>7, <1>8, <3>1
    <3> QED  BY <3>1, <3>2 DEF ToSet
  <2> QED  BY <2>1, <2>2, <2>3
<1>10. IsIntMap(q) /\ DOMAIN q = Tracked \ {gone} /\ \A u \in DOMAIN q : q[u] = queues[u]
  BY <1>2 DEF Shape, IsIntMap, Tracked
<1>11. b \in [Kind -> Int]
  <2>1. queues[gone].bytes \in [Kind -> Int] /\ bytes \in [Kind -> Int]
    BY <1>2, <1>5 DEF Shape, IsIntMap, Tracked, IntQueue
  <2> HIDE DEF gone
  <2> QED  BY <2>1
<1>12. Cardinality(DOMAIN q \cup {call.user}) <= MaxUsers
  <2>1. call.user \notin Tracked /\ Cardinality(Tracked) <= MaxUsers
    BY DEF AdmitEvicting, MustEvict, Inv, CountCaps
  <2>2. IsFiniteSet(DOMAIN q) /\ Cardinality(DOMAIN q) = Cardinality(Tracked) - 1
    BY <1>2, <1>5, <1>10, FS_RemoveElement
  <2>3. Cardinality(DOMAIN q \cup {call.user}) = Cardinality(DOMAIN q) + 1
    BY <1>10, <2>1, <2>2, FS_AddElement
  <2> QED  BY <1>2, <2>1, <2>2, <2>3
<1>13. AdmitTo(q, o, b, {gone}) /\ {gone} \in SUBSET User
  BY <1>3, <1>5
<1> HIDE DEF q, o, b, gone
<1> QED  BY <1>1, <1>7, <1>9, <1>10, <1>11, <1>12, <1>13, AdmissionKeepsInv

LEMMA TrimToCapKeepsInv == Inv /\ TrimToCap => Inv'
<1> SUFFICES ASSUME Inv, TrimToCap PROVE Inv'
  OBVIOUS
<1> DEFINE u == call.user
<1>1. /\ call.pc = "trim_to_cap" /\ u \in Tracked
      /\ Len(queues[u].messages) > MaxPerUser
      /\ RemoveMessage(u, 1)
      /\ call' = [call EXCEPT !.trimmed = @ + 1]
      /\ arrivals' = arrivals
  BY DEF TrimToCap, Inv
<1>2. Shape /\ IsIntCall(call) /\ arrivals \in Nat
  BY <1>1, InvFacts DEF Idle
<1>3. IsIntCall(call') /\ call'.pc = "trim_to_cap" /\ call'.user = u
  <2>1. IsIntCall(call')
    BY <1>1, <1>2, CallUpdates DEF Loops
  <2> QED  BY <1>1, <1>2, <2>1 DEF IsIntCall
<1>4. /\ queues[u].messages \in Seq(Message)
      /\ DOMAIN queues[u].messages = 1..Len(queues[u].messages)
      /\ MaxPerUser \in Nat /\ MaxPerUser >= 1
      /\ \A v \in Tracked : Len(queues[v].messages) \in Nat
  <2>1. queues[u].messages \in Seq(Message)
    BY <1>1, <1>2 DEF Shape, IsIntMap, Tracked, IntQueue
  <2>2. MaxPerUser \in Nat /\ MaxPerUser >= 1
    BY QueueAssumption
  <2> QED  BY <1>2, <2>1, <2>2, LenProperties, LenTyped
<1>5. 1 \in DOMAIN queues[u].messages /\ Len(queues[u].messages) > 1
  BY <1>1, <1>4
<1>6. /\ Shape'
      /\ Tracked' \subseteq Tracked
      /\ u \in Tracked'
      /\ \A v \in Tracked' :
           Len(queues'[v].messages) <=
               IF v = u THEN Len(queues[u].messages) - 1 ELSE Len(queues[v].messages)
  <2> HIDE DEF u
  <2> QED  BY <1>1, <1>2, <1>5, RemoveMessageKeepsShape
<1>7. ASSUME NEW v \in Tracked'
      PROVE  Len(queues'[v].messages) <=
                 IF call' # Idle /\ v = call'.user /\ call'.pc = "trim_to_cap"
                 THEN MaxPerUser + 1 ELSE MaxPerUser
  <2>1. queues'[v].messages \in Seq(Message)
    BY <1>6 DEF Shape, IsIntMap, Tracked, IntQueue
  <2>2. Len(queues'[v].messages) \in Nat
    BY <2>1, LenProperties
  <2>3. Len(queues[v].messages) <=
           IF call # Idle /\ v = call.user /\ call.pc = "trim_to_cap"
           THEN MaxPerUser + 1 ELSE MaxPerUser
    BY <1>6 DEF Inv, CountCaps
  <2>4. call' # Idle
    BY <1>3 DEF Idle
  <2>5. CASE v = u
    <3>1. Len(queues'[u].messages) <= Len(queues[u].messages) - 1
      BY <1>6
    <3>2. Len(queues[u].messages) <= MaxPerUser + 1
      BY <1>1, <2>3, <2>5 DEF Idle
    <3>3. Len(queues'[u].messages) <= MaxPerUser + 1
      BY <1>1, <1>4, <2>2, <2>5, <3>1, <3>2
    <3> QED  BY <1>3, <2>4, <2>5, <3>3
  <2>6. CASE v # u
    <3>1. Len(queues'[v].messages) <= Len(queues[v].messages)
      BY <1>6, <2>6
    <3>2. Len(queues[v].messages) <= MaxPerUser /\ Len(queues[v].messages) \in Nat
      BY <1>4, <1>6, <2>3, <2>6
    <3>3. Len(queues'[v].messages) <= MaxPerUser
      BY <1>4, <2>2, <3>1, <3>2
    <3> QED  BY <1>3, <2>6, <3>3
  <2> QED  BY <2>5, <2>6
<1>8. Cardinality(Tracked') <= MaxUsers
  <2>1. IsFiniteSet(Tracked) /\ Cardinality(Tracked) \in Nat /\ Cardinality(Tracked) <= MaxUsers
    BY <1>2, TrackedFinite DEF Inv, CountCaps
  <2>2. Cardinality(Tracked') <= Cardinality(Tracked) /\ Cardinality(Tracked') \in Nat
    BY <1>6, <2>1, FS_Subset, FS_CardinalityType
  <2> QED  BY <2>1, <2>2, QueueAssumption
<1>9. IntTyped' /\ OrderTracksQueues' /\ CountCaps'
  BY <1>1, <1>2, <1>3, <1>6, <1>7, <1>8 DEF IntTyped, Shape, CountCaps
<1> QED  BY <1>3, <1>6, <1>9 DEF Inv

LEMMA CapTrimmedKeepsInv == Inv /\ CapTrimmed => Inv'
<1> SUFFICES ASSUME Inv, CapTrimmed PROVE Inv'
  OBVIOUS
<1>1. /\ call.pc = "trim_to_cap"
      /\ Len(queues[call.user].messages) <= MaxPerUser
      /\ call' = [call EXCEPT !.pc = "done"]
      /\ UNCHANGED <<queues, order, bytes, arrivals>>
  BY DEF CapTrimmed
<1>2. Shape /\ IsIntCall(call) /\ arrivals \in Nat
  BY <1>1, InvFacts DEF Idle
<1>3. IsIntCall(call') /\ call'.pc = "done"
  BY <1>1, <1>2, CallUpdates DEF Loops, IsIntCall
<1>4. Tracked' = Tracked /\ Shape'
  BY <1>1, <1>2 DEF Tracked, Shape, IsIntMap, OrderTracksQueues
<1>5. \A v \in Tracked : Len(queues[v].messages) <= MaxPerUser
  BY <1>1 DEF Inv, CountCaps
<1>6. IntTyped' /\ OrderTracksQueues' /\ CountCaps'
  BY <1>1, <1>2, <1>3, <1>4, <1>5 DEF IntTyped, Shape, CountCaps, Inv
<1> QED  BY <1>3, <1>6 DEF Inv

LEMMA DropStepsKeepInv == Inv /\ (TrimUserBudget \/ MakeRoom) => Inv'
<1> SUFFICES ASSUME Inv, TrimUserBudget \/ MakeRoom PROVE Inv'
  OBVIOUS
<1>1. /\ call.pc \in {"trim_user_budget", "make_room"}
      /\ call' = [call EXCEPT !.displaced = @ + 1]
      /\ arrivals' = arrivals
      /\ \E u, k : DropOldestOf(u, k)
  BY DEF TrimUserBudget, MakeRoom
<1>2. Shape /\ IsIntCall(call) /\ arrivals \in Nat
  BY <1>1, InvFacts DEF Idle
<1>3. IsIntCall(call') /\ call'.pc = call.pc
  <2>1. IsIntCall(call')
    BY <1>1, <1>2, CallUpdates DEF Loops
  <2> QED  BY <1>1, <1>2, <2>1 DEF IsIntCall
<1>4. /\ Shape'
      /\ Tracked' \subseteq Tracked
      /\ \A v \in Tracked' : Len(queues'[v].messages) <= Len(queues[v].messages)
  BY <1>1, <1>2, DropOldestKeepsShape
<1> QED  BY <1>1, <1>2, <1>3, <1>4, ShrinkingStepKeepsInv

\* Steps that leave queues and order alone, outside the count-cap loop.
LEMMA QuietStepsKeepInv ==
    ASSUME Inv, UNCHANGED <<queues, order, bytes>>,
           call.pc # "trim_to_cap", call'.pc # "trim_to_cap",
           call' # Idle => IsIntCall(call'), arrivals' \in Nat
    PROVE  Inv'
<1>1. Shape
  BY InvFacts
<1>2. Tracked' = Tracked /\ Shape'
  BY <1>1 DEF Tracked, Shape, IsIntMap, OrderTracksQueues
<1>3. \A v \in Tracked' : Len(queues'[v].messages) <= Len(queues[v].messages)
  BY <1>1, <1>2, LenTyped
<1> QED  BY <1>2, <1>3, ShrinkingStepKeepsInv

LEMMA EnqueueStartKeepsInv ==
    ASSUME Inv, NEW u \in User, NEW k \in Kind, NEW b \in Size, EnqueueStart(u, k, b)
    PROVE  Inv'
<1>1. /\ call = Idle
      /\ call' = [pc |-> "trim_user_budget", user |-> u, msg |-> Offered(k, b),
                  displaced |-> 0, trimmed |-> 0, evicted |-> {}, before |-> queues]
      /\ arrivals' = arrivals + 1
      /\ UNCHANGED <<queues, order, bytes>>
  BY DEF EnqueueStart
<1>2. Shape /\ arrivals \in Nat
  BY InvFacts
<1>3. Offered(k, b) \in Message
  BY <1>2 DEF Offered, Message
<1>4. IsIntCall(call')
  BY <1>1, <1>2, <1>3 DEF IsIntCall, Loops, Shape
<1>5. call.pc = "idle" /\ call'.pc = "trim_user_budget"
  BY <1>1 DEF Idle
<1> QED  BY <1>1, <1>2, <1>4, <1>5, QuietStepsKeepInv

LEMMA DrainKeepsInv ==
    ASSUME Inv, NEW u \in User, Drain(u)
    PROVE  Inv'
<1>1. /\ call = Idle /\ call' = Idle /\ arrivals' = arrivals
      /\ queues' = [v \in Tracked \ {u} |-> queues[v]]
      /\ bytes' = [k \in Kind |-> bytes[k] - Held(u, k)]
      /\ order' = Without(order, u)
  BY DEF Drain
<1>2. Shape /\ arrivals \in Nat
  BY InvFacts
<1>3. Tracked' = Tracked \ {u} /\ IsIntMap(queues)'
  BY <1>1, <1>2 DEF Tracked, IsIntMap, Shape
<1>4. \A v \in Tracked' : queues'[v] = queues[v]
  BY <1>1, <1>3
<1>5. bytes' \in [Kind -> Int]
  <2>1. \A k \in Kind : Held(u, k) \in Int
    BY <1>2 DEF Held, Shape, IsIntMap, Tracked, IntQueue
  <2> QED  BY <1>1, <1>2, <2>1 DEF Shape
<1>6. order' \in Seq(User) /\ Injective(order') /\ ToSet(order') = Tracked'
  BY <1>1, <1>2, <1>3, OrderFacts, WithoutProperties DEF Shape
<1>7. OrderTracksQueues'
  BY <1>2, <1>3, <1>4, <1>6 DEF Injective, ToSet, OrderTracksQueues, Shape
<1>8. Shape'
  BY <1>3, <1>5, <1>6, <1>7 DEF Shape
<1>9. \A v \in Tracked' : Len(queues'[v].messages) <= Len(queues[v].messages)
  BY <1>2, <1>3, <1>4, LenTyped
<1>10. call.pc = "idle" /\ call'.pc = "idle"
  BY <1>1 DEF Idle
<1> QED  BY <1>1, <1>2, <1>3, <1>8, <1>9, <1>10, ShrinkingStepKeepsInv

LEMMA InvInit == Init => Inv
<1> SUFFICES ASSUME Init PROVE Inv
  OBVIOUS
<1>1. Tracked = {} /\ DOMAIN order = {} /\ call.pc = "idle"
  BY EmptySeq DEF Init, Tracked, Idle
<1>2. order \in Seq(User)
  BY EmptySeq DEF Init
<1>3. IsIntMap(queues)
  BY <1>1 DEF Init, IsIntMap, Tracked
<1>4. IntTyped
  BY <1>2, <1>3 DEF Init, IntTyped
<1>5. OrderTracksQueues
  BY <1>1 DEF OrderTracksQueues
<1>6. CountCaps
  <2>1. Cardinality(Tracked) = 0
    BY <1>1, FS_EmptySet
  <2>2. MaxUsers \in Nat
    BY QueueAssumption
  <2> QED  BY <1>1, <2>1, <2>2 DEF CountCaps
<1> QED  BY <1>1, <1>4, <1>5, <1>6 DEF Inv

LEMMA InvStep == Inv /\ [Next]_vars => Inv'
<1> SUFFICES ASSUME Inv, [Next]_vars PROVE Inv'
  OBVIOUS
<1>1. ASSUME NEW u \in User, NEW k \in Kind, NEW b \in Size, EnqueueRefused(u, k, b)
      PROVE  Inv'
  <2>1. call = Idle /\ call' = Idle /\ arrivals' \in Nat /\ UNCHANGED <<queues, order, bytes>>
    BY <1>1, InvFacts DEF EnqueueRefused
  <2>2. call.pc = "idle" /\ call'.pc = "idle"
    BY <2>1 DEF Idle
  <2> QED  BY <2>1, <2>2, QuietStepsKeepInv
<1>2. CASE TrimUserBudget \/ MakeRoom
  BY <1>2, DropStepsKeepInv
<1>3. CASE UserBudgetTrimmed \/ RoomMade
  <2>1. /\ call.pc \in {"trim_user_budget", "make_room"}
        /\ \E p \in {"make_room", "admit"} : call' = [call EXCEPT !.pc = p]
        /\ UNCHANGED <<queues, order, bytes, arrivals>>
    BY <1>3 DEF UserBudgetTrimmed, RoomMade
  <2>2. IsIntCall(call) /\ arrivals' \in Nat
    BY <2>1, InvFacts DEF Idle
  <2>3. IsIntCall(call') /\ call'.pc # "trim_to_cap"
    <3>1. PICK p \in {"make_room", "admit"} : call' = [call EXCEPT !.pc = p]
      BY <2>1
    <3>2. IsIntCall(call')
      BY <2>2, <3>1, CallUpdates DEF Loops
    <3>3. call'.pc = p
      BY <2>2, <3>1 DEF IsIntCall
    <3> QED  BY <3>2, <3>3
  <2> QED  BY <2>1, <2>2, <2>3, QuietStepsKeepInv
<1>4. CASE EnqueueReturn
  <2>1. /\ call.pc = "done" /\ call' = Idle /\ call'.pc = "idle"
        /\ UNCHANGED <<queues, order, bytes, arrivals>>
    BY <1>4 DEF EnqueueReturn, Idle
  <2>2. arrivals' \in Nat
    BY <2>1, InvFacts
  <2> QED  BY <2>1, <2>2, QuietStepsKeepInv
<1>5. CASE UNCHANGED vars
  BY <1>5 DEF vars, Inv, IntTyped, OrderTracksQueues, CountCaps, Tracked, IsIntMap
<1> QED
  BY <1>1, <1>2, <1>3, <1>4, <1>5, AdmitKeepsInv, AdmitEvictingKeepsInv, TrimToCapKeepsInv,
     CapTrimmedKeepsInv, EnqueueStartKeepsInv, DrainKeepsInv
  DEF Next, EnqueueStep

LEMMA InvHolds == Spec => []Inv
BY InvInit, InvStep, PTL DEF Spec

-----------------------------------------------------------------------------
(* Sums.  The library's folds are recursive functions over the subsets of a  *)
(* finite set, which take an element after another by CHOOSE; what they add  *)
(* up to is shown by induction, in the form of a least counterexample.       *)

\* Every set of naturals that is not empty has a least element.
LEMMA Smallest ==
    ASSUME NEW T \in SUBSET Nat, T # {}
    PROVE  \E x \in T : \A y \in T : x <= y
<1> DEFINE R == OpToRel(<, Nat)
<1>1. IsWellFoundedOn(R, Nat)
  BY NatLessThanWellFounded
<1>2. \A y, x \in Nat : <<y, x>> \in R <=> y < x
  BY DEF OpToRel
<1> HIDE DEF R
<1>3. PICK x \in T : \A y \in T : ~(<<y, x>> \in R)
  BY <1>1, WFMin
<1>4. ASSUME NEW y \in T PROVE x <= y
  <2>1. x \in Nat /\ y \in Nat /\ ~(<<y, x>> \in R)
    BY <1>3
  <2>2. ~(y < x)
    BY <1>2, <2>1, Zenon
  <2> QED BY <2>1, <2>2
<1> QED BY <1>4

\* A set of naturals with 0, and with the successor of each, has them all.
LEMMA SetInduction ==
    ASSUME NEW T \in SUBSET Nat, 0 \in T, \A n \in T : n + 1 \in T
    PROVE  T = Nat
<1>1. CASE Nat \ T # {}
  <2>1. PICK x \in Nat \ T : \A y \in Nat \ T : x <= y
    BY <1>1, Smallest
  <2>2. x # 0 /\ x - 1 \in Nat /\ x - 1 \notin Nat \ T
    BY <2>1
  <2>3. (x - 1) + 1 \in T
    BY <2>2
  <2> QED BY <2>1, <2>3
<1> QED BY <1>1

\* g says of every subset of S what its weights add up to.
IsSum(g, w, S) ==
    /\ g \in [SUBSET S -> Int] /\ g[{}] = 0
    /\ \A s \in SUBSET S : \A x \in s : g[s] = w[x] + g[s \ {x}]

\* There is such a function, for every finite set.
LEMMA SumExists ==
    ASSUME NEW S, IsFiniteSet(S), NEW w, \A x \in S : w[x] \in Int
    PROVE  \E g \in [SUBSET S -> Int] : IsSum(g, w, S)
<1> DEFINE T == {n \in Nat : \A s \in SUBSET S : Cardinality(s) = n =>
                    \E g \in [SUBSET s -> Int] : IsSum(g, w, s)}
<1>1. 0 \in T
  <2> SUFFICES ASSUME NEW s \in SUBSET S, Cardinality(s) = 0
               PROVE  \E g \in [SUBSET s -> Int] : IsSum(g, w, s)
    OBVIOUS
  <2>1. IsFiniteSet(s)
    BY FS_Subset
  <2>2. s = {}
    BY <2>1, FS_EmptySet
  <2> DEFINE g == [u \in SUBSET s |-> 0]
  <2>3. g \in [SUBSET s -> Int] /\ IsSum(g, w, s)
    BY <2>2 DEF IsSum
  <2> QED BY <2>3
<1>2. ASSUME NEW n \in T PROVE n + 1 \in T
  <2>1. ASSUME NEW s \in SUBSET S, Cardinality(s) = n + 1
        PROVE  \E g \in [SUBSET s -> Int] : IsSum(g, w, s)
    <3>1. IsFiniteSet(s) /\ n \in Nat
      BY FS_Subset
    <3>2. PICK x : x \in s
      BY <2>1, <3>1, FS_EmptySet
    <3> DEFINE r == s \ {x}
    <3>3. r \in SUBSET S /\ Cardinality(r) = n
      <4>1. Cardinality(r) = Cardinality(s) - 1
        BY <3>1, <3>2, FS_RemoveElement
      <4> QED BY <2>1, <3>1, <4>1
    <3>4. PICK g \in [SUBSET r -> Int] : IsSum(g, w, r)
      BY <3>3
    <3> DEFINE h == [u \in SUBSET s |-> IF x \in u THEN w[x] + g[u \ {x}] ELSE g[u]]
    <3>5. w[x] \in Int /\ \A u \in SUBSET s : u \ {x} \in SUBSET r /\ (x \notin u => u \in SUBSET r)
      BY <3>2
    <3>6. h \in [SUBSET s -> Int]
      BY <3>5
    <3>7. h[{}] = 0
      BY <3>4 DEF IsSum
    <3>8. ASSUME NEW u \in SUBSET s, NEW y \in u PROVE h[u] = w[y] + h[u \ {y}]
      <4>1. u \ {y} \in SUBSET s /\ w[y] \in Int /\ h[u \ {y}] \in Int
        BY <3>6
      <4>2. CASE y = x
        <5>1. h[u] = w[x] + g[u \ {x}] /\ h[u \ {x}] = g[u \ {x}]
          BY <4>1, <4>2
        <5> QED BY <4>2, <5>1
      <4>3. CASE y # x /\ x \notin u
        <5>1. h[u] = g[u] /\ h[u \ {y}] = g[u \ {y}] /\ u \in SUBSET r
          BY <3>5, <4>1, <4>3
        <5> QED BY <3>4, <5>1 DEF IsSum
      <4>4. CASE y # x /\ x \in u
        <5>1. h[u] = w[x] + g[u \ {x}] /\ h[u \ {y}] = w[x] + g[(u \ {y}) \ {x}]
          BY <4>1, <4>4
        <5>2. u \ {x} \in SUBSET r /\ y \in u \ {x} /\ (u \ {y}) \ {x} = (u \ {x}) \ {y}
          BY <3>5, <4>4
        <5>3. g[u \ {x}] = w[y] + g[(u \ {x}) \ {y}]
          BY <3>4, <5>2 DEF IsSum
        <5>4. g[(u \ {x}) \ {y}] \in Int
          BY <5>2
        <5>5. h[u \ {y}] = w[x] + g[(u \ {x}) \ {y}]
          BY <5>1, <5>2
        <5> HIDE DEF h
        <5> QED BY <3>5, <4>1, <5>1, <5>3, <5>4, <5>5
      <4> QED BY <4>2, <4>3, <4>4
    <3> HIDE DEF h
    <3>9. IsSum(h, w, s)
      BY <3>6, <3>7, <3>8 DEF IsSum
    <3> QED BY <3>6, <3>9
  <2>2. n + 1 \in Nat
    OBVIOUS
  <2> QED BY <2>1, <2>2
<1>3. T = Nat
  <2> HIDE DEF T
  <2>1. T \in SUBSET Nat
    BY DEF T
  <2> QED BY <1>1, <1>2, <2>1, SetInduction
<1>4. Cardinality(S) \in Nat
  BY FS_CardinalityType
<1> QED BY <1>3, <1>4

\* it adds up by taking away one element after the other.
AddsUp(it, w, S) ==
    /\ it[{}] = 0
    /\ \A s \in SUBSET S : s # {} =>
          \E x \in s : it[s] = w[x] + it[s \ {x}] \/ it[s] = it[s \ {x}] + w[x]

\* Whoever adds up by taking away one element after the other comes to the same.
LEMMA SumUnique ==
    ASSUME NEW S, IsFiniteSet(S), NEW w, \A x \in S : w[x] \in Int,
           NEW g, IsSum(g, w, S), NEW it, AddsUp(it, w, S)
    PROVE  it[S] = g[S]
<1> DEFINE T == {n \in Nat : \A s \in SUBSET S : Cardinality(s) = n => it[s] = g[s]}
<1>1. 0 \in T
  <2>1. ASSUME NEW s \in SUBSET S, Cardinality(s) = 0 PROVE it[s] = g[s]
    <3>1. IsFiniteSet(s)
      BY FS_Subset
    <3>2. s = {}
      BY <2>1, <3>1, FS_EmptySet
    <3> QED BY <3>2 DEF IsSum, AddsUp
  <2> QED BY <2>1
<1>2. ASSUME NEW n \in T PROVE n + 1 \in T
  <2>1. ASSUME NEW s \in SUBSET S, Cardinality(s) = n + 1 PROVE it[s] = g[s]
    <3>1. IsFiniteSet(s) /\ n \in Nat
      BY FS_Subset
    <3>2. s # {}
      BY <2>1, <3>1, FS_EmptySet
    <3>3. PICK x \in s : it[s] = w[x] + it[s \ {x}] \/ it[s] = it[s \ {x}] + w[x]
      BY <3>2 DEF AddsUp
    <3>4. s \ {x} \in SUBSET S /\ Cardinality(s \ {x}) = n
      <4>1. Cardinality(s \ {x}) = Cardinality(s) - 1
        BY <3>1, FS_RemoveElement
      <4> QED BY <2>1, <3>1, <4>1
    <3>5. it[s \ {x}] = g[s \ {x}] /\ g[s] = w[x] + g[s \ {x}] /\ g[s \ {x}] \in Int
      BY <1>2, <3>4 DEF IsSum
    <3> QED BY <3>3, <3>5
  <2> QED BY <2>1
<1>3. T = Nat
  <2> HIDE DEF T
  <2>1. T \in SUBSET Nat
    BY DEF T
  <2> QED BY <1>1, <1>2, <2>1, SetInduction
<1>4. Cardinality(S) \in Nat
  BY FS_CardinalityType
<1> QED BY <1>3, <1>4

Pick(s) == CHOOSE x \in s : TRUE

\* The function that SumFunction recurs on, and that of SumOf.
Iterates(it, w, S) ==
    it = [s \in SUBSET S |-> IF s = {} THEN 0 ELSE w[Pick(s)] + it[s \ {Pick(s)}]]
IteratesBack(it, w, S) ==
    it = [s \in SUBSET S |-> IF s = {} THEN 0 ELSE it[s \ {Pick(s)}] + w[Pick(s)]]

LEMMA IterationEnds ==
    ASSUME NEW S, IsFiniteSet(S), NEW w, \A x \in S : w[x] \in Int, NEW g, IsSum(g, w, S)
    PROVE  /\ (CHOOSE it : Iterates(it, w, S))[S] = g[S]
           /\ IteratesBack(g, w, S)
           /\ \A it : IteratesBack(it, w, S) => it[S] = g[S]
<1>1. \A s \in SUBSET S : s # {} => Pick(s) \in s
  BY DEF Pick
<1>2. \A s \in SUBSET S : s # {} => g[s] = w[Pick(s)] + g[s \ {Pick(s)}]
  BY <1>1 DEF IsSum
<1>3. \A s \in SUBSET S : s # {} => g[s] = g[s \ {Pick(s)}] + w[Pick(s)]
  <2> SUFFICES ASSUME NEW s \in SUBSET S, s # {} PROVE g[s] = g[s \ {Pick(s)}] + w[Pick(s)]
    OBVIOUS
  <2>1. w[Pick(s)] \in Int /\ g[s \ {Pick(s)}] \in Int
    BY <1>1 DEF IsSum
  <2> QED BY <1>2, <2>1
<1>4. Iterates(g, w, S) /\ IteratesBack(g, w, S)
  BY <1>2, <1>3 DEF Iterates, IteratesBack, IsSum
<1>5. ASSUME NEW it, Iterates(it, w, S) PROVE it[S] = g[S]
  <2>1. it[{}] = 0
    BY <1>5 DEF Iterates
  <2>2. ASSUME NEW s \in SUBSET S, s # {}
        PROVE  \E x \in s : it[s] = w[x] + it[s \ {x}] \/ it[s] = it[s \ {x}] + w[x]
    <3>1. it[s] = w[Pick(s)] + it[s \ {Pick(s)}]
      BY <1>5, <2>2 DEF Iterates
    <3> QED BY <1>1, <2>2, <3>1
  <2>3. AddsUp(it, w, S)
    BY <2>1, <2>2 DEF AddsUp
  <2> QED BY <2>3, SumUnique
<1>6. ASSUME NEW it, IteratesBack(it, w, S) PROVE it[S] = g[S]
  <2>1. it[{}] = 0
    BY <1>6 DEF IteratesBack
  <2>2. ASSUME NEW s \in SUBSET S, s # {}
        PROVE  \E x \in s : it[s] = w[x] + it[s \ {x}] \/ it[s] = it[s \ {x}] + w[x]
    <3>1. it[s] = it[s \ {Pick(s)}] + w[Pick(s)]
      BY <1>6, <2>2 DEF IteratesBack
    <3> QED BY <1>1, <2>2, <3>1
  <2>3. AddsUp(it, w, S)
    BY <2>1, <2>2 DEF AddsUp
  <2> QED BY <2>3, SumUnique
<1> QED BY <1>4, <1>5, <1>6

\* SumFunctionOnSet adds up.
LEMMA SumFunctionOnSetIsSum ==
    ASSUME NEW S, IsFiniteSet(S), NEW w, \A x \in S : w[x] \in Int, NEW g, IsSum(g, w, S)
    PROVE  SumFunctionOnSet(w, S) = g[S]
<1>1. SumFunctionOnSet(w, S) = (CHOOSE it : Iterates(it, w, S))[S]
  BY DEF SumFunctionOnSet, FoldFunctionOnSet, MapThenFoldSet, Iterates, Pick
<1> QED BY <1>1, IterationEnds

\* A sum is any of its terms and the sum of the others.
LEMMA SumProperties ==
    ASSUME NEW S, IsFiniteSet(S), NEW w, \A x \in S : w[x] \in Int
    PROVE  /\ SumFunctionOnSet(w, S) \in Int
           /\ SumFunctionOnSet(w, {}) = 0
           /\ \A x \in S : /\ SumFunctionOnSet(w, S \ {x}) \in Int
                           /\ SumFunctionOnSet(w, S) = w[x] + SumFunctionOnSet(w, S \ {x})
<1>1. PICK g \in [SUBSET S -> Int] : IsSum(g, w, S)
  BY SumExists
<1>2. SumFunctionOnSet(w, S) = g[S]
  BY <1>1, SumFunctionOnSetIsSum
<1>3. ASSUME NEW R \in SUBSET S PROVE SumFunctionOnSet(w, R) = g[R]
  <2> DEFINE h == [u \in SUBSET R |-> g[u]]
  <2>1. IsFiniteSet(R)
    BY FS_Subset
  <2>2. IsSum(h, w, R)
    BY <1>1 DEF IsSum
  <2>3. h[R] = g[R]
    OBVIOUS
  <2> HIDE DEF h
  <2>4. \A x \in R : w[x] \in Int
    OBVIOUS
  <2> QED BY <2>1, <2>2, <2>3, <2>4, SumFunctionOnSetIsSum
<1>4. g[{}] = 0 /\ \A x \in S : g[S] = w[x] + g[S \ {x}]
  BY <1>1 DEF IsSum
<1>5. SumFunctionOnSet(w, {}) = 0
  BY <1>3, <1>4
<1>6. ASSUME NEW x \in S
      PROVE  /\ SumFunctionOnSet(w, S \ {x}) \in Int
             /\ SumFunctionOnSet(w, S) = w[x] + SumFunctionOnSet(w, S \ {x})
  <2>1. SumFunctionOnSet(w, S \ {x}) = g[S \ {x}]
    BY <1>3
  <2> QED BY <1>2, <1>4, <2>1
<1> QED BY <1>2, <1>5, <1>6

\* Equal terms, equal sums.
LEMMA SumAgrees ==
    ASSUME NEW S, IsFiniteSet(S), NEW w, \A x \in S : w[x] \in Int,
           NEW v, \A x \in S : v[x] = w[x]
    PROVE  SumFunctionOnSet(v, S) = SumFunctionOnSet(w, S)
<1>1. PICK g \in [SUBSET S -> Int] : IsSum(g, w, S)
  BY SumExists
<1>2. IsSum(g, v, S)
  BY <1>1 DEF IsSum
<1>3. \A x \in S : v[x] \in Int
  OBVIOUS
<1> QED BY <1>1, <1>2, <1>3, SumFunctionOnSetIsSum

\* One more term.
LEMMA SumInsert ==
    ASSUME NEW S, IsFiniteSet(S), NEW x, x \notin S, NEW w, \A y \in S \cup {x} : w[y] \in Int
    PROVE  SumFunctionOnSet(w, S \cup {x}) = w[x] + SumFunctionOnSet(w, S)
<1>1. IsFiniteSet(S \cup {x}) /\ (S \cup {x}) \ {x} = S
  BY FS_AddElement
<1> QED BY <1>1, SumProperties

\* One term differs.
LEMMA SumChanges ==
    ASSUME NEW S, IsFiniteSet(S), NEW x \in S, NEW w, \A y \in S : w[y] \in Int,
           NEW v, v[x] \in Int, \A y \in S \ {x} : v[y] = w[y]
    PROVE  SumFunctionOnSet(v, S) = SumFunctionOnSet(w, S) - w[x] + v[x]
<1>1. IsFiniteSet(S \ {x})
  BY FS_RemoveElement
<1>2. SumFunctionOnSet(v, S \ {x}) = SumFunctionOnSet(w, S \ {x})
  BY <1>1, SumAgrees
<1>3. SumFunctionOnSet(w, S) = w[x] + SumFunctionOnSet(w, S \ {x})
  BY SumProperties
<1>4. \A y \in S : v[y] \in Int
  OBVIOUS
<1>5. SumFunctionOnSet(v, S) = v[x] + SumFunctionOnSet(v, S \ {x})
  BY <1>4, SumProperties
<1>6. SumFunctionOnSet(w, S \ {x}) \in Int
  BY SumProperties
<1> QED BY <1>2, <1>3, <1>5, <1>6

\* The terms may be counted under other names.
LEMMA SumRenamed ==
    ASSUME NEW S, NEW T, IsFiniteSet(S), IsFiniteSet(T), NEW w, \A x \in T : w[x] \in Int,
           NEW f \in [S -> T], \A x, y \in S : f[x] = f[y] => x = y,
           \A z \in T : \E x \in S : f[x] = z,
           NEW v, \A x \in S : v[x] = w[f[x]]
    PROVE  SumFunctionOnSet(v, S) = SumFunctionOnSet(w, T)
<1>1. PICK g \in [SUBSET T -> Int] : IsSum(g, w, T)
  BY SumExists
<1> DEFINE Image(u) == {f[x] : x \in u}
           h == [u \in SUBSET S |-> g[Image(u)]]
<1>2. \A u \in SUBSET S : Image(u) \in SUBSET T
  OBVIOUS
<1>3. ASSUME NEW u \in SUBSET S, NEW x \in u
      PROVE  Image(u \ {x}) = Image(u) \ {f[x]} /\ f[x] \in Image(u)
  OBVIOUS
<1>4. Image({}) = {} /\ Image(S) = T
  OBVIOUS
<1>5. IsSum(h, v, S)
  <2>1. h \in [SUBSET S -> Int]
    BY <1>2
  <2>2. h[{}] = 0
    BY <1>1, <1>4 DEF IsSum
  <2>3. ASSUME NEW u \in SUBSET S, NEW x \in u PROVE h[u] = v[x] + h[u \ {x}]
    <3>1. g[Image(u)] = w[f[x]] + g[Image(u) \ {f[x]}]
      BY <1>1, <1>2, <1>3 DEF IsSum
    <3>2. h[u] = g[Image(u)] /\ h[u \ {x}] = g[Image(u) \ {f[x]}] /\ v[x] = w[f[x]]
      BY <1>3
    <3> HIDE DEF h, Image
    <3> QED BY <3>1, <3>2
  <2> HIDE DEF h
  <2> QED BY <2>1, <2>2, <2>3 DEF IsSum
<1>6. h[S] = g[T]
  BY <1>4
<1> HIDE DEF h
<1>7. \A x \in S : v[x] \in Int
  OBVIOUS
<1> QED BY <1>1, <1>5, <1>6, <1>7, SumFunctionOnSetIsSum

\* Where no term is negative the sum is no less than any of them.
LEMMA SumBounds ==
    ASSUME NEW S, IsFiniteSet(S), NEW w, \A x \in S : w[x] \in Nat
    PROVE  /\ SumFunctionOnSet(w, S) \in Nat
           /\ \A x \in S : w[x] <= SumFunctionOnSet(w, S)
           /\ (\A x \in S : w[x] = 0) => SumFunctionOnSet(w, S) = 0
<1>0. \A x \in S : w[x] \in Int
  OBVIOUS
<1>1. PICK g \in [SUBSET S -> Int] : IsSum(g, w, S)
  BY <1>0, SumExists
<1> DEFINE T == {n \in Nat : \A s \in SUBSET S : Cardinality(s) = n => g[s] \in Nat}
<1>2. 0 \in T
  <2>1. ASSUME NEW s \in SUBSET S, Cardinality(s) = 0 PROVE g[s] \in Nat
    <3>1. IsFiniteSet(s)
      BY FS_Subset
    <3>2. s = {}
      BY <2>1, <3>1, FS_EmptySet
    <3> QED BY <1>1, <3>2 DEF IsSum
  <2> QED BY <2>1
<1>3. ASSUME NEW n \in T PROVE n + 1 \in T
  <2>1. ASSUME NEW s \in SUBSET S, Cardinality(s) = n + 1 PROVE g[s] \in Nat
    <3>1. IsFiniteSet(s) /\ n \in Nat
      BY FS_Subset
    <3>2. s # {}
      BY <2>1, <3>1, FS_EmptySet
    <3>3. PICK x : x \in s
      BY <3>2
    <3>4. s \ {x} \in SUBSET S /\ Cardinality(s \ {x}) = n
      <4>1. Cardinality(s \ {x}) = Cardinality(s) - 1
        BY <3>1, <3>3, FS_RemoveElement
      <4> QED BY <2>1, <3>1, <4>1
    <3>5. g[s \ {x}] \in Nat /\ w[x] \in Nat /\ g[s] = w[x] + g[s \ {x}]
      BY <1>1, <1>3, <3>3, <3>4 DEF IsSum
    <3> QED BY <3>5
  <2> QED BY <2>1
<1>4. T = Nat
  <2> HIDE DEF T
  <2>1. T \in SUBSET Nat
    BY DEF T
  <2> QED BY <1>2, <1>3, <2>1, SetInduction
<1>5. \A s \in SUBSET S : g[s] \in Nat
  <2> SUFFICES ASSUME NEW s \in SUBSET S PROVE g[s] \in Nat
    OBVIOUS
  <2>1. Cardinality(s) \in T
    <3> HIDE DEF T
    <3> QED BY <1>4, FS_Subset, FS_CardinalityType
  <2> QED BY <2>1
<1>6. SumFunctionOnSet(w, S) = g[S]
  BY <1>1, SumFunctionOnSetIsSum
<1>7. ASSUME NEW x \in S PROVE w[x] <= g[S]
  <2>1. g[S] = w[x] + g[S \ {x}] /\ g[S \ {x}] \in Nat
    BY <1>1, <1>5 DEF IsSum
  <2> QED BY <1>5, <2>1
<1>8. ASSUME \A x \in S : w[x] = 0 PROVE SumFunctionOnSet(w, S) = 0
  <2> DEFINE z == [u \in SUBSET S |-> 0]
  <2>1. IsSum(z, w, S) /\ z[S] = 0
    BY <1>8 DEF IsSum
  <2> HIDE DEF z
  <2> QED BY <2>1, SumFunctionOnSetIsSum
<1> QED BY <1>5, <1>6, <1>7, <1>8

-----------------------------------------------------------------------------
(* The bytes of a kind in a sequence of messages.                          *)

Weight(m, k) == IF m.kind = k THEN m.bytes ELSE 0
Weights(ms, k) == [i \in DOMAIN ms |-> Weight(ms[i], k)]

\* SumOf is the sum of the weights.
LEMMA SumOfIsSum ==
    ASSUME NEW ms \in Seq(Message), NEW k
    PROVE  /\ SumOf(ms, k) = SumFunctionOnSet(Weights(ms, k), 1..Len(ms))
           /\ IsFiniteSet(1..Len(ms)) /\ Len(ms) \in Nat
           /\ \A i \in 1..Len(ms) : Weights(ms, k)[i] = Weight(ms[i], k) /\ Weight(ms[i], k) \in Nat
<1> DEFINE S == 1..Len(ms)
           w == Weights(ms, k)
<1>1. DOMAIN ms = S /\ Len(ms) \in Nat /\ \A i \in S : ms[i] \in Message
  OBVIOUS
<1>2. IsFiniteSet(S)
  BY <1>1, FS_Interval
<1>3. \A i \in S : w[i] = Weight(ms[i], k) /\ Weight(ms[i], k) \in Nat
  BY <1>1, MessageTyped DEF Weights, Weight
<1>4. \A i \in S : w[i] \in Int
  BY <1>3
<1>5. PICK g \in [SUBSET S -> Int] : IsSum(g, w, S)
  <2> HIDE DEF S, w
  <2> QED BY <1>2, <1>4, SumExists
<1>6. SumOf(ms, k) = (CHOOSE it : it = [s \in SUBSET DOMAIN ms |->
          IF s = {} THEN 0
          ELSE it[s \ {CHOOSE x \in s : TRUE}]
               + (IF ms[CHOOSE x \in s : TRUE].kind = k THEN ms[CHOOSE x \in s : TRUE].bytes ELSE 0)])[DOMAIN ms]
  BY DEF SumOf, FoldSeq, FoldFunction, FoldFunctionOnSet, MapThenFoldSet
<1>7. SumOf(ms, k) = g[S]
  <2> DEFINE Folds(it) ==
        it = [s \in SUBSET DOMAIN ms |->
                IF s = {} THEN 0
                ELSE it[s \ {CHOOSE x \in s : TRUE}]
                     + (IF ms[CHOOSE x \in s : TRUE].kind = k
                        THEN ms[CHOOSE x \in s : TRUE].bytes ELSE 0)]
  <2>1. ASSUME NEW it PROVE Folds(it) <=> IteratesBack(it, w, S)
    <3>1. ASSUME NEW s \in SUBSET S, s # {}
          PROVE  w[Pick(s)] = IF ms[Pick(s)].kind = k THEN ms[Pick(s)].bytes ELSE 0
      <4>1. Pick(s) \in S
        BY <3>1 DEF Pick
      <4> QED BY <1>3, <4>1 DEF Weight
    <3> HIDE DEF S, w
    <3>2. [s \in SUBSET S |->
             IF s = {} THEN 0
             ELSE it[s \ {Pick(s)}]
                  + (IF ms[Pick(s)].kind = k THEN ms[Pick(s)].bytes ELSE 0)]
          = [s \in SUBSET S |-> IF s = {} THEN 0 ELSE it[s \ {Pick(s)}] + w[Pick(s)]]
      BY <3>1
    <3>3. Folds(it) <=>
          it = [s \in SUBSET S |->
                  IF s = {} THEN 0
                  ELSE it[s \ {Pick(s)}]
                       + (IF ms[Pick(s)].kind = k THEN ms[Pick(s)].bytes ELSE 0)]
      BY <1>1, Zenon DEF Pick
    <3> QED BY <3>2, <3>3 DEF IteratesBack
  <2>2. SumOf(ms, k) = (CHOOSE it : Folds(it))[DOMAIN ms]
    BY <1>6
  <2> HIDE DEF S, w, Folds
  <2>3. IteratesBack(g, w, S) /\ \A it : IteratesBack(it, w, S) => it[S] = g[S]
    BY <1>2, <1>4, <1>5, IterationEnds
  <2>4. Folds(CHOOSE it : Folds(it))
    BY <2>1, <2>3
  <2> QED BY <1>1, <2>1, <2>2, <2>3, <2>4
<1>8. SumFunctionOnSet(w, S) = g[S]
  <2> HIDE DEF S, w
  <2> QED BY <1>2, <1>4, <1>5, SumFunctionOnSetIsSum
<1> QED BY <1>1, <1>2, <1>3, <1>7, <1>8

\* The sum is a natural number, at least the weight of each message, and 0 where
\* no message is of the kind.
LEMMA SumOfBounds ==
    ASSUME NEW ms \in Seq(Message), NEW k
    PROVE  /\ SumOf(ms, k) \in Nat
           /\ \A i \in 1..Len(ms) : Weight(ms[i], k) <= SumOf(ms, k)
           /\ (\A i \in 1..Len(ms) : ms[i].kind # k) => SumOf(ms, k) = 0
<1> DEFINE S == 1..Len(ms)
           w == Weights(ms, k)
<1>1. /\ SumOf(ms, k) = SumFunctionOnSet(w, S)
      /\ IsFiniteSet(S)
      /\ \A i \in S : w[i] = Weight(ms[i], k) /\ Weight(ms[i], k) \in Nat
  BY SumOfIsSum
<1>2. (\A i \in S : ms[i].kind # k) => \A i \in S : w[i] = 0
  BY <1>1 DEF Weight
<1> HIDE DEF S, w
<1>3. \A i \in S : w[i] \in Nat
  BY <1>1
<1>4. /\ SumFunctionOnSet(w, S) \in Nat
      /\ \A i \in S : w[i] <= SumFunctionOnSet(w, S)
      /\ (\A i \in S : w[i] = 0) => SumFunctionOnSet(w, S) = 0
  BY <1>1, <1>3, SumBounds
<1> QED BY <1>1, <1>2, <1>4 DEF S

LEMMA SumOfEmpty == ASSUME NEW k PROVE SumOf(<<>>, k) = 0
<1> DEFINE e == <<>>
<1>1. e \in Seq(Message) /\ Len(e) = 0
  BY EmptySeq
<1> HIDE DEF e
<1>2. \A i \in 1..Len(e) : e[i].kind # k
  BY <1>1
<1>3. SumOf(e, k) = 0
  BY <1>1, <1>2, SumOfBounds
<1> QED BY <1>3 DEF e

\* VecDeque::push_back adds the weight of what it pushes.
LEMMA SumOfAppend ==
    ASSUME NEW ms \in Seq(Message), NEW m \in Message, NEW k
    PROVE  SumOf(Append(ms, m), k) = SumOf(ms, k) + Weight(m, k)
<1> DEFINE S == 1..Len(ms)
           n == Len(ms) + 1
           ext == Append(ms, m)
           w == Weights(ms, k)
           v == Weights(ext, k)
<1>1. /\ ext \in Seq(Message)
      /\ Len(ext) = n
      /\ Len(ms) \in Nat
      /\ ext[n] = m
      /\ \A i \in S : ext[i] = ms[i]
  BY AppendProperties, LenProperties
<1> HIDE DEF ext
<1>2. /\ SumOf(ms, k) = SumFunctionOnSet(w, S) /\ IsFiniteSet(S)
      /\ \A i \in S : w[i] = Weight(ms[i], k) /\ Weight(ms[i], k) \in Nat
  BY SumOfIsSum
<1>3. /\ SumOf(ext, k) = SumFunctionOnSet(v, 1..n)
      /\ \A i \in 1..n : v[i] = Weight(ext[i], k) /\ v[i] \in Nat
  BY <1>1, SumOfIsSum
<1>4. 1..n = S \cup {n} /\ n \notin S
  BY <1>1
<1>5. v[n] = Weight(m, k) /\ \A i \in S : v[i] = w[i]
  BY <1>1, <1>2, <1>3, <1>4
<1> HIDE DEF S, n, w, v
<1>6. \A i \in S \cup {n} : v[i] \in Int
  BY <1>3, <1>4
<1>7. SumFunctionOnSet(v, S \cup {n}) = v[n] + SumFunctionOnSet(v, S)
  BY <1>2, <1>4, <1>6, SumInsert
<1>8. SumFunctionOnSet(v, S) = SumFunctionOnSet(w, S) /\ SumFunctionOnSet(w, S) \in Int
  <2>1. \A i \in S : w[i] \in Int
    BY <1>2
  <2> QED BY <1>2, <1>5, <2>1, SumAgrees, SumProperties
<1>9. v[n] \in Int
  BY <1>6
<1>10. SumOf(ext, k) = SumOf(ms, k) + v[n]
  <2>1. SumOf(ext, k) = SumFunctionOnSet(v, S \cup {n})
    BY <1>3, <1>4, Zenon
  <2> QED BY <1>2, <1>7, <1>8, <1>9, <2>1
<1> QED BY <1>5, <1>10 DEF ext

\* VecDeque::remove takes off the weight of what it removes.
LEMMA SumOfRemoveAt ==
    ASSUME NEW ms \in Seq(Message), NEW i \in 1..Len(ms), NEW k
    PROVE  SumOf(RemoveAt(ms, i), k) = SumOf(ms, k) - Weight(ms[i], k)
<1> DEFINE left == RemoveAt(ms, i)
           S == 1..(Len(ms) - 1)
           R == (1..Len(ms)) \ {i}
           up == [j \in S |-> IF j < i THEN j ELSE j + 1]
           w == Weights(ms, k)
           v == Weights(left, k)
<1>1. /\ left \in Seq(Message) /\ Len(left) = Len(ms) - 1
      /\ \A j \in S : left[j] = IF j < i THEN ms[j] ELSE ms[j + 1]
  BY RemoveAtProperties
<1>2. Len(ms) \in Nat
  BY LenProperties
<1>3. /\ SumOf(ms, k) = SumFunctionOnSet(w, 1..Len(ms)) /\ IsFiniteSet(1..Len(ms))
      /\ \A j \in 1..Len(ms) : w[j] = Weight(ms[j], k) /\ w[j] \in Nat
  BY SumOfIsSum
<1> HIDE DEF left
<1>4. /\ SumOf(left, k) = SumFunctionOnSet(v, S) /\ IsFiniteSet(S)
      /\ \A j \in S : v[j] = Weight(left[j], k)
  BY <1>1, SumOfIsSum
<1>5. /\ up \in [S -> R]
      /\ \A a, b \in S : up[a] = up[b] => a = b
      /\ \A z \in R : \E a \in S : up[a] = z
  <2>1. up \in [S -> R] /\ \A a, b \in S : up[a] = up[b] => a = b
    BY <1>2
  <2>2. ASSUME NEW z \in R PROVE \E a \in S : up[a] = z
    <3>1. CASE z < i
      BY <1>2, <3>1
    <3>2. CASE z > i
      <4>1. z - 1 \in S /\ up[z - 1] = z
        BY <1>2, <3>2
      <4> HIDE DEF up, S
      <4> QED BY <4>1
    <3> QED BY <1>2, <3>1, <3>2
  <2> QED BY <2>1, <2>2
<1>6. \A j \in S : v[j] = w[up[j]]
  <2> SUFFICES ASSUME NEW j \in S PROVE v[j] = w[up[j]]
    OBVIOUS
  <2>1. left[j] = ms[up[j]] /\ up[j] \in 1..Len(ms)
    BY <1>1, <1>2
  <2> HIDE DEF up, S, w, v
  <2> QED BY <1>3, <1>4, <2>1
<1>7. IsFiniteSet(R) /\ \A j \in R : w[j] \in Int
  BY <1>3, FS_RemoveElement
<1>8. SumFunctionOnSet(v, S) = SumFunctionOnSet(w, R)
  <2> HIDE DEF up, S, R, w, v
  <2> QED BY <1>4, <1>5, <1>6, <1>7, SumRenamed
<1>9. /\ SumFunctionOnSet(w, 1..Len(ms)) = w[i] + SumFunctionOnSet(w, R)
      /\ SumFunctionOnSet(w, R) \in Int
  <2>1. \A j \in 1..Len(ms) : w[j] \in Int
    BY <1>3
  <2> HIDE DEF w
  <2> QED BY <1>3, <2>1, SumProperties
<1>10. w[i] = Weight(ms[i], k) /\ w[i] \in Int
  BY <1>3
<1> HIDE DEF S, R, w, v
<1> QED BY <1>3, <1>4, <1>8, <1>9, <1>10 DEF left

-----------------------------------------------------------------------------
(* The byte budget: what the loops keep.                                   *)

\* The counters of a queue map are what a scan of its messages would find.
ExactQueues(q) == \A u \in DOMAIN q : \A k \in Kind : q[u].bytes[k] = SumOf(q[u].messages, k)

Total(q, k) == SumFunction([u \in DOMAIN q |-> q[u].bytes[k]])

\* The running call fits, and each loop exits with the room it is there to make.
BytesInv ==
    /\ CountersExact
    /\ ByteCeilings
    /\ call # Idle => Fits(call.msg)
    /\ call.pc \in {"make_room", "admit"} => ~OverUserBudget
    /\ call.pc = "admit" => ~OverBudget

-----------------------------------------------------------------------------
(* The outcome: what the call in progress has cost so far.                 *)

\* No message is queued twice.
Distinct(q) ==
    /\ \A u \in DOMAIN q : Injective(q[u].messages)
    /\ \A u, v \in DOMAIN q : u # v => ToSet(q[u].messages) \cap ToSet(q[v].messages) = {}

Older(q, id) == \A u \in DOMAIN q : \A m \in ToSet(q[u].messages) : m.id < id

Admitted == call.pc \in {"trim_to_cap", "done"}

Has(u) == IF u \in Tracked THEN ToSet(queues[u].messages) ELSE {}
Had(u) == IF u \in DOMAIN call.before THEN ToSet(call.before[u].messages) ELSE {}

LostOutside(S) == UNION {LostBy(u) : u \in User \ S}

\* A queue holds what it held, and the message once it is admitted.
NothingAppears ==
    /\ Distinct(call.before)
    /\ Older(call.before, call.msg.id)
    /\ call.msg.id < arrivals
    /\ \A u \in User : Has(u) \subseteq
          Had(u) \cup (IF Admitted /\ u = call.user THEN {call.msg} ELSE {})
    /\ ~Admitted => call.evicted = {}
    /\ Admitted => /\ call.user \in Tracked
                   /\ Last(queues[call.user].messages) = call.msg
    /\ call.evicted \cap Tracked = {}

DropsCounted ==
    /\ IsFiniteSet(LostOutside({}))
    /\ Cardinality(LostOutside(call.evicted)) <= call.displaced + call.trimmed
    /\ call.displaced + call.trimmed <= Cardinality(LostOutside({}))

\* What v holds of the call's kind, the admitted message set aside.
LeftTo(v) == Held(v, call.msg.kind) - (IF Admitted /\ v = call.user THEN call.msg.bytes ELSE 0)

BiggestPay ==
    \A u \in User \ ({call.user} \cup call.evicted) :
        /\ u \in Tracked => /\ u \in DOMAIN call.before
                            /\ Held(u, call.msg.kind) <= call.before[u].bytes[call.msg.kind]
        /\ LostBy(u) # {} =>
             \A v \in User : LeftTo(v) <= call.before[u].bytes[call.msg.kind]

HistoryInv ==
    /\ Distinct(queues)
    /\ Older(queues, arrivals)
    /\ call # Idle => NothingAppears /\ DropsCounted /\ BiggestPay

-----------------------------------------------------------------------------
(* The counters stay exact.                                                *)

LEMMA ExactFacts ==
    CountersExact <=> ExactQueues(queues) /\ \A k \in Kind : bytes[k] = Total(queues, k)
BY DEF CountersExact, ExactQueues, Total, Tracked

LEMMA TotalIsSum ==
    ASSUME NEW q, NEW k
    PROVE  Total(q, k) = SumFunctionOnSet([u \in DOMAIN q |-> q[u].bytes[k]], DOMAIN q)
BY DEF Total, SumFunction

\* Taking a user's entry out takes its counter off the total.
LEMMA TotalWithout ==
    ASSUME NEW q, IsFiniteSet(DOMAIN q), NEW k, \A v \in DOMAIN q : q[v].bytes[k] \in Int,
           NEW u \in DOMAIN q
    PROVE  /\ Total([v \in DOMAIN q \ {u} |-> q[v]], k) = Total(q, k) - q[u].bytes[k]
           /\ Total(q, k) \in Int
<1> DEFINE r == [v \in DOMAIN q \ {u} |-> q[v]]
           w == [v \in DOMAIN q |-> q[v].bytes[k]]
           x == [v \in DOMAIN r |-> r[v].bytes[k]]
           S == DOMAIN q
<1>1. DOMAIN r = S \ {u} /\ \A v \in S \ {u} : x[v] = w[v]
  OBVIOUS
<1>2. \A v \in S : w[v] \in Int
  OBVIOUS
<1>3. Total(q, k) = SumFunctionOnSet(w, S)
  BY TotalIsSum
<1>4. Total(r, k) = SumFunctionOnSet(x, DOMAIN r)
  BY TotalIsSum
<1>5. w[u] = q[u].bytes[k]
  OBVIOUS
<1> HIDE DEF r, w, x, S
<1>6. u \in S /\ IsFiniteSet(S) /\ IsFiniteSet(S \ {u}) /\ \A v \in S \ {u} : w[v] \in Int
  BY <1>2, FS_RemoveElement DEF S
<1>7. SumFunctionOnSet(x, S \ {u}) = SumFunctionOnSet(w, S \ {u})
  BY <1>1, <1>6, SumAgrees
<1>8. /\ SumFunctionOnSet(w, S) = w[u] + SumFunctionOnSet(w, S \ {u})
      /\ SumFunctionOnSet(w, S \ {u}) \in Int
  BY <1>2, <1>6, SumProperties
<1>9. Total(r, k) = SumFunctionOnSet(w, S \ {u})
  BY <1>1, <1>4, <1>7, Zenon
<1>10. Total(r, k) = Total(q, k) - w[u] /\ Total(q, k) \in Int
  BY <1>2, <1>3, <1>6, <1>8, <1>9
<1> QED BY <1>5, <1>10 DEF r

\* Putting an entry in adds its counter to the total.
LEMMA TotalWith ==
    ASSUME NEW q, IsFiniteSet(DOMAIN q), NEW k, \A v \in DOMAIN q : q[v].bytes[k] \in Int,
           NEW r, NEW u \in DOMAIN r, u \notin DOMAIN q, r[u].bytes[k] \in Int,
           DOMAIN q = DOMAIN r \ {u}, \A v \in DOMAIN q : r[v] = q[v]
    PROVE  Total(r, k) = Total(q, k) + r[u].bytes[k]
<1> DEFINE t == [v \in DOMAIN r \ {u} |-> r[v]]
           w == [v \in DOMAIN q |-> q[v].bytes[k]]
           x == [v \in DOMAIN t |-> t[v].bytes[k]]
<1>1. DOMAIN t = DOMAIN q /\ \A v \in DOMAIN q : x[v] = w[v] /\ w[v] \in Int
  OBVIOUS
<1>2. IsFiniteSet(DOMAIN r) /\ u \in DOMAIN r /\ \A v \in DOMAIN r : r[v].bytes[k] \in Int
  <2>1. IsFiniteSet(DOMAIN q \cup {u}) /\ DOMAIN q \cup {u} = DOMAIN r
    BY FS_AddElement
  <2> QED BY <2>1, Zenon
<1>3. Total(t, k) = Total(r, k) - r[u].bytes[k] /\ Total(r, k) \in Int
  BY <1>2, TotalWithout
<1>4. Total(t, k) = SumFunctionOnSet(x, DOMAIN t) /\ Total(q, k) = SumFunctionOnSet(w, DOMAIN q)
  BY TotalIsSum
<1> HIDE DEF t, w, x
<1>5. SumFunctionOnSet(x, DOMAIN q) = SumFunctionOnSet(w, DOMAIN q)
  BY <1>1, SumAgrees
<1>6. Total(t, k) = Total(q, k)
  BY <1>1, <1>4, <1>5, Zenon
<1> QED BY <1>3, <1>6

\* Replacing an entry replaces its counter.
LEMMA TotalExcept ==
    ASSUME NEW q, IsFiniteSet(DOMAIN q), NEW k, \A v \in DOMAIN q : q[v].bytes[k] \in Int,
           NEW u \in DOMAIN q, NEW r, r[u].bytes[k] \in Int,
           DOMAIN r = DOMAIN q, \A v \in DOMAIN q \ {u} : r[v] = q[v]
    PROVE  Total(r, k) = Total(q, k) - q[u].bytes[k] + r[u].bytes[k]
<1> DEFINE t == [v \in DOMAIN q \ {u} |-> q[v]]
           x == [v \in DOMAIN r \ {u} |-> r[v]]
<1>1. x = t
  OBVIOUS
<1>2. Total(t, k) = Total(q, k) - q[u].bytes[k] /\ Total(q, k) \in Int
  BY TotalWithout
<1>3. IsFiniteSet(DOMAIN r) /\ u \in DOMAIN r /\ \A v \in DOMAIN r : r[v].bytes[k] \in Int
  OBVIOUS
<1>4. Total(x, k) = Total(r, k) - r[u].bytes[k] /\ Total(r, k) \in Int
  BY <1>3, TotalWithout
<1> HIDE DEF t, x
<1>5. Total(r, k) = Total(t, k) + r[u].bytes[k]
  BY <1>1, <1>4
<1> QED BY <1>2, <1>5

\* The total is at least every counter, and 0 where they all are.
LEMMA TotalBounds ==
    ASSUME NEW q, IsFiniteSet(DOMAIN q), NEW k, \A v \in DOMAIN q : q[v].bytes[k] \in Nat
    PROVE  /\ Total(q, k) \in Nat
           /\ \A v \in DOMAIN q : q[v].bytes[k] <= Total(q, k)
           /\ (\A v \in DOMAIN q : q[v].bytes[k] = 0) => Total(q, k) = 0
<1> DEFINE w == [v \in DOMAIN q |-> q[v].bytes[k]]
<1>1. \A v \in DOMAIN q : w[v] = q[v].bytes[k] /\ w[v] \in Nat
  OBVIOUS
<1>2. Total(q, k) = SumFunctionOnSet(w, DOMAIN q)
  BY TotalIsSum
<1> HIDE DEF w
<1>3. /\ SumFunctionOnSet(w, DOMAIN q) \in Nat
      /\ \A v \in DOMAIN q : w[v] <= SumFunctionOnSet(w, DOMAIN q)
      /\ (\A v \in DOMAIN q : w[v] = 0) => SumFunctionOnSet(w, DOMAIN q) = 0
  BY <1>1, SumBounds
<1> QED BY <1>1, <1>2, <1>3

\* Exact counters are natural numbers, positive only where a message is of the kind.
LEMMA ExactCounters ==
    ASSUME NEW q, IsIntMap(q), ExactQueues(q), NEW u \in DOMAIN q, NEW k \in Kind
    PROVE  /\ q[u].messages \in Seq(Message)
           /\ q[u].bytes[k] \in Nat
           /\ q[u].bytes[k] > 0 => \E i \in DOMAIN q[u].messages : q[u].messages[i].kind = k
<1>1. q[u].messages \in Seq(Message) /\ q[u].bytes[k] = SumOf(q[u].messages, k)
  BY DEF IsIntMap, IntQueue, ExactQueues
<1>2. DOMAIN q[u].messages = 1..Len(q[u].messages)
  BY <1>1, LenProperties
<1>3. /\ SumOf(q[u].messages, k) \in Nat
      /\ (\A i \in 1..Len(q[u].messages) : q[u].messages[i].kind # k) => SumOf(q[u].messages, k) = 0
  BY <1>1, SumOfBounds
<1> QED BY <1>1, <1>2, <1>3

\* remove_at keeps the counters exact: both give up the message's bytes.
LEMMA RemoveMessageKeepsExact ==
    ASSUME Shape, CountersExact, NEW u \in Tracked, NEW i \in DOMAIN queues[u].messages,
           RemoveMessage(u, i)
    PROVE  /\ CountersExact'
           /\ \A k \in Kind :
                /\ bytes'[k] = bytes[k] - Weight(queues[u].messages[i], k)
                /\ Held(u, k)' = Held(u, k) - Weight(queues[u].messages[i], k)
                /\ \A v : v # u => Held(v, k)' = Held(v, k)
<1> DEFINE s == queues[u].messages
           left == RemoveAt(s, i)
           m == s[i]
<1>1. /\ queues \in [Tracked -> IntQueue] /\ DOMAIN queues = Tracked
      /\ s \in Seq(Message) /\ DOMAIN s = 1..Len(s) /\ IsFiniteSet(Tracked)
      /\ \A v \in Tracked : queues[v].bytes \in [Kind -> Int]
      /\ bytes \in [Kind -> Int]
  <2>1. queues \in [Tracked -> IntQueue]
    BY DEF Shape, IsIntMap, Tracked
  <2>2. s \in Seq(Message) /\ \A v \in Tracked : queues[v].bytes \in [Kind -> Int]
    BY <2>1 DEF IntQueue
  <2> QED BY <2>1, <2>2, TrackedFinite, LenProperties DEF Shape
<1>2. m \in Message /\ m.kind \in Kind /\ m.bytes \in Nat
  <2>1. m \in Message
    BY <1>1, ElementOfSeq
  <2> HIDE DEF m
  <2> QED BY <2>1, MessageTyped
<1>3. ExactQueues(queues) /\ \A k \in Kind : bytes[k] = Total(queues, k)
  BY ExactFacts
<1>4. /\ left \in Seq(Message)
      /\ \A k \in Kind : SumOf(left, k) = SumOf(s, k) - Weight(m, k)
  BY <1>1, RemoveAtProperties, SumOfRemoveAt
<1>5. \A k \in Kind : /\ Weight(m, k) \in Nat
                      /\ queues[u].bytes[k] = SumOf(s, k)
                      /\ queues[u].bytes[k] \in Int
                      /\ Credit(queues[u].bytes, m)[k] = queues[u].bytes[k] - Weight(m, k)
                      /\ Credit(bytes, m)[k] = bytes[k] - Weight(m, k)
                      /\ bytes[k] \in Int
  <2>1. \A k \in Kind : queues[u].bytes[k] = SumOf(s, k)
    BY <1>1, <1>3 DEF ExactQueues
  <2>2. queues[u].bytes \in [Kind -> Int]
    BY <1>1
  <2> HIDE DEF m, s
  <2> QED BY <1>1, <1>2, <2>1, <2>2 DEF Credit, Weight
<1>6. bytes' = Credit(bytes, m)
  BY DEF RemoveMessage
<1>7. \A k \in Kind, v \in Tracked : queues[v].bytes[k] \in Int
  BY <1>1
<1>8. CASE left = <<>>
  <2>1. queues' = [v \in Tracked \ {u} |-> queues[v]]
    BY <1>8 DEF RemoveMessage
  <2>2. Tracked' = Tracked \ {u} /\ DOMAIN queues' = Tracked \ {u}
    BY <2>1 DEF Tracked
  <2>3. \A k \in Kind : queues[u].bytes[k] = Weight(m, k)
    <3> TAKE k \in Kind
    <3>1. SumOf(left, k) = 0
      BY <1>8, SumOfEmpty
    <3> HIDE DEF left, m, s
    <3>2. SumOf(s, k) \in Int /\ Weight(m, k) \in Int
      BY <1>5
    <3> QED BY <1>4, <1>5, <3>1, <3>2
  <2>4. ExactQueues(queues')
    <3>1. \A v \in Tracked \ {u} : queues'[v] = queues[v]
      BY <2>1
    <3> QED BY <1>1, <1>3, <2>2, <3>1 DEF ExactQueues
  <2>5. ASSUME NEW k \in Kind PROVE Total(queues', k) = Total(queues, k) - queues[u].bytes[k]
    <3>1. Total([v \in DOMAIN queues \ {u} |-> queues[v]], k)
             = Total(queues, k) - queues[u].bytes[k]
      BY <1>1, <1>7, TotalWithout
    <3> QED BY <1>1, <2>1, <3>1
  <2>6. \A k \in Kind : bytes'[k] = Total(queues', k)
    <3> HIDE DEF m
    <3> QED BY <1>3, <1>5, <1>6, <2>3, <2>5
  <2>7. CountersExact'
    BY <2>4, <2>6, ExactFacts DEF CountersExact, ExactQueues, Total, Tracked
  <2>8. \A k \in Kind : /\ bytes'[k] = bytes[k] - Weight(m, k)
                        /\ Held(u, k)' = Held(u, k) - Weight(m, k)
                        /\ \A v : v # u => Held(v, k)' = Held(v, k)
    <3>1. \A v \in Tracked \ {u} : queues'[v] = queues[v]
      BY <2>1
    <3>2. \A k \in Kind : Held(u, k)' = 0 /\ Held(u, k) = queues[u].bytes[k]
      BY <2>2 DEF Held
    <3>3. \A v : \A k \in Kind : v # u => Held(v, k)' = Held(v, k)
      BY <2>2, <3>1 DEF Held
    <3> HIDE DEF m
    <3> QED BY <1>5, <1>6, <2>3, <3>2, <3>3
  <2> QED BY <2>7, <2>8
<1>9. CASE left # <<>>
  <2> DEFINE e == [messages |-> left, bytes |-> Credit(queues[u].bytes, m)]
  <2>1. queues' = [queues EXCEPT ![u] = e]
    BY <1>9 DEF RemoveMessage
  <2>2. e.messages = left /\ \A k \in Kind : e.bytes[k] = queues[u].bytes[k] - Weight(m, k)
                                             /\ e.bytes[k] \in Int
    <3>1. e.messages = left /\ e.bytes = Credit(queues[u].bytes, m)
      OBVIOUS
    <3> HIDE DEF e, m
    <3> QED BY <1>5, <3>1
  <2> HIDE DEF e
  <2>3. /\ Tracked' = Tracked /\ DOMAIN queues' = Tracked
        /\ queues'[u] = e /\ \A v \in Tracked \ {u} : queues'[v] = queues[v]
    BY <1>1, <2>1 DEF Tracked
  <2>4. ExactQueues(queues')
    <3> SUFFICES ASSUME NEW v \in Tracked, NEW k \in Kind
                 PROVE  queues'[v].bytes[k] = SumOf(queues'[v].messages, k)
      BY <2>3 DEF ExactQueues
    <3>1. CASE v = u
      <4> HIDE DEF left, m, s
      <4> QED BY <1>4, <1>5, <2>2, <2>3, <3>1
    <3>2. CASE v # u
      BY <1>1, <1>3, <2>3, <3>2 DEF ExactQueues
    <3> QED BY <3>1, <3>2
  <2>5. ASSUME NEW k \in Kind
        PROVE  Total(queues', k) = Total(queues, k) - queues[u].bytes[k] + e.bytes[k]
    <3>1. queues'[u].bytes[k] \in Int /\ queues'[u] = e
      BY <2>2, <2>3
    <3>2. Total(queues', k) = Total(queues, k) - queues[u].bytes[k] + queues'[u].bytes[k]
      BY <1>1, <1>7, <2>3, <3>1, TotalExcept
    <3> QED BY <3>1, <3>2
  <2>6. \A k \in Kind : bytes'[k] = Total(queues', k)
    <3> HIDE DEF m
    <3> QED BY <1>3, <1>5, <1>6, <2>2, <2>5
  <2>7. CountersExact'
    BY <2>4, <2>6, ExactFacts DEF CountersExact, ExactQueues, Total, Tracked
  <2>8. \A k \in Kind : /\ bytes'[k] = bytes[k] - Weight(m, k)
                        /\ Held(u, k)' = Held(u, k) - Weight(m, k)
                        /\ \A v : v # u => Held(v, k)' = Held(v, k)
    <3>1. \A k \in Kind : Held(u, k)' = e.bytes[k] /\ Held(u, k) = queues[u].bytes[k]
      BY <2>3 DEF Held
    <3>2. \A v : \A k \in Kind : v # u => Held(v, k)' = Held(v, k)
      BY <2>3 DEF Held
    <3> HIDE DEF m
    <3> QED BY <1>5, <1>6, <2>2, <3>1, <3>2
  <2> QED BY <2>7, <2>8
<1> QED BY <1>8, <1>9

\* An admission charges both counters with the message's bytes.
LEMMA AdmitToKeepsExact ==
    ASSUME IsIntCall(call), NEW q, NEW o, NEW b, NEW evicted,
           IsIntMap(q), IsFiniteSet(DOMAIN q), ExactQueues(q), b \in [Kind -> Int],
           \A k \in Kind : b[k] = Total(q, k),
           AdmitTo(q, o, b, evicted)
    PROVE  /\ CountersExact'
           /\ \A k \in Kind :
                /\ bytes'[k] = b[k] + Weight(call.msg, k)
                /\ \A v : Held(v, k)' = (IF v \in DOMAIN q THEN q[v].bytes[k] ELSE 0)
                                        + (IF v = call.user THEN Weight(call.msg, k) ELSE 0)
<1> DEFINE u == call.user
           m == call.msg
           new == u \notin DOMAIN q
           old == IF new THEN [messages |-> <<>>, bytes |-> [k \in Kind |-> 0]] ELSE q[u]
           e == [messages |-> Append(old.messages, m), bytes |-> Charge(old.bytes, m)]
<1>1. u \in User /\ m \in Message
  BY DEF IsIntCall
<1>2. m.kind \in Kind /\ m.bytes \in Nat
  BY <1>1, MessageTyped
<1>3. /\ queues' = [v \in DOMAIN q \cup {u} |-> IF v = u THEN e ELSE q[v]]
      /\ bytes' = Charge(b, m)
  BY DEF AdmitTo
<1>4. /\ old.messages \in Seq(Message) /\ old.bytes \in [Kind -> Int]
      /\ \A k \in Kind : old.bytes[k] = SumOf(old.messages, k)
      /\ \A k \in Kind : old.bytes[k] = IF new THEN 0 ELSE q[u].bytes[k]
  <2>1. CASE new
    <3>1. old.messages = <<>> /\ old.bytes = [k \in Kind |-> 0]
      BY <2>1
    <3>2. <<>> \in Seq(Message) /\ [k \in Kind |-> 0] \in [Kind -> Int]
      BY EmptySeq
    <3> HIDE DEF old
    <3> QED BY <2>1, <3>1, <3>2, SumOfEmpty
  <2>2. CASE ~new
    <3>1. old = q[u]
      BY <2>2
    <3> HIDE DEF old
    <3> QED BY <2>2, <3>1 DEF IsIntMap, IntQueue, ExactQueues
  <2> QED BY <2>1, <2>2
<1> HIDE DEF old
<1>5. \A k \in Kind : /\ Weight(m, k) \in Nat
                      /\ Charge(old.bytes, m)[k] = old.bytes[k] + Weight(m, k)
                      /\ Charge(b, m)[k] = b[k] + Weight(m, k)
                      /\ old.bytes[k] \in Int
                      /\ b[k] \in Int
  <2> HIDE DEF m
  <2> QED BY <1>2, <1>4 DEF Charge, Weight
<1>6. \A k \in Kind : SumOf(Append(old.messages, m), k) = SumOf(old.messages, k) + Weight(m, k)
  BY <1>1, <1>4, SumOfAppend
<1>7. \A k \in Kind : /\ e.bytes[k] = SumOf(e.messages, k)
                      /\ e.bytes[k] = old.bytes[k] + Weight(m, k)
                      /\ e.bytes[k] \in Int
  <2>1. e.messages = Append(old.messages, m) /\ e.bytes = Charge(old.bytes, m)
    OBVIOUS
  <2> HIDE DEF e, m
  <2> QED BY <1>4, <1>5, <1>6, <2>1
<1> HIDE DEF e
<1>8. /\ DOMAIN queues' = DOMAIN q \cup {u} /\ Tracked' = DOMAIN q \cup {u}
      /\ queues'[u] = e /\ \A v \in DOMAIN q \ {u} : queues'[v] = q[v]
  BY <1>3 DEF Tracked
<1>9. ExactQueues(queues')
  <2> SUFFICES ASSUME NEW v \in DOMAIN q \cup {u}, NEW k \in Kind
               PROVE  queues'[v].bytes[k] = SumOf(queues'[v].messages, k)
    BY <1>8 DEF ExactQueues
  <2> QED BY <1>7, <1>8 DEF ExactQueues
<1>10. \A v \in DOMAIN q, k \in Kind : q[v].bytes[k] \in Int
  BY DEF IsIntMap, IntQueue
<1>11. ASSUME NEW k \in Kind PROVE Total(queues', k) = Total(q, k) + Weight(m, k)
  <2>1. e.bytes[k] \in Int /\ \A v \in DOMAIN q : q[v].bytes[k] \in Int
    BY <1>7, <1>10
  <2>2. Weight(m, k) \in Int /\ Total(q, k) \in Int /\ old.bytes[k] \in Int
    BY <1>5
  <2>3. CASE new
    <3>1. \A v \in DOMAIN q : queues'[v] = q[v]
      BY <1>8, <2>3
    <3>2. /\ u \notin DOMAIN q /\ u \in DOMAIN queues' /\ DOMAIN q = DOMAIN queues' \ {u}
          /\ queues'[u].bytes[k] \in Int
      BY <1>8, <2>1, <2>3
    <3>3. Total(queues', k) = Total(q, k) + queues'[u].bytes[k]
      BY <2>1, <3>1, <3>2, TotalWith
    <3> QED BY <1>4, <1>7, <1>8, <2>2, <2>3, <3>3
  <2>4. CASE ~new
    <3>1. DOMAIN queues' = DOMAIN q /\ u \in DOMAIN q /\ queues'[u].bytes[k] \in Int
      BY <1>8, <2>1, <2>4
    <3>2. Total(queues', k) = Total(q, k) - q[u].bytes[k] + queues'[u].bytes[k]
      BY <1>8, <2>1, <3>1, TotalExcept
    <3> QED BY <1>4, <1>7, <1>8, <2>1, <2>2, <2>4, <3>2
  <2> QED BY <2>3, <2>4
<1>12. \A k \in Kind : bytes'[k] = Total(queues', k) /\ bytes'[k] = b[k] + Weight(m, k)
  <2> HIDE DEF m
  <2> QED BY <1>3, <1>5, <1>11
<1>13. CountersExact'
  BY <1>9, <1>12, ExactFacts DEF CountersExact, ExactQueues, Total, Tracked
<1>14. ASSUME NEW k \in Kind, NEW v
       PROVE  Held(v, k)' = (IF v \in DOMAIN q THEN q[v].bytes[k] ELSE 0)
                            + (IF v = u THEN Weight(m, k) ELSE 0)
  <2>1. CASE v = u
    <3>1. Held(v, k)' = e.bytes[k]
      BY <1>8, <2>1 DEF Held
    <3>2. e.bytes[k] = old.bytes[k] + Weight(m, k)
          /\ old.bytes[k] = IF v \in DOMAIN q THEN q[v].bytes[k] ELSE 0
      BY <1>4, <1>7, <2>1
    <3> QED BY <2>1, <3>1, <3>2
  <2>2. CASE v # u
    <3>1. Held(v, k)' = IF v \in DOMAIN q THEN q[v].bytes[k] ELSE 0
      BY <1>8, <2>2 DEF Held
    <3>2. v \in DOMAIN q => q[v].bytes[k] \in Int
      BY <1>10
    <3> QED BY <2>2, <3>1, <3>2
  <2> QED BY <2>1, <2>2
<1> QED BY <1>12, <1>13, <1>14

\* drain takes off what the user held.
LEMMA DrainKeepsExact ==
    ASSUME Shape, CountersExact, NEW u, Drain(u)
    PROVE  CountersExact' /\ \A k \in Kind : bytes'[k] = bytes[k] - Held(u, k)
<1>1. /\ queues' = [v \in Tracked \ {u} |-> queues[v]]
      /\ bytes' = [k \in Kind |-> bytes[k] - Held(u, k)]
  BY DEF Drain
<1>2. /\ queues \in [Tracked -> IntQueue] /\ DOMAIN queues = Tracked /\ IsFiniteSet(Tracked)
      /\ \A k \in Kind, v \in Tracked : queues[v].bytes[k] \in Int
      /\ \A k \in Kind : bytes[k] \in Int
  <2>1. queues \in [Tracked -> IntQueue]
    BY DEF Shape, IsIntMap, Tracked
  <2>2. \A k \in Kind, v \in Tracked : queues[v].bytes[k] \in Int
    BY <2>1 DEF IntQueue
  <2> QED BY <2>1, <2>2, TrackedFinite DEF Shape
<1>3. ExactQueues(queues) /\ \A k \in Kind : bytes[k] = Total(queues, k)
  BY ExactFacts
<1>4. DOMAIN queues' = Tracked \ {u} /\ \A v \in Tracked \ {u} : queues'[v] = queues[v]
  BY <1>1
<1>5. ExactQueues(queues')
  BY <1>2, <1>3, <1>4 DEF ExactQueues
<1>6. ASSUME NEW k \in Kind PROVE Total(queues', k) = Total(queues, k) - Held(u, k)
  <2>1. CASE u \in Tracked
    <3>1. Total([v \in DOMAIN queues \ {u} |-> queues[v]], k)
             = Total(queues, k) - queues[u].bytes[k]
      BY <1>2, <2>1, TotalWithout
    <3> QED BY <1>1, <1>2, <2>1, <3>1 DEF Held
  <2>2. CASE u \notin Tracked
    <3>1. queues' = queues
      BY <1>1, <1>2, <2>2
    <3>2. Held(u, k) = 0 /\ Total(queues, k) \in Int
      BY <1>2, <1>3, <2>2 DEF Held
    <3> QED BY <3>1, <3>2
  <2> QED BY <2>1, <2>2
<1>7. \A k \in Kind : bytes'[k] = Total(queues', k)
  BY <1>1, <1>3, <1>6
<1>8. CountersExact'
  BY <1>5, <1>7 DEF CountersExact, ExactQueues, Total, Tracked
<1> QED BY <1>1, <1>8

-----------------------------------------------------------------------------
(* Every step preserves BytesInv.                                          *)

LEMMA HeldFacts ==
    ASSUME Shape, CountersExact
    PROVE  /\ \A v : \A k \in Kind : Held(v, k) \in Nat /\ Held(v, k) <= bytes[k]
           /\ \A k \in Kind : bytes[k] \in Nat
           /\ \A k \in Kind : bytes[k] > 0 => \E v \in Tracked : Held(v, k) > 0
           /\ \A v : \A k \in Kind : Held(v, k) > 0 => v \in Tracked /\ PositionsOf(v, k) # {}
<1>1. /\ IsFiniteSet(DOMAIN queues) /\ IsIntMap(queues) /\ Tracked = DOMAIN queues
      /\ ExactQueues(queues) /\ \A k \in Kind : bytes[k] = Total(queues, k)
  BY TrackedFinite, ExactFacts DEF Shape, Tracked
<1>2. \A v \in DOMAIN queues, k \in Kind :
         /\ queues[v].bytes[k] \in Nat
         /\ queues[v].bytes[k] > 0 =>
               \E i \in DOMAIN queues[v].messages : queues[v].messages[i].kind = k
  BY <1>1, ExactCounters
<1>3. \A v : \A k \in Kind : Held(v, k) = IF v \in DOMAIN queues THEN queues[v].bytes[k] ELSE 0
  BY <1>1 DEF Held
<1>4. ASSUME NEW k \in Kind
      PROVE  /\ bytes[k] \in Nat
             /\ \A v \in DOMAIN queues : queues[v].bytes[k] <= bytes[k]
             /\ (\A v \in DOMAIN queues : queues[v].bytes[k] = 0) => bytes[k] = 0
  <2>1. \A v \in DOMAIN queues : queues[v].bytes[k] \in Nat
    BY <1>2
  <2> QED BY <1>1, <2>1, TotalBounds
<1>5. ASSUME NEW k \in Kind, bytes[k] > 0 PROVE \E v \in Tracked : Held(v, k) > 0
  <2>1. PICK v \in DOMAIN queues : queues[v].bytes[k] # 0
    BY <1>4, <1>5
  <2>2. Held(v, k) > 0 /\ v \in Tracked
    BY <1>1, <1>2, <1>3, <2>1
  <2> QED BY <2>2
<1>6. ASSUME NEW v, NEW k \in Kind, Held(v, k) > 0
      PROVE  v \in Tracked /\ PositionsOf(v, k) # {}
  <2>1. v \in DOMAIN queues /\ queues[v].bytes[k] > 0
    BY <1>3, <1>6
  <2>2. PICK i \in DOMAIN queues[v].messages : queues[v].messages[i].kind = k
    BY <1>2, <2>1
  <2> QED BY <1>1, <2>1, <2>2 DEF PositionsOf
<1> QED BY <1>2, <1>3, <1>4, <1>5, <1>6

\* Where anything of a kind is queued, largest_holder finds a user.
LEMMA LargestHolderExists ==
    ASSUME Shape, CountersExact, NEW k \in Kind, bytes[k] > 0
    PROVE  LargestHolders(k) # {} /\ \A v \in LargestHolders(k) : PositionsOf(v, k) # {}
<1> DEFINE short == {bytes[k] - Held(v, k) : v \in Tracked}
<1>1. \A v : Held(v, k) \in Nat /\ Held(v, k) <= bytes[k] /\ bytes[k] \in Nat
  BY HeldFacts
<1>2. PICK w \in Tracked : Held(w, k) > 0
  BY HeldFacts
<1>3. short \in SUBSET Nat
  BY <1>1
<1>4. short # {}
  BY <1>2
<1>5. PICK s \in short : \A t \in short : s <= t
  <2> HIDE DEF short
  <2> QED BY <1>3, <1>4, Smallest
<1>6. PICK u \in Tracked : s = bytes[k] - Held(u, k)
  BY <1>5
<1>7. \A v \in Tracked : bytes[k] - Held(u, k) <= bytes[k] - Held(v, k)
  BY <1>5, <1>6
<1>8. \A v \in Tracked : Held(v, k) <= Held(u, k)
  BY <1>1, <1>7
<1>9. Held(u, k) > 0
  BY <1>1, <1>2, <1>8
<1>10. u \in LargestHolders(k)
  BY <1>6, <1>8, <1>9 DEF LargestHolders
<1> QED BY <1>10, HeldFacts DEF LargestHolders

\* A removal keeps what BytesInv says of the counters, and raises none of them.
LEMMA RemovalKeepsBytes ==
    ASSUME Shape, CountersExact, ByteCeilings,
           NEW u \in Tracked, NEW i \in DOMAIN queues[u].messages, RemoveMessage(u, i)
    PROVE  /\ CountersExact' /\ ByteCeilings'
           /\ \A k \in Kind : bytes'[k] <= bytes[k] /\ bytes'[k] \in Int
           /\ \A v : \A k \in Kind : Held(v, k)' <= Held(v, k) /\ Held(v, k)' \in Int
<1>1. /\ CountersExact'
      /\ \A k \in Kind :
           /\ bytes'[k] = bytes[k] - Weight(queues[u].messages[i], k)
           /\ Held(u, k)' = Held(u, k) - Weight(queues[u].messages[i], k)
           /\ \A v : v # u => Held(v, k)' = Held(v, k)
  BY RemoveMessageKeepsExact
<1>2. queues[u].messages[i] \in Message
  <2>1. queues[u].messages \in Seq(Message)
    BY DEF Shape, IsIntMap, Tracked, IntQueue
  <2> QED BY <2>1, ElementOfSeq, LenProperties
<1>3. \A k \in Kind : Weight(queues[u].messages[i], k) \in Nat
  BY <1>2, MessageTyped DEF Weight
<1>4. \A v : \A k \in Kind : Held(v, k) \in Nat /\ bytes[k] \in Nat
  BY HeldFacts
<1>5. \A k \in Kind : bytes'[k] <= bytes[k] /\ bytes'[k] \in Int
  BY <1>1, <1>3, <1>4
<1>6. ASSUME NEW v, NEW k \in Kind PROVE Held(v, k)' <= Held(v, k) /\ Held(v, k)' \in Int
  <2>1. CASE v = u
    <3>1. Held(v, k)' = Held(v, k) - Weight(queues[u].messages[i], k)
      BY <1>1, <2>1
    <3> QED BY <1>3, <1>4, <3>1
  <2>2. CASE v # u
    <3>1. Held(v, k)' = Held(v, k)
      BY <1>1, <2>2
    <3> QED BY <1>4, <3>1
  <2> QED BY <2>1, <2>2
<1>7. Shape' /\ Tracked' \subseteq Tracked
  BY RemoveMessageKeepsShape
<1>8. ByteCeilings'
  <2> SUFFICES ASSUME NEW k \in Kind
               PROVE  bytes'[k] <= Budget[k] /\ \A v \in Tracked' : queues'[v].bytes[k] <= PerUser[k]
    BY DEF ByteCeilings
  <2>1. Budget[k] \in Nat /\ PerUser[k] \in Nat
    BY QueueAssumption
  <2>2. bytes[k] <= Budget[k] /\ \A v \in Tracked : Held(v, k) <= PerUser[k]
    BY DEF ByteCeilings, Held
  <2>3. bytes'[k] <= Budget[k]
    BY <1>4, <1>5, <2>1, <2>2
  <2>4. ASSUME NEW v \in Tracked' PROVE queues'[v].bytes[k] <= PerUser[k]
    <3>1. Held(v, k)' = queues'[v].bytes[k]
      BY <2>4 DEF Held
    <3>2. Held(v, k) <= PerUser[k] /\ Held(v, k)' <= Held(v, k)
          /\ Held(v, k) \in Nat /\ Held(v, k)' \in Int
      BY <1>4, <1>6, <1>7, <2>2
    <3> QED BY <2>1, <3>1, <3>2
  <2> QED BY <2>3, <2>4
<1> QED BY <1>1, <1>5, <1>6, <1>8

LEMMA RunningCall ==
    ASSUME Inv, call # Idle
    PROVE  /\ IsIntCall(call) /\ call.user \in User /\ call.msg \in Message
           /\ call.msg.kind \in Kind /\ call.msg.bytes \in Nat
           /\ call.pc \in Loops /\ call.pc # "idle"
           /\ Budget[call.msg.kind] \in Nat /\ PerUser[call.msg.kind] \in Nat
<1>1. IsIntCall(call)
  BY InvFacts
<1>2. call.user \in User /\ call.msg \in Message /\ call.pc \in Loops
  BY <1>1 DEF IsIntCall
<1>3. call.msg.kind \in Kind /\ call.msg.bytes \in Nat
  BY <1>2, MessageTyped
<1> QED BY <1>1, <1>2, <1>3, QueueAssumption DEF Loops

\* The loops that drop messages: what they have not made room for they may go on.
LEMMA DropStepsKeepBytes ==
    ASSUME Inv, BytesInv, NEW u, NEW i, u \in Tracked, i \in DOMAIN queues[u].messages,
           RemoveMessage(u, i), call # Idle, call.pc # "admit",
           \/ call' = [call EXCEPT !.displaced = @ + 1]
           \/ call' = [call EXCEPT !.trimmed = @ + 1]
    PROVE  BytesInv'
<1>1. Shape /\ CountersExact /\ ByteCeilings
  BY InvFacts DEF BytesInv
<1>2. call'.pc = call.pc /\ call'.msg = call.msg /\ call'.user = call.user
  BY RunningCall DEF IsIntCall
<1>3. /\ CountersExact' /\ ByteCeilings'
      /\ \A v : \A k \in Kind : Held(v, k)' <= Held(v, k) /\ Held(v, k)' \in Int
  BY <1>1, RemovalKeepsBytes
<1>4. \A v : \A k \in Kind : Held(v, k) \in Nat
  BY <1>1, HeldFacts
<1>5. Fits(call.msg) /\ Fits(call'.msg)
  BY <1>2 DEF BytesInv
<1>6. ASSUME call.pc \in {"make_room", "admit"} PROVE ~OverUserBudget'
  <2> DEFINE w == call.user
             k == call.msg.kind
             n == call.msg.bytes
  <2>1. k \in Kind /\ n \in Nat /\ PerUser[k] \in Nat
    BY RunningCall
  <2>2. ~(Held(w, k) + n > PerUser[k])
    BY <1>6 DEF BytesInv, OverUserBudget
  <2>3. \A v : \A l : v = w /\ l = k => (OverUserBudget' <=> Held(v, l)' + n > PerUser[l])
    BY <1>2 DEF OverUserBudget
  <2>4. \A v : \A l : v = w /\ l = k => ~(Held(v, l)' + n > PerUser[l])
    <3> SUFFICES ASSUME NEW v, NEW l, v = w, l = k PROVE ~(Held(v, l)' + n > PerUser[l])
      OBVIOUS
    <3>1. Held(v, l)' <= Held(v, l) /\ Held(v, l)' \in Int /\ Held(v, l) \in Nat
      BY <1>3, <1>4, <2>1
    <3>2. ~(Held(v, l) + n > PerUser[l]) /\ PerUser[l] \in Nat
      BY <2>1, <2>2
    <3> QED BY <2>1, <3>1, <3>2
  <2> QED BY <2>3, <2>4
<1>7. call.pc # "admit" /\ call'.pc # "admit"
  BY <1>2
<1> QED BY <1>2, <1>3, <1>5, <1>6, <1>7 DEF BytesInv

\* trim_user_budget stops with room: a kind nothing is queued of has no bytes.
LEMMA UserBudgetTrimmedKeepsBytes == Inv /\ BytesInv /\ UserBudgetTrimmed => BytesInv'
<1> SUFFICES ASSUME Inv, BytesInv, UserBudgetTrimmed PROVE BytesInv'
  OBVIOUS
<1>1. /\ call.pc = "trim_user_budget"
      /\ OverUserBudget => PositionsOf(call.user, call.msg.kind) = {}
      /\ call' = [call EXCEPT !.pc = "make_room"]
      /\ UNCHANGED <<queues, order, bytes, arrivals>>
  BY DEF UserBudgetTrimmed
<1>2. call # Idle
  BY <1>1 DEF Idle
<1>3. call'.pc = "make_room" /\ call'.msg = call.msg /\ call'.user = call.user
  BY <1>1, <1>2, RunningCall DEF IsIntCall
<1>4. Shape /\ CountersExact /\ ByteCeilings /\ Fits(call.msg)
  BY <1>2, InvFacts DEF BytesInv
<1>5. ~OverUserBudget
  <2> SUFFICES ASSUME OverUserBudget PROVE FALSE
    OBVIOUS
  <2>1. call.msg.kind \in Kind /\ call.msg.bytes \in Nat /\ PerUser[call.msg.kind] \in Nat
    BY <1>2, RunningCall
  <2>2. Held(call.user, call.msg.kind) \in Nat /\ ~(Held(call.user, call.msg.kind) > 0)
    BY <1>1, <1>4, <2>1, HeldFacts
  <2>3. call.msg.bytes <= PerUser[call.msg.kind]
    BY <1>4 DEF Fits
  <2> QED BY <2>1, <2>2, <2>3 DEF OverUserBudget
<1>6. ~OverUserBudget'
  BY <1>1, <1>3, <1>5 DEF OverUserBudget, Held, Tracked
<1>7. CountersExact' /\ ByteCeilings'
  BY <1>1, <1>4 DEF CountersExact, ByteCeilings, Tracked
<1> QED BY <1>3, <1>4, <1>6, <1>7 DEF BytesInv

\* make_room stops with room: while the kind is over its budget it has a holder.
LEMMA RoomMadeKeepsBytes == Inv /\ BytesInv /\ RoomMade => BytesInv'
<1> SUFFICES ASSUME Inv, BytesInv, RoomMade PROVE BytesInv'
  OBVIOUS
<1>1. /\ call.pc = "make_room"
      /\ OverBudget => \/ LargestHolders(call.msg.kind) = {}
                       \/ \E v \in LargestHolders(call.msg.kind) : PositionsOf(v, call.msg.kind) = {}
      /\ call' = [call EXCEPT !.pc = "admit"]
      /\ UNCHANGED <<queues, order, bytes, arrivals>>
  BY DEF RoomMade
<1>2. call # Idle
  BY <1>1 DEF Idle
<1>3. call'.pc = "admit" /\ call'.msg = call.msg /\ call'.user = call.user
  BY <1>1, <1>2, RunningCall DEF IsIntCall
<1>4. Shape /\ CountersExact /\ ByteCeilings /\ Fits(call.msg) /\ ~OverUserBudget
  BY <1>1, <1>2, InvFacts DEF BytesInv
<1>5. ~OverBudget
  <2> SUFFICES ASSUME OverBudget PROVE FALSE
    OBVIOUS
  <2>1. call.msg.kind \in Kind /\ call.msg.bytes \in Nat /\ Budget[call.msg.kind] \in Nat
    BY <1>2, RunningCall
  <2>2. bytes[call.msg.kind] \in Nat
    BY <1>4, <2>1, HeldFacts
  <2>3. ~(bytes[call.msg.kind] > 0)
    BY <1>1, <1>4, <2>1, LargestHolderExists
  <2>4. call.msg.bytes <= Budget[call.msg.kind]
    BY <1>4 DEF Fits
  <2> QED BY <2>1, <2>2, <2>3, <2>4 DEF OverBudget
<1>6. ~OverUserBudget' /\ ~OverBudget'
  BY <1>1, <1>3, <1>4, <1>5 DEF OverUserBudget, OverBudget, Held, Tracked
<1>7. CountersExact' /\ ByteCeilings'
  BY <1>1, <1>4 DEF CountersExact, ByteCeilings, Tracked
<1> QED BY <1>3, <1>4, <1>6, <1>7 DEF BytesInv

\* An admission uses the room the two loops have made.
LEMMA AdmissionKeepsBytes ==
    ASSUME Inv, BytesInv, call # Idle, call.pc = "admit", NEW q, NEW o, NEW b, NEW e,
           IsIntMap(q), DOMAIN q \subseteq Tracked, \A u \in DOMAIN q : q[u] = queues[u],
           b \in [Kind -> Int], \A k \in Kind : b[k] = Total(q, k) /\ b[k] <= bytes[k],
           AdmitTo(q, o, b, e)
    PROVE  BytesInv'
<1> DEFINE w == call.user
           m == call.msg
<1>1. /\ Shape /\ CountersExact /\ ByteCeilings /\ Fits(m) /\ ~OverUserBudget /\ ~OverBudget
      /\ IsIntCall(call) /\ m \in Message /\ m.kind \in Kind /\ m.bytes \in Nat
  BY RunningCall, InvFacts DEF BytesInv
<1>2. IsIntMap(q) /\ IsFiniteSet(DOMAIN q) /\ ExactQueues(q)
  <2>1. IsFiniteSet(DOMAIN q)
    BY <1>1, TrackedFinite, FS_Subset
  <2>2. ExactQueues(queues)
    BY <1>1, ExactFacts
  <2>3. ExactQueues(q)
    BY <2>2 DEF ExactQueues, Tracked
  <2> QED BY <2>1, <2>3
<1>3. /\ CountersExact'
      /\ \A k \in Kind :
           /\ bytes'[k] = b[k] + Weight(m, k)
           /\ \A v : Held(v, k)' = (IF v \in DOMAIN q THEN q[v].bytes[k] ELSE 0)
                                   + (IF v = w THEN Weight(m, k) ELSE 0)
  BY <1>1, <1>2, AdmitToKeepsExact
<1>4. \A k \in Kind : Weight(m, k) = IF k = m.kind THEN m.bytes ELSE 0
  BY DEF Weight
<1>5. \A v : \A k \in Kind : Held(v, k) \in Nat /\ bytes[k] \in Nat
  BY <1>1, HeldFacts
<1>6. Tracked' = DOMAIN q \cup {w}
  BY DEF AdmitTo, Tracked
<1>7. \A v : \A k \in Kind :
        LET n == IF v \in DOMAIN q THEN q[v].bytes[k] ELSE 0
        IN  n \in Nat /\ n <= Held(v, k)
  <2> TAKE v
  <2> TAKE k \in Kind
  <2>1. CASE v \in DOMAIN q
    <3>1. q[v].bytes[k] = Held(v, k)
      BY <2>1 DEF Held
    <3> QED BY <1>5, <2>1, <3>1
  <2>2. CASE v \notin DOMAIN q
    BY <1>5, <2>2
  <2> QED BY <2>1, <2>2
<1>8. ASSUME NEW k \in Kind PROVE bytes'[k] <= Budget[k]
  <2>1. Budget[k] \in Nat /\ bytes[k] <= Budget[k] /\ bytes[k] \in Nat /\ b[k] \in Int
    BY <1>1, <1>5, QueueAssumption DEF ByteCeilings
  <2>2. CASE k = m.kind
    <3>1. ~(bytes[k] + m.bytes > Budget[k]) /\ m.bytes \in Nat
      BY <1>1, <2>2 DEF OverBudget
    <3>2. bytes'[k] = b[k] + m.bytes
      BY <1>3, <1>4, <2>2
    <3> HIDE DEF m
    <3> QED BY <2>1, <3>1, <3>2
  <2>3. CASE k # m.kind
    <3>1. bytes'[k] = b[k] + 0
      BY <1>3, <1>4, <2>3
    <3> QED BY <2>1, <3>1
  <2> QED BY <2>2, <2>3
<1>9. ASSUME NEW k \in Kind, NEW v \in Tracked' PROVE queues'[v].bytes[k] <= PerUser[k]
  <2>1. PerUser[k] \in Nat /\ Held(v, k) \in Nat /\ Held(v, k) <= PerUser[k]
    BY <1>1, <1>5, QueueAssumption DEF ByteCeilings, Held
  <2> DEFINE n == IF v \in DOMAIN q THEN q[v].bytes[k] ELSE 0
  <2>2. n \in Nat /\ n <= Held(v, k)
    BY <1>7
  <2>3. /\ Held(v, k)' = queues'[v].bytes[k]
        /\ Held(v, k)' = n + (IF v = w THEN Weight(m, k) ELSE 0)
    BY <1>3, <1>9 DEF Held
  <2> HIDE DEF n
  <2>4. CASE v = w /\ k = m.kind
    <3>1. ~(Held(v, k) + m.bytes > PerUser[k]) /\ m.bytes \in Nat
      BY <1>1, <2>4 DEF OverUserBudget
    <3>2. queues'[v].bytes[k] = n + m.bytes
      BY <1>4, <2>3, <2>4
    <3> HIDE DEF m
    <3> QED BY <2>1, <2>2, <3>1, <3>2
  <2>5. CASE ~(v = w /\ k = m.kind)
    <3>1. queues'[v].bytes[k] = n + 0
      BY <1>4, <2>3, <2>5
    <3> QED BY <2>1, <2>2, <3>1
  <2> QED BY <2>4, <2>5
<1>10. ByteCeilings'
  BY <1>8, <1>9 DEF ByteCeilings
<1>11. call'.pc = "trim_to_cap" /\ call'.msg = call.msg
  BY <1>1 DEF AdmitTo, IsIntCall
<1> QED BY <1>1, <1>3, <1>10, <1>11 DEF BytesInv

LEMMA AdmitKeepsBytes == Inv /\ BytesInv /\ Admit => BytesInv'
<1> SUFFICES ASSUME Inv, BytesInv, Admit PROVE BytesInv'
  OBVIOUS
<1>1. call.pc = "admit" /\ call # Idle /\ AdmitTo(queues, order, bytes, {})
  BY DEF Admit, Idle
<1>2. Shape /\ CountersExact
  BY InvFacts DEF BytesInv
<1>3. bytes \in [Kind -> Int] /\ \A k \in Kind : bytes[k] = Total(queues, k) /\ bytes[k] \in Nat
  BY <1>2, ExactFacts, HeldFacts DEF Shape
<1>4. DOMAIN queues \subseteq Tracked /\ \A k \in Kind : bytes[k] <= bytes[k]
  BY <1>3 DEF Tracked
<1>5. IsIntMap(queues)
  BY <1>2 DEF Shape
<1> QED BY <1>1, <1>3, <1>4, <1>5, AdmissionKeepsBytes

LEMMA AdmitEvictingKeepsBytes == Inv /\ BytesInv /\ AdmitEvicting => BytesInv'
<1> SUFFICES ASSUME Inv, BytesInv, AdmitEvicting PROVE BytesInv'
  OBVIOUS
<1>1. call.pc = "admit" /\ call # Idle
  BY DEF AdmitEvicting, Idle
<1>2. PICK i \in DOMAIN order :
        /\ IsEvicted(order[i], i)
        /\ AdmitTo([v \in Tracked \ {order[i]} |-> queues[v]],
                   SubSeq(order, i + 1, Len(order)),
                   [k \in Kind |-> bytes[k] - queues[order[i]].bytes[k]],
                   {order[i]})
  BY DEF AdmitEvicting
<1> DEFINE gone == order[i]
           q == [v \in Tracked \ {gone} |-> queues[v]]
           o == SubSeq(order, i + 1, Len(order))
           b == [k \in Kind |-> bytes[k] - queues[gone].bytes[k]]
<1>3. Shape /\ CountersExact /\ gone \in Tracked
  BY <1>2, InvFacts DEF BytesInv, IsEvicted
<1>4. /\ IsFiniteSet(DOMAIN queues) /\ DOMAIN queues = Tracked
      /\ \A k \in Kind : bytes[k] = Total(queues, k)
  BY <1>3, TrackedFinite, ExactFacts DEF Tracked
<1>5. \A v \in Tracked, k \in Kind : queues[v].bytes[k] \in Nat /\ bytes[k] \in Nat
  BY <1>3, HeldFacts DEF Held
<1>6. b \in [Kind -> Int]
  BY <1>3, <1>5
<1>7. ASSUME NEW k \in Kind PROVE b[k] = Total(q, k) /\ b[k] <= bytes[k]
  <2>1. Total([v \in DOMAIN queues \ {gone} |-> queues[v]], k)
           = Total(queues, k) - queues[gone].bytes[k]
    <3>1. gone \in DOMAIN queues /\ \A v \in DOMAIN queues : queues[v].bytes[k] \in Int
      BY <1>3, <1>4, <1>5
    <3> HIDE DEF gone
    <3> QED BY <1>4, <3>1, TotalWithout
  <2>2. Total(q, k) = Total(queues, k) - queues[gone].bytes[k]
    BY <1>4, <2>1
  <2>3. b[k] = bytes[k] - queues[gone].bytes[k]
    OBVIOUS
  <2>4. queues[gone].bytes[k] \in Nat /\ bytes[k] \in Nat
    BY <1>3, <1>5
  <2> HIDE DEF q, b, gone
  <2> QED BY <1>4, <2>2, <2>3, <2>4
<1>8. IsIntMap(q) /\ DOMAIN q \subseteq Tracked /\ \A v \in DOMAIN q : q[v] = queues[v]
  BY <1>3 DEF IsIntMap, Shape, Tracked
<1>9. AdmitTo(q, o, b, {gone})
  BY <1>2
<1> HIDE DEF q, o, b, gone
<1> QED BY <1>1, <1>6, <1>7, <1>8, <1>9, AdmissionKeepsBytes

LEMMA BytesInvInit == Init => BytesInv
<1> SUFFICES ASSUME Init PROVE BytesInv
  OBVIOUS
<1>1. Tracked = {} /\ DOMAIN queues = {} /\ call = Idle /\ call.pc = "idle"
  BY EmptySeq DEF Init, Tracked, Idle
<1>2. \A k \in Kind : bytes[k] = 0 /\ Budget[k] \in Nat
  BY QueueAssumption DEF Init
<1>3. \A k \in Kind : Total(queues, k) = 0
  BY <1>1, FS_EmptySet, TotalBounds
<1>4. CountersExact
  BY <1>1, <1>2, <1>3, ExactFacts DEF ExactQueues
<1>5. ByteCeilings
  BY <1>1, <1>2 DEF ByteCeilings
<1> QED BY <1>1, <1>4, <1>5 DEF BytesInv

LEMMA BytesInvStep == Inv /\ BytesInv /\ [Next]_vars => BytesInv'
<1> SUFFICES ASSUME Inv, BytesInv, [Next]_vars PROVE BytesInv'
  OBVIOUS
<1>1. Shape /\ CountersExact /\ ByteCeilings
  BY InvFacts DEF BytesInv
\* Steps that leave the queues and counters alone.
<1>2. ASSUME UNCHANGED <<queues, bytes>> PROVE CountersExact' /\ ByteCeilings'
  BY <1>1, <1>2 DEF CountersExact, ByteCeilings, Tracked
<1>3. ASSUME NEW u \in User, NEW k \in Kind, NEW b \in Size, EnqueueRefused(u, k, b)
      PROVE  BytesInv'
  <2>1. call = Idle /\ call' = Idle /\ call'.pc = "idle" /\ UNCHANGED <<queues, bytes>>
    BY <1>3 DEF EnqueueRefused, Idle
  <2> QED BY <1>2, <2>1 DEF BytesInv
<1>4. ASSUME NEW u \in User, NEW k \in Kind, NEW b \in Size, EnqueueStart(u, k, b)
      PROVE  BytesInv'
  <2>1. call'.pc = "trim_user_budget" /\ call'.msg = Offered(k, b) /\ UNCHANGED <<queues, bytes>>
    BY <1>4 DEF EnqueueStart
  <2>2. Fits(Offered(k, b))
    BY <1>4 DEF EnqueueStart
  <2> QED BY <1>2, <2>1, <2>2 DEF BytesInv
<1>5. CASE TrimUserBudget \/ MakeRoom
  <2>1. /\ call.pc # "admit" /\ call # Idle
        /\ call' = [call EXCEPT !.displaced = @ + 1]
        /\ \E u, k : DropOldestOf(u, k)
    BY <1>5 DEF TrimUserBudget, MakeRoom, Idle
  <2>2. PICK u, k : DropOldestOf(u, k)
    BY <2>1
  <2>3. PICK i \in PositionsOf(u, k) : RemoveMessage(u, i)
    BY <2>2 DEF DropOldestOf
  <2>4. u \in Tracked /\ i \in DOMAIN queues[u].messages
    BY <2>3 DEF PositionsOf
  <2> QED BY <2>1, <2>3, <2>4, DropStepsKeepBytes
<1>6. CASE TrimToCap
  <2>1. /\ call.pc = "trim_to_cap" /\ call # Idle /\ call.user \in Tracked
        /\ Len(queues[call.user].messages) > MaxPerUser
        /\ RemoveMessage(call.user, 1)
        /\ call' = [call EXCEPT !.trimmed = @ + 1]
    BY <1>6 DEF TrimToCap, Inv, Idle
  <2>2. 1 \in DOMAIN queues[call.user].messages
    <3>1. queues[call.user].messages \in Seq(Message) /\ MaxPerUser \in Nat
      BY <1>1, <2>1, QueueAssumption DEF Shape, IsIntMap, Tracked, IntQueue
    <3> QED BY <2>1, <3>1, LenProperties
  <2> QED BY <2>1, <2>2, DropStepsKeepBytes
<1>7. CASE CapTrimmed \/ EnqueueReturn
  <2>1. UNCHANGED <<queues, bytes>> /\ call.pc \in {"trim_to_cap", "done"} /\ call # Idle
    BY <1>7 DEF CapTrimmed, EnqueueReturn, Idle
  <2>2. \/ call' = Idle
        \/ call'.pc = "done" /\ call'.msg = call.msg
    BY <1>7, <2>1, RunningCall DEF CapTrimmed, EnqueueReturn, IsIntCall
  <2>3. call'.pc \notin {"make_room", "admit"}
    BY <2>2 DEF Idle
  <2> QED BY <1>2, <2>1, <2>2, <2>3 DEF BytesInv
<1>8. ASSUME NEW u \in User, Drain(u) PROVE BytesInv'
  <2>1. call = Idle /\ call' = Idle /\ call'.pc = "idle"
    BY <1>8 DEF Drain, Idle
  <2>2. CountersExact' /\ \A k \in Kind : bytes'[k] = bytes[k] - Held(u, k)
    BY <1>1, <1>8, DrainKeepsExact
  <2>3. \A k \in Kind : /\ Held(u, k) \in Nat /\ bytes[k] \in Nat
                        /\ Budget[k] \in Nat /\ bytes[k] <= Budget[k]
    BY <1>1, HeldFacts, QueueAssumption DEF ByteCeilings
  <2>4. \A k \in Kind : bytes'[k] <= Budget[k]
    BY <2>2, <2>3
  <2>5. \A v \in Tracked' : v \in Tracked /\ queues'[v] = queues[v]
    BY <1>8 DEF Drain, Tracked
  <2>6. ByteCeilings'
    BY <1>1, <2>4, <2>5 DEF ByteCeilings
  <2> QED BY <2>1, <2>2, <2>6 DEF BytesInv
<1>9. CASE UNCHANGED vars
  BY <1>2, <1>9 DEF vars, BytesInv, OverUserBudget, OverBudget, Held, Tracked
<1> QED
  BY <1>3, <1>4, <1>5, <1>6, <1>7, <1>8, <1>9, AdmitKeepsBytes, AdmitEvictingKeepsBytes,
     UserBudgetTrimmedKeepsBytes, RoomMadeKeepsBytes
  DEF Next, EnqueueStep

-----------------------------------------------------------------------------
(* What a removal and an admission do to the messages queued.              *)

\* remove_at takes one message out of one queue and nothing else.
LEMMA RemoveMessageTakes ==
    ASSUME Shape, Distinct(queues),
           NEW u \in Tracked, NEW i \in DOMAIN queues[u].messages, RemoveMessage(u, i)
    PROVE  /\ Distinct(queues')
           /\ queues[u].messages[i] \in Has(u)
           /\ \A v : v # u => Has(v)' = Has(v)
           /\ \A v : v = u => Has(v)' = Has(v) \ {queues[u].messages[i]}
           /\ i < Len(queues[u].messages) =>
                 \A v : v = u => /\ v \in Tracked'
                                 /\ Last(queues'[v].messages) = Last(queues[v].messages)
<1> DEFINE s == queues[u].messages
           m == s[i]
           left == RemoveAt(s, i)
<1>1. s \in Seq(Message) /\ Injective(s) /\ DOMAIN queues = Tracked
  BY DEF Shape, IsIntMap, Tracked, IntQueue, Distinct
<1>2. /\ Injective(left) /\ ToSet(left) = ToSet(s) \ {m}
      /\ i < Len(s) => left # <<>> /\ Last(left) = Last(s)
  BY <1>1, RemoveAtElements
<1>3. m \in Has(u) /\ Has(u) = ToSet(s)
  BY DEF Has, ToSet
<1> HIDE DEF s, m
<1>4. CASE left = <<>>
  <2>1. queues' = [v \in Tracked \ {u} |-> queues[v]]
    BY <1>4 DEF RemoveMessage, s, left
  <2>2. /\ Tracked' = Tracked \ {u} /\ DOMAIN queues' = Tracked \ {u}
        /\ \A v \in Tracked \ {u} : queues'[v] = queues[v]
    BY <2>1 DEF Tracked
  <2>3. ToSet(left) = {}
    BY <1>4, EmptySeq DEF ToSet
  <2> HIDE DEF left
  <2>4. Distinct(queues')
    BY <1>1, <2>2 DEF Distinct
  <2>5. \A v : v # u => Has(v)' = Has(v)
    BY <2>2 DEF Has
  <2>6. \A v : v = u => Has(v)' = {}
    BY <2>2 DEF Has
  <2> QED BY <1>2, <1>3, <1>4, <2>3, <2>4, <2>5, <2>6 DEF s, m
<1>5. CASE left # <<>>
  <2>1. /\ Tracked' = Tracked /\ DOMAIN queues' = Tracked
        /\ queues'[u].messages = left
        /\ \A v \in Tracked \ {u} : queues'[v] = queues[v]
    <3>1. queues' = [queues EXCEPT ![u] =
                        [messages |-> left, bytes |-> Credit(queues[u].bytes, m)]]
      BY <1>5 DEF RemoveMessage, s, left, m
    <3> HIDE DEF left
    <3> QED BY <1>1, <3>1 DEF Tracked
  <2> HIDE DEF left
  <2>2. \A v : v # u => Has(v)' = Has(v)
    BY <2>1 DEF Has
  <2>3. \A v : v = u => Has(v)' = ToSet(left)
    BY <2>1 DEF Has
  <2>4. Distinct(queues')
    <3>1. \A v \in Tracked : Injective(queues'[v].messages)
      BY <1>1, <1>2, <2>1 DEF Distinct
    <3>2. \A v \in Tracked : ToSet(queues'[v].messages) \subseteq ToSet(queues[v].messages)
      BY <1>2, <2>1 DEF s
    <3>3. \A v, w \in Tracked : v # w =>
             ToSet(queues[v].messages) \cap ToSet(queues[w].messages) = {}
      BY <1>1 DEF Distinct
    <3> QED BY <2>1, <3>1, <3>2, <3>3 DEF Distinct
  <2> QED BY <1>2, <1>3, <2>1, <2>2, <2>3, <2>4 DEF s, m
<1> QED BY <1>4, <1>5

\* An admission queues the message behind what its recipient has.
LEMMA AdmitToPuts ==
    ASSUME IsIntCall(call), NEW q, NEW o, NEW b, NEW evicted,
           IsIntMap(q), Distinct(q), Older(q, call.msg.id), AdmitTo(q, o, b, evicted)
    PROVE  /\ Distinct(queues')
           /\ \A v : Has(v)' = (IF v \in DOMAIN q THEN ToSet(q[v].messages) ELSE {})
                               \cup (IF v = call.user THEN {call.msg} ELSE {})
           /\ \A v : v = call.user => v \in Tracked' /\ Last(queues'[v].messages) = call.msg
<1> DEFINE u == call.user
           m == call.msg
           s == IF u \in DOMAIN q THEN q[u].messages ELSE <<>>
           t == Append(s, m)
<1>1. m \in Message /\ m.id \in Nat
  BY DEF IsIntCall, Message
<1>2. /\ DOMAIN queues' = DOMAIN q \cup {u} /\ Tracked' = DOMAIN q \cup {u}
      /\ queues'[u].messages = t
      /\ \A v \in DOMAIN q \ {u} : queues'[v] = q[v]
  BY DEF AdmitTo, Tracked
<1>3. s \in Seq(Message) /\ Injective(s) /\ \A x \in ToSet(s) : x.id < m.id
  <2>1. CASE u \in DOMAIN q
    BY <2>1 DEF IsIntMap, IntQueue, Distinct, Older
  <2>2. CASE u \notin DOMAIN q
    BY <2>2, EmptySeq DEF Injective, ToSet
  <2> QED BY <2>1, <2>2
<1>4. ToSet(s) = IF u \in DOMAIN q THEN ToSet(q[u].messages) ELSE {}
  BY EmptySeq DEF ToSet
<1> HIDE DEF s
<1>5. /\ t \in Seq(Message) /\ Len(s) \in Nat /\ DOMAIN s = 1..Len(s)
      /\ Len(t) = Len(s) + 1 /\ DOMAIN t = 1..(Len(s) + 1)
      /\ \A j \in 1..Len(s) : t[j] = s[j]
      /\ t[Len(s) + 1] = m
  BY <1>1, <1>3, AppendProperties, LenProperties
<1> HIDE DEF t
<1>6. m \notin ToSet(s)
  BY <1>1, <1>3
<1>7. Injective(t) /\ ToSet(t) = ToSet(s) \cup {m} /\ Last(t) = m
  <2>1. \A j \in 1..Len(s) : s[j] # m
    BY <1>5, <1>6 DEF ToSet
  <2>2. Injective(t)
    BY <1>3, <1>5, <2>1 DEF Injective
  <2>3. ToSet(t) = ToSet(s) \cup {m}
    BY <1>5 DEF ToSet
  <2> QED BY <1>5, <2>2, <2>3 DEF Last
<1>8. \A v : Has(v)' = (IF v \in DOMAIN q THEN ToSet(q[v].messages) ELSE {})
                       \cup (IF v = u THEN {m} ELSE {})
  <2> TAKE v
  <2>1. CASE v = u
    <3>1. Has(v)' = ToSet(t)
      BY <1>2, <2>1 DEF Has
    <3> QED BY <1>4, <1>7, <2>1, <3>1
  <2>2. CASE v # u
    <3>1. Has(v)' = IF v \in DOMAIN q THEN ToSet(q[v].messages) ELSE {}
      BY <1>2, <2>2 DEF Has
    <3> QED BY <2>2, <3>1
  <2> QED BY <2>1, <2>2
<1>9. Distinct(queues')
  <2>1. \A v \in DOMAIN queues' : Injective(queues'[v].messages)
    BY <1>2, <1>7 DEF Distinct
  <2>2. \A v \in DOMAIN q : m \notin ToSet(q[v].messages)
    BY <1>1 DEF Older
  <2>3. \A v \in DOMAIN queues' : ToSet(queues'[v].messages) =
            (IF v \in DOMAIN q THEN ToSet(q[v].messages) ELSE {}) \cup (IF v = u THEN {m} ELSE {})
    BY <1>2, <1>4, <1>7
  <2>4. \A v, w \in DOMAIN q : v # w =>
           ToSet(q[v].messages) \cap ToSet(q[w].messages) = {}
    BY DEF Distinct
  <2>5. ASSUME NEW v \in DOMAIN queues', NEW w \in DOMAIN queues', v # w
        PROVE  ToSet(queues'[v].messages) \cap ToSet(queues'[w].messages) = {}
    BY <1>2, <2>2, <2>3, <2>4, <2>5
  <2> QED BY <2>1, <2>5 DEF Distinct
<1> QED BY <1>2, <1>7, <1>8, <1>9

-----------------------------------------------------------------------------
(* Every step preserves HistoryInv.                                        *)

\* Where call' is the same call, the auxiliary record of what was queued stands.
LEMMA SameCall ==
    ASSUME call'.before = call.before,
           \A v : Has(v)' \subseteq Has(v) \cup (IF v = call.user THEN {call.msg} ELSE {}),
           Older(call.before, call.msg.id), call.msg.id \in Nat
    PROVE  /\ \A v : Had(v)' = Had(v)
           /\ \A v : LostBy(v) = Had(v) \ Has(v) /\ LostBy(v)' = Had(v) \ Has(v)'
           /\ \A v : LostBy(v) \subseteq LostBy(v)'
<1>1. \A v : Had(v)' = Had(v)
  BY DEF Had
<1>2. \A v : LostBy(v) = Had(v) \ Has(v) /\ LostBy(v)' = Had(v)' \ Has(v)'
  BY DEF LostBy, Had, Has
<1>3. \A v : call.msg \notin Had(v)
  BY DEF Had, Older
<1> QED BY <1>1, <1>2, <1>3

\* A removal by the call in progress: the message goes to what the call has cost.
LEMMA RemovalCosts ==
    ASSUME Inv, BytesInv, HistoryInv, call # Idle,
           NEW u \in Tracked, NEW i \in DOMAIN queues[u].messages, RemoveMessage(u, i),
           arrivals' = arrivals,
           \/ call' = [call EXCEPT !.displaced = @ + 1]
           \/ call' = [call EXCEPT !.trimmed = @ + 1],
           Admitted => u = call.user /\ i < Len(queues[u].messages)
    PROVE  /\ Distinct(queues') /\ Older(queues, arrivals)'
           /\ Shape' /\ Tracked' \subseteq Tracked
           /\ i < Len(queues[u].messages) =>
                 \A v : v = u => /\ v \in Tracked'
                                 /\ Last(queues'[v].messages) = Last(queues[v].messages)
           /\ call'.pc = call.pc /\ call'.user = call.user /\ call'.msg = call.msg
           /\ call'.before = call.before /\ call'.evicted = call.evicted
           /\ call'.displaced + call'.trimmed = call.displaced + call.trimmed + 1
           /\ Admitted' <=> Admitted
           /\ \A v : Has(v)' \subseteq Has(v)
           /\ \A v : Had(v)' = Had(v)
           /\ \A v : LostBy(v)' = Had(v) \ Has(v)'
           /\ \A v : v # u => LostBy(v)' = LostBy(v)
           /\ \A v : v = u => LostBy(v)' = LostBy(v) \cup {queues[u].messages[i]}
           /\ \A v : queues[u].messages[i] \notin LostBy(v)
<1> DEFINE m == queues[u].messages[i]
<1>1. /\ Shape /\ CountersExact /\ ByteCeilings /\ IsIntCall(call) /\ u \in User
      /\ call.msg.id \in Nat /\ call.displaced \in Nat /\ call.trimmed \in Nat
  <2>1. Shape /\ CountersExact /\ ByteCeilings /\ IsIntCall(call) /\ u \in User
    BY InvFacts, RunningCall DEF BytesInv, Shape, IsIntMap, Tracked
  <2>2. call.msg.id \in Nat
    BY <2>1 DEF IsIntCall, Message
  <2> QED BY <2>1, <2>2, RunningCall DEF IsIntCall
<1>2. /\ Distinct(queues) /\ Older(queues, arrivals)
      /\ NothingAppears /\ DropsCounted /\ BiggestPay
  BY DEF HistoryInv
<1>3. /\ Distinct(queues')
      /\ m \in Has(u)
      /\ \A v : v # u => Has(v)' = Has(v)
      /\ \A v : v = u => Has(v)' = Has(v) \ {m}
      /\ i < Len(queues[u].messages) =>
            \A v : v = u => /\ v \in Tracked'
                            /\ Last(queues'[v].messages) = Last(queues[v].messages)
  BY <1>1, <1>2, RemoveMessageTakes
<1>4. Shape' /\ Tracked' \subseteq Tracked
  BY <1>1, RemoveMessageKeepsShape
<1>5. /\ call'.pc = call.pc /\ call'.user = call.user /\ call'.msg = call.msg
      /\ call'.before = call.before /\ call'.evicted = call.evicted
      /\ call'.displaced + call'.trimmed = call.displaced + call.trimmed + 1
      /\ Admitted' <=> Admitted
  <2>1. /\ call'.pc = call.pc /\ call'.user = call.user /\ call'.msg = call.msg
        /\ call'.before = call.before /\ call'.evicted = call.evicted
    BY <1>1 DEF IsIntCall
  <2>2. call'.displaced + call'.trimmed = call.displaced + call.trimmed + 1
    BY <1>1 DEF IsIntCall
  <2> QED BY <2>1, <2>2 DEF Admitted
<1> HIDE DEF m
<1>6. \A v : Has(v)' \subseteq Has(v)
  BY <1>3
<1>7. Older(queues, arrivals)' 
  <2>1. \A v \in Tracked' : ToSet(queues'[v].messages) \subseteq ToSet(queues[v].messages)
    BY <1>4, <1>6 DEF Has
  <2> QED BY <1>2, <1>4, <2>1 DEF Older, Tracked
<1>8. /\ \A v : Had(v)' = Had(v)
      /\ \A v : LostBy(v) = Had(v) \ Has(v) /\ LostBy(v)' = Had(v) \ Has(v)'
      /\ \A v : LostBy(v) \subseteq LostBy(v)'
  BY <1>1, <1>2, <1>5, <1>6, SameCall DEF NothingAppears
\* The message that goes had been there when the lock was taken.
<1>9. m \in Had(u)
  <2>1. CASE ~Admitted
    BY <1>1, <1>2, <1>3, <2>1 DEF NothingAppears
  <2>2. CASE Admitted
    <3>1. u = call.user /\ i < Len(queues[u].messages) /\ Last(queues[u].messages) = call.msg
      BY <1>2, <2>2 DEF NothingAppears
    <3>2. /\ Injective(queues[u].messages) /\ i \in DOMAIN queues[u].messages
          /\ queues[u].messages \in Seq(Message)
      BY <1>1, <1>2 DEF Distinct, Tracked, Shape, IsIntMap, IntQueue
    <3>3. Len(queues[u].messages) \in Nat
          /\ DOMAIN queues[u].messages = 1..Len(queues[u].messages)
      BY <3>2, LenProperties
    <3>4. m # call.msg
      BY <3>1, <3>2, <3>3 DEF Injective, Last, m
    <3> QED BY <1>1, <1>2, <1>3, <3>4 DEF NothingAppears
  <2> QED BY <2>1, <2>2
<1>10. /\ \A v : v # u => LostBy(v)' = LostBy(v)
       /\ \A v : v = u => LostBy(v)' = LostBy(v) \cup {m}
  <2>1. \A v : LostBy(v) = Had(v) \ Has(v) /\ LostBy(v)' = Had(v) \ Has(v)'
    BY <1>8
  <2>2. \A v : v # u => LostBy(v)' = LostBy(v)
    BY <1>3, <2>1
  <2>3. ASSUME NEW v, v = u PROVE LostBy(v)' = LostBy(v) \cup {m}
    <3>1. Has(v)' = Has(v) \ {m} /\ m \in Has(v) /\ m \in Had(v)
      BY <1>3, <1>9, <2>3
    <3> QED BY <2>1, <3>1
  <2> QED BY <2>2, <2>3
<1>11. \A v : m \notin LostBy(v)
  <2> SUFFICES ASSUME NEW v, m \in LostBy(v) PROVE FALSE
    OBVIOUS
  <2>1. m \in Had(v) /\ m \notin Has(v)
    BY <1>8
  <2>2. v # u
    BY <1>3, <2>1
  <2> QED BY <1>2, <1>9, <2>1, <2>2 DEF NothingAppears, Distinct, Had
<1> QED BY <1>3, <1>4, <1>5, <1>6, <1>7, <1>8, <1>10, <1>11 DEF m

\* It keeps the books of what the call has cost.
LEMMA RemovalKeepsHistory ==
    ASSUME Inv, BytesInv, HistoryInv, call # Idle,
           NEW u \in Tracked, NEW i \in DOMAIN queues[u].messages, RemoveMessage(u, i),
           arrivals' = arrivals,
           \/ call' = [call EXCEPT !.displaced = @ + 1]
           \/ call' = [call EXCEPT !.trimmed = @ + 1],
           Admitted => u = call.user /\ i < Len(queues[u].messages),
           u # call.user => u \in LargestHolders(call.msg.kind)
    PROVE  HistoryInv'
<1> DEFINE m == queues[u].messages[i]
<1>1. /\ Shape /\ CountersExact /\ ByteCeilings /\ IsIntCall(call) /\ u \in User
      /\ call.user \in User /\ call.msg.kind \in Kind /\ call.msg.bytes \in Nat
      /\ call.msg.id \in Nat /\ call.evicted \in SUBSET User
      /\ call.displaced \in Nat /\ call.trimmed \in Nat
  <2>1. Shape /\ CountersExact /\ ByteCeilings /\ IsIntCall(call) /\ u \in User
    BY InvFacts, RunningCall DEF BytesInv, Shape, IsIntMap, Tracked
  <2>2. call.msg.id \in Nat
    BY <2>1 DEF IsIntCall, Message
  <2> QED BY <2>1, <2>2, RunningCall DEF IsIntCall
<1>2. /\ Distinct(queues) /\ Older(queues, arrivals)
      /\ NothingAppears /\ DropsCounted /\ BiggestPay
  BY DEF HistoryInv
<1>3. /\ Distinct(queues') /\ Older(queues, arrivals)'
      /\ Shape' /\ Tracked' \subseteq Tracked
      /\ i < Len(queues[u].messages) =>
            \A v : v = u => /\ v \in Tracked'
                            /\ Last(queues'[v].messages) = Last(queues[v].messages)
  BY RemovalCosts
<1>4. /\ call'.pc = call.pc /\ call'.user = call.user /\ call'.msg = call.msg
      /\ call'.before = call.before /\ call'.evicted = call.evicted
      /\ call'.displaced + call'.trimmed = call.displaced + call.trimmed + 1
      /\ Admitted' <=> Admitted
  BY RemovalCosts
<1>5. /\ \A v : Has(v)' \subseteq Has(v)
      /\ \A v : Had(v)' = Had(v)
      /\ \A v : LostBy(v)' = Had(v) \ Has(v)'
      /\ \A v : v # u => LostBy(v)' = LostBy(v)
      /\ \A v : v = u => LostBy(v)' = LostBy(v) \cup {m}
      /\ \A v : m \notin LostBy(v)
  BY RemovalCosts
<1> HIDE DEF m
<1>6. NothingAppears'
  <2>1. Distinct(call.before)' /\ Older(call.before, call.msg.id)' /\ (call.msg.id < arrivals)'
    BY <1>2, <1>4 DEF NothingAppears, Distinct, Older
  <2>2. \A v \in User : Has(v)' \subseteq
           Had(v)' \cup (IF Admitted' /\ v = call'.user THEN {call'.msg} ELSE {})
    BY <1>2, <1>4, <1>5 DEF NothingAppears
  <2>3. ~Admitted' => call'.evicted = {}
    BY <1>2, <1>4 DEF NothingAppears
  <2>4. Admitted' => call'.user \in Tracked' /\ Last(queues'[call'.user].messages) = call'.msg
    BY <1>2, <1>3, <1>4 DEF NothingAppears
  <2>5. call'.evicted \cap Tracked' = {}
    BY <1>2, <1>3, <1>4 DEF NothingAppears
  <2> QED BY <2>1, <2>2, <2>3, <2>4, <2>5 DEF NothingAppears
<1>7. DropsCounted'
  <2> DEFINE lost == LostOutside({})
             away == LostOutside(call.evicted)
  <2>1. /\ IsFiniteSet(lost) /\ away \subseteq lost /\ m \notin lost /\ m \notin away
    BY <1>2, <1>5 DEF LostOutside, DropsCounted
  <2>2. LostOutside({})' = lost \cup {m}
    BY <1>1, <1>5 DEF LostOutside
  <2>3. LostOutside(call.evicted)' \subseteq away \cup {m}
    BY <1>4, <1>5 DEF LostOutside
  <2>4. /\ Cardinality(away) <= call.displaced + call.trimmed
        /\ call.displaced + call.trimmed <= Cardinality(lost)
    BY <1>2 DEF DropsCounted
  <2> HIDE DEF lost, away
  <2>5. IsFiniteSet(away) /\ Cardinality(away) \in Nat /\ Cardinality(lost) \in Nat
    BY <2>1, FS_Subset, FS_CardinalityType
  <2>6. /\ IsFiniteSet(lost \cup {m}) /\ Cardinality(lost \cup {m}) = Cardinality(lost) + 1
        /\ IsFiniteSet(away \cup {m}) /\ Cardinality(away \cup {m}) = Cardinality(away) + 1
    BY <2>1, <2>5, FS_AddElement
  <2> DEFINE after == LostOutside(call.evicted)'
  <2>7. Cardinality(after) <= Cardinality(away \cup {m}) /\ Cardinality(after) \in Nat
    <3> HIDE DEF after
    <3>1. after \subseteq away \cup {m}
      BY <2>3 DEF after
    <3> QED BY <2>6, <3>1, FS_Subset, FS_CardinalityType
  <2>8. Cardinality(after) <= call'.displaced + call'.trimmed
    <3> HIDE DEF after
    <3> QED BY <1>1, <1>4, <2>4, <2>5, <2>6, <2>7
  <2>9. /\ IsFiniteSet(LostOutside({})')
        /\ call'.displaced + call'.trimmed <= Cardinality(LostOutside({})')
    <3>1. /\ IsFiniteSet(LostOutside({})')
          /\ Cardinality(LostOutside({})') = Cardinality(lost \cup {m})
      BY <2>2, <2>6, Zenon
    <3> QED BY <1>1, <1>4, <2>4, <2>5, <2>6, <3>1
  <2> QED BY <2>8, <2>9 DEF DropsCounted
<1>8. BiggestPay'
  <2>0. PICK k : k = call.msg.kind
    OBVIOUS
  <2>1. \A v : /\ Held(v, k)' <= Held(v, k) /\ Held(v, k)' \in Int /\ Held(v, k) \in Nat
    <3>1. \A v : \A l \in Kind : Held(v, l)' <= Held(v, l) /\ Held(v, l)' \in Int
      BY <1>1, RemovalKeepsBytes
    <3>2. \A v : \A l \in Kind : Held(v, l) \in Nat
      BY <1>1, HeldFacts
    <3> QED BY <1>1, <2>0, <3>1, <3>2
  <2>2. \A v : /\ LeftTo(v)' <= LeftTo(v) /\ LeftTo(v)' \in Int /\ LeftTo(v) \in Int
    <3> TAKE v
    <3>1. LeftTo(v)' = Held(v, k)' - (IF Admitted /\ v = call.user THEN call.msg.bytes ELSE 0)
      BY <1>4, <2>0 DEF LeftTo
    <3>2. LeftTo(v) = Held(v, k) - (IF Admitted /\ v = call.user THEN call.msg.bytes ELSE 0)
      BY <2>0 DEF LeftTo
    <3>3. call.msg.bytes \in Int
      BY <1>1
    <3> QED BY <2>1, <3>1, <3>2, <3>3
  <2>3. IsIntMap(call.before)
    BY <1>1 DEF IsIntCall
  <2>4. \A w \in DOMAIN call.before : call.before[w].bytes[k] \in Int
    BY <1>1, <2>0, <2>3 DEF IsIntMap, IntQueue
  <2> SUFFICES ASSUME NEW w \in User \ ({call.user} \cup call.evicted)
               PROVE  /\ w \in Tracked' => /\ w \in DOMAIN call.before
                                           /\ Held(w, k)' <= call.before[w].bytes[k]
                      /\ LostBy(w)' # {} =>
                           \A v \in User : LeftTo(v)' <= call.before[w].bytes[k]
    BY <1>4, <2>0 DEF BiggestPay
  <2>5. w \in Tracked => w \in DOMAIN call.before /\ Held(w, k) <= call.before[w].bytes[k]
    BY <1>2, <2>0 DEF BiggestPay
  <2>6. w \in Tracked' => w \in DOMAIN call.before /\ Held(w, k)' <= call.before[w].bytes[k]
    BY <1>3, <2>1, <2>4, <2>5
  <2>7. ASSUME LostBy(w)' # {}, NEW v \in User PROVE LeftTo(v)' <= call.before[w].bytes[k]
    <3>1. w \in DOMAIN call.before
      BY <1>5, <2>7 DEF Had
    <3>2. LeftTo(v) <= call.before[w].bytes[k]
      <4>1. CASE w # u
        BY <1>2, <1>5, <2>0, <2>7, <4>1 DEF BiggestPay
      <4>2. CASE w = u
        <5>1. ~Admitted /\ u \in LargestHolders(k)
          BY <2>0, <4>2
        <5>2. LeftTo(v) = Held(v, k)
          BY <2>0, <2>1, <5>1 DEF LeftTo
        <5>3. Held(v, k) <= Held(u, k)
          <6>1. Held(u, k) > 0 /\ \A x \in Tracked : Held(x, k) <= Held(u, k)
            BY <5>1 DEF LargestHolders
          <6>2. v \notin Tracked => Held(v, k) = 0
            BY DEF Held
          <6> QED BY <2>1, <6>1, <6>2
        <5>4. Held(u, k) <= call.before[w].bytes[k]
          BY <2>5, <4>2
        <5> QED BY <2>1, <2>4, <3>1, <5>2, <5>3, <5>4
      <4> QED BY <4>1, <4>2
    <3> QED BY <2>2, <2>4, <3>1, <3>2
  <2> QED BY <2>6, <2>7
<1>9. call' # Idle
  <2>1. call'.pc # "idle"
    BY <1>4, RunningCall
  <2> QED BY <2>1 DEF Idle
<1> QED BY <1>3, <1>6, <1>7, <1>8 DEF HistoryInv

\* What an admission to the queues left by an eviction costs: the evicted queue.
LEMMA AdmissionCosts ==
    ASSUME Inv, BytesInv, HistoryInv, call # Idle, call.pc = "admit", NEW q, NEW o, NEW b, NEW e,
           IsIntMap(q), \A u \in DOMAIN q : q[u] = queues[u],
           e \subseteq Tracked \ {call.user}, DOMAIN q = Tracked \ e, AdmitTo(q, o, b, e)
    PROVE  /\ Distinct(queues') /\ Older(queues, arrivals)'
           /\ Tracked' = (Tracked \ e) \cup {call.user}
           /\ \A v : v = call.user => v \in Tracked' /\ Last(queues'[v].messages) = call.msg
           /\ call'.pc = "trim_to_cap" /\ call'.user = call.user /\ call'.msg = call.msg
           /\ call'.before = call.before /\ call'.evicted = e
           /\ call'.displaced = call.displaced /\ call'.trimmed = call.trimmed
           /\ arrivals' = arrivals /\ Admitted' /\ ~Admitted /\ call.evicted = {}
           /\ \A v : Has(v)' \subseteq
                 Had(v) \cup (IF v = call.user THEN {call.msg} ELSE {})
           /\ \A v : Had(v)' = Had(v)
           /\ \A v : LostBy(v)' = Had(v) \ Has(v)'
           /\ \A v : v \notin e => LostBy(v)' = LostBy(v)
           /\ \A v \in e : LostBy(v)' = LostBy(v) \cup Has(v)
<1>1. /\ Shape /\ CountersExact /\ IsIntCall(call) /\ IsIntMap(call.before)
      /\ call.msg.id \in Nat
      /\ Tracked \subseteq User
  <2>1. Shape /\ CountersExact /\ IsIntCall(call)
    BY InvFacts, RunningCall DEF BytesInv
  <2>2. call.msg.id \in Nat
    BY <2>1 DEF IsIntCall, Message
  <2> QED BY <2>1, <2>2, RunningCall DEF IsIntCall, Shape, IsIntMap, Tracked
<1>2. /\ Distinct(queues) /\ Older(queues, arrivals)
      /\ NothingAppears /\ DropsCounted /\ BiggestPay
  BY DEF HistoryInv
<1>3. ~Admitted /\ call.evicted = {}
  BY <1>2 DEF Admitted, NothingAppears
<1>4. /\ call'.pc = "trim_to_cap" /\ call'.user = call.user /\ call'.msg = call.msg
      /\ call'.before = call.before /\ call'.evicted = e
      /\ call'.displaced = call.displaced /\ call'.trimmed = call.trimmed
      /\ arrivals' = arrivals /\ Admitted'
  BY <1>1 DEF AdmitTo, IsIntCall, Admitted
<1>5. \A v : Has(v) \subseteq Had(v)
  BY <1>1, <1>2, <1>3 DEF NothingAppears, Has
<1>6. Distinct(q) /\ Older(q, call.msg.id)
  <2>1. Older(q, call.msg.id)
    <3> SUFFICES ASSUME NEW v \in DOMAIN q, NEW x \in ToSet(q[v].messages)
                 PROVE  x.id < call.msg.id
      BY DEF Older
    <3>1. x \in Had(v)
      BY <1>5 DEF Has
    <3> QED BY <1>2, <3>1 DEF NothingAppears, Older, Had
  <2>2. Distinct(q)
    BY <1>2 DEF Distinct, Tracked
  <2> QED BY <2>1, <2>2
<1>7. /\ Distinct(queues')
      /\ \A v : Has(v)' = (IF v \in DOMAIN q THEN ToSet(q[v].messages) ELSE {})
                          \cup (IF v = call.user THEN {call.msg} ELSE {})
      /\ \A v : v = call.user => v \in Tracked' /\ Last(queues'[v].messages) = call.msg
  BY <1>1, <1>6, AdmitToPuts
<1>8. Tracked' = DOMAIN q \cup {call.user}
  BY DEF AdmitTo, Tracked
<1>9. \A v : Has(v)' = (IF v \in e THEN {} ELSE Has(v))
                       \cup (IF v = call.user THEN {call.msg} ELSE {})
  <2>1. \A v : (IF v \in DOMAIN q THEN ToSet(q[v].messages) ELSE {})
                 = IF v \in e THEN {} ELSE Has(v)
    BY DEF Has
  <2> QED BY <1>7, <2>1
<1>10. Older(queues, arrivals)'
  <2> SUFFICES ASSUME NEW v \in Tracked', NEW x \in ToSet(queues'[v].messages)
               PROVE  x.id < arrivals
    BY <1>4 DEF Older, Tracked
  <2>1. x \in Has(v)'
    BY DEF Has
  <2>2. x = call.msg \/ (v \in Tracked /\ x \in ToSet(queues[v].messages))
    BY <1>9, <2>1 DEF Has
  <2> QED BY <1>2, <2>2 DEF NothingAppears, Older, Tracked
<1>11. /\ \A v : Had(v)' = Had(v)
       /\ \A v : LostBy(v) = Had(v) \ Has(v) /\ LostBy(v)' = Had(v) \ Has(v)'
       /\ \A v : LostBy(v) \subseteq LostBy(v)'
  <2>1. \A v : Has(v)' \subseteq Has(v) \cup (IF v = call.user THEN {call.msg} ELSE {})
    BY <1>9
  <2> QED BY <1>1, <1>2, <1>4, <2>1, SameCall DEF NothingAppears
<1>12. \A v : v \notin e => LostBy(v)' = LostBy(v)
  <2>1. \A v : call.msg \notin Had(v)
    BY <1>1, <1>2 DEF NothingAppears, Older, Had
  <2> QED BY <1>9, <1>11, <2>1
<1>13. \A v \in e : LostBy(v)' = LostBy(v) \cup Has(v)
  BY <1>5, <1>9, <1>11
<1> QED BY <1>3, <1>4, <1>5, <1>7, <1>8, <1>9, <1>10, <1>11, <1>12, <1>13

\* It keeps the books of what the call has cost.
LEMMA AdmissionKeepsHistory ==
    ASSUME Inv, BytesInv, HistoryInv, call # Idle, call.pc = "admit", NEW q, NEW o, NEW b, NEW e,
           IsIntMap(q), \A u \in DOMAIN q : q[u] = queues[u],
           e \subseteq Tracked \ {call.user}, DOMAIN q = Tracked \ e, AdmitTo(q, o, b, e),
           IsFiniteSet(UNION {Has(v) : v \in e}), \A k \in Kind : b[k] = Total(q, k),
           b \in [Kind -> Int]
    PROVE  HistoryInv'
<1>1. /\ Shape /\ CountersExact /\ IsIntCall(call) /\ IsIntMap(call.before)
      /\ call.user \in User /\ call.msg.kind \in Kind /\ call.msg.bytes \in Nat
      /\ call.msg.id \in Nat /\ call.displaced \in Nat /\ call.trimmed \in Nat
      /\ Tracked \subseteq User
  <2>1. Shape /\ CountersExact /\ IsIntCall(call)
    BY InvFacts, RunningCall DEF BytesInv
  <2>2. call.msg.id \in Nat
    BY <2>1 DEF IsIntCall, Message
  <2> QED BY <2>1, <2>2, RunningCall DEF IsIntCall, Shape, IsIntMap, Tracked
<1>2. /\ Distinct(queues) /\ Older(queues, arrivals)
      /\ NothingAppears /\ DropsCounted /\ BiggestPay
  BY DEF HistoryInv
<1>3. /\ Distinct(queues') /\ Older(queues, arrivals)'
      /\ Tracked' = (Tracked \ e) \cup {call.user}
      /\ \A v : v = call.user => v \in Tracked' /\ Last(queues'[v].messages) = call.msg
  BY AdmissionCosts
<1>4. /\ call'.pc = "trim_to_cap" /\ call'.user = call.user /\ call'.msg = call.msg
      /\ call'.before = call.before /\ call'.evicted = e
      /\ call'.displaced = call.displaced /\ call'.trimmed = call.trimmed
      /\ arrivals' = arrivals /\ Admitted' /\ ~Admitted /\ call.evicted = {}
  BY AdmissionCosts
<1>5. /\ \A v : Has(v)' \subseteq Had(v) \cup (IF v = call.user THEN {call.msg} ELSE {})
      /\ \A v : Had(v)' = Had(v)
      /\ \A v : LostBy(v)' = Had(v) \ Has(v)'
      /\ \A v : v \notin e => LostBy(v)' = LostBy(v)
      /\ \A v \in e : LostBy(v)' = LostBy(v) \cup Has(v)
  BY AdmissionCosts
<1>6. NothingAppears'
  <2>1. Distinct(call.before)' /\ Older(call.before, call.msg.id)' /\ (call.msg.id < arrivals)'
    BY <1>2, <1>4 DEF NothingAppears, Distinct, Older
  <2>2. \A v \in User : Has(v)' \subseteq
           Had(v)' \cup (IF Admitted' /\ v = call'.user THEN {call'.msg} ELSE {})
    BY <1>4, <1>5
  <2>3. Admitted' => call'.user \in Tracked' /\ Last(queues'[call'.user].messages) = call'.msg
    BY <1>4, <1>3
  <2>4. call'.evicted \cap Tracked' = {}
    BY <1>4, <1>3
  <2> QED BY <1>4, <2>1, <2>2, <2>3, <2>4 DEF NothingAppears
<1>7. DropsCounted'
  <2> DEFINE lost == LostOutside({})
             after == LostOutside({})'
             away == LostOutside(e)'
             extra == UNION {Has(v) : v \in e}
  <2>1. /\ IsFiniteSet(lost) /\ IsFiniteSet(extra)
        /\ Cardinality(lost) <= call.displaced + call.trimmed
        /\ call.displaced + call.trimmed <= Cardinality(lost)
    BY <1>2, <1>4 DEF DropsCounted
  <2>2. after \subseteq lost \cup extra
    BY <1>1, <1>5 DEF LostOutside
  <2>3. lost \subseteq after
    BY <1>5 DEF LostOutside
  <2>4. LostOutside(call.evicted)' \subseteq lost
    BY <1>4, <1>5 DEF LostOutside
  <2> DEFINE out == LostOutside(call.evicted)'
  <2> HIDE DEF lost, after, extra, out
  <2>5. IsFiniteSet(after) /\ Cardinality(lost) <= Cardinality(after)
        /\ Cardinality(lost) \in Nat /\ Cardinality(after) \in Nat
    <3>1. IsFiniteSet(lost \cup extra)
      BY <2>1, FS_Union
    <3>2. IsFiniteSet(after)
      BY <2>2, <3>1, FS_Subset
    <3> QED BY <2>1, <2>3, <3>2, FS_Subset, FS_CardinalityType
  <2>6. Cardinality(out) <= Cardinality(lost) /\ Cardinality(out) \in Nat
    <3>1. out \subseteq lost
      BY <2>4 DEF out
    <3> QED BY <2>1, <3>1, FS_Subset, FS_CardinalityType
  <2>7. /\ Cardinality(out) <= call'.displaced + call'.trimmed
        /\ call'.displaced + call'.trimmed <= Cardinality(after)
    BY <1>1, <1>4, <2>1, <2>5, <2>6
  <2> QED BY <2>5, <2>7 DEF DropsCounted, after, out
<1>8. BiggestPay'
  <2>0. PICK k : k = call.msg.kind
    OBVIOUS
  <2>1. \A v : /\ Held(v, k)' = (IF v \in DOMAIN q THEN q[v].bytes[k] ELSE 0)
                                + (IF v = call.user THEN call.msg.bytes ELSE 0)
               /\ Held(v, k) \in Nat
    <3>1. IsFiniteSet(DOMAIN q) /\ ExactQueues(q)
      <4>1. IsFiniteSet(DOMAIN q)
        BY <1>1, TrackedFinite, FS_Subset
      <4>2. ExactQueues(queues)
        BY <1>1, ExactFacts
      <4> QED BY <4>1, <4>2 DEF ExactQueues, Tracked
    <3>2. \A l \in Kind : \A v :
             Held(v, l)' = (IF v \in DOMAIN q THEN q[v].bytes[l] ELSE 0)
                           + (IF v = call.user THEN Weight(call.msg, l) ELSE 0)
      BY <1>1, <3>1, AdmitToKeepsExact
    <3>3. Weight(call.msg, k) = call.msg.bytes /\ k \in Kind
      BY <1>1, <2>0 DEF Weight
    <3> QED BY <1>1, <3>2, <3>3, HeldFacts
  <2>2. \A v : /\ v \notin e => (IF v \in DOMAIN q THEN q[v].bytes[k] ELSE 0) = Held(v, k)
               /\ v \in e => (IF v \in DOMAIN q THEN q[v].bytes[k] ELSE 0) = 0
    BY DEF Held
  <2>3. \A v : LeftTo(v)' <= LeftTo(v) /\ LeftTo(v)' \in Int /\ LeftTo(v) \in Int
    <3> TAKE v
    <3>1. LeftTo(v)' = Held(v, k)' - (IF v = call.user THEN call.msg.bytes ELSE 0)
      BY <1>4, <2>0 DEF LeftTo
    <3>2. LeftTo(v) = Held(v, k)
      BY <1>4, <2>0, <2>1 DEF LeftTo
    <3>3. LeftTo(v)' = IF v \in e THEN 0 ELSE Held(v, k)
      <4>1. CASE v = call.user
        <5>1. v \notin e /\ Held(v, k)' = Held(v, k) + call.msg.bytes
          BY <2>1, <2>2, <4>1
        <5> QED BY <1>1, <2>1, <3>1, <4>1, <5>1
      <4>2. CASE v # call.user
        <5>1. Held(v, k)' = (IF v \in e THEN 0 ELSE Held(v, k)) + 0
          BY <2>1, <2>2, <4>2
        <5> QED BY <2>1, <3>1, <4>2, <5>1
      <4> QED BY <4>1, <4>2
    <3> QED BY <2>1, <3>2, <3>3
  <2>4. \A w \in DOMAIN call.before : call.before[w].bytes[k] \in Int
    BY <1>1, <2>0 DEF IsIntMap, IntQueue
  <2> SUFFICES ASSUME NEW w \in User \ ({call.user} \cup e)
               PROVE  /\ w \in Tracked' => /\ w \in DOMAIN call.before
                                           /\ Held(w, k)' <= call.before[w].bytes[k]
                      /\ LostBy(w)' # {} =>
                           \A v \in User : LeftTo(v)' <= call.before[w].bytes[k]
    BY <1>4, <2>0 DEF BiggestPay
  <2>5. /\ w \in Tracked => w \in DOMAIN call.before /\ Held(w, k) <= call.before[w].bytes[k]
        /\ LostBy(w) # {} => \A v \in User : LeftTo(v) <= call.before[w].bytes[k]
    BY <1>2, <1>4, <2>0 DEF BiggestPay
  <2>6. w \in Tracked' => w \in Tracked /\ Held(w, k)' = Held(w, k)
    BY <1>3, <2>1, <2>2
  <2>7. ASSUME LostBy(w)' # {}, NEW v \in User PROVE LeftTo(v)' <= call.before[w].bytes[k]
    <3>1. LostBy(w) # {} /\ w \in DOMAIN call.before
      BY <1>5, <2>7 DEF Had
    <3> QED BY <2>3, <2>4, <2>5, <3>1
  <2> QED BY <2>5, <2>6, <2>7
<1> QED BY <1>3, <1>6, <1>7, <1>8 DEF HistoryInv

LEMMA AdmitKeepsHistory == Inv /\ BytesInv /\ HistoryInv /\ Admit => HistoryInv'
<1> SUFFICES ASSUME Inv, BytesInv, HistoryInv, Admit PROVE HistoryInv'
  OBVIOUS
<1>1. call.pc = "admit" /\ call # Idle /\ AdmitTo(queues, order, bytes, {})
  BY DEF Admit, Idle
<1>2. Shape /\ CountersExact
  BY InvFacts DEF BytesInv
<1>3. IsIntMap(queues) /\ bytes \in [Kind -> Int] /\ \A k \in Kind : bytes[k] = Total(queues, k)
  BY <1>2, ExactFacts DEF Shape
<1>4. DOMAIN queues = Tracked \ {} /\ {} \subseteq Tracked \ {call.user}
  BY DEF Tracked
<1>5. IsFiniteSet(UNION {Has(v) : v \in {}})
  <2>1. UNION {Has(v) : v \in {}} = {}
    OBVIOUS
  <2> QED BY <2>1, FS_EmptySet
<1> QED BY <1>1, <1>3, <1>4, <1>5, AdmissionKeepsHistory

LEMMA AdmitEvictingKeepsHistory == Inv /\ BytesInv /\ HistoryInv /\ AdmitEvicting => HistoryInv'
<1> SUFFICES ASSUME Inv, BytesInv, HistoryInv, AdmitEvicting PROVE HistoryInv'
  OBVIOUS
<1>1. call.pc = "admit" /\ call # Idle /\ call.user \notin Tracked
  BY DEF AdmitEvicting, MustEvict, Idle
<1>2. PICK i \in DOMAIN order :
        /\ IsEvicted(order[i], i)
        /\ AdmitTo([v \in Tracked \ {order[i]} |-> queues[v]],
                   SubSeq(order, i + 1, Len(order)),
                   [k \in Kind |-> bytes[k] - queues[order[i]].bytes[k]],
                   {order[i]})
  BY DEF AdmitEvicting
<1> DEFINE gone == order[i]
           q == [v \in Tracked \ {gone} |-> queues[v]]
           o == SubSeq(order, i + 1, Len(order))
           b == [k \in Kind |-> bytes[k] - queues[gone].bytes[k]]
<1>3. Shape /\ CountersExact /\ gone \in Tracked
  BY <1>2, InvFacts DEF BytesInv, IsEvicted
<1>4. IsIntMap(q) /\ DOMAIN q = Tracked \ {gone} /\ \A v \in DOMAIN q : q[v] = queues[v]
  BY <1>3 DEF IsIntMap, Shape, Tracked
<1>5. AdmitTo(q, o, b, {gone}) /\ {gone} \subseteq Tracked \ {call.user}
  BY <1>1, <1>2, <1>3
<1>6. b \in [Kind -> Int] /\ \A k \in Kind : b[k] = Total(q, k)
  <2>1. /\ IsFiniteSet(DOMAIN queues) /\ DOMAIN queues = Tracked
        /\ \A k \in Kind : bytes[k] = Total(queues, k)
    BY <1>3, TrackedFinite, ExactFacts DEF Tracked
  <2>2. \A v \in Tracked, k \in Kind : queues[v].bytes[k] \in Nat /\ bytes[k] \in Nat
    BY <1>3, HeldFacts DEF Held
  <2>3. ASSUME NEW k \in Kind PROVE b[k] = Total(q, k)
    <3>1. gone \in DOMAIN queues /\ \A v \in DOMAIN queues : queues[v].bytes[k] \in Int
      BY <1>3, <2>1, <2>2
    <3>2. Total([v \in DOMAIN queues \ {gone} |-> queues[v]], k)
             = Total(queues, k) - queues[gone].bytes[k]
      <4> HIDE DEF gone
      <4> QED BY <2>1, <3>1, TotalWithout
    <3>3. Total(q, k) = Total(queues, k) - queues[gone].bytes[k]
      BY <2>1, <3>2
    <3>4. b[k] = bytes[k] - queues[gone].bytes[k]
      OBVIOUS
    <3> HIDE DEF q, b, gone
    <3> QED BY <2>1, <3>3, <3>4
  <2>4. b \in [Kind -> Int]
    BY <1>3, <2>2
  <2> QED BY <2>3, <2>4
<1>7. IsFiniteSet(UNION {Has(v) : v \in {gone}})
  <2> DEFINE s == queues[gone].messages
  <2>1. s \in Seq(Message)
    BY <1>3 DEF Shape, IsIntMap, Tracked, IntQueue
  <2>2. UNION {Has(v) : v \in {gone}} = ToSet(s)
    BY <1>3 DEF Has
  <2> HIDE DEF s, gone
  <2>3. s \in [1..Len(s) -> Message] /\ Len(s) \in Nat /\ DOMAIN s = 1..Len(s)
    BY <2>1, LenProperties
  <2>4. s \in Surjection(1..Len(s), ToSet(s))
    BY <2>3 DEF Surjection, ToSet
  <2>5. IsFiniteSet(ToSet(s))
    BY <2>3, <2>4, FS_Interval, FS_Surjection
  <2> QED BY <2>2, <2>5
<1> HIDE DEF q, o, b, gone
<1> QED BY <1>1, <1>4, <1>5, <1>6, <1>7, AdmissionKeepsHistory

\* What is queued has an id.
LEMMA QueuedIds ==
    ASSUME Shape
    PROVE  \A v \in DOMAIN queues : \A m \in ToSet(queues[v].messages) : m.id \in Nat
<1> SUFFICES ASSUME NEW v \in DOMAIN queues, NEW m \in ToSet(queues[v].messages)
             PROVE  m.id \in Nat
  OBVIOUS
<1>1. queues[v].messages \in Seq(Message)
  BY DEF Shape, IsIntMap, IntQueue
<1>2. m \in Message
  BY <1>1, ElementOfSeq, LenProperties DEF ToSet
<1> QED BY <1>2 DEF Message

\* When the lock is taken nothing is lost yet.
LEMMA EnqueueStartKeepsHistory ==
    ASSUME Inv, HistoryInv, NEW u \in User, NEW k \in Kind, NEW b \in Size, EnqueueStart(u, k, b)
    PROVE  HistoryInv'
<1>1. /\ call'.pc = "trim_user_budget" /\ call'.msg = Offered(k, b) /\ call'.before = queues
      /\ call'.user = u /\ call'.evicted = {} /\ call'.displaced = 0 /\ call'.trimmed = 0
      /\ Offered(k, b).id = arrivals /\ arrivals' = arrivals + 1
      /\ UNCHANGED <<queues, order, bytes>>
  BY DEF EnqueueStart, Offered
<1>2. /\ Distinct(queues) /\ Older(queues, arrivals) /\ Shape /\ arrivals \in Nat
  BY InvFacts DEF HistoryInv
<1>3. \A v \in DOMAIN queues : \A m \in ToSet(queues[v].messages) : m.id \in Nat
  BY <1>2, QueuedIds
<1>4. Older(queues, arrivals)'
  BY <1>1, <1>2, <1>3 DEF Older
<1>5. \A v : Had(v)' = Has(v) /\ Has(v)' = Has(v) /\ LostBy(v)' = {}
  BY <1>1 DEF Had, Has, LostBy, Tracked
<1>6. ~Admitted'
  BY <1>1 DEF Admitted
<1>7. NothingAppears'
  <2>1. Distinct(call.before)' /\ Older(call.before, call.msg.id)' /\ (call.msg.id < arrivals)'
    BY <1>1, <1>2 DEF Distinct, Older
  <2> QED BY <1>1, <1>5, <1>6, <2>1 DEF NothingAppears
<1>8. DropsCounted'
  <2>1. \A S : LostOutside(S)' = {}
    BY <1>5 DEF LostOutside
  <2>2. LostOutside({})' = {} /\ LostOutside(call.evicted)' = {}
    BY <2>1, <1>5 DEF LostOutside
  <2>3. Cardinality({}) = 0 /\ IsFiniteSet({})
    BY FS_EmptySet
  <2> QED BY <1>1, <2>2, <2>3 DEF DropsCounted
<1>9. BiggestPay'
  <2>1. \A v \in Tracked : /\ v \in DOMAIN queues
                           /\ Held(v, k) <= queues[v].bytes[k] /\ Held(v, k)' = Held(v, k)
    <3> SUFFICES ASSUME NEW v \in Tracked
                 PROVE  /\ v \in DOMAIN queues
                        /\ Held(v, k) <= queues[v].bytes[k] /\ Held(v, k)' = Held(v, k)
      OBVIOUS
    <3>1. queues[v].bytes[k] \in Int
      BY <1>2 DEF Shape, IsIntMap, IntQueue, Tracked
    <3> QED BY <1>1, <3>1 DEF Held, Tracked
  <2>2. call'.msg.kind = k /\ Tracked' = Tracked
    BY <1>1 DEF Offered, Tracked
  <2> QED BY <1>1, <1>5, <2>1, <2>2 DEF BiggestPay
<1> QED BY <1>1, <1>2, <1>4, <1>7, <1>8, <1>9 DEF HistoryInv

\* A loop's exit changes nothing but where the call stands.
LEMMA ExitsKeepHistory ==
    ASSUME Inv, HistoryInv, UserBudgetTrimmed \/ RoomMade \/ CapTrimmed
    PROVE  HistoryInv'
<1>1. /\ call # Idle /\ UNCHANGED <<queues, order, bytes, arrivals>>
      /\ \E p \in Loops : call' = [call EXCEPT !.pc = p]
      /\ Admitted' <=> Admitted
  <2>1. /\ call # Idle /\ UNCHANGED <<queues, order, bytes, arrivals>>
        /\ \/ call.pc = "trim_user_budget" /\ call' = [call EXCEPT !.pc = "make_room"]
           \/ call.pc = "make_room" /\ call' = [call EXCEPT !.pc = "admit"]
           \/ call.pc = "trim_to_cap" /\ call' = [call EXCEPT !.pc = "done"]
    BY DEF UserBudgetTrimmed, RoomMade, CapTrimmed, Idle
  <2> QED BY <2>1, RunningCall DEF Admitted, IsIntCall, Loops
<1>2. /\ call'.user = call.user /\ call'.msg = call.msg /\ call'.before = call.before
      /\ call'.evicted = call.evicted
      /\ call'.displaced = call.displaced /\ call'.trimmed = call.trimmed
  BY <1>1, RunningCall DEF IsIntCall
<1>3. /\ Distinct(queues) /\ Older(queues, arrivals)
      /\ NothingAppears /\ DropsCounted /\ BiggestPay
  BY <1>1 DEF HistoryInv
<1>4. Tracked' = Tracked /\ \A v : Held(v, call.msg.kind)' = Held(v, call.msg.kind)
  BY <1>1, <1>2 DEF Tracked, Held
<1>5. \A v : Has(v)' = Has(v) /\ Had(v)' = Had(v) /\ LostBy(v)' = LostBy(v)
  BY <1>1, <1>2 DEF Has, Had, LostBy, Tracked
<1>6. Distinct(queues') /\ Older(queues, arrivals)'
  BY <1>1, <1>3 DEF Older
<1>7. NothingAppears'
  <2>1. Distinct(call.before)' /\ Older(call.before, call.msg.id)' /\ (call.msg.id < arrivals)'
    BY <1>1, <1>2, <1>3 DEF NothingAppears, Distinct, Older
  <2> QED BY <1>1, <1>2, <1>3, <1>4, <1>5, <2>1 DEF NothingAppears
<1>8. DropsCounted'
  BY <1>2, <1>3, <1>5 DEF DropsCounted, LostOutside
<1>9. BiggestPay'
  BY <1>1, <1>2, <1>3, <1>4, <1>5 DEF BiggestPay, LeftTo
<1> QED BY <1>6, <1>7, <1>8, <1>9 DEF HistoryInv

LEMMA HistoryInvInit == Init => HistoryInv
<1> SUFFICES ASSUME Init PROVE HistoryInv
  OBVIOUS
<1>1. DOMAIN queues = {} /\ call = Idle
  BY EmptySeq DEF Init
<1> QED BY <1>1 DEF HistoryInv, Distinct, Older

LEMMA HistoryInvStep == Inv /\ BytesInv /\ HistoryInv /\ [Next]_vars => HistoryInv'
<1> SUFFICES ASSUME Inv, BytesInv, HistoryInv, [Next]_vars PROVE HistoryInv'
  OBVIOUS
<1>1. Shape /\ Distinct(queues) /\ Older(queues, arrivals) /\ arrivals \in Nat
  BY InvFacts DEF HistoryInv
<1>2. ASSUME NEW u \in User, NEW k \in Kind, NEW b \in Size, EnqueueRefused(u, k, b)
      PROVE  HistoryInv'
  <2>1. call' = Idle /\ queues' = queues /\ arrivals' = arrivals + 1
    BY <1>2 DEF EnqueueRefused
  <2>2. \A v \in DOMAIN queues : \A m \in ToSet(queues[v].messages) : m.id \in Nat
    BY <1>1, QueuedIds
  <2>3. Older(queues, arrivals)'
    BY <1>1, <2>1, <2>2 DEF Older
  <2> QED BY <1>1, <2>1, <2>3 DEF HistoryInv
<1>3. CASE TrimUserBudget
  <2>1. /\ call.pc = "trim_user_budget" /\ call # Idle /\ arrivals' = arrivals
        /\ call' = [call EXCEPT !.displaced = @ + 1]
        /\ DropOldestOf(call.user, call.msg.kind)
    BY <1>3 DEF TrimUserBudget, Idle
  <2>2. PICK i \in PositionsOf(call.user, call.msg.kind) : RemoveMessage(call.user, i)
    BY <2>1 DEF DropOldestOf
  <2>3. call.user \in Tracked /\ i \in DOMAIN queues[call.user].messages
    BY <2>2 DEF PositionsOf
  <2>4. ~Admitted
    BY <2>1 DEF Admitted
  <2> QED BY <2>1, <2>2, <2>3, <2>4, RemovalKeepsHistory
<1>4. CASE MakeRoom
  <2>1. /\ call.pc = "make_room" /\ call # Idle /\ arrivals' = arrivals
        /\ call' = [call EXCEPT !.displaced = @ + 1]
        /\ \E u \in LargestHolders(call.msg.kind) : DropOldestOf(u, call.msg.kind)
    BY <1>4 DEF MakeRoom, Idle
  <2>2. PICK u \in LargestHolders(call.msg.kind) : DropOldestOf(u, call.msg.kind)
    BY <2>1
  <2>3. PICK i \in PositionsOf(u, call.msg.kind) : RemoveMessage(u, i)
    BY <2>2 DEF DropOldestOf
  <2>4. u \in Tracked /\ i \in DOMAIN queues[u].messages
    BY <2>3 DEF PositionsOf
  <2>5. ~Admitted
    BY <2>1 DEF Admitted
  <2> QED BY <2>1, <2>2, <2>3, <2>4, <2>5, RemovalKeepsHistory
<1>5. CASE TrimToCap
  <2>1. /\ call.pc = "trim_to_cap" /\ call # Idle /\ call.user \in Tracked
        /\ Len(queues[call.user].messages) > MaxPerUser
        /\ RemoveMessage(call.user, 1)
        /\ call' = [call EXCEPT !.trimmed = @ + 1] /\ arrivals' = arrivals
    BY <1>5 DEF TrimToCap, Inv, Idle
  <2>2. 1 \in DOMAIN queues[call.user].messages /\ 1 < Len(queues[call.user].messages)
    <3>1. queues[call.user].messages \in Seq(Message) /\ MaxPerUser \in Nat /\ MaxPerUser >= 1
      BY <1>1, <2>1, QueueAssumption DEF Shape, IsIntMap, Tracked, IntQueue
    <3> QED BY <2>1, <3>1, LenProperties
  <2> QED BY <2>1, <2>2, RemovalKeepsHistory
<1>6. CASE EnqueueReturn
  <2>1. call' = Idle /\ queues' = queues /\ arrivals' = arrivals
    BY <1>6 DEF EnqueueReturn
  <2> QED BY <1>1, <2>1 DEF HistoryInv, Older
<1>7. ASSUME NEW u \in User, Drain(u) PROVE HistoryInv'
  <2>1. /\ call' = Idle /\ arrivals' = arrivals
        /\ DOMAIN queues' = DOMAIN queues \ {u}
        /\ \A v \in DOMAIN queues \ {u} : queues'[v] = queues[v]
    BY <1>7 DEF Drain, Tracked
  <2>2. Distinct(queues')
    BY <1>1, <2>1 DEF Distinct
  <2>3. Older(queues, arrivals)'
    BY <1>1, <2>1 DEF Older
  <2> QED BY <2>1, <2>2, <2>3 DEF HistoryInv
<1>8. CASE UNCHANGED vars
  BY <1>8 DEF vars, HistoryInv, Older, NothingAppears, DropsCounted, BiggestPay, Admitted,
              LeftTo, Held, LostOutside, LostBy, Has, Had, Tracked
<1> QED
  BY <1>2, <1>3, <1>4, <1>5, <1>6, <1>7, <1>8, AdmitKeepsHistory, AdmitEvictingKeepsHistory,
     EnqueueStartKeepsHistory, ExitsKeepHistory
  DEF Next, EnqueueStep

\* The two clauses about a finished call are what the invariant says of it.
LEMMA OutcomeTrue == Inv /\ HistoryInv => ModestQueueSpared /\ EveryDropReported
<1> SUFFICES ASSUME Inv, HistoryInv, call.pc = "done"
             PROVE  ModestQueueSpared /\ EveryDropReported
  BY DEF ModestQueueSpared, EveryDropReported
<1>1. call # Idle /\ Admitted
  BY DEF Idle, Admitted
<1>2. NothingAppears /\ DropsCounted /\ BiggestPay
  BY <1>1 DEF HistoryInv
<1>3. UNION {LostBy(u) : u \in User} = LostOutside({})
  BY DEF LostOutside
<1>4. EveryDropReported
  BY <1>1, <1>2, <1>3 DEF EveryDropReported, NothingAppears, DropsCounted, LostOutside
<1>5. ModestQueueSpared
  BY <1>1, <1>2 DEF ModestQueueSpared, BiggestPay, LeftTo
<1> QED BY <1>4, <1>5

LEMMA BudgetInvHolds == Spec => [](Inv /\ BytesInv /\ HistoryInv)
<1>1. Init => Inv /\ BytesInv /\ HistoryInv
  BY InvInit, BytesInvInit, HistoryInvInit
<1>2. Inv /\ BytesInv /\ HistoryInv /\ [Next]_vars => (Inv /\ BytesInv /\ HistoryInv)'
  BY InvStep, BytesInvStep, HistoryInvStep
<1> QED BY <1>1, <1>2, PTL DEF Spec

-----------------------------------------------------------------------------
(* The store: what OfflineStore promises and the outcome does not say.     *)

\* Messages in the order they arrived.
InOrder(s) == \A i, j \in DOMAIN s : i < j => s[i].id < s[j].id
Sorted(q) == \A u \in DOMAIN q : InOrder(q[u].messages)

\* Only the count cap, and only of its recipient, takes messages of another kind.
KindSpared ==
    \A v \in User \ call.evicted : \A l \in LostBy(v) :
        \/ l.kind = call.msg.kind
        \/ /\ v = call.user /\ Admitted /\ call.evicted = {}
           /\ Len(queues[v].messages) >= MaxPerUser

\* Whoever makes room in the table does so for a user who has just the message.
EvictsForNew ==
    call.evicted # {} =>
        /\ \E v \in User : call.evicted = {v}
        /\ Len(queues[call.user].messages) = 1

StoreInv ==
    /\ Sorted(queues)
    /\ call # Idle => Sorted(call.before) /\ KindSpared /\ EvictsForNew

\* Removing a position leaves the others in order.
LEMMA RemoveAtInOrder ==
    ASSUME NEW s \in Seq(Message), InOrder(s), NEW i \in DOMAIN s
    PROVE  InOrder(RemoveAt(s, i)) /\ Len(RemoveAt(s, i)) = Len(s) - 1
<1> DEFINE t == RemoveAt(s, i)
           up(x) == IF x < i THEN x ELSE x + 1
<1>1. Len(s) \in Nat /\ DOMAIN s = 1..Len(s)
  BY LenProperties
<1>2. /\ t \in Seq(Message) /\ Len(t) = Len(s) - 1
      /\ \A j \in 1..(Len(s) - 1) : t[j] = IF j < i THEN s[j] ELSE s[j + 1]
  BY <1>1, RemoveAtProperties
<1>3. DOMAIN t = 1..(Len(s) - 1)
  BY <1>2, LenProperties
<1> HIDE DEF t
<1>4. ASSUME NEW j \in DOMAIN t, NEW k \in DOMAIN t, j < k PROVE t[j].id < t[k].id
  <2>1. t[j] = s[up(j)] /\ t[k] = s[up(k)]
    BY <1>2, <1>3
  <2>2. up(j) \in DOMAIN s /\ up(k) \in DOMAIN s /\ up(j) < up(k)
    BY <1>1, <1>3, <1>4
  <2> HIDE DEF up
  <2> QED BY <2>1, <2>2 DEF InOrder
<1> QED BY <1>2, <1>4 DEF InOrder, t

\* remove_at leaves every queue in order.
LEMMA RemoveMessageInOrder ==
    ASSUME Shape, Sorted(queues),
           NEW u \in Tracked, NEW i \in DOMAIN queues[u].messages, RemoveMessage(u, i)
    PROVE  /\ Sorted(queues')
           /\ Len(queues[u].messages) > 1 =>
                 \A v : v = u => Len(queues'[v].messages) = Len(queues[v].messages) - 1
<1> DEFINE s == queues[u].messages
           left == RemoveAt(s, i)
<1>1. s \in Seq(Message) /\ InOrder(s) /\ DOMAIN queues = Tracked /\ Len(s) \in Nat
  <2>1. s \in Seq(Message) /\ InOrder(s) /\ DOMAIN queues = Tracked
    BY DEF Shape, IsIntMap, Tracked, IntQueue, Sorted
  <2> QED BY <2>1, LenProperties
<1>2. InOrder(left) /\ Len(left) = Len(s) - 1
  BY <1>1, RemoveAtInOrder
<1>3. CASE left = <<>>
  <2>1. queues' = [v \in Tracked \ {u} |-> queues[v]]
    BY <1>3 DEF RemoveMessage
  <2>2. DOMAIN queues' = Tracked \ {u} /\ \A v \in Tracked \ {u} : queues'[v] = queues[v]
    BY <2>1
  <2>3. Sorted(queues')
    BY <1>1, <2>2 DEF Sorted
  <2>4. ~(Len(s) > 1)
    <3>1. Len(left) = 0
      BY <1>3, EmptySeq
    <3> QED BY <1>1, <1>2, <3>1
  <2> QED BY <2>3, <2>4
<1>4. CASE left # <<>>
  <2>1. /\ DOMAIN queues' = Tracked /\ queues'[u].messages = left
        /\ \A v \in Tracked \ {u} : queues'[v] = queues[v]
    <3>1. queues' = [queues EXCEPT ![u] =
                        [messages |-> left, bytes |-> Credit(queues[u].bytes, s[i])]]
      BY <1>4 DEF RemoveMessage
    <3> HIDE DEF left, s
    <3> QED BY <1>1, <3>1
  <2> HIDE DEF left
  <2>2. Sorted(queues')
    BY <1>1, <1>2, <2>1 DEF Sorted
  <2> QED BY <1>2, <2>1, <2>2
<1> QED BY <1>3, <1>4

\* An admission puts the newest message last.
LEMMA AdmitToInOrder ==
    ASSUME IsIntCall(call), NEW q, NEW o, NEW b, NEW evicted,
           IsIntMap(q), Sorted(q), Older(q, call.msg.id), AdmitTo(q, o, b, evicted)
    PROVE  /\ Sorted(queues')
           /\ call.user \notin DOMAIN q =>
                 \A v : v = call.user => Len(queues'[v].messages) = 1
<1> DEFINE u == call.user
           m == call.msg
           s == IF u \in DOMAIN q THEN q[u].messages ELSE <<>>
           t == Append(s, m)
<1>1. m \in Message /\ m.id \in Nat
  BY DEF IsIntCall, Message
<1>2. /\ DOMAIN queues' = DOMAIN q \cup {u}
      /\ queues'[u].messages = t
      /\ \A v \in DOMAIN q \ {u} : queues'[v] = q[v]
  BY DEF AdmitTo
<1>3. /\ s \in Seq(Message) /\ InOrder(s) /\ \A j \in DOMAIN s : s[j].id < m.id
      /\ u \notin DOMAIN q => Len(s) = 0
  <2>1. CASE u \in DOMAIN q
    BY <2>1 DEF IsIntMap, IntQueue, Sorted, Older, ToSet
  <2>2. CASE u \notin DOMAIN q
    BY <2>2, EmptySeq DEF InOrder
  <2> QED BY <2>1, <2>2
<1> HIDE DEF s
<1>4. /\ t \in Seq(Message) /\ Len(s) \in Nat /\ DOMAIN s = 1..Len(s)
      /\ Len(t) = Len(s) + 1 /\ DOMAIN t = 1..(Len(s) + 1)
      /\ \A j \in 1..Len(s) : t[j] = s[j]
      /\ t[Len(s) + 1] = m
  BY <1>1, <1>3, AppendProperties, LenProperties
<1> HIDE DEF t
<1>5. InOrder(t)
  <2> SUFFICES ASSUME NEW j \in DOMAIN t, NEW k \in DOMAIN t, j < k PROVE t[j].id < t[k].id
    BY DEF InOrder
  <2>1. j \in 1..Len(s)
    BY <1>4
  <2>2. CASE k = Len(s) + 1
    BY <1>3, <1>4, <2>1, <2>2
  <2>3. CASE k # Len(s) + 1
    <3>1. k \in 1..Len(s)
      BY <1>4, <2>3
    <3> QED BY <1>3, <1>4, <2>1, <3>1 DEF InOrder
  <2> QED BY <2>2, <2>3
<1>6. Sorted(queues')
  BY <1>2, <1>5 DEF Sorted
<1>7. ASSUME u \notin DOMAIN q, NEW v, v = u PROVE Len(queues'[v].messages) = 1
  <2>1. queues'[v].messages = t
    BY <1>2, <1>7
  <2> QED BY <1>3, <1>4, <1>7, <2>1
<1> QED BY <1>6, <1>7

\* Of two sequences in the order of arrival the one with fewer messages is the
\* other with some left out.
LEMMA FewerIsSubsequence ==
    ASSUME NEW s \in Seq(Message), NEW t \in Seq(Message), InOrder(s), InOrder(t),
           ToSet(t) \subseteq ToSet(s)
    PROVE  Store!IsSubsequence(t, s)
<1>1. /\ DOMAIN s = 1..Len(s) /\ Len(s) \in Nat /\ \A i \in DOMAIN s : s[i].id \in Nat
      /\ DOMAIN t = 1..Len(t) /\ Len(t) \in Nat
  <2>1. DOMAIN s = 1..Len(s) /\ Len(s) \in Nat /\ DOMAIN t = 1..Len(t) /\ Len(t) \in Nat
    BY LenProperties
  <2>2. \A i \in DOMAIN s : s[i] \in Message
    BY <2>1, ElementOfSeq
  <2> QED BY <2>1, <2>2 DEF Message
<1> DEFINE at == [i \in DOMAIN t |-> CHOOSE j \in DOMAIN s : s[j] = t[i]]
<1>2. \A i \in DOMAIN t : \E j \in DOMAIN s : s[j] = t[i]
  BY DEF ToSet
<1>3. \A i \in DOMAIN t : at[i] \in DOMAIN s /\ s[at[i]] = t[i]
  BY <1>2
<1>4. at \in [DOMAIN t -> DOMAIN s]
  BY <1>3
<1> HIDE DEF at
<1>5. ASSUME NEW i \in DOMAIN t, NEW j \in DOMAIN t, i < j PROVE at[i] < at[j]
  <2>1. s[at[i]].id < s[at[j]].id
    BY <1>3, <1>5 DEF InOrder
  <2>2. at[i] \in 1..Len(s) /\ at[j] \in 1..Len(s)
    BY <1>1, <1>3
  <2>3. CASE at[j] < at[i]
    <3>1. s[at[j]].id < s[at[i]].id
      BY <1>3, <2>3 DEF InOrder
    <3> QED BY <1>1, <1>3, <2>1, <3>1
  <2>4. CASE at[j] = at[i]
    BY <1>1, <1>3, <2>1, <2>4
  <2> QED BY <1>1, <2>2, <2>3, <2>4
<1> QED BY <1>3, <1>4, <1>5 DEF Store!IsSubsequence

\* The front of a sequence of messages without repetitions lacks its last.
LEMMA FrontProperties ==
    ASSUME NEW s \in Seq(Message), s # <<>>, InOrder(s)
    PROVE  /\ Front(s) \in Seq(Message) /\ InOrder(Front(s))
           /\ ToSet(Front(s)) = ToSet(s) \ {Last(s)}
<1> DEFINE t == Front(s)
           n == Len(s)
<1>1. /\ DOMAIN s = 1..n /\ n \in Nat /\ n >= 1
      /\ \A i \in 1..n : s[i] \in Message
  <2>1. DOMAIN s = 1..n /\ n \in Nat /\ \A i \in 1..n : s[i] \in Message
    BY LenProperties, ElementOfSeq
  <2>2. n # 0
    BY EmptySeq
  <2> QED BY <2>1, <2>2
<1>2. \A i \in DOMAIN s : s[i].id \in Nat
  BY <1>1 DEF Message
<1>3. /\ t \in Seq(Message) /\ Len(t) = n - 1
      /\ \A i \in 1..(n - 1) : t[i] = s[i]
  BY <1>1, SubSeqProperties DEF Front
<1>4. DOMAIN t = 1..(n - 1)
  BY <1>3, LenProperties
<1> HIDE DEF t
<1>5. InOrder(t)
  BY <1>1, <1>3, <1>4 DEF InOrder
<1>6. \A i \in 1..(n - 1) : s[i] # s[n]
  <2> SUFFICES ASSUME NEW i \in 1..(n - 1) PROVE s[i] # s[n]
    OBVIOUS
  <2>1. s[i].id < s[n].id /\ s[i].id \in Nat
    BY <1>1, <1>2 DEF InOrder
  <2> QED BY <1>1, <1>2, <2>1
<1>7. ToSet(t) = ToSet(s) \ {s[n]}
  <2>1. ToSet(t) \subseteq ToSet(s) \ {s[n]}
    BY <1>1, <1>3, <1>4, <1>6 DEF ToSet
  <2>2. ASSUME NEW x \in ToSet(s) \ {s[n]} PROVE x \in ToSet(t)
    <3>1. PICK i \in 1..n : s[i] = x /\ i # n
      BY <1>1 DEF ToSet
    <3>2. i \in 1..(n - 1)
      <4> HIDE DEF n
      <4> QED BY <1>1, <3>1
    <3> QED BY <1>3, <1>4, <3>1, <3>2 DEF ToSet
  <2> QED BY <2>1, <2>2
<1> QED BY <1>3, <1>5, <1>7 DEF Last, t

-----------------------------------------------------------------------------
(* Every step preserves StoreInv.                                          *)

\* A message a loop drops is of the message's own kind, or goes for the cap.
LEMMA RemovalKeepsStore ==
    ASSUME Inv, BytesInv, HistoryInv, StoreInv, call # Idle,
           NEW u \in Tracked, NEW i \in DOMAIN queues[u].messages, RemoveMessage(u, i),
           arrivals' = arrivals,
           \/ call' = [call EXCEPT !.displaced = @ + 1]
           \/ call' = [call EXCEPT !.trimmed = @ + 1],
           \/ ~Admitted /\ queues[u].messages[i].kind = call.msg.kind
           \/ Admitted /\ u = call.user /\ i = 1 /\ Len(queues[u].messages) > MaxPerUser
    PROVE  StoreInv'
<1> DEFINE m == queues[u].messages[i]
           cap == Admitted /\ u = call.user /\ i = 1 /\ Len(queues[u].messages) > MaxPerUser
<1>1. /\ Shape /\ Sorted(queues) /\ Sorted(call.before) /\ KindSpared /\ EvictsForNew
      /\ NothingAppears
      /\ MaxPerUser \in Nat /\ MaxPerUser >= 1 /\ Len(queues[u].messages) \in Nat
  BY InvFacts, LenTyped, QueueAssumption DEF StoreInv, HistoryInv
<1>2. Admitted => u = call.user /\ i < Len(queues[u].messages)
  BY <1>1
<1>3. /\ call'.pc = call.pc /\ call'.user = call.user /\ call'.msg = call.msg
      /\ call'.before = call.before /\ call'.evicted = call.evicted
      /\ Admitted' <=> Admitted
  BY <1>2, RemovalCosts
<1>4. /\ \A v : v # u => LostBy(v)' = LostBy(v)
      /\ \A v : v = u => LostBy(v)' = LostBy(v) \cup {m}
  BY <1>2, RemovalCosts
<1>5. /\ Sorted(queues')
      /\ Len(queues[u].messages) > 1 =>
            \A v : v = u => Len(queues'[v].messages) = Len(queues[v].messages) - 1
  BY <1>1, RemoveMessageInOrder
<1>6. Sorted(call.before)'
  BY <1>1, <1>3 DEF Sorted
\* Nobody has been evicted while there is a message to drop.
<1>7. call.evicted = {}
  <2>1. CASE cap
    <3>1. Len(queues[u].messages) > MaxPerUser
      BY <2>1
    <3>2. Len(queues[u].messages) # 1
      <4>1. \A n \in Nat : n > MaxPerUser => n # 1
        BY QueueAssumption
      <4> QED BY <1>1, <3>1, <4>1
    <3>3. u = call.user
      BY <2>1
    <3>4. Len(queues[call.user].messages) # 1
      BY <3>2, <3>3
    <3> QED BY <1>1, <3>4 DEF EvictsForNew
  <2>2. CASE ~Admitted
    BY <1>1, <2>2 DEF NothingAppears
  <2> QED BY <2>1, <2>2
<1>8. cap => Len(queues'[call'.user].messages) >= MaxPerUser
  <2>1. cap => Len(queues'[call'.user].messages) = Len(queues[u].messages) - 1
    BY <1>1, <1>3, <1>5
  <2> QED BY <1>1, <2>1
<1> HIDE DEF m
<1>9. ASSUME NEW v \in User, NEW l \in LostBy(v)'
      PROVE  \/ l.kind = call'.msg.kind
             \/ /\ v = call'.user /\ Admitted' /\ call'.evicted = {}
                /\ Len(queues'[v].messages) >= MaxPerUser
  <2>1. CASE cap
    <3>1. CASE v = u
      BY <1>3, <1>7, <1>8, <2>1, <3>1
    <3>2. CASE v # u
      BY <1>1, <1>3, <1>4, <1>7, <1>9, <2>1, <3>2 DEF KindSpared
    <3> QED BY <3>1, <3>2
  <2>2. CASE ~Admitted /\ m.kind = call.msg.kind
    <3>1. l \in LostBy(v) \/ l = m
      BY <1>4, <1>9
    <3>2. l \in LostBy(v) => l.kind = call.msg.kind
      BY <1>1, <1>7, <2>2 DEF KindSpared
    <3> QED BY <1>3, <2>2, <3>1, <3>2
  <2> QED BY <2>1, <2>2 DEF m
<1>10. KindSpared' /\ EvictsForNew'
  BY <1>3, <1>7, <1>9 DEF KindSpared, EvictsForNew
<1> QED BY <1>5, <1>6, <1>10 DEF StoreInv

\* An admission costs nobody but the evicted user, whose place a new one takes.
LEMMA AdmissionKeepsStore ==
    ASSUME Inv, BytesInv, HistoryInv, StoreInv, call # Idle, call.pc = "admit",
           NEW q, NEW o, NEW b, NEW e, IsIntMap(q), \A u \in DOMAIN q : q[u] = queues[u],
           e \subseteq Tracked \ {call.user}, DOMAIN q = Tracked \ e, AdmitTo(q, o, b, e),
           e # {} => call.user \notin Tracked /\ \E v \in User : e = {v}
    PROVE  StoreInv'
<1>1. /\ Sorted(queues) /\ Sorted(call.before) /\ KindSpared /\ EvictsForNew
      /\ NothingAppears /\ IsIntCall(call)
  BY RunningCall DEF StoreInv, HistoryInv
<1>2. /\ call'.user = call.user /\ call'.msg = call.msg
      /\ call'.before = call.before /\ call'.evicted = e
      /\ Admitted' /\ ~Admitted /\ call.evicted = {}
      /\ \A v : v \notin e => LostBy(v)' = LostBy(v)
  BY AdmissionCosts
<1>3. Sorted(q) /\ Older(q, call.msg.id)
  <2>1. Sorted(q)
    BY <1>1 DEF Sorted, Tracked
  <2>2. \A v \in DOMAIN q : v \in User /\ v \in Tracked
    BY DEF IsIntMap
  <2>3. \A v \in DOMAIN q : ToSet(q[v].messages) \subseteq Had(v)
    BY <1>1, <1>2, <2>2 DEF NothingAppears, Has
  <2>4. Older(q, call.msg.id)
    BY <1>1, <2>3 DEF NothingAppears, Older, Had
  <2> QED BY <2>1, <2>4
<1>4. /\ Sorted(queues')
      /\ call.user \notin DOMAIN q =>
            \A v : v = call.user => Len(queues'[v].messages) = 1
  BY <1>1, <1>3, AdmitToInOrder
<1>5. Sorted(call.before)'
  BY <1>1, <1>2 DEF Sorted
<1>6. KindSpared'
  BY <1>1, <1>2 DEF KindSpared
<1>7. EvictsForNew'
  <2>1. e # {} => \A v : v = call.user => Len(queues'[v].messages) = 1
    BY <1>4
  <2>2. e # {} => Len(queues'[call'.user].messages) = 1
    BY <1>2, <2>1
  <2> QED BY <1>2, <2>2 DEF EvictsForNew
<1> QED BY <1>4, <1>5, <1>6, <1>7 DEF StoreInv

LEMMA AdmitStepsKeepStore ==
    ASSUME Inv, BytesInv, HistoryInv, StoreInv, Admit \/ AdmitEvicting
    PROVE  StoreInv'
<1>1. call.pc = "admit" /\ call # Idle /\ Shape
  BY InvFacts DEF Admit, AdmitEvicting, Idle
<1>2. CASE Admit
  <2>1. AdmitTo(queues, order, bytes, {})
    BY <1>2 DEF Admit
  <2>2. IsIntMap(queues) /\ DOMAIN queues = Tracked \ {} /\ {} \subseteq Tracked \ {call.user}
    BY <1>1 DEF Shape, Tracked
  <2> QED BY <1>1, <2>1, <2>2, AdmissionKeepsStore
<1>3. CASE AdmitEvicting
  <2>1. PICK i \in DOMAIN order :
          /\ IsEvicted(order[i], i)
          /\ AdmitTo([v \in Tracked \ {order[i]} |-> queues[v]],
                     SubSeq(order, i + 1, Len(order)),
                     [k \in Kind |-> bytes[k] - queues[order[i]].bytes[k]],
                     {order[i]})
    BY <1>3 DEF AdmitEvicting
  <2> DEFINE gone == order[i]
             q == [v \in Tracked \ {gone} |-> queues[v]]
             o == SubSeq(order, i + 1, Len(order))
             b == [k \in Kind |-> bytes[k] - queues[gone].bytes[k]]
  <2>2. gone \in Tracked /\ gone \in User /\ call.user \notin Tracked
    BY <1>1, <1>3, <2>1 DEF AdmitEvicting, MustEvict, IsEvicted, Shape, IsIntMap, Tracked
  <2>3. IsIntMap(q) /\ DOMAIN q = Tracked \ {gone} /\ \A v \in DOMAIN q : q[v] = queues[v]
    BY <1>1 DEF IsIntMap, Shape, Tracked
  <2>4. AdmitTo(q, o, b, {gone})
    BY <2>1
  <2> HIDE DEF q, o, b, gone
  <2>5. {gone} \subseteq Tracked \ {call.user} /\ \E v \in User : {gone} = {v}
    BY <2>2
  <2> QED BY <1>1, <2>2, <2>3, <2>4, <2>5, AdmissionKeepsStore
<1> QED BY <1>2, <1>3

\* Where the lock is free, order is all that counts.
LEMMA FreeLockKeepsStore ==
    ASSUME Sorted(queues), call' = Idle, DOMAIN queues' \subseteq DOMAIN queues,
           \A v \in DOMAIN queues' : queues'[v] = queues[v]
    PROVE  StoreInv'
<1>1. Sorted(queues')
  BY DEF Sorted
<1> QED BY <1>1 DEF StoreInv

LEMMA StoreInvStep ==
    Inv /\ BytesInv /\ HistoryInv /\ StoreInv /\ [Next]_vars => StoreInv'
<1> SUFFICES ASSUME Inv, BytesInv, HistoryInv, StoreInv, [Next]_vars PROVE StoreInv'
  OBVIOUS
<1>1. Shape /\ Sorted(queues)
  BY InvFacts DEF StoreInv
<1>2. ASSUME NEW u \in User, NEW k \in Kind, NEW b \in Size, EnqueueRefused(u, k, b)
      PROVE  StoreInv'
  BY <1>1, <1>2, FreeLockKeepsStore DEF EnqueueRefused
<1>3. ASSUME NEW u \in User, NEW k \in Kind, NEW b \in Size, EnqueueStart(u, k, b)
      PROVE  StoreInv'
  <2>1. call'.before = queues /\ call'.evicted = {} /\ queues' = queues
    BY <1>3 DEF EnqueueStart
  <2>2. \A v : LostBy(v)' = {}
    BY <2>1 DEF LostBy, Tracked
  <2> QED BY <1>1, <2>1, <2>2 DEF StoreInv, KindSpared, EvictsForNew
<1>4. CASE TrimUserBudget
  <2>1. /\ call.pc = "trim_user_budget" /\ call # Idle /\ arrivals' = arrivals
        /\ call' = [call EXCEPT !.displaced = @ + 1]
        /\ DropOldestOf(call.user, call.msg.kind)
    BY <1>4 DEF TrimUserBudget, Idle
  <2>2. PICK i \in PositionsOf(call.user, call.msg.kind) : RemoveMessage(call.user, i)
    BY <2>1 DEF DropOldestOf
  <2>3. /\ call.user \in Tracked /\ i \in DOMAIN queues[call.user].messages
        /\ queues[call.user].messages[i].kind = call.msg.kind
    BY <2>2 DEF PositionsOf
  <2>4. ~Admitted
    BY <2>1 DEF Admitted
  <2> QED BY <2>1, <2>2, <2>3, <2>4, RemovalKeepsStore
<1>5. CASE MakeRoom
  <2>1. /\ call.pc = "make_room" /\ call # Idle /\ arrivals' = arrivals
        /\ call' = [call EXCEPT !.displaced = @ + 1]
        /\ \E u \in LargestHolders(call.msg.kind) : DropOldestOf(u, call.msg.kind)
    BY <1>5 DEF MakeRoom, Idle
  <2>2. PICK u \in LargestHolders(call.msg.kind) : DropOldestOf(u, call.msg.kind)
    BY <2>1
  <2>3. PICK i \in PositionsOf(u, call.msg.kind) : RemoveMessage(u, i)
    BY <2>2 DEF DropOldestOf
  <2>4. /\ u \in Tracked /\ i \in DOMAIN queues[u].messages
        /\ queues[u].messages[i].kind = call.msg.kind
    BY <2>3 DEF PositionsOf
  <2>5. ~Admitted
    BY <2>1 DEF Admitted
  <2> QED BY <2>1, <2>3, <2>4, <2>5, RemovalKeepsStore
<1>6. CASE TrimToCap
  <2>1. /\ call.pc = "trim_to_cap" /\ call # Idle /\ call.user \in Tracked
        /\ Len(queues[call.user].messages) > MaxPerUser
        /\ RemoveMessage(call.user, 1)
        /\ call' = [call EXCEPT !.trimmed = @ + 1] /\ arrivals' = arrivals
    BY <1>6 DEF TrimToCap, Inv, Idle
  <2>2. 1 \in DOMAIN queues[call.user].messages
    <3>1. queues[call.user].messages \in Seq(Message) /\ MaxPerUser \in Nat
      BY <1>1, <2>1, QueueAssumption DEF Shape, IsIntMap, Tracked, IntQueue
    <3> QED BY <2>1, <3>1, LenProperties
  <2>3. Admitted
    BY <2>1 DEF Admitted
  <2> QED BY <2>1, <2>2, <2>3, RemovalKeepsStore
<1>7. CASE UserBudgetTrimmed \/ RoomMade \/ CapTrimmed
  <2>1. /\ call # Idle /\ queues' = queues
        /\ \E p \in Loops : call' = [call EXCEPT !.pc = p]
        /\ Admitted' <=> Admitted
    <3>1. /\ call # Idle /\ queues' = queues
          /\ \/ call.pc = "trim_user_budget" /\ call' = [call EXCEPT !.pc = "make_room"]
             \/ call.pc = "make_room" /\ call' = [call EXCEPT !.pc = "admit"]
             \/ call.pc = "trim_to_cap" /\ call' = [call EXCEPT !.pc = "done"]
      BY <1>7 DEF UserBudgetTrimmed, RoomMade, CapTrimmed, Idle
    <3> QED BY <3>1, RunningCall DEF Admitted, IsIntCall, Loops
  <2>2. /\ call'.user = call.user /\ call'.msg = call.msg
        /\ call'.before = call.before /\ call'.evicted = call.evicted
    BY <2>1, RunningCall DEF IsIntCall
  <2>3. \A v : LostBy(v)' = LostBy(v)
    BY <2>1, <2>2 DEF LostBy, Tracked
  <2>4. Sorted(call.before) /\ KindSpared /\ EvictsForNew
    BY <2>1 DEF StoreInv
  <2>5. Sorted(queues') /\ Sorted(call.before)'
    BY <1>1, <2>1, <2>2, <2>4 DEF Sorted
  <2>6. KindSpared' /\ EvictsForNew'
    BY <2>1, <2>2, <2>3, <2>4 DEF KindSpared, EvictsForNew
  <2> QED BY <2>5, <2>6 DEF StoreInv
<1>8. CASE EnqueueReturn
  BY <1>1, <1>8, FreeLockKeepsStore DEF EnqueueReturn
<1>9. ASSUME NEW u \in User, Drain(u) PROVE StoreInv'
  BY <1>1, <1>9, FreeLockKeepsStore DEF Drain, Tracked
<1>10. CASE UNCHANGED vars
  BY <1>10 DEF vars, StoreInv, KindSpared, EvictsForNew, LostBy, Tracked, Admitted, Sorted
<1> QED
  BY <1>2, <1>3, <1>4, <1>5, <1>6, <1>7, <1>8, <1>9, <1>10, AdmitStepsKeepStore
  DEF Next, EnqueueStep

LEMMA StoreInvHolds == Spec => [](Inv /\ BytesInv /\ HistoryInv /\ StoreInv)
<1>1. Init => StoreInv
  <2> SUFFICES ASSUME Init PROVE StoreInv
    OBVIOUS
  <2>1. DOMAIN queues = {} /\ call = Idle
    BY EmptySeq DEF Init
  <2> QED BY <2>1 DEF StoreInv, Sorted
<1> QED BY <1>1, StoreInvStep, BudgetInvHolds, PTL DEF Spec

-----------------------------------------------------------------------------
(* The queue implements OfflineStore.                                      *)

\* A loop's step shows nothing: what it works on is not committed yet.
LEMMA LoopStepsStutter ==
    ASSUME Inv, EnqueueStep, ~EnqueueReturn
    PROVE  Kept' = Kept
<1>1. call # Idle
  BY DEF EnqueueStep, TrimUserBudget, UserBudgetTrimmed, MakeRoom, RoomMade, Admit,
         AdmitEvicting, TrimToCap, CapTrimmed, Idle
<1>2. IsIntCall(call)
  BY <1>1, RunningCall
<1>3. call'.before = call.before /\ call'.pc # "idle"
  <2>1. CASE TrimUserBudget
    BY <1>2, <2>1 DEF TrimUserBudget, IsIntCall
  <2>2. CASE UserBudgetTrimmed
    BY <1>2, <2>2 DEF UserBudgetTrimmed, IsIntCall
  <2>3. CASE MakeRoom
    BY <1>2, <2>3 DEF MakeRoom, IsIntCall
  <2>4. CASE RoomMade
    BY <1>2, <2>4 DEF RoomMade, IsIntCall
  <2>5. CASE Admit
    BY <1>2, <2>5 DEF Admit, AdmitTo, IsIntCall
  <2>6. CASE AdmitEvicting
    BY <1>2, <2>6 DEF AdmitEvicting, AdmitTo, IsIntCall
  <2>7. CASE TrimToCap
    BY <1>2, <2>7 DEF TrimToCap, IsIntCall
  <2>8. CASE CapTrimmed
    BY <1>2, <2>8 DEF CapTrimmed, IsIntCall
  <2> QED BY <2>1, <2>2, <2>3, <2>4, <2>5, <2>6, <2>7, <2>8 DEF EnqueueStep
<1>4. call' # Idle
  BY <1>3 DEF Idle
<1> QED BY <1>1, <1>3, <1>4 DEF Kept, Committed

\* OfflineStore's reading of the operators it shares with the queue is the same.
LEMMA PayloadIsSum ==
    ASSUME NEW t, NEW k
    PROVE  Store!Payload(t, k) = SumOf(t, k)
<1> DEFINE total == (CHOOSE it : it = [s \in SUBSET DOMAIN t |->
          IF s = {} THEN 0
          ELSE it[s \ {CHOOSE x \in s : TRUE}]
               + (IF t[CHOOSE x \in s : TRUE].kind = k THEN t[CHOOSE x \in s : TRUE].bytes ELSE 0)])[DOMAIN t]
<1>1. SumOf(t, k) = total
  BY DEF SumOf, FoldSeq, FoldFunction, FoldFunctionOnSet, MapThenFoldSet
<1>2. Store!Payload(t, k) = total
  BY DEF Store!Payload, Store!FoldSeq, Store!FoldFunction, Store!FoldFunctionOnSet,
         Store!MapThenFoldSet
<1> QED BY <1>1, <1>2, Zenon

LEMMA SharedOperators ==
    /\ \A S : Store!Cardinality(S) = Cardinality(S)
    /\ \A f : Store!SumFunction(f) = SumFunction(f)
    /\ \A s : Store!ToSet(s) = ToSet(s)
    /\ \A s : Store!Front(s) = Front(s)
    /\ \A s : Store!Last(s) = Last(s)
<1>1. \A S : Store!Cardinality(S) = Cardinality(S)
  BY Zenon DEF Store!Cardinality, Cardinality
<1>2. \A f : Store!SumFunction(f) = SumFunction(f)
  <2> SUFFICES ASSUME NEW f PROVE Store!SumFunction(f) = SumFunction(f)
    OBVIOUS
  <2> DEFINE total == (CHOOSE it : it = [s \in SUBSET DOMAIN f |->
            IF s = {} THEN 0
            ELSE f[CHOOSE x \in s : TRUE] + it[s \ {CHOOSE x \in s : TRUE}]])[DOMAIN f]
  <2>1. SumFunction(f) = total
    BY DEF SumFunction, SumFunctionOnSet, FoldFunctionOnSet, MapThenFoldSet
  <2>2. Store!SumFunction(f) = total
    BY DEF Store!SumFunction, Store!SumFunctionOnSet, Store!FoldFunctionOnSet,
           Store!MapThenFoldSet
  <2> QED BY <2>1, <2>2, Zenon
<1>3. /\ \A s : Store!ToSet(s) = ToSet(s)
      /\ \A s : Store!Front(s) = Front(s)
      /\ \A s : Store!Last(s) = Last(s)
  BY Zenon DEF Store!ToSet, ToSet, Store!Front, Front, Store!Last, Last
<1> QED BY <1>1, <1>2, <1>3, Zenon

\* When no call is in its last loop, the queues are within OfflineStore's limits.
LEMMA QueuesWithinLimits ==
    ASSUME Inv, BytesInv, call.pc # "trim_to_cap", NEW s,
           s = [u \in User |-> IF u \in Tracked THEN queues[u].messages ELSE <<>>]
    PROVE  Store!WithinLimits(s)
<1>1. /\ Shape /\ CountersExact /\ ByteCeilings /\ CountCaps /\ Tracked \subseteq User
      /\ \A u \in Tracked : queues[u].messages # <<>>
      /\ MaxPerUser \in Nat
  BY InvFacts, QueueAssumption
  DEF Inv, BytesInv, Shape, IsIntMap, Tracked, OrderTracksQueues
<1>2. /\ \A u \in Tracked : s[u] = queues[u].messages
      /\ \A u \in User \ Tracked : s[u] = <<>>
  BY <1>1
<1>3. Store!Holders(s) = Tracked
  BY <1>1, <1>2 DEF Store!Holders
<1>4. Cardinality(Store!Holders(s)) <= MaxUsers
  BY <1>1, <1>3 DEF CountCaps
<1>5. ASSUME NEW u \in User PROVE Len(s[u]) <= MaxPerUser
  <2>1. CASE u \in Tracked
    BY <1>1, <1>2, <2>1 DEF CountCaps
  <2>2. CASE u \notin Tracked
    BY <1>1, <1>2, <2>2, EmptySeq
  <2> QED BY <2>1, <2>2
<1>6. ASSUME NEW k \in Kind
      PROVE  /\ SumFunction([u \in Store!Holders(s) |-> Store!Payload(s[u], k)]) <= Budget[k]
             /\ \A u \in User : Store!Payload(s[u], k) <= PerUser[k]
  <2>1. \A t : Store!Payload(t, k) = SumOf(t, k)
    BY PayloadIsSum
  <2>2. \A u \in Tracked : Store!Payload(s[u], k) = queues[u].bytes[k]
    BY <1>1, <1>2, <2>1 DEF CountersExact
  <2>3. [u \in Store!Holders(s) |-> Store!Payload(s[u], k)] = [u \in Tracked |-> queues[u].bytes[k]]
    BY <1>3, <2>2
  <2>4. SumFunction([u \in Store!Holders(s) |-> Store!Payload(s[u], k)]) = bytes[k]
    <3>1. bytes[k] = SumFunction([u \in Tracked |-> queues[u].bytes[k]])
      BY <1>1 DEF CountersExact
    <3> QED BY <2>3, <3>1, Zenon
  <2>5. \A u \in User \ Tracked : Store!Payload(s[u], k) = 0
    BY <1>2, <2>1, SumOfEmpty
  <2>6. PerUser[k] \in Nat
    BY QueueAssumption
  <2>7. ASSUME NEW u \in User PROVE Store!Payload(s[u], k) <= PerUser[k]
    <3>1. CASE u \in Tracked
      BY <1>1, <2>2, <3>1 DEF ByteCeilings
    <3>2. CASE u \notin Tracked
      BY <2>5, <2>6, <3>2
    <3> QED BY <3>1, <3>2
  <2>8. bytes[k] <= Budget[k]
    BY <1>1 DEF ByteCeilings
  <2>9. SumFunction([u \in Store!Holders(s) |-> Store!Payload(s[u], k)]) <= Budget[k]
    BY <2>4, <2>8, Zenon
  <2> QED BY <2>7, <2>9
<1> QED BY <1>4, <1>5, <1>6, SharedOperators, Zenon DEF Store!WithinLimits

\* The messages of a sequence in order of arrival, and of the empty one.
LEMMA QueueMapSeen ==
    ASSUME NEW q, IsIntMap(q), Sorted(q), NEW s, NEW v,
           s = IF v \in DOMAIN q THEN q[v].messages ELSE <<>>
    PROVE  /\ s \in Seq(Message) /\ InOrder(s)
           /\ ToSet(s) = IF v \in DOMAIN q THEN ToSet(q[v].messages) ELSE {}
<1>1. CASE v \in DOMAIN q
  BY <1>1 DEF IsIntMap, IntQueue, Sorted
<1>2. CASE v \notin DOMAIN q
  BY <1>2, EmptySeq DEF InOrder, ToSet
<1> QED BY <1>1, <1>2

\* An enqueue's return is the one step of OfflineStore that its call made.
LEMMA ReturnIsEnqueue ==
    ASSUME Inv, BytesInv, HistoryInv, StoreInv, EnqueueReturn
    PROVE  call.user \in User /\ Store!Enqueue(call.user)
<1> DEFINE u == call.user
           m == call.msg
           old == Kept
           new == [v \in User |-> IF v \in Tracked THEN queues[v].messages ELSE <<>>]
<1>1. /\ call # Idle /\ call.pc = "done" /\ Admitted /\ call' = Idle /\ queues' = queues
  BY DEF EnqueueReturn, Idle, Admitted
<1>2. /\ Shape /\ CountCaps /\ IsIntCall(call) /\ u \in User /\ m \in Message /\ m.id \in Nat
      /\ NothingAppears /\ Sorted(queues) /\ Sorted(call.before) /\ KindSpared /\ EvictsForNew
  BY <1>1, RunningCall, InvFacts DEF Inv, HistoryInv, StoreInv, Message
<1>3. /\ old = [v \in User |-> IF v \in DOMAIN call.before THEN call.before[v].messages ELSE <<>>]
      /\ Kept' = new
  BY <1>1 DEF Kept, Committed, Tracked
<1>4. \A v \in User : /\ old[v] \in Seq(Message) /\ InOrder(old[v]) /\ ToSet(old[v]) = Had(v)
                      /\ new[v] \in Seq(Message) /\ InOrder(new[v]) /\ ToSet(new[v]) = Has(v)
                      /\ LostBy(v) = Had(v) \ Has(v)
  <2> SUFFICES ASSUME NEW v \in User
               PROVE  /\ old[v] \in Seq(Message) /\ InOrder(old[v]) /\ ToSet(old[v]) = Had(v)
                      /\ new[v] \in Seq(Message) /\ InOrder(new[v]) /\ ToSet(new[v]) = Has(v)
                      /\ LostBy(v) = Had(v) \ Has(v)
    OBVIOUS
  <2>1. IsIntMap(call.before) /\ IsIntMap(queues)
    BY <1>2 DEF IsIntCall, Shape
  <2>2. old[v] = IF v \in DOMAIN call.before THEN call.before[v].messages ELSE <<>>
    BY <1>3
  <2>3. new[v] = IF v \in DOMAIN queues THEN queues[v].messages ELSE <<>>
    BY DEF Tracked
  <2>4. LostBy(v) = Had(v) \ Has(v)
    BY DEF LostBy, Had, Has
  <2> HIDE DEF old, new
  <2>5. old[v] \in Seq(Message) /\ InOrder(old[v]) /\ ToSet(old[v]) = Had(v)
    BY <1>2, <2>1, <2>2, QueueMapSeen DEF Had
  <2>6. new[v] \in Seq(Message) /\ InOrder(new[v]) /\ ToSet(new[v]) = Has(v)
    BY <1>2, <2>1, <2>3, QueueMapSeen DEF Has, Tracked
  <2> QED BY <2>4, <2>5, <2>6
<1>5. /\ u \in Tracked /\ new[u] = queues[u].messages /\ new[u] # <<>> /\ Last(new[u]) = m
      /\ \A v \in call.evicted : v \in User /\ v # u /\ new[v] = <<>>
  BY <1>1, <1>2 DEF Inv, NothingAppears, OrderTracksQueues, IsIntCall
<1>6. \A v \in User : Has(v) \subseteq Had(v) \cup (IF v = u THEN {m} ELSE {})
  BY <1>1, <1>2 DEF NothingAppears
<1>7. \A v \in User : m \notin Had(v)
  BY <1>2 DEF NothingAppears, Older, Had
<1>8. Store!WithinLimits(new)
  BY <1>1, QueuesWithinLimits
<1>9. Len(new[u]) <= MaxPerUser /\ Len(new[u]) \in Nat /\ MaxPerUser \in Nat
  BY <1>1, <1>2, <1>4, <1>5, QueueAssumption, LenProperties DEF CountCaps
<1> HIDE DEF u, m, old, new
<1>10. \A v \in User \ {u} : Store!IsSubsequence(new[v], old[v])
  BY <1>4, <1>6, FewerIsSubsequence
<1>11. Store!IsSubsequence(Front(new[u]), old[u])
  <2>1. /\ Front(new[u]) \in Seq(Message) /\ InOrder(Front(new[u]))
        /\ ToSet(Front(new[u])) = Has(u) \ {m}
    BY <1>2, <1>4, <1>5, FrontProperties
  <2> QED BY <1>2, <1>4, <1>6, <2>1, FewerIsSubsequence
<1>12. \A v \in User : Store!Lost(v) = LostBy(v)
  BY <1>3, <1>4, SharedOperators, Zenon DEF Store!Lost, old
<1>13. call.evicted # {} => \A l \in LostBy(u) : l.kind = m.kind
  BY <1>2, <1>5 DEF KindSpared, u, m
<1>14. \A v \in User \ ({u} \cup call.evicted) : \A l \in LostBy(v) : l.kind = m.kind
  BY <1>2 DEF KindSpared, u, m
<1>15. \A l \in LostBy(u) : l.kind = m.kind \/ Len(new[u]) = MaxPerUser
  BY <1>2, <1>5, <1>9 DEF KindSpared, u, m
<1>16. Store!Queued(u, m, call.evicted)
  <2>1. Kept' = new /\ Kept = old
    BY <1>3 DEF old
  <2>2. Store!Last(new[u]) = m /\ m \notin Store!ToSet(old[u])
    BY <1>2, <1>4, <1>5, <1>7, SharedOperators
  <2>3. Store!IsSubsequence(Store!Front(new[u]), old[u])
    BY <1>11, SharedOperators, Zenon
  <2>4. /\ call.evicted # {} => old[u] = <<>> \/ \A l \in Store!Lost(u) : l.kind = m.kind
        /\ \A v \in User \ ({u} \cup call.evicted) : \A l \in Store!Lost(v) : l.kind = m.kind
        /\ \A l \in Store!Lost(u) : l.kind = m.kind \/ Len(new[u]) = MaxPerUser
    BY <1>2, <1>12, <1>13, <1>14, <1>15
  <2> QED BY <1>5, <1>8, <1>10, <2>1, <2>2, <2>3, <2>4, Zenon DEF Store!Queued
<1>17. call.evicted \in {{}} \cup {{v} : v \in User} /\ Store!Last(Kept'[u]) = m
  BY <1>2, <1>3, <1>5, SharedOperators DEF EvictsForNew
<1> QED BY <1>2, <1>16, <1>17, Zenon DEF Store!Enqueue, u

LEMMA DrainIsDrained ==
    ASSUME NEW u \in User, Drain(u)
    PROVE  Store!Drained(u)
<1>1. /\ call = Idle /\ call' = Idle
      /\ DOMAIN queues' = DOMAIN queues \ {u}
      /\ \A v \in DOMAIN queues \ {u} : queues'[v] = queues[v]
  BY DEF Drain, Tracked
<1>2. Kept' = [Kept EXCEPT ![u] = <<>>]
  BY <1>1 DEF Kept, Committed
<1> QED BY <1>2 DEF Store!Drained

-----------------------------------------------------------------------------
(* The theorems.                                                           *)

\* Exact counters are natural numbers.
LEMMA CountersUnsigned ==
    ASSUME Inv, BytesInv
    PROVE  IsQueueMap(queues) /\ bytes \in [Kind -> Nat]
<1>1. Shape
  BY InvFacts
<1>2. \A v \in Tracked : \A k \in Kind : queues[v].bytes[k] \in Nat
  <2> SUFFICES ASSUME NEW v \in Tracked, NEW k \in Kind PROVE queues[v].bytes[k] \in Nat
    OBVIOUS
  <2>1. Held(v, k) \in Nat
    BY <1>1, HeldFacts DEF BytesInv
  <2> QED BY <2>1 DEF Held
<1>3. \A k \in Kind : bytes[k] \in Nat
  BY <1>1, HeldFacts DEF BytesInv
<1>4. bytes \in [Kind -> Nat]
  BY <1>1, <1>3 DEF Shape
<1>5. ASSUME NEW v \in Tracked PROVE queues[v] \in UserQueue
  <2>1. queues[v] \in IntQueue
    BY <1>1, <1>5 DEF Shape, IsIntMap, Tracked
  <2>2. queues[v].bytes \in [Kind -> Nat]
    BY <1>2, <1>5, <2>1 DEF IntQueue
  <2> QED BY <2>1, <2>2 DEF IntQueue, UserQueue
<1>6. IsQueueMap(queues)
  BY <1>1, <1>5 DEF Shape, IsIntMap, IsQueueMap, Tracked
<1> QED BY <1>4, <1>6

\* What a call found was so too.
FoundTyped == call # Idle => IsQueueMap(call.before)

LEMMA FoundStaysTyped == Inv /\ BytesInv /\ FoundTyped /\ [Next]_vars => FoundTyped'
<1> SUFFICES ASSUME Inv, BytesInv, FoundTyped, [Next]_vars, call' # Idle
             PROVE  IsQueueMap(call'.before)
  BY DEF FoundTyped, IsQueueMap
<1>1. ASSUME NEW u \in User, NEW k \in Kind, NEW b \in Size, EnqueueStart(u, k, b)
      PROVE  IsQueueMap(call'.before)
  <2>1. call'.before = queues
    BY <1>1 DEF EnqueueStart
  <2> QED BY <2>1, CountersUnsigned
<1>2. CASE EnqueueStep
  <2>1. call # Idle /\ IsIntCall(call)
    <3>1. call # Idle
      BY <1>2 DEF EnqueueStep, TrimUserBudget, UserBudgetTrimmed, MakeRoom, RoomMade, Admit,
                  AdmitEvicting, TrimToCap, CapTrimmed, EnqueueReturn, Idle
    <3> QED BY <3>1, RunningCall
  <2>2. ~EnqueueReturn
    BY DEF EnqueueReturn
  <2>3. call'.before = call.before
    BY <1>2, <2>1, <2>2
    DEF EnqueueStep, TrimUserBudget, UserBudgetTrimmed, MakeRoom, RoomMade, Admit,
        AdmitEvicting, AdmitTo, TrimToCap, CapTrimmed, IsIntCall
  <2> QED BY <2>1, <2>3 DEF FoundTyped
<1>3. CASE UNCHANGED call
  BY <1>3 DEF FoundTyped
<1> QED BY <1>1, <1>2, <1>3 DEF Next, EnqueueRefused, Drain, vars

\* Every reachable state of the queue is well-typed: its counters, which the code
\* holds unsigned and takes payloads off without a check, never wrap.
THEOREM QueueTypeCorrect == Spec => []TypeOK
<1>1. Init => Inv /\ BytesInv /\ FoundTyped
  BY InvInit, BytesInvInit DEF Init, FoundTyped
<1>2. Inv /\ BytesInv /\ FoundTyped /\ [Next]_vars => (Inv /\ BytesInv /\ FoundTyped)'
  BY InvStep, BytesInvStep, FoundStaysTyped
<1>3. Inv /\ BytesInv /\ FoundTyped => TypeOK
  <2> SUFFICES ASSUME Inv, BytesInv, FoundTyped PROVE TypeOK
    OBVIOUS
  <2>1. IsQueueMap(queues) /\ bytes \in [Kind -> Nat]
    BY CountersUnsigned
  <2>2. call # Idle => IsCall(call)
    BY InvFacts DEF FoundTyped, IsIntCall, IsCall
  <2> QED BY <2>1, <2>2 DEF TypeOK, Inv, IntTyped
<1> QED BY <1>1, <1>2, <1>3, PTL DEF Spec

\* Through every removal path and every loop iteration, the order list that
\* decides who is evicted names each tracked user exactly once.
THEOREM OrderAlwaysTracksQueues == Spec => []OrderTracksQueues
<1>1. Inv => OrderTracksQueues
  BY DEF Inv
<1> QED  BY <1>1, InvHolds, PTL

\* The number of users and the number of messages of each stay within their caps.
THEOREM CountsStayCapped == Spec => []CountCaps
<1>1. Inv => CountCaps
  BY DEF Inv
<1> QED  BY <1>1, InvHolds, PTL

\* The byte counters of the queue, adjusted by every admission, drop, eviction
\* and drain and never recomputed, are the sums of what is queued; neither a
\* user's nor the aggregate one passes its ceiling at any point of the loops; a
\* bystander loses messages only while no one holds more; and what enqueue
\* reports as displaced and trimmed is what it cost.
THEOREM BudgetAlwaysHolds == Spec => []BudgetHolds
<1>1. Inv /\ BytesInv /\ HistoryInv => BudgetHolds
  BY OutcomeTrue DEF BudgetHolds, BytesInv
<1> QED BY <1>1, BudgetInvHolds, PTL

\* What the router sees of the queue, taken when the lock is free, is at every
\* step what OfflineStore allows: enqueue and drain happen at once, each user's
\* messages stay in order, only the recipient's message cap and the eviction of a
\* whole queue ever cost a message of the other kind, and all limits hold.
THEOREM QueueImplementsStore == Spec => ImplementsStore
<1>1. Init => Store!StoreInit
  <2> SUFFICES ASSUME Init PROVE Store!StoreInit
    OBVIOUS
  <2>1. DOMAIN queues = {} /\ call = Idle
    BY EmptySeq DEF Init
  <2>2. Kept = [u \in User |-> <<>>]
    BY <2>1 DEF Kept, Committed
  <2> QED BY <2>2 DEF Store!StoreInit
<1>2. Inv /\ BytesInv /\ HistoryInv /\ StoreInv /\ [Next]_vars => [Store!StoreNext]_Kept
  <2> SUFFICES ASSUME Inv, BytesInv, HistoryInv, StoreInv, [Next]_vars
               PROVE  Store!StoreNext \/ Kept' = Kept
    OBVIOUS
  <2>1. CASE EnqueueReturn
    BY <2>1, ReturnIsEnqueue DEF Store!StoreNext
  <2>2. ASSUME NEW u \in User, Drain(u) PROVE Store!StoreNext
    BY <2>2, DrainIsDrained DEF Store!StoreNext
  <2>3. CASE EnqueueStep /\ ~EnqueueReturn
    BY <2>3, LoopStepsStutter
  <2>4. ASSUME NEW u \in User, NEW k \in Kind, NEW b \in Size, EnqueueRefused(u, k, b)
        PROVE  Kept' = Kept
    BY <2>4 DEF EnqueueRefused, Kept, Committed
  <2>5. ASSUME NEW u \in User, NEW k \in Kind, NEW b \in Size, EnqueueStart(u, k, b)
        PROVE  Kept' = Kept
    <3>1. call = Idle /\ call'.pc # "idle" /\ call'.before = queues
      BY <2>5 DEF EnqueueStart
    <3> QED BY <3>1 DEF Kept, Committed, Idle
  <2>6. CASE UNCHANGED vars
    BY <2>6 DEF vars, Kept, Committed
  <2> QED BY <2>1, <2>2, <2>3, <2>4, <2>5, <2>6 DEF Next
<1> QED BY <1>1, <1>2, StoreInvHolds, PTL DEF Spec, ImplementsStore, Store!StoreSpec
=============================================================================
