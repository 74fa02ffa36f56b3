------------------------- MODULE MessageModelCounts -------------------------
(***************************************************************************)
(* Proofs about MessageModel that count: what the push loop sends obeys    *)
(* the policy of pushMessagesTo, and a message at most doubles its holders *)
(* in a timestep.                                                          *)
(***************************************************************************)
EXTENDS MessageModelProofs, FiniteSetTheorems

-----------------------------------------------------------------------------
(* The messages a node sends                                               *)

LEMMA EligibleFinite ==
  ASSUME IInv, NEW n \in Node
  PROVE  /\ messages[n] \in Seq(Uuid) /\ Len(messages[n]) \in Nat
         /\ DOMAIN messages[n] = 1 .. Len(messages[n])
         /\ Eligible(n) \subseteq 1 .. Len(messages[n])
         /\ IsFiniteSet(Eligible(n)) /\ Cardinality(Eligible(n)) \in Nat
<1>1. /\ messages[n] \in Seq(Uuid) /\ Len(messages[n]) \in Nat
      /\ DOMAIN messages[n] = 1 .. Len(messages[n])
  BY DEF IInv, TypeOK
<1>2. Eligible(n) \subseteq 1 .. Len(messages[n])
  BY <1>1 DEF Eligible
<1>3. IsFiniteSet(1 .. Len(messages[n]))
  BY <1>1, FS_Interval
<1>. QED
  BY <1>1, <1>2, <1>3, FS_Subset, FS_CardinalityType

\* The order in which the two loops visit the list is a strict total order.
LEMMA SendOrder ==
  ASSUME IInv, NEW n \in Node
  PROVE  \A j, k, l \in Eligible(n) :
           /\ ~SentBefore(n, k, k)
           /\ SentBefore(n, j, k) /\ SentBefore(n, k, l) => SentBefore(n, j, l)
           /\ j # k => SentBefore(n, j, k) \/ SentBefore(n, k, j)
<1>1. \A k : SendPass(n, k) \in Int
  BY DEF SendPass
<1>2. Eligible(n) \subseteq Int
  BY EligibleFinite
<1>. QED
  BY <1>1, <1>2 DEF SentBefore

\* The positions that are sent before position k.
Earlier(n, k) == {l \in Eligible(n) : SentBefore(n, l, k)}

LEMMA EarlierFinite ==
  ASSUME IInv, NEW n \in Node, NEW k
  PROVE  IsFiniteSet(Earlier(n, k)) /\ Cardinality(Earlier(n, k)) \in Nat
<1>1. Earlier(n, k) \in SUBSET Eligible(n)
  BY DEF Earlier
<1>. QED
  BY <1>1, EligibleFinite, FS_Subset, FS_CardinalityType

\* Later positions have more before them.
LEMMA EarlierGrows ==
  ASSUME IInv, NEW n \in Node, NEW k \in Eligible(n), NEW l \in Eligible(n),
         SentBefore(n, k, l)
  PROVE  Cardinality(Earlier(n, k)) < Cardinality(Earlier(n, l))
<1>1. Earlier(n, k) \in SUBSET Earlier(n, l)
  BY SendOrder DEF Earlier
<1>2. k \in Earlier(n, l) /\ k \notin Earlier(n, k)
  BY SendOrder DEF Earlier
<1>3. /\ Cardinality(Earlier(n, k)) <= Cardinality(Earlier(n, l))
      /\ Cardinality(Earlier(n, l)) = Cardinality(Earlier(n, k)) => Earlier(n, l) = Earlier(n, k)
  BY <1>1, EarlierFinite, FS_Subset
<1>4. Cardinality(Earlier(n, k)) \in Nat /\ Cardinality(Earlier(n, l)) \in Nat
  BY EarlierFinite
<1>. QED
  BY <1>2, <1>3, <1>4

\* Counting the earlier positions numbers the eligible ones from 0 on.
LEMMA Numbering ==
  ASSUME IInv, NEW n \in Node
  PROVE  LET E == Eligible(n)
             f == [k \in E |-> Cardinality(Earlier(n, k))]
         IN  /\ f \in Injection(E, 0 .. Cardinality(E) - 1)
             /\ f \in Surjection(E, 0 .. Cardinality(E) - 1)
<1>. DEFINE E == Eligible(n)
            c == Cardinality(E)
            f == [k \in E |-> Cardinality(Earlier(n, k))]
<1>1. IsFiniteSet(E) /\ c \in Nat
  BY EligibleFinite
<1>2. ASSUME NEW k \in E
      PROVE  Cardinality(Earlier(n, k)) \in 0 .. c - 1
  <2>1. IsFiniteSet(E \ {k}) /\ Cardinality(E \ {k}) = c - 1
    BY <1>1, FS_RemoveElement
  <2>2. Earlier(n, k) \in SUBSET (E \ {k})
    BY SendOrder DEF Earlier
  <2>3. Cardinality(Earlier(n, k)) <= Cardinality(E \ {k})
    BY <2>1, <2>2, FS_Subset
  <2>4. Cardinality(Earlier(n, k)) \in Nat
    BY EarlierFinite
  <2>. QED
    BY <1>1, <2>1, <2>3, <2>4
<1>3. f \in [E -> 0 .. c - 1]
  BY <1>2
<1>4. \A k, l \in E : f[k] = f[l] => k = l
  <2>1. SUFFICES ASSUME NEW k \in E, NEW l \in E, k # l
                 PROVE  f[k] # f[l]
    OBVIOUS
  <2>2. SentBefore(n, k, l) \/ SentBefore(n, l, k)
    BY <2>1, SendOrder
  <2>3. Cardinality(Earlier(n, k)) < Cardinality(Earlier(n, l))
        \/ Cardinality(Earlier(n, l)) < Cardinality(Earlier(n, k))
    BY <2>2, EarlierGrows
  <2>4. Cardinality(Earlier(n, k)) \in Nat /\ Cardinality(Earlier(n, l)) \in Nat
    BY EarlierFinite
  <2>. QED
    BY <2>3, <2>4
<1>5. f \in Injection(E, 0 .. c - 1)
  BY <1>3, <1>4 DEF Injection, IsInjective
<1>6. IsFiniteSet(0 .. c - 1) /\ Cardinality(0 .. c - 1) = c
  BY <1>1, FS_Interval
<1>. HIDE DEF f
<1>7. f \in Surjection(E, 0 .. c - 1)
  BY <1>5, <1>6, FS_Injection
<1>. QED
  BY <1>5, <1>7 DEF f

\* min(m, c) of c positions are sent.
LEMMA SentCount ==
  ASSUME IInv, NEW n \in Node
  PROVE  /\ IsFiniteSet(Sent(n))
         /\ Cardinality(Sent(n)) =
              IF msg_exchange_num < Cardinality(Eligible(n))
              THEN msg_exchange_num ELSE Cardinality(Eligible(n))
<1>. DEFINE E == Eligible(n)
            c == Cardinality(E)
            f == [k \in E |-> Cardinality(Earlier(n, k))]
            m == IF msg_exchange_num < c THEN msg_exchange_num ELSE c
            g == [k \in Sent(n) |-> f[k]]
<1>1. f \in Injection(E, 0 .. c - 1) /\ f \in Surjection(E, 0 .. c - 1)
  BY Numbering
<1>2. msg_exchange_num \in Nat /\ c \in Nat
  BY ConfigAssumption, EligibleFinite
<1>3. Sent(n) = {k \in E : f[k] < msg_exchange_num}
  BY DEF Sent, Earlier
<1>4. \A k \in E : f[k] \in 0 .. c - 1
  BY <1>1 DEF Injection
<1>. HIDE DEF E, f
<1>5. g \in [Sent(n) -> 0 .. m - 1]
  BY <1>2, <1>3, <1>4
<1>6. g \in Injection(Sent(n), 0 .. m - 1)
  <2>1. \A k, l \in E : f[k] = f[l] => k = l
    BY <1>1 DEF Injection, IsInjective
  <2>2. \A k, l \in Sent(n) : g[k] = g[l] => k = l
    BY <1>3, <2>1
  <2>. QED
    BY <1>5, <2>2 DEF Injection, IsInjective
<1>7. g \in Surjection(Sent(n), 0 .. m - 1)
  <2>1. ASSUME NEW x \in 0 .. m - 1
        PROVE  \E k \in Sent(n) : g[k] = x
    <3>1. x \in 0 .. c - 1 /\ x < msg_exchange_num
      BY <1>2
    <3>2. PICK k \in E : f[k] = x
      BY <1>1, <3>1 DEF Surjection
    <3>. QED
      BY <1>3, <3>1, <3>2
  <2>. QED
    BY <1>5, <2>1 DEF Surjection
<1>8. IsFiniteSet(Sent(n))
  BY <1>3, EligibleFinite, FS_Subset DEF E
<1>9. Cardinality(0 .. m - 1) = m
  <2>1. m \in Nat
    BY <1>2
  <2>. HIDE DEF m
  <2>. QED
    BY <2>1, FS_Interval
<1>10. Cardinality(Sent(n)) = m
  <2>. HIDE DEF g, m
  <2>1. ExistsBijection(Sent(n), 0 .. m - 1)
    BY <1>6, <1>7 DEF ExistsBijection, Bijection
  <2>. QED
    BY <1>8, <1>9, <2>1, FS_Bijection
<1>. QED
  BY <1>8, <1>10 DEF E

\* No position left out comes before one that is sent.
LEMMA SentFirst ==
  ASSUME IInv, NEW n \in Node, NEW k \in Sent(n), NEW l \in Eligible(n) \ Sent(n)
  PROVE  SentBefore(n, k, l)
<1>1. k \in Eligible(n) /\ Cardinality(Earlier(n, k)) < msg_exchange_num
  BY DEF Sent, Earlier
<1>2. ~(Cardinality(Earlier(n, l)) < msg_exchange_num)
  BY DEF Sent, Earlier
<1>3. k # l
  BY <1>1, <1>2
<1>4. ~SentBefore(n, l, k)
  <2>1. SUFFICES ASSUME SentBefore(n, l, k) PROVE FALSE
    OBVIOUS
  <2>2. Cardinality(Earlier(n, l)) < Cardinality(Earlier(n, k))
    BY <1>1, <2>1, EarlierGrows
  <2>3. Cardinality(Earlier(n, k)) \in Nat /\ Cardinality(Earlier(n, l)) \in Nat
    BY EarlierFinite
  <2>. QED
    BY <1>1, <1>2, <2>2, <2>3, ConfigAssumption
<1>. QED
  BY <1>1, <1>3, <1>4, SendOrder

-----------------------------------------------------------------------------
(* The push policy                                                         *)

Stranger(n, u) == getType(message_map[n][u].sender) # getType(n)

UuidsAt(n, S) == {messages[n][k] : k \in S}

\* A list without repetitions has as many uuids as places.
LEMMA UuidsCount ==
  ASSUME IInv, NEW n \in Node, NEW S \in SUBSET (DOMAIN messages[n]), IsFiniteSet(S)
  PROVE  Cardinality(UuidsAt(n, S)) = Cardinality(S)
<1>. DEFINE U == UuidsAt(n, S)
            h == [k \in S |-> messages[n][k]]
<1>1. \A k, l \in S : messages[n][k] = messages[n][l] => k = l
  BY DEF IInv, ListMatchesMap, IsInjective
<1>2. h \in Injection(S, U) /\ h \in Surjection(S, U)
  BY <1>1 DEF UuidsAt, Injection, Surjection, IsInjective
<1>3. ExistsBijection(S, U)
  BY <1>2 DEF ExistsBijection, Bijection
<1>. QED
  BY <1>3, FS_Bijection

\* The loops pass over exactly the messages that the node may push.
LEMMA EligibleMayPush ==
  ASSUME IInv, NEW n \in Node, NEW k \in DOMAIN messages[n]
  PROVE  LET u == messages[n][k]
         IN  /\ u \in DOMAIN message_map[n]
             /\ k \in Eligible(n) <=> u \in MayPush(n)
             /\ SendPass(n, k) =
                  IF ~Stranger(n, u) THEN 1
                  ELSE IF getType(n) = "ADVERSARY" THEN 0
                  ELSE IF use_friendships THEN 2 ELSE 1
<1>. DEFINE u == messages[n][k]
            s == message_map[n][u].sender
<1>1. u \in ToSet(messages[n])
  BY DEF ToSet
<1>2. u \in DOMAIN message_map[n]
  BY <1>1 DEF IInv, ListMatchesMap
<1>3. trustDistance(n, s) = -1 <=> getType(s) # getType(n)
  BY DEF trustDistance
<1>4. SendPass(n, k) =
        IF ~Stranger(n, u) THEN 1
        ELSE IF getType(n) = "ADVERSARY" THEN 0
        ELSE IF use_friendships THEN 2 ELSE 1
  BY <1>3 DEF SendPass, Stranger
<1>5. k \in Eligible(n) <=> SendPass(n, k) # 0
  BY DEF Eligible
<1>6. u \in MayPush(n) <=> (getType(n) = "ADVERSARY" => ~Stranger(n, u))
  BY <1>2 DEF MayPush, Stranger
<1>7. SendPass(n, k) # 0 <=> (getType(n) = "ADVERSARY" => ~Stranger(n, u))
  BY <1>4
<1>. QED
  BY <1>2, <1>4, <1>5, <1>6, <1>7

\* A node's push list is what the policy says.
LEMMA PushListPolicy ==
  ASSUME IInv, NEW n \in Node,
         NEW sent, sent = {m.uuid : m \in PushList(n)}
  PROVE  /\ sent \subseteq MayPush(n)
         /\ Cardinality(sent) = Min({msg_exchange_num, Cardinality(MayPush(n))})
         /\ \A u \in sent, v \in MayPush(n) \ sent : Preferable(n, u, v)
<1>1. sent = UuidsAt(n, Sent(n))
  <2>. DEFINE S == {messages[n][k] : k \in Sent(n)}
              R(u) == [from |-> n, uuid |-> u, sender |-> message_map[n][u].sender,
                       creationTime |-> message_map[n][u].creationTime]
  <2>1. PushList(n) = {R(u) : u \in S}
    BY Zenon DEF PushList
  <2>2. \A u : R(u).uuid = u
    OBVIOUS
  <2>. HIDE DEF R, S
  <2>3. {m.uuid : m \in {R(u) : u \in S}} = S
    BY <2>2
  <2>. QED
    BY <2>1, <2>3 DEF S, UuidsAt
<1>2. Eligible(n) \subseteq DOMAIN messages[n] /\ Sent(n) \subseteq Eligible(n)
  BY DEF Eligible, Sent
<1>3. MayPush(n) = UuidsAt(n, Eligible(n))
  <2>1. ASSUME NEW u \in MayPush(n)
        PROVE  u \in UuidsAt(n, Eligible(n))
    <3>1. u \in ToSet(messages[n])
      BY DEF MayPush, IInv, ListMatchesMap
    <3>2. PICK k \in DOMAIN messages[n] : messages[n][k] = u
      BY <3>1 DEF ToSet
    <3>3. k \in Eligible(n)
      BY <3>2, EligibleMayPush
    <3>. QED
      BY <3>2, <3>3 DEF UuidsAt
  <2>2. UuidsAt(n, Eligible(n)) \subseteq MayPush(n)
    BY <1>2, EligibleMayPush DEF UuidsAt
  <2>. QED
    BY <2>1, <2>2
<1>4. sent \subseteq MayPush(n)
  BY <1>1, <1>2, <1>3 DEF UuidsAt
<1>5. Cardinality(sent) = Min({msg_exchange_num, Cardinality(MayPush(n))})
  <2>1. Cardinality(sent) = Cardinality(Sent(n))
    BY <1>1, <1>2, SentCount, UuidsCount
  <2>2. Cardinality(MayPush(n)) = Cardinality(Eligible(n))
    BY <1>2, <1>3, EligibleFinite, UuidsCount
  <2>3. msg_exchange_num \in Nat /\ Cardinality(Eligible(n)) \in Nat
    BY ConfigAssumption, EligibleFinite
  <2>4. \A a, b \in Nat : Min({a, b}) = IF a < b THEN a ELSE b
    BY DEF Min
  <2>. QED
    BY <2>1, <2>2, <2>3, <2>4, SentCount
<1>6. ASSUME NEW u \in sent, NEW v \in MayPush(n) \ sent
      PROVE  Preferable(n, u, v)
  <2>1. PICK k \in Sent(n) : u = messages[n][k]
    BY <1>1 DEF UuidsAt
  <2>2. PICK l \in Eligible(n) : v = messages[n][l]
    BY <1>3 DEF UuidsAt
  <2>3. l \notin Sent(n)
    BY <1>1, <1>6, <2>2 DEF UuidsAt
  <2>4. SentBefore(n, k, l)
    BY <2>3, SentFirst
  <2>5. k \in DOMAIN messages[n] /\ l \in DOMAIN messages[n] /\ k \in Eligible(n)
    BY <1>2
  <2>6. \A x, y \in DOMAIN messages[n] : messages[n][x] = messages[n][y] => x = y
    BY DEF IInv, ListMatchesMap, IsInjective
  <2>7. /\ (CHOOSE x \in DOMAIN messages[n] : messages[n][x] = u) = k
        /\ (CHOOSE x \in DOMAIN messages[n] : messages[n][x] = v) = l
    BY <2>1, <2>2, <2>5, <2>6
  <2>8. /\ SendPass(n, k) = IF ~Stranger(n, u) THEN 1
                            ELSE IF getType(n) = "ADVERSARY" THEN 0
                            ELSE IF use_friendships THEN 2 ELSE 1
        /\ SendPass(n, l) = IF ~Stranger(n, v) THEN 1
                            ELSE IF getType(n) = "ADVERSARY" THEN 0
                            ELSE IF use_friendships THEN 2 ELSE 1
        /\ SendPass(n, k) # 0 /\ SendPass(n, l) # 0
    BY <2>1, <2>2, <2>5, EligibleMayPush DEF Eligible
  <2>9. use_friendships /\ (Stranger(n, u) # Stranger(n, v)) => Stranger(n, v)
    BY <2>4, <2>8 DEF SentBefore, Stranger
  <2>10. ~(use_friendships /\ (Stranger(n, u) # Stranger(n, v))) => k > l
    BY <2>4, <2>8 DEF SentBefore, Stranger
  <2>. QED
    BY <2>7, <2>9, <2>10 DEF Preferable, Stranger
<1>. QED
  BY <1>4, <1>5, <1>6

\* What node n has in flight.
InFlight(n) == {m \in UNION {temp_messages[r] : r \in Node} : m.from = n}

\* In the push loop, a node has pushed its list, to one receiver, if its
\* turn was, and nothing otherwise.
PushedOnce ==
  phase = "push" =>
    /\ \A n \in Node : InFlight(n) = {} \/ (n < i /\ InFlight(n) = PushList(n))
    /\ \A a, b \in Node : \A m \in temp_messages[a], k \in temp_messages[b] :
         m.from = k.from => a = b

\* What a push adds to the messages in flight.
LEMMA PushAdds ==
  ASSUME IInv, PushedOnce, NEW n \in Node, NEW that \in Node, At("push", n),
         pushMessagesTo(n, that)
  PROVE  /\ \A r \in Node \ {n} : InFlight(r)' = InFlight(r)
         /\ InFlight(n)' = PushList(n)
         /\ \A r \in Node : PushList(r)' = PushList(r)
         /\ \A a, b \in Node : \A m \in temp_messages'[a], k \in temp_messages'[b] :
              m.from = k.from => a = b
<1>1. /\ temp_messages \in [Node -> SUBSET Pushed]
      /\ i = n /\ i \in Node /\ Node \subseteq Int /\ phase = "push"
  BY DEF IInv, TypeOK, At, Node
<1>2. temp_messages' = [temp_messages EXCEPT ![that] = @ \cup PushList(n)]
  BY DEF pushMessagesTo
<1>3. \A m \in PushList(n) : m.from = n
  BY DEF PushList
<1>4. InFlight(n) = {}
  BY <1>1 DEF PushedOnce
<1>5. \A r \in Node : \A m \in temp_messages[r] : m.from # n
  BY <1>4 DEF InFlight
<1>6. \A r \in Node \ {that} : temp_messages'[r] = temp_messages[r]
  BY <1>1, <1>2
<1>7. temp_messages'[that] = temp_messages[that] \cup PushList(n)
  BY <1>1, <1>2
<1>. DEFINE before == UNION {temp_messages[r] : r \in Node}
            after  == UNION {temp_messages'[r] : r \in Node}
<1>8. after = before \cup PushList(n)
  <2>1. ASSUME NEW m, \E r \in Node : m \in temp_messages'[r]
        PROVE  (\E r \in Node : m \in temp_messages[r]) \/ m \in PushList(n)
    BY <1>6, <1>7, <2>1
  <2>2. ASSUME NEW m, (\E r \in Node : m \in temp_messages[r]) \/ m \in PushList(n)
        PROVE  \E r \in Node : m \in temp_messages'[r]
    BY <1>6, <1>7, <2>2
  <2>3. /\ \A m : m \in before <=> \E r \in Node : m \in temp_messages[r]
        /\ \A m : m \in after <=> \E r \in Node : m \in temp_messages'[r]
    OBVIOUS
  <2>4. \A m : m \in after <=> (m \in before \/ m \in PushList(n))
    BY <2>1, <2>2, <2>3
  <2>. HIDE DEF before, after
  <2>. QED
    BY <2>4
<1>13. \A r \in Node : /\ InFlight(r) = {m \in before : m.from = r}
                      /\ InFlight(r)' = {m \in after : m.from = r}
  BY DEF InFlight
<1>. HIDE DEF before, after
<1>9. \A r \in Node \ {n} : InFlight(r)' = InFlight(r)
  <2>1. SUFFICES ASSUME NEW r \in Node, r # n PROVE InFlight(r)' = InFlight(r)
    OBVIOUS
  <2>2. \A m \in PushList(n) : m.from # r
    BY <1>3, <2>1
  <2>3. \A m : (m \in after /\ m.from = r) <=> (m \in before /\ m.from = r)
    BY <1>8, <2>2
  <2>. QED
    BY <1>13, <2>1, <2>3
<1>10. InFlight(n)' = PushList(n)
  BY <1>3, <1>4, <1>8, <1>13
<1>11. \A r \in Node : PushList(r)' = PushList(r)
  BY DEF pushMessagesTo, PushList, Sent, Eligible, SentBefore, SendPass
<1>12. ASSUME NEW a \in Node, NEW b \in Node, NEW m \in temp_messages'[a],
              NEW k \in temp_messages'[b], m.from = k.from
       PROVE  a = b
  <2>1. CASE m.from = n
    BY <1>5, <1>6, <1>7, <1>12, <2>1
  <2>2. CASE m.from # n
    <3>1. m \in temp_messages[a] /\ k \in temp_messages[b]
      BY <1>3, <1>6, <1>7, <1>12, <2>2
    <3>. QED
      BY <1>1, <1>12, <3>1 DEF PushedOnce
  <2>. QED
    BY <2>1, <2>2
<1>. QED
  BY <1>9, <1>10, <1>11, <1>12

LEMMA PushedOnceKept ==
  ASSUME IInv, NothingInFlightLater, PushedOnce, [Next]_vars
  PROVE  PushedOnce'
<1>1. i \in Node /\ Node \subseteq Int
  BY DEF IInv, TypeOK, Node
<1>2. SUFFICES ASSUME phase' = "push"
               PROVE  PushedOnce'
  BY DEF PushedOnce
<1>3. CASE phase = "create"
  <2>1. \A n \in Node : temp_messages[n] = {}
    BY <1>3 DEF NothingInFlightLater
  <2>2. temp_messages' = temp_messages
    BY <1>2, <1>3 DEF Next, CreateLoop, PushLoop, MergeLoop, createNewMessage, SkipCreation,
       PushToNeighbour, NoPotentials, PushPastTheEnd, ReceiveMessage, EndMerge, Move, At, node, vars
  <2>3. \A n \in Node : temp_messages'[n] = {}
    BY <2>1, <2>2
  <2>4. \A n \in Node : InFlight(n)' = {}
    BY <2>3 DEF InFlight
  <2>. QED
    BY <2>3, <2>4 DEF PushedOnce
<1>4. CASE phase = "push"
  <2>1. CASE UNCHANGED vars
    <3>1. \A n \in Node : InFlight(n)' = InFlight(n) /\ PushList(n)' = PushList(n)
      BY <2>1 DEF vars, InFlight, PushList, Sent, Eligible, SentBefore, SendPass
    <3>. QED
      BY <1>4, <2>1, <3>1 DEF PushedOnce, vars
  <2>2. ASSUME NEW n \in Node, NoPotentials(n)
        PROVE  PushedOnce'
    <3>1. i = n /\ i' = n + 1 /\ UNCHANGED <<messages, message_map, temp_messages>>
      BY <1>2, <2>2 DEF NoPotentials, NextIteration, At, node
    <3>2. \A r \in Node : InFlight(r)' = InFlight(r) /\ PushList(r)' = PushList(r)
      BY <3>1 DEF InFlight, PushList, Sent, Eligible, SentBefore, SendPass
    <3>3. \A r \in Node : r < i => r < i'
      BY <1>1, <3>1
    <3>. QED
      BY <1>4, <3>1, <3>2, <3>3 DEF PushedOnce
  <2>3. ASSUME NEW n \in Node, NEW that \in Node, At("push", n), pushMessagesTo(n, that)
        PROVE  PushedOnce'
    <3>1. i = n /\ i' = n + 1
      BY <1>2, <2>3 DEF pushMessagesTo, NextIteration, At
    <3>2. \A r \in Node : r < i => r < i'
      BY <1>1, <3>1
    <3>3. n < i'
      BY <1>1, <3>1
    <3>. QED
      BY <1>4, <2>3, <3>1, <3>2, <3>3, PushAdds DEF PushedOnce
  <2>4. ASSUME NEW n \in Node, PushToNeighbour(n)
        PROVE  PushedOnce'
    BY <2>3, <2>4 DEF PushToNeighbour, IInv, TypeOK
  <2>5. ASSUME NEW n \in Node, PushPastTheEnd(n)
        PROVE  PushedOnce'
    BY <1>2, <2>3, <2>5 DEF PushPastTheEnd
  <2>6. ~Move /\ \A n \in Node : ~CreateLoop(n) /\ ~MergeLoop(n)
    BY <1>4 DEF Move, CreateLoop, MergeLoop, createNewMessage, SkipCreation, ReceiveMessage,
       EndMerge, At
  <2>. QED
    BY <2>1, <2>2, <2>4, <2>5, <2>6 DEF Next, PushLoop
<1>5. phase \in {"create", "push"}
  BY <1>2 DEF Next, CreateLoop, PushLoop, MergeLoop, createNewMessage, SkipCreation,
     PushToNeighbour, NoPotentials, PushPastTheEnd, pushMessagesTo, ReceiveMessage, EndMerge,
     Move, NextIteration, At, vars
<1>. QED
  BY <1>3, <1>4, <1>5

LEMMA PushedOnceAlways == Spec => []PushedOnce
<1>1. Init => PushedOnce
  BY DEF Init, PushedOnce
<1>2. IInv /\ NothingInFlightLater /\ PushedOnce /\ [Next]_vars => PushedOnce'
  BY PushedOnceKept
<1>. QED
  BY <1>1, <1>2, Invariance, NothingInFlightLaterAlways, PTL DEF Spec

\* What a node pushes obeys the policy of pushMessagesTo: its own type's messages
\* for an adversary, as many as the limit allows, friends' before strangers'
\* and newer before older ones.
THEOREM PushPolicyAlways == Spec => []PushPolicy
<1>1. IInv /\ PushedOnce => PushPolicy
  <2>1. SUFFICES ASSUME IInv, PushedOnce, phase = "push", NEW n \in Node,
                        NEW sent, sent = {m.uuid : m \in InFlight(n)}, sent # {}
                 PROVE  /\ sent \subseteq MayPush(n)
                        /\ Cardinality(sent) = Min({msg_exchange_num, Cardinality(MayPush(n))})
                        /\ \A u \in sent, v \in MayPush(n) \ sent : Preferable(n, u, v)
    BY DEF PushPolicy, InFlight
  <2>2. InFlight(n) = PushList(n)
    BY <2>1 DEF PushedOnce
  <2>. QED
    BY <2>1, <2>2, PushListPolicy
<1>. QED
  BY <1>1, PushedOnceAlways, Invariance, PTL

-----------------------------------------------------------------------------
(* The holders of a message                                                *)

\* The subsets of 1..n+1 are those of 1..n, and as many that have n+1.
LEMMA Doubling ==
  ASSUME NEW n \in Nat
  PROVE  2^n \in Nat /\ 2^(n+1) = 2^n + 2^n
<1>. DEFINE A == SUBSET (1 .. n)
            B == {X \cup {n+1} : X \in A}
            f == [X \in A |-> X \cup {n+1}]
<1>1. IsFiniteSet(1 .. n) /\ Cardinality(1 .. n) = n
  BY FS_Interval
<1>2. IsFiniteSet(1 .. n+1) /\ Cardinality(1 .. n+1) = n+1
  BY FS_Interval
<1>3. IsFiniteSet(A) /\ Cardinality(A) = 2^n
  BY <1>1, FS_SUBSET
<1>4. Cardinality(SUBSET (1 .. n+1)) = 2^(n+1)
  BY <1>2, FS_SUBSET
<1>5. \A X \in A : n+1 \notin X
  OBVIOUS
<1>6. IsFiniteSet(B) /\ Cardinality(B) = Cardinality(A)
  <2>1. \A X, Y \in A : X \cup {n+1} = Y \cup {n+1} => X = Y
    BY <1>5
  <2>2. f \in [A -> B] /\ DOMAIN f = A
    OBVIOUS
  <2>3. \A X, Y \in A : f[X] = f[Y] => X = Y
    BY <2>1
  <2>4. \A Y \in B : \E X \in A : f[X] = Y
    OBVIOUS
  <2>. HIDE DEF A, B, f
  <2>5. f \in Injection(A, B) /\ f \in Surjection(A, B)
    BY <2>2, <2>3, <2>4 DEF Injection, Surjection, IsInjective
  <2>6. ExistsBijection(A, B)
    BY <2>5 DEF ExistsBijection, Bijection
  <2>. QED
    BY <1>3, <2>6, FS_Bijection
<1>7. A \cap B = {}
  BY <1>5
<1>8. SUBSET (1 .. n+1) = A \cup B
  <2>1. ASSUME NEW X \in SUBSET (1 .. n+1)
        PROVE  X \in A \/ X \in B
    <3>1. CASE n+1 \in X
      <4>1. X \ {n+1} \in A /\ X = (X \ {n+1}) \cup {n+1}
        BY <3>1
      <4>. QED
        BY <4>1
    <3>2. CASE n+1 \notin X
      BY <3>2
    <3>. QED
      BY <3>1, <3>2
  <2>2. 1 .. n \subseteq 1 .. n+1 /\ n+1 \in 1 .. n+1
    OBVIOUS
  <2>3. A \subseteq SUBSET (1 .. n+1)
    BY <2>2
  <2>4. \A X \in A : X \cup {n+1} \in SUBSET (1 .. n+1)
    BY <2>2
  <2>5. B \subseteq SUBSET (1 .. n+1)
    BY <2>4
  <2>. HIDE DEF A, B
  <2>. QED
    BY <2>1, <2>3, <2>5
<1>. HIDE DEF A, B
<1>9. 2^n \in Nat
  BY <1>3, FS_CardinalityType
<1>10. Cardinality(A \cup B) = 2^n + 2^n
  <2>1. Cardinality(A \cap B) = 0
    BY <1>7, FS_EmptySet
  <2>. QED
    BY <1>3, <1>6, <1>9, <2>1, FS_Union
<1>. QED
  BY <1>4, <1>8, <1>9, <1>10

Holders(u) == {n \in Node : hasReceivedMessage(n, u)}

Targets(u) == {n \in Node : \E m \in temp_messages[n] : m.uuid = u}

Age(s, u) == time - message_map[s][u].creationTime

AfterPushes == phase \in {"merge", "move"}

\* Once all pushes of a timestep are over, it is those who hold a message or
\* will that have doubled at most.
Spread ==
  \A s \in Node : \A u \in DOMAIN message_map[s] :
    IF AfterPushes
    THEN Cardinality(Holders(u) \cup Targets(u)) <= 2^(Age(s, u) + 1)
    ELSE Cardinality(Holders(u)) <= 2^Age(s, u)

LEMMA NodesFinite ==
  ASSUME NEW S, S \subseteq Node
  PROVE  IsFiniteSet(S) /\ Cardinality(S) \in Nat
<1>1. IsFiniteSet(Node)
  BY ConfigAssumption, FS_Interval DEF Node
<1>. QED
  BY <1>1, FS_Subset, FS_CardinalityType

LEMMA FewerNodes ==
  ASSUME NEW S, S \subseteq Node, NEW R, R \subseteq S
  PROVE  Cardinality(R) <= Cardinality(S)
BY NodesFinite, FS_Subset

LEMMA AgeNat ==
  ASSUME IInv, NEW s \in Node, NEW u \in DOMAIN message_map[s]
  PROVE  Age(s, u) \in Nat
<1>1. /\ message_map[s][u].creationTime \in Nat /\ message_map[s][u].latency \in Int
      /\ time \in Nat
  BY DEF IInv, TypeOK, MessageData
<1>2. /\ message_map[s][u].latency >= 0
      /\ message_map[s][u].creationTime + message_map[s][u].latency <= time
  BY DEF IInv, LatencyInThePast
<1>. QED
  BY <1>1, <1>2 DEF Age

\* When a push loop has ended, what is in flight of a message has one receiver
\* for each of its holders.
LEMMA TargetsBounded ==
  ASSUME IInv', NEW u,
         \A a, b \in Node : \A m \in temp_messages'[a], k \in temp_messages'[b] :
           m.from = k.from => a = b
  PROVE  Cardinality(Targets(u)') <= Cardinality(Holders(u)')
<1>. DEFINE Pusher(a) == CHOOSE h \in Holders(u)' :
                           \E m \in temp_messages'[a] : m.uuid = u /\ m.from = h
            g == [a \in Targets(u)' |-> Pusher(a)]
<1>1. ASSUME NEW a \in Targets(u)'
      PROVE  /\ Pusher(a) \in Holders(u)'
             /\ \E m \in temp_messages'[a] : m.uuid = u /\ m.from = Pusher(a)
  <2>1. PICK m \in temp_messages'[a] : m.uuid = u
    BY DEF Targets
  <2>2. a \in Node /\ m.from \in Node
    BY DEF Targets, IInv, TypeOK, Pushed
  <2>3. m.from \in Holders(u)'
    BY <2>1, <2>2 DEF IInv, PushedIsHeld, Holders
  <2>. QED
    BY <2>1, <2>3
<1>. HIDE DEF Pusher
<1>2. \A a, b \in Targets(u)' : Pusher(a) = Pusher(b) => a = b
  BY <1>1 DEF Targets
<1>3. g \in Injection(Targets(u)', Holders(u)')
  BY <1>1, <1>2 DEF Injection, IsInjective
<1>4. IsFiniteSet(Holders(u)')
  BY NodesFinite DEF Holders
<1>. QED
  BY <1>3, <1>4, FS_Injection

\* A step that changes no map and no time, and ends no push loop.
LEMMA SpreadQuiet ==
  ASSUME IInv, Spread, UNCHANGED <<message_map, time>>, AfterPushes' <=> AfterPushes,
         AfterPushes => \A n \in Node : temp_messages'[n] \subseteq temp_messages[n]
  PROVE  Spread'
<1>1. SUFFICES ASSUME NEW s \in Node, NEW u \in DOMAIN message_map[s]
               PROVE  IF AfterPushes
                      THEN Cardinality(Holders(u)' \cup Targets(u)') <= 2^(Age(s, u) + 1)
                      ELSE Cardinality(Holders(u)') <= 2^Age(s, u)
  BY Zenon DEF Spread, Age
<1>2. Holders(u)' = Holders(u) /\ Holders(u) \subseteq Node /\ Targets(u) \subseteq Node
  BY DEF Holders, Targets, hasReceivedMessage
<1>3. Age(s, u) \in Nat
  BY AgeNat
<1>4. CASE AfterPushes
  <2>1. Holders(u)' \cup Targets(u)' \subseteq Holders(u) \cup Targets(u)
    BY <1>2, <1>4 DEF Targets
  <2>2. Holders(u) \cup Targets(u) \subseteq Node
    BY <1>2
  <2>3. /\ Cardinality(Holders(u)' \cup Targets(u)') <= Cardinality(Holders(u) \cup Targets(u))
        /\ Cardinality(Holders(u)' \cup Targets(u)') \in Nat
        /\ Cardinality(Holders(u) \cup Targets(u)) \in Nat
    BY <2>1, <2>2, FewerNodes, NodesFinite
  <2>4. Cardinality(Holders(u) \cup Targets(u)) <= 2^(Age(s, u) + 1)
    BY <1>4 DEF Spread
  <2>5. 2^(Age(s, u) + 1) \in Nat
    BY <1>3, Doubling
  <2>. QED
    BY <1>4, <2>3, <2>4, <2>5
<1>5. CASE ~AfterPushes
  BY <1>2, <1>5 DEF Spread
<1>. QED
  BY <1>4, <1>5

\* The end of the push loop: the pushed messages have a receiver per holder.
LEMMA SpreadPushed ==
  ASSUME IInv, IInv', Spread, UNCHANGED <<message_map, time>>, ~AfterPushes,
         AfterPushes',
         \A a, b \in Node : \A m \in temp_messages'[a], k \in temp_messages'[b] :
           m.from = k.from => a = b
  PROVE  Spread'
<1>1. SUFFICES ASSUME NEW s \in Node, NEW u \in DOMAIN message_map[s]
               PROVE  Cardinality(Holders(u)' \cup Targets(u)') <= 2^(Age(s, u) + 1)
  BY Zenon DEF Spread, Age
<1>2. Holders(u)' = Holders(u) /\ Holders(u)' \subseteq Node /\ Targets(u)' \subseteq Node
  BY DEF Holders, Targets, hasReceivedMessage
<1>3. Cardinality(Targets(u)') <= Cardinality(Holders(u)')
  BY TargetsBounded
<1>4. /\ IsFiniteSet(Holders(u)') /\ Cardinality(Holders(u)') \in Nat
      /\ IsFiniteSet(Targets(u)') /\ Cardinality(Targets(u)') \in Nat
      /\ Cardinality(Holders(u)' \cap Targets(u)') \in Nat
  BY <1>2, NodesFinite
<1>5. Cardinality(Holders(u)' \cup Targets(u)') <= Cardinality(Holders(u)') + Cardinality(Targets(u)')
  <2>1. Cardinality(Holders(u)' \cup Targets(u)') =
          Cardinality(Holders(u)') + Cardinality(Targets(u)') - Cardinality(Holders(u)' \cap Targets(u)')
    BY <1>4, FS_Union
  <2>. QED
    BY <1>4, <2>1
<1>6. Cardinality(Holders(u)) <= 2^Age(s, u)
  BY DEF Spread
<1>7. 2^Age(s, u) \in Nat /\ 2^(Age(s, u) + 1) = 2^Age(s, u) + 2^Age(s, u)
  BY AgeNat, Doubling
<1>8. Cardinality(Holders(u)' \cup Targets(u)') \in Nat
  BY <1>2, NodesFinite
<1>. QED
  BY <1>2, <1>3, <1>4, <1>5, <1>6, <1>7, <1>8

\* A new message has one holder and is of no age.
LEMMA SpreadCreated ==
  ASSUME IInv, Spread, NEW n \in Node, createNewMessage(n)
  PROVE  Spread'
<1>. DEFINE v == NewUuid(n)
<1>1. /\ v \in Uuid /\ \A m \in Node : v \notin DOMAIN message_map[m]
      /\ Inserted(n, v, OwnEntry(n))
  BY CreateInserts
<1>. HIDE DEF v
<1>2. ~AfterPushes /\ ~AfterPushes' /\ time' = time
  BY DEF createNewMessage, At, NextIteration, AfterPushes
<1>3. ASSUME NEW s \in Node, NEW u \in DOMAIN message_map'[s]
      PROVE  Cardinality(Holders(u)') <= 2^(Age(s, u)')
  <2>1. CASE u \in DOMAIN message_map[s]
    <3>1. u # v
      BY <1>1, <2>1
    <3>2. Holders(u)' = Holders(u)
      BY <1>1, <3>1 DEF Holders, hasReceivedMessage, Inserted
    <3>3. message_map'[s][u] = message_map[s][u]
      BY <1>1, <2>1, EntriesKept
    <3>4. Age(s, u)' = Age(s, u)
      BY <1>2, <3>3 DEF Age
    <3>. QED
      BY <1>2, <2>1, <3>2, <3>4 DEF Spread
  <2>2. CASE u \notin DOMAIN message_map[s]
    <3>1. s = n /\ u = v /\ message_map'[s][u] = OwnEntry(n)
      BY <1>1, <2>2, EntriesKept
    <3>2. Age(s, u)' = 0
      <4>1. message_map'[s][u].creationTime = time /\ time \in Int
        BY <3>1 DEF OwnEntry, IInv, TypeOK
      <4>. QED
        BY <1>2, <4>1 DEF Age
    <3>3. Holders(u)' = {n}
      BY <1>1, <3>1 DEF Holders, hasReceivedMessage, Inserted
    <3>4. Cardinality(Holders(u)') = 1
      BY <3>3, FS_Singleton
    <3>5. 2^0 = 1
      OBVIOUS
    <3>. QED
      BY <3>2, <3>4, <3>5
  <2>. QED
    BY <2>1, <2>2
<1>. QED
  BY <1>2, <1>3 DEF Spread

\* A receipt makes a holder of one for whom the message was in flight.
LEMMA SpreadReceived ==
  ASSUME IInv, Spread, NEW n \in Node, ReceiveMessage(n)
  PROVE  Spread'
<1>1. PICK msg \in temp_messages[n] :
        /\ Inserted(n, msg.uuid, ReceivedEntry(msg))
        /\ temp_messages' = [temp_messages EXCEPT ![n] = @ \ {msg}]
  BY ReceiveInserts
<1>2. AfterPushes /\ AfterPushes' /\ time' = time
  BY DEF ReceiveMessage, At, AfterPushes
<1>3. \A m \in Node : temp_messages'[m] \subseteq temp_messages[m]
  BY <1>1 DEF IInv, TypeOK
<1>4. ASSUME NEW s \in Node, NEW u \in DOMAIN message_map'[s]
      PROVE  \E q \in Node : u \in DOMAIN message_map[q] /\ Age(s, u)' = Age(q, u)
  <2>1. CASE u \in DOMAIN message_map[s]
    <3>1. message_map'[s][u] = message_map[s][u]
      BY <1>1, <2>1, EntriesKept
    <3>. QED
      BY <1>2, <2>1, <3>1 DEF Age
  <2>2. CASE u \notin DOMAIN message_map[s]
    <3>1. s = n /\ u = msg.uuid /\ message_map'[s][u] = ReceivedEntry(msg)
      BY <1>1, <2>2, EntriesKept
    <3>2. message_map'[s][u].creationTime = msg.creationTime
      BY <3>1 DEF ReceivedEntry
    <3>3. /\ msg.from \in Node /\ u \in DOMAIN message_map[msg.from]
          /\ message_map[msg.from][u].creationTime = msg.creationTime
      BY <3>1 DEF IInv, TypeOK, Pushed, PushedIsHeld, hasReceivedMessage
    <3>4. Age(s, u)' = Age(msg.from, u)
      BY <1>2, <3>2, <3>3 DEF Age
    <3>. QED
      BY <3>3, <3>4
  <2>. QED
    BY <2>1, <2>2
<1>5. \A u : Holders(u)' \cup Targets(u)' \subseteq Holders(u) \cup Targets(u)
  <2>1. SUFFICES ASSUME NEW u, NEW m \in Node, m \in Holders(u)' \/ m \in Targets(u)'
                 PROVE  m \in Holders(u) \/ m \in Targets(u)
    BY DEF Holders, Targets
  <2>2. CASE m \in Holders(u)'
    <3>1. u \in DOMAIN message_map'[m]
      BY <2>2 DEF Holders, hasReceivedMessage
    <3>2. u \in DOMAIN message_map[m] \/ (m = n /\ u = msg.uuid)
      BY <1>1, <3>1, EntriesKept
    <3>. QED
      BY <3>2 DEF Holders, Targets, hasReceivedMessage
  <2>3. CASE m \in Targets(u)'
    BY <1>3, <2>3 DEF Targets
  <2>. QED
    BY <2>1, <2>2, <2>3
<1>6. ASSUME NEW s \in Node, NEW u \in DOMAIN message_map'[s]
      PROVE  Cardinality(Holders(u)' \cup Targets(u)') <= 2^((Age(s, u)') + 1)
  <2>1. PICK q \in Node : u \in DOMAIN message_map[q] /\ Age(s, u)' = Age(q, u)
    BY <1>4
  <2>2. Cardinality(Holders(u) \cup Targets(u)) <= 2^(Age(q, u) + 1)
    BY <1>2, <2>1 DEF Spread
  <2>3. Holders(u) \cup Targets(u) \subseteq Node
    BY DEF Holders, Targets
  <2>4. /\ Cardinality(Holders(u)' \cup Targets(u)') <= Cardinality(Holders(u) \cup Targets(u))
        /\ Cardinality(Holders(u)' \cup Targets(u)') \in Nat
        /\ Cardinality(Holders(u) \cup Targets(u)) \in Nat
    BY <1>5, <2>3, FewerNodes, NodesFinite
  <2>5. 2^(Age(q, u) + 1) \in Nat
    BY <2>1, AgeNat, Doubling
  <2>. QED
    BY <2>1, <2>2, <2>4, <2>5
<1>. QED
  BY <1>2, <1>6 DEF Spread

\* The time goes on, and the timestep counts to the message's age.
LEMMA SpreadMoved ==
  ASSUME IInv, Spread, Move
  PROVE  Spread'
<1>1. AfterPushes /\ ~AfterPushes' /\ time' = time + 1 /\ message_map' = message_map
  BY DEF Move, AfterPushes, node
<1>2. ASSUME NEW s \in Node, NEW u \in DOMAIN message_map[s]
      PROVE  Cardinality(Holders(u)') <= 2^(Age(s, u)')
  <2>1. Age(s, u)' = Age(s, u) + 1
    <3>1. message_map[s][u].creationTime \in Int /\ time \in Int
      BY DEF IInv, TypeOK, MessageData
    <3>. QED
      BY <1>1, <3>1 DEF Age
  <2>2. Holders(u)' = Holders(u)
    BY <1>1 DEF Holders, hasReceivedMessage
  <2>3. Cardinality(Holders(u) \cup Targets(u)) <= 2^(Age(s, u) + 1)
    BY <1>1 DEF Spread
  <2>4. Holders(u) \cup Targets(u) \subseteq Node /\ Holders(u) \subseteq Node
    BY DEF Holders, Targets
  <2>5. /\ Cardinality(Holders(u)) <= Cardinality(Holders(u) \cup Targets(u))
        /\ Cardinality(Holders(u)) \in Nat
        /\ Cardinality(Holders(u) \cup Targets(u)) \in Nat
    BY <2>4, FewerNodes, NodesFinite
  <2>6. 2^(Age(s, u) + 1) \in Nat
    BY AgeNat, Doubling
  <2>. QED
    BY <2>1, <2>2, <2>3, <2>5, <2>6
<1>. QED
  BY <1>1, <1>2 DEF Spread

LEMMA SpreadKept ==
  ASSUME IInv, IInv', PushedOnce, Spread, [Next]_vars
  PROVE  Spread'
<1>1. ASSUME NEW n \in Node, createNewMessage(n)
      PROVE  Spread'
  BY <1>1, SpreadCreated
<1>2. ASSUME NEW n \in Node, SkipCreation(n)
      PROVE  Spread'
  <2>1. ~AfterPushes /\ ~AfterPushes' /\ UNCHANGED <<message_map, time>>
    BY <1>2 DEF SkipCreation, At, NextIteration, AfterPushes, node
  <2>. QED
    BY <2>1, SpreadQuiet
<1>3. ASSUME NEW n \in Node, NoPotentials(n)
      PROVE  Spread'
  <2>1. ~AfterPushes /\ UNCHANGED <<message_map, time, temp_messages>> /\ phase = "push"
    BY <1>3 DEF NoPotentials, At, NextIteration, AfterPushes, node
  <2>2. \A a, b \in Node : \A m \in temp_messages'[a], k \in temp_messages'[b] :
          m.from = k.from => a = b
    BY <2>1 DEF PushedOnce
  <2>. QED
    BY <2>1, <2>2, SpreadQuiet, SpreadPushed
<1>4. ASSUME NEW n \in Node, NEW that \in Node, At("push", n), pushMessagesTo(n, that)
      PROVE  Spread'
  <2>1. ~AfterPushes /\ UNCHANGED <<message_map, time>>
    BY <1>4 DEF pushMessagesTo, At, AfterPushes
  <2>2. \A a, b \in Node : \A m \in temp_messages'[a], k \in temp_messages'[b] :
          m.from = k.from => a = b
    BY <1>4, PushAdds
  <2>. QED
    BY <2>1, <2>2, SpreadQuiet, SpreadPushed
<1>5. ASSUME NEW n \in Node, PushToNeighbour(n)
      PROVE  Spread'
  BY <1>4, <1>5 DEF PushToNeighbour, IInv, TypeOK
<1>6. ASSUME NEW n \in Node, PushPastTheEnd(n)
      PROVE  Spread'
  <2>1. CASE \E that \in Node : pushMessagesTo(n, that)
    BY <1>4, <1>6, <2>1 DEF PushPastTheEnd
  <2>2. CASE phase' = "crashed" /\ UNCHANGED <<i, time, near, node>>
    <3>1. ~AfterPushes /\ ~AfterPushes' /\ UNCHANGED <<message_map, time>>
      BY <1>6, <2>2 DEF PushPastTheEnd, At, AfterPushes, node
    <3>. QED
      BY <3>1, SpreadQuiet
  <2>. QED
    BY <1>6, <2>1, <2>2 DEF PushPastTheEnd
<1>7. ASSUME NEW n \in Node, ReceiveMessage(n)
      PROVE  Spread'
  BY <1>7, SpreadReceived
<1>8. ASSUME NEW n \in Node, EndMerge(n)
      PROVE  Spread'
  <2>1. AfterPushes /\ AfterPushes' /\ UNCHANGED <<message_map, time>>
    BY <1>8 DEF EndMerge, At, NextIteration, AfterPushes
  <2>2. \A m \in Node : temp_messages'[m] \subseteq temp_messages[m]
    BY <1>8 DEF EndMerge, IInv, TypeOK
  <2>. QED
    BY <2>1, <2>2, SpreadQuiet
<1>9. CASE Move
  BY <1>9, SpreadMoved
<1>10. CASE UNCHANGED vars
  <2>1. UNCHANGED <<message_map, time, temp_messages>> /\ (AfterPushes' <=> AfterPushes)
    BY <1>10 DEF vars, AfterPushes
  <2>. QED
    BY <2>1, SpreadQuiet
<1>. QED
  BY <1>1, <1>2, <1>3, <1>5, <1>6, <1>7, <1>8, <1>9, <1>10
     DEF Next, CreateLoop, PushLoop, MergeLoop

\* A message reaches at most twice as many nodes with each timestep: think's merge
\* loop runs after all pushes, and each node pushes to one other.
THEOREM HoldersAlwaysAtMostDouble == Spec => []HoldersAtMostDouble
<1>1. Init => Spread
  BY DEF Init, Spread
<1>2. IInv /\ IInv' /\ PushedOnce /\ Spread /\ [Next]_vars => Spread'
  BY SpreadKept
<1>3. IInv /\ Spread => HoldersAtMostDouble
  <2>1. SUFFICES ASSUME IInv, Spread, NEW s \in Node, NEW u \in DOMAIN message_map[s]
                 PROVE  Cardinality(Holders(u)) <=
                          2^(IF AfterPushes THEN Age(s, u) + 1 ELSE Age(s, u))
    BY Zenon DEF HoldersAtMostDouble, Holders, Age, AfterPushes
  <2>2. CASE AfterPushes
    <3>1. Cardinality(Holders(u) \cup Targets(u)) <= 2^(Age(s, u) + 1)
      BY <2>1, <2>2 DEF Spread
    <3>2. Holders(u) \cup Targets(u) \subseteq Node /\ Holders(u) \subseteq Node
      BY DEF Holders, Targets
    <3>3. /\ Cardinality(Holders(u)) <= Cardinality(Holders(u) \cup Targets(u))
          /\ Cardinality(Holders(u)) \in Nat
          /\ Cardinality(Holders(u) \cup Targets(u)) \in Nat
      BY <3>2, FewerNodes, NodesFinite
    <3>4. 2^(Age(s, u) + 1) \in Nat
      BY <2>1, AgeNat, Doubling
    <3>. QED
      BY <2>2, <3>1, <3>3, <3>4
  <2>3. CASE ~AfterPushes
    BY <2>1, <2>3 DEF Spread
  <2>. QED
    BY <2>2, <2>3
<1>. QED
  BY <1>1, <1>2, <1>3, PushedOnceAlways, Invariance, PTL DEF Spec
=============================================================================
