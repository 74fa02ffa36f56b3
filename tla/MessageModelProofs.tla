------------------------- MODULE MessageModelProofs -------------------------
(***************************************************************************)
(* Proofs about MessageModel, for every number of nodes and every          *)
(* configuration allowed by ConfigAssumption.                              *)
(***************************************************************************)
EXTENDS MessageModel, SequenceTheorems, TLAPS

-----------------------------------------------------------------------------
(* Arithmetic of the identifiers                                           *)

\* Node id and message id can be read back from a uuid as long as no node
\* mints more than MAX_MESSAGES identifiers.
LEMMA UuidInjective ==
  ASSUME NEW M \in Nat, NEW a \in Nat, NEW b \in Nat,
         NEW k \in Nat, NEW l \in Nat, k < M, l < M, a * M + k = b * M + l
  PROVE  a = b /\ k = l
<1>1. ASSUME NEW c \in Nat, NEW d \in Nat, c < d
      PROVE  c * M + M <= d * M
  <2>1. d = c + 1 + (d - c - 1) /\ d - c - 1 \in Nat
    BY <1>1
  <2>2. \A e \in Nat : (c + 1 + e) * M = c * M + M + e * M /\ e * M >= 0
    OBVIOUS
  <2>. QED
    BY <2>1, <2>2
<1>2. a * M \in Nat /\ b * M \in Nat
  OBVIOUS
<1>3. ~(a < b)
  BY <1>1, <1>2
<1>4. ~(b < a)
  BY <1>1, <1>2
<1>. QED
  BY <1>2, <1>3, <1>4

\* Every uuid a node can mint is one of Uuid.
LEMMA NewUuidInRange ==
  ASSUME NEW n \in Node, NEW k \in Nat, k < MAX_MESSAGES
  PROVE  n * MAX_MESSAGES + k \in Uuid
<1>1. numNodes \in Nat /\ MAX_MESSAGES \in Nat /\ n \in Nat /\ n < numNodes
  BY ConfigAssumption DEF Node
<1>2. numNodes = n + 1 + (numNodes - n - 1) /\ numNodes - n - 1 \in Nat
  BY <1>1
<1>3. \A e \in Nat : /\ (n + 1 + e) * MAX_MESSAGES = n * MAX_MESSAGES + MAX_MESSAGES + e * MAX_MESSAGES
                     /\ e * MAX_MESSAGES \in Nat
  BY <1>1
<1>4. numNodes * MAX_MESSAGES >= n * MAX_MESSAGES + MAX_MESSAGES
  BY <1>1, <1>2, <1>3
<1>5. n * MAX_MESSAGES \in Nat /\ numNodes * MAX_MESSAGES \in Nat
  BY <1>1
<1>. QED
  BY <1>1, <1>4, <1>5 DEF Uuid

-----------------------------------------------------------------------------
(* The list of a node: erasing a place and appending                       *)

\* RemoveAt takes out one place of a sequence without repetitions and
\* with it exactly one element of its set.
LEMMA RemoveAtProperties ==
  ASSUME NEW S, NEW s \in Seq(S), IsInjective(s), NEW k \in DOMAIN s
  PROVE  /\ RemoveAt(s, k) \in Seq(S)
         /\ IsInjective(RemoveAt(s, k))
         /\ ToSet(RemoveAt(s, k)) = ToSet(s) \ {s[k]}
<1> DEFINE a == SubSeq(s, 1, k-1)
           b == SubSeq(s, k+1, Len(s))
           r == a \o b
<1>1. k \in 1 .. Len(s) /\ Len(s) \in Nat /\ DOMAIN s = 1 .. Len(s)
  BY LenProperties
<1>2. \A j \in 1 .. Len(s) : s[j] \in S
  BY ElementOfSeq
<1>3. /\ a \in Seq(S) /\ Len(a) = k - 1
      /\ \A j \in 1 .. k-1 : a[j] = s[j]
  BY <1>1, <1>2, SubSeqProperties
<1>4. /\ b \in Seq(S) /\ Len(b) = Len(s) - k
      /\ \A j \in 1 .. Len(s) - k : b[j] = s[k+j]
  <2>1. \A j \in k+1 .. Len(s) : s[j] \in S
    BY <1>1, <1>2
  <2>. QED
    BY <1>1, <2>1, SubSeqProperties
<1>5. /\ r \in Seq(S) /\ Len(r) = Len(s) - 1
      /\ \A j \in 1 .. Len(s) - 1 : r[j] = IF j < k THEN s[j] ELSE s[j+1]
  <2>1. /\ r \in Seq(S) /\ Len(r) = Len(a) + Len(b)
        /\ \A j \in 1 .. Len(a) + Len(b) :
             r[j] = IF j <= Len(a) THEN a[j] ELSE b[j - Len(a)]
    BY <1>3, <1>4, ConcatProperties
  <2> HIDE DEF a, b, r
  <2>2. Len(r) = Len(s) - 1
    BY <1>1, <1>3, <1>4, <2>1
  <2>3. ASSUME NEW j \in 1 .. Len(s) - 1
        PROVE  r[j] = IF j < k THEN s[j] ELSE s[j+1]
    <3>1. CASE j < k
      BY <1>1, <1>3, <1>4, <2>1, <3>1
    <3>2. CASE ~(j < k)
      <4>1. j - (k - 1) \in 1 .. Len(s) - k
        BY <1>1, <3>2
      <4>2. b[j - (k - 1)] = s[k + (j - (k - 1))]
        BY <1>4, <4>1
      <4>3. r[j] = b[j - (k - 1)]
        BY <1>1, <1>3, <1>4, <2>1, <3>2
      <4>4. k + (j - (k - 1)) = j + 1
        BY <1>1
      <4>. QED
        BY <3>2, <4>2, <4>3, <4>4
    <3>. QED
      BY <3>1, <3>2
  <2>. QED
    BY <2>1, <2>2, <2>3
<1>6. DOMAIN r = 1 .. Len(s) - 1
  BY <1>5, LenProperties
<1>9. RemoveAt(s, k) = r
  BY DEF RemoveAt
<1> HIDE DEF a, b, r
<1>7. IsInjective(r)
  <2> DEFINE at(j) == IF j < k THEN j ELSE j + 1
  <2>1. \A j \in DOMAIN r : at(j) \in DOMAIN s /\ r[j] = s[at(j)]
    BY <1>1, <1>5, <1>6
  <2>2. \A j, l \in DOMAIN r : at(j) = at(l) => j = l
    BY <1>1, <1>6
  <2> HIDE DEF at
  <2>. QED
    BY <2>1, <2>2 DEF IsInjective
<1>8. ToSet(r) = ToSet(s) \ {s[k]}
  <2>1. ASSUME NEW j \in DOMAIN r
        PROVE  r[j] \in ToSet(s) \ {s[k]}
    <3>1. PICK l \in 1 .. Len(s) : r[j] = s[l] /\ l # k
      <4>1. CASE j < k
        BY <1>1, <1>5, <1>6, <4>1
      <4>2. CASE ~(j < k)
        <5>1. j + 1 \in 1 .. Len(s) /\ j + 1 # k
          BY <1>1, <1>6, <4>2
        <5>. QED
          BY <1>5, <1>6, <4>2, <5>1
      <4>. QED
        BY <4>1, <4>2
    <3>. QED
      BY <1>1, <3>1 DEF IsInjective, ToSet
  <2>2. ASSUME NEW j \in DOMAIN s, j # k
        PROVE  \E m \in DOMAIN r : r[m] = s[j]
    <3>1. CASE j < k
      BY <1>1, <1>5, <1>6, <3>1
    <3>2. CASE j > k
      <4>1. j - 1 \in 1 .. Len(s) - 1 /\ ~(j - 1 < k) /\ (j - 1) + 1 = j
        BY <1>1, <3>2
      <4>. QED
        BY <1>5, <1>6, <4>1
    <3>. QED
      BY <1>1, <2>2, <3>1, <3>2
  <2>. QED
    BY <2>1, <2>2 DEF ToSet
<1>. QED
  BY <1>5, <1>7, <1>8, <1>9

\* Appending an element that is not in the sequence.
LEMMA AppendFresh ==
  ASSUME NEW S, NEW s \in Seq(S), IsInjective(s), NEW u \in S, u \notin ToSet(s)
  PROVE  /\ Append(s, u) \in Seq(S)
         /\ IsInjective(Append(s, u))
         /\ ToSet(Append(s, u)) = ToSet(s) \cup {u}
<1>1. /\ Append(s, u) \in Seq(S) /\ Len(Append(s, u)) = Len(s) + 1
      /\ \A j \in 1 .. Len(s) : Append(s, u)[j] = s[j]
      /\ Append(s, u)[Len(s) + 1] = u
  BY AppendProperties
<1>2. /\ Len(s) \in Nat /\ DOMAIN s = 1 .. Len(s)
      /\ DOMAIN Append(s, u) = 1 .. Len(s) + 1
  BY <1>1, LenProperties
<1>3. \A j \in 1 .. Len(s) : s[j] # u
  BY <1>2 DEF ToSet
<1>4. IsInjective(Append(s, u))
  BY <1>1, <1>2, <1>3 DEF IsInjective
<1>5. ToSet(Append(s, u)) = ToSet(s) \cup {u}
  <2>1. ASSUME NEW j \in 1 .. Len(s) + 1
        PROVE  Append(s, u)[j] \in ToSet(s) \cup {u}
    <3>1. CASE j = Len(s) + 1
      BY <1>1, <3>1
    <3>2. CASE j # Len(s) + 1
      <4>1. j \in 1 .. Len(s)
        BY <1>2, <3>2
      <4>. QED
        BY <1>1, <1>2, <4>1 DEF ToSet
    <3>. QED
      BY <3>1, <3>2
  <2>2. \A j \in DOMAIN s : \E m \in 1 .. Len(s) + 1 : Append(s, u)[m] = s[j]
    BY <1>1, <1>2
  <2>3. \E m \in 1 .. Len(s) + 1 : Append(s, u)[m] = u
    BY <1>1, <1>2
  <2>. QED
    BY <1>2, <2>1, <2>2, <2>3 DEF ToSet
<1>. QED
  BY <1>1, <1>4, <1>5

-----------------------------------------------------------------------------
(* What insertMessage does to a node's list and map                        *)

\* Erasing the old place of u leaves a list of everything the node holds but u.
LEMMA WithoutUuidProperties ==
  ASSUME TypeOK, ListMatchesMap, NEW n \in Node, NEW u
  PROVE  /\ WithoutUuid(n, u) \in Seq(Uuid)
         /\ IsInjective(WithoutUuid(n, u))
         /\ ToSet(WithoutUuid(n, u)) = DOMAIN message_map[n] \ {u}
<1>1. /\ messages[n] \in Seq(Uuid) /\ IsInjective(messages[n])
      /\ ToSet(messages[n]) = DOMAIN message_map[n]
  BY DEF TypeOK, ListMatchesMap
<1>2. CASE hasReceivedMessage(n, u)
  <2> DEFINE k == CHOOSE k \in DOMAIN messages[n] : messages[n][k] = u
  <2>1. \E j \in DOMAIN messages[n] : messages[n][j] = u
    BY <1>1, <1>2 DEF hasReceivedMessage, ToSet
  <2>2. k \in DOMAIN messages[n] /\ messages[n][k] = u
    BY <2>1
  <2>3. WithoutUuid(n, u) = RemoveAt(messages[n], k)
    BY <1>2 DEF WithoutUuid
  <2> HIDE DEF k
  <2>. QED
    BY <1>1, <2>2, <2>3, RemoveAtProperties
<1>3. CASE ~hasReceivedMessage(n, u)
  BY <1>1, <1>3 DEF hasReceivedMessage, WithoutUuid
<1>. QED
  BY <1>2, <1>3

\* insertMessage of u at n: the list and the map keep matching, every entry
\* stays as it was, and an entry is added only if u is new.
Inserted(n, u, data) ==
  /\ \A m \in Node : message_map'[m] \in [DOMAIN message_map'[m] -> MessageData]
  /\ \A m \in Node \ {n} : message_map'[m] = message_map[m]
  /\ DOMAIN message_map'[n] = DOMAIN message_map[n] \cup {u}
  /\ \A x \in DOMAIN message_map[n] : message_map'[n][x] = message_map[n][x]
  /\ u \notin DOMAIN message_map[n] => message_map'[n][u] = data

LEMMA InsertMessageProperties ==
  ASSUME TypeOK, ListMatchesMap,
         NEW n \in Node, NEW u \in Uuid, NEW data \in MessageData,
         NEW held \in Seq(Uuid), IsInjective(held),
         ToSet(held) = DOMAIN message_map[n] \ {u},
         insertMessage(n, held, u, data)
  PROVE  /\ messages' \in [Node -> Seq(Uuid)]
         /\ ListMatchesMap'
         /\ DOMAIN message_map' = Node
         /\ Inserted(n, u, data)
<1>1. /\ messages \in [Node -> Seq(Uuid)] /\ DOMAIN message_map = Node
      /\ \A m \in Node : message_map[m] \in [DOMAIN message_map[m] -> MessageData]
  BY DEF TypeOK
<1>2. /\ Append(held, u) \in Seq(Uuid) /\ IsInjective(Append(held, u))
      /\ ToSet(Append(held, u)) = DOMAIN message_map[n] \cup {u}
  BY AppendFresh
<1>3. messages' = [messages EXCEPT ![n] = Append(held, u)]
  BY DEF insertMessage
<1>4. message_map' = [message_map EXCEPT ![n] = MapInsert(message_map[n], u, data)]
  BY DEF insertMessage
<1>5. /\ DOMAIN message_map' = Node
      /\ message_map'[n] = MapInsert(message_map[n], u, data)
      /\ \A m \in Node \ {n} : message_map'[m] = message_map[m]
  BY <1>1, <1>4
<1>6. /\ DOMAIN MapInsert(message_map[n], u, data) = DOMAIN message_map[n] \cup {u}
      /\ MapInsert(message_map[n], u, data)
           \in [DOMAIN message_map[n] \cup {u} -> MessageData]
      /\ \A x \in DOMAIN message_map[n] :
           MapInsert(message_map[n], u, data)[x] = message_map[n][x]
      /\ u \notin DOMAIN message_map[n] => MapInsert(message_map[n], u, data)[u] = data
  BY <1>1 DEF MapInsert
<1>7. messages' \in [Node -> Seq(Uuid)]
  BY <1>1, <1>2, <1>3
<1>8. ListMatchesMap'
  <2> SUFFICES ASSUME NEW m \in Node
               PROVE  /\ IsInjective(messages'[m])
                      /\ ToSet(messages'[m]) = DOMAIN message_map'[m]
    BY DEF ListMatchesMap
  <2>1. CASE m = n
    BY <1>1, <1>2, <1>3, <1>5, <1>6, <2>1
  <2>2. CASE m # n
    BY <1>1, <1>3, <1>5, <2>2 DEF ListMatchesMap
  <2>. QED
    BY <2>1, <2>2
<1>9. Inserted(n, u, data)
  BY <1>1, <1>5, <1>6 DEF Inserted
<1>. QED
  BY <1>5, <1>7, <1>8, <1>9

\* Every entry is kept as it was, and one that was not there is the new one.
LEMMA EntriesKept ==
  ASSUME NEW n \in Node, NEW u, NEW data, Inserted(n, u, data)
  PROVE  \A m \in Node :
           /\ \A x \in DOMAIN message_map[m] :
                x \in DOMAIN message_map'[m] /\ message_map'[m][x] = message_map[m][x]
           /\ \A x \in DOMAIN message_map'[m] :
                \/ x \in DOMAIN message_map[m]
                \/ m = n /\ x = u /\ message_map'[m][x] = data
BY DEF Inserted

-----------------------------------------------------------------------------
(* The inductive invariant                                                 *)

\* The loop index stays within the nodes and the phase within think's loops.
LEMMA NextIterationType ==
  ASSUME NEW n \in Node, NEW p \in Phase, NEW after \in Phase, NextIteration(p, n, after)
  PROVE  i' \in Node /\ phase' \in Phase
BY ConfigAssumption DEF NextIteration, Node

\* In the initial state nobody holds anything.
LEMMA InitIInv == Init => IInv
<1> SUFFICES ASSUME Init PROVE IInv
  OBVIOUS
<1>1. 0 \in Node
  BY ConfigAssumption DEF Node
<1>2. \A n \in Node : /\ messages[n] = <<>> /\ DOMAIN message_map[n] = {}
                      /\ temp_messages[n] = {} /\ DOMAIN messages[n] = {}
  BY DEF Init
<1>3. TypeOK
  <2>1. near \in [Node -> SUBSET Node]
    BY DEF Init, Topologies
  <2>2. \A n \in Node : message_map[n] \in [DOMAIN message_map[n] -> MessageData]
    BY DEF Init
  <2>3. nextMessageId \in [Node -> 0..MaxCreated]
    BY ConfigAssumption DEF Init
  <2>. QED
    BY <1>1, <1>2, <2>1, <2>2, <2>3 DEF Init, TypeOK, Phase
<1>. QED
  BY <1>2, <1>3 DEF IInv, ListMatchesMap, MintedByItsSender, PushedIsHeld,
                    LatencyInThePast, IsInjective, ToSet

\* A uuid about to be minted is held by nobody.
LEMMA NewUuidIsFresh ==
  ASSUME IInv, NEW n \in Node, nextMessageId[n] < MaxCreated
  PROVE  /\ NewUuid(n) \in Uuid
         /\ \A m \in Node : NewUuid(n) \notin DOMAIN message_map[m]
<1>1. /\ nextMessageId \in [Node -> 0..MaxCreated]
      /\ MAX_MESSAGES \in Nat /\ MaxCreated \in 0..MAX_MESSAGES
      /\ \A m \in Node : m \in Nat
  BY ConfigAssumption DEF IInv, TypeOK, Node
<1>2. nextMessageId[n] \in Nat /\ nextMessageId[n] < MAX_MESSAGES
  BY <1>1
<1>3. NewUuid(n) \in Uuid
  BY <1>2, NewUuidInRange DEF NewUuid
<1>4. ASSUME NEW m \in Node, NewUuid(n) \in DOMAIN message_map[m]
      PROVE  FALSE
  <2>1. message_map[m][NewUuid(n)].sender \in Node
    BY <1>4 DEF IInv, TypeOK, MessageData
  <2>2. PICK s \in Node : \E k \in 0 .. nextMessageId[s] - 1 : NewUuid(n) = s * MAX_MESSAGES + k
    BY <1>4, <2>1 DEF IInv, MintedByItsSender, Minted
  <2>3. PICK k \in 0 .. nextMessageId[s] - 1 : NewUuid(n) = s * MAX_MESSAGES + k
    BY <2>2
  <2>4. k \in Nat /\ k < MAX_MESSAGES /\ k < nextMessageId[s] /\ nextMessageId[s] \in 0..MaxCreated
    BY <1>1, <2>3
  <2>5. n * MAX_MESSAGES + nextMessageId[n] = s * MAX_MESSAGES + k
    BY <2>3 DEF NewUuid
  <2>6. n = s /\ nextMessageId[n] = k
    BY <1>1, <1>2, <2>4, <2>5, UuidInjective
  <2>. QED
    BY <2>4, <2>6
<1>. QED
  BY <1>3, <1>4

\* Inserting an entry that is minted keeps all entries minted.
LEMMA MintedKept ==
  ASSUME IInv, NEW n \in Node, NEW u, NEW data, Inserted(n, u, data),
         nextMessageId' \in [Node -> 0..MaxCreated],
         \A m \in Node : nextMessageId[m] <= nextMessageId'[m],
         u \notin DOMAIN message_map[n] => Minted(n, u)'
  PROVE  MintedByItsSender'
<1> SUFFICES ASSUME NEW m \in Node, NEW x \in DOMAIN message_map'[m]
             PROVE  Minted(m, x)'
  BY DEF MintedByItsSender
<1>1. CASE x \in DOMAIN message_map[m]
  <2> DEFINE s == message_map[m][x].sender
  <2>1. s \in Node
    BY <1>1 DEF IInv, TypeOK, MessageData
  <2>2. /\ \E k \in 0 .. nextMessageId[s] - 1 : x = s * MAX_MESSAGES + k
        /\ x \in DOMAIN message_map[s]
        /\ message_map[s][x].sender = s
        /\ message_map[s][x].creationTime = message_map[m][x].creationTime
        /\ message_map[m][x].outgoing <=> m = s
    BY <1>1 DEF IInv, MintedByItsSender, Minted, hasReceivedMessage
  <2>3. /\ message_map'[m][x] = message_map[m][x]
        /\ x \in DOMAIN message_map'[s] /\ message_map'[s][x] = message_map[s][x]
    BY <1>1, <2>1, <2>2, EntriesKept
  <2>4. \E k \in 0 .. nextMessageId'[s] - 1 : x = s * MAX_MESSAGES + k
    <3>1. nextMessageId[s] \in Nat /\ nextMessageId'[s] \in Nat
          /\ nextMessageId[s] <= nextMessageId'[s]
      BY <2>1, ConfigAssumption DEF IInv, TypeOK
    <3>. QED
      BY <2>2, <3>1
  <2> HIDE DEF s
  <2>. QED
    BY <2>2, <2>3, <2>4 DEF s, Minted, hasReceivedMessage
<1>2. CASE m = n /\ x = u /\ x \notin DOMAIN message_map[m]
  BY <1>2
<1>. QED
  BY <1>1, <1>2, EntriesKept

\* Inserting an entry, with nothing new in flight, keeps what is in flight held.
LEMMA PushedIsHeldKept ==
  ASSUME IInv, NEW n \in Node, NEW u, NEW data, Inserted(n, u, data),
         \A r \in Node : temp_messages'[r] \subseteq temp_messages[r]
  PROVE  PushedIsHeld'
<1> SUFFICES ASSUME NEW r \in Node, NEW m \in temp_messages'[r]
             PROVE  /\ m.uuid \in DOMAIN message_map'[m.from]
                    /\ m.sender = message_map'[m.from][m.uuid].sender
                    /\ m.creationTime = message_map'[m.from][m.uuid].creationTime
  BY DEF PushedIsHeld, hasReceivedMessage
<1>1. m \in temp_messages[r] /\ m.from \in Node
  BY DEF IInv, TypeOK, Pushed
<1>2. /\ m.uuid \in DOMAIN message_map[m.from]
      /\ m.sender = message_map[m.from][m.uuid].sender
      /\ m.creationTime = message_map[m.from][m.uuid].creationTime
  BY <1>1 DEF IInv, PushedIsHeld, hasReceivedMessage
<1>. QED
  BY <1>1, <1>2, EntriesKept

\* createNewMessage adds one entry, for a uuid nobody held.
OwnEntry(n) == [sender |-> n, latency |-> 0, creationTime |-> time, outgoing |-> TRUE]

LEMMA CreateInserts ==
  ASSUME IInv, NEW n \in Node, createNewMessage(n)
  PROVE  /\ NewUuid(n) \in Uuid
         /\ \A m \in Node : NewUuid(n) \notin DOMAIN message_map[m]
         /\ messages' \in [Node -> Seq(Uuid)] /\ ListMatchesMap'
         /\ DOMAIN message_map' = Node
         /\ Inserted(n, NewUuid(n), OwnEntry(n))
<1>1. /\ insertMessage(n, messages[n], NewUuid(n), OwnEntry(n))
      /\ nextMessageId[n] < MaxCreated
  BY DEF createNewMessage, OwnEntry
<1>2. NewUuid(n) \in Uuid /\ \A m \in Node : NewUuid(n) \notin DOMAIN message_map[m]
  BY <1>1, NewUuidIsFresh
<1>3. TypeOK /\ ListMatchesMap /\ OwnEntry(n) \in MessageData
  BY DEF IInv, TypeOK, MessageData, OwnEntry
<1>4. /\ messages[n] \in Seq(Uuid) /\ IsInjective(messages[n])
      /\ ToSet(messages[n]) = DOMAIN message_map[n] \ {NewUuid(n)}
  BY <1>2, <1>3 DEF TypeOK, ListMatchesMap
<1>. QED
  BY <1>1, <1>2, <1>3, <1>4, InsertMessageProperties

\* createNewMessage keeps the invariant.
LEMMA CreateIInv ==
  ASSUME IInv, NEW n \in Node, createNewMessage(n)
  PROVE  IInv'
<1>0. PICK u, data : u = NewUuid(n) /\ data = OwnEntry(n)
  OBVIOUS
<1>1. /\ nextMessageId' = [nextMessageId EXCEPT ![n] = @ + 1]
      /\ nextMessageId[n] < MaxCreated
      /\ NextIteration("create", n, "push")
      /\ UNCHANGED <<time, near, temp_messages>>
  BY DEF createNewMessage
<1>2. u \in Uuid /\ \A m \in Node : u \notin DOMAIN message_map[m]
  BY <1>0, CreateInserts
<1>3. time \in Nat /\ TypeOK
  BY DEF IInv, TypeOK
<1>4. /\ messages' \in [Node -> Seq(Uuid)] /\ ListMatchesMap' /\ DOMAIN message_map' = Node
      /\ Inserted(n, u, data)
  BY <1>0, CreateInserts
<1>5. message_map'[n][u] = data
  BY <1>2, <1>4 DEF Inserted
<1>6. /\ nextMessageId \in [Node -> 0..MaxCreated] /\ nextMessageId' \in [Node -> 0..MaxCreated]
      /\ \A m \in Node : nextMessageId[m] <= nextMessageId'[m]
      /\ nextMessageId'[n] = nextMessageId[n] + 1
  BY <1>1, <1>3, ConfigAssumption DEF TypeOK
<1>7. TypeOK'
  <2>1. i' \in Node /\ phase' \in Phase
    BY <1>1, NextIterationType DEF Phase
  <2>2. \A m \in Node : DOMAIN message_map'[m] \subseteq Uuid
    BY <1>2, <1>3, <1>4 DEF Inserted, TypeOK
  <2>. QED
    BY <1>1, <1>3, <1>4, <1>6, <2>1, <2>2 DEF TypeOK, Inserted
<1>8. MintedByItsSender'
  <2>1. Minted(n, u)'
    <3>1. u = n * MAX_MESSAGES + nextMessageId[n]
      BY <1>0 DEF NewUuid
    <3>2. nextMessageId[n] \in 0 .. nextMessageId'[n] - 1
      BY <1>6, ConfigAssumption
    <3>3. u \in DOMAIN message_map'[n]
      BY <1>4 DEF Inserted
    <3>4. /\ message_map'[n][u].sender = n
          /\ message_map'[n][u].outgoing = TRUE
      BY <1>0, <1>5 DEF OwnEntry
    <3>. QED
      BY <3>1, <3>2, <3>3, <3>4 DEF Minted, hasReceivedMessage
  <2>. QED
    BY <1>4, <1>6, <2>1, MintedKept
<1>9. PushedIsHeld'
  <2>. QED
    BY <1>1, <1>4, PushedIsHeldKept
<1>10. LatencyInThePast'
  <2> SUFFICES ASSUME NEW m \in Node, NEW x \in DOMAIN message_map'[m]
               PROVE  LET e == message_map'[m][x]
                      IN  /\ e.latency >= 0
                          /\ e.creationTime + e.latency <= time'
                          /\ e.outgoing => e.latency = 0
    BY DEF LatencyInThePast
  <2>1. CASE x \in DOMAIN message_map[m]
    BY <1>1, <1>4, <2>1, EntriesKept DEF IInv, LatencyInThePast
  <2>2. CASE message_map'[m][x] = data
    BY <1>0, <1>1, <1>3, <2>2 DEF OwnEntry
  <2>. QED
    BY <1>4, <2>1, <2>2, EntriesKept
<1>. QED
  BY <1>4, <1>7, <1>8, <1>9, <1>10 DEF IInv

\* ReceiveMessage adds an entry for a message in flight, unless n has one.
ReceivedEntry(msg) ==
  [sender |-> msg.sender, latency |-> time - msg.creationTime,
   creationTime |-> msg.creationTime, outgoing |-> FALSE]

LEMMA ReceiveInserts ==
  ASSUME IInv, NEW n \in Node, ReceiveMessage(n)
  PROVE  \E msg \in temp_messages[n] :
           /\ messages' \in [Node -> Seq(Uuid)] /\ ListMatchesMap'
           /\ DOMAIN message_map' = Node
           /\ Inserted(n, msg.uuid, ReceivedEntry(msg))
           /\ temp_messages' = [temp_messages EXCEPT ![n] = @ \ {msg}]
<1>1. PICK msg \in temp_messages[n] :
        /\ insertMessage(n, WithoutUuid(n, msg.uuid), msg.uuid, ReceivedEntry(msg))
        /\ temp_messages' = [temp_messages EXCEPT ![n] = @ \ {msg}]
  BY DEF ReceiveMessage, ReceivedEntry
<1>2. TypeOK /\ ListMatchesMap /\ msg.uuid \in Uuid /\ ReceivedEntry(msg) \in MessageData
  BY DEF IInv, TypeOK, Pushed, MessageData, ReceivedEntry
<1>. QED
  BY <1>1, <1>2, WithoutUuidProperties, InsertMessageProperties

\* ReceiveMessage keeps the invariant.
LEMMA ReceiveIInv ==
  ASSUME IInv, NEW n \in Node, ReceiveMessage(n)
  PROVE  IInv'
<1>1. PICK msg \in temp_messages[n] :
        /\ messages' \in [Node -> Seq(Uuid)] /\ ListMatchesMap' /\ DOMAIN message_map' = Node
        /\ Inserted(n, msg.uuid, ReceivedEntry(msg))
        /\ temp_messages' = [temp_messages EXCEPT ![n] = @ \ {msg}]
  BY ReceiveInserts
<1> DEFINE u == msg.uuid
           f == msg.from
<1>0. PICK data : data = ReceivedEntry(msg)
  OBVIOUS
<1>2. UNCHANGED <<phase, i, time, near, nextMessageId>>
  BY DEF ReceiveMessage
<1>3. /\ TypeOK /\ time \in Nat
      /\ u \in Uuid /\ f \in Node /\ msg.sender \in Node /\ msg.creationTime \in Nat
  BY DEF IInv, TypeOK, Pushed
<1>4. Inserted(n, u, data)
  BY <1>0, <1>1
<1>5. /\ u \in DOMAIN message_map[f]
      /\ message_map[f][u].sender = msg.sender
      /\ message_map[f][u].creationTime = msg.creationTime
  BY DEF IInv, PushedIsHeld, hasReceivedMessage
<1>6. temp_messages' \in [Node -> SUBSET Pushed]
      /\ \A r \in Node : temp_messages'[r] \subseteq temp_messages[r]
  BY <1>1, <1>3 DEF TypeOK
<1>7. TypeOK'
  <2>1. \A m \in Node : DOMAIN message_map'[m] \subseteq Uuid
    BY <1>3, <1>4 DEF Inserted, TypeOK
  <2>. QED
    BY <1>1, <1>2, <1>3, <1>4, <1>6, <2>1 DEF TypeOK, Inserted
<1>8. MintedByItsSender'
  <2>1. ASSUME u \notin DOMAIN message_map[n]
        PROVE  Minted(n, u)'
    <3> DEFINE s == msg.sender
    <3>1. /\ \E k \in 0 .. nextMessageId[s] - 1 : u = s * MAX_MESSAGES + k
          /\ u \in DOMAIN message_map[s]
          /\ message_map[s][u].sender = s
          /\ message_map[s][u].creationTime = msg.creationTime
      BY <1>3, <1>5 DEF IInv, MintedByItsSender, Minted, hasReceivedMessage
    <3>2. n # s
      BY <2>1, <3>1
    <3>3. message_map'[n][u] = data
      BY <1>4, <2>1 DEF Inserted
    <3>4. u \in DOMAIN message_map'[s] /\ message_map'[s][u] = message_map[s][u]
      BY <1>3, <1>4, <3>1, EntriesKept
    <3>. QED
      BY <1>0, <1>2, <3>1, <3>2, <3>3, <3>4 DEF Minted, hasReceivedMessage, ReceivedEntry
  <2>2. nextMessageId' \in [Node -> 0..MaxCreated]
        /\ \A m \in Node : nextMessageId[m] <= nextMessageId'[m]
    BY <1>2, <1>3, ConfigAssumption DEF TypeOK
  <2> HIDE DEF u
  <2>. QED
    BY <1>4, <2>1, <2>2, MintedKept
<1>9. PushedIsHeld'
  <2> HIDE DEF u
  <2>. QED
    BY <1>4, <1>6, PushedIsHeldKept
<1>10. LatencyInThePast'
  <2> SUFFICES ASSUME NEW m \in Node, NEW x \in DOMAIN message_map'[m]
               PROVE  LET e == message_map'[m][x]
                      IN  /\ e.latency >= 0
                          /\ e.creationTime + e.latency <= time'
                          /\ e.outgoing => e.latency = 0
    BY DEF LatencyInThePast
  <2>1. CASE x \in DOMAIN message_map[m]
    BY <1>2, <1>4, <2>1, EntriesKept DEF IInv, LatencyInThePast
  <2>2. CASE message_map'[m][x] = data
    <3>1. msg.creationTime <= time
      <4>1. /\ message_map[f][u].creationTime \in Nat /\ message_map[f][u].latency \in Int
        BY <1>3, <1>5 DEF TypeOK, MessageData
      <4>2. /\ message_map[f][u].latency >= 0
            /\ message_map[f][u].creationTime + message_map[f][u].latency <= time
        BY <1>3, <1>5 DEF IInv, LatencyInThePast
      <4>. QED
        BY <1>3, <1>5, <4>1, <4>2
    <3>. QED
      BY <1>0, <1>2, <1>3, <2>2, <3>1 DEF ReceivedEntry
  <2>. QED
    BY <1>4, <2>1, <2>2, EntriesKept
<1>. QED
  BY <1>1, <1>7, <1>8, <1>9, <1>10 DEF IInv

\* The steps that leave the nodes' lists and maps alone.
LEMMA SameMapsIInv ==
  ASSUME IInv, UNCHANGED <<messages, message_map, nextMessageId>>,
         time' \in Nat, time <= time', i' \in Node, phase' \in Phase,
         near' \in [Node -> SUBSET Node],
         temp_messages' \in [Node -> SUBSET Pushed], PushedIsHeld'
  PROVE  IInv'
<1>1. TypeOK'
  BY DEF IInv, TypeOK
<1>2. ListMatchesMap' /\ MintedByItsSender'
  BY DEF IInv, ListMatchesMap, MintedByItsSender, Minted, hasReceivedMessage
<1>3. LatencyInThePast'
  <2> SUFFICES ASSUME NEW n \in Node, NEW u \in DOMAIN message_map[n]
               PROVE  LET e == message_map[n][u]
                      IN  /\ e.latency >= 0
                          /\ e.creationTime + e.latency <= time'
                          /\ e.outgoing => e.latency = 0
    BY DEF LatencyInThePast
  <2>1. /\ message_map[n][u].latency \in Int /\ message_map[n][u].creationTime \in Nat
        /\ time \in Nat
    BY DEF IInv, TypeOK, MessageData
  <2>. QED
    BY <2>1 DEF IInv, LatencyInThePast
<1>. QED
  BY <1>1, <1>2, <1>3 DEF IInv

\* What pushMessagesTo sends is held by the node it is sent from.
LEMMA PushListProperties ==
  ASSUME IInv, NEW n \in Node
  PROVE  /\ PushList(n) \subseteq Pushed
         /\ \A m \in PushList(n) :
              /\ m.from = n
              /\ m.uuid \in DOMAIN message_map[n]
              /\ m.sender = message_map[n][m.uuid].sender
              /\ m.creationTime = message_map[n][m.uuid].creationTime
<1> SUFFICES ASSUME NEW m \in PushList(n)
             PROVE  /\ m \in Pushed
                    /\ m.from = n
                    /\ m.uuid \in DOMAIN message_map[n]
                    /\ m.sender = message_map[n][m.uuid].sender
                    /\ m.creationTime = message_map[n][m.uuid].creationTime
  OBVIOUS
<1>1. PICK u \in {messages[n][k] : k \in Sent(n)} :
        m = [from |-> n, uuid |-> u, sender |-> message_map[n][u].sender,
             creationTime |-> message_map[n][u].creationTime]
  BY DEF PushList
<1>2. u \in DOMAIN message_map[n]
  BY DEF Sent, Eligible, IInv, ListMatchesMap, ToSet
<1>3. /\ u \in Uuid /\ message_map[n][u].sender \in Node
      /\ message_map[n][u].creationTime \in Nat
  BY <1>2 DEF IInv, TypeOK, MessageData
<1>. QED
  BY <1>1, <1>2, <1>3 DEF Pushed

\* pushMessagesTo, whoever the receiver is.
LEMMA PushIInv ==
  ASSUME IInv, NEW n \in Node, NEW that \in Node, pushMessagesTo(n, that)
  PROVE  IInv'
<1>1. /\ temp_messages' = [temp_messages EXCEPT ![that] = @ \cup PushList(n)]
      /\ UNCHANGED <<time, near, messages, message_map, nextMessageId>>
      /\ NextIteration("push", n, "merge")
  BY DEF pushMessagesTo
<1>2. i' \in Node /\ phase' \in Phase
  BY <1>1, NextIterationType DEF Phase
<1>3. temp_messages \in [Node -> SUBSET Pushed] /\ time \in Nat /\ near \in [Node -> SUBSET Node]
  BY DEF IInv, TypeOK
<1>4. temp_messages' \in [Node -> SUBSET Pushed]
  BY <1>1, <1>3, PushListProperties
<1>5. PushedIsHeld'
  <2> SUFFICES ASSUME NEW r \in Node, NEW m \in temp_messages'[r]
               PROVE  /\ m.uuid \in DOMAIN message_map[m.from]
                      /\ m.sender = message_map[m.from][m.uuid].sender
                      /\ m.creationTime = message_map[m.from][m.uuid].creationTime
    BY <1>1 DEF PushedIsHeld, hasReceivedMessage
  <2>1. m \in temp_messages[r] \/ m \in PushList(n)
    BY <1>1, <1>3
  <2>2. CASE m \in temp_messages[r]
    BY <2>2 DEF IInv, PushedIsHeld, hasReceivedMessage
  <2>3. CASE m \in PushList(n)
    BY <2>3, PushListProperties
  <2>. QED
    BY <2>1, <2>2, <2>3
<1>. QED
  BY <1>1, <1>2, <1>3, <1>4, <1>5, SameMapsIInv

\* The other steps: in flight stays, or is dropped.
LEMMA QuietIInv ==
  ASSUME IInv, UNCHANGED <<messages, message_map, nextMessageId>>,
         time' \in Nat, time <= time', i' \in Node, phase' \in Phase,
         near' \in [Node -> SUBSET Node],
         temp_messages' \in [Node -> SUBSET Pushed],
         \A n \in Node : temp_messages'[n] \subseteq temp_messages[n]
  PROVE  IInv'
<1>1. PushedIsHeld'
  BY DEF IInv, PushedIsHeld, hasReceivedMessage
<1>. QED
  BY <1>1, SameMapsIInv

\* Every step of think and of the move after it keeps the invariant.
LEMMA NextIInv == IInv /\ [Next]_vars => IInv'
<1> SUFFICES ASSUME IInv, [Next]_vars
             PROVE  IInv'
  OBVIOUS
<1>1. /\ time \in Nat /\ i \in Node /\ phase \in Phase /\ near \in [Node -> SUBSET Node]
      /\ temp_messages \in [Node -> SUBSET Pushed]
  BY DEF IInv, TypeOK
<1>2. ASSUME NEW n \in Node, createNewMessage(n)
      PROVE  IInv'
  BY <1>2, CreateIInv
<1>3. ASSUME NEW n \in Node, SkipCreation(n)
      PROVE  IInv'
  <2>1. i' \in Node /\ phase' \in Phase
    BY <1>3, NextIterationType DEF SkipCreation, Phase
  <2>. QED
    BY <1>1, <1>3, <2>1, QuietIInv DEF SkipCreation, node
<1>4. ASSUME NEW n \in Node, PushToNeighbour(n)
      PROVE  IInv'
  <2>1. PICK that \in near[n] : pushMessagesTo(n, that)
    BY <1>4 DEF PushToNeighbour
  <2>2. that \in Node
    BY <1>1
  <2>. QED
    BY <2>1, <2>2, PushIInv
<1>5. ASSUME NEW n \in Node, NoPotentials(n)
      PROVE  IInv'
  <2>1. i' \in Node /\ phase' \in Phase
    BY <1>5, NextIterationType DEF NoPotentials, Phase
  <2>. QED
    BY <1>1, <1>5, <2>1, QuietIInv DEF NoPotentials, node
<1>6. ASSUME NEW n \in Node, PushPastTheEnd(n)
      PROVE  IInv'
  <2>1. CASE \E that \in Node : pushMessagesTo(n, that)
    BY <2>1, PushIInv
  <2>2. CASE phase' = "crashed" /\ UNCHANGED <<i, time, near, node>>
    BY <1>1, <2>2, QuietIInv DEF node, Phase
  <2>. QED
    BY <1>6, <2>1, <2>2 DEF PushPastTheEnd
<1>7. ASSUME NEW n \in Node, ReceiveMessage(n)
      PROVE  IInv'
  BY <1>7, ReceiveIInv
<1>8. ASSUME NEW n \in Node, EndMerge(n)
      PROVE  IInv'
  <2>1. i' \in Node /\ phase' \in Phase
    BY <1>8, NextIterationType DEF EndMerge, Phase
  <2>2. /\ temp_messages' \in [Node -> SUBSET Pushed]
        /\ \A m \in Node : temp_messages'[m] \subseteq temp_messages[m]
    BY <1>1, <1>8 DEF EndMerge
  <2>. QED
    BY <1>1, <1>8, <2>1, <2>2, QuietIInv DEF EndMerge
<1>9. ASSUME Move
      PROVE  IInv'
  <2>1. near' \in [Node -> SUBSET Node]
    BY <1>9 DEF Move, Topologies
  <2>. QED
    BY <1>1, <1>9, <2>1, QuietIInv DEF Move, node, Phase
<1>10. CASE UNCHANGED vars
  BY <1>1, <1>10, QuietIInv DEF vars
<1>. QED
  BY <1>2, <1>3, <1>4, <1>5, <1>6, <1>7, <1>8, <1>9, <1>10
     DEF Next, CreateLoop, PushLoop, MergeLoop

\* No step drops or alters an entry of any node's map.
LEMMA NextEntriesKept ==
  ASSUME IInv, [Next]_vars
  PROVE  \A n \in Node : \A u \in DOMAIN message_map[n] :
           u \in DOMAIN message_map'[n] /\ message_map'[n][u] = message_map[n][u]
<1>1. ASSUME NEW n \in Node, createNewMessage(n)
      PROVE  \A m \in Node : \A u \in DOMAIN message_map[m] :
               u \in DOMAIN message_map'[m] /\ message_map'[m][u] = message_map[m][u]
  <2>1. Inserted(n, NewUuid(n), OwnEntry(n))
    BY <1>1, CreateInserts
  <2>. QED
    BY <2>1, EntriesKept
<1>2. ASSUME NEW n \in Node, ReceiveMessage(n)
      PROVE  \A m \in Node : \A u \in DOMAIN message_map[m] :
               u \in DOMAIN message_map'[m] /\ message_map'[m][u] = message_map[m][u]
  <2>1. PICK msg \in temp_messages[n] : Inserted(n, msg.uuid, ReceivedEntry(msg))
    BY <1>2, ReceiveInserts
  <2>. QED
    BY <2>1, EntriesKept
<1>3. ASSUME NEW n \in Node, PushLoop(n) \/ SkipCreation(n) \/ EndMerge(n)
      PROVE  UNCHANGED message_map
  BY <1>3 DEF PushLoop, PushToNeighbour, NoPotentials, PushPastTheEnd, pushMessagesTo,
              SkipCreation, EndMerge, node
<1>4. CASE Move \/ UNCHANGED vars
  BY <1>4 DEF Move, node, vars
<1>. QED
  BY <1>1, <1>2, <1>3, <1>4 DEF Next, CreateLoop, MergeLoop

\* The loops leave nothing in flight: the merge loop deletes the messages pushed to
\* each node in turn, and only the push loop, before it, adds any.
LEMMA NothingInFlightKept ==
  ASSUME TypeOK, NothingInFlightLater, [Next]_vars
  PROVE  NothingInFlightLater'
<1>. USE ConfigAssumption DEF Node, NothingInFlightLater
<1>1. i \in Node /\ numNodes \in Nat /\ temp_messages \in [Node -> SUBSET Pushed]
  BY DEF TypeOK
<1>2. ASSUME NEW n \in Node, CreateLoop(n) \/ NoPotentials(n)
      PROVE  NothingInFlightLater'
  <2>1. temp_messages' = temp_messages /\ phase' \in {"create", "push", "merge"} /\ i' \in Node
    BY <1>1, <1>2 DEF CreateLoop, createNewMessage, SkipCreation, NoPotentials, NextIteration, At, node
  <2>2. phase' = "create" => phase = "create"
    BY <1>2 DEF CreateLoop, createNewMessage, SkipCreation, NoPotentials, NextIteration, At
  <2>3. phase' = "merge" => i' = 0
    BY <1>2 DEF CreateLoop, createNewMessage, SkipCreation, NoPotentials, NextIteration, At
  <2>. QED
    BY <2>1, <2>2, <2>3
<1>3. ASSUME NEW n \in Node, PushToNeighbour(n) \/ PushPastTheEnd(n)
      PROVE  NothingInFlightLater'
  <2>1. phase' \in {"push", "crashed"} \/ (phase' = "merge" /\ i' = 0)
    BY <1>3 DEF PushToNeighbour, PushPastTheEnd, pushMessagesTo, NextIteration
  <2>. QED
    BY <2>1
<1>4. ASSUME NEW n \in Node, ReceiveMessage(n)
      PROVE  NothingInFlightLater'
  <2>1. /\ phase = "merge" /\ phase' = phase /\ i = n /\ i' = i
        /\ \A m \in Node : m # n => temp_messages'[m] = temp_messages[m]
    BY <1>1, <1>4 DEF ReceiveMessage, At
  <2>. QED
    BY <2>1
<1>5. ASSUME NEW n \in Node, EndMerge(n)
      PROVE  NothingInFlightLater'
  <2>1. /\ phase = "merge" /\ i = n
        /\ temp_messages'[n] = {}
        /\ \A m \in Node : m # n => temp_messages'[m] = temp_messages[m]
    BY <1>1, <1>5 DEF EndMerge, At
  <2>2. IF n < numNodes - 1 THEN i' = n + 1 /\ phase' = "merge" ELSE phase' = "move"
    BY <1>5 DEF EndMerge, NextIteration
  <2>3. \A m \in Node : m < n => temp_messages'[m] = {}
    BY <2>1
  <2>4. CASE n < numNodes - 1
    BY <1>1, <2>1, <2>2, <2>3, <2>4
  <2>5. CASE ~(n < numNodes - 1)
    BY <1>1, <2>1, <2>2, <2>3, <2>5
  <2>. QED
    BY <2>4, <2>5
<1>6. CASE Move
  BY <1>6 DEF Move, node
<1>7. CASE UNCHANGED vars
  BY <1>7 DEF vars
<1>. QED
  BY <1>2, <1>3, <1>4, <1>5, <1>6, <1>7 DEF Next, PushLoop, MergeLoop

-----------------------------------------------------------------------------
(* Theorems                                                                *)

\* The conjunction of the safety invariants is an invariant of the program.
THEOREM Invariance == Spec => []IInv
BY InitIInv, NextIInv, PTL DEF Spec

\* Every variable keeps its type, for every number of nodes.
THEOREM TypeCorrect == Spec => []TypeOK
<1>1. IInv => TypeOK
  BY DEF IInv
<1>. QED
  BY <1>1, Invariance, PTL

\* The list and the map of a node always hold the same uuids, each once, so
\* pushMessagesTo never looks up a uuid that is not in the map.
THEOREM ListMatchesMapAlways == Spec => []ListMatchesMap
<1>1. IInv => ListMatchesMap
  BY DEF IInv
<1>. QED
  BY <1>1, Invariance, PTL

\* No message is made up on the way: sender, creation time and the outgoing
\* mark of every entry agree with what the sender minted.
THEOREM MintedByItsSenderAlways == Spec => []MintedByItsSender
<1>1. IInv => MintedByItsSender
  BY DEF IInv
<1>. QED
  BY <1>1, Invariance, PTL

\* No recorded latency is negative or reaches beyond the current time.
THEOREM LatencyInThePastAlways == Spec => []LatencyInThePast
<1>1. IInv => LatencyInThePast
  BY DEF IInv
<1>. QED
  BY <1>1, Invariance, PTL

\* What is in flight is always held by its pusher, as it was pushed.
THEOREM PushedIsHeldAlways == Spec => []PushedIsHeld
<1>1. IInv => PushedIsHeld
  BY DEF IInv
<1>. QED
  BY <1>1, Invariance, PTL

\* The first receipt of a message is never overwritten and never forgotten,
\* however often and by whatever way the message comes back.
THEOREM FirstReceiptKeptAlways == Spec => FirstReceiptKept
<1>1. IInv /\ [Next]_vars =>
        [\A n \in Node : \A u \in DOMAIN message_map[n] :
           u \in DOMAIN message_map'[n] /\ message_map'[n][u] = message_map[n][u]]_vars
  BY NextEntriesKept
<1>. QED
  BY <1>1, Invariance, PTL DEF Spec, FirstReceiptKept

\* What is pushed in one timestep is merged or deleted in it, so no message is
\* received with the latency of another timestep (mergeMessages).
THEOREM NothingInFlightLaterAlways == Spec => []NothingInFlightLater
<1>1. Init => NothingInFlightLater
  BY DEF Init, NothingInFlightLater
<1>2. IInv /\ NothingInFlightLater /\ [Next]_vars => NothingInFlightLater'
  BY NothingInFlightKept DEF IInv
<1>. QED
  BY <1>1, <1>2, Invariance, PTL DEF Spec

-----------------------------------------------------------------------------
(* The refinement: the exchange implements the abstract Gossip.  Whatever  *)
(* the number of nodes, their movement, the draws and the losses, a        *)
(* message goes at most one hop per timestep, to a node in range, provided *)
(* the draw of the receiver cannot come out as 1.0f.                       *)

\* Before the first merge of a timestep a node may hand on all it holds.
EveryEntryOffered ==
  phase \in {"create", "push"} => \A n \in Node : DOMAIN message_map[n] = Offered[n]

\* What is in flight was offered by its pusher.
PushedIsOffered ==
  \A n \in Node : \A m \in temp_messages[n] : m.uuid \in Offered[m.from]

\* What is in flight goes to a node in range, and nothing is when the nodes move.
PushedInRange ==
  \A n \in Node : \A m \in temp_messages[n] :
    /\ n \in near[m.from]
    /\ phase \in {"push", "merge"}
    /\ phase = "merge" => n >= i

\* The refinement's invariant: the safety invariants, and where offers come from
\* and go to.
RInv == IInv /\ EveryEntryOffered /\ PushedIsOffered /\ PushedInRange

-----------------------------------------------------------------------------
(* How the two abstract variables change                                   *)

\* What Offered is, without the function.
LEMMA OfferedProperties ==
  ASSUME NEW n \in Node, NEW u
  PROVE  u \in Offered[n] <=>
           /\ u \in DOMAIN message_map[n]
           /\ \/ message_map[n][u].outgoing
              \/ message_map[n][u].creationTime + message_map[n][u].latency < time
BY DEF Offered

\* createNewMessage lets its node know and offer the new message.
LEMMA CreateOriginates ==
  ASSUME RInv, NEW n \in Node, createNewMessage(n)
  PROVE  G!Originate(n, NewUuid(n)) /\ RInv'
<1>0. PICK u, data : u = NewUuid(n) /\ data = OwnEntry(n)
  OBVIOUS
<1>1. /\ \A m \in Node : u \notin DOMAIN message_map[m]
      /\ Inserted(n, u, data)
  BY <1>0, CreateInserts DEF RInv
<1>2. UNCHANGED <<time, near, temp_messages>> /\ data.outgoing = TRUE
  BY <1>0 DEF createNewMessage, OwnEntry
<1>3. \A m \in Node : Known'[m] = IF m = n THEN Known[m] \cup {u} ELSE Known[m]
  BY <1>1 DEF Known, Inserted
<1>4. ASSUME NEW m \in Node
      PROVE  Offered'[m] = IF m = n THEN Offered[m] \cup {u} ELSE Offered[m]
  <2>1. CASE m = n
    <3>1. message_map'[n][u] = data
      BY <1>1 DEF Inserted
    <3>. QED
      BY <1>1, <1>2, <2>1, <3>1 DEF Offered, Inserted
  <2>2. CASE m # n
    BY <1>1, <1>2, <2>2 DEF Offered, Inserted
  <2>. QED
    BY <2>1, <2>2
<1>5. G!Originate(n, u)
  <2>1. Known' = [Known EXCEPT ![n] = @ \cup {u}]
    BY <1>3 DEF Known
  <2>2. Offered' = [Offered EXCEPT ![n] = @ \cup {u}]
    BY <1>4 DEF Offered
  <2>3. \A m \in Node : u \notin Known[m]
    BY <1>1 DEF Known
  <2>. QED
    BY <1>2, <2>1, <2>2, <2>3 DEF G!Originate
<1>6. EveryEntryOffered'
  <2>1. \A m \in Node : Known[m] = Offered[m]
    BY DEF RInv, EveryEntryOffered, createNewMessage, At, Known
  <2>2. \A m \in Node : DOMAIN message_map'[m] = Known'[m]
    BY DEF Known
  <2>. QED
    BY <1>3, <1>4, <2>1, <2>2 DEF EveryEntryOffered
<1>7. PushedIsOffered'
  <2> SUFFICES ASSUME NEW r \in Node, NEW m \in temp_messages[r]
               PROVE  m.uuid \in Offered'[m.from]
    BY <1>2 DEF PushedIsOffered
  <2>1. m.uuid \in Offered[m.from] /\ m.from \in Node
    BY DEF RInv, IInv, TypeOK, Pushed, PushedIsOffered
  <2>. QED
    BY <1>4, <2>1
<1>8. IInv'
  BY CreateIInv DEF RInv
<1>9. PushedInRange'
  <2>1. \A r \in Node : temp_messages[r] = {}
    BY DEF RInv, PushedInRange, createNewMessage, At
  <2>. QED
    BY <1>2, <2>1 DEF PushedInRange
<1>. QED
  BY <1>0, <1>5, <1>6, <1>7, <1>8, <1>9 DEF RInv

\* ReceiveMessage lets its node know a message somebody offers; as the entry's
\* receipt is of this timestep, it offers nothing new.
LEMMA ReceiveLearns ==
  ASSUME RInv, NEW n \in Node, ReceiveMessage(n)
  PROVE  (\E u \in Uuid : G!Learn(n, u)) /\ RInv'
<1>1. PICK msg \in temp_messages[n] :
        /\ Inserted(n, msg.uuid, ReceivedEntry(msg))
        /\ temp_messages' = [temp_messages EXCEPT ![n] = @ \ {msg}]
  BY ReceiveInserts DEF RInv
<1>0. PICK u, data : u = msg.uuid /\ data = ReceivedEntry(msg)
  OBVIOUS
<1>2. /\ Inserted(n, u, data)
      /\ UNCHANGED <<phase, i, time, near>> /\ phase = "merge"
  BY <1>0, <1>1 DEF ReceiveMessage, At
<1>3. /\ u \in Uuid /\ msg.from \in Node /\ u \in Offered[msg.from]
      /\ msg.creationTime \in Nat /\ time \in Nat /\ n \in near[msg.from]
  BY <1>0 DEF RInv, IInv, TypeOK, Pushed, PushedIsOffered, PushedInRange
<1>4. data.outgoing = FALSE /\ ~(data.creationTime + data.latency < time)
  BY <1>0, <1>3 DEF ReceivedEntry
<1>5. Known' = [Known EXCEPT ![n] = @ \cup {u}]
  BY <1>2 DEF Known, Inserted
<1>6. ASSUME NEW m \in Node
      PROVE  Offered'[m] = Offered[m]
  <2>1. CASE m = n /\ u \notin DOMAIN message_map[n]
    <3>1. message_map'[n][u] = data
      BY <1>2, <2>1 DEF Inserted
    <3>. QED
      BY <1>2, <1>4, <2>1, <3>1 DEF Offered, Inserted
  <2>2. CASE m = n /\ u \in DOMAIN message_map[n]
    BY <1>2, <2>2 DEF Offered, Inserted
  <2>3. CASE m # n
    BY <1>2, <2>3 DEF Offered, Inserted
  <2>. QED
    BY <2>1, <2>2, <2>3
<1>7. Offered' = Offered
  BY <1>6 DEF Offered
<1>8. G!Learn(n, u)
  BY <1>2, <1>3, <1>5, <1>7 DEF G!Learn
<1>9. EveryEntryOffered'
  BY <1>2 DEF EveryEntryOffered
<1>10. PushedIsOffered'
  <2>1. \A r \in Node : temp_messages'[r] \subseteq temp_messages[r]
    BY <1>1 DEF RInv, IInv, TypeOK
  <2> SUFFICES ASSUME NEW r \in Node, NEW m \in temp_messages'[r]
               PROVE  m.uuid \in Offered'[m.from]
    BY DEF PushedIsOffered
  <2>2. m.uuid \in Offered[m.from]
    BY <2>1 DEF RInv, PushedIsOffered
  <2>. QED
    BY <1>7, <2>2
<1>11. IInv'
  BY ReceiveIInv DEF RInv
<1>12. PushedInRange'
  <2>1. \A r \in Node : temp_messages'[r] \subseteq temp_messages[r]
    BY <1>1 DEF RInv, IInv, TypeOK
  <2>. QED
    BY <1>2, <2>1 DEF RInv, PushedInRange
<1>. QED
  BY <1>3, <1>8, <1>9, <1>10, <1>11, <1>12 DEF RInv

\* A step that leaves the maps, the time and the nodes alone is a stutter.
LEMMA QuietStutters ==
  ASSUME UNCHANGED <<message_map, time, near>>
  PROVE  UNCHANGED G!vars /\ Known' = Known /\ Offered' = Offered
BY DEF G!vars, Known, Offered

\* The end of the timestep: what was received in it can now be handed on.
LEMMA MoveIsNextTimestep ==
  ASSUME RInv, Move
  PROVE  G!NextTimestep /\ EveryEntryOffered' /\ PushedIsOffered' /\ PushedInRange'
<1>1. UNCHANGED <<message_map, temp_messages>> /\ time' = time + 1
  BY DEF Move, node
<1>2. ASSUME NEW n \in Node, NEW u \in DOMAIN message_map[n]
      PROVE  message_map[n][u].creationTime + message_map[n][u].latency < time'
  <2>1. /\ message_map[n][u].creationTime \in Nat /\ message_map[n][u].latency \in Int
        /\ time \in Nat
    BY DEF RInv, IInv, TypeOK, MessageData
  <2>2. message_map[n][u].creationTime + message_map[n][u].latency <= time
    BY DEF RInv, IInv, LatencyInThePast
  <2>. QED
    BY <1>1, <2>1, <2>2
<1>3. \A n \in Node : Offered'[n] = DOMAIN message_map[n]
  BY <1>1, <1>2 DEF Offered
<1>4. Offered' = Known /\ Known' = Known
  BY <1>1, <1>3 DEF Offered, Known
<1>5. EveryEntryOffered'
  BY <1>1, <1>3 DEF EveryEntryOffered
<1>6. PushedIsOffered'
  <2> SUFFICES ASSUME NEW r \in Node, NEW m \in temp_messages[r]
               PROVE  m.uuid \in Offered'[m.from]
    BY <1>1 DEF PushedIsOffered
  <2>1. m.from \in Node /\ m.uuid \in DOMAIN message_map[m.from]
    BY DEF RInv, IInv, TypeOK, Pushed, PushedIsHeld, hasReceivedMessage
  <2>. QED
    BY <1>3, <2>1
<1>7. PushedInRange'
  <2>1. \A r \in Node : temp_messages[r] = {}
    BY DEF RInv, PushedInRange, Move
  <2>. QED
    BY <1>1, <2>1 DEF PushedInRange
<1>8. near' \in [Node -> SUBSET Node]
  BY DEF Move, Topologies
<1>. QED
  BY <1>4, <1>5, <1>6, <1>7, <1>8 DEF G!NextTimestep

\* What pushMessagesTo sends, the pusher offers, and to the node in range it drew.
LEMMA PushOffers ==
  ASSUME RInv, NEW n \in Node, At("push", n), NEW that \in near[n], pushMessagesTo(n, that)
  PROVE  PushedIsOffered' /\ PushedInRange'
<1>1. /\ temp_messages' = [temp_messages EXCEPT ![that] = @ \cup PushList(n)]
      /\ UNCHANGED <<message_map, time, near>>
      /\ phase = "push" /\ i = n
      /\ NextIteration("push", n, "merge")
  BY DEF pushMessagesTo, At
<1>2. Offered' = Offered
  BY <1>1, QuietStutters
<1>3. phase' = "push" \/ (phase' = "merge" /\ i' = 0)
  BY <1>1 DEF NextIteration
<1> SUFFICES ASSUME NEW r \in Node, NEW m \in temp_messages'[r]
             PROVE  m.uuid \in Offered[m.from] /\ r \in near[m.from]
  <2>1. \A r \in Node : r >= 0
    BY DEF Node
  <2>. QED
    BY <1>1, <1>2, <1>3, <2>1 DEF PushedIsOffered, PushedInRange
<1>4. m \in temp_messages[r] \/ (m \in PushList(n) /\ r = that)
  BY <1>1 DEF RInv, IInv, TypeOK
<1>5. CASE m \in PushList(n) /\ r = that
  <2>1. m.from = n /\ m.uuid \in DOMAIN message_map[n]
    BY <1>5, PushListProperties DEF RInv
  <2>. QED
    BY <1>1, <1>5, <2>1 DEF RInv, EveryEntryOffered
<1>6. CASE m \in temp_messages[r]
  BY <1>6 DEF RInv, PushedIsOffered, PushedInRange
<1>. QED
  BY <1>4, <1>5, <1>6

-----------------------------------------------------------------------------
(* The refinement                                                          *)

\* At the start nobody knows, offers or is sent anything.
LEMMA InitRefines == Init => G!Init /\ RInv
<1> SUFFICES ASSUME Init PROVE G!Init /\ RInv
  OBVIOUS
<1>1. \A n \in Node : DOMAIN message_map[n] = {} /\ temp_messages[n] = {}
  BY DEF Init
<1>2. \A n \in Node : Known[n] = {} /\ Offered[n] = {}
  BY <1>1 DEF Known, Offered
<1>3. G!Init
  BY <1>2 DEF G!Init, Known, Offered, Init, Topologies
<1>. QED
  BY <1>1, <1>2, <1>3, InitIInv
     DEF RInv, EveryEntryOffered, PushedIsOffered, PushedInRange

\* Every step is a step of Gossip or a stutter.
LEMMA NextRefines ==
  ASSUME ~RoundedDraw
  PROVE  RInv /\ [Next]_vars => [G!Next]_(G!vars) /\ RInv'
<1> SUFFICES ASSUME RInv, [Next]_vars
             PROVE  [G!Next]_(G!vars) /\ RInv'
  OBVIOUS
<1>1. IInv'
  BY NextIInv DEF RInv
<1>2. ASSUME NEW n \in Node, createNewMessage(n)
      PROVE  [G!Next]_(G!vars) /\ RInv'
  <2>1. NewUuid(n) \in Uuid
    BY <1>2, CreateInserts DEF RInv
  <2>. QED
    BY <1>2, <2>1, CreateOriginates DEF G!Next
<1>3. ASSUME NEW n \in Node, ReceiveMessage(n)
      PROVE  [G!Next]_(G!vars) /\ RInv'
  BY <1>3, ReceiveLearns DEF G!Next
<1>4. ASSUME Move
      PROVE  [G!Next]_(G!vars) /\ RInv'
  BY <1>1, <1>4, MoveIsNextTimestep DEF G!Next, RInv
<1>5. ASSUME UNCHANGED <<message_map, time, near>>, PushedIsOffered', PushedInRange',
             phase \in {"create", "push"} \/ phase' \notin {"create", "push"}
      PROVE  [G!Next]_(G!vars) /\ RInv'
  <2>1. UNCHANGED G!vars /\ Offered' = Offered
    BY <1>5, QuietStutters
  <2>2. EveryEntryOffered'
    BY <1>5, <2>1 DEF RInv, EveryEntryOffered
  <2>. QED
    BY <1>1, <1>5, <2>1, <2>2 DEF RInv
<1>6. ASSUME UNCHANGED <<message_map, time, near>>,
             \A r \in Node : temp_messages'[r] \subseteq temp_messages[r]
      PROVE  PushedIsOffered'
  <2>1. Offered' = Offered
    BY <1>6, QuietStutters
  <2>. QED
    BY <1>6, <2>1 DEF RInv, PushedIsOffered
<1>7. ASSUME NEW n \in Node, SkipCreation(n)
      PROVE  [G!Next]_(G!vars) /\ RInv'
  <2>1. /\ UNCHANGED <<message_map, temp_messages, time, near>>
        /\ phase = "create"
    BY <1>7 DEF SkipCreation, At, node
  <2>2. PushedInRange'
    <3>1. \A r \in Node : temp_messages[r] = {}
      BY <2>1 DEF RInv, PushedInRange
    <3>. QED
      BY <2>1, <3>1 DEF PushedInRange
  <2>. QED
    BY <1>5, <1>6, <2>1, <2>2
<1>8. ASSUME NEW n \in Node, NoPotentials(n)
      PROVE  [G!Next]_(G!vars) /\ RInv'
  <2>1. /\ UNCHANGED <<message_map, temp_messages, time, near>>
        /\ phase = "push"
        /\ phase' = "push" \/ (phase' = "merge" /\ i' = 0)
    BY <1>8 DEF NoPotentials, At, node, NextIteration
  <2>2. \A r \in Node : r >= 0
    BY DEF Node
  <2>3. PushedInRange'
    BY <2>1, <2>2 DEF RInv, PushedInRange
  <2>. QED
    BY <1>5, <1>6, <2>1, <2>3
<1>9. ASSUME NEW n \in Node, PushToNeighbour(n)
      PROVE  [G!Next]_(G!vars) /\ RInv'
  <2>1. PICK that \in near[n] : pushMessagesTo(n, that)
    BY <1>9 DEF PushToNeighbour
  <2>2. At("push", n) /\ phase = "push" /\ UNCHANGED <<message_map, time, near>>
    BY <1>9, <2>1 DEF PushToNeighbour, At, pushMessagesTo
  <2>3. PushedIsOffered' /\ PushedInRange'
    BY <2>1, <2>2, PushOffers
  <2>. QED
    BY <1>5, <2>2, <2>3
<1>10. ASSUME NEW n \in Node, EndMerge(n)
       PROVE  [G!Next]_(G!vars) /\ RInv'
  <2>1. /\ UNCHANGED <<message_map, time, near>>
        /\ phase = "merge" /\ i = n
        /\ \A r \in Node : temp_messages'[r] = IF r = n THEN {} ELSE temp_messages[r]
        /\ IF n < numNodes - 1 THEN i' = n + 1 /\ phase' = "merge" ELSE i' = 0 /\ phase' = "move"
    BY <1>10 DEF EndMerge, At, NextIteration, RInv, IInv, TypeOK
  <2>2. ASSUME NEW r \in Node, temp_messages'[r] # {}
        PROVE  r > n /\ n < numNodes - 1 /\ phase' = "merge" /\ r >= i'
    <3>1. r # n /\ r >= n
      BY <2>1, <2>2 DEF RInv, PushedInRange
    <3>. QED
      BY <2>1, <3>1, ConfigAssumption DEF Node
  <2>3. PushedInRange'
    BY <2>1, <2>2 DEF RInv, PushedInRange
  <2>. QED
    BY <1>5, <1>6, <2>1, <2>3
<1>11. CASE UNCHANGED vars
  <2>1. UNCHANGED <<message_map, temp_messages, time, near, phase, i>>
    BY <1>11 DEF vars
  <2>2. PushedInRange'
    BY <2>1 DEF RInv, PushedInRange
  <2>. QED
    BY <1>5, <1>6, <2>1, <2>2
<1>12. \A n \in Node : ~PushPastTheEnd(n)
  BY DEF PushPastTheEnd
<1>. QED
  BY <1>2, <1>3, <1>4, <1>7, <1>8, <1>9, <1>10, <1>11, <1>12
     DEF Next, CreateLoop, PushLoop, MergeLoop

\* For every number of nodes and every configuration in which the draw stays
\* below 1.0f, the exchange implements the abstract gossip: one hop per
\* timestep, to a node in range, and nobody forgets.
THEOREM Refinement ==
  ASSUME ~RoundedDraw
  PROVE  Spec => OneHopPerTimestep
BY InitRefines, NextRefines, PTL DEF Spec, OneHopPerTimestep, G!Spec
=============================================================================
