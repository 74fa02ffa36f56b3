---------------------------- MODULE MessageModel ----------------------------
(***************************************************************************)
(* The message exchange of momosecpp: MessageModel::think drives the       *)
(* MessageNodes through one timestep (create, push, merge), then the       *)
(* nodes' own think and the physic engine move them and SimTime advances.  *)
(* The program is sequential; an action is one iteration of one of think's *)
(* loops, or one ReceiveMessage of a merge, so that every intermediate     *)
(* state the next iteration reads is a state of the model.                 *)
(*                                                                         *)
(* Data: time is counted in steps of dt; a MessageData is a record; the    *)
(* positions are abstracted to who is within EXCHANGE_DISTANCE of whom.    *)
(*                                                                         *)
(* A definition whose name starts with Faulty is not part of the model: it *)
(* is a plausible mistake in the definition that follows it, kept to show  *)
(* that the properties notice it.                                          *)
(***************************************************************************)
EXTENDS Integers, FiniteSets, SequencesExt

CONSTANTS
  numNodes,          \* nodes of the model
  num_adversaries,   \* the first num_adversaries nodes are adversaries
  msg_exchange_num,  \* messages a node pushes per timestep, at most
  use_friendships,   \* configuration flag <use_f>
  MAX_MESSAGES,      \* identifiers reserved for each node
  Creators,          \* the node types whose creation probability is not 0
  RoundedDraw,       \* TRUE: ((float) rand()) / RAND_MAX may come out as 1.0f
  T,                 \* bound: the timestep at which the simulation stops
  MaxCreated         \* bound: messages a node creates in a run

NodeType == {"ADVERSARY", "COLLABORATOR"}

\* What the parser and the constructor guarantee of the configuration.  The
\* code has no check that a node mints at most MAX_MESSAGES (INT_MAX)
\* identifiers: the bound MaxCreated stands for it.
ASSUME ConfigAssumption ==
  /\ numNodes \in Nat \ {0}
  /\ num_adversaries \in 0..numNodes
  /\ msg_exchange_num \in Nat \ {0}
  /\ use_friendships \in BOOLEAN
  /\ Creators \subseteq NodeType
  /\ RoundedDraw \in BOOLEAN
  /\ T \in Nat
  /\ MAX_MESSAGES \in Nat
  /\ MaxCreated \in 0..MAX_MESSAGES

VARIABLES
  phase,          \* the loop of think the program is in, or what follows it
  i,              \* that loop's index
  time,           \* SimTime: the current timestep
  near,           \* near[n]: the other nodes within EXCHANGE_DISTANCE of n
  messages,       \* messages[n]: uuids n holds, the newest last
  message_map,    \* message_map[n]: uuid -> MessageData
  temp_messages,  \* temp_messages[n]: pushed to n, not merged yet
  nextMessageId   \* nextMessageId[n]: n's own counter

node == <<messages, message_map, temp_messages, nextMessageId>>
vars == <<phase, i, time, near, messages, message_map, temp_messages, nextMessageId>>

-----------------------------------------------------------------------------
(* Types and helpers                                                       *)

Node == 0 .. numNodes - 1

Uuid == 0 .. numNodes * MAX_MESSAGES - 1

Phase == {"create", "push", "merge", "move", "crashed"}

MessageData ==
  [sender : Node, latency : Int, creationTime : Nat, outgoing : BOOLEAN]

\* A MessageData in flight.  "from" tells the copies of one message apart
\* that different nodes pushed to the same receiver; the code keeps both.
Pushed == [from : Node, uuid : Uuid, sender : Node, creationTime : Nat]

\* Every way the nodes can stand: distance is symmetric.
Topologies ==
  {R \in [Node -> SUBSET Node] :
     \A m, n \in Node : (m \in R[n] => m # n /\ n \in R[m])}

getType(n) == IF n < num_adversaries THEN "ADVERSARY" ELSE "COLLABORATOR"

trustDistance(n, m) ==
  IF n = m THEN 0 ELSE IF getType(n) = getType(m) THEN 1 ELSE -1

\* createNewMessage: node id and message id in one number.
NewUuid(n) == n * MAX_MESSAGES + nextMessageId[n]

hasReceivedMessage(n, u) == u \in DOMAIN message_map[n]

\* operator[] in place of insert.
FaultyMapInsert(map, u, data) ==
  [x \in DOMAIN map \cup {u} |-> IF x = u THEN data ELSE map[x]]

\* std::map::insert: an entry that is there already stays as it is.
MapInsert(map, u, data) ==
  [x \in DOMAIN map \cup {u} |-> IF x \in DOMAIN map THEN map[x] ELSE data]

\* insertMessage, with the messages n holds apart from u.
insertMessage(n, held, u, data) ==
  /\ messages' = [messages EXCEPT ![n] = Append(held, u)]
  /\ message_map' = [message_map EXCEPT ![n] = MapInsert(@, u, data)]

\* The old place is not erased.
FaultyWithoutUuid(n, u) == messages[n]

\* ReceiveMessage erases a message received again from its old place.
WithoutUuid(n, u) ==
  IF hasReceivedMessage(n, u)
  THEN RemoveAt(messages[n], CHOOSE k \in DOMAIN messages[n] : messages[n][k] = u)
  ELSE messages[n]

(***************************************************************************)
(* pushMessagesTo: the pass of the two loops that sends the message at     *)
(* position k of node n's list, 0 if neither does.                         *)
(***************************************************************************)
SendPass(n, k) ==
  LET stranger == trustDistance(n, message_map[n][messages[n][k]].sender) = -1
  IN  IF ~stranger THEN 1
      ELSE IF getType(n) = "ADVERSARY" THEN 0
      ELSE IF use_friendships THEN 2 ELSE 1

\* Position k is visited before position l: by an earlier pass, or newest first.
SentBefore(n, k, l) ==
  \/ SendPass(n, k) < SendPass(n, l)
  \/ SendPass(n, k) = SendPass(n, l) /\ k > l

Eligible(n) == {k \in DOMAIN messages[n] : SendPass(n, k) # 0}

\* The budget is tested after the message is sent.
FaultySent(n) ==
  {k \in Eligible(n) :
     Cardinality({l \in Eligible(n) : SentBefore(n, l, k)}) <= msg_exchange_num}

\* The positions sent before "sent" reaches msg_exchange_num.
Sent(n) ==
  {k \in Eligible(n) :
     Cardinality({l \in Eligible(n) : SentBefore(n, l, k)}) < msg_exchange_num}

\* What was pushed to n in this timestep is pushed on at once.
FaultyPushList(n) ==
  {[from |-> n, uuid |-> u, sender |-> message_map[n][u].sender,
    creationTime |-> message_map[n][u].creationTime] :
       u \in {messages[n][k] : k \in Sent(n)}}
  \cup {[m EXCEPT !.from = n] : m \in temp_messages[n]}

PushList(n) ==
  {[from |-> n, uuid |-> u, sender |-> message_map[n][u].sender,
    creationTime |-> message_map[n][u].creationTime] :
       u \in {messages[n][k] : k \in Sent(n)}}

-----------------------------------------------------------------------------
(* think's loops over the nodes                                            *)

\* The body of loop p runs for node n.
At(p, n) == phase = p /\ i = n

\* The loop's bound is off by one.
FaultyNextIteration(p, n, after) ==
  IF n <= numNodes - 1
  THEN i' = n + 1 /\ phase' = p
  ELSE i' = 0 /\ phase' = after

\* The iteration for node n ends: the next node, or the loop after p.
NextIteration(p, n, after) ==
  IF n < numNodes - 1
  THEN i' = n + 1 /\ phase' = p
  ELSE i' = 0 /\ phase' = after

\* The draw is below the creation probability of n's type: createNewMessage.
createNewMessage(n) ==
  /\ At("create", n) /\ time < T
  /\ getType(n) \in Creators
  /\ nextMessageId[n] < MaxCreated
  /\ insertMessage(n, messages[n], NewUuid(n),
       [sender |-> n, latency |-> 0, creationTime |-> time, outgoing |-> TRUE])
  /\ nextMessageId' = [nextMessageId EXCEPT ![n] = @ + 1]
  /\ NextIteration("create", n, "push")
  /\ UNCHANGED <<time, near, temp_messages>>

\* The draw is not below it.
SkipCreation(n) ==
  /\ At("create", n) /\ time < T
  /\ NextIteration("create", n, "push")
  /\ UNCHANGED <<time, near, node>>

\* pushMessagesTo and, in the receiver, assignTempMessages.
pushMessagesTo(n, that) ==
  /\ temp_messages' = [temp_messages EXCEPT ![that] = @ \cup PushList(n)]
  /\ NextIteration("push", n, "merge")
  /\ UNCHANGED <<time, near, messages, message_map, nextMessageId>>

\* Node n pushes to everybody in range.
FaultyPushToNeighbour(n) ==
  /\ At("push", n)
  /\ temp_messages' = [m \in Node |->
        IF m \in near[n] THEN temp_messages[m] \cup PushList(n) ELSE temp_messages[m]]
  /\ NextIteration("push", n, "merge")
  /\ UNCHANGED <<time, near, messages, message_map, nextMessageId>>

\* Node n draws one of the nodes in range and pushes to it.
PushToNeighbour(n) ==
  /\ At("push", n)
  /\ \E that \in near[n] : pushMessagesTo(n, that)

\* Nobody is in range.
NoPotentials(n) ==
  /\ At("push", n)
  /\ near[n] = {}
  /\ NextIteration("push", n, "merge")
  /\ UNCHANGED <<time, near, node>>

\* The draw is 1.0f: potentials[potentials.size()] is read.  What the word past
\* the last element holds is undefined: a node left over from an earlier
\* vector, or no node at all and the program crashes.
PushPastTheEnd(n) ==
  /\ At("push", n) /\ RoundedDraw
  /\ near[n] # {}
  /\ \/ \E that \in Node : pushMessagesTo(n, that)
     \/ phase' = "crashed" /\ UNCHANGED <<i, time, near, node>>

\* The operands of the latency are swapped.
FaultyReceiveMessage(n) ==
  /\ At("merge", n)
  /\ Cardinality(temp_messages[n]) > 1
  /\ \E msg \in temp_messages[n] :
       /\ insertMessage(n, WithoutUuid(n, msg.uuid), msg.uuid,
            [sender |-> msg.sender, latency |-> msg.creationTime - time,
             creationTime |-> msg.creationTime, outgoing |-> FALSE])
       /\ temp_messages' = [temp_messages EXCEPT ![n] = @ \ {msg}]
  /\ UNCHANGED <<phase, i, time, near, nextMessageId>>

\* One ReceiveMessage of mergeMessages' loop; random_shuffle makes any of the
\* pushed messages the next one.  The loop stops before the last of them.
ReceiveMessage(n) ==
  /\ At("merge", n)
  /\ Cardinality(temp_messages[n]) > 1
  /\ \E msg \in temp_messages[n] :
       /\ insertMessage(n, WithoutUuid(n, msg.uuid), msg.uuid,
            [sender |-> msg.sender, latency |-> time - msg.creationTime,
             creationTime |-> msg.creationTime, outgoing |-> FALSE])
       /\ temp_messages' = [temp_messages EXCEPT ![n] = @ \ {msg}]
  /\ UNCHANGED <<phase, i, time, near, nextMessageId>>

\* temp_messages is not deleted.
FaultyEndMerge(n) ==
  /\ At("merge", n)
  /\ Cardinality(temp_messages[n]) <= 1
  /\ NextIteration("merge", n, "move")
  /\ UNCHANGED <<time, near, node>>

\* mergeMessages deletes temp_messages, with the message it still holds.
EndMerge(n) ==
  /\ At("merge", n)
  /\ Cardinality(temp_messages[n]) <= 1
  /\ temp_messages' = [temp_messages EXCEPT ![n] = {}]
  /\ NextIteration("merge", n, "move")
  /\ UNCHANGED <<time, near, messages, message_map, nextMessageId>>

\* The nodes think and move (any new neighbourhood), then upTime.
Move ==
  /\ phase = "move"
  /\ near' \in Topologies
  /\ time' = time + 1
  /\ phase' = "create"
  /\ UNCHANGED <<i, node>>

-----------------------------------------------------------------------------
\* MessageModel::setup and the nodes' constructors.
Init ==
  /\ phase = "create" /\ i = 0
  /\ time = 0
  /\ near \in Topologies
  /\ messages = [n \in Node |-> <<>>]
  /\ message_map = [n \in Node |-> [u \in {} |-> 0]]
  /\ temp_messages = [n \in Node |-> {}]
  /\ nextMessageId = [n \in Node |-> 0]

CreateLoop(n) == createNewMessage(n) \/ SkipCreation(n)
PushLoop(n) == PushToNeighbour(n) \/ NoPotentials(n) \/ PushPastTheEnd(n)
MergeLoop(n) == ReceiveMessage(n) \/ EndMerge(n)

Next ==
  \/ \E n \in Node : CreateLoop(n) \/ PushLoop(n) \/ MergeLoop(n)
  \/ Move

\* The single thread keeps running.
Spec == Init /\ [][Next]_vars /\ WF_vars(Next)

-----------------------------------------------------------------------------
(* Properties                                                              *)

\* Every variable has its type.
TypeOK ==
  /\ phase \in Phase
  /\ i \in Node
  /\ time \in Nat
  /\ near \in [Node -> SUBSET Node]
  /\ messages \in [Node -> Seq(Uuid)]
  /\ DOMAIN message_map = Node
  /\ \A n \in Node : /\ DOMAIN message_map[n] \subseteq Uuid
                     /\ message_map[n] \in [DOMAIN message_map[n] -> MessageData]
  /\ temp_messages \in [Node -> SUBSET Pushed]
  /\ nextMessageId \in [Node -> 0..MaxCreated]

\* The list and the map of a node hold the same uuids, each once in the list:
\* pushMessagesTo dereferences message_map[uuid] for every uuid of the list
\* without a test, however often a message came back and was moved.
ListMatchesMap ==
  \A n \in Node : /\ IsInjective(messages[n])
                  /\ ToSet(messages[n]) = DOMAIN message_map[n]

\* What a node holds was really sent: the sender named by an entry minted that
\* uuid, still holds its own record of it with the same creation time, and an
\* entry is marked outgoing exactly at its sender, even after the message has
\* come back to it (numReceivedMessages and the recorder rely on the mark).
Minted(n, u) ==
  LET e == message_map[n][u]
      s == e.sender
  IN  /\ \E k \in 0 .. nextMessageId[s] - 1 : u = s * MAX_MESSAGES + k
      /\ hasReceivedMessage(s, u)
      /\ message_map[s][u].sender = s
      /\ message_map[s][u].creationTime = e.creationTime
      /\ e.outgoing <=> n = s
MintedByItsSender ==
  \A n \in Node : \A u \in DOMAIN message_map[n] : Minted(n, u)

\* A message in flight is one its pusher holds, as it was told of it: no push
\* passes on a message its node has not merged, or alters sender or creation time.
PushedIsHeld ==
  \A n \in Node : \A m \in temp_messages[n] :
    /\ hasReceivedMessage(m.from, m.uuid)
    /\ m.sender = message_map[m.from][m.uuid].sender
    /\ m.creationTime = message_map[m.from][m.uuid].creationTime

\* The latency the recorder writes is the age of the message when it first
\* arrived: never negative, and never an arrival that has not happened yet.
LatencyInThePast ==
  \A n \in Node : \A u \in DOMAIN message_map[n] :
    LET e == message_map[n][u]
    IN  /\ e.latency >= 0
        /\ e.creationTime + e.latency <= time
        /\ e.outgoing => e.latency = 0

\* A node pushes to one other node per timestep and what is pushed is merged
\* only after every push, so the holders of a message at most double in a
\* timestep: the exchange of one timestep cannot chain over several hops.
HoldersAtMostDouble ==
  \A s \in Node : \A u \in DOMAIN message_map[s] :
    LET age     == time - message_map[s][u].creationTime
        rounds  == IF phase \in {"merge", "move"} THEN age + 1 ELSE age
        holders == {n \in Node : hasReceivedMessage(n, u)}
    IN  Cardinality(holders) <= 2^rounds

\* During the push loop, what one node has pushed obeys the rules pushMessagesTo
\* states: an adversary pushes adversaries' messages only, a collaborator any;
\* the exchange is filled up to msg_exchange_num as long as there is something
\* to send; and nothing left out is preferable to something sent: with
\* friendships in use a friend's message to a stranger's, then the newer one.
MayPush(n) ==
  {u \in DOMAIN message_map[n] :
     getType(n) = "ADVERSARY" => getType(message_map[n][u].sender) = "ADVERSARY"}
Preferable(n, u, v) ==
  LET stranger(w) == getType(message_map[n][w].sender) # getType(n)
      pos(w)      == CHOOSE k \in DOMAIN messages[n] : messages[n][k] = w
  IN  IF use_friendships /\ (stranger(u) # stranger(v))
      THEN stranger(v)
      ELSE pos(u) > pos(v)
PushPolicy ==
  phase = "push" =>
    \A n \in Node :
      LET sent == {m.uuid : m \in {m \in UNION {temp_messages[r] : r \in Node} : m.from = n}}
      IN  sent # {} =>
            /\ sent \subseteq MayPush(n)
            /\ Cardinality(sent) = Min({msg_exchange_num, Cardinality(MayPush(n))})
            /\ \A u \in sent, v \in MayPush(n) \ sent : Preferable(n, u, v)

\* Nothing pushed in one timestep is still in flight in the next: a node whose
\* merge is over, and every node outside the push and merge loops, has no
\* temp_messages (a leftover would be merged with a wrong latency).
NothingInFlightLater ==
  \A n \in Node :
    phase \in {"create", "move"} \/ (phase = "merge" /\ n < i) => temp_messages[n] = {}

\* An entry of message_map never changes: a message received again moves to
\* the newest place of the list and keeps its first sender, latency and
\* outgoing mark, and no entry is ever dropped.
FirstReceiptKept ==
  [][\A n \in Node : \A u \in DOMAIN message_map[n] :
       u \in DOMAIN message_map'[n] /\ message_map'[n][u] = message_map[n][u]]_vars

\* The inductive invariant: what the safety invariants in it need of each
\* other and of the messages in flight to hold in the next state.
IInv ==
  /\ TypeOK
  /\ ListMatchesMap
  /\ MintedByItsSender
  /\ PushedIsHeld
  /\ LatencyInThePast

\* Unless the draw can come out as 1.0f, the exchange implements the abstract
\* gossip: what a node can hand on in a timestep, to the nodes in range, is
\* what it created, and what it received in an earlier timestep.
Known == [n \in Node |-> DOMAIN message_map[n]]
Offered ==
  [n \in Node |-> {u \in DOMAIN message_map[n] :
                     LET e == message_map[n][u]
                     IN  e.outgoing \/ e.creationTime + e.latency < time}]
G == INSTANCE Gossip WITH known <- Known, offered <- Offered
OneHopPerTimestep == G!Spec

\* Every run gets to its last timestep, unless it read past the end of potentials.
ReachesT == <>(time = T \/ phase = "crashed")

\* The comment in pushMessagesTo (MessageNode.cpp:147): the messages are assigned
\* "to receive at the end of the timestep".  Every message pushed to a node is
\* one it holds once its merge is over.
PushedIsReceived ==
  [][\A n \in Node : EndMerge(n) =>
       \A msg \in temp_messages[n] : msg.uuid \in DOMAIN message_map'[n]]_vars

\* The comment in think (MessageModel.cpp:139): the receiver is "selected randomly
\* from those within range".
PushedWithinRange ==
  phase = "push" => \A n \in Node : \A msg \in temp_messages[n] : n \in near[msg.from]
=============================================================================
