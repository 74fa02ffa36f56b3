------------------------------- MODULE Gossip -------------------------------
(***************************************************************************)
(* What the message exchange of one MessageModel promises, whatever the    *)
(* push policy, the losses and the order of the merges: a message starts   *)
(* at one node, a node only learns what a node it is in range of knew      *)
(* when the timestep's exchange began, and nobody forgets.  A message      *)
(* therefore travels at most one hop per timestep.                         *)
(***************************************************************************)
EXTENDS Naturals

CONSTANTS Node,   \* the nodes of the model
          Uuid    \* the message identifiers

VARIABLES known,    \* known[n]: the messages node n has created or received
          offered,  \* offered[n]: those of them it may hand on in this timestep
          near      \* near[n]: the nodes in range of n in this timestep

vars == <<known, offered, near>>

TypeOK ==
  /\ known \in [Node -> SUBSET Uuid]
  /\ offered \in [Node -> SUBSET Uuid]
  /\ near \in [Node -> SUBSET Node]

Init ==
  /\ known = [n \in Node |-> {}]
  /\ offered = [n \in Node |-> {}]
  /\ near \in [Node -> SUBSET Node]

\* Node n creates the message u, new to everybody, before the exchange.
Originate(n, u) ==
  /\ \A m \in Node : u \notin known[m]
  /\ known' = [known EXCEPT ![n] = @ \cup {u}]
  /\ offered' = [offered EXCEPT ![n] = @ \cup {u}]
  /\ UNCHANGED near

\* Node n receives the message u from a node that offers it and has n in range.
Learn(n, u) ==
  /\ \E m \in Node : n \in near[m] /\ u \in offered[m]
  /\ known' = [known EXCEPT ![n] = @ \cup {u}]
  /\ UNCHANGED <<offered, near>>

\* The timestep ends and the nodes move: everything received can be handed on.
NextTimestep ==
  /\ offered' = known
  /\ near' \in [Node -> SUBSET Node]
  /\ UNCHANGED known

Next ==
  \/ \E n \in Node, u \in Uuid : Originate(n, u) \/ Learn(n, u)
  \/ NextTimestep

Spec == Init /\ [][Next]_vars
=============================================================================
