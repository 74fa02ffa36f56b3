------------------------------ MODULE Mobility ------------------------------
(***************************************************************************)
(* How the nodes of momosecpp move: one timestep is AiManager::animateAI   *)
(* (the thinking models, then every node's think, in order) followed by    *)
(* PhysicEngine::animatePhysic (every node is moved, in order, against the *)
(* obstacles where they are by then).  One of the movement models is       *)
(* configured; the message exchange of the message models is module        *)
(* MessageModel and does not move a node.                                  *)
(*                                                                         *)
(* Data: lengths in millimetres, dt is one second, times are counted in    *)
(* steps, a draw of rand() is one of the two ends of its range.            *)
(*                                                                         *)
(* A definition whose name starts with Faulty is a plausible mistake in    *)
(* the definition that follows it.                                         *)
(***************************************************************************)
EXTENDS Obstacle, FiniteSets, SequencesExt

CONSTANTS
  Models,        \* the movement models one of which is configured
  NumNodes,      \* configured number of nodes, by model
  GroupSize,     \* nodes per row of RandomWalkModel (30 in the code)
  Radius,        \* node radius, by kind of node
  VMin, VMax,    \* speed bounds, by kind of node
  PauseTime,     \* pauseTime (interval, pauseInSpotTime), by kind of node
  RefMin, RefMax, RefPause, \* speed bounds and pauseTime of the reference point
  AlphaPercent,  \* weight of the way to the reference point
  Antenna,       \* antenna radius of the Era nodes
  ColorInterval, \* coloringInterval of EraModel
  Physical,      \* models whose nodes are obstacles to each other
  Width, Height, \* the scenario
  Bounded,       \* its border type is BOUNDED
  Buildings,     \* its buildings, in order
  HotSpots,      \* its hot spots: position p, first connection's end next
  Targets,       \* the points a random target is drawn from
  Places,        \* the points a message node may start at
  Loops          \* bound: N, the number of timesteps, by model

None == 0   \* NULL: no hot spot

WaypointKinds == {"RandomWaypoint", "RandomWaypointMessage", "PursueTarget"}
WalkKinds     == {"RandomWalk", "RandomWalkMessage"}
FollowKinds   == {"Nomadic", "Pursue"}
Kinds         == WaypointKinds \cup WalkKinds \cup FollowKinds \cup {"HotSpot", "Era"}

ASSUME MobilityAssumption ==
  /\ Models \subseteq Kinds \ {"PursueTarget"}
  /\ NumNodes \in [Models -> Nat \ {0}] /\ Loops \in [Models -> Nat]
  /\ GroupSize \in Nat \ {0}
  /\ \A f \in {Radius, VMin, VMax, PauseTime} : f \in [Kinds -> Nat]
  /\ RefMin \in Nat /\ RefMax \in Nat /\ RefPause \in Nat /\ AlphaPercent \in 0 .. 100
  /\ Bounded \in BOOLEAN
  /\ Width \in Nat /\ Height \in Nat
  /\ Antenna \in Nat /\ ColorInterval \in Nat
  /\ Buildings \in Seq([shape : {"rect", "circle"}, p : Int \X Int,
                        w : Nat, h : Nat, r : Nat])
  /\ Targets \subseteq (0 .. Width) \X (0 .. Height)
  /\ Places \subseteq (0 .. Width) \X (0 .. Height)
  /\ HotSpots \in Seq([p : Int \X Int, next : Nat])
  /\ \A h \in 1 .. Len(HotSpots) : HotSpots[h].next \in 0 .. Len(HotSpots)

VARIABLES
  model,      \* the configured model
  nodes,      \* its nodes, in order
  reference,  \* the reference point of Nomadic and Era, and its own walk
  phase,      \* "models", "think" or "move"
  turn,       \* the node whose turn it is
  loop        \* SimTime: the timestep

vars == <<model, nodes, reference, phase, turn, loop>>

-----------------------------------------------------------------------------
(* Setup                                                                   *)

NewNode(kind, p) ==
  [kind |-> kind, pos |-> p, v |-> Zero, collided |-> FALSE, pause |-> TRUE,
   localTime |-> 0, target |-> Zero, spot |-> None, type |-> 1]

FaultyDiagonal(kind) ==
  [k \in 1 .. NumNodes[kind] |->
     NewNode(kind, <<1000 * (14 + k), 1000 * (4 + k)>>)]

\* The models that place their nodes along a diagonal from (5, 5).
Diagonal(kind) ==
  [k \in 1 .. NumNodes[kind] |->
     NewNode(kind, <<1000 * (4 + k), 1000 * (4 + k)>>)]

\* Whole rows of nodes from (25, 25), at least one row, whatever numNodes is.
Rows ==
  LET full == NumNodes["RandomWalk"] \div GroupSize
      rows == IF full = 0 THEN 1 ELSE full
  IN  [k \in 1 .. rows * GroupSize |->
         NewNode("RandomWalk", <<1000 * (((k - 1) % GroupSize) + 25),
                                 1000 * (((k - 1) \div GroupSize) + 25)>>)]

SetupNodes(m) ==
  IF m = "RandomWalk" THEN {Rows}
  ELSE IF m = "Pursue"
  THEN {<<NewNode("PursueTarget", <<15000, 10000>>)>> \o Diagonal("Pursue")}
  ELSE IF m \in {"RandomWalkMessage", "RandomWaypointMessage"}
  THEN {[k \in 1 .. NumNodes[m] |-> NewNode(m, f[k])] : f \in [1 .. NumNodes[m] -> Places]}
  ELSE {Diagonal(m)}

\* The bounding box b, grown to a node at p.  The code compares y with xMin to
\* lower yMin.
Grow(b, p) ==
  LET xMin == IF p[1] < b.xMin THEN p[1] ELSE b.xMin
  IN  [xMin |-> xMin,
       xMax |-> IF p[1] > b.xMax THEN p[1] ELSE b.xMax,
       yMin |-> IF p[2] < xMin THEN p[2] ELSE b.yMin,
       yMax |-> IF p[2] > b.yMax THEN p[2] ELSE b.yMax]

MiddlePoint(ns) ==
  LET first == ns[1].pos
      Box[k \in 0 .. Len(ns)] ==
        IF k = 0 THEN [xMin |-> first[1], xMax |-> first[1],
                       yMin |-> first[2], yMax |-> first[2]]
        ELSE Grow(Box[k - 1], ns[k].pos)
      box == Box[Len(ns)]
  IN  <<(box.xMin + box.xMax) \div 2, (box.yMin + box.yMax) \div 2>>

-----------------------------------------------------------------------------
(* The roles of the Era nodes                                              *)

IsVisible(ns, j, k) == Near(ns[j].pos, ns[k].pos, Antenna)

\* Node k joins the set I of the nodes taken so far, unless one of them sees it.
Take(ns, S, I, k) ==
  IF k \in S /\ \A j \in I : ~IsVisible(ns, j, k) THEN I \cup {k} ELSE I

\* The nodes of S, in order, that no node taken before sees.
GenerateIndMaximalSet(ns, S) ==
  LET Taken[k \in 0 .. Len(ns)] ==
        IF k = 0 THEN {} ELSE Take(ns, S, Taken[k - 1], k)
  IN  Taken[Len(ns)]

IsIndMaximal(ns, S) ==
  S # {} /\ \A j, k \in S : j # k => ~IsVisible(ns, j, k)

FaultyRoleAssignament(ns) ==
  LET I  == GenerateIndMaximalSet(ns, 1 .. Len(ns))
      I1 == IF IsIndMaximal(ns, (1 .. Len(ns)) \ I) THEN {}
            ELSE GenerateIndMaximalSet(ns, 1 .. Len(ns))
  IN  [k \in 1 .. Len(ns) |->
         [ns[k] EXCEPT !.type = IF k \in I THEN 1 ELSE IF k \in I1 THEN 2 ELSE 3]]

RoleAssignament(ns) ==
  LET I  == GenerateIndMaximalSet(ns, 1 .. Len(ns))
      V  == (1 .. Len(ns)) \ I
      I1 == IF IsIndMaximal(ns, V) THEN {} ELSE GenerateIndMaximalSet(ns, V)
  IN  [k \in 1 .. Len(ns) |->
         [ns[k] EXCEPT !.type = IF k \in I THEN 1 ELSE IF k \in I1 THEN 2 ELSE 3]]

Init ==
  /\ model \in Models
  /\ \E ns \in SetupNodes(model) :
       /\ nodes = IF model = "Era" THEN RoleAssignament(ns) ELSE ns
       /\ reference = [pos |-> IF model \in {"Era", "Nomadic"}
                               THEN MiddlePoint(ns) ELSE Zero,
                       target |-> Zero, pause |-> TRUE, localTime |-> 0,
                       colorTime |-> 0]
  /\ phase = "models"
  /\ turn = 1
  /\ loop = 0

-----------------------------------------------------------------------------
(* The models think                                                        *)

Draws(min, max) == {min, max}

\* One step of length s towards the target, which is not overrun.
Step(p, target, s) ==
  LET to == Minus(target, p)
  IN  IF Near(target, p, s) THEN to ELSE Along(to, s)

\* The reference point comes to rest within one metre of its target.
RefMoves(r) ==
  {LET p == Plus(r.pos, Step(r.pos, r.target, s))
       arrived == Near(p, r.target, 1000)
   IN  [r EXCEPT !.pos = p,
                 !.pause = @ \/ arrived,
                 !.localTime = (IF arrived THEN 0 ELSE @) + 1]
     : s \in Draws(RefMin, RefMax)}

MoveReferencePoint(r) ==
  IF ~r.pause THEN RefMoves(r)
  ELSE IF r.localTime > RefPause
  THEN UNION {RefMoves([r EXCEPT !.pause = FALSE, !.target = t]) : t \in Targets}
  ELSE {[r EXCEPT !.localTime = @ + 1]}

\* EraModel::think: colouring, then the reference point.
EraThink ==
  LET due == reference.colorTime > ColorInterval
  IN  /\ nodes' = IF due THEN RoleAssignament(nodes) ELSE nodes
      /\ reference' \in MoveReferencePoint(
           [reference EXCEPT !.colorTime = (IF due THEN 0 ELSE @) + 1])

NomadicThink ==
  /\ reference' \in MoveReferencePoint(reference)
  /\ UNCHANGED nodes

\* Only EraModel and NomadicModel are thinkers here.
ThinkModels ==
  /\ phase = "models" /\ loop < Loops[model]
  /\ phase' = "think"
  /\ \/ model = "Era" /\ EraThink
     \/ model = "Nomadic" /\ NomadicThink
     \/ model \notin {"Era", "Nomadic"} /\ UNCHANGED <<nodes, reference>>
  /\ UNCHANGED <<model, turn, loop>>

-----------------------------------------------------------------------------
(* A node thinks.  The actions are the branches of the think methods; the  *)
(* nodes of several classes share them.                                    *)

Behaviour(n) ==
  CASE n.kind \in WaypointKinds -> "waypoint"
    [] n.kind = "HotSpot" \/ (n.kind = "Era" /\ n.type = 3) -> "spots"
    [] n.kind \in WalkKinds \/ (n.kind = "Era" /\ n.type = 2) -> "walk"
    [] OTHER -> "follow"

SpeedRange(n) ==
  IF n.kind = "RandomWalkMessage" THEN Draws(0, VMax[n.kind] + VMin[n.kind])
                                  ELSE Draws(VMin[n.kind], VMax[n.kind])

Signed(S) == S \cup {-s : s \in S}

\* A speed and a sign for each axis.
RandomVector(n) == Signed(SpeedRange(n)) \X Signed(SpeedRange(n))

FaultyNextTurn(next) ==
  IF turn <= Len(nodes)
  THEN turn' = turn + 1 /\ UNCHANGED phase
  ELSE turn' = 1 /\ phase' = next

NextTurn(next) ==
  IF turn < Len(nodes)
  THEN turn' = turn + 1 /\ UNCHANGED phase
  ELSE turn' = 1 /\ phase' = next

\* The node whose turn it is becomes n, whose local time then advances.
Thinks(n) ==
  /\ nodes' = [nodes EXCEPT ![turn] = [n EXCEPT !.localTime =
                 IF n.kind \in FollowKinds THEN @ ELSE @ + 1]]
  /\ NextTurn("move")
  /\ UNCHANGED <<model, reference, loop>>

Thinking(behaviours) ==
  phase = "think" /\ Behaviour(nodes[turn]) \in behaviours

\* resolveCollision: a pausing node moves too.
Bounce ==
  LET n == nodes[turn]
  IN  /\ Thinking({"waypoint", "spots", "follow"})
      /\ n.collided
      /\ \E u \in RandomVector(n) : Thinks([n EXCEPT !.v = u])

\* randomMove (randomWalk of an Era node, which waits one step longer).
NewHeading ==
  LET n == nodes[turn]
      due == IF n.kind = "Era" THEN n.localTime > PauseTime[n.kind]
                               ELSE n.localTime >= PauseTime[n.kind]
  IN  /\ Thinking({"walk"})
      /\ due \/ n.collided
      /\ \E u \in RandomVector(n) : Thinks([n EXCEPT !.v = u, !.localTime = 0])

KeepHeading ==
  LET n == nodes[turn]
      due == IF n.kind = "Era" THEN n.localTime > PauseTime[n.kind]
                               ELSE n.localTime >= PauseTime[n.kind]
  IN  /\ Thinking({"walk"})
      /\ ~due /\ ~n.collided
      /\ Thinks(n)

\* A share of the speed along the way to the reference, the rest at random:
\* the random vector is not a unit vector.
Follow ==
  LET n   == nodes[turn]
      ref == IF model = "Pursue" THEN nodes[1].pos ELSE reference.pos
      Blend(s, u, axis) ==
        Rounded(AlphaPercent * Along(Minus(ref, n.pos), s)[axis]
                  + (100 - AlphaPercent) * Rounded(s * u[axis], 1000), 100)
  IN  /\ Thinking({"follow"})
      /\ ~n.collided
      /\ \E s \in SpeedRange(n), u \in RandomVector(n) :
           Thinks([n EXCEPT !.v = <<Blend(s, u, 1), Blend(s, u, 2)>>])

\* moveToTarget: the step is taken later, by the physics; a node whose step
\* would end within its radius of the target already counts as arrived.
MoveToTarget(n, target) ==
  {LET v == Step(n.pos, target, s)
       arrived == Near(Plus(n.pos, v), target, Radius[n.kind])
   IN  [n EXCEPT !.v = v,
                 !.pause = @ \/ arrived,
                 !.localTime = IF arrived THEN 0 ELSE @]
     : s \in SpeedRange(n)}

\* The first of the hot spots nearest to p.
NearestSpot(p) ==
  LET Dist(h) == LET d == Minus(HotSpots[h].p, p) IN Dot(d, d)
  IN  {h \in 1 .. Len(HotSpots) : \A g \in 1 .. Len(HotSpots) :
         Dist(h) < Dist(g) \/ (Dist(h) = Dist(g) /\ h <= g)}

\* The spot to go to, if there is one.
NextSpot(n) ==
  IF n.spot = None THEN NearestSpot(n.pos) ELSE {HotSpots[n.spot].next} \ {None}

Rest ==
  LET n == nodes[turn]
  IN  /\ Thinking({"waypoint", "spots"})
      /\ ~n.collided
      /\ n.pause /\ n.localTime < PauseTime[n.kind]
      /\ Thinks([n EXCEPT !.v = Zero])

PauseOver(n) == ~n.collided /\ n.pause /\ n.localTime >= PauseTime[n.kind]

SetOff ==
  LET n == nodes[turn]
  IN  /\ Thinking({"waypoint"})
      /\ PauseOver(n)
      /\ \E t \in Targets :
           \E m \in MoveToTarget([n EXCEPT !.pause = FALSE, !.target = t], t) :
             Thinks(m)

SetOffToSpot ==
  LET n == nodes[turn]
  IN  /\ Thinking({"spots"})
      /\ PauseOver(n)
      /\ \E next \in NextSpot(n) :
           \E m \in MoveToTarget([n EXCEPT !.pause = FALSE, !.spot = next],
                                  HotSpots[next].p) : Thinks(m)

FaultyDeadEnd ==
  LET n == nodes[turn]
  IN  /\ Thinking({"spots"})
      /\ PauseOver(n) /\ NextSpot(n) = {}
      /\ Thinks([n EXCEPT !.spot = None, !.pause = FALSE])

\* No hot spot to go to: the node pauses again, with the velocity it has.
DeadEnd ==
  LET n == nodes[turn]
  IN  /\ Thinking({"spots"})
      /\ PauseOver(n) /\ NextSpot(n) = {}
      /\ Thinks([n EXCEPT !.spot = None])

UnderWay(n) == ~n.collided /\ ~n.pause

Walk ==
  LET n == nodes[turn]
  IN  /\ Thinking({"waypoint"})
      /\ UnderWay(n)
      /\ \E m \in MoveToTarget(n, n.target) : Thinks(m)

\* targetSpot is dereferenced without a test.
WalkToSpot ==
  LET n == nodes[turn]
  IN  /\ Thinking({"spots"})
      /\ UnderWay(n)
      /\ \E m \in MoveToTarget(n, HotSpots[n.spot].p) : Thinks(m)

-----------------------------------------------------------------------------
(* The physics                                                             *)

\* setBorder: each wall is two metres thick and covers one corner.
Walls ==
  <<Rect(<<0, -2000>>, Width + 2000, 2000),
    Rect(<<Width, 0>>, 2000, Height + 2000),
    Rect(<<-2000, Height>>, Width + 2000, 2000),
    Rect(<<-2000, -2000>>, 2000, Height + 2000)>>

OtherNodes(ns, i) ==
  LET Disc(k) == NodeDisc(ns[k].pos, Radius[ns[k].kind])
  IN  [k \in 1 .. i - 1 |-> Disc(k)] \o [k \in 1 .. Len(ns) - i |-> Disc(i + k)]

\* physicalObjs but the node itself.
Objects(ns, i) ==
  (IF model \in Physical THEN OtherNodes(ns, i) ELSE <<>>)
    \o Buildings \o (IF Bounded THEN Walls ELSE <<>>)

\* collisionDetection: the part of its velocity the node travels.
Collide(n, objects) ==
  LET Hit[k \in 0 .. Len(objects)] ==
        IF k = 0 THEN [pos |-> n.pos, t |-> 101]
        ELSE Meet(Hit[k - 1], objects[k], n.v, Radius[n.kind])
      m == Hit[Len(objects)]
      part == IF m.t = 101 THEN 100 ELSE IF m.t > 1 THEN m.t - 1 ELSE 0
  IN  [n EXCEPT !.pos = Moved(m.pos, n.v, part), !.collided = m.t <= 100]

\* A millimetre away from the upper and the left border, no further.
BorderCollision(n) ==
  LET Nudged(x) == IF x <= Radius[n.kind] THEN x + 1 ELSE x
  IN  IF Bounded THEN [n EXCEPT !.pos = <<Nudged(@[1]), Nudged(@[2])>>] ELSE n

MoveNode ==
  /\ phase = "move"
  /\ nodes' = [nodes EXCEPT ![turn] =
                 BorderCollision(Collide(@, Objects(nodes, turn)))]
  /\ NextTurn("models")
  /\ loop' = IF turn = Len(nodes) THEN loop + 1 ELSE loop
  /\ UNCHANGED <<model, reference>>

Next ==
  \/ ThinkModels
  \/ Bounce \/ NewHeading \/ KeepHeading \/ Follow
  \/ Rest \/ SetOff \/ SetOffToSpot \/ DeadEnd \/ Walk \/ WalkToSpot
  \/ MoveNode

Spec == Init /\ [][Next]_vars

-----------------------------------------------------------------------------
(* Properties                                                              *)

\* Every variable has its type, and the number of nodes never changes.
TypeOK ==
  /\ model \in Models
  /\ phase \in {"models", "think", "move"}
  /\ loop \in 0 .. Loops[model]
  /\ turn \in DOMAIN nodes
  /\ \A i \in DOMAIN nodes :
       /\ nodes[i].kind \in Kinds
       /\ nodes[i].pause \in BOOLEAN /\ nodes[i].collided \in BOOLEAN
       /\ nodes[i].type \in 1 .. 3
       /\ nodes[i].spot \in 0 .. Len(HotSpots)

\* HotSpotNode and EraNode dereference targetSpot without a test whenever they
\* are under way: whatever bounces, dead ends and changes of role (an Era node
\* may lose and regain the hot spot role in the middle of a way) come before,
\* a node that does not pause has a hot spot to go to.
SpotKnown ==
  \A i \in DOMAIN nodes :
    nodes[i].kind \in {"HotSpot", "Era"} /\ ~nodes[i].pause => nodes[i].spot # None

Touching(ns, i) ==
  \E k \in DOMAIN Objects(ns, i) :
    NodeOverlap(Objects(ns, i)[k], ns[i].pos, Radius[ns[i].kind])

\* The way from p to q, in tenths.
Way(p, q) == {Plus(p, <<(k * (q[1] - p[1])) \div 10, (k * (q[2] - p[2])) \div 10>>)
                : k \in 0 .. 10}

\* The node i, if it touches nothing when its move starts, passes through nothing.
MovesClear(i) ==
  phase = "move" /\ turn = i /\ ~Touching(nodes, i) =>
    \A k \in DOMAIN Objects(nodes, i) :
      \A p \in Way(nodes[i].pos, nodes'[i].pos) :
        ~PointInside(Objects(nodes, i)[k], p)

\* However fast it is and however many obstacles lie ahead, a node that touches
\* nothing when its move starts does not pass through a building, a wall or, in
\* a physical model, another node (collisionDetection takes the nearest of the
\* contacts).
NoTunnelling == [][\A i \in DOMAIN nodes : MovesClear(i)]_vars

Inside(p) == p[1] \in 0 .. Width /\ p[2] \in 0 .. Height

\* Neither a node, pushed by walls, buildings and the border, nor the reference
\* point leaves a bounded scenario, wherever in it the node is created, inside a
\* building too.  (In a gap between a building and a wall that is narrower than a
\* push, the building pushes the node into the wall: the scenarios checked have no
\* such gap.)
InScenario ==
  Bounded => Inside(reference.pos) /\ \A i \in DOMAIN nodes : Inside(nodes[i].pos)

\* The building b keeps that far away from the border, and a rectangle has a
\* metre behind it, where it pushes the nodes inside it.
Apart(b, away) ==
  /\ away <= b.p[1] - b.r /\ b.p[1] + b.w + b.r <= Width - away
  /\ away <= b.p[2] - b.r /\ b.p[2] + b.h + b.r <= Height - away
  /\ b.shape = "rect" => b.p[2] + b.h <= Height - DefaultVector[2]

\* What InScenario needs of the parameters: the nodes start inside, none is
\* smaller than Clearance (the dialogs' least radius) or faster than M, a step
\* does not cross the scenario or, in a hundredth, a wall, and no building
\* pushes a node out.  A node that follows draws its speed twice.
Roomy(M) ==
  /\ M <= 100000
  /\ \A m \in Models : \A ns \in SetupNodes(m) :
       \A i \in DOMAIN ns : Inside(ns[i].pos)
  /\ \A k \in Kinds :
       LET top  == VMin[k] + VMax[k]
           away == 2 * Radius[k] + Clearance
       IN  /\ Clearance <= Radius[k]
           /\ top <= M /\ (k \in FollowKinds \cup {"Era"} => top * top <= 1000 * M)
           /\ M + 3 * away <= Width /\ M + 3 * away <= Height
           /\ \A i \in DOMAIN Buildings : Apart(Buildings[i], away)

\* In a hundredth of a step, to which a contact is computed, no node travels half
\* of its radius, the rounding (five millimetres at most) included.
Unhurried(M) == \A k \in Kinds : M + 500 <= 50 * Radius[k]

Role(ns, r) == {k \in DOMAIN ns : ns[k].type = r}

Independent(ns, S) == \A j, k \in S : j # k => ~IsVisible(ns, j, k)

MaximalIndependent(ns, S, all) ==
  Independent(ns, S) /\ \A k \in all \ S : \E j \in S : IsVisible(ns, j, k)

RolesRight(ns) ==
  LET rest == Role(ns, 2) \cup Role(ns, 3)
  IN  /\ MaximalIndependent(ns, Role(ns, 1), DOMAIN ns)
      /\ IF Independent(ns, rest) THEN Role(ns, 2) = {}
                                  ELSE MaximalIndependent(ns, Role(ns, 2), rest)

\* When the roles have just been given, the nodes of type 1 are a maximal set
\* of nodes that do not see each other, and so are those of type 2 among the
\* rest, unless the rest do not see each other at all: then all of them go to
\* the hot spots.
RolesIndependent ==
  model = "Era" /\ phase = "think" /\ turn = 1 /\ reference.colorTime = 1 =>
    RolesRight(nodes)

Centre(ns, p) ==
  \A axis \in 1 .. 2 :
    \E i, j \in DOMAIN ns :
      /\ \A k \in DOMAIN ns : /\ ns[i].pos[axis] <= ns[k].pos[axis]
                              /\ ns[k].pos[axis] <= ns[j].pos[axis]
      /\ p[axis] = (ns[i].pos[axis] + ns[j].pos[axis]) \div 2

\* The reference point starts in the centre of the nodes' bounding box, although
\* middlePoint compares a y with xMin: the nodes start on the diagonal.
MiddleIsCentre ==
  model \in {"Era", "Nomadic"} /\ phase = "models" /\ loop = 0 =>
    Centre(nodes, reference.pos)
=============================================================================
