----------------------------- MODULE MCMobility -----------------------------
EXTENDS Mobility

\* Lengths in millimetres, one value for each kind of node.
MCRadius    == [k \in Kinds |-> IF k = "PursueTarget" THEN 800 ELSE 500]
MCVMin      == [k \in Kinds |-> IF k \in FollowKinds \cup {"Era"} THEN 1500 ELSE 4000]
MCVMax      == [k \in Kinds |-> IF k \in FollowKinds \cup {"Era"} THEN 1500 ELSE 4000]
MCPauseTime == [k \in Kinds |-> IF k = "PursueTarget" THEN 0 ELSE 2]

MCNumNodes  == [m \in Models |->
                  CASE m \in {"HotSpot", "RandomWalk", "RandomWaypoint", "Era"} -> 3
                    [] m = "Pursue" -> 1
                    [] OTHER        -> 2]
MCLoops     == [m \in Models |->
                  CASE m \in {"HotSpot", "RandomWaypointMessage"} -> 8
                    [] m \in {"RandomWalk", "RandomWaypoint"}     -> 5
                    [] m \in {"Era", "RandomWalkMessage", "Pursue"} -> 4
                    [] OTHER                                      -> 3]

MCBuildings ==
  <<Rect(<<9000, 4000>>, 1000, 4000), Circle(<<4000, 9000>>, 1000),
    Rect(<<9000, 10000>>, 3000, 1000)>>

MCHotSpots ==
  <<[p |-> <<7000, 11000>>, next |-> 2], [p |-> <<2000, 6000>>, next |-> 0]>>

MCTargets == {<<1000, 1000>>, <<16000, 6000>>}
\* Two corners, a gap between two buildings and a point inside a building.
MCPlaces  == {<<200, 27800>>, <<29900, 100>>, <<9300, 9600>>, <<9500, 6800>>}

\* The instance is one the theorems NeverLeaves and NeverTunnels of
\* MobilityProofs speak of.
ASSUME MCRoomy == Roomy(9000) /\ Unhurried(9000)
=============================================================================
