\* The movement models in a scenario with walls, three buildings and two hot spots.
SPECIFICATION Spec
CONSTANTS
  Models = {"RandomWalk", "RandomWalkMessage", "RandomWaypoint",
            "RandomWaypointMessage", "HotSpot", "Nomadic", "Pursue", "Era"}
  NumNodes <- MCNumNodes
  GroupSize = 2
  Radius <- MCRadius
  VMin <- MCVMin
  VMax <- MCVMax
  PauseTime <- MCPauseTime
  RefMin = 3000
  RefMax = 3000
  RefPause = 0
  AlphaPercent = 70
  Antenna = 3000
  ColorInterval = 1
  Physical = {"Era", "HotSpot", "Pursue", "RandomWalk"}
  Width = 30000
  Height = 28000
  Bounded = TRUE
  Buildings <- MCBuildings
  HotSpots <- MCHotSpots
  Targets <- MCTargets
  Places <- MCPlaces
  Loops <- MCLoops
INVARIANTS TypeOK SpotKnown InScenario RolesIndependent MiddleIsCentre
PROPERTY NoTunnelling
CHECK_DEADLOCK FALSE
