\* Three nodes, one adversary, friendships in use, three timesteps.
CONSTANTS
  numNodes = 3
  num_adversaries = 1
  msg_exchange_num = 2
  use_friendships = TRUE
  MAX_MESSAGES = 2
  Creators <- BothTypes
  RoundedDraw = FALSE
  T = 3
  MaxCreated = 1
SPECIFICATION Spec
INVARIANTS TypeOK ListMatchesMap MintedByItsSender PushedIsHeld LatencyInThePast HoldersAtMostDouble PushPolicy NothingInFlightLater
PROPERTIES FirstReceiptKept OneHopPerTimestep ReachesT
CHECK_DEADLOCK FALSE
