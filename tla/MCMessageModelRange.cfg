\* Is the receiver within range when the draw may come out as 1.0f?
CONSTANTS
  numNodes = 3
  num_adversaries = 1
  msg_exchange_num = 2
  use_friendships = TRUE
  MAX_MESSAGES = 2
  Creators <- BothTypes
  RoundedDraw = TRUE
  T = 2
  MaxCreated = 1
SPECIFICATION Spec
INVARIANT PushedWithinRange
CHECK_DEADLOCK FALSE
