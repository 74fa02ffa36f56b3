\* The draw of the receiver may come out as 1.0f; friendships not in use.
CONSTANTS
  numNodes = 3
  num_adversaries = 1
  msg_exchange_num = 1
  use_friendships = FALSE
  MAX_MESSAGES = 2
  Creators <- BothTypes
  RoundedDraw = TRUE
  T = 2
  MaxCreated = 1
SPECIFICATION Spec
INVARIANTS ListMatchesMap PushPolicy
CHECK_DEADLOCK FALSE
