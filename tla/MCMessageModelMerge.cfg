\* Does a merge keep everything that was pushed?
CONSTANTS
  numNodes = 3
  num_adversaries = 1
  msg_exchange_num = 2
  use_friendships = TRUE
  MAX_MESSAGES = 2
  Creators <- BothTypes
  RoundedDraw = FALSE
  T = 2
  MaxCreated = 1
SPECIFICATION Spec
PROPERTY PushedIsReceived
CHECK_DEADLOCK FALSE
