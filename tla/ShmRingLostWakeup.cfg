SPECIFICATION FairSpec
CONSTANTS
  Capacity = 7
  Prefix = 2
  Lengths = {1, 2, 4, 5}
  MaxFrames = 3
  Orders = {TRUE}
CHECK_DEADLOCK FALSE
INVARIANTS NoLostWakeup
