SPECIFICATION FairSpec
CONSTANTS
  Capacity = 7
  Prefix = 2
  Lengths = {1, 2, 4, 5}
  MaxFrames = 4
  Orders = {TRUE, FALSE}
CHECK_DEADLOCK FALSE
INVARIANTS TypeOK NeverMalformed
PROPERTIES ImplementsFifo AllDelivered
