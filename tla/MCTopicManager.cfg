SPECIFICATION Spec
CONSTANTS
  n1 = n1
  t1 = t1
  t2 = t2
  t3 = t3
  e1 = e1
  none = none
  NoService = none
  Names <- MCNames
  Insts <- MCInsts
  Endpoints <- MCEndpoints
  Fds <- MCFds
  Topics <- MCTopics
  TopicSize <- MCTopicSize
  MaxTopics = 2
  MaxSubsPerConn = 2
  MaxSubsGlobal = 3
  MaxSubsPerTopic = 1
  MaxPubsPerConn = 2
  MaxPubsPerService = 2
  MaxPubBytes = 4
SYMMETRY Symmetry
INVARIANTS
  TypeOK
  IndicesComplete
  Counters
  
  CloseTakesOnlyItsOwn
CHECK_DEADLOCK FALSE
