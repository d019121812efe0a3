SPECIFICATION Spec
CONSTANTS
  n1 = n1  bad = bad  e1 = e1  t1 = t1  none = none
  Names <- MCNames
  BadName = bad
  HandleMod = 2
  AnyInst = 0
  NoService = none
  TopicSize <- MCTopicSize
  MaxTopics = 1
  MaxSubsPerConn = 1
  MaxSubsGlobal = 2
  MaxSubsPerTopic = 2
  MaxPubsPerConn = 1
  MaxPubsPerService = 1
  MaxPubBytes = 1
  Insts = {1, 2}
  Endpoints = {e1}
  Fds = {3, 4, 5}
  Topics = {t1}
  WatchIds = {1}
  Workloads <- OneWatch
INVARIANT NoUseAfterDelete
