SPECIFICATION FairSpec
CONSTANTS
  c1 = c1
  c2 = c2
  c3 = c3
  s1 = s1
  s2 = s2
  Callers = {c1, c2}
  Stoppers = {s1}
  MaxPolls = 1
CHECK_DEADLOCK FALSE
INVARIANTS TypeOK NoCallDropped BacklogRemembered
PROPERTIES ImplementsSerialCalls CallsReturn StopEndsStart
