SPECIFICATION Spec
CONSTANTS
    k1 = k1
    Services <- OneService
    MaxCalls = 2
    MaxDepth = 2
    Timeouts <- ShortLong
    RestoreTimeout = 1
    RestoreSteps = 3
    Refusable = 2
    MaxFaults = 2
INVARIANT TypeOK
INVARIANT SlotsAreWaits
INVARIANT DeadlineIsOwn
INVARIANT RestoringExact
 
PROPERTY CallsReturn
 
