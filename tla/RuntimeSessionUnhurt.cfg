SPECIFICATION Spec
CONSTANTS
    k1 = k1
    Services <- OneService
    MaxCalls = 1
    MaxDepth = 1
    Timeouts <- ShortLong
    RestoreTimeout = 1
    RestoreSteps = 3
    Refusable = 2
    MaxFaults = 1
INVARIANT DataCallsUnhurt
