\* Both scenarios of MCWsBridge: traffic, and the ways for a side to end.
SPECIFICATION FairSpec
CONSTANTS
    Scenarios <- BothScenarios
    MaxControl = 1
    MaxBatch = 2
    Interval = 1
    Timeout = 1
INVARIANTS CloseIsLast
PROPERTIES ImplementsTunnel OneSideEnds
CHECK_DEADLOCK FALSE
