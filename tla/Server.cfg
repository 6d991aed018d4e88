\* Every combination of headers, selector and options; then three streams, in
\* any order, over a timeout of two ticks.
SPECIFICATION FairSpec
CONSTANTS
    DEFAULT_SUBPROTOCOL = "h2ts"
    Empty = ""
    Opaque = Opaque
    Absent = Absent
    Tokens <- MCTokens
    Requests <- MCRequests
    Selections <- MCSelections
    Configs <- MCConfigs
    Streams = {s1, s2, s3}
    Idle = 2
INVARIANTS CountExact NoMissedChange EchoWasOffered UpgradedByPolicy
PROPERTIES IdleIsReaped
CHECK_DEADLOCK FALSE
