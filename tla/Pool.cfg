\* Three callers, a cap of two connections, servers that allow one stream or none;
\* waiting callers give up, opens fail, connections die, go away and are closed
\* with the pool.
SPECIFICATION FairSpec
CONSTANTS
    Requests = {r1, r2, r3}
    MaxConns = 3
    max_connections = 2
    UNLIMITED = 9
    Limits = {0, 1}
    Inputs = {"CANCEL", "CLOSE", "LOST", "GOAWAY"}
INVARIANTS WithinCap WaiterHasOpener
PROPERTIES RoutedToOpen RequestsSettle
CHECK_DEADLOCK FALSE
