\* Two callers; the application may drop the future of either.
SPECIFICATION Spec
CONSTANTS
    Requests = {r1, r2}
    MaxConns = 3
    max_connections = 2
    UNLIMITED = 9
    Limits = {0, 1, 2}
    Inputs = {"DROP_OPENER"}
SYMMETRY Callers
INVARIANTS WaiterHasOpener
CHECK_DEADLOCK FALSE
