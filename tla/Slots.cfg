\* Three callers compete for the peer's concurrent-stream slots while it moves
\* the limit, answers, resets by zero WINDOW_UPDATE and goes away.
SPECIFICATION Spec
CONSTANTS
    Requests = {r1, r2, r3}
    None = None
    MaxStreamId = 5
    Inputs = {"SETTINGS", "HEADERS", "CANCEL", "GOAWAY", "ZERO_UPDATE"}
    SPEC_INITIAL_WINDOW = 2
    DEFAULT_MAX_FRAME_SIZE = 2
    MIN_FRAME_SIZE = 1
    MAX_FRAME_SIZE = 2
    MAX_WINDOW = 3
    UNLIMITED = 9
    MAX_HEADER_BLOCK_SIZE = 2
    WindowSizes = {}
    FrameSizes = {}
    StreamLimits = {0, 1, 2}
    Increments = {1}
    DataSizes = {}
    ChunkSizes = {}
    FragmentSizes = {1}
    PromisedIds = {}
    MaxGrant = 0
    MaxUpload = 0
    MaxDownload = 0
    MaxPings = 0
SYMMETRY Callers
INVARIANTS RequestHasWaker ParkedMeansFull FinishedStreamsLeave
PROPERTIES AdmissionRespected
CHECK_DEADLOCK FALSE
