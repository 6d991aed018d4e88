\* Two responses are read, abandoned, reset and torn down, one of them while
\* its upload is still running.
SPECIFICATION Spec
CONSTANTS
    Requests = {r1, r2}
    None = None
    MaxStreamId = 3
    Inputs = {"UPLOAD", "HEADERS", "DATA", "RST_STREAM", "GOAWAY"}
    SPEC_INITIAL_WINDOW = 2
    DEFAULT_MAX_FRAME_SIZE = 2
    MIN_FRAME_SIZE = 1
    MAX_FRAME_SIZE = 2
    MAX_WINDOW = 3
    UNLIMITED = 9
    MAX_HEADER_BLOCK_SIZE = 2
    WindowSizes = {}
    FrameSizes = {}
    StreamLimits = {}
    Increments = {1}
    DataSizes = {0, 1}
    ChunkSizes = {}
    FragmentSizes = {1}
    PromisedIds = {}
    MaxGrant = 0
    MaxUpload = 0
    MaxDownload = 2
    MaxPings = 0
SYMMETRY Callers
INVARIANTS EofMeansComplete ReaderHasWaker RecvWindowConserved
PROPERTIES ResetsAreForLiveStreams
CHECK_DEADLOCK FALSE
