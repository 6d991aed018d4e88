\* The application drops a request whose response is arriving.
SPECIFICATION Spec
CONSTANTS
    Requests = {r1}
    None = None
    MaxStreamId = 1
    Inputs = {"HEADERS", "DATA", "CANCEL"}
    SPEC_INITIAL_WINDOW = 2
    DEFAULT_MAX_FRAME_SIZE = 2
    MIN_FRAME_SIZE = 1
    MAX_FRAME_SIZE = 2
    MAX_WINDOW = 3
    UNLIMITED = 9
    MAX_HEADER_BLOCK_SIZE = 2
    WindowSizes = {}
    FrameSizes = {}
    StreamLimits = {}
    Increments = {1}
    DataSizes = {1}
    ChunkSizes = {}
    FragmentSizes = {1}
    PromisedIds = {}
    MaxGrant = 0
    MaxUpload = 0
    MaxDownload = 1
    MaxPings = 0
SYMMETRY Callers
INVARIANTS RecvWindowConserved
CHECK_DEADLOCK FALSE
