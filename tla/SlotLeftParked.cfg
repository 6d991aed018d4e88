\* A peer's RST_STREAM frees a slot.
SPECIFICATION Spec
CONSTANTS
    Requests = {r1, r2}
    None = None
    MaxStreamId = 3
    Inputs = {"SETTINGS", "RST_STREAM"}
    SPEC_INITIAL_WINDOW = 2
    DEFAULT_MAX_FRAME_SIZE = 2
    MIN_FRAME_SIZE = 1
    MAX_FRAME_SIZE = 2
    MAX_WINDOW = 3
    UNLIMITED = 9
    MAX_HEADER_BLOCK_SIZE = 2
    WindowSizes = {}
    FrameSizes = {}
    StreamLimits = {1}
    Increments = {1}
    DataSizes = {}
    ChunkSizes = {}
    FragmentSizes = {1}
    PromisedIds = {}
    MaxGrant = 0
    MaxUpload = 0
    MaxDownload = 0
    MaxPings = 0
SYMMETRY Callers
INVARIANTS ParkedMeansFull
CHECK_DEADLOCK FALSE
