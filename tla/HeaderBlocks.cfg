\* Header blocks cut into fragments, up to and past the cap, from a peer that keeps
\* to no order of frames, against every way a connection ends.  Callers are polled
\* fairly.
SPECIFICATION FairSpec
CONSTANTS
    Requests = {r1, r2}
    None = None
    MaxStreamId = 3
    Inputs = {"SETTINGS", "GOAWAY", "PING", "CLOSE", "TRANSPORT", "HEADERS", "CONTINUATION", "PUSH_PROMISE", "MALFORMED", "ROGUE"}
    SPEC_INITIAL_WINDOW = 2
    DEFAULT_MAX_FRAME_SIZE = 2
    MIN_FRAME_SIZE = 1
    MAX_FRAME_SIZE = 2
    MAX_WINDOW = 3
    UNLIMITED = 9
    MAX_HEADER_BLOCK_SIZE = 2
    WindowSizes = {4}
    FrameSizes = {}
    StreamLimits = {1}
    Increments = {1}
    DataSizes = {}
    ChunkSizes = {}
    FragmentSizes = {1, 2}
    PromisedIds = {2}
    MaxGrant = 0
    MaxUpload = 0
    MaxDownload = 0
    MaxPings = 1
INVARIANTS ClosedIsQuiescent PendingBlockBounded
PROPERTIES RequestsSettle
CHECK_DEADLOCK FALSE
