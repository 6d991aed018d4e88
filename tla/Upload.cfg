\* Two uploads share the connection window; the peer grants credit, shrinks and
\* restores the initial window and has streams reset by zero increments, and the
\* application may close the connection.  Pumps are polled fairly.
SPECIFICATION FairSpec
CONSTANTS
    Requests = {r1, r2}
    None = None
    MaxStreamId = 3
    Inputs = {"UPLOAD", "SETTINGS", "WINDOW_UPDATE", "ZERO_UPDATE", "CLOSE"}
    SPEC_INITIAL_WINDOW = 2
    DEFAULT_MAX_FRAME_SIZE = 2
    MIN_FRAME_SIZE = 1
    MAX_FRAME_SIZE = 2
    MAX_WINDOW = 3
    UNLIMITED = 9
    MAX_HEADER_BLOCK_SIZE = 2
    WindowSizes = {0, 2}
    FrameSizes = {}
    StreamLimits = {}
    Increments = {1}
    DataSizes = {}
    ChunkSizes = {3}
    FragmentSizes = {1}
    PromisedIds = {}
    MaxGrant = 1
    MaxUpload = 3
    MaxDownload = 0
    MaxPings = 0
INVARIANTS TypeOK ConnectionCredit EndStreamMeansComplete PumpHasWaker
PROPERTIES StreamCredit NoDataAfterEnd UploadProgress
CHECK_DEADLOCK FALSE
