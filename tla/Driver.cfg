\* A peer's frames, well-formed and not, cut into chunks in many ways, against
\* requests, pings, close, and a transport that ends or fails.  HIGH_BIT is scaled down
\* from 2^31, which TLC cannot write.
SPECIFICATION FairSpec
CONSTANTS
    FRAME_HEADER_SIZE = 9
    MAX_LENGTH = 16777215
    HIGH_BIT = 536870912
    None = None
    MAX_FRAME_SIZE_RANGE = {4, 5, 6}
    DEFAULT_MAX_FRAME_SIZE = 4
    MAX_HEADER_BLOCK_SIZE = 8
    SPEC_INITIAL_WINDOW = 3
    Scenarios <- MCScenarios
    ChunkSizes = {0, 1, 12}
    BlockSizes = {4, 11}
    MaxPings = 1
    MaxStreamId = 1
    Inputs = {"CLOSE", "EOF", "WRITE_ERROR"}
INVARIANTS DispatchedAsMeant BufferBounded PeerReadsAsQueued GoawayIsWritten
PROPERTIES ClosedDriverEnds
CHECK_DEADLOCK FALSE
