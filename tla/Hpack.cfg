\* Blocks of up to two fields from a peer that changes its table in every way,
\* with announced table sizes below and above the default.
SPECIFICATION Spec
CONSTANTS
    GROUP_BITS = 2
    MAX_GROUPS = 3
    WORD_BITS = 4
    STRING_PREFIX = 2
    OCTET_BITS = 3
    HUFFMAN_CODES <- MCCodes
    HUFFMAN_EOS <- MCEos
    BAD_OCTETS = {3}
    REPLACEMENT <- MCReplacement
    Err = Err
    STATIC_TABLE <- MCStatic
    ENTRY_OVERHEAD = 1
    DEFAULT_TABLE_SIZE = 5
    PrefixBits <- MCPrefix
    Fields <- MCFields
    RequestFields <- MCRequestFields
    LOWER <- MCLower
    TableSizes = {2, 7}
    HuffmanData <- MCHuffmanData
    BadData <- MCBadData
    Excess = {0, 1}
    Inputs = {"RESIZE", "LATE", "INVALID", "LONG", "STRING", "REQUEST"}
    MaxFields = 2
    MaxUpdates = 1
    MaxInserts = 3
INVARIANTS TableBounded InSync RequestSurvives StringsExact
PROPERTIES DecodedAsSent
CHECK_DEADLOCK FALSE
