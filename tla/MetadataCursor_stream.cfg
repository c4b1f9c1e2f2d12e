SPECIFICATION FairSpec
CONSTANTS
    Images <- MCImages
    Refs <- MCRefs
    Bytes <- MCBytes
    BUF_SIZE = 4
    STORED = 8
    ReadSizes = {0, 1, 3, 6}
    MaxReads = 2
PROPERTIES
    ImplementsStream
    ReadReturns
CHECK_DEADLOCK FALSE
