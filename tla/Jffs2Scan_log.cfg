SPECIFICATION FairSpec
CONSTANTS
    Images <- MCImages
    GAP_SCAN_CHUNK = 8
    IOFaults = FALSE
INVARIANTS
    NodesInLog
    ScanFindsTheLog
PROPERTIES
    Terminates
