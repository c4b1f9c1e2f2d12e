SPECIFICATION FairSpec
CONSTANTS
    MAX_DIGITS = 2
    ULLONG_MAX = 255
    None = None
    PRODUCTS <- MCProducts
    Cves <- MCCves
    Record <- MCRecord
    Servers <- MCServers
    OldFile <- MCOldFile
    Components <- MCComponents
    PER_PAGE = 2
    MAX_ATTEMPTS = 3
    MaxChanges = 2
    MaxRuns = 1
INVARIANTS
    NothingLost
    FailedSyncKeepsDataset
    ReportFollowsServer
PROPERTIES
    SyncEnds
CHECK_DEADLOCK FALSE
