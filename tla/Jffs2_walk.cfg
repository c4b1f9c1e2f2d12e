SPECIFICATION FairSpec
CONSTANTS
    Names <- MCNames
    Unsafe <- MCUnsafe
    NameLen <- MCNameLen
    Logs <- MCLogs
    U32 = 8
    MAX_SIZE = 6
    MAX_DIR_DEPTH = 2
    PATH_CAP = 1024
    DISK_CAP = 1280
    OUT_LEN = 1
    IOFaults = {"extract"}
INVARIANTS
    SearchIsLowerBound
    ReplayInBuffer
    NewestFragmentWins
    DiskMirrorsList
    ListIsLive
PROPERTIES
    OnlyLiveEntries
    Terminates
