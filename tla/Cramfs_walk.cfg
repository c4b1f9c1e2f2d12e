SPECIFICATION FairSpec
CONSTANTS
    na = na
    nb = nb
    nc = nc
    Unsafe = Unsafe
    Names <- MCNames
    NameLen <- MCNameLen
    Images <- MCImages
    BLOCK_SIZE = 4
    MAX_DIR_DEPTH = 2
    PATH_CAP = 22
    DISK_CAP = 9
    OUT_LEN = 1
    IOFaults = {"extract"}
INVARIANTS
    WalkInBounds
    BlocksFollowPointers
    FilesComplete
    DiskMirrorsList
    PathsFit
    ListIsPreorder
PROPERTIES
    Terminates
