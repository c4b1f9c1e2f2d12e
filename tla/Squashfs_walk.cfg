SPECIFICATION FairSpec
CONSTANTS
    na = na
    nb = nb
    nc = nc
    Unsafe = Unsafe
    Names <- MCNames
    NameLen <- MCNameLen
    Images <- MCImages
    MIN_SQUASHFS_BLOCK_SIZE = 4
    MAX_SQUASHFS_BLOCK_SIZE = 6
    MAX_BLOCKS_PER_FILE = 2
    MAX_EXTRACTED_FILE_SIZE = 12
    MAX_GROUP = 2
    MAX_NAME = 3
    U32 = 8
    MAX_DIR_DEPTH = 2
    PATH_CAP = 7
    DISK_CAP = 7
    OUT_LEN = 1
    IOFaults = {"extract"}
INVARIANTS
    WalkInListing
    FileIsItsInode
    DiskMirrorsList
    ListIsTree
PROPERTIES
    Terminates
