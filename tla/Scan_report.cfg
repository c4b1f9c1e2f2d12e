SPECIFICATION FairSpec
CONSTANTS
    MAX_DIGITS = 4
    ULLONG_MAX = 99999
    None = None
    COMPONENT_SCAN_MAX = 53
    VERSION_SIZE = 9
    Calver <- MCCalver
    ArgLists <- MCArgLists
    Directories <- MCDirectories
    ImageFiles <- MCImageFiles
    RuleDirs <- MCRuleDirs
    Datasets <- MCDatasets
    Detectors <- MCDetectors
    NameLen <- MCNameLen
    Cut <- MCCut
    MAX_PATH = 16
    MAX_LINKS = 2
    MAX_OPEN = 5
    READ_CHUNK = 16
    FirstCapacity = 1
    MemoryFails = TRUE
    MaxDepth = 5
INVARIANTS
    ReportIsComplete
    FindingsAreTrue
    RulesWhole
PROPERTIES
    Terminates
CHECK_DEADLOCK FALSE
