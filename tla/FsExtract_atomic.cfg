SPECIFICATION FairSpec
CONSTANTS
    p = p
    q = q
    sq = sq
    cr = cr
    be = be
    jf = jf
    junk = junk
    Root = Root
    None = None
    Partial = Partial
    Foreign = Foreign
    Paths <- MCPaths
    Images <- MCImages
    Header <- MCHeader
    Content <- MCContent
    Damage <- MCDamageB
    Found <- MCFound
    Faults = {"write"}
PROPERTIES
    ImplementsAtomicReplace
    CallReturns
