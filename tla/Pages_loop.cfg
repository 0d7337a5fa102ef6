SPECIFICATION FairSpec
CONSTANTS
    NPages = 7
    Align = 1
    MAX_POOL_LIST = 2
    MAX_MAP_DEPTH = 6
    OtherType <- MCOther
    OsType <- MCOs
    RtAligned <- MCRtAligned
    AcpiType = {}
    Watermark <- MCWatermark
    PoolList = 1
    Region <- MCRegion
    PageRequest <- MCPageRequest
    PoolRequest <- MCPoolRequest
    Limit = {6}
    Fixed <- MCFixed
    MaxPages = 2
    MaxPool = 1
PROPERTIES StackIsEmptied
CHECK_DEADLOCK FALSE
