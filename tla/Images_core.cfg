SPECIFICATION FairSpec
CONSTANTS
    PageSize = 2
    MemoryMap <- MCMemoryMap
    VirtualMaps <- MCVirtualMaps
    Image = {"core", "shell", "bootdrv", "rtdrv"}
    Core = "core"
    Kind <- MCKind
    Unloads = {"bootdrv", "rtdrv"}
    Opens = {"bootdrv"}
    Base <- MCBase
    Heap = 7
    Failing = {"open", "pe", "copy", "install", "table"}
    MaxDepth = 3
    Reckless = FALSE
    CallbacksExit = FALSE
INVARIANTS StartsNest Registry PointersConverted
PROPERTIES ApplicationsLeave
CHECK_DEADLOCK FALSE
