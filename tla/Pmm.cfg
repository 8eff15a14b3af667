SPECIFICATION Spec
CONSTANTS
    AddrSpace = 32
    PageSize = 2
    ManagedBase = 2
    UserStart = 12
    FirstFree = 4
    MemoryMaps <- MCMaps
    MaxRegions = 2
    MaxCount = 3
INVARIANTS
    BlocksDisjoint
    BlocksInRegion
    PagesReported
    FreeCountExact
    RefusedOnlyWithoutRun
