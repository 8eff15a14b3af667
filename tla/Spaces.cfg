SPECIFICATION Spec
CONSTANTS
    AddrSpace = 86
    PageSize = 2
    ManagedBase = 2
    UserStart = 64
    FirstFree = 4
    MemTop = 82
    PtSpan = 8
    HeapInitPages = 1
    ExpandPages = 2
    HeapSlots = 2
    ElfBufPages = 2
    MaxElfPages = 2
    ProgramCount = 2
    MaxFbTables = 1
INVARIANTS
    ReachesItsOwnPages
    SharesOnlyPrograms
    KernelOutOfReach
    OwnTables
    
    CopiesStayInReach
CHECK_DEADLOCK FALSE
