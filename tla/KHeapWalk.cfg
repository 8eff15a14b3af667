SPECIFICATION Spec
CONSTANTS
    AddrSpace = 32
    PageSize = 4
    ManagedBase = 0
    UserStart = 24
    FirstFree = 4
    MemTop = 24
    HeapInitPages = 2
    ExpandPages = 2
    MaxHeapPages = 4
    Sizes = {1, 2, 5, 9, 31}
    MaxHeld = 4
INVARIANT WalksFollowHeaders
CHECK_DEADLOCK FALSE
