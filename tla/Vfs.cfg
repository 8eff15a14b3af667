SPECIFICATION Spec
CONSTANTS
    Tasks = {t1, t2}
    MaxFd = 2
    Paths <- SomePaths
    Root = Root
    None = None
    Chunks <- SomeChunks
    ReadSizes = {1, 2}
    MaxFiles = 2
    MaxOpen = 2
    MaxSize = 3
SYMMETRY TaskSymmetry
INVARIANTS
    OffsetInFile
    OneFilePerName
PROPERTIES
    PrefixKept
    ListingComplete
    ImplementsFileStore
