SPECIFICATION MCSpec
CONSTANTS
    Levels = 4
    Entries <- MCEntries
    Span <- MCSpan
    PhysEnd = 32
    Vas = {0, 1, 2, 3, 5, 7, 8, 11, 15, 16}
    Sizes = {0, 1, 2, 3, 5, 8, 13, 16}
    Places = {0, 9, 17, 31, 32}
    ServicePages = 2
    ChannelPages = 1
    AppVa = 4
    MinApp = 2
    MaxApp = 10
    Align = 2
    LowEnd = 3
    Deep = 4
    MaxRegions = 3
    U64Max = 63
    RegionLists <- MCRegionLists
    AppSizes = {0, 2, 3, 4, 12}
    Extras <- MCExtras
    PerPage = 4
    Images <- MCImages
    Capacities = {64, 150, 184, 232}
    CodeCells = 6
    LogPages = 2
    QueuePages = 3
    FbSizes <- MCFbSizes
    Workspaces = {0, 256, 512, 768, 4096, 8192}
    BootSizes = {0, 1, 16, 100}
    ElfSizes = {0, 1, 4096, 147456}
    Wraps = 1073741824
INVARIANTS
    StagedRight
    MappedExactly
    LayoutIsSafe
    NoSpaceJustified
CHECK_DEADLOCK FALSE
