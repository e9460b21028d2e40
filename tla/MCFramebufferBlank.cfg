SPECIFICATION MCSpec
CONSTANTS
    Surfaces <- MCSurfaces
    NoSurface <- MCNone
    FixedVram <- MCFixed
    Console <- MCConsole
    SysmemAt <- MCSysmemAt
    Blocks = 2
    Programs <- MCPrograms
    KLOG_SIZE = 6
    KLOG_TRIES = 3
    LineLengths = {1, 3}
    NoteLength = 2
    Flushers = {"start", "iofb"}
    Lazy = "iofb"
    MaxFlushes = 2
INVARIANTS
    PublishedIsShown
CHECK_DEADLOCK FALSE
