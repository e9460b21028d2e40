SPECIFICATION KlogSpec
CONSTANTS
    KLOG_SIZE = 6
    KLOG_TRIES = 3
    LineLengths = {1, 3}
    NoteLength = 2
    Flushers = {"start", "iofb"}
    Lazy = "iofb"
    MaxFlushes = 2
PROPERTIES
    JournalReachesDisk
CHECK_DEADLOCK FALSE
