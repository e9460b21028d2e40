SPECIFICATION MCSpec
CONSTANTS
    Outputs = {1, 2, 3}
    Sors = {0, 1}
    Timings <- MCTimings
    Surfaces <- MCSurfaces
    MsgCount = 4
    Functions = {"control", "alloc"}
    EventFn = "event"
    ReplyElems = {1, 2}
    EventElems = {1, 2}
    MaxCalls = 4
    MaxEvents = 1
INVARIANTS
    OwnReply
    CommandsIntact
    NoOrphans
    OneOutput
    NoUnwrittenMethod
    ConfirmedIsOurs
    ModeAsAdvertised
    WindowReadsSurface
CHECK_DEADLOCK FALSE
