SPECIFICATION Spec
CONSTANTS
    MsgCount = 4
    Functions = {"control", "alloc"}
    EventFn = "event"
    ReplyElems = {1}
    EventElems = {1}
    MaxCalls = 2
    MaxEvents = 1
CHECK_DEADLOCK FALSE
INVARIANT ReplyAnswersTheCall
