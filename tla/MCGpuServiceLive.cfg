SPECIFICATION Spec
CONSTANTS
    Threads = {t1, t2}
    Conns = {c1, c2}
    NumPages = 2
    MaxXfer = 2
    MaxHandle = 2
    None = None
    Requests <- LiveRequests
PROPERTIES
    LockGivenBack
    SlotGivenBack
    UsesEngine
CHECK_DEADLOCK FALSE
