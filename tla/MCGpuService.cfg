SPECIFICATION Spec
CONSTANTS
    Threads = {t1, t2}
    Conns = {c1, c2}
    NumPages = 3
    MaxXfer = 2
    MaxHandle = 2
    None = None
    Requests <- MCRequests
SYMMETRY Symmetry
INVARIANTS
    MmioWhileMapped
    WorkInLiveBuffers
    NoForeignData
CHECK_DEADLOCK FALSE
