SPECIFICATION Spec
CONSTANTS
    RingEntries = 3
    SeqMod = 2
    Cells = {0, 1, 2}
    Source = 0
    SelfTarget = 1
    Boundary = 1
    Last = 2
    Values = {7}
    VMaps <- MCVMaps
    MaxCalls = 7
INVARIANTS
    UsableMeansQuiet
    NoChannelFault
    VerifiedPoolIsMapped
PROPERTIES
    ImplementsEngine
CHECK_DEADLOCK FALSE
