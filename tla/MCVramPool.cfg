SPECIFICATION FairSpec
CONSTANTS
    U64Max = 15
    HandleMax = 5
    PAGE_BYTES = 2
    MAX_ALLOCS = 3
    InitArgs <- MCInitArgs
    Requests <- MCRequests
INVARIANTS
    IndInv
    Disjoint
    RefusalJustified
    NoAliasing
PROPERTIES
    AllocReturns
    ImplementsStore
