SPECIFICATION Spec
CONSTANTS
    Sizes = {0, 16, 40, 48, 144, 400}
    PageSize = 96
    MaxPages = 2
    ListMin = 32
    ListMax <- ListBounds
INVARIANTS
    Tiled
    FreeListsExact
    AcceptsWhatCallersHold
    BlocksFitRequests
PROPERTIES
    FailsOnlyWhenFull
    
CHECK_DEADLOCK FALSE
