SPECIFICATION Spec
CONSTANTS
    NumIndexes = 2
    numprocs = 2
    Settings <- Searches
INVARIANTS
    EachHitIsInOnePlace
    VerifyingIsLimited
PROPERTIES
    Termination
    FailureEndsSearch
    ImplementsSearchResults
CHECK_DEADLOCK FALSE
