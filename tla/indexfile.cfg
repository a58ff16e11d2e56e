SPECIFICATION Spec
CONSTANTS
    NotInIndex = NotInIndex
    Garbage = Garbage
    Files = {0, 1}
    NgramBits = 4
    TrimmedBits = {0, 2}
    MaxPresent = 3
CHECK_DEADLOCK FALSE
INVARIANTS
    SearchesAreExact
    AcceptedOnlyWithAllLists
