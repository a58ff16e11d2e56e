SPECIFICATION Spec
CONSTANTS
    NotInIndex = NotInIndex
    Garbage = Garbage
    Files = {0, 1}
    NgramBits = 3
    TrimmedBits = {1}
    MaxPresent = 2
CHECK_DEADLOCK FALSE
INVARIANTS
    MissingNgramsAreZero
