SPECIFICATION Spec
CONSTANTS
    NULL = NULL
    FileCounts = {2, 3, 4, 5, 6}
    Grams = {0, 1, 2}
    MaxTotal = 8
INVARIANTS
    EveryNodeHoldsItsFirst
    SendsTheInvertedIndex
