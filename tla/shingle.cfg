SPECIFICATION FairSpec
CONSTANTS
    NoThread = NoThread
    Shinglers = {s1, s2}
    NumFiles = 4
    UniqueCounts = {1, 2}
    max_uniq_ngrams = 2
    Overflow = TRUE
    CountOnly = FALSE
INVARIANTS
    TypeOK
    
    IdsMatchNames
    
PROPERTIES
    Termination
CHECK_DEADLOCK FALSE
