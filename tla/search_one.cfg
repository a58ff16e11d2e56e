SPECIFICATION Spec
CONSTANTS
    NumIndexes = 2
    numprocs = 1
    Settings <- OnlyVerifying
PROPERTIES
    CandidatesGetVerified
