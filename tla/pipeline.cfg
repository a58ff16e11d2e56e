SPECIFICATION FairSpec
CONSTANTS
    NoThread = NoThread
    Compressors = {c1, c2}
    Writer = w
    NumNgrams = 3
    HaltAbove = 0
    ResumeAt = 0
INVARIANTS
    TypeOK
    InOnePlace
    WrittenInMergeOrder
    NobodySleepsOnWork
    CutOnlyAtTheEnd
    LockFreeIsComplete
PROPERTIES
    ThrottleEnds
    Termination
    ImplementsIndexBuild
CHECK_DEADLOCK FALSE
