SPECIFICATION Spec
CONSTANTS
    Lists <- SomeLists
    Texts <- SomeTexts
    Strings <- SomeStrings
    Outside = {0, 127}
CHECK_DEADLOCK FALSE
INVARIANTS
    ListsReadBack
    MatchesAreCandidates
    VerifyIsExact
