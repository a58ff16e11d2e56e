CONSTANTS
    NumFiles = 2
    MaxRuns = 3
    Paths <- MCPaths
    Metas <- MCMetas
    Replacements <- MCReplacements
SPECIFICATION Spec
INVARIANTS
    TypeOK
    NamesAreAsAsked
    NoNameIsLeft
    TornMapIsRightUpToTheChange
CHECK_DEADLOCK FALSE
