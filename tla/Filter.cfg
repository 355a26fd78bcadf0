SPECIFICATION Spec
CONSTANTS
    FileWords <- MCFileWords
    Names <- MCNames
    MaxWords = 3
INVARIANTS
    MatchesAsWritten
    Canonical
    WriteReadsBack
CHECK_DEADLOCK FALSE
