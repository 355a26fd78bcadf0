SPECIFICATION Spec
CONSTANTS
    BlockSize = 4
    MinPad = 2
    QueryHead = 4
    ResponseHead = 3
    MaxSize = 20
    Questions = {q1, q2}
    Asks <- MCAsks
    Answers <- MCAnswers
    Ports = {p1}
    DnsHeader = 2
    MaxRequests = 2
INVARIANTS
    OwnAnswer
    PaddingIsUndone
    RepliesInKind
    EndsForReason
CHECK_DEADLOCK FALSE
