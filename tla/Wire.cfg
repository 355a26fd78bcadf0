SPECIFICATION WireSpec
CONSTANTS
    Hosts <- MCHosts
    Peers <- MCPeers
    Ids = {1, 2}
    Ttls = {1, 86400}
    Addresses <- MCAddresses
    ServerName <- MCServerName
    Texts <- MCTexts
    MaxAnswers = 2
    Messages <- MCMessages
    BadFrames <- MCBadFrames
    Reserved = 6
    MaxFrames = 3
INVARIANTS
    ReadsBack
    MinTtlIsLeast
    TruncationIsRefused
    AnswerEndsForReason
    WholeMessages
    EscapeHasReason
CHECK_DEADLOCK FALSE
