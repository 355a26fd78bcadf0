SPECIFICATION MessageSpec
CONSTANTS
    Hosts <- MCHosts
    Peers <- MCPeers
    Ids = {1, 2}
    Ttls = {1, 86400}
    Addresses <- MCAddresses
    ServerName <- MCServerName
    Texts <- MCTexts
    MaxAnswers = 2
INVARIANT
    LocalAnswerIsWhole
