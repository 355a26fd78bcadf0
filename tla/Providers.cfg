SPECIFICATION ProvidersSpec
CONSTANTS
    AddressParts <- MCAddressParts
    Six <- MCSix
    KeyTexts <- MCKeyTexts
    MaxColumns = 50
    Files <- MCFiles
    Answers <- MCAnswers
    Askable <- MCAskable
    OnionTexts <- MCOnionTexts
    MaxEntry = 1024
    Now = 5
INVARIANTS
    FollowsFiles
    FailsForReason
    BestIsUsed
    SavedReadsBack
PROPERTY
    ReloadKeepsService
