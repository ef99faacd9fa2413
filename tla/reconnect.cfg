CONSTANTS
    c1 = c1
    Channels <- OneChannel
    TokenChannels <- OneChannel
    FailThreshold = 2
    MaxAttempts = 2
    MaxWg = 1
    MaxEdits = 4
    MaxCrashes = 1
SPECIFICATION FairSpec
INVARIANT TypeOK
INVARIANT DisabledIsInert
INVARIANT AttemptsAreOwn
PROPERTY StaleNeverLands
PROPERTY Decided
CHECK_DEADLOCK FALSE
