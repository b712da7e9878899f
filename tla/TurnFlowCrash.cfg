CONSTANTS
    MaxTurns = 2
    MaxSteps = 1
    MaxCalls = 1
    MaxRejected = 1
    MaxInputs = 2
    MaxCrashes = 1
    Overlap = FALSE
    None = None
SPECIFICATION FairSpec
INVARIANTS
    ExchangeUnbroken
    NoStrayResult
    ReplayMatches
PROPERTIES
    InboxSpec
    TurnEnds
    DeferredLands
