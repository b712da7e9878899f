CONSTANTS
    MaxInputs = 2
    MaxSteps = 2
    MaxCalls = 2
    MaxCompactions = 2
    MaxEdits = 1
    MaxCrashes = 1
    MaxFailures = 1
    MaxPerTurn = 1
    Id = {a, b}
    MaxLength = 5
SPECIFICATION MCSpec
INVARIANTS
    HistorySane
    OneCompaction
    Remembered
    ReplayMatches
    EveryCallAnswered
    NoStrayResult
    Kept
PROPERTIES
    BlockedTurnGoesOn
