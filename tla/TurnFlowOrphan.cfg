CONSTANTS
    MaxTurns = 2
    MaxSteps = 1
    MaxCalls = 1
    MaxRejected = 1
    MaxInputs = 2
    MaxCrashes = 0
    Overlap = TRUE
    None = None
SPECIFICATION Spec
INVARIANTS
    NoStrayResult
