CONSTANTS
    MaxTurns = 2
    MaxSteps = 3
    MaxCalls = 2
    MaxRejected = 2
    MaxInputs = 2
    MaxCrashes = 0
    Overlap = TRUE
    None = None
SPECIFICATION Spec
CONSTRAINT Short
INVARIANTS
    TypeOK
    SingleOwner
    NothingHeldBack
