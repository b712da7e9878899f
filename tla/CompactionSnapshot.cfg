CONSTANTS
    MaxInputs = 2
    MaxSteps = 2
    MaxCalls = 1
    MaxCompactions = 1
    MaxEdits = 0
    MaxCrashes = 0
    MaxFailures = 1
    MaxPerTurn = 1
SPECIFICATION Spec
INVARIANT PointInTime
