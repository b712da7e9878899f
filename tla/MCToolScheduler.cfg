CONSTANTS
    N = 3
    Segment <- MCSegment
    Empty <- MCEmpty
    Fold <- MCFold
    Declared <- MCDeclared
    Node <- MCNode
SPECIFICATION Spec
INVARIANTS
    NoRace
    NoRaceOnDisk
    ProviderOrder
    WaitsForSomeone
    LoopAgrees
