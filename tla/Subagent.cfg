CONSTANTS
    Steers = {s1, s2}
    Queued = {q}
    Limit = 2
    Expansions = 1
    Deliveries = 1
    MaxRuns = 2
    MaxSent = 3
    MaxNotices = 1
SPECIFICATION Spec
INVARIANTS
    OneCopyUnderway
    HandedOverSurvives
PROPERTIES
    NothingDiscarded
