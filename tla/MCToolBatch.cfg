CONSTANTS
    N = 3
    Segment = {"a"}
    Empty = ""
    Fold <- MCFold
    Declared <- MCDeclared
    Node = {}
    Keys <- MCKeys
    Rejected = {bad}
    Stormy = {storm}
    Answers <- MCAnswers
    Pending = Pending
    k1 = k1
    k2 = k2
    k3 = k3
    bad = bad
    storm = storm
SPECIFICATION FairBatchSpec
INVARIANTS ResultsPaired SameCallOnce
PROPERTIES NothingBehindAStop BatchEnds
