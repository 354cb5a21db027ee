SPECIFICATION IndexingFairSpec
CONSTANTS
    Text <- MCText
    Shape <- MCShape
    Status <- MCStatus
    BatchSize = 2
    MaxRetries = 2
CHECK_DEADLOCK FALSE
INVARIANTS
    NothingIsLost
    SeamsAreWhole
    PassagesMoveOn
    CostIsBounded
PROPERTIES
    JobsEnd
