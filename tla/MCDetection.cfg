SPECIFICATION FairSpec
CONSTANTS
    Entry <- Siege
    Analysis = {r1, r2}
    Window <- Windows
    AllSources = AllSources
    Scope = {AllSources, "sshd"}
    Hour = 2
    Cap = 5
    AttemptThreshold = 2
    AttemptSaturation = 4
    SprayThreshold = 2
    SpraySaturation = 3
    SuccessWeight = 3500
    SuccessBonus = 500
CHECK_DEADLOCK FALSE
INVARIANTS
    EveryFindingIsStored
    FailuresAreReportedOnce
PROPERTIES
    ImplementsQueue
    AnalysesEnd
