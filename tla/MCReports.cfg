SPECIFICATION Spec
CONSTANTS
    Incident = {i1}
    a1 = a1
    a2 = a2
    Anomaly = {a1, a2}
    Request = {r1, r2, r3}
    ScoreOf <- DetectorScore
    ModelSeverity <- Extremes
SYMMETRY RequestSymmetry
CHECK_DEADLOCK FALSE
INVARIANTS
    VersionsAreGapless
    SeverityHasItsReason
PROPERTIES
    ImplementsLog
