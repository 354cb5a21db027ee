SPECIFICATION Spec
CONSTANTS
    Incident = {i1}
    Request = {r1, r2, r3, r4}
    Severity = {medium, high}
    DefaultSeverity = medium
SYMMETRY RequestSymmetry
CHECK_DEADLOCK FALSE
INVARIANTS
    ResolvedIsStamped
    InvestigatedIsAcknowledged
    AuditEndsAtStatus
    NotesTellTheMoves
    NoOrphans
PROPERTIES
    UpdatesTouchOnlyWhatTheyName
