SPECIFICATION Spec
CONSTANTS
    Request = {r1, r2, r3, r4}
    report = report
    advisory = advisory
    old = old
    new = new
    Content = {report, advisory}
    Worker = {old, new}
    Pieces <- PiecesOf
SYMMETRY RequestSymmetry
CHECK_DEADLOCK FALSE
INVARIANTS
    DocumentsAreWhole
    AuditTellsTheCorpus
PROPERTIES
    ImplementsCorpus
