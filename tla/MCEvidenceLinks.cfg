SPECIFICATION LinksSpec
CONSTANTS
    Incident = {i1, i2}
    Anomaly = {a1, a2}
    Request = {r1, r2, r3, r4}
    Nowhere = Nowhere
SYMMETRY Symmetries
CHECK_DEADLOCK FALSE
INVARIANTS
    EvidenceHasItsIncident
