--------------------------- MODULE MCEvidenceLinks ---------------------------
\* Small instances of EvidenceLinks for TLC.
EXTENDS EvidenceLinks, TLC

\* Requests, anomalies and incidents are interchangeable.
Symmetries == Permutations(Request) \cup Permutations(Anomaly) \cup Permutations(Incident)
=============================================================================
