----------------------------- MODULE MCIncidents -----------------------------
\* Small instances of Incidents for TLC.
EXTENDS Incidents, TLC

\* Requests are interchangeable: none is named and none is ordered.
RequestSymmetry == Permutations(Request)
=============================================================================
