------------------------------ MODULE MCReports ------------------------------
\* Small instances of Reports for TLC.
EXTENDS Reports, TLC

CONSTANTS a1, a2

\* Two anomalies of different severity, LOW and CRITICAL.
DetectorScore == (a1 :> 4500) @@ (a2 :> 9000)

\* The model rates below every floor, or at the top.
Extremes == {Info, Critical}

\* Requests are interchangeable.
RequestSymmetry == Permutations(Request)
=============================================================================
