----------------------------- MODULE MCKnowledge -----------------------------
\* Small instances of Knowledge for TLC.
EXTENDS Knowledge, TLC

CONSTANTS report, advisory, old, new

\* The new configuration has the smaller chunks.
PiecesOf == [c \in Content |-> [w \in Worker |-> IF w = new THEN 2 ELSE 1]]

RequestSymmetry == Permutations(Request)
=============================================================================
