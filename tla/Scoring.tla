------------------------------- MODULE Scoring -------------------------------
(***************************************************************************)
(* The arithmetic that turns what a detector counted into a severity:      *)
(* services/detection/types.py.  A score is kept to four decimals in the   *)
(* code, and counted in ten-thousandths here.                              *)
(***************************************************************************)
EXTENDS Integers

\* The severities in the order of analyzer.py's _SEVERITY_RANK.
Info == 0
Low == 1
Medium == 2
High == 3
Critical == 4
Severity == Info..Critical

One == 10000
BaseScore == 4000
MediumAt == 5000
HighAt == 7000
CriticalAt == 8500

Score == 0..One

\* severity_for: the first band, from the top, that the score reaches.
SeverityFor(score) ==
    CASE score >= CriticalAt -> Critical
      [] score >= HighAt /\ score < CriticalAt -> High
      [] score >= MediumAt /\ score < HighAt -> Medium
      [] OTHER -> Low

\* The nearest integer to n / d.
Rounded(n, d) == (2 * n + d) \div (2 * d)

Clamped(x, lo, hi) == IF x < lo THEN lo ELSE IF x > hi THEN hi ELSE x

\* scale_score: BaseScore at the threshold, One at saturation and beyond, linear
\* in between; One when the saturation leaves no room above the threshold.
ScaleScore(observed, threshold, saturation) ==
    IF saturation <= threshold THEN One
    ELSE LET above == Clamped(observed - threshold, 0, saturation - threshold)
         IN  BaseScore + Rounded((One - BaseScore) * above, saturation - threshold)
=============================================================================
