---------------------------- MODULE AnomalyQueue ----------------------------
(***************************************************************************)
(* What the anomaly queue promises (persist_findings of                    *)
(* services/detection/engine.py, the UNIQUE fingerprint of                 *)
(* models/anomaly.py): anomalies are only added, each under a fingerprint  *)
(* that no other anomaly has, and one that is stored stays as it is.       *)
(***************************************************************************)
VARIABLE queue      \* the stored anomalies

Distinct(S) == \A x, y \in S : x.fingerprint = y.fingerprint => x = y

Init == queue = {}

\* One analysis adds what it found and nobody had stored.
Add == /\ queue \subseteq queue'
       /\ Distinct(queue')

Spec == Init /\ [][Add]_queue
=============================================================================
