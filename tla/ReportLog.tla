------------------------------ MODULE ReportLog ------------------------------
(***************************************************************************)
(* What the reports of an incident promise (models/incident_report.py,     *)
(* analyze_incident): a log per incident that only grows, one report at a  *)
(* time, version n being its n-th entry, until the incident is deleted and *)
(* its reports with it.                                                    *)
(***************************************************************************)
EXTENDS Sequences, Naturals

CONSTANT Incident

VARIABLE log    \* log[i]: the reports of incident i, oldest first

Init == log = [i \in Incident |-> <<>>]

\* One analysis, whatever it says, becomes the next version of one incident.
Publish(i) ==
    /\ Len(log'[i]) = Len(log[i]) + 1
    /\ log' = [log EXCEPT ![i] = Append(@, log'[i][Len(log'[i])])]

\* The incident is deleted and its reports with it.
Discard(i) == log' = [log EXCEPT ![i] = <<>>]

Next == \E i \in Incident : Publish(i) \/ Discard(i)

Spec == Init /\ [][Next]_log
=============================================================================
