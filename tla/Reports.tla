------------------------------- MODULE Reports -------------------------------
(***************************************************************************)
(* AI analysis: POST /incidents/{id}/analyze and analyze_incident of       *)
(* services/ai/analyzer.py.                                                *)
(*                                                                         *)
(* One request is a long READ COMMITTED transaction: it is admitted by the *)
(* rate limit, loads the incident, gathers its anomalies, waits for the    *)
(* model, reads the highest stored version, then inserts the report and    *)
(* commits.  Other analyses, changes of the evidence and the deletion of   *)
(* the incident run between any two of these steps.                        *)
(***************************************************************************)
EXTENDS Integers, FiniteSets, Scoring

CONSTANTS
    Incident,       \* the incident ids, each given out at most once
    Request,        \* the analyze requests, each handled once
    Anomaly,        \* the stored anomalies
    ScoreOf,        \* ScoreOf[a]: the score the detector gave a
    ModelSeverity   \* the severities the model may answer (any, in the code)

ASSUME ConstantsAssumption ==
    /\ ScoreOf \in [Anomaly -> Score]
    /\ ModelSeverity \subseteq Severity
    /\ Incident # {}

VARIABLES
    presence,   \* presence[i]: is there a row for i
    linked,     \* linked[i]: the anomalies whose incident_id is i
    reports,    \* reports[i]: the committed reports of i
    req         \* req[r]: what the session of request r holds

vars == <<presence, linked, reports, req>>
-----------------------------------------------------------------------------
\* No anomaly, so no floor: build_assessment returns {}.
NoFloor == -1

\* A stored report.  "floor" is the severity of its assessment, "argued" whether
\* the model gave a severity_override_reason, "adjusted" whether the severity was
\* put back to the floor.
Report == [version : Nat \ {0}, by : Request, severity : Severity,
           floor : Severity \cup {NoFloor}, argued : BOOLEAN, adjusted : BOOLEAN]

Session == [phase : {"idle", "admitted", "gathered", "answered", "numbered", "done"},
            incident : Incident,
            floor : Severity \cup {NoFloor}, severity : Severity,
            argued : BOOLEAN, adjusted : BOOLEAN, version : Nat,
            outcome : {"none", "stored", "refused", "failed", "conflict"}]

TypeOK ==
    /\ presence \in [Incident -> {"live", "gone"}]
    /\ linked \in [Incident -> SUBSET Anomaly]
    /\ reports \in [Incident -> SUBSET Report]
    /\ req \in [Request -> Session]

EmptySession ==
    [phase |-> "idle", incident |-> CHOOSE i \in Incident : TRUE,
     floor |-> NoFloor, severity |-> Info, argued |-> FALSE, adjusted |-> FALSE, version |-> 0,
     outcome |-> "none"]

Init ==
    /\ presence = [i \in Incident |-> "live"]
    /\ linked = [i \in Incident |-> {}]
    /\ reports = [i \in Incident |-> {}]
    /\ req = [r \in Request |-> EmptySession]
-----------------------------------------------------------------------------
Finish(r, outcome) ==
    req' = [req EXCEPT ![r] = [EmptySession EXCEPT !.phase = "done", !.outcome = outcome,
                                                   !.incident = req[r].incident]]

Versions(i) == {report.version : report \in reports[i]}

\* SELECT coalesce(max(version), 0) + 1.
NextVersion(i) ==
    IF Versions(i) = {} THEN 1
    ELSE 1 + CHOOSE v \in Versions(i) : \A w \in Versions(i) : w <= v

\* persist_findings stores an anomaly with the severity of its score.
SeverityOf(a) == SeverityFor(ScoreOf[a])

\* build_assessment: the severity of the highest-scored anomaly.
Floor(S) ==
    IF S = {} THEN NoFloor
    ELSE SeverityOf(CHOOSE top \in S : \A a \in S : ScoreOf[a] <= ScoreOf[top])

\* reconcile_severity: the model's severity, or the floor when the model went
\* below it and did not argue for that (AI_ENFORCE_DETERMINISTIC_SEVERITY, the
\* default).
Adjusted(floor, severity, argued) == floor # NoFloor /\ severity < floor /\ ~argued

\* A variant that takes the model's severity as it comes.
ModelDecides(floor, severity, argued) == severity

Reconciled(floor, severity, argued) ==
    IF Adjusted(floor, severity, argued) THEN floor ELSE severity
-----------------------------------------------------------------------------
\* limits.enforce under the analyst's key lets the request in, or not (429): the
\* counters behind the verdict are RateLimit's.
Admit(r, i) ==
    /\ req[r].phase = "idle"
    /\ req' = [req EXCEPT ![r].phase = "admitted", ![r].incident = i]
    /\ UNCHANGED <<presence, linked, reports>>

Refuse(r) ==
    /\ req[r].phase = "idle"
    /\ Finish(r, "refused")
    /\ UNCHANGED <<presence, linked, reports>>

\* _load and gather_context; the assessment is computed here.
Gather(r) ==
    LET i == req[r].incident
    IN  /\ req[r].phase = "admitted"
        /\ IF presence[i] = "live"
           THEN req' = [req EXCEPT ![r].phase = "gathered", ![r].floor = Floor(linked[i])]
           ELSE Finish(r, "refused")
        /\ UNCHANGED <<presence, linked, reports>>

\* provider.complete returned an answer that parses: reconcile it with the
\* assessment gathered before the call.
Answer(r, severity, argued) ==
    /\ req[r].phase = "gathered"
    /\ req' = [req EXCEPT ![r].phase = "answered",
                          ![r].severity = Reconciled(req[r].floor, severity, argued),
                          ![r].argued = argued,
                          ![r].adjusted = Adjusted(req[r].floor, severity, argued)]
    /\ UNCHANGED <<presence, linked, reports>>

\* The provider is misconfigured (500), unreachable (503), or its answer does not
\* parse or validate (502).
AnswerFails(r) ==
    /\ req[r].phase = "gathered"
    /\ Finish(r, "failed")
    /\ UNCHANGED <<presence, linked, reports>>

\* The version is read from what is committed by now.
Number(r) ==
    /\ req[r].phase = "answered"
    /\ req' = [req EXCEPT ![r].phase = "numbered", ![r].version = NextVersion(req[r].incident)]
    /\ UNCHANGED <<presence, linked, reports>>

\* The row of a session's report.
ReportOf(r) == [version |-> req[r].version, by |-> r, severity |-> req[r].severity,
                floor |-> req[r].floor, argued |-> req[r].argued,
                adjusted |-> req[r].adjusted]

\* A variant of the schema without UNIQUE (incident_id, version).
InsertableTwice(r) == presence[req[r].incident] = "live"

\* The INSERT keeps its foreign key and UNIQUE (incident_id, version).
Insertable(r) == /\ presence[req[r].incident] = "live"
                 /\ req[r].version \notin Versions(req[r].incident)

Store(r) ==
    /\ req[r].phase = "numbered"
    /\ Insertable(r)
    /\ reports' = [reports EXCEPT ![req[r].incident] = @ \cup {ReportOf(r)}]
    /\ Finish(r, "stored")
    /\ UNCHANGED <<presence, linked>>

\* IntegrityError: nothing catches it, the transaction is rolled back (500).
StoreRefused(r) ==
    /\ req[r].phase = "numbered"
    /\ ~Insertable(r)
    /\ Finish(r, "conflict")
    /\ UNCHANGED <<presence, linked, reports>>

\* Another request links or unlinks an anomaly (EvidenceLinks).
Relink(i, S) ==
    /\ presence[i] = "live"
    /\ linked' = [linked EXCEPT ![i] = S]
    /\ UNCHANGED <<presence, reports, req>>

\* delete_incident: the reports go with the incident (ON DELETE CASCADE).
Delete(i) ==
    /\ presence[i] = "live"
    /\ presence' = [presence EXCEPT ![i] = "gone"]
    /\ reports' = [reports EXCEPT ![i] = {}]
    /\ linked' = [linked EXCEPT ![i] = {}]
    /\ UNCHANGED req

Next ==
    \/ \E r \in Request :
         \/ \E i \in Incident : Admit(r, i)
         \/ Refuse(r)
         \/ Gather(r)
         \/ \E severity \in ModelSeverity, argued \in BOOLEAN : Answer(r, severity, argued)
         \/ AnswerFails(r)
         \/ Number(r)
         \/ Store(r)
         \/ StoreRefused(r)
    \/ \E i \in Incident : Delete(i) \/ \E S \in SUBSET Anomaly : Relink(i, S)

Spec == Init /\ [][Next]_vars
-----------------------------------------------------------------------------
(***************************************************************************)
(* Properties.                                                             *)
(***************************************************************************)
\* The versions of an incident's reports are 1..n, each held by one report,
\* however many analyses ran at once and whichever of them failed.
VersionsAreGapless ==
    \A i \in Incident :
        /\ \E n \in 0..Cardinality(reports[i]) : Versions(i) = 1..n
        /\ \A x, y \in reports[i] : x.version = y.version => x = y

\* No stored report rates its incident below the assessment recorded with it
\* unless the model argued for it; a report that says it was adjusted has the
\* severity of that assessment and no argument.
SeverityHasItsReason ==
    \A i \in Incident : \A x \in reports[i] :
        /\ x.severity < x.floor => x.argued
        /\ x.adjusted => x.severity = x.floor /\ ~x.argued

\* The stored reports in version order: what is stored under each version.
LogOf(i) == [v \in 1..Cardinality(reports[i]) |-> {x \in reports[i] : x.version = v}]

\* The table of reports implements the append-only log: an analysis adds the next
\* version and changes nothing that was stored ("rather than overwriting").
Log == INSTANCE ReportLog WITH log <- [i \in Incident |-> LogOf(i)]
ImplementsLog == Log!Spec
=============================================================================
