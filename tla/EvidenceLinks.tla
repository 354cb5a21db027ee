---------------------------- MODULE EvidenceLinks ----------------------------
(***************************************************************************)
(* The evidence of an incident: anomalies.incident_id, set and cleared by  *)
(* create, link_anomalies, unlink_anomaly (services/incidents.py) and by   *)
(* the deletion of an incident, under the constraint of the foreign key    *)
(* (ON DELETE SET NULL).                                                   *)
(*                                                                         *)
(* A request first loads the incident with its anomalies, then fetches the *)
(* anomalies it was asked about, then flushes and commits.  An anomaly     *)
(* that came with the incident is in the session's identity map: fetching  *)
(* it again returns the object read first, not the row as it is by then.   *)
(***************************************************************************)
EXTENDS IncidentRows, Naturals, FiniteSets

CONSTANTS
    Anomaly,    \* the stored anomalies; none is ever deleted
    Nowhere     \* incident_id IS NULL

ASSUME NowhereAssumption == Nowhere \notin Incident

VARIABLES
    link,       \* link[a]: the committed incident_id of a
    linking     \* linking[r]: what the session of request r holds

linkVars == <<presence, link, linking>>
-----------------------------------------------------------------------------
Target == Incident \cup {Nowhere}

\* "asked" is what the request names, "loaded" what came with the incident,
\* "seen" the incident_id of each asked anomaly as the session knows it.
Linking == [phase : {"idle", "loaded", "fetched", "done"},
            op : {"none", "create", "link", "unlink", "delete"},
            incident : Target, asked : SUBSET Anomaly, loaded : SUBSET Anomaly,
            seen : [Anomaly -> Target]]

LinksTypeOK ==
    /\ presence \in [Incident -> {"unborn", "live", "gone"}]
    /\ link \in [Anomaly -> Target]
    /\ linking \in [Request -> Linking]

EmptyLinking(phase) ==
    [phase |-> phase, op |-> "none", incident |-> Nowhere, asked |-> {}, loaded |-> {},
     seen |-> [a \in Anomaly |-> Nowhere]]

LinksInit ==
    /\ presence = [i \in Incident |-> "unborn"]
    /\ link = [a \in Anomaly |-> Nowhere]
    /\ linking = [r \in Request |-> EmptyLinking("idle")]
-----------------------------------------------------------------------------
EndLinking(r) == linking' = [linking EXCEPT ![r] = EmptyLinking("done")]

\* The evidence of i as committed now.
Evidence(i) == {a \in Anomaly : link[a] = i}

\* Move every anomaly of S to t.
Moved(S, t) == [a \in Anomaly |-> IF a \in S THEN t ELSE link[a]]

\* The link a session has for a: the object loaded with the incident, or the row.
KnownLink(r, a) == IF a \in linking[r].loaded THEN linking[r].incident ELSE link[a]

\* unlink_anomaly's test: to the session, the anomaly is attached to the incident.
AttachedHere(r) == \A a \in linking[r].asked : KnownLink(r, a) = linking[r].incident

\* A variant of the schema that leaves the links of a deleted incident alone.
ReleasedBySession(r) == linking[r].loaded

\* What a deletion unlinks: the ORM clears incident_id on the anomalies it loaded
\* with the incident, the foreign key on the others.
Released(r) == linking[r].loaded \cup Evidence(linking[r].incident)

\* The asked anomalies whose loaded incident_id differs from the new one.
Written(r, t) == {a \in linking[r].asked : linking[r].seen[a] # t}
-----------------------------------------------------------------------------
\* create(): _resolve_anomalies before anything is written.
FetchForCreate(r, S) ==
    /\ linking[r].phase = "idle"
    /\ linking' = [linking EXCEPT ![r].phase = "fetched", ![r].op = "create", ![r].asked = S,
                          ![r].seen = link]
    /\ UNCHANGED <<presence, link>>

CommitCreate(r, i) ==
    /\ linking[r].phase = "fetched"
    /\ linking[r].op = "create"
    /\ presence[i] = "unborn"
    /\ presence' = [presence EXCEPT ![i] = "live"]
    /\ link' = Moved(linking[r].asked, i)
    /\ EndLinking(r)

\* _load: the incident and, eagerly, its anomalies.
LoadEvidence(r, i, op, S) ==
    /\ linking[r].phase = "idle"
    /\ presence[i] = "live"
    /\ linking' = [linking EXCEPT ![r].phase = "loaded", ![r].op = op, ![r].incident = i,
                          ![r].asked = S, ![r].loaded = Evidence(i)]
    /\ UNCHANGED <<presence, link>>

\* An unknown incident (404), or an anomaly id that does not exist (404, 422).
RejectLinking(r) ==
    /\ linking[r].phase \in {"idle", "loaded"}
    /\ EndLinking(r)
    /\ UNCHANGED <<presence, link>>

\* _resolve_anomalies in link_anomalies: every id exists.
FetchForLink(r) ==
    /\ linking[r].phase = "loaded"
    /\ linking[r].op = "link"
    /\ linking' = [linking EXCEPT ![r].phase = "fetched",
                          ![r].seen = [a \in Anomaly |-> KnownLink(r, a)]]
    /\ UNCHANGED <<presence, link>>

\* session.get in the unlink handler, and unlink_anomaly's refusal (409) of an
\* anomaly that is not attached to this incident.
FetchForUnlink(r) ==
    /\ linking[r].phase = "loaded"
    /\ linking[r].op = "unlink"
    /\ IF AttachedHere(r)
       THEN linking' = [linking EXCEPT ![r].phase = "fetched",
                               ![r].seen = [a \in Anomaly |-> KnownLink(r, a)]]
       ELSE EndLinking(r)
    /\ UNCHANGED <<presence, link>>

\* link_anomalies' flush and the commit.  The foreign key is checked for the
\* rows written; a link that is not a change writes no row.
CommitLink(r) ==
    /\ linking[r].phase = "fetched"
    /\ linking[r].op = "link"
    /\ presence[linking[r].incident] = "live" \/ Written(r, linking[r].incident) = {}
    /\ link' = Moved(Written(r, linking[r].incident), linking[r].incident)
    /\ EndLinking(r)
    /\ UNCHANGED presence

\* The incident was deleted meanwhile: the foreign key refuses the rows.
LinkRefused(r) ==
    /\ linking[r].phase = "fetched"
    /\ linking[r].op = "link"
    /\ presence[linking[r].incident] # "live"
    /\ Written(r, linking[r].incident) # {}
    /\ EndLinking(r)
    /\ UNCHANGED <<presence, link>>

\* unlink_anomaly's flush (UPDATE anomalies SET incident_id = NULL WHERE id) and
\* the commit.
CommitUnlink(r) ==
    /\ linking[r].phase = "fetched"
    /\ linking[r].op = "unlink"
    /\ link' = Moved(Written(r, Nowhere), Nowhere)
    /\ EndLinking(r)
    /\ UNCHANGED presence

\* delete_incident's commit.
CommitRelease(r) ==
    LET i == linking[r].incident
    IN  /\ linking[r].phase = "loaded"
        /\ linking[r].op = "delete"
        /\ presence' = [presence EXCEPT ![i] = "gone"]
        /\ link' = Moved(Released(r), Nowhere)
        /\ EndLinking(r)

LinksNext ==
    \E r \in Request :
        \/ \E S \in SUBSET Anomaly : FetchForCreate(r, S)
        \/ \E i \in Incident : CommitCreate(r, i)
        \/ \E i \in Incident, S \in SUBSET Anomaly : S # {} /\ LoadEvidence(r, i, "link", S)
        \/ \E i \in Incident, a \in Anomaly : LoadEvidence(r, i, "unlink", {a})
        \/ \E i \in Incident : LoadEvidence(r, i, "delete", {})
        \/ RejectLinking(r)
        \/ FetchForLink(r)
        \/ FetchForUnlink(r)
        \/ CommitLink(r)
        \/ LinkRefused(r)
        \/ CommitUnlink(r)
        \/ CommitRelease(r)

LinksSpec == LinksInit /\ [][LinksNext]_linkVars
-----------------------------------------------------------------------------
(***************************************************************************)
(* Properties.                                                             *)
(***************************************************************************)
\* Evidence belongs to an incident that is there, also when the incident is
\* deleted between the load and the commit of the request that links to it.
EvidenceHasItsIncident ==
    \A a \in Anomaly : link[a] # Nowhere => link[a] \in Live
=============================================================================
