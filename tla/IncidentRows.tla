---------------------------- MODULE IncidentRows ----------------------------
(***************************************************************************)
(* The rows of the incidents as far as Incidents and EvidenceLinks share   *)
(* them: which incidents there are.                                        *)
(***************************************************************************)

CONSTANTS
    Incident,   \* the incident ids, each given out at most once
    Request     \* the HTTP requests, each handled once

VARIABLE
    presence    \* presence[i]: is there a row for i ("unborn", "live", "gone")

Live == {i \in Incident : presence[i] = "live"}
=============================================================================
