------------------------------ MODULE Incidents ------------------------------
(***************************************************************************)
(* The incident record and its lifecycle: services/incidents.py and the    *)
(* handlers of api/v1/endpoints/incidents.py that write an incident, its   *)
(* notes or its attachments.                                               *)
(*                                                                         *)
(* Each HTTP request runs in one READ COMMITTED transaction: it loads the  *)
(* incident (_load), changes the loaded object in memory, then flushes and *)
(* commits.  Other requests run between those steps.  The ORM flushes only *)
(* the columns whose value in memory differs from the value loaded, so a   *)
(* commit merges its own changes into whatever row is current by then.     *)
(*                                                                         *)
(* The flush and the commit are one step: the flush takes the row lock     *)
(* first and every other writer of the row waits for the commit.           *)
(*                                                                         *)
(* `severity` stands for every field a PATCH may set besides the status.   *)
(***************************************************************************)
EXTENDS IncidentRows, Naturals, Sequences

CONSTANTS
    Severity,   \* the values of the representative editable field
    DefaultSeverity \* the value it has when a request sets none

ASSUME ConstantsAssumption == Incident # {} /\ DefaultSeverity \in Severity

VARIABLES
    row,        \* row[i]: the committed row of i
    notes,      \* notes[i]: the committed notes of i, oldest first
    attachments,\* attachments[i]: the attachments of i, named by the request that stored them
    audit,      \* audit[i]: the audit entries about i, oldest first
    req,        \* req[r]: what the session of request r holds
    clock       \* the next reading of the wall clock

vars == <<presence, row, notes, attachments, audit, req, clock>>
-----------------------------------------------------------------------------
Status == {"open", "investigating", "resolved"}

\* A timestamp column: a clock reading, or Never for NULL.
Never == 0
Stamp == Nat

Row == [status : Status, severity : Severity,
        acknowledged_at : Stamp, resolved_at : Stamp]

\* What a PATCH asks for: the payload's fields, "keep" where a field is unset.
Payload == [status : Status \cup {"keep"}, severity : Severity \cup {"keep"}]

\* An audit entry about an incident; "to" is the status it says the incident
\* has afterwards, when the entry is about the status.
Entry == [action : {"create", "update", "status_change", "delete", "attach", "detach"},
          from : Status \cup {"none"}, to : Status \cup {"none"}, by : Request]

Note == [is_system : BOOLEAN, from : Status \cup {"none"}, to : Status \cup {"none"},
         by : Request]

\* A request's session.  "loaded" is the row as read, "object" the same row
\* after the service changed it in memory.
Session == [phase : {"idle", "loaded", "applied", "done"},
            op : {"none", "create", "update", "delete", "note", "attach", "detach"},
            incident : Incident, payload : Payload, attachment : Request,
            loaded : Row, object : Row]

\* `notes` and `audit` hold only what was stored, in order.
TypeOK ==
    /\ presence \in [Incident -> {"unborn", "live", "gone"}]
    /\ row \in [Incident -> Row]
    /\ notes \in [Incident -> Seq(Note)]
    /\ attachments \in [Incident -> SUBSET Request]
    /\ audit \in [Incident -> Seq(Entry)]
    /\ req \in [Request -> Session]
    /\ clock \in Nat \ {Never}
-----------------------------------------------------------------------------
NothingAsked == [status |-> "keep", severity |-> "keep"]

\* models/incident.py: a new row's status is OPEN and its stamps are NULL.
OpenRow(s) == [status |-> "open", severity |-> s,
               acknowledged_at |-> Never, resolved_at |-> Never]

\* A session that has read nothing, or whose request is over.
EmptySession(r, phase) ==
    [phase |-> phase, op |-> "none", incident |-> CHOOSE i \in Incident : TRUE,
     payload |-> NothingAsked, attachment |-> r,
     loaded |-> OpenRow(DefaultSeverity), object |-> OpenRow(DefaultSeverity)]

Init ==
    /\ presence = [i \in Incident |-> "unborn"]
    /\ row = [i \in Incident |-> OpenRow(DefaultSeverity)]
    /\ notes = [i \in Incident |-> <<>>]
    /\ attachments = [i \in Incident |-> {}]
    /\ audit = [i \in Incident |-> <<>>]
    /\ req = [r \in Request |-> EmptySession(r, "idle")]
    /\ clock = 1
-----------------------------------------------------------------------------
\* services/audit.py record(): one entry, in the caller's transaction.
Record(i, entries) == audit' = [audit EXCEPT ![i] = @ \o entries]

Says(action, r) == [action |-> action, from |-> "none", to |-> "none", by |-> r]

Finish(r) == req' = [req EXCEPT ![r] = EmptySession(r, "done")]

\* A session that has read what its handler works on.
Loaded(op, i, payload, a, current) ==
    [phase |-> "loaded", op |-> op, incident |-> i, payload |-> payload,
     attachment |-> a, loaded |-> current, object |-> current]

\* A variant of apply_status in which reopening forgets the acknowledgement too.
ReopenFromScratch(inc, to, now) ==
    IF inc.status = to THEN inc
    ELSE [inc EXCEPT
            !.status = to,
            !.acknowledged_at = CASE to = "open" -> Never
                                  [] to # "open" /\ @ = Never -> now
                                  [] OTHER -> @,
            !.resolved_at = IF to = "resolved" THEN now ELSE Never]

\* apply_status: move the object and stamp the timeline.
ApplyStatus(inc, to, now) ==
    IF inc.status = to THEN inc
    ELSE [inc EXCEPT
            !.status = to,
            !.acknowledged_at = IF to \in {"investigating", "resolved"} /\ @ = Never
                                THEN now ELSE @,
            !.resolved_at = CASE to = "resolved" -> now
                              [] to = "open" -> Never
                              [] OTHER -> @]

\* A variant of update() that fills the fields the payload leaves unset with the
\* defaults of a new incident.
AssignDefaults(inc, payload, now) ==
    LET edited == [inc EXCEPT !.severity = IF payload.severity = "keep" THEN DefaultSeverity
                                           ELSE payload.severity]
    IN  IF payload.status = "keep" THEN edited
        ELSE ApplyStatus(edited, payload.status, now)

\* update(), up to its flush: what the loaded object becomes.
Changed(inc, payload, now) ==
    LET edited == IF payload.severity = "keep" THEN inc
                  ELSE [inc EXCEPT !.severity = payload.severity]
    IN  IF payload.status = "keep" THEN edited
        ELSE ApplyStatus(edited, payload.status, now)

\* The ORM's flush of a changed object: the columns that differ from the loaded
\* ones are written, the others keep the value the row has now.
Flush(current, loaded, object) ==
    [status |-> IF object.status # loaded.status
                THEN object.status ELSE current.status,
     severity |-> IF object.severity # loaded.severity
                  THEN object.severity ELSE current.severity,
     acknowledged_at |-> IF object.acknowledged_at # loaded.acknowledged_at
                         THEN object.acknowledged_at ELSE current.acknowledged_at,
     resolved_at |-> IF object.resolved_at # loaded.resolved_at
                     THEN object.resolved_at ELSE current.resolved_at]

\* A variant of update() that audits the edit or else the status change.
EditOrMove(r) ==
    LET s == req[r]
    IN  IF s.object.severity # s.loaded.severity THEN <<Says("update", r)>>
        ELSE IF s.object.status # s.loaded.status
        THEN <<[action |-> "status_change", from |-> s.loaded.status,
                to |-> s.object.status, by |-> r]>>
        ELSE <<>>

\* The audit entries update() writes: the edit first, the status change apart.
EntriesOf(r) ==
    LET s == req[r]
        edit == IF s.object.severity # s.loaded.severity
                THEN <<Says("update", r)>> ELSE <<>>
        move == IF s.object.status # s.loaded.status
                THEN <<[action |-> "status_change", from |-> s.loaded.status,
                        to |-> s.object.status, by |-> r]>>
                ELSE <<>>
    IN  edit \o move

\* A variant of update() whose note quotes the row as it is at the commit.
NoteOfTheRow(r) ==
    LET s == req[r]
    IN  IF s.object.status # s.loaded.status
        THEN <<[is_system |-> TRUE, from |-> row[s.incident].status,
                to |-> s.object.status, by |-> r]>>
        ELSE <<>>

\* The system note update() leaves for a status change.
NotesOf(r) ==
    LET s == req[r]
    IN  IF s.object.status # s.loaded.status
        THEN <<[is_system |-> TRUE, from |-> s.loaded.status,
                to |-> s.object.status, by |-> r]>>
        ELSE <<>>

\* A variant of the schema without the foreign key.
AnyParent(i) == TRUE

\* The foreign key of a note or an attachment.
HasParent(i) == presence[i] = "live"
-----------------------------------------------------------------------------
\* POST /incidents.
Create(r, i, s) ==
    /\ req[r].phase = "idle"
    /\ presence[i] = "unborn"
    /\ presence' = [presence EXCEPT ![i] = "live"]
    /\ row' = [row EXCEPT ![i] = OpenRow(s)]
    /\ Record(i, <<[action |-> "create", from |-> "none", to |-> "open", by |-> r]>>)
    /\ Finish(r)
    /\ UNCHANGED <<notes, attachments, clock>>

\* _load at the head of every other handler: the row as committed now.
Load(r, i, op, payload) ==
    /\ req[r].phase = "idle"
    /\ presence[i] = "live"
    /\ req' = [req EXCEPT ![r] = Loaded(op, i, payload, r, row[i])]
    /\ UNCHANGED <<presence, row, notes, attachments, audit, clock>>

\* _load answers 404 when there is no row.
NotFound(r, i) ==
    /\ req[r].phase = "idle"
    /\ presence[i] # "live"
    /\ Finish(r)
    /\ UNCHANGED <<presence, row, notes, attachments, audit, clock>>

\* Refused before anything is written: an assignee or an anomaly that does not
\* exist (422), a file that is too large, empty or not text (413, 400, 415).
Reject(r) ==
    /\ \/ req[r].phase = "idle"
       \/ req[r].phase = "loaded" /\ req[r].op \in {"update", "attach"}
    /\ Finish(r)
    /\ UNCHANGED <<presence, row, notes, attachments, audit, clock>>

\* update(), before its flush: in memory only.  Nothing to change ends the request.
Apply(r) ==
    LET object == Changed(req[r].loaded, req[r].payload, clock)
    IN  /\ req[r].phase = "loaded"
        /\ req[r].op = "update"
        /\ IF object = req[r].loaded
           THEN Finish(r)
           ELSE req' = [req EXCEPT ![r] = [@ EXCEPT !.phase = "applied", !.object = object]]
        /\ clock' = clock + 1
        /\ UNCHANGED <<presence, row, notes, attachments, audit>>

\* update()'s flush and the handler's commit.
CommitUpdate(r) ==
    LET i == req[r].incident
    IN  /\ req[r].phase = "applied"
        /\ presence[i] = "live"
        /\ row' = [row EXCEPT ![i] = Flush(@, req[r].loaded, req[r].object)]
        /\ Record(i, EntriesOf(r))
        /\ notes' = [notes EXCEPT ![i] = @ \o NotesOf(r)]
        /\ Finish(r)
        /\ UNCHANGED <<presence, attachments, clock>>

\* add_note.
CommitNote(r) ==
    LET i == req[r].incident
    IN  /\ req[r].phase = "loaded"
        /\ req[r].op = "note"
        /\ HasParent(i)
        /\ notes' = [notes EXCEPT ![i] = Append(@,
                       [is_system |-> FALSE, from |-> "none", to |-> "none", by |-> r])]
        /\ Record(i, <<Says("update", r)>>)
        /\ Finish(r)
        /\ UNCHANGED <<presence, row, attachments, clock>>

\* POST /incidents/{id}/attachments.
CommitAttachment(r) ==
    LET i == req[r].incident
    IN  /\ req[r].phase = "loaded"
        /\ req[r].op = "attach"
        /\ HasParent(i)
        /\ attachments' = [attachments EXCEPT ![i] = @ \cup {r}]
        /\ Record(i, <<Says("attach", r)>>)
        /\ Finish(r)
        /\ UNCHANGED <<presence, row, notes, clock>>

\* The incident was deleted since it was loaded: the UPDATE matches no row, or
\* the INSERT of a note or an attachment breaks its foreign key.  The
\* transaction is rolled back.
CommitRefused(r) ==
    /\ \/ req[r].phase = "applied"
       \/ req[r].phase = "loaded" /\ req[r].op \in {"note", "attach"}
    /\ presence[req[r].incident] # "live"
    /\ Finish(r)
    /\ UNCHANGED <<presence, row, notes, attachments, audit, clock>>

\* delete_incident's commit: notes and attachments go with the row.  Deleting a
\* row that is already gone is not an error to the ORM.
CommitDelete(r) ==
    LET i == req[r].incident
    IN  /\ req[r].phase = "loaded"
        /\ req[r].op = "delete"
        /\ presence' = [presence EXCEPT ![i] = "gone"]
        /\ notes' = [notes EXCEPT ![i] = <<>>]
        /\ attachments' = [attachments EXCEPT ![i] = {}]
        /\ Record(i, <<Says("delete", r)>>)
        /\ Finish(r)
        /\ UNCHANGED <<row, clock>>

\* delete_attachment: session.get of one attachment, then its deletion.
LoadAttachment(r, i, a) ==
    /\ req[r].phase = "idle"
    /\ a \in attachments[i]
    /\ req' = [req EXCEPT ![r] = Loaded("detach", i, NothingAsked, a,
                                        OpenRow(DefaultSeverity))]
    /\ UNCHANGED <<presence, row, notes, attachments, audit, clock>>

CommitDetach(r) ==
    LET i == req[r].incident
    IN  /\ req[r].phase = "loaded"
        /\ req[r].op = "detach"
        /\ attachments' = [attachments EXCEPT ![i] = @ \ {req[r].attachment}]
        /\ Record(i, <<Says("detach", r)>>)
        /\ Finish(r)
        /\ UNCHANGED <<presence, row, notes, clock>>

Next ==
    \E r \in Request :
        \/ \E i \in Incident :
             \/ \E s \in Severity : Create(r, i, s)
             \/ \E payload \in Payload : Load(r, i, "update", payload)
             \/ \E op \in {"delete", "note", "attach"} : Load(r, i, op, NothingAsked)
             \/ \E a \in Request : LoadAttachment(r, i, a)
             \/ NotFound(r, i)
        \/ Reject(r)
        \/ Apply(r)
        \/ CommitUpdate(r)
        \/ CommitNote(r)
        \/ CommitAttachment(r)
        \/ CommitDelete(r)
        \/ CommitDetach(r)
        \/ CommitRefused(r)

Spec == Init /\ [][Next]_vars
-----------------------------------------------------------------------------
(***************************************************************************)
(* Properties.                                                             *)
(***************************************************************************)
\* A resolved incident has both its stamps, whatever requests overlap: an
\* incident resolved without ever being investigated was still acknowledged
\* (apply_status), and no reopening that raced the resolution wipes the stamps
\* while the status stays RESOLVED.
ResolvedIsStamped ==
    \A i \in Live : row[i].status = "resolved" =>
        row[i].acknowledged_at # Never /\ row[i].resolved_at # Never

\* An incident under investigation has been acknowledged.
InvestigatedIsAcknowledged ==
    \A i \in Live : row[i].status = "investigating" => row[i].acknowledged_at # Never

\* The last of these entries to name a status names this one.
EndsAt(entries, status) ==
    \E k \in 1..Len(entries) :
        /\ entries[k].action \in {"create", "status_change"}
        /\ entries[k].to = status
        /\ \A j \in (k + 1)..Len(entries) :
              entries[j].action \notin {"create", "status_change"}

\* The audit trail answers "who moved this to resolved": the last entry that
\* names a status names the one the incident has, also after concurrent moves.
AuditEndsAtStatus == \A i \in Live : EndsAt(audit[i], row[i].status)

\* The places of the system notes among these notes, and of the status changes
\* among these entries.
SystemNotes(ns) == {k \in DOMAIN ns : ns[k].is_system}
Moves(entries) == {k \in DOMAIN entries : entries[k].action = "status_change"}

\* A note and an entry that tell of one change.
TellsOf(n, e) == n.from = e.from /\ n.to = e.to /\ n.by = e.by

\* Each of these notes tells of one of these entries and the other way round, in
\* one order.
TellTheMoves(ns, entries) ==
    /\ \A k \in SystemNotes(ns) : \E m \in Moves(entries) : TellsOf(ns[k], entries[m])
    /\ \A m \in Moves(entries) : \E k \in SystemNotes(ns) : TellsOf(ns[k], entries[m])
    /\ \A k, l \in SystemNotes(ns), m, n \in Moves(entries) :
          TellsOf(ns[k], entries[m]) /\ TellsOf(ns[l], entries[n]) => (k < l <=> m < n)

\* The system notes of an incident are its audited status changes, all of them,
\* once, and in their order: the transition is visible without the audit log.
NotesTellTheMoves == \A i \in Live : TellTheMoves(notes[i], audit[i])

\* Nothing hangs on an incident that is not there: a note or an attachment whose
\* request had loaded the incident before it was deleted is not stored.
NoOrphans ==
    \A i \in Incident \ Live : notes[i] = <<>> /\ attachments[i] = {}

\* "Only the fields present are touched" (IncidentUpdate): a commit changes the
\* field only to what some request asks for, so an edit that committed meanwhile
\* is not undone by a request that did not mention the field.
UpdatesTouchOnlyWhatTheyName ==
    [][\A i \in Live : row'[i].severity # row[i].severity =>
          \E r \in Request : /\ req[r].phase = "applied" /\ req'[r].phase = "done"
                             /\ req[r].incident = i
                             /\ req[r].payload.severity = row'[i].severity]_vars
=============================================================================
