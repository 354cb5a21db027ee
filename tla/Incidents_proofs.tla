--------------------------- MODULE Incidents_proofs ---------------------------
(***************************************************************************)
(* Proofs about Incidents, for any number of incidents and of overlapping  *)
(* requests, and about the evidence of incidents (EvidenceLinks).          *)
(***************************************************************************)
EXTENDS Incidents, EvidenceLinks, SequenceTheorems, TLAPS

\* What an object may say against the row it was loaded from.  A stamp that is
\* written is written with a move of the status, a resolution always with both
\* stamps and a resolution time no row has had yet.
FairMove(loaded, object) ==
    /\ object.status = "resolved" /\ loaded.status # "resolved" =>
         /\ object.resolved_at # Never /\ object.resolved_at # loaded.resolved_at
         /\ object.acknowledged_at # Never
    /\ object.status = "investigating" /\ loaded.status # "investigating" =>
         object.acknowledged_at # Never
    /\ object.resolved_at # loaded.resolved_at => object.status # loaded.status
    /\ object.acknowledged_at # loaded.acknowledged_at => object.acknowledged_at # Never

\* The two status invariants, of one row.
Stamped(x) ==
    /\ x.status = "resolved" => x.acknowledged_at # Never /\ x.resolved_at # Never
    /\ x.status = "investigating" => x.acknowledged_at # Never

Past(x, now) == x.acknowledged_at < now /\ x.resolved_at < now

\* The inductive invariant.  An acknowledgement that a session read is still on
\* the row when the session commits: this is what lets apply_status skip the
\* stamp on the strength of what it read.
IInv ==
    /\ TypeOK
    /\ \A i \in Incident : Past(row[i], clock) /\ Stamped(row[i])
    /\ \A r \in Request :
         /\ Past(req[r].loaded, clock) /\ Past(req[r].object, clock)
         /\ FairMove(req[r].loaded, req[r].object)
         /\ req[r].loaded.acknowledged_at # Never =>
              /\ presence[req[r].incident] # "unborn"
              /\ row[req[r].incident].acknowledged_at # Never
-----------------------------------------------------------------------------
\* update() turns a loaded row into an object that is a fair move of it.
LEMMA ChangedIsFair ==
    ASSUME NEW inc \in Row, NEW payload \in Payload, NEW now \in Nat \ {Never}, Past(inc, now)
    PROVE  /\ Changed(inc, payload, now) \in Row
           /\ FairMove(inc, Changed(inc, payload, now))
           /\ Past(Changed(inc, payload, now), now + 1)
<1> DEFINE edited == IF payload.severity = "keep" THEN inc
                     ELSE [inc EXCEPT !.severity = payload.severity]
<1>1. /\ edited \in Row
      /\ edited.status = inc.status
      /\ edited.acknowledged_at = inc.acknowledged_at
      /\ edited.resolved_at = inc.resolved_at
  BY DEF Row, Payload
<1>2. CASE payload.status = "keep"
  BY <1>1, <1>2 DEF Changed, FairMove, Past, Row, Stamp
<1>3. CASE payload.status # "keep"
  <2>1. Changed(inc, payload, now) = ApplyStatus(edited, payload.status, now)
    BY <1>3 DEF Changed
  <2>2. payload.status \in Status
    BY <1>3 DEF Payload
  <2> HIDE DEF edited
  <2>3. CASE edited.status = payload.status
    BY <1>1, <2>1, <2>3 DEF ApplyStatus, FairMove, Past, Row, Stamp
  <2>4. CASE edited.status # payload.status
    <3> DEFINE object == ApplyStatus(edited, payload.status, now)
    <3>1. /\ object \in Row
          /\ object.status = payload.status
          /\ object.acknowledged_at =
               IF payload.status \in {"investigating", "resolved"}
                  /\ edited.acknowledged_at = Never
               THEN now ELSE edited.acknowledged_at
          /\ object.resolved_at = CASE payload.status = "resolved" -> now
                                    [] payload.status = "open" -> Never
                                    [] OTHER -> edited.resolved_at
      BY <1>1, <2>2, <2>4 DEF ApplyStatus, Row, Stamp, Status, Never
    <3> HIDE DEF object
    <3>2. object = Changed(inc, payload, now)
      BY <2>1 DEF object
    <3> QED
      BY <1>1, <2>2, <2>4, <3>1, <3>2 DEF FairMove, Past, Row, Stamp, Status, Never
  <2> QED BY <2>3, <2>4
<1> QED BY <1>2, <1>3

\* Flushing a fair move of what was loaded over whatever the row has become keeps
\* the row stamped and its acknowledgement.
LEMMA FlushKeepsStamps ==
    ASSUME NEW current \in Row, NEW loaded \in Row, NEW object \in Row,
           FairMove(loaded, object), Stamped(current),
           loaded.acknowledged_at # Never => current.acknowledged_at # Never
    PROVE  LET new == Flush(current, loaded, object)
           IN  /\ new \in Row /\ Stamped(new)
               /\ current.acknowledged_at # Never => new.acknowledged_at # Never
               /\ \A now \in Nat : Past(current, now) /\ Past(object, now) => Past(new, now)
BY DEF Flush, FairMove, Stamped, Past, Row, Stamp, Status, Never

\* The entries and notes a commit adds are entries and notes.
LEMMA EntriesAndNotes ==
    ASSUME TypeOK, NEW r \in Request
    PROVE  EntriesOf(r) \in Seq(Entry) /\ NotesOf(r) \in Seq(Note)
<1>1. req[r] \in Session /\ req[r].loaded \in Row /\ req[r].object \in Row
  BY DEF TypeOK, Session
<1>2. Says("update", r) \in Entry
  BY DEF Says, Entry
<1>3. \A x, y \in Status :
        /\ [action |-> "status_change", from |-> x, to |-> y, by |-> r] \in Entry
        /\ [is_system |-> TRUE, from |-> x, to |-> y, by |-> r] \in Note
  BY DEF Entry, Note
<1>4. req[r].loaded.status \in Status /\ req[r].object.status \in Status
  BY <1>1 DEF Row
<1> QED BY <1>2, <1>3, <1>4 DEF EntriesOf, NotesOf
-----------------------------------------------------------------------------
LEMMA EmptySessionType ==
    ASSUME NEW r \in Request, NEW phase \in {"idle", "loaded", "applied", "done"}
    PROVE  /\ EmptySession(r, phase) \in Session
           /\ EmptySession(r, phase).loaded.acknowledged_at = Never
           /\ EmptySession(r, phase).loaded = EmptySession(r, phase).object
           /\ EmptySession(r, phase).loaded.resolved_at = Never
<1>1. (CHOOSE i \in Incident : TRUE) \in Incident
  BY ConstantsAssumption
<1>2. OpenRow(DefaultSeverity) \in Row
  BY ConstantsAssumption DEF OpenRow, Row, Status, Stamp, Never
<1>3. NothingAsked \in Payload
  BY DEF NothingAsked, Payload
<1> QED
  BY <1>1, <1>2, <1>3 DEF EmptySession, Session, OpenRow

\* Init establishes the invariant.
LEMMA InitIInv == Init => IInv
<1> SUFFICES ASSUME Init PROVE IInv
  OBVIOUS
<1>1. OpenRow(DefaultSeverity) \in Row
  BY ConstantsAssumption DEF OpenRow, Row, Status, Stamp, Never
<1>2. TypeOK
  BY <1>1, EmptySessionType DEF Init, TypeOK, Never
<1> QED
  BY <1>1, <1>2, EmptySessionType
  DEF Init, IInv, Past, Stamped, FairMove, OpenRow, Never

\* Type correctness is preserved.
LEMMA NextTypeOK == ASSUME IInv, Next PROVE TypeOK'
<1>0. TypeOK
  BY DEF IInv
<1> USE <1>0 DEF TypeOK
<1>1. ASSUME NEW r \in Request, Finish(r) PROVE req' \in [Request -> Session]
  BY <1>1, EmptySessionType DEF Finish
<1>2. ASSUME NEW i \in Incident, NEW entries \in Seq(Entry), Record(i, entries)
      PROVE  audit' \in [Incident -> Seq(Entry)]
  BY <1>2, ConcatProperties DEF Record
<1>3. ASSUME NEW r \in Request PROVE req[r] \in Session
  OBVIOUS
<1>4. ASSUME NEW r \in Request, NEW a \in {"update", "delete", "attach", "detach"}
      PROVE  <<Says(a, r)>> \in Seq(Entry)
  BY DEF Says, Entry
<1>5. ASSUME NEW r \in Request, NEW i \in Incident, NEW x \in Severity, Create(r, i, x)
      PROVE  TypeOK'
  <2>1. OpenRow(x) \in Row
    BY DEF OpenRow, Row, Status, Stamp, Never
  <2>2. <<[action |-> "create", from |-> "none", to |-> "open", by |-> r]>> \in Seq(Entry)
    BY DEF Entry, Status
  <2> QED BY <1>1, <1>2, <1>5, <2>1, <2>2 DEF Create
<1>6. ASSUME NEW r \in Request, NEW i \in Incident, NEW payload \in Payload,
             NEW op \in {"update", "delete", "note", "attach"}, Load(r, i, op, payload)
      PROVE  TypeOK'
  BY <1>6 DEF Load, Loaded, Session
<1>7. ASSUME NEW r \in Request, NEW i \in Incident, NEW a \in Request,
             LoadAttachment(r, i, a)
      PROVE  TypeOK'
  <2>1. Loaded("detach", i, NothingAsked, a, OpenRow(DefaultSeverity)) \in Session
    BY EmptySessionType DEF Loaded, EmptySession, Session
  <2> QED BY <1>7, <2>1 DEF LoadAttachment
<1>8. ASSUME NEW r \in Request, NEW i \in Incident, NotFound(r, i) PROVE TypeOK'
  BY <1>1, <1>8 DEF NotFound
<1>9. ASSUME NEW r \in Request, Reject(r) PROVE TypeOK'
  BY <1>1, <1>9 DEF Reject
<1>10. ASSUME NEW r \in Request, Apply(r) PROVE TypeOK'
  <2> DEFINE object == Changed(req[r].loaded, req[r].payload, clock)
             session == [req[r] EXCEPT !.phase = "applied", !.object = object]
  <2>1. object \in Row
    BY <1>3, <1>10, ChangedIsFair DEF IInv, Session
  <2>2. session \in Session
    BY <1>3, <2>1 DEF Session
  <2>3. req' = [req EXCEPT ![r] = session] \/ Finish(r)
    BY <1>10 DEF Apply
  <2>4. clock' \in Nat \ {Never}
    BY <1>10 DEF Apply, Never
  <2> HIDE DEF session
  <2> QED BY <1>1, <1>10, <2>2, <2>3, <2>4 DEF Apply
<1>11. ASSUME NEW r \in Request, CommitUpdate(r) PROVE TypeOK'
  <2>1. Flush(row[req[r].incident], req[r].loaded, req[r].object) \in Row
    BY <1>3, FlushKeepsStamps DEF IInv, Session
  <2>2. row' \in [Incident -> Row]
    BY <1>3, <1>11, <2>1 DEF CommitUpdate, Session
  <2>3. EntriesOf(r) \in Seq(Entry) /\ NotesOf(r) \in Seq(Note)
    BY EntriesAndNotes
  <2>4. audit' \in [Incident -> Seq(Entry)]
    BY <1>2, <1>3, <1>11, <2>3 DEF CommitUpdate, Session
  <2>5. notes' \in [Incident -> Seq(Note)]
    BY <1>3, <1>11, <2>3, ConcatProperties DEF CommitUpdate, Session
  <2> QED BY <1>1, <1>11, <2>2, <2>4, <2>5 DEF CommitUpdate
<1>12. ASSUME NEW r \in Request, CommitNote(r) PROVE TypeOK'
  <2>1. [is_system |-> FALSE, from |-> "none", to |-> "none", by |-> r] \in Note
    BY DEF Note
  <2>2. notes' \in [Incident -> Seq(Note)]
    BY <1>3, <1>12, <2>1, AppendProperties DEF CommitNote, Session
  <2>3. audit' \in [Incident -> Seq(Entry)]
    BY <1>2, <1>3, <1>4, <1>12 DEF CommitNote, Session
  <2> QED BY <1>1, <1>12, <2>2, <2>3 DEF CommitNote
<1>13. ASSUME NEW r \in Request, CommitAttachment(r) PROVE TypeOK'
  <2>1. audit' \in [Incident -> Seq(Entry)]
    BY <1>2, <1>3, <1>4, <1>13 DEF CommitAttachment, Session
  <2>2. attachments' \in [Incident -> SUBSET Request]
    BY <1>13 DEF CommitAttachment
  <2> QED BY <1>1, <1>13, <2>1, <2>2 DEF CommitAttachment
<1>14. ASSUME NEW r \in Request, CommitDelete(r) PROVE TypeOK'
  <2>1. audit' \in [Incident -> Seq(Entry)]
    BY <1>2, <1>3, <1>4, <1>14 DEF CommitDelete, Session
  <2>2. <<>> \in Seq(Note)
    OBVIOUS
  <2> QED BY <1>1, <1>14, <2>1, <2>2 DEF CommitDelete
<1>15. ASSUME NEW r \in Request, CommitDetach(r) PROVE TypeOK'
  <2>1. audit' \in [Incident -> Seq(Entry)]
    BY <1>2, <1>3, <1>4, <1>15 DEF CommitDetach, Session
  <2>2. attachments' \in [Incident -> SUBSET Request]
    BY <1>15 DEF CommitDetach
  <2> QED BY <1>1, <1>15, <2>1, <2>2 DEF CommitDetach
<1>16. ASSUME NEW r \in Request, CommitRefused(r) PROVE TypeOK'
  BY <1>1, <1>16 DEF CommitRefused
<1>17. NothingAsked \in Payload
  BY DEF NothingAsked, Payload
<1> QED
  BY <1>5, <1>6, <1>7, <1>8, <1>9, <1>10, <1>11, <1>12, <1>13, <1>14, <1>15, <1>16, <1>17
  DEF Next

\* The part of the invariant that speaks of one request.
SessionInv(r) ==
    /\ Past(req[r].loaded, clock) /\ Past(req[r].object, clock)
    /\ FairMove(req[r].loaded, req[r].object)
    /\ req[r].loaded.acknowledged_at # Never =>
         /\ presence[req[r].incident] # "unborn"
         /\ row[req[r].incident].acknowledged_at # Never

\* The part that speaks of one row.
RowInv(i) == Past(row[i], clock) /\ Stamped(row[i])

LEMMA IInvParts ==
    IInv <=> TypeOK /\ (\A i \in Incident : RowInv(i)) /\ (\A r \in Request : SessionInv(r))
BY DEF IInv, RowInv, SessionInv

\* A request that ends and leaves rows and clock alone keeps the invariant.
LEMMA FinishKeepsIInv ==
    ASSUME IInv, NEW r \in Request, Finish(r), UNCHANGED <<row, clock>>,
           \A i \in Incident : presence[i] # "unborn" => presence'[i] # "unborn"
    PROVE  /\ \A i \in Incident : RowInv(i)'
           /\ \A q \in Request : SessionInv(q)'
<1>1. /\ TypeOK
      /\ \A i \in Incident : RowInv(i)
      /\ \A q \in Request : SessionInv(q)
  BY IInvParts
<1>2. \A i \in Incident : RowInv(i)'
  BY <1>1 DEF RowInv
<1>3. ASSUME NEW q \in Request PROVE SessionInv(q)'
  <2>1. CASE q = r
    <3>1. req'[r] = EmptySession(r, "done")
      BY <1>1 DEF Finish, TypeOK
    <3>2. clock > Never
      BY <1>1 DEF TypeOK, Never
    <3> QED
      BY <2>1, <3>1, <3>2, EmptySessionType DEF SessionInv, Past, FairMove, EmptySession, OpenRow, Never
  <2>2. CASE q # r
    <3>1. req'[q] = req[q]
      BY <1>1, <2>2 DEF Finish, TypeOK
    <3>2. req[q].incident \in Incident
      BY <1>1 DEF TypeOK, Session
    <3> QED BY <1>1, <3>1, <3>2 DEF SessionInv
  <2> QED BY <2>1, <2>2
<1> QED BY <1>2, <1>3

\* A session that has just read the current row, or nothing.
LEMMA ReadingKeepsIInv ==
    ASSUME IInv, NEW r \in Request, NEW op, NEW i \in Incident, NEW payload, NEW a,
           NEW current \in Row,
           req' = [req EXCEPT ![r] = Loaded(op, i, payload, a, current)],
           UNCHANGED <<presence, row, clock>>, Past(current, clock),
           current.acknowledged_at # Never =>
             presence[i] # "unborn" /\ row[i].acknowledged_at # Never
    PROVE  /\ \A j \in Incident : RowInv(j)'
           /\ \A q \in Request : SessionInv(q)'
<1>1. /\ TypeOK
      /\ \A j \in Incident : RowInv(j)
      /\ \A q \in Request : SessionInv(q)
  BY IInvParts
<1>2. \A j \in Incident : RowInv(j)'
  BY <1>1 DEF RowInv
<1>3. ASSUME NEW q \in Request PROVE SessionInv(q)'
  <2>1. CASE q = r
    <3>1. req'[r] = Loaded(op, i, payload, a, current)
      BY <1>1 DEF TypeOK
    <3> QED BY <2>1, <3>1 DEF SessionInv, FairMove, Loaded
  <2>2. CASE q # r
    <3>1. req'[q] = req[q]
      BY <1>1, <2>2 DEF TypeOK
    <3> QED BY <1>1, <3>1 DEF SessionInv
  <2> QED BY <2>1, <2>2
<1> QED BY <1>2, <1>3

\* Every step keeps the invariant.
LEMMA NextIInv == ASSUME IInv, Next PROVE IInv'
<1>0. TypeOK'
  BY NextTypeOK
<1>1. /\ TypeOK
      /\ \A i \in Incident : RowInv(i)
      /\ \A q \in Request : SessionInv(q)
  BY IInvParts
<1>2. \A r \in Request : req[r] \in Session
  BY <1>1 DEF TypeOK
<1> DEFINE Kept == /\ \A i \in Incident : RowInv(i)'
                   /\ \A q \in Request : SessionInv(q)'
<1>3. ASSUME NEW r \in Request, NEW i \in Incident, NEW x \in Severity, Create(r, i, x)
      PROVE  Kept
  <2>1. row' = [row EXCEPT ![i] = OpenRow(x)] /\ presence' = [presence EXCEPT ![i] = "live"]
    BY <1>3 DEF Create
  <2>2. ASSUME NEW j \in Incident PROVE RowInv(j)'
    <3>1. CASE j = i
      <4>1. row'[j] = OpenRow(x) /\ clock' = clock /\ clock > Never
        BY <1>1, <1>3, <2>1, <3>1 DEF TypeOK, Create, Never
      <4> QED BY <4>1 DEF RowInv, Past, Stamped, OpenRow, Never
    <3>2. CASE j # i
      BY <1>1, <1>3, <2>1, <3>2 DEF TypeOK, RowInv, Create
    <3> QED BY <3>1, <3>2
  <2>3. ASSUME NEW q \in Request PROVE SessionInv(q)'
    <3>1. CASE q = r
      <4>1. req'[r] = EmptySession(r, "done") /\ clock' = clock /\ clock > Never
        BY <1>1, <1>3 DEF Create, Finish, TypeOK, Never
      <4> QED
        BY <3>1, <4>1, EmptySessionType
        DEF SessionInv, Past, FairMove, EmptySession, OpenRow, Never
    <3>2. CASE q # r
      <4>1. req'[q] = req[q] /\ clock' = clock /\ presence[i] = "unborn"
        BY <1>1, <1>3, <3>2 DEF Create, Finish, TypeOK
      <4>2. req[q].loaded.acknowledged_at # Never => req[q].incident # i
        BY <1>1, <4>1 DEF SessionInv
      <4>3. req[q].incident \in Incident
        BY <1>2 DEF Session
      <4> QED BY <1>1, <2>1, <4>1, <4>2, <4>3 DEF SessionInv, TypeOK
    <3> QED BY <3>1, <3>2
  <2> QED BY <2>2, <2>3
<1>4. ASSUME NEW r \in Request, NEW i \in Incident, NEW payload \in Payload,
             NEW op \in {"update", "delete", "note", "attach"}, Load(r, i, op, payload)
      PROVE  Kept
  <2>1. row[i] \in Row /\ Past(row[i], clock)
    BY <1>1 DEF TypeOK, RowInv
  <2>2. presence[i] # "unborn"
    BY <1>4 DEF Load
  <2> QED BY <1>4, <2>1, <2>2, ReadingKeepsIInv DEF Load
<1>5. ASSUME NEW r \in Request, NEW i \in Incident, NEW a \in Request,
             LoadAttachment(r, i, a)
      PROVE  Kept
  <2>1. /\ OpenRow(DefaultSeverity) \in Row
        /\ OpenRow(DefaultSeverity).acknowledged_at = Never
        /\ OpenRow(DefaultSeverity).resolved_at = Never
    BY ConstantsAssumption DEF OpenRow, Row, Status, Stamp, Never
  <2>2. Past(OpenRow(DefaultSeverity), clock)
    BY <1>1, <2>1 DEF Past, TypeOK, Never
  <2> QED BY <1>5, <2>1, <2>2, ReadingKeepsIInv DEF LoadAttachment
<1>6. ASSUME NEW r \in Request, Apply(r) PROVE Kept
  <2> DEFINE object == Changed(req[r].loaded, req[r].payload, clock)
  <2>1. /\ object \in Row /\ FairMove(req[r].loaded, object) /\ Past(object, clock + 1)
    BY <1>1, <1>2, ChangedIsFair DEF SessionInv, Session, TypeOK
  <2>2. clock \in Nat /\ clock' = clock + 1 /\ clock > Never
    BY <1>1, <1>6 DEF Apply, TypeOK, Never
  <2>3. ASSUME NEW x \in Row, Past(x, clock) PROVE Past(x, clock + 1)
    BY <2>2, <2>3 DEF Past, Row, Stamp
  <2>4. \A j \in Incident : RowInv(j)'
    BY <1>1, <1>6, <2>2, <2>3 DEF RowInv, Apply, TypeOK
  <2>5. ASSUME NEW q \in Request PROVE SessionInv(q)'
    <3>1. Past(req[q].loaded, clock + 1) /\ Past(req[q].object, clock + 1)
      BY <1>1, <1>2, <2>3 DEF SessionInv, Session
    <3>2. CASE req'[q] = req[q]
      BY <1>1, <1>6, <2>2, <3>1, <3>2 DEF SessionInv, Apply
    <3>3. CASE q = r /\ Finish(r)
      <4>1. req'[q] = EmptySession(q, "done")
        BY <1>1, <3>3 DEF Finish, TypeOK
      <4> QED
        BY <2>2, <4>1, EmptySessionType
        DEF SessionInv, Past, FairMove, EmptySession, OpenRow, Never
    <3>4. CASE q = r /\ ~Finish(r)
      <4>1. req'[q] = [req[q] EXCEPT !.phase = "applied", !.object = object]
        BY <1>1, <1>6, <3>4 DEF Apply, TypeOK
      <4>2. /\ req'[q].loaded = req[q].loaded /\ req'[q].object = object
            /\ req'[q].incident = req[q].incident
        BY <1>2, <4>1 DEF Session
      <4> HIDE DEF object
      <4> QED BY <1>1, <1>6, <2>1, <2>2, <3>1, <3>4, <4>2 DEF SessionInv, Apply
    <3> QED BY <1>1, <1>6, <3>2, <3>3, <3>4 DEF Apply, Finish, TypeOK
  <2> QED BY <2>4, <2>5
<1>7. ASSUME NEW r \in Request, CommitUpdate(r) PROVE Kept
  <2> DEFINE i == req[r].incident
             new == Flush(row[i], req[r].loaded, req[r].object)
  <2>1. i \in Incident /\ req[r].loaded \in Row /\ req[r].object \in Row /\ row[i] \in Row
    BY <1>1, <1>2 DEF Session, TypeOK
  <2>2. /\ new \in Row /\ Stamped(new) /\ Past(new, clock)
        /\ row[i].acknowledged_at # Never => new.acknowledged_at # Never
    BY <1>1, <2>1, FlushKeepsStamps DEF SessionInv, RowInv, TypeOK
  <2>3. row' = [row EXCEPT ![i] = new] /\ UNCHANGED <<presence, clock>>
    BY <1>7 DEF CommitUpdate
  <2> HIDE DEF new
  <2>4. \A j \in Incident : RowInv(j)'
    BY <1>1, <2>2, <2>3 DEF RowInv, TypeOK
  <2>5. ASSUME NEW q \in Request PROVE SessionInv(q)'
    <3>1. CASE q = r
      <4>1. req'[r] = EmptySession(r, "done") /\ clock > Never
        BY <1>1, <1>7 DEF CommitUpdate, Finish, TypeOK, Never
      <4> QED
        BY <2>3, <3>1, <4>1, EmptySessionType
        DEF SessionInv, Past, FairMove, EmptySession, OpenRow, Never
    <3>2. CASE q # r
      <4>1. req'[q] = req[q]
        BY <1>1, <1>7, <3>2 DEF CommitUpdate, Finish, TypeOK
      <4>2. req[q].incident \in Incident
        BY <1>2 DEF Session
      <4>3. row[req[q].incident].acknowledged_at # Never =>
              row'[req[q].incident].acknowledged_at # Never
        BY <1>1, <2>2, <2>3, <4>2 DEF TypeOK
      <4> QED BY <1>1, <2>3, <4>1, <4>3 DEF SessionInv
    <3> QED BY <3>1, <3>2
  <2> QED BY <2>4, <2>5
<1>8. ASSUME NEW r \in Request, CommitDelete(r) PROVE Kept
  <2>1. \A j \in Incident : presence[j] # "unborn" => presence'[j] # "unborn"
    BY <1>1, <1>8 DEF CommitDelete, TypeOK
  <2> QED BY <1>8, <2>1, FinishKeepsIInv DEF CommitDelete
<1>9. ASSUME NEW r \in Request,
             \/ \E i \in Incident : NotFound(r, i)
             \/ Reject(r) \/ CommitNote(r) \/ CommitAttachment(r)
             \/ CommitDetach(r) \/ CommitRefused(r)
      PROVE  Kept
  <2>1. Finish(r) /\ UNCHANGED <<presence, row, clock>>
    BY <1>9 DEF NotFound, Reject, CommitNote, CommitAttachment, CommitDetach, CommitRefused
  <2> QED BY <2>1, FinishKeepsIInv
<1>10. NothingAsked \in Payload
  BY DEF NothingAsked, Payload
<1>11. Kept
  <2> HIDE DEF Kept
  <2> QED BY <1>3, <1>4, <1>5, <1>6, <1>7, <1>8, <1>9, <1>10 DEF Next
<1> QED
  BY <1>0, <1>11 DEF IInv, RowInv, SessionInv

LEMMA StutterIInv == ASSUME IInv, UNCHANGED vars PROVE IInv'
BY DEF IInv, vars, TypeOK

LEMMA Invariance == Spec => []IInv
<1>1. IInv /\ [Next]_vars => IInv'
  BY NextIInv, StutterIInv
<1> QED BY InitIInv, <1>1, PTL DEF Spec

\* The variables keep their types.
THEOREM TypeCorrect == Spec => []TypeOK
<1>1. IInv => TypeOK
  BY DEF IInv
<1> QED BY <1>1, Invariance, PTL

\* However many requests overlap, a resolved incident has both its stamps.
THEOREM ResolutionIsStamped == Spec => []ResolvedIsStamped
<1>1. IInv => ResolvedIsStamped
  BY DEF IInv, Stamped, ResolvedIsStamped, Live
<1> QED BY <1>1, Invariance, PTL

\* An incident under investigation has been acknowledged.
THEOREM InvestigationIsAcknowledged == Spec => []InvestigatedIsAcknowledged
<1>1. IInv => InvestigatedIsAcknowledged
  BY DEF IInv, Stamped, InvestigatedIsAcknowledged, Live
<1> QED BY <1>1, Invariance, PTL
-----------------------------------------------------------------------------
(***************************************************************************)
(* What hangs on an incident, and what the audit trail says of it.         *)
(***************************************************************************)
Steering == {"create", "status_change"}

\* Entries that name no status leave the last one named where it is.
LEMMA QuietEntries ==
    ASSUME NEW s \in Seq(Entry), NEW t \in Seq(Entry), NEW x, EndsAt(s, x),
           \A k \in 1..Len(t) : t[k].action \notin Steering
    PROVE  EndsAt(s \o t, x)
<1>1. PICK k \in 1..Len(s) :
        /\ s[k].action \in Steering
        /\ s[k].to = x
        /\ \A j \in (k + 1)..Len(s) : s[j].action \notin Steering
  BY DEF EndsAt, Steering
<1>2. /\ Len(s) \in Nat /\ Len(t) \in Nat
      /\ Len(s \o t) = Len(s) + Len(t)
      /\ \A j \in 1..Len(s) + Len(t) :
            (s \o t)[j] = IF j <= Len(s) THEN s[j] ELSE t[j - Len(s)]
  BY ConcatProperties, LenProperties
<1>3. k \in 1..Len(s \o t) /\ (s \o t)[k] = s[k]
  BY <1>1, <1>2
<1>4. ASSUME NEW j \in (k + 1)..Len(s \o t) PROVE (s \o t)[j].action \notin Steering
  <2>1. j \in 1..Len(s) + Len(t)
    BY <1>1, <1>2
  <2>2. CASE j <= Len(s)
    BY <1>1, <1>2, <2>1, <2>2
  <2>3. CASE j > Len(s)
    BY <1>1, <1>2, <2>1, <2>3
  <2> QED BY <1>2, <2>1, <2>2, <2>3
<1> QED BY <1>1, <1>3, <1>4 DEF EndsAt, Steering

\* An entry that names a status, appended, is the last one to name any.
LEMMA LastEntry ==
    ASSUME NEW s \in Seq(Entry), NEW e \in Entry, e.action \in Steering
    PROVE  EndsAt(s \o <<e>>, e.to)
<1>1. /\ Len(s) \in Nat /\ Len(s \o <<e>>) = Len(s) + 1 /\ (s \o <<e>>)[Len(s) + 1] = e
  BY ConcatProperties, LenProperties
<1>2. \A j \in (Len(s) + 1 + 1)..(Len(s) + 1) : FALSE
  BY <1>1
<1> QED BY <1>1, <1>2 DEF EndsAt, Steering

\* The entries of an update end at the status it moves to, or name none.
LEMMA EntriesOfUpdate ==
    ASSUME TypeOK, NEW r \in Request, NEW s \in Seq(Entry), NEW x,
           EndsAt(s, x)
    PROVE  EndsAt(s \o EntriesOf(r),
                  IF req[r].object.status # req[r].loaded.status
                  THEN req[r].object.status ELSE x)
<1> DEFINE move == [action |-> "status_change", from |-> req[r].loaded.status,
                    to |-> req[r].object.status, by |-> r]
           edit == IF req[r].object.severity # req[r].loaded.severity
                   THEN <<Says("update", r)>> ELSE <<>>
<1>1. req[r].loaded.status \in Status /\ req[r].object.status \in Status
  BY DEF TypeOK, Session, Row
<1>2. move \in Entry /\ move.action \in Steering /\ move.to = req[r].object.status
  BY <1>1 DEF Entry, Steering
<1>3. edit \in Seq(Entry) /\ \A k \in 1..Len(edit) : edit[k].action \notin Steering
  <2>1. Says("update", r) \in Entry /\ Says("update", r).action \notin Steering
    BY DEF Says, Entry, Steering
  <2>2. /\ <<Says("update", r)>> \in Seq(Entry)
        /\ \A k \in 1..Len(<<Says("update", r)>>) :
              <<Says("update", r)>>[k].action \notin Steering
    <3> HIDE DEF Entry
    <3> QED BY <2>1
  <2>3. <<>> \in Seq(Entry) /\ 1..Len(<<>>) = {}
    OBVIOUS
  <2> QED BY <2>2, <2>3
<1>4. EndsAt(s \o edit, x)
  <2> HIDE DEF edit
  <2> QED BY <1>3, QuietEntries
<1>5. CASE req[r].object.status # req[r].loaded.status
  <2>1. EntriesOf(r) = edit \o <<move>>
    BY <1>5 DEF EntriesOf
  <2> HIDE DEF edit, move
  <2>2. s \o EntriesOf(r) = (s \o edit) \o <<move>> /\ s \o edit \in Seq(Entry)
    BY <1>2, <1>3, <2>1, ConcatAssociative, ConcatProperties
  <2> QED BY <1>2, <1>5, <2>2, LastEntry
<1>6. CASE req[r].object.status = req[r].loaded.status
  <2>1. EntriesOf(r) = edit \o <<>>
    BY <1>6 DEF EntriesOf
  <2> HIDE DEF edit
  <2>2. EntriesOf(r) = edit
    BY <1>3, <2>1, ConcatEmptySeq
  <2> QED BY <1>4, <1>6, <2>2
<1> QED BY <1>5, <1>6

\* A commit that leaves the rows alone and records an entry that names no status.
LEMMA QuietCommit ==
    ASSUME TypeOK, AuditEndsAtStatus, NEW i \in Incident, NEW e \in Entry,
           e.action \notin Steering, Record(i, <<e>>), row' = row,
           \A j \in Incident : presence'[j] = "live" => presence[j] = "live"
    PROVE  AuditEndsAtStatus'
<1> SUFFICES ASSUME NEW j \in Incident, presence'[j] = "live"
             PROVE  EndsAt(audit'[j], row'[j].status)
  BY DEF AuditEndsAtStatus, Live
<1>1. EndsAt(audit[j], row[j].status) /\ audit[j] \in Seq(Entry)
  BY DEF AuditEndsAtStatus, Live, TypeOK
<1>2. audit'[j] = IF j = i THEN audit[j] \o <<e>> ELSE audit[j]
  BY DEF Record, TypeOK
<1>3. <<e>> \in Seq(Entry) /\ \A k \in 1..Len(<<e>>) : <<e>>[k].action \notin Steering
  OBVIOUS
<1> QED BY <1>1, <1>2, <1>3, QuietEntries

\* Every commit leaves the trail at the status of the row.
LEMMA NextAudit == ASSUME TypeOK, AuditEndsAtStatus, Next PROVE AuditEndsAtStatus'
<1>1. \A r \in Request : req[r].incident \in Incident
  BY DEF TypeOK, Session
<1>2. \A r \in Request, a \in {"update", "delete", "attach", "detach"} :
        Says(a, r) \in Entry /\ Says(a, r).action \notin Steering
  BY DEF Says, Entry, Steering
<1>3. ASSUME NEW r \in Request, NEW i \in Incident, NEW x \in Severity, Create(r, i, x)
      PROVE  AuditEndsAtStatus'
  <2> SUFFICES ASSUME NEW j \in Incident, presence'[j] = "live"
               PROVE  EndsAt(audit'[j], row'[j].status)
    BY DEF AuditEndsAtStatus, Live
  <2> DEFINE e == [action |-> "create", from |-> "none", to |-> "open", by |-> r]
  <2>1. e \in Entry /\ e.action \in Steering /\ e.to = "open"
    BY DEF Entry, Status, Steering
  <2>2. audit[i] \in Seq(Entry)
    BY DEF TypeOK
  <2>3. CASE j = i
    <3>1. audit'[j] = audit[i] \o <<e>> /\ row'[j].status = "open"
      BY <1>3, <2>3 DEF Create, Record, OpenRow, TypeOK
    <3> HIDE DEF e
    <3> QED BY <2>1, <2>2, <3>1, LastEntry
  <2>4. CASE j # i
    <3>1. audit'[j] = audit[j] /\ row'[j] = row[j] /\ presence[j] = "live"
      BY <1>3, <2>4 DEF Create, Record, TypeOK
    <3> QED BY <3>1 DEF AuditEndsAtStatus, Live
  <2> QED BY <2>3, <2>4
<1>4. ASSUME NEW r \in Request, CommitUpdate(r) PROVE AuditEndsAtStatus'
  <2> SUFFICES ASSUME NEW j \in Incident, presence'[j] = "live"
               PROVE  EndsAt(audit'[j], row'[j].status)
    BY DEF AuditEndsAtStatus, Live
  <2>1. EndsAt(audit[j], row[j].status) /\ audit[j] \in Seq(Entry)
    BY <1>4 DEF AuditEndsAtStatus, Live, TypeOK, CommitUpdate
  <2>2. CASE j = req[r].incident
    <3>1. audit'[j] = audit[j] \o EntriesOf(r)
      BY <1>4, <2>2 DEF CommitUpdate, Record, TypeOK
    <3>2. row'[j].status = IF req[r].object.status # req[r].loaded.status
                           THEN req[r].object.status ELSE row[j].status
      BY <1>4, <2>2 DEF CommitUpdate, Flush, TypeOK
    <3> QED BY <2>1, <3>1, <3>2, EntriesOfUpdate
  <2>3. CASE j # req[r].incident
    <3>1. audit'[j] = audit[j] /\ row'[j] = row[j]
      BY <1>4, <2>3 DEF CommitUpdate, Record, TypeOK
    <3> QED BY <2>1, <3>1
  <2> QED BY <2>2, <2>3
<1>5. ASSUME NEW r \in Request,
             CommitNote(r) \/ CommitAttachment(r) \/ CommitDetach(r) \/ CommitDelete(r)
      PROVE  AuditEndsAtStatus'
  <2>1. /\ row' = row
        /\ \/ Record(req[r].incident, <<Says("update", r)>>)
           \/ Record(req[r].incident, <<Says("attach", r)>>)
           \/ Record(req[r].incident, <<Says("detach", r)>>)
           \/ Record(req[r].incident, <<Says("delete", r)>>)
        /\ \A j \in Incident : presence'[j] = "live" => presence[j] = "live"
    BY <1>5 DEF CommitNote, CommitAttachment, CommitDetach, CommitDelete, TypeOK
  <2> QED BY <1>1, <1>2, <2>1, QuietCommit
<1>6. ASSUME UNCHANGED <<presence, row, audit>> PROVE AuditEndsAtStatus'
  BY <1>6 DEF AuditEndsAtStatus, Live
<1> QED
  BY <1>3, <1>4, <1>5, <1>6
  DEF Next, Load, NotFound, Reject, Apply, LoadAttachment, CommitRefused

LEMMA NobodyAtFirst == Init => Live = {}
<1> SUFFICES ASSUME Init PROVE \A i \in Incident : presence[i] # "live"
  BY DEF Live
<1>1. presence = [i \in Incident |-> "unborn"]
  BY DEF Init
<1> QED BY <1>1, Zenon

\* The last entry that names a status names the incident's, however many requests
\* moved it at once.
THEOREM AuditEndsAtTheStatus == Spec => []AuditEndsAtStatus
<1>1. Init => AuditEndsAtStatus
  BY NobodyAtFirst DEF AuditEndsAtStatus
<1>2. TypeOK /\ AuditEndsAtStatus /\ [Next]_vars => AuditEndsAtStatus'
  <2>1. UNCHANGED vars /\ AuditEndsAtStatus => AuditEndsAtStatus'
    BY DEF vars, AuditEndsAtStatus, Live
  <2> QED BY <2>1, NextAudit
<1> QED BY <1>1, <1>2, TypeCorrect, PTL DEF Spec

\* The steps that change what there is, or what hangs on it.
LEMMA HangingSteps ==
    ASSUME [Next]_vars
    PROVE  \/ UNCHANGED <<presence, notes, attachments>>
           \/ \E r \in Request :
                \/ \E j \in Incident, x \in Severity : Create(r, j, x)
                \/ CommitUpdate(r) \/ CommitNote(r) \/ CommitAttachment(r)
                \/ CommitDelete(r) \/ CommitDetach(r)
<1>1. ASSUME NEW r, NEW i, NEW op, NEW payload,
             \/ Load(r, i, op, payload) \/ LoadAttachment(r, i, op) \/ NotFound(r, i)
             \/ Reject(r) \/ Apply(r) \/ CommitRefused(r)
      PROVE  UNCHANGED <<presence, notes, attachments>>
  BY <1>1 DEF Load, LoadAttachment, NotFound, Reject, Apply, CommitRefused
<1>2. ASSUME UNCHANGED vars PROVE UNCHANGED <<presence, notes, attachments>>
  BY <1>2 DEF vars
<1> QED BY <1>1, <1>2 DEF Next

\* A request that loaded an incident before it was deleted leaves nothing on it.
THEOREM NothingIsOrphaned == Spec => []NoOrphans
<1>1. ASSUME Init, NEW j \in Incident PROVE notes[j] = <<>> /\ attachments[j] = {}
  BY <1>1 DEF Init
<1>2. TypeOK /\ NoOrphans /\ [Next]_vars => NoOrphans'
  <2> SUFFICES ASSUME TypeOK, NoOrphans, [Next]_vars, NEW i \in Incident,
                      presence'[i] # "live"
               PROVE  notes'[i] = <<>> /\ attachments'[i] = {}
    BY DEF NoOrphans, Live
  <2> DEFINE Bare == presence[i] # "live" => notes[i] = <<>> /\ attachments[i] = {}
  <2>0. Bare
    BY DEF NoOrphans, Live
  <2> USE DEF TypeOK
  <2>1. ASSUME NEW r \in Request, NEW j \in Incident, NEW x \in Severity, Create(r, j, x)
        PROVE  notes'[i] = <<>> /\ attachments'[i] = {}
    BY <2>0, <2>1 DEF Create
  <2>2. ASSUME NEW r \in Request, CommitUpdate(r) \/ CommitNote(r) \/ CommitAttachment(r)
        PROVE  notes'[i] = <<>> /\ attachments'[i] = {}
    BY <2>0, <2>2 DEF CommitUpdate, CommitNote, CommitAttachment, HasParent
  <2>3. ASSUME NEW r \in Request, CommitDelete(r) \/ CommitDetach(r)
        PROVE  notes'[i] = <<>> /\ attachments'[i] = {}
    BY <2>0, <2>3 DEF CommitDelete, CommitDetach
  <2>4. ASSUME UNCHANGED <<presence, notes, attachments>>
        PROVE  notes'[i] = <<>> /\ attachments'[i] = {}
    BY <2>0, <2>4
  <2> QED BY <2>1, <2>2, <2>3, <2>4, HangingSteps
<1>3. Init => NoOrphans
  BY <1>1 DEF NoOrphans
<1> QED BY <1>2, <1>3, TypeCorrect, PTL DEF Spec

\* The field of a changed object is the one that was loaded or the one asked for.
Named(r) == req[r].object.severity \in {req[r].loaded.severity, req[r].payload.severity}

LEMMA NextNamed == ASSUME TypeOK, TypeOK', \A r \in Request : Named(r), Next
                   PROVE  \A r \in Request : Named(r)'
<1>1. ASSUME NEW q \in Request, \/ req'[q] = req[q]
                                \/ req'[q] = EmptySession(q, "done")
      PROVE  Named(q)'
  BY <1>1 DEF Named, EmptySession
<1>2. ASSUME NEW r \in Request, Finish(r) PROVE \A q \in Request : Named(q)'
  BY <1>1, <1>2 DEF Finish, TypeOK
<1>3. ASSUME NEW r \in Request, NEW op, NEW i, NEW payload, NEW a, NEW current,
             req' = [req EXCEPT ![r] = Loaded(op, i, payload, a, current)]
      PROVE  \A q \in Request : Named(q)'
  <2>1. Named(r)'
    BY <1>3 DEF Named, Loaded, TypeOK
  <2> QED BY <1>1, <1>3, <2>1 DEF TypeOK
<1>4. ASSUME NEW r \in Request, Apply(r) PROVE \A q \in Request : Named(q)'
  <2>1. CASE Finish(r)
    BY <1>2, <2>1
  <2>2. CASE ~Finish(r)
    <3> DEFINE object == Changed(req[r].loaded, req[r].payload, clock)
    <3>1. req[r].loaded \in Row /\ req[r] \in Session
      BY DEF TypeOK, Session
    <3>2. object.severity \in {req[r].loaded.severity, req[r].payload.severity}
      BY <3>1 DEF Changed, ApplyStatus, Row
    <3> HIDE DEF object
    <3>3. req' = [req EXCEPT ![r] = [@ EXCEPT !.phase = "applied", !.object = object]]
      BY <1>4, <2>2 DEF Apply, object
    <3>4. Named(r)'
      BY <3>1, <3>2, <3>3 DEF Named, TypeOK, Session
    <3> QED BY <1>1, <3>3, <3>4 DEF TypeOK
  <2> QED BY <2>1, <2>2
<1> QED
  BY <1>2, <1>3, <1>4
  DEF Next, Create, Load, NotFound, Reject, CommitUpdate, CommitNote, CommitAttachment,
      CommitDelete, CommitDetach, CommitRefused, LoadAttachment

\* An update gives the field no value but the one its payload names.
THEOREM OnlyNamedFields == Spec => UpdatesTouchOnlyWhatTheyName
<1> DEFINE Names == \A r \in Request : Named(r)
<1>1. Init => Names
  BY DEF Init, Named, EmptySession
<1>2. TypeOK /\ TypeOK' /\ Names /\ [Next]_vars => Names'
  <2>1. UNCHANGED vars /\ Names => Names'
    BY DEF vars, Named
  <2> QED BY <2>1, NextNamed
<1>3. ASSUME TypeOK, Names, Next, NEW i \in Live, row'[i].severity # row[i].severity
      PROVE  \E r \in Request : /\ req[r].phase = "applied" /\ req'[r].phase = "done"
                                /\ req[r].incident = i
                                /\ req[r].payload.severity = row'[i].severity
  <2>1. PICK r \in Request : \/ CommitUpdate(r)
                             \/ \E j \in Incident, x \in Severity : Create(r, j, x)
    BY <1>3 DEF Next, Load, NotFound, Reject, Apply, LoadAttachment, CommitRefused,
                CommitNote, CommitAttachment, CommitDelete, CommitDetach
  <2>2. CASE CommitUpdate(r)
    <3>1. req[r].phase = "applied" /\ req[r].incident = i
      BY <1>3, <2>2 DEF CommitUpdate, TypeOK, Live
    <3>2. req'[r].phase = "done"
      BY <1>3, <2>2 DEF CommitUpdate, Finish, EmptySession, TypeOK
    <3>3. row'[i] = Flush(row[i], req[r].loaded, req[r].object)
      BY <1>3, <2>2, <3>1 DEF CommitUpdate, TypeOK, Live
    <3>4. row'[i].severity = req[r].object.severity /\ req[r].object.severity # req[r].loaded.severity
      BY <1>3, <3>3 DEF Flush
    <3> QED BY <1>3, <3>1, <3>2, <3>4 DEF Named
  <2>3. CASE \E j \in Incident, x \in Severity : Create(r, j, x)
    BY <1>3, <2>3 DEF Create, Live, TypeOK
  <2> QED BY <2>1, <2>2, <2>3
<1>4. TypeOK /\ Names /\ [Next]_vars =>
        [\A i \in Live : row'[i].severity # row[i].severity =>
           \E r \in Request : /\ req[r].phase = "applied" /\ req'[r].phase = "done"
                              /\ req[r].incident = i
                              /\ req[r].payload.severity = row'[i].severity]_vars
  BY <1>3
<1> HIDE DEF Names
<1> QED BY <1>1, <1>2, <1>4, TypeCorrect, PTL DEF Spec, UpdatesTouchOnlyWhatTheyName
-----------------------------------------------------------------------------
(***************************************************************************)
(* The notes tell the moves.  A request writes its note and its entry at   *)
(* once and then is over, so what it wrote can be told from what any other *)
(* request wrote.                                                          *)
(***************************************************************************)
\* The system notes and the status changes are signed by requests of D.
Signed(ns, entries, D) ==
    /\ \A k \in SystemNotes(ns) : ns[k].by \in D
    /\ \A m \in Moves(entries) : entries[m].by \in D

Over == {r \in Request : req[r].phase = "done"}

TrailInv(i) ==
    /\ Signed(notes[i], audit[i], Over)
    /\ presence[i] = "unborn" => Moves(audit[i]) = {}
    /\ presence[i] # "live" => notes[i] = <<>>
    /\ presence[i] = "live" => TellTheMoves(notes[i], audit[i])

\* Notes appended to notes.
LEMMA NotesAppended ==
    ASSUME NEW ns \in Seq(Note), NEW u \in Seq(Note)
    PROVE  /\ DOMAIN (ns \o u) = 1..Len(ns) + Len(u)
           /\ DOMAIN ns = 1..Len(ns) /\ Len(ns) \in Nat /\ Len(u) \in Nat
           /\ \A k \in 1..Len(ns) : (ns \o u)[k] = ns[k]
           /\ \A k \in 1..Len(u) : (ns \o u)[Len(ns) + k] = u[k]
BY ConcatProperties, LenProperties

LEMMA EntriesAppended ==
    ASSUME NEW es \in Seq(Entry), NEW v \in Seq(Entry)
    PROVE  /\ DOMAIN (es \o v) = 1..Len(es) + Len(v)
           /\ DOMAIN es = 1..Len(es) /\ Len(es) \in Nat /\ Len(v) \in Nat
           /\ \A k \in 1..Len(es) : (es \o v)[k] = es[k]
           /\ \A k \in 1..Len(v) : (es \o v)[Len(es) + k] = v[k]
BY ConcatProperties, LenProperties

\* Notes that are nobody's but a user's change no place of a system note.
LEMMA QuietNotes ==
    ASSUME NEW ns \in Seq(Note), NEW u \in Seq(Note), \A k \in 1..Len(u) : ~u[k].is_system
    PROVE  /\ SystemNotes(ns \o u) = SystemNotes(ns)
           /\ \A k \in SystemNotes(ns) : (ns \o u)[k] = ns[k]
<1>1. ASSUME NEW k \in 1..Len(ns) + Len(u), k \notin 1..Len(ns) PROVE ~(ns \o u)[k].is_system
  <2>1. k - Len(ns) \in 1..Len(u) /\ k = Len(ns) + (k - Len(ns))
    BY <1>1, NotesAppended
  <2> QED BY <2>1, NotesAppended
<1> QED BY <1>1, NotesAppended DEF SystemNotes

LEMMA QuietAudit ==
    ASSUME NEW es \in Seq(Entry), NEW v \in Seq(Entry),
           \A k \in 1..Len(v) : v[k].action # "status_change"
    PROVE  /\ Moves(es \o v) = Moves(es)
           /\ \A k \in Moves(es) : (es \o v)[k] = es[k]
<1>1. ASSUME NEW k \in 1..Len(es) + Len(v), k \notin 1..Len(es)
      PROVE  (es \o v)[k].action # "status_change"
  <2>1. k - Len(es) \in 1..Len(v) /\ k = Len(es) + (k - Len(es))
    BY <1>1, EntriesAppended
  <2> QED BY <2>1, EntriesAppended
<1> QED BY <1>1, EntriesAppended DEF Moves

\* What tells of no change leaves the notes and the entries matched as they are.
LEMMA QuietPair ==
    ASSUME NEW ns \in Seq(Note), NEW es \in Seq(Entry), NEW u \in Seq(Note), NEW v \in Seq(Entry),
           \A k \in 1..Len(u) : ~u[k].is_system,
           \A k \in 1..Len(v) : v[k].action # "status_change"
    PROVE  /\ TellTheMoves(ns, es) => TellTheMoves(ns \o u, es \o v)
           /\ \A D : Signed(ns, es, D) => Signed(ns \o u, es \o v, D)
           /\ Moves(es \o v) = Moves(es)
<1> DEFINE nn == ns \o u
           ee == es \o v
<1>1. SystemNotes(nn) = SystemNotes(ns) /\ \A k \in SystemNotes(ns) : nn[k] = ns[k]
  BY QuietNotes
<1>2. Moves(ee) = Moves(es) /\ \A k \in Moves(es) : ee[k] = es[k]
  BY QuietAudit
<1> HIDE DEF nn, ee
<1>3. ASSUME TellTheMoves(ns, es) PROVE TellTheMoves(nn, ee)
  BY <1>1, <1>2, <1>3 DEF TellTheMoves
<1>4. ASSUME NEW D, Signed(ns, es, D) PROVE Signed(nn, ee, D)
  BY <1>1, <1>2, <1>4 DEF Signed
<1> QED BY <1>2, <1>3, <1>4 DEF nn, ee

\* One more change, told by a note and an entry of a request that signed none yet.
LEMMA MovePair ==
    ASSUME NEW ns \in Seq(Note), NEW es \in Seq(Entry), NEW n \in Note, NEW e \in Entry, NEW D,
           n.is_system, e.action = "status_change", TellsOf(n, e),
           Signed(ns, es, D), n.by \notin D, TellTheMoves(ns, es)
    PROVE  /\ TellTheMoves(ns \o <<n>>, es \o <<e>>)
           /\ Signed(ns \o <<n>>, es \o <<e>>, D \cup {n.by})
<1> DEFINE nn == ns \o <<n>>
           ee == es \o <<e>>
           last == Len(ns) + 1
           end == Len(es) + 1
<1>1. /\ SystemNotes(nn) = SystemNotes(ns) \cup {last}
      /\ nn[last] = n /\ last \in Nat
      /\ \A k \in SystemNotes(ns) : nn[k] = ns[k] /\ k \in Nat /\ k < last
  <2>1. <<n>> \in Seq(Note) /\ Len(<<n>>) = 1 /\ <<n>>[1] = n
    OBVIOUS
  <2>2. /\ DOMAIN nn = 1..last /\ DOMAIN ns = 1..Len(ns) /\ Len(ns) \in Nat
        /\ nn[last] = n
        /\ \A k \in 1..Len(ns) : nn[k] = ns[k]
    BY <2>1, NotesAppended
  <2> HIDE DEF nn
  <2> QED BY <2>2 DEF SystemNotes
<1>2. /\ Moves(ee) = Moves(es) \cup {end}
      /\ ee[end] = e /\ end \in Nat
      /\ \A m \in Moves(es) : ee[m] = es[m] /\ m \in Nat /\ m < end
  <2>1. <<e>> \in Seq(Entry) /\ Len(<<e>>) = 1 /\ <<e>>[1] = e
    OBVIOUS
  <2>2. /\ DOMAIN ee = 1..end /\ DOMAIN es = 1..Len(es) /\ Len(es) \in Nat
        /\ ee[end] = e
        /\ \A m \in 1..Len(es) : ee[m] = es[m]
    BY <2>1, EntriesAppended
  <2> HIDE DEF ee
  <2> QED BY <2>2 DEF Moves
<1>3. e.by = n.by
  BY DEF TellsOf
<1> HIDE DEF nn, ee, last, end
<1>4. /\ \A k \in SystemNotes(ns) : ns[k].by # n.by
      /\ \A m \in Moves(es) : es[m].by # n.by
  BY DEF Signed
<1>5. \A k \in SystemNotes(nn) : \E m \in Moves(ee) : TellsOf(nn[k], ee[m])
  BY <1>1, <1>2 DEF TellTheMoves
<1>6. \A m \in Moves(ee) : \E k \in SystemNotes(nn) : TellsOf(nn[k], ee[m])
  BY <1>1, <1>2 DEF TellTheMoves
<1>7. ASSUME NEW k \in SystemNotes(nn), NEW l \in SystemNotes(nn),
             NEW m \in Moves(ee), NEW p \in Moves(ee),
             TellsOf(nn[k], ee[m]), TellsOf(nn[l], ee[p])
      PROVE  k < l <=> m < p
  <2>1. (k = last <=> m = end) /\ (l = last <=> p = end)
    BY <1>1, <1>2, <1>3, <1>4, <1>7 DEF TellsOf
  <2>2. CASE k # last /\ l # last
    BY <1>1, <1>2, <1>7, <2>1, <2>2 DEF TellTheMoves
  <2>3. CASE k = last \/ l = last
    BY <1>1, <1>2, <2>1, <2>3
  <2> QED BY <2>2, <2>3
<1>8. TellTheMoves(nn, ee)
  BY <1>5, <1>6, <1>7 DEF TellTheMoves
<1>9. Signed(nn, ee, D \cup {n.by})
  BY <1>1, <1>2, <1>3 DEF Signed
<1> QED BY <1>8, <1>9 DEF nn, ee

\* A request that is over stays so; a commit ends its request.
LEMMA OverStays ==
    ASSUME TypeOK, [Next]_vars
    PROVE  Over \subseteq Over'
<1> SUFFICES ASSUME NEW q \in Request, req[q].phase = "done" PROVE req'[q].phase = "done"
  BY DEF Over
<1>1. \A r \in Request : EmptySession(r, "done").phase = "done"
  BY DEF EmptySession
<1>2. ASSUME NEW r \in Request, Finish(r) PROVE req'[q].phase = "done"
  BY <1>1, <1>2 DEF Finish, TypeOK
<1>3. ASSUME NEW r \in Request, q # r, NEW h, req' = [req EXCEPT ![r] = h]
      PROVE  req'[q].phase = "done"
  BY <1>3 DEF TypeOK
<1>4. ASSUME NEW r \in Request, NEW i \in Incident, NEW op, NEW payload,
             Load(r, i, op, payload) \/ LoadAttachment(r, i, op)
      PROVE  req'[q].phase = "done"
  BY <1>3, <1>4 DEF Load, LoadAttachment
<1>5. ASSUME NEW r \in Request, Apply(r) PROVE req'[q].phase = "done"
  BY <1>2, <1>3, <1>5 DEF Apply
<1>6. ASSUME NEW r \in Request,
             \/ \E i \in Incident : NotFound(r, i) \/ \E s \in Severity : Create(r, i, s)
             \/ Reject(r) \/ CommitUpdate(r) \/ CommitNote(r) \/ CommitAttachment(r)
             \/ CommitDelete(r) \/ CommitDetach(r) \/ CommitRefused(r)
      PROVE  req'[q].phase = "done"
  <2>1. Finish(r)
    BY <1>6
    DEF NotFound, Create, Reject, CommitUpdate, CommitNote, CommitAttachment, CommitDelete,
        CommitDetach, CommitRefused
  <2> QED BY <1>2, <2>1
<1>7. CASE UNCHANGED vars
  BY <1>7 DEF vars
<1> QED BY <1>4, <1>5, <1>6, <1>7 DEF Next

\* Appending two sequences, the second of which ends in x.
LEMMA OneMore ==
    ASSUME NEW s \in Seq(Entry), NEW t \in Seq(Entry), NEW x \in Entry
    PROVE  (s \o t) \o <<x>> = s \o (t \o <<x>>)
<1> HIDE DEF Entry
<1>1. <<x>> \in Seq(Entry)
  OBVIOUS
<1> QED BY <1>1, ConcatAssociative

\* The trail of an incident that a step leaves alone.
LEMMA TrailUntouched ==
    ASSUME NEW i \in Incident, TrailInv(i), Over \subseteq Over',
           notes'[i] = notes[i], audit'[i] = audit[i], presence'[i] = presence[i]
    PROVE  TrailInv(i)'
BY DEF TrailInv, Signed

\* A commit that tells of no change: the notes it adds are its user's, if any.
LEMMA TrailQuiet ==
    ASSUME TypeOK, NEW i \in Incident, TrailInv(i), Over \subseteq Over',
           NEW u \in Seq(Note), \A k \in 1..Len(u) : ~u[k].is_system,
           NEW e \in Entry, e.action # "status_change",
           audit'[i] = audit[i] \o <<e>>,
           \/ notes'[i] = notes[i] \o u /\ presence'[i] = presence[i] /\ presence[i] = "live"
           \/ notes'[i] = notes[i] /\ presence'[i] = presence[i]
           \/ notes'[i] = notes[i] /\ presence[i] = "unborn" /\ presence'[i] = "live"
           \/ notes'[i] = <<>> /\ presence'[i] = "gone"
    PROVE  TrailInv(i)'
<1>1. notes[i] \in Seq(Note) /\ audit[i] \in Seq(Entry)
  BY DEF TypeOK
<1>2. <<e>> \in Seq(Entry) /\ \A k \in 1..Len(<<e>>) : <<e>>[k].action # "status_change"
  OBVIOUS
<1>3. /\ TellTheMoves(notes[i], audit[i]) => TellTheMoves(notes[i] \o u, audit'[i])
      /\ \A D : Signed(notes[i], audit[i], D) => Signed(notes[i] \o u, audit'[i], D)
      /\ Moves(audit'[i]) = Moves(audit[i])
  <2>1. /\ TellTheMoves(notes[i], audit[i]) => TellTheMoves(notes[i] \o u, audit[i] \o <<e>>)
        /\ \A D : Signed(notes[i], audit[i], D) => Signed(notes[i] \o u, audit[i] \o <<e>>, D)
        /\ Moves(audit[i] \o <<e>>) = Moves(audit[i])
    BY <1>1, <1>2, QuietPair
  <2> QED BY <2>1
<1>4. /\ TellTheMoves(notes[i], audit[i]) => TellTheMoves(notes[i], audit'[i])
      /\ \A D : Signed(notes[i], audit[i], D) => Signed(notes[i], audit'[i], D)
  <2>1. <<>> \in Seq(Note) /\ \A k \in 1..Len(<<>>) : ~<<>>[k].is_system
    OBVIOUS
  <2>2. notes[i] \o <<>> = notes[i]
    BY <1>1, ConcatEmptySeq
  <2>3. /\ TellTheMoves(notes[i], audit[i]) => TellTheMoves(notes[i] \o <<>>, audit[i] \o <<e>>)
        /\ \A D : Signed(notes[i], audit[i], D) => Signed(notes[i] \o <<>>, audit[i] \o <<e>>, D)
    BY <1>1, <1>2, <2>1, QuietPair
  <2> QED BY <2>2, <2>3
<1>5. SystemNotes(<<>>) = {}
  BY DEF SystemNotes
<1>6. ASSUME NEW ns, NEW es, Signed(ns, es, Over) PROVE Signed(ns, es, Over')
  BY <1>6 DEF Signed
<1>7. CASE notes'[i] = notes[i] \o u /\ presence'[i] = presence[i] /\ presence[i] = "live"
  <2>1. Signed(notes'[i], audit'[i], Over')
    BY <1>3, <1>6, <1>7 DEF TrailInv
  <2> QED BY <1>3, <1>7, <2>1 DEF TrailInv
<1>8. CASE notes'[i] = notes[i] /\ presence'[i] = presence[i]
  <2>1. Signed(notes'[i], audit'[i], Over')
    BY <1>4, <1>6, <1>8 DEF TrailInv
  <2> QED BY <1>3, <1>4, <1>8, <2>1 DEF TrailInv
<1>9. CASE notes'[i] = notes[i] /\ presence[i] = "unborn" /\ presence'[i] = "live"
  <2>1. Signed(notes'[i], audit'[i], Over')
    BY <1>4, <1>6, <1>9 DEF TrailInv
  <2>2. Moves(audit'[i]) = {} /\ SystemNotes(notes'[i]) = {}
    BY <1>3, <1>5, <1>9 DEF TrailInv
  <2> QED BY <1>9, <2>1, <2>2 DEF TrailInv, TellTheMoves
<1>10. CASE notes'[i] = <<>> /\ presence'[i] = "gone"
  <2>1. Signed(notes'[i], audit'[i], Over')
    <3>1. Signed(notes[i], audit'[i], Over')
      BY <1>4, <1>6 DEF TrailInv
    <3> QED BY <1>5, <1>10, <3>1 DEF Signed
  <2> QED BY <1>10, <2>1 DEF TrailInv
<1> QED BY <1>7, <1>8, <1>9, <1>10

\* An update adds to the trail its edit and then, if it moved the incident, one entry
\* and one note that tell of the same move.
LEMMA TrailOfUpdate ==
    ASSUME TypeOK, NEW r \in Request, CommitUpdate(r), Over \subseteq Over',
           NEW i \in Incident, i = req[r].incident, TrailInv(i)
    PROVE  TrailInv(i)'
<1> DEFINE e == [action |-> "status_change", from |-> req[r].loaded.status,
                 to |-> req[r].object.status, by |-> r]
           n == [is_system |-> TRUE, from |-> req[r].loaded.status,
                 to |-> req[r].object.status, by |-> r]
           edit == IF req[r].object.severity # req[r].loaded.severity
                   THEN <<Says("update", r)>> ELSE <<>>
<1>1. /\ req[r] \in Session /\ req[r].loaded.status \in Status /\ req[r].object.status \in Status
      /\ notes[i] \in Seq(Note) /\ audit[i] \in Seq(Entry)
  BY DEF TypeOK, Session, Row
<1>2. presence'[i] = presence[i] /\ presence[i] = "live"
  BY DEF CommitUpdate
<1>3. edit \in Seq(Entry) /\ \A k \in 1..Len(edit) : edit[k].action # "status_change"
  <2>1. Says("update", r) \in Entry /\ Says("update", r).action # "status_change"
    BY DEF Says, Entry
  <2>2. /\ <<Says("update", r)>> \in Seq(Entry)
        /\ \A k \in 1..Len(<<Says("update", r)>>) :
              <<Says("update", r)>>[k].action # "status_change"
    <3> HIDE DEF Entry
    <3> QED BY <2>1
  <2>3. <<>> \in Seq(Entry) /\ 1..Len(<<>>) = {}
    OBVIOUS
  <2> QED BY <2>2, <2>3
<1>4. /\ n \in Note /\ n.is_system /\ n.by = r
      /\ e \in Entry /\ e.action = "status_change"
      /\ TellsOf(n, e)
  BY <1>1 DEF Note, Entry, TellsOf
<1>5. r \notin Over /\ r \in Over'
  <2>1. req'[r] = EmptySession(r, "done") /\ req[r].phase = "applied"
    BY DEF CommitUpdate, Finish, TypeOK
  <2> QED BY <2>1 DEF Over, EmptySession
<1>6. /\ audit'[i] = audit[i] \o EntriesOf(r)
      /\ notes'[i] = notes[i] \o NotesOf(r)
  BY DEF CommitUpdate, Record, TypeOK
<1> HIDE DEF edit, e, n
<1>7. PICK es \in Seq(Entry) : es = audit[i] \o edit
  BY <1>1, <1>3, ConcatProperties
<1>8. TellTheMoves(notes[i], es) /\ Signed(notes[i], es, Over)
  <2>1. <<>> \in Seq(Note) /\ \A k \in 1..Len(<<>>) : ~<<>>[k].is_system
    OBVIOUS
  <2>2. notes[i] \o <<>> = notes[i]
    BY <1>1, ConcatEmptySeq
  <2>3. /\ TellTheMoves(notes[i], audit[i]) => TellTheMoves(notes[i] \o <<>>, audit[i] \o edit)
        /\ \A D : Signed(notes[i], audit[i], D) => Signed(notes[i] \o <<>>, audit[i] \o edit, D)
    BY <1>1, <1>3, <2>1, QuietPair
  <2> QED BY <1>2, <1>7, <2>2, <2>3 DEF TrailInv
<1>9. CASE req[r].object.status # req[r].loaded.status
  <2>1. EntriesOf(r) = edit \o <<e>> /\ NotesOf(r) = <<n>>
    BY <1>9 DEF EntriesOf, NotesOf, edit, e, n
  <2>2. audit'[i] = es \o <<e>> /\ notes'[i] = notes[i] \o <<n>>
    <3>1. (audit[i] \o edit) \o <<e>> = audit[i] \o (edit \o <<e>>)
      <4>1. audit[i] \in Seq(Entry) /\ edit \in Seq(Entry) /\ e \in Entry
        BY <1>1, <1>3, <1>4
      <4> HIDE DEF Entry
      <4> QED BY ONLY <4>1, OneMore
    <3>2. audit'[i] = audit[i] \o (edit \o <<e>>)
      BY <1>6, <2>1
    <3>3. audit'[i] = es \o <<e>>
      BY <1>7, <3>1, <3>2
    <3> QED BY <1>6, <2>1, <3>3
  <2>3. /\ TellTheMoves(notes[i] \o <<n>>, es \o <<e>>)
        /\ Signed(notes[i] \o <<n>>, es \o <<e>>, Over \cup {n.by})
    BY <1>1, <1>4, <1>5, <1>7, <1>8, MovePair
  <2>4. Signed(notes'[i], audit'[i], Over \cup {r})
    BY <1>4, <2>2, <2>3
  <2>5. Signed(notes'[i], audit'[i], Over')
    BY <1>5, <2>4 DEF Signed
  <2> QED BY <1>2, <2>2, <2>3, <2>5 DEF TrailInv
<1>10. CASE req[r].object.status = req[r].loaded.status
  <2>1. EntriesOf(r) = edit \o <<>> /\ NotesOf(r) = <<>>
    BY <1>10 DEF EntriesOf, NotesOf, edit
  <2>2. audit'[i] = es /\ notes'[i] = notes[i]
    BY <1>1, <1>3, <1>6, <1>7, <2>1, ConcatEmptySeq
  <2>3. Signed(notes'[i], audit'[i], Over')
    BY <1>8, <2>2 DEF Signed
  <2> QED BY <1>2, <1>8, <2>2, <2>3 DEF TrailInv
<1> QED BY <1>9, <1>10

LEMMA NextTrail ==
    ASSUME TypeOK, \A i \in Incident : TrailInv(i), [Next]_vars
    PROVE  \A i \in Incident : TrailInv(i)'
<1> SUFFICES ASSUME NEW i \in Incident PROVE TrailInv(i)'
  OBVIOUS
<1>1. TrailInv(i) /\ Over \subseteq Over'
  BY OverStays
<1>2. \A r \in Request : req[r].incident \in Incident
  BY DEF TypeOK, Session
<1>3. ASSUME NEW r \in Request, NEW a \in {"update", "delete", "attach", "detach"}
      PROVE  Says(a, r) \in Entry /\ Says(a, r).action # "status_change"
  BY DEF Says, Entry
<1>4. <<>> \in Seq(Note) /\ \A k \in 1..Len(<<>>) : ~<<>>[k].is_system
  OBVIOUS
<1>5. ASSUME NEW r \in Request, NEW j \in Incident, NEW x \in Severity, Create(r, j, x)
      PROVE  TrailInv(i)'
  <2> DEFINE e == [action |-> "create", from |-> "none", to |-> "open", by |-> r]
  <2>1. e \in Entry /\ e.action # "status_change"
    BY DEF Entry, Status
  <2>2. UNCHANGED notes /\ presence[j] = "unborn" /\ presence'[j] = "live"
        /\ audit'[j] = audit[j] \o <<e>>
        /\ (i # j => presence'[i] = presence[i] /\ audit'[i] = audit[i])
    BY <1>5 DEF Create, Record, TypeOK
  <2> HIDE DEF e
  <2> QED BY <1>1, <1>4, <2>1, <2>2, TrailUntouched, TrailQuiet
<1>6. ASSUME NEW r \in Request, CommitUpdate(r) PROVE TrailInv(i)'
  <2>1. i # req[r].incident =>
          /\ presence'[i] = presence[i] /\ audit'[i] = audit[i] /\ notes'[i] = notes[i]
    BY <1>6 DEF CommitUpdate, Record, TypeOK
  <2> QED BY <1>1, <1>6, <2>1, TrailUntouched, TrailOfUpdate
<1>7. ASSUME NEW r \in Request, CommitNote(r) PROVE TrailInv(i)'
  <2> DEFINE n == [is_system |-> FALSE, from |-> "none", to |-> "none", by |-> r]
  <2>1. n \in Note /\ ~n.is_system
    BY DEF Note
  <2> HIDE DEF n
  <2>2. <<n>> \in Seq(Note) /\ \A k \in 1..Len(<<n>>) : ~<<n>>[k].is_system
    BY <2>1
  <2>3. presence'[i] = presence[i]
        /\ (i # req[r].incident => audit'[i] = audit[i] /\ notes'[i] = notes[i])
        /\ (i = req[r].incident => /\ audit'[i] = audit[i] \o <<Says("update", r)>>
                                   /\ notes'[i] = Append(notes[i], n)
                                   /\ presence[i] = "live")
    BY <1>7 DEF CommitNote, HasParent, Record, TypeOK, n
  <2>4. Append(notes[i], n) = notes[i] \o <<n>>
    BY <2>1, AppendIsConcat DEF TypeOK
  <2> QED BY <1>1, <1>3, <2>2, <2>3, <2>4, TrailUntouched, TrailQuiet
<1>8. ASSUME NEW r \in Request, CommitAttachment(r) \/ CommitDetach(r) PROVE TrailInv(i)'
  <2>1. PICK a \in {"attach", "detach"} : Record(req[r].incident, <<Says(a, r)>>)
    BY <1>8 DEF CommitAttachment, CommitDetach
  <2>2. UNCHANGED <<presence, notes>>
        /\ (i # req[r].incident => audit'[i] = audit[i])
        /\ (i = req[r].incident => audit'[i] = audit[i] \o <<Says(a, r)>>)
    BY <1>8, <2>1 DEF CommitAttachment, CommitDetach, Record, TypeOK
  <2> QED BY <1>1, <1>3, <1>4, <2>2, TrailUntouched, TrailQuiet
<1>9. ASSUME NEW r \in Request, CommitDelete(r) PROVE TrailInv(i)'
  <2>1. /\ i # req[r].incident =>
             presence'[i] = presence[i] /\ notes'[i] = notes[i] /\ audit'[i] = audit[i]
        /\ i = req[r].incident =>
             /\ presence'[i] = "gone" /\ notes'[i] = <<>>
             /\ audit'[i] = audit[i] \o <<Says("delete", r)>>
    BY <1>9 DEF CommitDelete, Record, TypeOK
  <2> QED BY <1>1, <1>3, <1>4, <2>1, TrailUntouched, TrailQuiet
<1>10. ASSUME UNCHANGED <<presence, notes, audit>> PROVE TrailInv(i)'
  BY <1>1, <1>10, TrailUntouched
<1>11. CASE UNCHANGED vars
  BY <1>10, <1>11 DEF vars
<1>12. ASSUME NEW r \in Request,
              \/ \E j \in Incident :
                   \/ \E payload \in Payload : Load(r, j, "update", payload)
                   \/ \E op \in {"delete", "note", "attach"} : Load(r, j, op, NothingAsked)
                   \/ \E a \in Request : LoadAttachment(r, j, a)
                   \/ NotFound(r, j)
              \/ Reject(r) \/ Apply(r) \/ CommitRefused(r)
       PROVE  TrailInv(i)'
  <2>1. UNCHANGED <<presence, notes, audit>>
    BY <1>12 DEF Load, LoadAttachment, NotFound, Reject, Apply, CommitRefused
  <2> QED BY <1>10, <2>1
<1> QED BY <1>5, <1>6, <1>7, <1>8, <1>9, <1>11, <1>12 DEF Next

\* The system notes of an incident tell of its audited status changes, each once and
\* in their order, for any number of overlapping requests (update).
THEOREM NotesAreTheMoves == Spec => []NotesTellTheMoves
<1> DEFINE Trails == \A i \in Incident : TrailInv(i)
<1>1. Init => Trails
  <2> SUFFICES ASSUME Init, NEW i \in Incident PROVE TrailInv(i)
    OBVIOUS
  <2>1. presence[i] = "unborn" /\ notes[i] = <<>> /\ audit[i] = <<>>
    BY DEF Init
  <2>2. SystemNotes(<<>>) = {} /\ Moves(<<>>) = {}
    BY DEF SystemNotes, Moves
  <2> QED BY <2>1, <2>2 DEF TrailInv, Signed
<1>2. TypeOK /\ Trails /\ [Next]_vars => Trails'
  BY NextTrail
<1>3. Trails => NotesTellTheMoves
  BY DEF TrailInv, NotesTellTheMoves, Live
<1> HIDE DEF Trails
<1> QED BY <1>1, <1>2, <1>3, TypeCorrect, PTL DEF Spec
-----------------------------------------------------------------------------
(***************************************************************************)
(* No anomaly ever points to an incident that is not there.  With the type *)
(* it is inductive: the foreign key sees the rows a request writes at the  *)
(* time it writes them, and a deletion clears the links as they are by     *)
(* then.                                                                   *)
(***************************************************************************)
LinksInv == LinksTypeOK /\ EvidenceHasItsIncident

\* What a request holds before it has read anything, and after it ended.
LEMMA EmptyLinkingType ==
    ASSUME NEW phase \in {"idle", "done"}
    PROVE  EmptyLinking(phase) \in Linking
  BY DEF EmptyLinking, Linking, Target

LEMMA InitLinks == LinksInit => LinksInv
  BY EmptyLinkingType
  DEF LinksInit, LinksInv, LinksTypeOK, Target, EvidenceHasItsIncident

\* The end of a request is of its type.
LEMMA LinkingEnds ==
    ASSUME LinksTypeOK, NEW r \in Request, EndLinking(r)
    PROVE  linking' \in [Request -> Linking]
  BY EmptyLinkingType DEF LinksTypeOK, EndLinking

\* A step of a session that changes neither incidents nor links.
LEMMA LinksStay ==
    ASSUME LinksInv, UNCHANGED <<presence, link>>, linking' \in [Request -> Linking]
    PROVE  LinksInv'
  BY DEF LinksInv, LinksTypeOK, EvidenceHasItsIncident, Live

\* Moving anomalies keeps the type of the links.
LEMMA MovedType ==
    ASSUME LinksTypeOK, NEW S, NEW t \in Target
    PROVE  Moved(S, t) \in [Anomaly -> Target]
  BY DEF LinksTypeOK, Moved

\* What a session knows of an anomaly is an incident or none.
LEMMA KnownLinkType ==
    ASSUME LinksTypeOK, NEW r \in Request
    PROVE  [a \in Anomaly |-> KnownLink(r, a)] \in [Anomaly -> Target]
  <1>1. linking[r].incident \in Target
    BY DEF LinksTypeOK, Linking
  <1> QED
    BY <1>1 DEF LinksTypeOK, KnownLink

\* A session that fetches anomalies and remembers their links.
LEMMA FetchKeepsLinks ==
    ASSUME LinksInv, NEW r \in Request, UNCHANGED <<presence, link>>,
           linking' = [linking EXCEPT ![r].phase = "fetched",
                              ![r].seen = [a \in Anomaly |-> KnownLink(r, a)]]
    PROVE  LinksInv'
  <1>1. \A seen \in [Anomaly -> Target] :
            [linking[r] EXCEPT !.phase = "fetched", !.seen = seen] \in Linking
    BY DEF LinksInv, LinksTypeOK, Linking
  <1>2. [a \in Anomaly |-> KnownLink(r, a)] \in [Anomaly -> Target]
    BY KnownLinkType DEF LinksInv
  <1>3. linking' \in [Request -> Linking]
    BY <1>1, <1>2 DEF LinksInv, LinksTypeOK
  <1> QED
    BY <1>3, LinksStay

\* The steps before a commit.
LEMMA ReadingKeepsLinks ==
    ASSUME LinksInv, NEW r \in Request,
           \/ \E S \in SUBSET Anomaly : FetchForCreate(r, S)
           \/ \E i \in Incident, op \in {"link", "unlink", "delete"}, S \in SUBSET Anomaly :
                 LoadEvidence(r, i, op, S)
           \/ RejectLinking(r)
           \/ FetchForLink(r)
           \/ FetchForUnlink(r)
           \/ LinkRefused(r)
    PROVE  LinksInv'
  <1>1. ASSUME NEW S \in SUBSET Anomaly, FetchForCreate(r, S) PROVE LinksInv'
    <2>1. \A seen \in [Anomaly -> Target] :
            [linking[r] EXCEPT !.phase = "fetched", !.op = "create", !.asked = S, !.seen = seen]
                \in Linking
      BY <1>1 DEF LinksInv, LinksTypeOK, Linking
    <2>2. linking' \in [Request -> Linking]
      BY <1>1, <2>1 DEF FetchForCreate, LinksInv, LinksTypeOK
    <2> QED
      BY <1>1, <2>2, LinksStay DEF FetchForCreate
  <1>2. ASSUME NEW i \in Incident, NEW op \in {"link", "unlink", "delete"},
               NEW S \in SUBSET Anomaly, LoadEvidence(r, i, op, S)
        PROVE  LinksInv'
    <2>1. Evidence(i) \in SUBSET Anomaly
      BY DEF Evidence
    <2>2. \A E \in SUBSET Anomaly :
            [linking[r] EXCEPT !.phase = "loaded", !.op = op, !.incident = i,
                           !.asked = S, !.loaded = E] \in Linking
      BY <1>2 DEF LinksInv, LinksTypeOK, Linking, Target
    <2>3. linking' \in [Request -> Linking]
      BY <1>2, <2>1, <2>2 DEF LoadEvidence, LinksInv, LinksTypeOK
    <2> QED
      BY <1>2, <2>3, LinksStay DEF LoadEvidence
  <1>3. CASE RejectLinking(r)
    BY <1>3, LinkingEnds, LinksStay DEF RejectLinking, LinksInv
  <1>4. CASE FetchForLink(r)
    BY <1>4, FetchKeepsLinks DEF FetchForLink
  <1>5. CASE FetchForUnlink(r)
    <2>1. CASE AttachedHere(r)
      BY <1>5, <2>1, FetchKeepsLinks DEF FetchForUnlink
    <2>2. CASE ~AttachedHere(r)
      BY <1>5, <2>2, LinkingEnds, LinksStay DEF FetchForUnlink, LinksInv
    <2> QED
      BY <2>1, <2>2
  <1>6. CASE LinkRefused(r)
    BY <1>6, LinkingEnds, LinksStay DEF LinkRefused, LinksInv
  <1> QED
    BY <1>1, <1>2, <1>3, <1>4, <1>5, <1>6

\* The steps that write.
LEMMA CommitKeepsLinks ==
    ASSUME LinksInv, NEW r \in Request,
           \/ \E i \in Incident : CommitCreate(r, i)
           \/ CommitLink(r)
           \/ CommitUnlink(r)
           \/ CommitRelease(r)
    PROVE  LinksInv'
  <1>1. linking[r].incident \in Target /\ linking' \in [Request -> Linking]
    BY LinkingEnds
    DEF LinksInv, LinksTypeOK, Linking, CommitCreate, CommitLink,
        CommitUnlink, CommitRelease
  <1>2. ASSUME NEW i \in Incident, CommitCreate(r, i) PROVE LinksInv'
    <2>1. link' = Moved(linking[r].asked, i) /\ presence' = [presence EXCEPT ![i] = "live"]
      BY <1>2 DEF CommitCreate
    <2>2. LinksTypeOK'
      BY <1>1, <2>1, MovedType DEF LinksInv, LinksTypeOK, Target
    <2>3. EvidenceHasItsIncident'
      BY <2>1 DEF LinksInv, LinksTypeOK, EvidenceHasItsIncident, Live, Moved
    <2> QED
      BY <2>2, <2>3 DEF LinksInv
  <1>3. CASE CommitLink(r)
      <2>1. /\ link' = Moved(Written(r, linking[r].incident), linking[r].incident)
          /\ presence' = presence
      BY <1>3 DEF CommitLink
    <2>2. LinksTypeOK'
      BY <1>1, <2>1, MovedType DEF LinksInv, LinksTypeOK
    <2>3. presence[linking[r].incident] = "live" \/ Written(r, linking[r].incident) = {}
      BY <1>3 DEF CommitLink
    <2>4. EvidenceHasItsIncident'
      BY <1>1, <2>1, <2>3
      DEF LinksInv, LinksTypeOK, EvidenceHasItsIncident, Live, Moved,
          Target
    <2> QED
      BY <2>2, <2>4 DEF LinksInv
  <1>4. CASE CommitUnlink(r)
    <2>1. link' = Moved(Written(r, Nowhere), Nowhere) /\ presence' = presence
      BY <1>4 DEF CommitUnlink
    <2>2. LinksTypeOK'
      BY <1>1, <2>1, MovedType DEF LinksInv, LinksTypeOK, Target
    <2>3. EvidenceHasItsIncident'
      BY <2>1 DEF LinksInv, LinksTypeOK, EvidenceHasItsIncident, Live, Moved
    <2> QED
      BY <2>2, <2>3 DEF LinksInv
  <1>5. CASE CommitRelease(r)
    <2>1. /\ link' = Moved(Released(r), Nowhere)
          /\ presence' = [presence EXCEPT ![linking[r].incident] = "gone"]
      BY <1>5 DEF CommitRelease
    <2>2. LinksTypeOK'
      BY <1>1, <2>1, MovedType DEF LinksInv, LinksTypeOK, Target
    <2>3. ASSUME NEW a \in Anomaly, link'[a] # Nowhere
          PROVE  link'[a] \in Live'
      <3>1. link'[a] = link[a] /\ link[a] # linking[r].incident
        BY <2>1, <2>3 DEF Moved, Released, Evidence
      <3>2. link[a] \in Incident /\ presence[link[a]] = "live"
        BY <2>3, <3>1 DEF LinksInv, EvidenceHasItsIncident, Live
      <3> QED
        BY <2>1, <3>1, <3>2 DEF LinksInv, LinksTypeOK, Live
    <2> QED
      BY <2>2, <2>3 DEF LinksInv, EvidenceHasItsIncident
  <1> QED
    BY <1>2, <1>3, <1>4, <1>5

\* Every step keeps the invariant.
LEMMA NextLinks == LinksInv /\ [LinksNext]_linkVars => LinksInv'
  <1> SUFFICES ASSUME LinksInv, [LinksNext]_linkVars PROVE LinksInv'
    OBVIOUS
  <1>1. CASE UNCHANGED linkVars
    BY <1>1 DEF linkVars, LinksInv, LinksTypeOK, EvidenceHasItsIncident, Live
  <1>2. CASE LinksNext
    <2>1. PICK r \in Request :
            \/ \E S \in SUBSET Anomaly : FetchForCreate(r, S)
            \/ \E i \in Incident, op \in {"link", "unlink", "delete"}, S \in SUBSET Anomaly :
                  LoadEvidence(r, i, op, S)
            \/ RejectLinking(r) \/ FetchForLink(r) \/ FetchForUnlink(r)
            \/ LinkRefused(r)
            \/ \E i \in Incident : CommitCreate(r, i)
            \/ CommitLink(r) \/ CommitUnlink(r) \/ CommitRelease(r)
      BY <1>2 DEF LinksNext
    <2> QED
      BY <2>1, ReadingKeepsLinks, CommitKeepsLinks
  <1> QED
    BY <1>1, <1>2

\* The foreign key, ON DELETE SET NULL: the incident an anomaly is evidence of is
\* there, also when it is deleted while a request is linking to it.
THEOREM EvidenceIsNeverOrphaned == LinksSpec => []EvidenceHasItsIncident
  <1>1. LinksInv => EvidenceHasItsIncident
    BY DEF LinksInv
  <1> QED
    BY <1>1, InitLinks, NextLinks, PTL DEF LinksSpec
=============================================================================
