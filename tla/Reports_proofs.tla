---------------------------- MODULE Reports_proofs ----------------------------
(***************************************************************************)
(* The versions of an incident's reports are 1..n, the reports implement   *)
(* the append-only log, and no report is rated below its assessment        *)
(* without a reason, for any incidents, anomalies and analyses.            *)
(*                                                                         *)
(* A session that has read the highest version inserts its report later.   *)
(* The invariant bounds what it may have read: reports are only added, so  *)
(* the version it holds is at most one beyond those there are; if it is    *)
(* not free any more the unique constraint refuses it.                     *)
(***************************************************************************)
EXTENDS Reports, FiniteSetTheorems, SequenceTheorems, TLAPS

\* A finite set of reports whose versions are 1..n.
Numbered(R) ==
    /\ IsFiniteSet(R)
    /\ {x.version : x \in R} = 1..Cardinality(R)
    /\ \A x, y \in R : x.version = y.version => x = y

\* A session that has read a version of an incident that is still there holds
\* one of its versions or the next one.
HoldsAVersion(r) ==
    req[r].phase = "numbered" /\ presence[req[r].incident] = "live" =>
        req[r].version \in 1..(Cardinality(reports[req[r].incident]) + 1)

\* What SeverityHasItsReason says of a report or of a session that holds one.
Reasonable(x) ==
    /\ x.severity < x.floor => x.argued
    /\ x.adjusted => x.severity = x.floor /\ ~x.argued

IInv ==
    /\ TypeOK
    /\ \A i \in Incident : Numbered(reports[i])
    /\ \A r \in Request : HoldsAVersion(r)
    /\ \A i \in Incident : \A x \in reports[i] : Reasonable(x)
    /\ \A r \in Request : req[r].phase \in {"answered", "numbered"} => Reasonable(req[r])
-----------------------------------------------------------------------------
\* The version an analysis reads is the one after those there are.
LEMMA NextVersionIsNext ==
    ASSUME NEW i \in Incident, Numbered(reports[i])
    PROVE  NextVersion(i) = Cardinality(reports[i]) + 1
  <1> DEFINE n == Cardinality(reports[i])
  <1>1. n \in Nat
    BY FS_CardinalityType DEF Numbered
  <1>2. Versions(i) = 1..n
    BY DEF Numbered, Versions
  <1> HIDE DEF n
  <1>3. CASE n = 0
    BY <1>2, <1>3 DEF NextVersion, n
  <1>4. CASE n # 0
    <2> DEFINE Top(v) == v \in 1..n /\ \A w \in 1..n : w <= v
    <2>1. Top(n)
      BY <1>1, <1>4
    <2>2. \A v : Top(v) => v = n
      BY <1>1, <1>4
    <2>3. (CHOOSE v \in 1..n : \A w \in 1..n : w <= v) = n
      BY <2>1, <2>2
    <2> QED
      BY <1>1, <1>2, <1>4, <2>3 DEF NextVersion, n
  <1> QED
    BY <1>3, <1>4

\* A score has a severity, and so has a set of anomalies that is not empty.
LEMMA FloorType ==
    ASSUME NEW S
    PROVE  Floor(S) \in Severity \cup {NoFloor}
  BY DEF Floor, SeverityOf, SeverityFor, Severity, Info, Low, Medium, High, Critical

LEMMA SeverityIsNumber == Severity \subseteq Int /\ NoFloor \in Int
  BY DEF Severity, Info, Critical, NoFloor

\* The session every request starts with and ends with.
LEMMA EmptySessionType ==
    ASSUME NEW i \in Incident, NEW outcome \in {"none", "stored", "refused", "failed", "conflict"}
    PROVE  /\ EmptySession \in Session
           /\ [EmptySession EXCEPT !.phase = "done", !.outcome = outcome, !.incident = i]
                \in Session
  <1>1. (CHOOSE j \in Incident : TRUE) \in Incident
    BY ConstantsAssumption
  <1>2. Info \in Severity
    BY DEF Severity, Info, Critical
  <1>3. EmptySession \in Session
    BY <1>1, <1>2 DEF EmptySession, Session
  <1> QED
    BY <1>3 DEF Session

\* No reports are numbered, 1..0.
LEMMA NothingIsNumbered == Numbered({})
  <1>1. IsFiniteSet({}) /\ Cardinality({}) = 0
    BY FS_EmptySet
  <1>2. {x.version : x \in {}} = 1..0
    OBVIOUS
  <1> QED
    BY <1>1, <1>2 DEF Numbered

LEMMA InitIInv == Init => IInv
  <1> SUFFICES ASSUME Init PROVE IInv
    OBVIOUS
  <1>1. TypeOK
    BY EmptySessionType, ConstantsAssumption DEF Init, TypeOK
  <1>2. \A i \in Incident : Numbered(reports[i])
    BY NothingIsNumbered DEF Init
  <1> QED
    BY <1>1, <1>2 DEF Init, IInv, HoldsAVersion, EmptySession
-----------------------------------------------------------------------------
\* A request that ends and stores nothing.
LEMMA FinishKeepsIInv ==
    ASSUME IInv, NEW r \in Request,
           NEW outcome \in {"none", "stored", "refused", "failed", "conflict"},
           Finish(r, outcome), UNCHANGED <<presence, linked, reports>>
    PROVE  IInv'
  <1>1. req[r].incident \in Incident
    BY DEF IInv, TypeOK, Session
  <1>2. TypeOK'
    BY <1>1, EmptySessionType DEF IInv, TypeOK, Finish
  <1>3. \A q \in Request \ {r} : req'[q] = req[q]
    BY DEF Finish, IInv, TypeOK
  <1>4. req'[r].phase = "done"
    BY DEF Finish, IInv, TypeOK, EmptySession
  <1> QED
    BY <1>2, <1>3, <1>4 DEF IInv, HoldsAVersion, Reasonable

\* A step that changes the session of r and nothing else keeps the invariant when
\* the new session has its type and what its phase promises.
LEMMA SessionStep ==
    ASSUME IInv, NEW r \in Request, NEW s \in Session,
           req' = [req EXCEPT ![r] = s], UNCHANGED <<presence, linked, reports>>,
           s.phase = "numbered" =>
               s.version \in 1..(Cardinality(reports[s.incident]) + 1),
           s.phase \in {"answered", "numbered"} => Reasonable(s)
    PROVE  IInv'
  <1>1. TypeOK'
    BY DEF IInv, TypeOK
  <1>2. \A q \in Request \ {r} : req'[q] = req[q]
    BY DEF IInv, TypeOK
  <1>3. req'[r] = s
    BY DEF IInv, TypeOK
  <1> QED
    BY <1>1, <1>2, <1>3 DEF IInv, HoldsAVersion, Reasonable

\* The reconciled answer has its reason.
LEMMA AnswerKeepsIInv ==
    ASSUME IInv, NEW r \in Request, NEW severity \in ModelSeverity, NEW argued \in BOOLEAN,
           Answer(r, severity, argued)
    PROVE  IInv'
  <1> DEFINE floor == req[r].floor
             s == [req[r] EXCEPT !.phase = "answered",
                                 !.severity = Reconciled(floor, severity, argued),
                                 !.argued = argued,
                                 !.adjusted = Adjusted(floor, severity, argued)]
  <1>1. req[r] \in Session /\ floor \in Severity \cup {NoFloor}
    BY DEF IInv, TypeOK, Session
  <1>2. severity \in Severity /\ Adjusted(floor, severity, argued) \in BOOLEAN
    BY ConstantsAssumption DEF Adjusted
  <1>3. Reconciled(floor, severity, argued) \in Severity
    BY <1>1, <1>2 DEF Reconciled, Adjusted
  <1>4. s \in Session
    BY <1>1, <1>2, <1>3 DEF Session
  <1>5. req' = [req EXCEPT ![r] = s] /\ UNCHANGED <<presence, linked, reports>>
    BY DEF Answer
  <1>6. /\ s.severity = Reconciled(floor, severity, argued) /\ s.floor = floor
        /\ s.argued = argued /\ s.adjusted = Adjusted(floor, severity, argued)
        /\ s.phase = "answered"
    BY <1>1 DEF Session
  <1> HIDE DEF s
  <1>7. Reconciled(floor, severity, argued) < floor => argued
    BY <1>1, <1>2, SeverityIsNumber
    DEF Reconciled, Adjusted, NoFloor, Severity, Info, Critical
  <1>8. Adjusted(floor, severity, argued) =>
            Reconciled(floor, severity, argued) = floor /\ ~argued
    BY DEF Reconciled, Adjusted
  <1>9. Reasonable(s)
    BY <1>6, <1>7, <1>8 DEF Reasonable
  <1> QED
    BY <1>4, <1>5, <1>6, <1>9, SessionStep

\* The version a session reads is free at that time.
LEMMA NumberKeepsIInv ==
    ASSUME IInv, NEW r \in Request, Number(r)
    PROVE  IInv'
  <1>1. req[r] \in Session /\ req[r].phase = "answered"
    BY DEF IInv, TypeOK, Number
  <1>2. PICK i \in Incident : i = req[r].incident
    BY <1>1 DEF Session
  <1>3. PICK n \in Nat : n = Cardinality(reports[i])
    BY FS_CardinalityType DEF IInv, Numbered
  <1> DEFINE s == [req[r] EXCEPT !.phase = "numbered", !.version = n + 1]
  <1>4. s \in Session /\ s.version = n + 1 /\ s.incident = i
    <2>1. n + 1 \in Nat
      BY <1>3
    <2>2. \A v \in Nat : [req[r] EXCEPT !.phase = "numbered", !.version = v] \in Session
      BY <1>1 DEF Session
    <2>3. s \in Session
      BY <2>1, <2>2
    <2> QED
      BY <1>1, <1>2, <2>3 DEF Session
  <1>5. s.version \in 1..(Cardinality(reports[s.incident]) + 1)
    BY <1>3, <1>4
  <1>6. Reasonable(s)
    BY <1>1 DEF IInv, Reasonable, Session
  <1>7. req' = [req EXCEPT ![r] = s] /\ UNCHANGED <<presence, linked, reports>>
    BY <1>2, <1>3, NextVersionIsNext DEF Number, IInv
  <1> HIDE DEF s
  <1> QED
    BY <1>4, <1>5, <1>6, <1>7, SessionStep

\* A report of the next version extends a set of reports without gaps.
LEMMA AddingTheNext ==
    ASSUME NEW R, Numbered(R), NEW x, x.version = Cardinality(R) + 1
    PROVE  /\ Numbered(R \cup {x})
           /\ Cardinality(R \cup {x}) = Cardinality(R) + 1
  <1>1. PICK n \in Nat : n = Cardinality(R)
    BY FS_CardinalityType DEF Numbered
  <1>2. \A y \in R : y.version \in 1..n
    BY <1>1 DEF Numbered
  <1>3. \A y \in R : y.version # n + 1
    BY <1>2
  <1>4. IsFiniteSet(R \cup {x}) /\ Cardinality(R \cup {x}) = n + 1
    BY <1>1, <1>3, FS_AddElement DEF Numbered
  <1>5. {y.version : y \in R \cup {x}} = {y.version : y \in R} \cup {n + 1}
    BY <1>1
  <1>6. 1..(n + 1) = (1..n) \cup {n + 1}
    OBVIOUS
  <1>7. {y.version : y \in R \cup {x}} = 1..(n + 1)
    BY <1>1, <1>5, <1>6 DEF Numbered
  <1>8. \A y, z \in R \cup {x} : y.version = z.version => y = z
    BY <1>1, <1>3 DEF Numbered
  <1> QED
    BY <1>1, <1>4, <1>7, <1>8 DEF Numbered

\* A report that is stored takes the next version: any other is taken.
LEMMA StoreKeepsIInv ==
    ASSUME IInv, NEW r \in Request, Store(r)
    PROVE  IInv'
  <1>1. req[r] \in Session
    BY DEF IInv, TypeOK
  <1>2. PICK i \in Incident : i = req[r].incident
    BY <1>1 DEF Session
  <1>3. PICK n \in Nat : n = Cardinality(reports[i])
    BY FS_CardinalityType DEF IInv, Numbered
  <1>4. Numbered(reports[i]) /\ Versions(i) = 1..n
    BY <1>3 DEF IInv, Numbered, Versions
  <1>5. req[r].version = n + 1
    <2>1. req[r].version \in 1..(n + 1) /\ req[r].version \notin 1..n
      BY <1>2, <1>3, <1>4 DEF Store, Insertable, IInv, HoldsAVersion
    <2> QED
      BY <2>1
  <1>6. PICK x \in Report : x = ReportOf(r) /\ x.version = n + 1
    <2>1. ReportOf(r) \in Report
      BY <1>1, <1>5 DEF ReportOf, Report, Session
    <2>2. ReportOf(r).version = n + 1
      BY <1>5 DEF ReportOf
    <2> QED
      BY <2>1, <2>2
  <1>7. /\ reports' = [reports EXCEPT ![i] = @ \cup {x}]
        /\ presence' = presence /\ linked' = linked
    BY <1>2, <1>6 DEF Store
  <1>8. reports'[i] = reports[i] \cup {x} /\ \A j \in Incident \ {i} : reports'[j] = reports[j]
    BY <1>7 DEF IInv, TypeOK
  <1>9. TypeOK'
    <2>1. reports' \in [Incident -> SUBSET Report]
      BY <1>7 DEF IInv, TypeOK
    <2>2. req' \in [Request -> Session]
      BY <1>2, EmptySessionType DEF Store, Finish, IInv, TypeOK
    <2> QED
      BY <1>7, <2>1, <2>2 DEF IInv, TypeOK
  <1>10. /\ \A q \in Request \ {r} : req'[q] = req[q]
         /\ req'[r].phase = "done"
    BY DEF Store, Finish, IInv, TypeOK, EmptySession
  <1>11. Numbered(reports'[i]) /\ Cardinality(reports'[i]) = n + 1
    BY <1>3, <1>4, <1>6, <1>8, AddingTheNext
  <1>12. \A j \in Incident : Numbered(reports'[j])
    BY <1>8, <1>11 DEF IInv
  <1>13. \A q \in Request : HoldsAVersion(q)'
    <2> SUFFICES ASSUME NEW q \in Request \ {r}, req[q].phase = "numbered",
                        presence[req[q].incident] = "live"
                 PROVE  req[q].version \in 1..(Cardinality(reports'[req[q].incident]) + 1)
      BY <1>7, <1>10 DEF HoldsAVersion
    <2>1. req[q].version \in 1..(Cardinality(reports[req[q].incident]) + 1)
      BY DEF IInv, HoldsAVersion
    <2>2. req[q].incident \in Incident
      BY DEF IInv, TypeOK, Session
    <2>3. CASE req[q].incident = i
      BY <1>3, <1>11, <2>1, <2>3
    <2>4. CASE req[q].incident # i
      BY <1>8, <2>1, <2>2, <2>4
    <2> QED
      BY <2>3, <2>4
  <1>14. Reasonable(x)
    BY <1>6 DEF Store, IInv, Reasonable, ReportOf
  <1>15. \A j \in Incident : \A y \in reports'[j] : Reasonable(y)
    BY <1>8, <1>14 DEF IInv
  <1>16. \A q \in Request : req'[q].phase \in {"answered", "numbered"} => Reasonable(req'[q])
    BY <1>10 DEF IInv
  <1> QED
    BY <1>9, <1>12, <1>13, <1>15, <1>16 DEF IInv

\* A deletion takes all reports, and what sessions of it hold is void.
LEMMA DeleteKeepsIInv ==
    ASSUME IInv, NEW i \in Incident, Delete(i)
    PROVE  IInv'
  <1>1. TypeOK'
    BY DEF IInv, TypeOK, Delete
  <1>2. /\ reports'[i] = {} /\ presence'[i] = "gone" /\ req' = req
        /\ \A j \in Incident \ {i} : reports'[j] = reports[j] /\ presence'[j] = presence[j]
    BY DEF IInv, TypeOK, Delete
  <1>3. \A j \in Incident : Numbered(reports'[j])
    BY <1>2, NothingIsNumbered DEF IInv
  <1>4. \A q \in Request : req[q].incident \in Incident
    BY DEF IInv, TypeOK, Session
  <1>5. \A q \in Request : HoldsAVersion(q)'
    BY <1>2, <1>4 DEF IInv, HoldsAVersion
  <1>6. \A j \in Incident : \A x \in reports'[j] : Reasonable(x)
    BY <1>2 DEF IInv
  <1> QED
    BY <1>1, <1>2, <1>3, <1>5, <1>6 DEF IInv

\* Every step keeps the invariant.
LEMMA NextIInv == IInv /\ [Next]_vars => IInv'
  <1> SUFFICES ASSUME IInv, [Next]_vars PROVE IInv'
    OBVIOUS
  <1>1. ASSUME NEW r \in Request, NEW i \in Incident, Admit(r, i) PROVE IInv'
    <2> DEFINE s == [req[r] EXCEPT !.phase = "admitted", !.incident = i]
    <2>1. s \in Session /\ s.phase = "admitted"
      BY DEF IInv, TypeOK, Session
    <2>2. req' = [req EXCEPT ![r] = s] /\ UNCHANGED <<presence, linked, reports>>
      BY <1>1 DEF Admit
    <2> HIDE DEF s
    <2> QED
      BY <2>1, <2>2, SessionStep
  <1>2. ASSUME NEW r \in Request, Refuse(r) PROVE IInv'
    BY <1>2, FinishKeepsIInv DEF Refuse
  <1>3. ASSUME NEW r \in Request, Gather(r) PROVE IInv'
    <2> DEFINE s == [req[r] EXCEPT !.phase = "gathered",
                                   !.floor = Floor(linked[req[r].incident])]
    <2>1. CASE presence[req[r].incident] = "live"
      <3>1. s \in Session /\ s.phase = "gathered"
        BY FloorType DEF IInv, TypeOK, Session
      <3>2. req' = [req EXCEPT ![r] = s] /\ UNCHANGED <<presence, linked, reports>>
        BY <1>3, <2>1 DEF Gather
      <3> HIDE DEF s
      <3> QED
        BY <3>1, <3>2, SessionStep
    <2>2. CASE presence[req[r].incident] # "live"
      BY <1>3, <2>2, FinishKeepsIInv DEF Gather
    <2> QED
      BY <2>1, <2>2
  <1>4. ASSUME NEW r \in Request, NEW severity \in ModelSeverity, NEW argued \in BOOLEAN,
               Answer(r, severity, argued)
        PROVE  IInv'
    BY <1>4, AnswerKeepsIInv
  <1>5. ASSUME NEW r \in Request, AnswerFails(r) PROVE IInv'
    BY <1>5, FinishKeepsIInv DEF AnswerFails
  <1>6. ASSUME NEW r \in Request, Number(r) PROVE IInv'
    BY <1>6, NumberKeepsIInv
  <1>7. ASSUME NEW r \in Request, Store(r) PROVE IInv'
    BY <1>7, StoreKeepsIInv
  <1>8. ASSUME NEW r \in Request, StoreRefused(r) PROVE IInv'
    BY <1>8, FinishKeepsIInv DEF StoreRefused
  <1>9. ASSUME NEW i \in Incident, Delete(i) PROVE IInv'
    BY <1>9, DeleteKeepsIInv
  <1>10. ASSUME NEW i \in Incident, NEW S \in SUBSET Anomaly, Relink(i, S) PROVE IInv'
    BY <1>10 DEF Relink, IInv, TypeOK, Numbered, Versions, HoldsAVersion, Reasonable
  <1>11. CASE UNCHANGED vars
    BY <1>11 DEF vars, IInv, TypeOK, Numbered, Versions, HoldsAVersion, Reasonable
  <1> QED
    BY <1>1, <1>2, <1>3, <1>4, <1>5, <1>6, <1>7, <1>8, <1>9, <1>10, <1>11 DEF Next

LEMMA Invariance == Spec => []IInv
  BY InitIInv, NextIInv, PTL DEF Spec
-----------------------------------------------------------------------------
\* Every reachable state is of its type.
THEOREM TypeCorrect == Spec => []TypeOK
  <1>1. IInv => TypeOK
    BY DEF IInv
  <1> QED
    BY <1>1, Invariance, PTL

\* analyze_incident: each analysis is a new version of its incident, 1, 2, 3 and so
\* on, however many analyses of it run at once and whichever of them fail.
THEOREM VersionsHaveNoGaps == Spec => []VersionsAreGapless
  <1>1. IInv => VersionsAreGapless
    <2> SUFFICES ASSUME IInv, NEW i \in Incident
                 PROVE  /\ \E n \in 0..Cardinality(reports[i]) : Versions(i) = 1..n
                        /\ \A x, y \in reports[i] : x.version = y.version => x = y
      BY DEF VersionsAreGapless
    <2>1. Numbered(reports[i])
      BY DEF IInv
    <2>2. Cardinality(reports[i]) \in Nat
      BY <2>1, FS_CardinalityType DEF Numbered
    <2> QED
      BY <2>1, <2>2 DEF Numbered, Versions
  <1> QED
    BY <1>1, Invariance, PTL

\* reconcile_severity: no stored report rates its incident below its assessment
\* unless the model argued for it.
THEOREM SeverityIsReasoned == Spec => []SeverityHasItsReason
  <1>1. IInv => SeverityHasItsReason
    BY DEF IInv, SeverityHasItsReason, Reasonable
  <1> QED
    BY <1>1, Invariance, PTL
-----------------------------------------------------------------------------
(***************************************************************************)
(* The table of reports implements the log.                                *)
(***************************************************************************)
\* A set of reports in the order of their versions.
Listing(R) == [v \in 1..Cardinality(R) |-> {x \in R : x.version = v}]

LEMMA ListingType ==
    ASSUME NEW R \in SUBSET Report, IsFiniteSet(R)
    PROVE  /\ Listing(R) \in Seq(SUBSET Report)
           /\ Len(Listing(R)) = Cardinality(R)
           /\ \A v \in 1..Cardinality(R) : Listing(R)[v] = {x \in R : x.version = v}
  <1>1. PICK n \in Nat : n = Cardinality(R)
    BY FS_CardinalityType
  <1>2. Listing(R) = [v \in 1..n |-> {x \in R : x.version = v}]
    BY <1>1 DEF Listing
  <1>3. Listing(R) \in [1..n -> SUBSET Report]
    BY <1>2
  <1>4. Listing(R) \in Seq(SUBSET Report)
    BY <1>3, SeqDef
  <1>5. DOMAIN Listing(R) = 1..Len(Listing(R)) /\ Len(Listing(R)) \in Nat
    BY <1>4, LenProperties
  <1>6. Len(Listing(R)) = n
    <2>1. DOMAIN Listing(R) = 1..n
      BY <1>3
    <2>2. \A m \in Nat : Cardinality(1..m) = m
      <3> SUFFICES ASSUME NEW m \in Nat PROVE Cardinality(1..m) = m
        OBVIOUS
      <3>1. 1 \in Int /\ m \in Int
        OBVIOUS
      <3>2. Cardinality(1..m) = IF 1 > m THEN 0 ELSE m - 1 + 1
        BY <3>1, FS_Interval, Zenon
      <3> QED BY <3>2
    <2>3. PICK l : l = Len(Listing(R))
      OBVIOUS
    <2>4. DOMAIN Listing(R) = 1..l /\ l \in Nat
      BY <1>5, <2>3, Zenon
    <2>5. 1..l = 1..n
      BY <2>1, <2>4, Zenon
    <2>6. Cardinality(1..l) = l /\ Cardinality(1..n) = n
      BY <2>2, <2>4
    <2> QED BY <2>3, <2>5, <2>6, Zenon
  <1> QED BY <1>1, <1>2, <1>4, <1>6

\* Adding the next report appends it to the list.
LEMMA ListingGrows ==
    ASSUME NEW R \in SUBSET Report, Numbered(R), NEW x \in Report,
           x.version = Cardinality(R) + 1
    PROVE  Listing(R \cup {x}) = Append(Listing(R), {x})
  <1>1. PICK n \in Nat : n = Cardinality(R)
    BY FS_CardinalityType DEF Numbered
  <1>2. IsFiniteSet(R \cup {x}) /\ Cardinality(R \cup {x}) = n + 1 /\ IsFiniteSet(R)
    BY <1>1, AddingTheNext DEF Numbered
  <1>3. \A y \in R : y.version \in 1..n
    BY <1>1 DEF Numbered
  <1> DEFINE old == Listing(R)
             new == Listing(R \cup {x})
  <1>4. /\ old \in Seq(SUBSET Report) /\ Len(old) = n
        /\ \A v \in 1..n : old[v] = {y \in R : y.version = v}
    BY <1>1, <1>2, ListingType
  <1>5. /\ new \in Seq(SUBSET Report) /\ Len(new) = n + 1
        /\ \A v \in 1..(n + 1) : new[v] = {y \in R \cup {x} : y.version = v}
    BY <1>2, ListingType
  <1> HIDE DEF old, new
  <1>6. /\ Append(old, {x}) \in Seq(SUBSET Report) /\ Len(Append(old, {x})) = n + 1
        /\ \A v \in 1..n : Append(old, {x})[v] = old[v]
        /\ Append(old, {x})[n + 1] = {x}
    BY <1>4, AppendProperties
  <1>7. ASSUME NEW v \in 1..(n + 1) PROVE new[v] = Append(old, {x})[v]
    <2>1. CASE v = n + 1
      <3>1. \A y \in R : y.version # v
        BY <1>3, <2>1
      <3>2. {y \in R \cup {x} : y.version = v} = {x}
        BY <1>1, <2>1, <3>1
      <3> QED BY <1>5, <1>6, <2>1, <3>2
    <2>2. CASE v # n + 1
      <3>1. v \in 1..n /\ x.version # v
        BY <1>1, <2>2
      <3>2. {y \in R \cup {x} : y.version = v} = {y \in R : y.version = v}
        BY <3>1
      <3>3. new[v] = {y \in R \cup {x} : y.version = v}
        BY <1>5
      <3>4. old[v] = {y \in R : y.version = v} /\ Append(old, {x})[v] = old[v]
        BY <1>4, <1>6, <3>1
      <3> QED BY <3>2, <3>3, <3>4
    <2> QED BY <2>1, <2>2
  <1>8. new = Append(old, {x})
    BY <1>5, <1>6, <1>7, SeqEqual
  <1> QED BY <1>8 DEF old, new

\* A report that is stored is the next one.
LEMMA StoresTheNext ==
    ASSUME IInv, NEW r \in Request, Store(r)
    PROVE  LET i == req[r].incident
           IN  /\ i \in Incident /\ ReportOf(r) \in Report
               /\ ReportOf(r).version = Cardinality(reports[i]) + 1
               /\ reports' = [reports EXCEPT ![i] = @ \cup {ReportOf(r)}]
  <1>1. req[r] \in Session
    BY DEF IInv, TypeOK
  <1>2. PICK i \in Incident : i = req[r].incident
    BY <1>1 DEF Session
  <1>3. PICK n \in Nat : n = Cardinality(reports[i])
    BY FS_CardinalityType DEF IInv, Numbered
  <1>4. Versions(i) = 1..n
    BY <1>3 DEF IInv, Numbered, Versions
  <1>5. req[r].version \in 1..(n + 1) /\ req[r].version \notin 1..n
    BY <1>2, <1>3, <1>4 DEF Store, Insertable, IInv, HoldsAVersion
  <1>6. req[r].version = n + 1
    BY <1>5
  <1>7. ReportOf(r) \in Report /\ ReportOf(r).version = n + 1
    BY <1>1, <1>6 DEF ReportOf, Report, Session
  <1> QED BY <1>2, <1>3, <1>7 DEF Store

LogNow == [i \in Incident |-> LogOf(i)]

LEMMA StoreIsPublish ==
    ASSUME IInv, NEW r \in Request, Store(r)
    PROVE  Log!Next
  <1>1. PICK i \in Incident, x \in Report :
          /\ x.version = Cardinality(reports[i]) + 1
          /\ reports' = [reports EXCEPT ![i] = @ \cup {x}]
    BY StoresTheNext
  <1>2. /\ reports'[i] = reports[i] \cup {x}
        /\ \A j \in Incident \ {i} : reports'[j] = reports[j]
        /\ reports[i] \in SUBSET Report /\ Numbered(reports[i])
    BY <1>1 DEF IInv, TypeOK
  <1>3. /\ Listing(reports'[i]) = Append(Listing(reports[i]), {x})
        /\ \A j \in Incident \ {i} : Listing(reports'[j]) = Listing(reports[j])
    BY <1>1, <1>2, ListingGrows
  <1>4. Listing(reports[i]) \in Seq(SUBSET Report)
    BY <1>2, ListingType DEF Numbered
  <1> DEFINE before == [j \in Incident |-> Listing(reports[j])]
             after == [j \in Incident |-> Listing(reports'[j])]
  <1>5. before = LogNow /\ after = LogNow'
    BY DEF LogNow, LogOf, Listing
  <1>6. /\ after[i] = Append(before[i], {x})
        /\ \A j \in Incident \ {i} : after[j] = before[j]
        /\ DOMAIN after = Incident /\ DOMAIN before = Incident
        /\ after = [j \in Incident |-> after[j]] /\ before = [j \in Incident |-> before[j]]
        /\ before[i] \in Seq(SUBSET Report)
    BY <1>3, <1>4
  <1> HIDE DEF before, after
  <1>7. /\ Len(after[i]) = Len(before[i]) + 1
        /\ after[i][Len(after[i])] = {x}
    BY <1>6, AppendProperties
  <1>8. after = [before EXCEPT ![i] = Append(@, after[i][Len(after[i])])]
    BY <1>6, <1>7
  <1> QED BY <1>5, <1>7, <1>8 DEF Log!Next, Log!Publish, LogNow

LEMMA DeleteIsDiscard ==
    ASSUME IInv, NEW i \in Incident, Delete(i)
    PROVE  Log!Next
  <1>1. /\ reports'[i] = {}
        /\ \A j \in Incident \ {i} : reports'[j] = reports[j]
    BY DEF IInv, TypeOK, Delete
  <1>2. Listing({}) = <<>>
    <2>1. IsFiniteSet({}) /\ Cardinality({}) = 0
      BY FS_EmptySet
    <2>2. Listing({}) \in Seq(SUBSET Report) /\ Len(Listing({})) = 0
      BY <2>1, ListingType
    <2> QED BY <2>2, EmptySeq
  <1> DEFINE before == [j \in Incident |-> Listing(reports[j])]
             after == [j \in Incident |-> Listing(reports'[j])]
  <1>3. before = LogNow /\ after = LogNow'
    BY DEF LogNow, LogOf, Listing
  <1>4. after = [before EXCEPT ![i] = <<>>]
    BY <1>1, <1>2
  <1> HIDE DEF before, after
  <1> QED BY <1>3, <1>4 DEF Log!Next, Log!Discard, LogNow

\* Nothing else changes what is stored.
LEMMA ReportsChange ==
    ASSUME [Next]_vars, reports' # reports
    PROVE  (\E r \in Request : Store(r)) \/ \E i \in Incident : Delete(i)
  <1>1. ASSUME NEW r, NEW i, NEW severity, NEW argued, NEW S,
               \/ Admit(r, i) \/ Refuse(r) \/ Gather(r) \/ Answer(r, severity, argued)
               \/ AnswerFails(r) \/ Number(r) \/ StoreRefused(r) \/ Relink(i, S)
        PROVE  FALSE
    BY <1>1 DEF Admit, Refuse, Gather, Answer, AnswerFails, Number, StoreRefused, Relink
  <1> QED BY <1>1 DEF Next, vars

\* The table of reports implements the append-only log: an analysis adds the next
\* version and changes nothing that was stored.
THEOREM ReportsImplementLog == Spec => ImplementsLog
  <1>1. Init => Log!Init
    <2> SUFFICES ASSUME Init PROVE \A i \in Incident : LogOf(i) = <<>>
      BY DEF Log!Init
    <2>1. IsFiniteSet({}) /\ Cardinality({}) = 0
      BY FS_EmptySet
    <2>2. Listing({}) \in Seq(SUBSET Report) /\ Len(Listing({})) = 0
      BY <2>1, ListingType
    <2>3. Listing({}) = <<>>
      BY <2>2, EmptySeq
    <2> QED BY <2>3 DEF Init, LogOf, Listing
  <1>2. IInv /\ [Next]_vars => [Log!Next]_LogNow
    <2> SUFFICES ASSUME IInv, [Next]_vars PROVE Log!Next \/ LogNow' = LogNow
      OBVIOUS
    <2>1. CASE reports' = reports
      BY <2>1 DEF LogNow, LogOf
    <2>2. CASE reports' # reports
      <3>1. (\E r \in Request : Store(r)) \/ \E i \in Incident : Delete(i)
        BY <2>2, ReportsChange
      <3> QED BY <3>1, StoreIsPublish, DeleteIsDiscard
    <2> QED BY <2>1, <2>2
  <1> QED
    BY <1>1, <1>2, Invariance, PTL DEF Spec, ImplementsLog, Log!Spec, LogNow
=============================================================================
