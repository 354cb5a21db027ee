--------------------------- MODULE Ingestion_proofs ---------------------------
(***************************************************************************)
(* A source's running total is the number of its entries, its jobs count   *)
(* what was stored and its health is that of its last telling upload, for  *)
(* any sources, files, uploads and batch size.                             *)
(*                                                                         *)
(* The first equation is not inductive, since a commit adds at once what   *)
(* was inserted batch by batch.  The invariant adds what an upload under   *)
(* way holds: exactly the accepted lines that are not left, none of them   *)
(* stored yet, because entries belong to uploads that are done.            *)
(***************************************************************************)
EXTENDS Ingestion, FiniteSetTheorems, SequenceTheorems, TLAPS

\* The entries are of uploads that were answered.
Settled == \A e \in entries : req[e.upload].phase = "done"

\* An upload holds the rows of the batches it has inserted.
HoldsItsBatches(u) ==
    /\ req[u].left \subseteq Accepted(req[u].file)
    /\ req[u].held = RowsOf(u, Accepted(req[u].file) \ req[u].left)

IInv ==
    /\ TypeOK
    /\ IsFiniteSet(entries)
    /\ CountersAddUp
    /\ Settled
    /\ \A u \in Upload : req[u].phase = "inserting" => HoldsItsBatches(u)
-----------------------------------------------------------------------------
\* Some lines of a file are a finite set of line numbers.
LEMMA LinesAreFinite ==
    ASSUME NEW f \in File, NEW kinds
    PROVE  /\ LinesOf(f, kinds) \subseteq Nat
           /\ IsFiniteSet(LinesOf(f, kinds))
           /\ Cardinality(LinesOf(f, kinds)) \in Nat
  <1>1. f.lines \in Seq(LineKind)
    BY FileAssumption DEF FileType
  <1>2. DOMAIN f.lines = 1..Len(f.lines) /\ Len(f.lines) \in Nat
    BY <1>1
  <1>3. LinesOf(f, kinds) \in SUBSET (1..Len(f.lines))
    BY <1>2 DEF LinesOf
  <1>4. IsFiniteSet(1..Len(f.lines))
    <2>1. 1 \in Int /\ Len(f.lines) \in Int
      BY <1>2
    <2> QED
      BY <2>1, FS_Interval, Zenon
  <1>5. IsFiniteSet(LinesOf(f, kinds))
    BY <1>3, <1>4, FS_Subset
  <1> QED
    BY <1>2, <1>3, <1>5, FS_CardinalityType

\* As many rows as lines.
LEMMA RowsCount ==
    ASSUME NEW s, NEW u, NEW lines, IsFiniteSet(lines)
    PROVE  LET rows == [source : {s}, upload : {u}, line : lines]
           IN  IsFiniteSet(rows) /\ Cardinality(rows) = Cardinality(lines)
  <1> DEFINE rows == [source : {s}, upload : {u}, line : lines]
             rowOf == [k \in lines |-> [source |-> s, upload |-> u, line |-> k]]
  <1>1. rowOf \in [lines -> rows]
    OBVIOUS
  <1>2. \A j, k \in lines : rowOf[j] = rowOf[k] => j = k
    OBVIOUS
  <1>3. \A e \in rows : e.line \in lines /\ rowOf[e.line] = e
    OBVIOUS
  <1>4. rowOf \in Bijection(lines, rows)
    BY <1>1, <1>2, <1>3 DEF Bijection, Injection, Surjection, IsInjective
  <1>5. ExistsBijection(lines, rows)
    BY <1>4 DEF ExistsBijection
  <1> QED
    BY <1>5, FS_Bijection

\* The cardinality of two finite sets that share no element.
LEMMA DisjointCount ==
    ASSUME NEW S, NEW T, IsFiniteSet(S), IsFiniteSet(T), S \cap T = {}
    PROVE  IsFiniteSet(S \cup T) /\ Cardinality(S \cup T) = Cardinality(S) + Cardinality(T)
  <1>1. Cardinality(S \cap T) = 0
    BY FS_EmptySet
  <1> QED
    BY <1>1, FS_Union, FS_CardinalityType

LEMMA EmptySessionType ==
    ASSUME NEW phase \in {"idle", "done", "lost"}
    PROVE  EmptySession(phase) \in Session
  BY ConstantsAssumption DEF EmptySession, Session

LEMMA InitIInv == Init => IInv
  <1> SUFFICES ASSUME Init PROVE IInv
    OBVIOUS
  <1>1. req \in [Upload -> Session]
    BY EmptySessionType DEF Init
  <1>2. TypeOK
    BY <1>1 DEF Init, TypeOK, NewSource, SourceRow
  <1>3. IsFiniteSet(entries) /\ Settled
    BY FS_EmptySet DEF Init, Settled
  <1>4. CountersAddUp
    BY FS_EmptySet DEF Init, CountersAddUp, StoredOf, NewSource
  <1>5. \A u \in Upload : req[u].phase # "inserting"
    BY DEF Init, EmptySession
  <1> QED
    BY <1>2, <1>3, <1>4, <1>5 DEF IInv
-----------------------------------------------------------------------------
\* A step that stores no entry and changes the session of one upload, which is
\* not done yet.
LEMMA SessionStep ==
    ASSUME IInv, UNCHANGED entries, registered' \subseteq Source,
           jobs' \in [Source -> Seq(Job)], source' \in [Source -> SourceRow],
           \A s \in Source : source'[s].events = source[s].events,
           NEW u \in Upload, req[u].phase # "done",
           NEW session \in Session, req' = [req EXCEPT ![u] = session],
           session.phase = "inserting" =>
              /\ session.left \subseteq Accepted(session.file)
              /\ session.held = [source : {session.source}, upload : {u},
                                 line : Accepted(session.file) \ session.left]
    PROVE  IInv'
  <1>1. TypeOK'
    BY DEF IInv, TypeOK
  <1>2. Settled'
    BY DEF IInv, Settled, TypeOK, Entry
  <1>3. CountersAddUp' /\ IsFiniteSet(entries')
    BY DEF IInv, CountersAddUp, StoredOf
  <1>4. ASSUME NEW v \in Upload, req'[v].phase = "inserting" PROVE HoldsItsBatches(v)'
    <2>1. CASE v = u
      BY <1>4, <2>1 DEF IInv, TypeOK, HoldsItsBatches, RowsOf, Accepted, LinesOf
    <2>2. CASE v # u
      <3>1. req'[v] = req[v] /\ HoldsItsBatches(v)
        BY <1>4, <2>2 DEF IInv, TypeOK
      <3> QED
        BY <3>1 DEF HoldsItsBatches, RowsOf, Accepted, LinesOf
    <2> QED
      BY <2>1, <2>2
  <1> QED
    BY <1>1, <1>2, <1>3, <1>4 DEF IInv

\* The job of an upload is of its type.
LEMMA JobType ==
    ASSUME TypeOK, NEW u \in Upload
    PROVE  JobOf(u) \in Job
  <1> DEFINE f == req[u].file
  <1>1. f \in File
    BY DEF TypeOK, Session
  <1>2. /\ Cardinality(Records(f)) \in Nat
        /\ Cardinality(Accepted(f)) \in Nat
        /\ Rejected(f) \in Nat
    BY <1>1, LinesAreFinite DEF Records, Accepted, Rejected
  <1>3. ErrorSample(f) \subseteq Nat
    BY <1>1, LinesAreFinite DEF ErrorSample, FirstOf
  <1>4. StatusOf(f) \in {"completed", "partial", "failed"}
    BY DEF StatusOf
  <1> QED
    BY <1>1, <1>2, <1>3, <1>4 DEF JobOf, Job

LEMMA JobsType ==
    ASSUME TypeOK, NEW u \in Upload, NEW s \in Source,
           jobs' = [jobs EXCEPT ![s] = Append(@, JobOf(u))]
    PROVE  jobs' \in [Source -> Seq(Job)]
  <1>1. Append(jobs[s], JobOf(u)) \in Seq(Job)
    BY JobType DEF TypeOK
  <1> QED
    BY <1>1 DEF TypeOK
-----------------------------------------------------------------------------
\* The steps that end an upload without a trace.
LEMMA EndKeepsIInv ==
    ASSUME IInv, NEW u \in Upload, Reject(u) \/ InsertRefused(u) \/ Lost(u)
    PROVE  IInv'
  <1>1. PICK phase \in {"done", "lost"} : req' = [req EXCEPT ![u] = EmptySession(phase)]
    BY DEF Reject, InsertRefused, Lost, Finish
  <1>2. EmptySession(phase) \in Session /\ EmptySession(phase).phase # "inserting"
    BY <1>1, EmptySessionType DEF EmptySession
  <1>3. /\ UNCHANGED <<registered, source, entries, jobs>>
        /\ req[u].phase # "done"
    BY DEF Reject, InsertRefused, Lost
  <1> QED
    BY <1>1, <1>2, <1>3, SessionStep DEF IInv, TypeOK

LEMMA BeginKeepsIInv ==
    ASSUME IInv, NEW u \in Upload, NEW s \in Source, NEW f \in File, Begin(u, s, f)
    PROVE  IInv'
  <1> DEFINE phase == IF Readable(f) THEN "inserting" ELSE "failing"
             left == IF Readable(f) THEN Accepted(f) ELSE {}
  <1>1. PICK session : session = [phase |-> phase, source |-> s, file |-> f,
                                  seen |-> source[s].events, left |-> left, held |-> {}]
    OBVIOUS
  <1>2. left \subseteq Nat
    BY LinesAreFinite DEF Accepted
  <1>3. source[s].events \in Nat
    BY DEF IInv, TypeOK, SourceRow
  <1>4. session \in Session
    BY <1>1, <1>2, <1>3 DEF Session
  <1>5. req' = [req EXCEPT ![u] = session]
    BY <1>1 DEF Begin
  <1>6. session.phase = "inserting" =>
           /\ session.left = Accepted(session.file)
           /\ session.held = {}
    BY <1>1
  <1>7. /\ UNCHANGED <<registered, source, entries, jobs>>
        /\ req[u].phase # "done"
    BY DEF Begin
  <1> QED
    BY <1>4, <1>5, <1>6, <1>7, SessionStep DEF IInv, TypeOK

LEMMA InsertBatchKeepsIInv ==
    ASSUME IInv, NEW u \in Upload, InsertBatch(u)
    PROVE  IInv'
  <1>1. PICK batch : batch = Batch(u)
    OBVIOUS
  <1>2. PICK session : session = [req[u] EXCEPT !.left = @ \ batch,
                                                !.held = @ \cup RowsOf(u, batch)]
    OBVIOUS
  <1>3. batch \subseteq req[u].left
    BY <1>1 DEF Batch, FirstOf
  <1>4. req[u] \in Session /\ HoldsItsBatches(u) /\ req[u].phase = "inserting"
    BY DEF IInv, TypeOK, InsertBatch
  <1>5. RowsOf(u, batch) \subseteq Entry
    BY <1>3, <1>4 DEF RowsOf, Entry, Session
  <1>6. session \in Session
    BY <1>2, <1>4, <1>5 DEF Session
  <1>7. req' = [req EXCEPT ![u] = session]
    BY <1>1, <1>2 DEF InsertBatch, IInv, TypeOK
  <1>8. /\ session.left \subseteq Accepted(session.file)
        /\ session.held = [source : {session.source}, upload : {u},
                           line : Accepted(session.file) \ session.left]
    <2> DEFINE accepted == Accepted(req[u].file)
    <2>1. /\ session.file = req[u].file /\ session.source = req[u].source
          /\ session.left = req[u].left \ batch
          /\ session.held = req[u].held \cup RowsOf(u, batch)
      BY <1>2, <1>4 DEF Session
    <2>2. req[u].left \subseteq accepted /\ req[u].held = RowsOf(u, accepted \ req[u].left)
      BY <1>4 DEF HoldsItsBatches
    <2>3. accepted \ session.left = (accepted \ req[u].left) \cup batch
      BY <1>3, <2>1, <2>2
    <2>4. \A old : RowsOf(u, old \cup batch) = RowsOf(u, old) \cup RowsOf(u, batch)
      BY DEF RowsOf
    <2>5. session.held = RowsOf(u, accepted \ session.left)
      BY <2>1, <2>2, <2>3, <2>4
    <2> QED
      BY <2>1, <2>2, <2>5 DEF RowsOf
  <1>9. UNCHANGED <<registered, source, entries, jobs>>
    BY DEF InsertBatch
  <1> QED
    BY <1>4, <1>6, <1>7, <1>8, <1>9, SessionStep DEF IInv, TypeOK

LEMMA CommitFailureKeepsIInv ==
    ASSUME IInv, NEW u \in Upload, CommitFailure(u)
    PROVE  IInv'
  <1>1. req[u].source \in Source
    BY DEF IInv, TypeOK, Session
  <1>2. jobs' \in [Source -> Seq(Job)]
    BY <1>1, JobsType DEF CommitFailure, IInv
  <1>3. /\ source' \in [Source -> SourceRow]
        /\ \A s \in Source : source'[s].events = source[s].events
    BY <1>1 DEF CommitFailure, IInv, TypeOK, SourceRow
  <1>4. EmptySession("done") \in Session /\ EmptySession("done").phase # "inserting"
    BY EmptySessionType DEF EmptySession
  <1>5. /\ UNCHANGED <<registered, entries>>
        /\ req[u].phase # "done"
        /\ req' = [req EXCEPT ![u] = EmptySession("done")]
    BY DEF CommitFailure, Finish
  <1> QED
    BY <1>2, <1>3, <1>4, <1>5, SessionStep DEF IInv, TypeOK

\* The commit stores a row for every accepted line, none of which was there.
LEMMA CommitKeepsIInv ==
    ASSUME IInv, NEW u \in Upload, Commit(u)
    PROVE  IInv'
  <1>0. PICK s \in Source, f \in File : s = req[u].source /\ f = req[u].file
    BY DEF IInv, TypeOK, Session
  <1> DEFINE rows == [source : {s}, upload : {u}, line : Accepted(f)]
  <1>1. req[u].phase = "inserting"
    BY DEF Commit
  <1>2. req[u].held = rows
    BY <1>1, <1>0 DEF IInv, HoldsItsBatches, RowsOf, Commit, BatchLeft
  <1>3. IsFiniteSet(Accepted(f)) /\ Accepted(f) \subseteq Nat /\ Cardinality(Accepted(f)) \in Nat
    BY LinesAreFinite DEF Accepted
  <1>4. IsFiniteSet(rows) /\ Cardinality(rows) = Cardinality(Accepted(f))
    BY <1>3, RowsCount
  <1>5. entries' = entries \cup rows /\ rows \subseteq Entry
    BY <1>2, <1>3 DEF Commit, Entry
  <1>6. entries \cap rows = {}
    BY <1>1 DEF IInv, Settled
  <1>7. \A t \in Source : IsFiniteSet(StoredOf(t)) /\ StoredOf(t) \subseteq entries
    <2>1. \A t \in Source : StoredOf(t) \in SUBSET entries
      BY DEF StoredOf
    <2> QED
      BY <2>1, FS_Subset DEF IInv
  <1>8. source' = [source EXCEPT ![s] = Updated(u)]
    BY <1>0 DEF Commit
  <1>9. /\ Updated(u) \in SourceRow
        /\ Updated(u).events = source[s].events + Cardinality(Accepted(f))
    <2>1. source[s] \in SourceRow
      BY DEF IInv, TypeOK
    <2>2. Accepted(f) = {} => Cardinality(Accepted(f)) = 0
      BY FS_EmptySet
    <2> QED
      BY <1>3, <1>0, <2>1, <2>2 DEF Updated, EventsAfter, SourceRow
  <1>10. IsFiniteSet(entries')
    BY <1>4, <1>5, FS_Union DEF IInv
  <1>11. CountersAddUp'
    <2>1. ASSUME NEW t \in Source, t # s
          PROVE  source'[t].events = Cardinality(StoredOf(t)')
      <3>1. StoredOf(t)' = StoredOf(t)
        BY <1>5, <2>1 DEF StoredOf
      <3> QED
        BY <1>8, <2>1, <3>1 DEF IInv, TypeOK, CountersAddUp
    <2>2. source'[s].events = Cardinality(StoredOf(s)')
      <3>1. StoredOf(s)' = StoredOf(s) \cup rows
        BY <1>5 DEF StoredOf
      <3>2. StoredOf(s) \cap rows = {}
        BY <1>6 DEF StoredOf
      <3>3. Cardinality(StoredOf(s) \cup rows) = Cardinality(StoredOf(s)) + Cardinality(rows)
        BY <1>4, <1>7, <3>2, DisjointCount
      <3>4. source'[s].events = source[s].events + Cardinality(Accepted(f))
        BY <1>8, <1>9 DEF IInv, TypeOK
      <3> QED
        BY <1>4, <3>1, <3>3, <3>4 DEF IInv, CountersAddUp
    <2> QED
      BY <2>1, <2>2 DEF CountersAddUp
  <1>12. req' = [req EXCEPT ![u] = EmptySession("done")] /\ registered' = registered
    BY DEF Commit, Finish
  <1>13. EmptySession("done") \in Session /\ EmptySession("done").phase = "done"
    BY EmptySessionType DEF EmptySession
  <1>14. TypeOK'
    <2>1. jobs' \in [Source -> Seq(Job)]
      BY <1>0, JobsType DEF Commit, IInv
    <2> QED
      BY <1>5, <1>8, <1>9, <1>12, <1>13, <2>1 DEF IInv, TypeOK
  <1>15. Settled'
    BY <1>5, <1>12, <1>13 DEF IInv, Settled, TypeOK, Entry
  <1>16. ASSUME NEW v \in Upload, req'[v].phase = "inserting" PROVE HoldsItsBatches(v)'
    <2>1. req'[v] = req[v] /\ HoldsItsBatches(v)
      BY <1>12, <1>13, <1>16 DEF IInv, TypeOK
    <2> QED
      BY <2>1 DEF HoldsItsBatches, RowsOf, Accepted, LinesOf
  <1> QED
    BY <1>10, <1>11, <1>14, <1>15, <1>16 DEF IInv

LEMMA RegisterKeepsIInv ==
    ASSUME IInv, NEW s \in Source, Register(s)
    PROVE  IInv'
  <1>1. /\ UNCHANGED <<source, entries, jobs, req>>
        /\ registered' = registered \cup {s}
    BY DEF Register
  <1> QED
    BY <1>1 DEF IInv, TypeOK, CountersAddUp, StoredOf, Settled, HoldsItsBatches, RowsOf,
                Accepted, LinesOf

LEMMA NextKeepsIInv == IInv /\ [Next]_vars => IInv'
  <1> SUFFICES ASSUME IInv, [Next]_vars PROVE IInv'
    OBVIOUS
  <1>1. CASE UNCHANGED vars
    BY <1>1 DEF vars, IInv, TypeOK, CountersAddUp, StoredOf, Settled, HoldsItsBatches, RowsOf,
                Accepted, LinesOf
  <1>2. ASSUME NEW s \in Source, Register(s) PROVE IInv'
    BY <1>2, RegisterKeepsIInv
  <1>3. ASSUME NEW u \in Upload, Reject(u) \/ InsertRefused(u) \/ Lost(u) PROVE IInv'
    BY <1>3, EndKeepsIInv
  <1>4. ASSUME NEW u \in Upload, NEW s \in Source, NEW f \in File, Begin(u, s, f) PROVE IInv'
    BY <1>4, BeginKeepsIInv
  <1>5. ASSUME NEW u \in Upload, InsertBatch(u) PROVE IInv'
    BY <1>5, InsertBatchKeepsIInv
  <1>6. ASSUME NEW u \in Upload, Commit(u) PROVE IInv'
    BY <1>6, CommitKeepsIInv
  <1>7. ASSUME NEW u \in Upload, CommitFailure(u) PROVE IInv'
    BY <1>7, CommitFailureKeepsIInv
  <1> QED
    BY <1>1, <1>2, <1>3, <1>4, <1>5, <1>6, <1>7 DEF Next
-----------------------------------------------------------------------------
\* Every reachable state of ingestion is of its type, and the running total of
\* every source is the number of its stored entries, however many uploads overlap,
\* are refused or are lost.
THEOREM TotalsAddUp == Spec => [](TypeOK /\ CountersAddUp)
  <1>1. IInv => TypeOK /\ CountersAddUp
    BY DEF IInv
  <1> QED
    BY <1>1, InitIInv, NextKeepsIInv, PTL DEF Spec
-----------------------------------------------------------------------------
(***************************************************************************)
(* Every job's numbers.  The rank of a line among the lines of its kind    *)
(* counts them, so a sample cut off at a rank has as many as it may.       *)
(***************************************************************************)
LEMMA FirstCount ==
    ASSUME NEW L \in SUBSET Nat, IsFiniteSet(L), NEW n \in Nat
    PROVE  /\ IsFiniteSet(FirstOf(L, n)) /\ FirstOf(L, n) \subseteq L
           /\ Cardinality(FirstOf(L, n)) = IF Cardinality(L) < n THEN Cardinality(L) ELSE n
  <1> DEFINE upTo(k) == {j \in L : j <= k}
             size == Cardinality(L)
             rank == [k \in L |-> Cardinality(upTo(k))]
             m == IF size < n THEN size ELSE n
  <1>1. size \in Nat /\ m \in Nat /\ m <= size
    BY FS_CardinalityType
  <1>2. \A k \in L : /\ IsFiniteSet(upTo(k)) /\ Cardinality(upTo(k)) \in Nat
                     /\ Cardinality(upTo(k)) <= size /\ Cardinality(upTo(k)) # 0
    <2> SUFFICES ASSUME NEW k \in L
                 PROVE  /\ IsFiniteSet(upTo(k)) /\ Cardinality(upTo(k)) \in Nat
                        /\ Cardinality(upTo(k)) <= size /\ Cardinality(upTo(k)) # 0
      OBVIOUS
    <2>1. upTo(k) \in SUBSET L /\ k \in upTo(k)
      OBVIOUS
    <2> HIDE DEF upTo
    <2>2. IsFiniteSet(upTo(k)) /\ Cardinality(upTo(k)) <= size
      BY <2>1, FS_Subset
    <2> QED BY <2>1, <2>2, FS_CardinalityType, FS_EmptySet
  <1>3. ASSUME NEW j \in L, NEW k \in L, j < k PROVE Cardinality(upTo(j)) # Cardinality(upTo(k))
    <2>0. \A i \in L : i \in Nat
      OBVIOUS
    <2>1. \A i \in upTo(j) : i \in upTo(k)
      BY <1>3, <2>0
    <2>2. k \in upTo(k) /\ k \notin upTo(j)
      BY <1>3, <2>0
    <2> HIDE DEF upTo
    <2>3. upTo(j) \in SUBSET upTo(k) /\ upTo(j) # upTo(k)
      BY <2>1, <2>2
    <2> QED BY <1>2, <2>3, FS_Subset
  <1> HIDE DEF upTo, size
  <1>4. rank \in [L -> 1..size]
    BY <1>1, <1>2
  <1>5. \A j, k \in L : rank[j] = rank[k] => j = k
    BY <1>3
  <1>6. rank \in Injection(L, 1..size)
    BY <1>4, <1>5 DEF Injection, IsInjective
  <1>7. \A b \in Nat : IsFiniteSet(1..b) /\ Cardinality(1..b) = b
    <2> SUFFICES ASSUME NEW b \in Nat PROVE IsFiniteSet(1..b) /\ Cardinality(1..b) = b
      OBVIOUS
    <2>1. 1 \in Int /\ b \in Int
      OBVIOUS
    <2>2. IsFiniteSet(1..b) /\ Cardinality(1..b) = IF 1 > b THEN 0 ELSE b - 1 + 1
      BY <2>1, FS_Interval, Zenon
    <2> QED BY <2>2
  <1>8. rank \in Surjection(L, 1..size)
    BY <1>1, <1>6, <1>7, FS_Injection DEF size
  <1> DEFINE first == FirstOf(L, n)
             place == [k \in first |-> rank[k]]
  <1>9. first = {k \in L : rank[k] <= n}
    BY DEF FirstOf, upTo
  <1>10. first \in SUBSET L /\ \A k \in L : k \in first <=> rank[k] \in 1..m
    BY <1>1, <1>4, <1>9
  <1> HIDE DEF rank, first, m
  <1>11. IsFiniteSet(first)
    BY <1>10, FS_Subset
  <1>12. place \in [first -> 1..m] /\ \A j, k \in first : place[j] = place[k] => j = k
    BY <1>5, <1>10
  <1>13. \A t \in 1..m : \E k \in first : place[k] = t
    <2> SUFFICES ASSUME NEW t \in 1..m PROVE \E k \in first : place[k] = t
      OBVIOUS
    <2>1. t \in 1..size
      BY <1>1
    <2>2. PICK k \in L : rank[k] = t
      BY <1>8, <2>1 DEF Surjection
    <2> QED BY <1>10, <2>2
  <1>14. place \in Bijection(first, 1..m)
    BY <1>12, <1>13 DEF Bijection, Injection, Surjection, IsInjective
  <1>15. ExistsBijection(first, 1..m)
    BY <1>14 DEF ExistsBijection
  <1>16. Cardinality(first) = m
    BY <1>1, <1>7, <1>11, <1>15, FS_Bijection
  <1> QED BY <1>10, <1>11, <1>16 DEF first, m, size

\* The sample of errors is as full as it may be.
LEMMA SampleCount ==
    ASSUME NEW f \in File
    PROVE  Cardinality(ErrorSample(f)) = IF Rejected(f) < MaxErrors THEN Rejected(f)
                                         ELSE MaxErrors
  <1> DEFINE broken == LinesOf(f, {"broken"})
             undated == LinesOf(f, {"undated"})
  <1>1. /\ broken \in SUBSET Nat /\ IsFiniteSet(broken) /\ Cardinality(broken) \in Nat
        /\ undated \in SUBSET Nat /\ IsFiniteSet(undated) /\ Cardinality(undated) \in Nat
    BY LinesAreFinite
  <1>2. broken \cap undated = {}
    BY DEF LinesOf
  <1>3. Rejected(f) = Cardinality(broken) + Cardinality(undated)
    BY DEF Rejected
  <1>4. ErrorSample(f) = FirstOf(broken, MaxErrors)
                           \cup FirstOf(undated, MaxErrors - Cardinality(FirstOf(broken, MaxErrors)))
    BY DEF ErrorSample
  <1> HIDE DEF broken, undated
  <1>5. MaxErrors \in Nat
    BY ConstantsAssumption
  <1>6. PICK B : B = FirstOf(broken, MaxErrors)
    OBVIOUS
  <1>7. /\ IsFiniteSet(B) /\ B \subseteq broken
        /\ Cardinality(B) = IF Cardinality(broken) < MaxErrors THEN Cardinality(broken)
                            ELSE MaxErrors
    BY <1>1, <1>5, <1>6, FirstCount
  <1>8. PICK room \in Nat : room = MaxErrors - Cardinality(B)
    BY <1>1, <1>5, <1>7
  <1>9. PICK U : U = FirstOf(undated, room)
    OBVIOUS
  <1>10. /\ IsFiniteSet(U) /\ U \subseteq undated
         /\ Cardinality(U) = IF Cardinality(undated) < room THEN Cardinality(undated) ELSE room
    BY <1>1, <1>9, FirstCount
  <1>11. Cardinality(B \cup U) = Cardinality(B) + Cardinality(U)
    BY <1>2, <1>7, <1>10, DisjointCount
  <1>12. ErrorSample(f) = B \cup U
    BY <1>4, <1>6, <1>8, <1>9
  <1> QED BY <1>1, <1>3, <1>5, <1>7, <1>8, <1>10, <1>11, <1>12

\* Every record is accepted or rejected.
LEMMA RecordsCount ==
    ASSUME NEW f \in File
    PROVE  Cardinality(Records(f)) = Cardinality(Accepted(f)) + Rejected(f)
  <1> DEFINE broken == LinesOf(f, {"broken"})
             undated == LinesOf(f, {"undated"})
             accepted == LinesOf(f, {"event", "unstorable"})
  <1>1. IsFiniteSet(broken) /\ IsFiniteSet(undated) /\ IsFiniteSet(accepted)
    BY LinesAreFinite
  <1>2. \A k \in DOMAIN f.lines : f.lines[k] \in LineKind
    BY FileAssumption DEF FileType
  <1>3. Records(f) = accepted \cup (broken \cup undated)
    BY <1>2 DEF Records, LinesOf, LineKind
  <1>4. accepted \cap (broken \cup undated) = {} /\ broken \cap undated = {}
    BY DEF LinesOf
  <1>5. Accepted(f) = accepted /\ Rejected(f) = Cardinality(broken) + Cardinality(undated)
    BY DEF Accepted, Rejected
  <1> HIDE DEF broken, undated, accepted
  <1>6. /\ IsFiniteSet(broken \cup undated)
        /\ Cardinality(broken \cup undated) = Cardinality(broken) + Cardinality(undated)
    BY <1>1, <1>4, DisjointCount
  <1>7. Cardinality(accepted \cup (broken \cup undated))
          = Cardinality(accepted) + Cardinality(broken \cup undated)
    BY <1>1, <1>4, <1>6, DisjointCount
  <1> QED BY <1>3, <1>5, <1>6, <1>7
-----------------------------------------------------------------------------
\* The entries of source s that upload u stored.
UploadedTo(s, u) == {e \in StoredOf(s) : e.upload = u}

\* What a committed job says, and that its upload is over.
Tells(s, job) ==
    /\ req[job.upload].phase = "done"
    /\ job.accepted = Cardinality(UploadedTo(s, job.upload))
    /\ job.total = job.accepted + job.rejected
    /\ (job.status = "completed") <=> (job.accepted > 0 /\ job.rejected = 0)
    /\ Cardinality(job.errors) = IF job.rejected < MaxErrors THEN job.rejected ELSE MaxErrors

JInv ==
    /\ \A s \in Source : \A k \in 1..Len(jobs[s]) : Tells(s, jobs[s][k])
    /\ \A e \in entries : \E k \in 1..Len(jobs[e.source]) : jobs[e.source][k].upload = e.upload

LEMMA JobAt ==
    ASSUME TypeOK, NEW s \in Source, NEW k \in 1..Len(jobs[s])
    PROVE  jobs[s][k] \in Job
  <1>1. jobs[s] \in Seq(Job)
    BY DEF TypeOK
  <1> QED BY <1>1, ElementOfSeq

\* The numbers of an upload's job, when it stored a row for every accepted line.
LEMMA JobNumbers ==
    ASSUME TypeOK, NEW u \in Upload, req[u].phase \in {"inserting", "failing"}
    PROVE  LET job == JobOf(u)
           IN  /\ job.upload = u
               /\ job.accepted = IF req[u].phase = "failing" THEN 0
                                 ELSE Cardinality(Accepted(req[u].file))
               /\ job.total = job.accepted + job.rejected
               /\ (job.status = "completed") <=> (job.accepted > 0 /\ job.rejected = 0)
               /\ Cardinality(job.errors) = IF job.rejected < MaxErrors THEN job.rejected
                                            ELSE MaxErrors
  <1>1. PICK f \in File : f = req[u].file
    BY DEF TypeOK, Session
  <1>2. CASE req[u].phase = "failing"
    <2>1. Cardinality({}) = 0 /\ MaxErrors \in Nat
      BY FS_EmptySet, ConstantsAssumption
    <2> QED BY <1>2, <2>1 DEF JobOf
  <1>3. CASE req[u].phase = "inserting"
    <2>1. /\ JobOf(u).upload = u /\ JobOf(u).status = StatusOf(f)
          /\ JobOf(u).total = Cardinality(Records(f))
          /\ JobOf(u).accepted = Cardinality(Accepted(f))
          /\ JobOf(u).rejected = Rejected(f) /\ JobOf(u).errors = ErrorSample(f)
      BY <1>1, <1>3 DEF JobOf
    <2>2. /\ Cardinality(Accepted(f)) \in Nat /\ Rejected(f) \in Nat
          /\ Accepted(f) = {} <=> Cardinality(Accepted(f)) = 0
      BY LinesAreFinite, FS_EmptySet DEF Accepted, Rejected
    <2>3. StatusOf(f) = "completed" <=> Accepted(f) # {} /\ Rejected(f) = 0
      BY <2>2 DEF StatusOf
    <2> QED BY <1>1, <1>3, <2>1, <2>2, <2>3, SampleCount, RecordsCount
  <1> QED BY <1>2, <1>3

\* A commit adds a job, and no row to what another upload stored.
LEMMA JobStep ==
    ASSUME IInv, JInv, NEW u \in Upload, req[u].phase \in {"inserting", "failing"},
           NEW s \in Source, NEW rows, entries' = entries \cup rows,
           \A e \in rows : e.source = s /\ e.upload = u,
           jobs' = [jobs EXCEPT ![s] = Append(@, JobOf(u))],
           req' = [req EXCEPT ![u] = EmptySession("done")],
           Cardinality(rows) = IF req[u].phase = "failing" THEN 0
                               ELSE Cardinality(Accepted(req[u].file)),
           rows = {} \/ req[u].phase = "inserting"
    PROVE  JInv'
  <1>1. /\ JobOf(u).upload = u /\ JobOf(u) \in Job
        /\ JobOf(u).accepted = Cardinality(rows)
    BY JobNumbers, JobType DEF IInv
  <1>2. \A v \in Upload : req'[v].phase = IF v = u THEN "done" ELSE req[v].phase
    BY DEF IInv, TypeOK, EmptySession
  <1>3. \A e \in entries : e.upload \in Upload /\ e.source \in Source /\ e.upload # u
    BY DEF IInv, TypeOK, Entry, Settled
  <1>4. \A t \in Source, v \in Upload :
          UploadedTo(t, v)' = IF t = s /\ v = u THEN rows ELSE UploadedTo(t, v)
    <2> SUFFICES ASSUME NEW t \in Source, NEW v \in Upload
                 PROVE  UploadedTo(t, v)' = IF t = s /\ v = u THEN rows ELSE UploadedTo(t, v)
      OBVIOUS
    <2>1. UploadedTo(t, v)' = {e \in entries \cup rows : e.source = t /\ e.upload = v}
      BY DEF UploadedTo, StoredOf
    <2>2. UploadedTo(t, v) = {e \in entries : e.source = t /\ e.upload = v}
      BY DEF UploadedTo, StoredOf
    <2> QED BY <1>3, <2>1, <2>2
  <1>5. /\ jobs[s] \in Seq(Job) /\ jobs'[s] = Append(jobs[s], JobOf(u))
        /\ \A t \in Source : t # s => jobs'[t] = jobs[t]
        /\ \A t \in Source : jobs[t] \in Seq(Job)
    BY DEF IInv, TypeOK
  <1>6. /\ Len(jobs[s]) \in Nat /\ Len(jobs'[s]) = Len(jobs[s]) + 1
        /\ \A k \in 1..Len(jobs[s]) : jobs'[s][k] = jobs[s][k]
        /\ jobs'[s][Len(jobs[s]) + 1] = JobOf(u)
    BY <1>1, <1>5
  <1>7. ASSUME NEW t \in Source, NEW k \in 1..Len(jobs[t]), NEW job, job = jobs[t][k]
        PROVE  Tells(t, job)'
    <2>1. Tells(t, job) /\ job.upload \in Upload
      BY <1>7, JobAt DEF JInv, IInv, Job
    <2>2. job.upload # u /\ req'[job.upload].phase = "done"
      BY <1>2, <2>1 DEF Tells
    <2> QED BY <1>4, <2>1, <2>2 DEF Tells
  <1>8. ASSUME NEW job, job = JobOf(u) PROVE Tells(s, job)'
    <2>1. UploadedTo(s, u)' = rows /\ req'[u].phase = "done" /\ job.upload = u
      BY <1>1, <1>2, <1>4, <1>8
    <2>2. /\ job.accepted = Cardinality(rows)
          /\ job.total = job.accepted + job.rejected
          /\ (job.status = "completed") <=> (job.accepted > 0 /\ job.rejected = 0)
          /\ Cardinality(job.errors) = IF job.rejected < MaxErrors THEN job.rejected
                                       ELSE MaxErrors
      BY <1>1, <1>8, JobNumbers DEF IInv
    <2> QED BY <2>1, <2>2 DEF Tells
  <1>9. ASSUME NEW t \in Source, NEW k \in 1..Len(jobs'[t])
        PROVE  Tells(t, jobs[t][k])'
    <2>1. CASE t # s
      BY <1>5, <1>7, <1>9, <2>1
    <2>2. CASE t = s /\ k \in 1..Len(jobs[s])
      BY <1>6, <1>7, <2>2
    <2>3. CASE t = s /\ k = Len(jobs[s]) + 1
      BY <1>6, <1>8, <2>3
    <2> QED BY <1>6, <1>9, <2>1, <2>2, <2>3
  <1>10. ASSUME NEW e \in entries'
         PROVE  \E k \in 1..Len(jobs'[e.source]) : jobs'[e.source][k].upload = e.upload
    <2>1. CASE e \in rows
      BY <1>1, <1>6, <2>1
    <2>2. CASE e \in entries
      <3>1. PICK k \in 1..Len(jobs[e.source]) : jobs[e.source][k].upload = e.upload
        BY <2>2 DEF JInv
      <3>2. k \in 1..Len(jobs'[e.source]) /\ jobs'[e.source][k] = jobs[e.source][k]
        BY <1>3, <1>5, <1>6, <2>2, <3>1
      <3> QED BY <3>1, <3>2
    <2> QED BY <1>10, <2>1, <2>2
  <1> QED BY <1>9, <1>10 DEF JInv

LEMMA NextJInv == IInv /\ JInv /\ [Next]_vars => JInv'
  <1> SUFFICES ASSUME IInv, JInv, [Next]_vars PROVE JInv'
    OBVIOUS
  <1>1. ASSUME UNCHANGED <<entries, jobs>>,
               \A u \in Upload : req[u].phase = "done" => req'[u].phase = "done"
        PROVE  JInv'
    <2>1. \A s \in Source : \A k \in 1..Len(jobs[s]) : jobs[s][k].upload \in Upload
      <3> SUFFICES ASSUME NEW s \in Source, NEW k \in 1..Len(jobs[s])
                   PROVE  jobs[s][k].upload \in Upload
        OBVIOUS
      <3> QED BY JobAt DEF IInv, Job
    <2> QED BY <1>1, <2>1 DEF JInv, Tells, UploadedTo, StoredOf
  <1>2. ASSUME NEW u \in Upload, Commit(u) PROVE JInv'
    <2>1. PICK s \in Source, f \in File : s = req[u].source /\ f = req[u].file
      BY DEF IInv, TypeOK, Session
    <2>2. req[u].phase = "inserting" /\ HoldsItsBatches(u) /\ req[u].left = {}
      BY <1>2 DEF IInv, Commit, BatchLeft
    <2>3. req[u].held = [source : {s}, upload : {u}, line : Accepted(f)]
      BY <2>1, <2>2 DEF HoldsItsBatches, RowsOf
    <2>4. IsFiniteSet(Accepted(f))
      BY LinesAreFinite DEF Accepted
    <2>5. Cardinality(req[u].held) = Cardinality(Accepted(f))
      <3>1. PICK rows : rows = [source : {s}, upload : {u}, line : Accepted(f)]
        OBVIOUS
      <3>2. Cardinality(rows) = Cardinality(Accepted(f))
        BY <2>4, <3>1, RowsCount, Zenon
      <3> QED BY <2>3, <3>1, <3>2
    <2>6. \A e \in req[u].held : e.source = s /\ e.upload = u
      BY <2>3
    <2>7. /\ entries' = entries \cup req[u].held
          /\ jobs' = [jobs EXCEPT ![s] = Append(@, JobOf(u))]
          /\ req' = [req EXCEPT ![u] = EmptySession("done")]
      BY <1>2, <2>1 DEF Commit, Finish
    <2> QED BY <2>1, <2>2, <2>5, <2>6, <2>7, JobStep
  <1>3. ASSUME NEW u \in Upload, CommitFailure(u) PROVE JInv'
    <2>1. req[u].source \in Source /\ req[u].phase = "failing"
      BY <1>3 DEF IInv, TypeOK, Session, CommitFailure
    <2>2. PICK rows : rows = {}
      OBVIOUS
    <2>3. /\ entries' = entries \cup rows /\ \A e \in rows : FALSE
          /\ jobs' = [jobs EXCEPT ![req[u].source] = Append(@, JobOf(u))]
          /\ req' = [req EXCEPT ![u] = EmptySession("done")]
      BY <1>3, <2>2 DEF CommitFailure, Finish
    <2>4. Cardinality(rows) = 0
      BY <2>2, FS_EmptySet
    <2> QED BY <2>1, <2>2, <2>3, <2>4, JobStep
  <1>4. ASSUME NEW u \in Upload,
               \/ Reject(u) \/ InsertBatch(u) \/ InsertRefused(u) \/ Lost(u)
               \/ \E s \in Source, f \in File : Begin(u, s, f)
        PROVE  JInv'
    <2>1. UNCHANGED <<entries, jobs>> /\ req[u].phase # "done"
      BY <1>4 DEF Reject, InsertBatch, InsertRefused, Lost, Begin
    <2>2. \A v \in Upload : v # u => req'[v] = req[v]
      BY <1>4 DEF Reject, InsertBatch, InsertRefused, Lost, Begin, Finish, IInv, TypeOK
    <2> QED BY <1>1, <2>1, <2>2
  <1>5. ASSUME NEW s \in Source, Register(s) PROVE JInv'
    BY <1>1, <1>5 DEF Register
  <1>6. CASE UNCHANGED vars
    BY <1>1, <1>6 DEF vars
  <1> QED BY <1>2, <1>3, <1>4, <1>5, <1>6 DEF Next

\* Every job's numbers are those of its file, with as many entries stored as it
\* says were accepted, and every entry has its job.
THEOREM JobsAreTruthful == Spec => []JobsTellWhatWasStored
  <1>1. Init => JInv
    BY DEF Init, JInv
  <1>2. IInv /\ JInv => JobsTellWhatWasStored
    <2> SUFFICES ASSUME IInv, JInv PROVE JobsTellWhatWasStored
      OBVIOUS
    <2>1. \A s \in Source : DOMAIN jobs[s] = 1..Len(jobs[s])
      BY DEF IInv, TypeOK
    <2>2. \A e \in entries : e.source \in Source
      BY DEF IInv, TypeOK, Entry
    <2> QED BY <2>1, <2>2 DEF JInv, Tells, UploadedTo, JobsTellWhatWasStored
  <1> QED
    BY <1>1, <1>2, InitIInv, NextKeepsIInv, NextJInv, PTL DEF Spec
-----------------------------------------------------------------------------
(***************************************************************************)
(* The health of a source.                                                 *)
(***************************************************************************)
\* Only a file that could be read is inserted from, and only one that could not
\* marks its source.
Sorted == \A u \in Upload :
    /\ req[u].phase = "inserting" => Readable(req[u].file)
    /\ req[u].phase = "failing" => ~Readable(req[u].file)

\* A commit whose job tells something leaves the row that job calls for; one whose
\* job tells nothing leaves the row alone.
LEMMA HealthStep ==
    ASSUME TypeOK, SourceShowsItsLastUpload, NEW s \in Source, NEW job \in Job,
           jobs' = [jobs EXCEPT ![s] = Append(@, job)],
           \A t \in Source \ {s} : source'[t] = source[t],
           Telling(job) => ShowsUpload(s, job)',
           ~Telling(job) => source'[s] = source[s]
    PROVE  SourceShowsItsLastUpload'
  <1>1. /\ jobs[s] \in Seq(Job) /\ jobs'[s] = Append(jobs[s], job)
        /\ \A t \in Source \ {s} : jobs'[t] = jobs[t]
    BY DEF TypeOK
  <1> PICK n \in Nat : n = Len(jobs[s])
    BY <1>1
  <1>2. /\ Len(jobs'[s]) = n + 1 /\ jobs'[s][n + 1] = job
        /\ \A k \in 1..n : jobs'[s][k] = jobs[s][k]
    BY <1>1
  <1>3. ASSUME NEW t \in Source \ {s}, NEW k \in 1..Len(jobs'[t]),
               Telling(jobs'[t][k]),
               \A j \in k + 1..Len(jobs'[t]) : ~Telling(jobs'[t][j])
        PROVE  ShowsUpload(t, jobs[t][k])'
    <2>1. ShowsUpload(t, jobs[t][k])
      BY <1>1, <1>3 DEF SourceShowsItsLastUpload
    <2> QED BY <1>1, <2>1 DEF ShowsUpload
  <1>4. ASSUME NEW k \in 1..(n + 1), Telling(jobs'[s][k]),
               \A j \in k + 1..(n + 1) : ~Telling(jobs'[s][j])
        PROVE  ShowsUpload(s, jobs[s][k])'
    <2>1. CASE k = n + 1
      BY <1>2, <1>4, <2>1 DEF ShowsUpload
    <2>2. CASE k # n + 1
      <3>1. k \in 1..n /\ n + 1 \in k + 1..(n + 1)
        BY <2>2
      <3>2. ~Telling(job)
        BY <1>2, <1>4, <3>1
      <3>3. \A j \in k + 1..n : ~Telling(jobs[s][j])
        BY <1>2, <1>4, <3>1
      <3>4. ShowsUpload(s, jobs[s][k])
        BY <1>2, <1>4, <3>1, <3>3 DEF SourceShowsItsLastUpload
      <3> QED BY <1>2, <3>1, <3>2, <3>4 DEF ShowsUpload
    <2> QED BY <2>1, <2>2
  <1>5. ASSUME NEW t \in Source, \A k \in 1..Len(jobs'[t]) : ~Telling(jobs'[t][k])
        PROVE  source'[t] = NewSource
    <2>1. CASE t # s
      BY <1>1, <1>5, <2>1 DEF SourceShowsItsLastUpload
    <2>2. CASE t = s
      <3>1. ~Telling(job) /\ \A k \in 1..n : ~Telling(jobs[s][k])
        BY <1>2, <1>5, <2>2
      <3> QED BY <2>2, <3>1 DEF SourceShowsItsLastUpload
    <2> QED BY <2>1, <2>2
  <1>6. ASSUME NEW t \in Source, NEW k \in 1..Len(jobs'[t]), Telling(jobs'[t][k]),
               \A j \in k + 1..Len(jobs'[t]) : ~Telling(jobs'[t][j])
        PROVE  ShowsUpload(t, jobs[t][k])'
    <2>1. CASE t # s
      <3>1. t \in Source \ {s}
        BY <2>1
      <3> QED BY <1>3, <1>6, <3>1
    <2>2. CASE t = s
      <3>1. k \in 1..(n + 1) /\ Len(jobs'[t]) = n + 1
        BY <1>2, <1>6, <2>2
      <3>2. ShowsUpload(s, jobs[s][k])'
        BY <1>4, <1>6, <2>2, <3>1
      <3> QED BY <2>2, <3>2
    <2> QED BY <2>1, <2>2
  <1> QED BY <1>5, <1>6 DEF SourceShowsItsLastUpload

\* Whether the job of an upload tells anything depends on what was accepted.
LEMMA JobTells ==
    ASSUME TypeOK, Sorted, NEW u \in Upload, req[u].phase \in {"inserting", "failing"}
    PROVE  /\ JobOf(u).file = req[u].file
           /\ Telling(JobOf(u)) <=> \/ req[u].phase = "failing"
                                    \/ Accepted(req[u].file) # {}
  <1>1. req[u].file \in File
    BY DEF TypeOK, Session
  <1>2. JobOf(u).file = req[u].file
    BY DEF JobOf
  <1>3. CASE req[u].phase = "failing"
    BY <1>2, <1>3 DEF Sorted, Telling
  <1>4. CASE req[u].phase = "inserting"
    <2>1. /\ JobOf(u).accepted = Cardinality(Accepted(req[u].file))
          /\ Readable(req[u].file)
      BY <1>4 DEF JobOf, Sorted
    <2>2. /\ Cardinality(Accepted(req[u].file)) \in Nat
          /\ Accepted(req[u].file) = {} <=> Cardinality(Accepted(req[u].file)) = 0
      BY <1>1, LinesAreFinite, FS_EmptySet DEF Accepted
    <2> QED BY <1>2, <1>4, <2>1, <2>2 DEF Telling
  <1> QED BY <1>2, <1>3, <1>4

LEMMA NextKeepsSorted == TypeOK /\ Sorted /\ [Next]_vars => Sorted'
  <1> SUFFICES ASSUME TypeOK, Sorted, [Next]_vars PROVE Sorted'
    OBVIOUS
  <1>1. ASSUME NEW u \in Upload, NEW s \in Source, NEW f \in File, Begin(u, s, f)
        PROVE  Sorted'
    BY <1>1 DEF Begin, Sorted, TypeOK
  <1>2. ASSUME NEW u \in Upload, InsertBatch(u) PROVE Sorted'
    <2>1. \A v \in Upload : req'[v].phase = req[v].phase /\ req'[v].file = req[v].file
      BY <1>2 DEF InsertBatch, TypeOK, Session
    <2> QED BY <2>1 DEF Sorted
  <1>3. ASSUME NEW u \in Upload, NEW phase \in {"done", "lost"},
               req' = [req EXCEPT ![u] = EmptySession(phase)]
        PROVE  Sorted'
    BY <1>3 DEF Sorted, EmptySession, TypeOK
  <1>4. ASSUME NEW u \in Upload,
               Reject(u) \/ InsertRefused(u) \/ Commit(u) \/ CommitFailure(u) \/ Lost(u)
        PROVE  Sorted'
    BY <1>3, <1>4 DEF Reject, InsertRefused, Commit, CommitFailure, Lost, Finish
  <1>5. ASSUME NEW s \in Source, Register(s) PROVE Sorted'
    BY <1>5 DEF Register, Sorted
  <1>6. CASE UNCHANGED vars
    BY <1>6 DEF vars, Sorted
  <1> QED BY <1>1, <1>2, <1>4, <1>5, <1>6 DEF Next

LEMMA NextKeepsHealth ==
    TypeOK /\ Sorted /\ SourceShowsItsLastUpload /\ [Next]_vars => SourceShowsItsLastUpload'
  <1> SUFFICES ASSUME TypeOK, Sorted, SourceShowsItsLastUpload, [Next]_vars
               PROVE  SourceShowsItsLastUpload'
    OBVIOUS
  <1>1. CASE UNCHANGED <<source, jobs>>
    BY <1>1 DEF SourceShowsItsLastUpload, ShowsUpload
  <1>2. ASSUME NEW u \in Upload, Commit(u) PROVE SourceShowsItsLastUpload'
    <2>1. PICK s \in Source, job \in Job : s = req[u].source /\ job = JobOf(u)
      BY JobType DEF TypeOK, Session
    <2>2. /\ req[u].phase = "inserting" /\ jobs' = [jobs EXCEPT ![s] = Append(@, job)]
          /\ source' = [source EXCEPT ![s] = Updated(u)]
      BY <1>2, <2>1 DEF Commit
    <2>3. /\ Telling(job) <=> Accepted(req[u].file) # {}
          /\ Readable(job.file)
      BY <2>1, <2>2, JobTells DEF Sorted
    <2>4. /\ \A t \in Source \ {s} : source'[t] = source[t]
          /\ source'[s] = Updated(u)
      BY <2>2 DEF TypeOK
    <2>5. Telling(job) => ShowsUpload(s, job)'
      <3> SUFFICES ASSUME Telling(job) PROVE ShowsUpload(s, job)'
        OBVIOUS
      <3>1. Accepted(req[u].file) # {}
        BY <2>3
      <3>2. source'[s].status = "active" /\ source'[s].failing = FALSE
        BY <2>4, <3>1 DEF Updated
      <3> QED BY <2>3, <3>2 DEF ShowsUpload
    <2>6. ~Telling(job) => source'[s] = source[s]
      BY <2>1, <2>3, <2>4 DEF Updated
    <2> QED BY <2>2, <2>4, <2>5, <2>6, HealthStep
  <1>3. ASSUME NEW u \in Upload, CommitFailure(u) PROVE SourceShowsItsLastUpload'
    <2>1. PICK s \in Source, job \in Job : s = req[u].source /\ job = JobOf(u)
      BY JobType DEF TypeOK, Session
    <2>2. /\ req[u].phase = "failing" /\ jobs' = [jobs EXCEPT ![s] = Append(@, job)]
          /\ source' = [source EXCEPT ![s].status = "error", ![s].failing = TRUE]
      BY <1>3, <2>1 DEF CommitFailure
    <2>3. Telling(job) /\ ~Readable(job.file)
      BY <2>1, <2>2, JobTells DEF Sorted
    <2>4. /\ \A t \in Source \ {s} : source'[t] = source[t]
          /\ source'[s].status = "error" /\ source'[s].failing = TRUE
      <3>1. source \in [Source -> SourceRow]
        BY DEF TypeOK
      <3>2. /\ \A t \in Source \ {s} : source'[t] = source[t]
            /\ source'[s] = [source[s] EXCEPT !.status = "error", !.failing = TRUE]
        BY <2>2, <3>1
      <3>3. source[s] \in SourceRow
        BY <3>1
      <3> QED BY <3>2, <3>3 DEF SourceRow
    <2>5. ShowsUpload(s, job)'
      BY <2>3, <2>4 DEF ShowsUpload
    <2> QED BY <2>2, <2>3, <2>4, <2>5, HealthStep
  <1>4. ASSUME NEW u, NEW s, NEW f,
               \/ Register(s) \/ Reject(u) \/ Begin(u, s, f) \/ InsertBatch(u)
               \/ InsertRefused(u) \/ Lost(u)
        PROVE  UNCHANGED <<source, jobs>>
    BY <1>4 DEF Register, Reject, Begin, InsertBatch, InsertRefused, Lost
  <1> QED BY <1>1, <1>2, <1>3, <1>4 DEF Next, vars

\* A source is in error exactly when the last upload that tells anything about it
\* could not be read, however many uploads to it overlap.
THEOREM HealthIsTheLastUpload == Spec => []SourceShowsItsLastUpload
  <1>1. Init => Sorted
    BY DEF Init, Sorted, EmptySession
  <1>2. Init => SourceShowsItsLastUpload
    BY DEF Init, SourceShowsItsLastUpload
  <1>3. IInv => TypeOK
    BY DEF IInv
  <1> QED
    BY <1>1, <1>2, <1>3, InitIInv, NextKeepsIInv, NextKeepsSorted, NextKeepsHealth, PTL
       DEF Spec
=============================================================================
