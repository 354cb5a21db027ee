-------------------------- MODULE Detection_proofs --------------------------
(***************************************************************************)
(* The stored anomalies implement the append-only queue, answered analyses *)
(* have their findings in it, and the same failures are in it once, for    *)
(* every log, windows and thresholds and however many analyses overlap.    *)
(*                                                                         *)
(* That stored fingerprints are distinct is not inductive: a commit adds   *)
(* rows that were checked long before.  What is inductive speaks of all    *)
(* rows inserted so far, committed or not.                                 *)
(***************************************************************************)
EXTENDS Detection, FiniteSetTheorems, SequenceTheorems, TLAPS

Inserted == stored \cup UNION {run[a].held : a \in Analysis}

\* Every analysis has a session with these fields.
SessionShape == /\ DOMAIN run = Analysis
          /\ \A a \in Analysis : {"phase", "findings", "held", "done"} \subseteq DOMAIN run[a]

\* No two rows share a fingerprint, in whatever transactions they were inserted.
InsertedAreDistinct == \A f, g \in Inserted : Same(f, g) => f = g

IInv == SessionShape /\ InsertedAreDistinct
-----------------------------------------------------------------------------
\* Before any request nothing is inserted.
LEMMA InitIInv == Init => IInv
  BY DEF Init, IInv, SessionShape, InsertedAreDistinct, Inserted, EmptySession

\* A session that gives up leaves the rows of the others.
LEMMA GiveUpKeepsIInv ==
    ASSUME IInv, NEW a \in Analysis, GiveUp(a), stored' = stored
    PROVE  IInv'
  <1>1. SessionShape'
    BY DEF IInv, SessionShape, GiveUp, EmptySession
  <1>2. \A b \in Analysis : run'[b].held \subseteq run[b].held
    BY DEF IInv, SessionShape, GiveUp, EmptySession
  <1>3. Inserted' \subseteq Inserted
    BY <1>2 DEF Inserted
  <1> QED
    BY <1>1, <1>3 DEF IInv, InsertedAreDistinct, Same

\* A row goes in only when no row of its fingerprint is there: the committed ones
\* and one's own are passed over, those of the others are waited for.
LEMMA InsertRowKeepsIInv ==
    ASSUME IInv, NEW a \in Analysis, InsertRow(a)
    PROVE  IInv'
  <1>1. SessionShape'
    BY DEF IInv, SessionShape, InsertRow
  <1>2. CASE Conflicts(a)
    <2>1. \A b \in Analysis : run'[b].held = run[b].held
      BY <1>2 DEF IInv, SessionShape, InsertRow
    <2>2. Inserted' = Inserted
      BY <2>1 DEF Inserted, InsertRow
    <2> QED
      BY <1>1, <2>2 DEF IInv, InsertedAreDistinct, Same
  <1>3. CASE ~Conflicts(a)
    <2> DEFINE next == NextFinding(a)
    <2>1. \A f \in Inserted : ~Same(f, next)
      BY <1>3 DEF InsertRow, Conflicts, Holders, Inserted
    <2>2. \A b \in Analysis : run'[b].held \subseteq run[b].held \cup {next}
      BY <1>3 DEF IInv, SessionShape, InsertRow
    <2>3. Inserted' \subseteq Inserted \cup {next}
      BY <2>2 DEF Inserted, InsertRow
    <2> HIDE DEF next
    <2>4. \A f, g \in Inserted \cup {next} : Same(f, g) => f = g
      BY <2>1 DEF IInv, InsertedAreDistinct, Same
    <2> QED
      BY <1>1, <2>3, <2>4 DEF IInv, InsertedAreDistinct, Same
  <1> QED
    BY <1>2, <1>3

\* A commit stores rows that were inserted before, and inserts none.
LEMMA CommitKeepsIInv ==
    ASSUME IInv, NEW a \in Analysis, Commit(a)
    PROVE  IInv'
  <1>1. SessionShape'
    BY DEF IInv, SessionShape, Commit
  <1>2. \A b \in Analysis : run'[b].held \subseteq run[b].held
    BY DEF IInv, SessionShape, Commit
  <1>3. Inserted' \subseteq Inserted
    BY <1>2 DEF Inserted, Commit
  <1> QED
    BY <1>1, <1>3 DEF IInv, InsertedAreDistinct, Same

\* Every step keeps the invariant.
LEMMA NextIInv == IInv /\ [Next]_vars => IInv'
  <1> SUFFICES ASSUME IInv, [Next]_vars PROVE IInv'
    OBVIOUS
  <1>1. ASSUME NEW batch, Ingest(batch) PROVE IInv'
    BY <1>1 DEF IInv, SessionShape, InsertedAreDistinct, Inserted, Same, Ingest
  <1>2. ASSUME NEW a \in Analysis, Reject(a) PROVE IInv'
    BY <1>2, GiveUpKeepsIInv DEF Reject
  <1>3. ASSUME NEW a \in Analysis, NEW window \in Window, NEW scope \in Scope,
               NEW persist \in BOOLEAN, Analyze(a, window, scope, persist)
        PROVE  IInv'
    <2>1. CASE GiveUp(a)
      BY <1>3, <2>1, GiveUpKeepsIInv DEF Analyze
    <2>2. CASE ~GiveUp(a)
      <3>1. PICK order : run' = [run EXCEPT ![a].phase = "inserting", ![a].findings = order]
        BY <1>3, <2>2 DEF Analyze
      <3>2. SessionShape' /\ \A b \in Analysis : run'[b].held = run[b].held
        BY <3>1 DEF IInv, SessionShape
      <3>3. Inserted' = Inserted
        BY <1>3, <3>2 DEF Inserted, Analyze
      <3> QED
        BY <3>2, <3>3 DEF IInv, InsertedAreDistinct, Same
    <2> QED
      BY <2>1, <2>2
  <1>4. ASSUME NEW a \in Analysis, InsertRow(a) PROVE IInv'
    BY <1>4, InsertRowKeepsIInv
  <1>5. ASSUME NEW a \in Analysis, Commit(a) PROVE IInv'
    BY <1>5, CommitKeepsIInv
  <1>6. ASSUME NEW a \in Analysis, BreakDeadlock(a) PROVE IInv'
    BY <1>6, GiveUpKeepsIInv DEF BreakDeadlock
  <1>7. ASSUME NEW a \in Analysis, Abort(a) PROVE IInv'
    BY <1>7, GiveUpKeepsIInv DEF Abort
  <1>8. CASE UNCHANGED vars
    BY <1>8 DEF vars, IInv, SessionShape, InsertedAreDistinct, Inserted, Same
  <1> QED
    BY <1>1, <1>2, <1>3, <1>4, <1>5, <1>6, <1>7, <1>8 DEF Next

\* Only a commit changes what is stored, and it adds.
LEMMA StoredGrows == IInv /\ IInv' /\ [Next]_vars => [Queue!Add]_stored
  <1> SUFFICES ASSUME IInv, IInv', [Next]_vars, stored' # stored PROVE Queue!Add
    OBVIOUS
  <1>1. PICK a \in Analysis : Commit(a)
    BY DEF Next, vars, Ingest, Reject, Analyze, InsertRow, BreakDeadlock, Abort
  <1>2. stored \subseteq stored'
    BY <1>1 DEF Commit
  <1>3. Queue!Distinct(stored)'
    BY DEF IInv, InsertedAreDistinct, Inserted, Same, Queue!Distinct
  <1> QED
    BY <1>2, <1>3 DEF Queue!Add, Queue!Distinct

\* persist_findings is "safe to run concurrently": the stored anomalies implement
\* the append-only queue, whatever analyses overlap and whichever are rolled back.
THEOREM AnomaliesImplementQueue == Spec => ImplementsQueue
  <1>1. Init => Queue!Init
    BY DEF Init, Queue!Init
  <1>2. Spec => []IInv
    BY InitIInv, NextIInv, PTL DEF Spec
  <1> QED
    BY <1>1, <1>2, StoredGrows, PTL DEF Spec, ImplementsQueue, Queue!Spec
-----------------------------------------------------------------------------
(***************************************************************************)
(* What becomes of the findings of one analysis.  A row it passed over was *)
(* committed, or is its own: nothing it relies on can be rolled back.      *)
(***************************************************************************)
\* The image of a finite set.
LEMMA FiniteImage ==
    ASSUME NEW S, NEW T, IsFiniteSet(S), NEW f \in [S -> T], \A t \in T : \E s \in S : f[s] = t
    PROVE  IsFiniteSet(T)
BY FS_Surjection DEF Surjection, IsInjective

\* The detector finds finitely many things.
LEMMA FindingsAreFinite ==
    ASSUME NEW S, NEW scope
    PROVE  IsFiniteSet(AccountFindings(S, scope) \cup SprayFindings(S, scope))
<1>1. IsFiniteSet(Addresses)
  <2> DEFINE f == [e \in Entry |-> e.address]
  <2>1. f \in [Entry -> Addresses] /\ \A t \in Addresses : \E e \in Entry : f[e] = t
    BY DEF Addresses
  <2> HIDE DEF f
  <2> QED BY <2>1, EntryAssumption, FiniteImage
<1>2. IsFiniteSet(Accounts)
  <2> DEFINE f == [e \in Entry |-> e.account]
  <2>1. f \in [Entry -> Accounts] /\ \A t \in Accounts : \E e \in Entry : f[e] = t
    BY DEF Accounts
  <2> HIDE DEF f
  <2> QED BY <2>1, EntryAssumption, FiniteImage
<1>3. IsFiniteSet(AccountFindings(S, scope))
  <2> DEFINE failures(address, account) ==
               {e \in S : e.failed /\ e.address = address /\ e.account = account}
             repeated == {p \in Addresses \X Accounts :
                            Cardinality(failures(p[1], p[2])) >= AttemptThreshold}
             found(p) == FindingOf(scope,
                           [shape |-> "account", address |-> p[1], account |-> p[2]],
                           failures(p[1], p[2]), AccountScore(S, p[1], failures(p[1], p[2])))
             f == [p \in repeated |-> found(p)]
  <2>1. IsFiniteSet(repeated)
    BY <1>1, <1>2, FS_Product, FS_Subset
  <2>2. AccountFindings(S, scope) = {found(p) : p \in repeated}
    BY DEF AccountFindings
  <2> HIDE DEF found, repeated
  <2>3. /\ f \in [repeated -> {found(p) : p \in repeated}]
        /\ \A t \in {found(p) : p \in repeated} : \E p \in repeated : f[p] = t
    OBVIOUS
  <2> HIDE DEF f
  <2> QED BY <2>1, <2>2, <2>3, FiniteImage
<1>4. IsFiniteSet(SprayFindings(S, scope))
  <2> DEFINE failures(address) == {e \in S : e.failed /\ e.address = address}
             tried(address) == {e.account : e \in failures(address)}
             wide == {address \in Addresses : Cardinality(tried(address)) >= SprayThreshold}
             found(x) == FindingOf(scope, [shape |-> "spray", address |-> x],
                                   failures(x), SprayScore(S, x, tried(x)))
             f == [x \in wide |-> found(x)]
  <2>1. IsFiniteSet(wide)
    BY <1>1, FS_Subset
  <2>2. SprayFindings(S, scope) = {found(x) : x \in wide}
    BY DEF SprayFindings
  <2> HIDE DEF found, wide
  <2>3. /\ f \in [wide -> {found(x) : x \in wide}]
        /\ \A t \in {found(x) : x \in wide} : \E x \in wide : f[x] = t
    OBVIOUS
  <2> HIDE DEF f
  <2> QED BY <2>1, <2>2, <2>3, FiniteImage
<1> QED BY <1>3, <1>4, FS_Union

\* The fingerprint of a finding is of its evidence, not of its score.
Keyed(f) ==
    f.fingerprint = <<f.fingerprint[1], f.fingerprint[2], First(f.group) \div Hour>>

LEMMA FindingsAreKeyed ==
    ASSUME NEW S, NEW scope, NEW f \in AccountFindings(S, scope) \cup SprayFindings(S, scope)
    PROVE  Keyed(f)
<1>1. \A entity, group, score : Keyed(FindingOf(scope, entity, group, score))
  BY DEF Keyed, FindingOf, Fingerprint
<1>2. \E entity, group, score : f = FindingOf(scope, entity, group, score)
  BY DEF AccountFindings, SprayFindings
<1> QED BY <1>1, <1>2

\* What Analyze hands to the inserts.
LEMMA OrdersAreLists ==
    ASSUME NEW F, IsFiniteSet(F), NEW order \in Orders(F)
    PROVE  Len(order) \in Nat /\ \A k \in 1..Len(order) : order[k] \in F
<1>1. Cardinality(F) \in Nat /\ order \in [1..Cardinality(F) -> F]
  BY FS_CardinalityType DEF Orders
<1>2. order \in Seq(F)
  BY <1>1, SeqDef
<1> QED BY <1>2, LenProperties, ElementOfSeq

Listed(a) == /\ Len(run[a].findings) \in Nat /\ run[a].done \in Nat
             /\ \A k \in 1..Len(run[a].findings) : Keyed(run[a].findings[k])

\* The findings that were inserted or passed over are in the table.
Placed(a) ==
    /\ run[a].phase = "idle" => run[a].done = 0
    /\ run[a].phase = "inserting" =>
          \A k \in 1..run[a].done : \E f \in stored \cup run[a].held : Same(f, run[a].findings[k])
    /\ run[a].phase = "stored" =>
          \A k \in 1..Len(run[a].findings) : \E f \in stored : Same(f, run[a].findings[k])

FInv == /\ \A a \in Analysis : Listed(a) /\ Placed(a)
        /\ \A f \in Inserted : Keyed(f)

LEMMA InitFInv == Init => FInv
<1> SUFFICES ASSUME Init PROVE FInv
  OBVIOUS
<1>1. \A a \in Analysis : run[a] = EmptySession("idle")
  BY DEF Init
<1>2. \A a \in Analysis : Listed(a) /\ Placed(a)
  BY <1>1 DEF Listed, Placed, EmptySession
<1>3. Inserted = {}
  BY <1>1 DEF Init, Inserted, EmptySession
<1> QED BY <1>2, <1>3 DEF FInv

\* The sessions a step leaves alone stay as they were: nothing stored goes away.
LEMMA OtherSessions ==
    ASSUME FInv, NEW b \in Analysis, run'[b] = run[b], stored \subseteq stored'
    PROVE  (Listed(b) /\ Placed(b))'
BY DEF FInv, Listed, Placed, Same

LEMMA GiveUpKeepsFInv ==
    ASSUME IInv, FInv, NEW a \in Analysis, GiveUp(a), stored' = stored
    PROVE  FInv'
<1>1. run'[a] = EmptySession("over") /\ \A b \in Analysis \ {a} : run'[b] = run[b]
  BY DEF IInv, SessionShape, GiveUp
<1>2. (Listed(a) /\ Placed(a))'
  BY <1>1 DEF Listed, Placed, EmptySession
<1>3. \A b \in Analysis : run'[b].held \subseteq run[b].held
  BY <1>1 DEF EmptySession
<1>4. Inserted' \subseteq Inserted
  BY <1>3 DEF Inserted
<1>5. \A f \in Inserted' : Keyed(f)
  BY <1>4 DEF FInv
<1> QED BY <1>1, <1>2, <1>5, OtherSessions DEF FInv, Keyed

LEMMA AnalyzeKeepsFInv ==
    ASSUME IInv, FInv, NEW a \in Analysis, NEW window, NEW scope, NEW persist,
           Analyze(a, window, scope, persist), ~GiveUp(a)
    PROVE  FInv'
<1>0. PICK S \in Loads(window, scope) :
        \E order \in Orders(AccountFindings(S, scope) \cup SprayFindings(S, scope)) :
          run' = [run EXCEPT ![a].phase = "inserting", ![a].findings = order]
  BY DEF Analyze
<1>1. PICK order \in Orders(AccountFindings(S, scope) \cup SprayFindings(S, scope)) :
        run' = [run EXCEPT ![a].phase = "inserting", ![a].findings = order]
  BY <1>0
<1>2. /\ Len(order) \in Nat
      /\ \A k \in 1..Len(order) : Keyed(order[k])
  BY <1>1, FindingsAreFinite, FindingsAreKeyed, OrdersAreLists
<1>3. /\ run'[a].phase = "inserting" /\ run'[a].findings = order
      /\ run'[a].done = run[a].done /\ run'[a].held = run[a].held
      /\ \A b \in Analysis \ {a} : run'[b] = run[b]
  BY <1>1 DEF IInv, SessionShape
<1>4. run[a].done = 0 /\ stored' = stored
  BY DEF Analyze, FInv, Placed
<1>5. (Listed(a) /\ Placed(a))'
  BY <1>2, <1>3, <1>4 DEF Listed, Placed, Keyed
<1>6. Inserted' = Inserted
  <2>1. \A b \in Analysis : run'[b].held = run[b].held
    BY <1>3
  <2> QED BY <1>4, <2>1 DEF Inserted
<1> QED BY <1>3, <1>4, <1>5, <1>6, OtherSessions DEF FInv, Keyed

LEMMA InsertRowKeepsFInv ==
    ASSUME IInv, FInv, NEW a \in Analysis, InsertRow(a)
    PROVE  FInv'
<1> DEFINE next == NextFinding(a)
<1>1. /\ Len(run[a].findings) \in Nat /\ run[a].done \in Nat
      /\ run[a].done + 1 \in 1..Len(run[a].findings)
      /\ run[a].phase = "inserting"
  BY DEF FInv, Listed, InsertRow, Inserting
<1>2. /\ run'[a].phase = "inserting" /\ run'[a].findings = run[a].findings
      /\ run'[a].done = run[a].done + 1
      /\ run[a].held \subseteq run'[a].held /\ run'[a].held \subseteq run[a].held \cup {next}
      /\ \A b \in Analysis \ {a} : run'[b] = run[b]
  BY <1>1 DEF IInv, SessionShape, InsertRow
<1>3. \E f \in stored \cup run'[a].held : Same(f, next)
  BY DEF IInv, SessionShape, InsertRow, Conflicts, Same
<1>4. stored' = stored /\ next = run[a].findings[run[a].done + 1]
  BY DEF InsertRow, NextFinding
<1> HIDE DEF next
<1>5. Listed(a)'
  BY <1>1, <1>2 DEF FInv, Listed, Keyed
<1>6. Placed(a)'
  <2>1. ASSUME NEW k \in 1..run'[a].done
        PROVE  \E f \in stored \cup run'[a].held : Same(f, run[a].findings[k])
    <3>1. CASE k = run[a].done + 1
      BY <1>3, <1>4, <3>1
    <3>2. CASE k # run[a].done + 1
      <4>1. k \in 1..run[a].done
        BY <1>1, <1>2, <3>2
      <4> QED BY <1>1, <1>2, <4>1 DEF FInv, Placed
    <3> QED BY <3>1, <3>2
  <2> QED BY <1>2, <1>4, <2>1 DEF Placed, Same
<1>7. Inserted' \subseteq Inserted \cup {next}
  <2>1. \A b \in Analysis : run'[b].held \subseteq run[b].held \cup {next}
    BY <1>2
  <2> QED BY <1>4, <2>1 DEF Inserted
<1>8. Keyed(next)
  BY <1>1, <1>4 DEF FInv, Listed
<1>9. \A f \in Inserted' : Keyed(f)
  BY <1>7, <1>8 DEF FInv
<1> QED BY <1>2, <1>4, <1>5, <1>6, <1>9, OtherSessions DEF FInv, Keyed

LEMMA CommitKeepsFInv ==
    ASSUME IInv, FInv, NEW a \in Analysis, Commit(a)
    PROVE  FInv'
<1>1. /\ run'[a].phase = "stored" /\ run'[a].findings = run[a].findings
      /\ run'[a].done = run[a].done
      /\ \A b \in Analysis \ {a} : run'[b] = run[b]
      /\ stored' = stored \cup run[a].held
  BY DEF IInv, SessionShape, Commit
<1>2. /\ Len(run[a].findings) \in Nat /\ run[a].done \in Nat
      /\ run[a].done >= Len(run[a].findings) /\ run[a].phase = "inserting"
  BY DEF FInv, Listed, Commit, Inserting
<1>3. Listed(a)'
  BY <1>1 DEF FInv, Listed, Keyed
<1>4. Placed(a)'
  BY <1>1, <1>2 DEF FInv, Placed, Same
<1>5. Inserted' \subseteq Inserted
  <2>1. \A b \in Analysis : run'[b].held \subseteq run[b].held
    BY DEF IInv, SessionShape, Commit
  <2> QED BY <1>1, <2>1 DEF Inserted
<1>6. \A f \in Inserted' : Keyed(f)
  BY <1>5 DEF FInv
<1> QED BY <1>1, <1>3, <1>4, <1>6, OtherSessions DEF FInv, Keyed

LEMMA NextFInv == IInv /\ FInv /\ [Next]_vars => FInv'
<1> SUFFICES ASSUME IInv, FInv, [Next]_vars PROVE FInv'
  OBVIOUS
<1>1. ASSUME UNCHANGED <<stored, run>> PROVE FInv'
  BY <1>1 DEF FInv, Listed, Placed, Keyed, Same, Inserted
<1>2. ASSUME NEW a \in Analysis, Reject(a) \/ BreakDeadlock(a) \/ Abort(a) PROVE FInv'
  BY <1>2, GiveUpKeepsFInv DEF Reject, BreakDeadlock, Abort
<1>3. ASSUME NEW a \in Analysis, NEW window \in Window, NEW scope \in Scope,
             NEW persist \in BOOLEAN, Analyze(a, window, scope, persist)
      PROVE  FInv'
  <2>1. CASE GiveUp(a)
    BY <1>3, <2>1, GiveUpKeepsFInv DEF Analyze
  <2> QED BY <1>3, <2>1, AnalyzeKeepsFInv
<1> QED
  BY <1>1, <1>2, <1>3, InsertRowKeepsFInv, CommitKeepsFInv DEF Next, Ingest, vars

LEMMA Findings == Spec => [](IInv /\ FInv)
BY InitIInv, NextIInv, InitFInv, NextFInv, PTL DEF Spec

\* An analysis that answers has every finding of its in the table: it relied on no
\* row that another transaction could still roll back.
THEOREM FindingsAreStored == Spec => []EveryFindingIsStored
<1>1. FInv => EveryFindingIsStored
  BY DEF FInv, Placed, EveryFindingIsStored
<1> QED BY <1>1, Findings, PTL

\* The same failures are reported once per scope and entity, whatever they score.
THEOREM ReportedOnce == Spec => []FailuresAreReportedOnce
<1>1. IInv /\ FInv => FailuresAreReportedOnce
  <2> SUFFICES ASSUME IInv, FInv, NEW f \in stored, NEW g \in stored,
                      f.fingerprint[1] = g.fingerprint[1],
                      f.fingerprint[2] = g.fingerprint[2], f.group = g.group
               PROVE  f = g
    BY DEF FailuresAreReportedOnce
  <2>1. f \in Inserted /\ g \in Inserted
    BY DEF Inserted
  <2>2. f.fingerprint = g.fingerprint
    BY <2>1 DEF FInv, Keyed
  <2> QED BY <2>1, <2>2 DEF IInv, InsertedAreDistinct, Same
<1> QED BY <1>1, Findings, PTL
=============================================================================
