------------------------------ MODULE Detection ------------------------------
(***************************************************************************)
(* Anomaly detection: POST /detection/analyze, analyze() and               *)
(* persist_findings() of services/detection/engine.py, with the two shapes *)
(* of detectors/brute_force.py, the detector whose findings overlap most   *)
(* between windows.                                                        *)
(*                                                                         *)
(* One analysis reads the entries of a window, computes its findings and   *)
(* inserts them with ON CONFLICT (fingerprint) DO NOTHING in one           *)
(* transaction.  The rows go in one by one: a fingerprint that is          *)
(* committed is skipped, one that another transaction has inserted and not *)
(* committed makes this one wait for that transaction to end.              *)
(***************************************************************************)
EXTENDS Integers, FiniteSets, Sequences, Scoring

CONSTANTS
    Entry,              \* the log entries that may be ingested: records, see EntryType
    Analysis,           \* the analyze requests, each handled once
    Window,             \* the windows asked for, <<window_start, window_end>>
    AllSources,         \* log_source_id IS NULL: every source is analysed
    Scope,              \* the log_source_id asked for, AllSources or a source
    Hour,               \* the ticks of the clock in an hour
    Cap,                \* DETECTION_MAX_ENTRIES, or the request's limit
    AttemptThreshold, AttemptSaturation,    \* failures against one account
    SprayThreshold, SpraySaturation,        \* accounts that one address failed on
    SuccessWeight, SuccessBonus             \* in ten-thousandths, like the scores

VARIABLES
    logged,     \* the committed log entries
    stored,     \* the committed anomalies
    run         \* run[a]: what the session of analysis a holds

vars == <<logged, stored, run>>
-----------------------------------------------------------------------------
\* What the brute-force detector reads of a log entry.
EntryType(e) == /\ e.at \in Nat
                /\ e.failed \in BOOLEAN
                /\ {"id", "source", "address", "account"} \subseteq DOMAIN e

\* However many entries there may be, there are finitely many: what is sorted is
\* a list.
ASSUME EntryAssumption == IsFiniteSet(Entry) /\ \A e \in Entry : EntryType(e)
ASSUME NumberAssumption ==
    /\ {Hour, Cap, AttemptThreshold, SprayThreshold} \subseteq Nat \ {0}
    /\ {AttemptSaturation, SpraySaturation} \subseteq Nat
    /\ {SuccessWeight, SuccessBonus} \subseteq Score
    /\ Window \subseteq Nat \X Nat

Addresses == {e.address : e \in Entry}
Accounts == {e.account : e \in Entry}

\* What a finding is about.
Entity == [shape : {"account"}, address : Addresses, account : Accounts]
            \cup [shape : {"spray"}, address : Addresses]

\* A finding, and the anomaly it is stored as.  "group" is its evidence.
Finding == [fingerprint : Scope \X Entity \X Nat, group : SUBSET Entry, score : Score]

Session == [phase : {"idle", "inserting", "stored", "over"},
            findings : Seq(Finding), held : SUBSET Finding, done : Nat]

TypeOK ==
    /\ logged \subseteq Entry
    /\ stored \subseteq Finding
    /\ run \in [Analysis -> Session]
    /\ \A a \in Analysis : run[a].done <= Len(run[a].findings)

EmptySession(phase) == [phase |-> phase, findings |-> <<>>, held |-> {}, done |-> 0]

Init ==
    /\ logged = {}
    /\ stored = {}
    /\ run = [a \in Analysis |-> EmptySession("idle")]
-----------------------------------------------------------------------------
\* The results of load_entries: the oldest entries of the window and the scope,
\* at most Cap of them; entries of the same instant come in any order.
Loads(window, scope) ==
    LET inside == {e \in logged : /\ window[1] <= e.at /\ e.at <= window[2]
                                  /\ scope \in {AllSources, e.source}}
        size == IF Cardinality(inside) < Cap THEN Cardinality(inside) ELSE Cap
    IN  {S \in SUBSET inside : /\ Cardinality(S) = size
                               /\ \A x \in S, y \in inside \ S : x.at <= y.at}

First(group) == (CHOOSE e \in group : \A x \in group : e.at <= x.at).at

\* A variant of Finding.fingerprint that tells two scores apart.
ScoredFingerprint(scope, entity, group, score) ==
    <<scope, entity, 10 * score + First(group) \div Hour>>

\* Finding.fingerprint: the scope, the entity and the hour of the first entry;
\* not the score.
Fingerprint(scope, entity, group, score) == <<scope, entity, First(group) \div Hour>>

\* base + (1 - base) * weight, as a score.
Boosted(base, weight) == base + Rounded((One - base) * weight, One)

Successes(S, address) == {e \in S : e.address = address /\ ~e.failed}

\* _per_account's score: the count, raised through the remaining headroom when
\* the address got in after it started failing.  The other corroborating signals
\* raise it the same way.
AccountScore(S, address, group) ==
    LET base == ScaleScore(Cardinality(group), AttemptThreshold, AttemptSaturation)
    IN  IF \E e \in Successes(S, address) : e.at >= First(group)
        THEN Boosted(base, SuccessWeight) ELSE base

\* _spraying's score.
SprayScore(S, address, accounts) ==
    LET base == ScaleScore(Cardinality(accounts), SprayThreshold, SpraySaturation)
    IN  IF Successes(S, address) # {} THEN Clamped(base + SuccessBonus, 0, One) ELSE base

FindingOf(scope, entity, group, score) ==
    [fingerprint |-> Fingerprint(scope, entity, group, score), group |-> group, score |-> score]

\* BruteForceDetector.detect, _per_account: one finding for every address and
\* account with enough failures.
AccountFindings(S, scope) ==
    LET failures(address, account) ==
            {e \in S : e.failed /\ e.address = address /\ e.account = account}
        repeated == {p \in Addresses \X Accounts :
                        Cardinality(failures(p[1], p[2])) >= AttemptThreshold}
    IN  {FindingOf(scope, [shape |-> "account", address |-> p[1], account |-> p[2]],
                   failures(p[1], p[2]), AccountScore(S, p[1], failures(p[1], p[2])))
            : p \in repeated}

\* BruteForceDetector.detect, _spraying: one finding for every address that failed
\* on enough accounts.
SprayFindings(S, scope) ==
    LET failures(address) == {e \in S : e.failed /\ e.address = address}
        tried(address) == {e.account : e \in failures(address)}
        wide == {address \in Addresses : Cardinality(tried(address)) >= SprayThreshold}
    IN  {FindingOf(scope, [shape |-> "spray", address |-> address], failures(address),
                   SprayScore(S, address, tried(address)))
            : address \in wide}

Shape(f) == f.fingerprint[2].shape

\* analyze() sorts the findings worst first.  The sort is stable: of equal scores
\* the accounts come before the sprays, and in the order they first failed in.
Precedes(f, g) ==
    \/ f.score > g.score
    \/ /\ f.score = g.score
       /\ \/ Shape(f) = "account" /\ Shape(g) = "spray"
          \/ Shape(f) = Shape(g) /\ First(f.group) < First(g.group)

\* The orders in which a set of findings may be inserted.
Orders(F) == {s \in [1..Cardinality(F) -> F] :
                \A j \in 1..Cardinality(F), k \in 1..Cardinality(F) :
                    j < k => s[j] # s[k] /\ ~Precedes(s[k], s[j])}
-----------------------------------------------------------------------------
\* The transaction is over and nothing of it is stored.
GiveUp(a) == run' = [run EXCEPT ![a] = EmptySession("over")]

\* The finding analysis a inserts next.
NextFinding(a) == run[a].findings[run[a].done + 1]

Inserting(a) == run[a].phase = "inserting" /\ run[a].done < Len(run[a].findings)

Same(f, g) == f.fingerprint = g.fingerprint

\* A variant that passes over a fingerprint another transaction has inserted, as
\* if it had committed it.
SkipsUncommitted(a) == \E f \in stored \cup UNION {run[b].held : b \in Analysis} :
                          Same(f, NextFinding(a))

\* A variant whose unique index is on the whole row.
SkipsEqualRows(a) == NextFinding(a) \in stored \cup run[a].held

\* ON CONFLICT DO NOTHING: the row is skipped when its fingerprint is committed, or
\* inserted by this transaction.
Conflicts(a) == \E f \in stored \cup run[a].held : Same(f, NextFinding(a))

\* The transactions that have inserted a's next fingerprint and not committed it.
Holders(a) == {b \in Analysis \ {a} : \E f \in run[b].held : Same(f, NextFinding(a))}

\* The database sees a cycle of transactions that wait for each other.
InCycle(a) ==
    \E C \in SUBSET Analysis :
        /\ a \in C
        /\ \A b \in C : Inserting(b) /\ ~Conflicts(b) /\ Holders(b) \cap C # {}
        /\ \A b \in C : \E c \in C : b \in Holders(c)
-----------------------------------------------------------------------------
\* Ingestion commits a batch of entries; they may be older than those there are.
Ingest(batch) ==
    /\ batch # {}
    /\ logged' = logged \cup batch
    /\ UNCHANGED <<stored, run>>

\* An unknown log source or detector, or a window that ends before it starts.
Reject(a) ==
    /\ run[a].phase = "idle"
    /\ GiveUp(a)
    /\ UNCHANGED <<logged, stored>>

\* load_entries, the detectors and the sort.  With persist=False, or with nothing
\* found, no row is written.
Analyze(a, window, scope, persist) ==
    /\ run[a].phase = "idle"
    /\ window[1] <= window[2]
    /\ \E S \in Loads(window, scope) :
         \E order \in Orders(AccountFindings(S, scope) \cup SprayFindings(S, scope)) :
            IF persist /\ order # <<>>
            THEN run' = [run EXCEPT ![a].phase = "inserting", ![a].findings = order]
            ELSE GiveUp(a)
    /\ UNCHANGED <<logged, stored>>

\* persist_findings: one row of the INSERT.
InsertRow(a) ==
    /\ Inserting(a)
    /\ IF Conflicts(a)
       THEN run' = [run EXCEPT ![a].done = @ + 1]
       ELSE /\ Holders(a) = {}
            /\ run' = [run EXCEPT ![a].done = @ + 1, ![a].held = @ \cup {NextFinding(a)}]
    /\ UNCHANGED <<logged, stored>>

\* A variant of the handler that answers and leaves its transaction open.
AnswersOnly(a) ==
    /\ run[a].phase = "inserting"
    /\ ~Inserting(a)
    /\ run' = [run EXCEPT ![a].phase = "stored"]
    /\ UNCHANGED <<logged, stored>>

\* The handler's commit, after the audit entry.
Commit(a) ==
    /\ run[a].phase = "inserting"
    /\ ~Inserting(a)
    /\ stored' = stored \cup run[a].held
    /\ run' = [run EXCEPT ![a].phase = "stored", ![a].held = {}]
    /\ UNCHANGED logged

\* The transaction is rolled back: it was picked to break a deadlock.
BreakDeadlock(a) ==
    /\ InCycle(a)
    /\ GiveUp(a)
    /\ UNCHANGED <<logged, stored>>

\* The transaction is rolled back: its connection or its process is lost.
Abort(a) ==
    /\ run[a].phase = "inserting"
    /\ GiveUp(a)
    /\ UNCHANGED <<logged, stored>>

Step(a) == InsertRow(a) \/ Commit(a) \/ BreakDeadlock(a)

Next ==
    \/ \E batch \in SUBSET (Entry \ logged) : Ingest(batch)
    \/ \E a \in Analysis :
         \/ Reject(a)
         \/ \E window \in Window, scope \in Scope, persist \in BOOLEAN :
                Analyze(a, window, scope, persist)
         \/ InsertRow(a)
         \/ Commit(a)
         \/ BreakDeadlock(a)
         \/ Abort(a)

Spec == Init /\ [][Next]_vars

\* The handler goes on with a transaction it has begun, and the database breaks a
\* deadlock some time (deadlock_timeout).  Nothing makes requests come.
FairSpec == Spec /\ \A a \in Analysis : WF_vars(Step(a))
-----------------------------------------------------------------------------
(***************************************************************************)
(* Properties.                                                             *)
(***************************************************************************)
\* persist_findings: "two overlapping analyses cannot race a duplicate in between
\* a check and an insert", and "an existing anomaly keeps the evidence it was
\* first stored with": the anomalies implement the append-only queue.
Queue == INSTANCE AnomalyQueue WITH queue <- stored
ImplementsQueue == Queue!Spec

\* An analysis that answers has all its findings in the queue, stored by itself or
\* by another: it never relies on a row whose transaction was rolled back later.
EveryFindingIsStored ==
    \A a \in Analysis : run[a].phase = "stored" =>
        \A k \in 1..Len(run[a].findings) : \E f \in stored : Same(f, run[a].findings[k])

\* Finding.fingerprint "deliberately excludes the score": the same failures are
\* reported once per scope and entity, although a later analysis scores them
\* higher because a success came in meanwhile.
FailuresAreReportedOnce ==
    \A f, g \in stored :
        /\ f.fingerprint[1] = g.fingerprint[1]
        /\ f.fingerprint[2] = g.fingerprint[2]
        /\ f.group = g.group
        => f = g

\* Every analysis that starts to insert ends, also when two of them insert the
\* same fingerprints in different orders and wait for each other.
AnalysesEnd ==
    \A a \in Analysis : run[a].phase = "inserting" ~> run[a].phase \in {"stored", "over"}
=============================================================================
