------------------------------ MODULE Ingestion ------------------------------
(***************************************************************************)
(* Log ingestion: the registration of log sources and POST                 *)
(* /log-sources/{id}/ingest (endpoints/log_sources.py) with                *)
(* services/ingestion: pipeline.py, parsers.py and normalizer.py.          *)
(*                                                                         *)
(* One upload is one READ COMMITTED transaction: its job is flushed, the   *)
(* file is parsed and normalised in memory, the rows go in batch by batch, *)
(* and job, rows and the source's counters commit together.  Other uploads *)
(* to the same source run in between, and the process may be lost.         *)
(***************************************************************************)
EXTENDS Integers, FiniteSets, Sequences

CONSTANTS
    Source,     \* the log sources, by their unique names
    Upload,     \* the upload requests, each handled once
    File,       \* the files uploaded: records, see FileType
    BatchSize,  \* INGEST_BATCH_SIZE
    MaxErrors   \* INGEST_MAX_REPORTED_ERRORS

VARIABLES
    registered, \* the sources there are
    source,     \* source[s]: the committed row of s
    entries,    \* the committed log entries
    jobs,       \* jobs[s]: the committed jobs of s, in the order they committed
    req         \* req[u]: what the session of upload u holds

vars == <<registered, source, entries, jobs, req>>
-----------------------------------------------------------------------------
\* What becomes of a line of a file (of an element, in a JSON array).  A blank one
\* is skipped; a broken one is no record; an undated one is a record without a
\* usable timestamp; an unstorable one is accepted by the normaliser and refused
\* by the database, like a text with a NUL character or a NaN among the attributes.
LineKind == {"event", "blank", "broken", "undated", "unstorable"}

\* "sound" is FALSE for a file that is not UTF-8, not JSON or has no CSV header.
FileType(f) == /\ f.sound \in BOOLEAN
               /\ f.format \in {"csv", "json", "ndjson"}
               /\ f.lines \in Seq(LineKind)
               /\ f.format = "json" => \A k \in DOMAIN f.lines : f.lines[k] # "blank"

ASSUME FileAssumption == \A f \in File : FileType(f)
ASSUME ConstantsAssumption ==
    /\ Source # {} /\ File # {}
    /\ BatchSize \in Nat \ {0} /\ MaxErrors \in Nat

SourceRow == [status : {"pending", "active", "error"}, failing : BOOLEAN, events : Nat]

Entry == [source : Source, upload : Upload, line : Nat]

Job == [upload : Upload, file : File, status : {"completed", "partial", "failed"},
        total : Nat, accepted : Nat, rejected : Nat, errors : SUBSET Nat]

Session == [phase : {"idle", "inserting", "failing", "done", "lost"}, source : Source, file : File,
            seen : Nat, left : SUBSET Nat, held : SUBSET Entry]

TypeOK ==
    /\ registered \subseteq Source
    /\ source \in [Source -> SourceRow]
    /\ entries \subseteq Entry
    /\ jobs \in [Source -> Seq(Job)]
    /\ req \in [Upload -> Session]

NewSource == [status |-> "pending", failing |-> FALSE, events |-> 0]

EmptySession(phase) ==
    [phase |-> phase, source |-> CHOOSE s \in Source : TRUE, file |-> CHOOSE f \in File : TRUE,
     seen |-> 0, left |-> {}, held |-> {}]

Init ==
    /\ registered = {}
    /\ source = [s \in Source |-> NewSource]
    /\ entries = {}
    /\ jobs = [s \in Source |-> <<>>]
    /\ req = [u \in Upload |-> EmptySession("idle")]
-----------------------------------------------------------------------------
LinesOf(f, kinds) == {k \in DOMAIN f.lines : f.lines[k] \in kinds}

\* The first n of a set of lines, in the order of the file.
FirstOf(lines, n) == {k \in lines : Cardinality({j \in lines : j <= k}) <= n}

\* parsers: an NDJSON file of blank lines is empty; a CSV file of blank rows, or an
\* empty JSON array, is a file without records.
Readable(f) == f.sound /\ (f.format = "ndjson" => LinesOf(f, LineKind \ {"blank"}) # {})

\* _collect: the items the parser yields.
Records(f) == LinesOf(f, LineKind \ {"blank"})

\* _normalize: the records that become rows.
Accepted(f) == LinesOf(f, {"event", "unstorable"})

\* _report: the parse failures come first, since the file is parsed as a whole
\* before anything is normalised.
ErrorSample(f) ==
    LET broken == FirstOf(LinesOf(f, {"broken"}), MaxErrors)
    IN  broken \cup FirstOf(LinesOf(f, {"undated"}), MaxErrors - Cardinality(broken))

\* _collect and _normalize: each counts what it sets aside.
Rejected(f) == Cardinality(LinesOf(f, {"broken"})) + Cardinality(LinesOf(f, {"undated"}))

\* _finish: the status of a job whose file was read.
StatusOf(f) ==
    CASE Accepted(f) = {} -> "failed"
      [] Accepted(f) # {} /\ Rejected(f) > 0 -> "partial"
      [] OTHER -> "completed"

\* The job of an upload: of a file that was read, and of one that was not.
JobOf(u) ==
    LET f == req[u].file
    IN  IF req[u].phase = "failing"
        THEN [upload |-> u, file |-> f, status |-> "failed", total |-> 0, accepted |-> 0,
              rejected |-> 0, errors |-> {}]
        ELSE [upload |-> u, file |-> f, status |-> StatusOf(f),
              total |-> Cardinality(Records(f)), accepted |-> Cardinality(Accepted(f)),
              rejected |-> Rejected(f), errors |-> ErrorSample(f)]

\* _batches: the rows of the next INSERT.
Batch(u) == FirstOf(req[u].left, BatchSize)

\* A variant of _batches that yields whole batches only.
WholeBatchLeft(u) == Cardinality(req[u].left) >= BatchSize

\* _batches: there is another batch.
BatchLeft(u) == req[u].left # {}

\* A variant that adds to the count the session read.
ReadModifyWrite(u) == req[u].seen + Cardinality(Accepted(req[u].file))

\* _update_source: the count is incremented in SQL.
EventsAfter(u) == source[req[u].source].events + Cardinality(Accepted(req[u].file))

\* A variant of _update_source without its early return.
TouchAlways(u) == [status |-> "active", failing |-> FALSE, events |-> EventsAfter(u)]

\* _update_source, which leaves the row alone when nothing was accepted.
Updated(u) ==
    IF Accepted(req[u].file) = {} THEN source[req[u].source]
    ELSE [status |-> "active", failing |-> FALSE, events |-> EventsAfter(u)]
-----------------------------------------------------------------------------
Finish(u) == req' = [req EXCEPT ![u] = EmptySession("done")]

\* The lines of an upload that became rows.
RowsOf(u, lines) == [source : {req[u].source}, upload : {u}, line : lines]

\* POST /log-sources.
Register(s) ==
    /\ s \notin registered
    /\ registered' = registered \cup {s}
    /\ UNCHANGED <<source, entries, jobs, req>>

\* Refused before the pipeline: an unknown source (404), an unsupported type
\* (415), a file that is too large (413) or of no bytes (400).
Reject(u) ==
    /\ req[u].phase = "idle"
    /\ Finish(u)
    /\ UNCHANGED <<registered, source, entries, jobs>>

\* The endpoint reads the source, ingest_upload flushes the job, and the file is
\* parsed and normalised.
Begin(u, s, f) ==
    /\ req[u].phase = "idle"
    /\ s \in registered
    /\ req' = [req EXCEPT ![u] =
                 [phase |-> IF Readable(f) THEN "inserting" ELSE "failing",
                  source |-> s, file |-> f, seen |-> source[s].events,
                  left |-> IF Readable(f) THEN Accepted(f) ELSE {}, held |-> {}]]
    /\ UNCHANGED <<registered, source, entries, jobs>>

\* _insert: one INSERT of a batch.
InsertBatch(u) ==
    /\ req[u].phase = "inserting"
    /\ BatchLeft(u)
    /\ \A k \in Batch(u) : req[u].file.lines[k] # "unstorable"
    /\ req' = [req EXCEPT
                 ![u].left = @ \ Batch(u),
                 ![u].held = @ \cup RowsOf(u, Batch(u))]
    /\ UNCHANGED <<registered, source, entries, jobs>>

\* The database refuses a row of the batch: the exception leaves the handler, and
\* the transaction is rolled back with its job.
InsertRefused(u) ==
    /\ req[u].phase = "inserting"
    /\ BatchLeft(u)
    /\ \E k \in Batch(u) : req[u].file.lines[k] = "unstorable"
    /\ Finish(u)
    /\ UNCHANGED <<registered, source, entries, jobs>>

\* _finish, _update_source, the audit entry and the commit.
Commit(u) ==
    LET s == req[u].source
    IN  /\ req[u].phase = "inserting"
        /\ ~BatchLeft(u)
        /\ entries' = entries \cup req[u].held
        /\ source' = [source EXCEPT ![s] = Updated(u)]
        /\ jobs' = [jobs EXCEPT ![s] = Append(@, JobOf(u))]
        /\ Finish(u)
        /\ UNCHANGED registered

\* The file could not be read: _mark_source_error, the audit entry and the commit.
CommitFailure(u) ==
    LET s == req[u].source
    IN  /\ req[u].phase = "failing"
        /\ source' = [source EXCEPT ![s].status = "error", ![s].failing = TRUE]
        /\ jobs' = [jobs EXCEPT ![s] = Append(@, JobOf(u))]
        /\ Finish(u)
        /\ UNCHANGED <<registered, entries>>

\* The process or its connection is lost in the middle of an upload.
Lost(u) ==
    /\ req[u].phase \in {"inserting", "failing"}
    /\ req' = [req EXCEPT ![u] = EmptySession("lost")]
    /\ UNCHANGED <<registered, source, entries, jobs>>

Next ==
    \/ \E s \in Source : Register(s)
    \/ \E u \in Upload :
         \/ Reject(u)
         \/ \E s \in Source, f \in File : Begin(u, s, f)
         \/ InsertBatch(u)
         \/ InsertRefused(u)
         \/ Commit(u)
         \/ CommitFailure(u)
         \/ Lost(u)

Spec == Init /\ [][Next]_vars
-----------------------------------------------------------------------------
(***************************************************************************)
(* Properties.                                                             *)
(***************************************************************************)
StoredOf(s) == {e \in entries : e.source = s}

\* _update_source: "two concurrent uploads cannot lose each other's count".  A
\* source's running total is the number of its stored entries, whichever uploads
\* overlapped, were refused half-way or were lost.
CountersAddUp == \A s \in Source : source[s].events = Cardinality(StoredOf(s))

\* IngestionJob "keeps the outcome of an upload": every job's numbers are those of
\* its file, with as many entries stored as it says were accepted, batch
\* boundaries or not, and its sample of errors is as full as it may be.  An entry
\* without a job there is not.
JobsTellWhatWasStored ==
    /\ \A s \in Source : \A k \in DOMAIN jobs[s] :
          LET job == jobs[s][k]
          IN  /\ job.accepted = Cardinality({e \in StoredOf(s) : e.upload = job.upload})
              /\ job.total = job.accepted + job.rejected
              /\ (job.status = "completed") <=> (job.accepted > 0 /\ job.rejected = 0)
              /\ Cardinality(job.errors) = IF job.rejected < MaxErrors THEN job.rejected
                                           ELSE MaxErrors
    /\ \A e \in entries : \E k \in DOMAIN jobs[e.source] : jobs[e.source][k].upload = e.upload

\* Whether a job says something about the health of its source: its file could
\* not be read, or something of it was stored.
Telling(job) == ~Readable(job.file) \/ job.accepted > 0

ShowsUpload(s, job) ==
    LET failed == ~Readable(job.file)
    IN  /\ source[s].failing = failed
        /\ source[s].status = IF failed THEN "error" ELSE "active"

\* LogSourceStatus, "collector health": a source is in error, with the reason at
\* hand, exactly when the last upload that says anything about it was unreadable;
\* one that is active has no stale error beside it.
SourceShowsItsLastUpload ==
    \A s \in Source :
        /\ \A k \in 1..Len(jobs[s]) :
              /\ Telling(jobs[s][k])
              /\ \A j \in k + 1..Len(jobs[s]) : ~Telling(jobs[s][j])
              => ShowsUpload(s, jobs[s][k])
        /\ (\A k \in 1..Len(jobs[s]) : ~Telling(jobs[s][k])) => source[s] = NewSource

=============================================================================
