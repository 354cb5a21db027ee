# A TLA+ model of soc-analyst

This directory specifies the SOC analyst platform (a FastAPI application over PostgreSQL
and Redis, `src/backend`, with its schema migrations, and the session of its web console,
`src/frontend`) in TLA+, checks the specifications with TLC and
proves some of their properties with TLAPS. Each module is written from the source; the
map from definitions to source lines is in `PROJECT.json`.

What is hard to test here is not one handler but two at once. Every request works in one
READ COMMITTED transaction: it *reads* objects into its session, *computes* on them in
memory, then *flushes* and commits. The ORM's identity map keeps an object as it was first
read, its flush writes only the columns that changed in memory, and nothing takes a row
lock before that. So most hazards are of the form "this request decided on what it had
read, another one committed meanwhile".

## 1. Inventory

| Component | State | Operations | Hard behaviour | Correct when |
|---|---|---|---|---|
| Incident lifecycle (`services/incidents.py`, `endpoints/incidents.py`) | incidents, notes, attachments, audit entries | create, update (status transition, edit), note, attach, detach, delete | overlapping updates merge column by column; deletion under a request | stamps fit the status; audit and notes tell what happened; nothing hangs on a deleted incident |
| Evidence links (`anomalies.incident_id`) | one link per anomaly | create with evidence, link, unlink, delete incident | identity map, stale test before the write, ON DELETE SET NULL | a link points to a live incident; a request moves only what it names |
| AI analysis (`services/ai/analyzer.py`) | versioned reports | analyze, cascade on delete | a model call of seconds inside the transaction; version read, then inserted | versions 1..n; severity not below the detectors' without argument |
| Detection (`services/detection`) | anomalies by fingerprint | analyze a window | overlapping runs, multi-row insert with ON CONFLICT, rollback, deadlock | one anomaly per fingerprint, none lost, evidence kept |
| Accounts (`services/auth.py`, `endpoints/users.py`, `scripts/create_admin.py`) | accounts, roles | register, login with rehash, grant, change password, create_admin | check then insert; stale rows written back | one account per address; no right that nobody granted |
| Tokens (`core/security.py`, `services/token_denylist.py`) | token expiry, Redis denylist | login, use, logout | fractions of seconds, Redis failure and restart | a revoked token stays out until it expires |
| Rate limiting (`services/rate_limit.py`) | a Redis counter with a TTL | check, reset | two round trips, fail-open, dying workers | bounded admissions; windows close |
| Log ingestion (`services/ingestion`) | log entries, jobs, source counters | register a source, upload a file | batches in one transaction; one refused row; counters under overlapping uploads | counts add up; a job tells what was stored |
| Knowledge base (`services/rag`) | documents, chunks | create, reindex, delete, search | check-then-insert on the checksum, delete-then-insert of chunks | chunks of a document are one indexing |
| Chunking (`services/rag/chunking.py`) | none (pure) | normalise, chunk | boundaries found by looking back, overlap stepping back further | covers the text; what fits the overlap is whole somewhere; passages move on |
| LLM and embedding clients (`services/ai/groq.py`, `services/rag/embeddings`) | attempts of a call, batches of a job | call, retry, sleep, parse | timeouts, 429 and 5xx, answers that do not fit | bounded requests and delays; every job ends with all its rows or with an error |
| Schema migration (`scripts/migrate.py`, `alembic/`) | the schema, `alembic_version`, an advisory lock, rows under rebuilt enum types | wait, ensure extensions, lock, upgrade, unlock; upgrade and downgrade by hand | replicas at once, a lost lock connection, a killed migrator, an outage; labels that a new type lacks; rows and locks of the old version, which is still serving | the schema is the revision's and, at the last one, the models'; rows keep what they mean; migrators end |
| Console session (`frontend/src/lib`) | token, its copy in sessionStorage, user, screen, calls in flight | restore, login, logout, load, save, reload of the page | late and lost answers, a token that runs out | no page without a session; a sign-out is final; a screen shows what was saved |
| Read endpoints, dashboard, health, shell | none of their own | reads, wiring | none | not modelled: no state changes |

How they interact: an upload commits log entries, which an analysis reads and turns into
anomalies; incidents link anomalies as evidence; an AI analysis reads the evidence, asks
the model and stores a report of the incident; every write also writes an audit entry in
the same transaction; authentication (accounts, tokens, denylist) and the rate limiter
stand in front of all handlers. The console calls them all through one `apiFetch`.
Migrators prepare the schema before a replica serves anything.

## 2. Modules

| Module | Models | State | Actions |
|---|---|---|---|
| `Incidents` | incident lifecycle | `presence`, `row`, `notes`, `attachments`, `audit`, sessions `req`, `clock` | `Create`, `Load`/`NotFound` (`_load`), `Apply` (update in memory), `CommitUpdate`, `CommitNote`, `CommitAttachment`, `LoadAttachment`/`CommitDetach`, `CommitDelete`, `CommitRefused`, `Reject` |
| `IncidentRows` | the incidents the next two modules share | `presence` | none |
| `EvidenceLinks` | links | `presence`, `link`, sessions `linking` | `LoadEvidence`, `FetchForCreate`, `FetchForLink`, `FetchForUnlink`, the four commits, `LinkRefused`, `RejectLinking` |
| `Scoring` | score bands and scaling of `detection/types.py` | none | pure operators |
| `ReportLog` | the promise of the reports table: a growing log | `log` | `Publish`, `Discard` |
| `Reports` | `analyze_incident` and its endpoint; refines `ReportLog` | `presence`, `linked`, `reports`, sessions | `Admit`, `Refuse`, `Gather`, `Answer`, `AnswerFails`, `Number`, `Store`, `StoreRefused`, `Relink`, `Delete` |
| `AnomalyQueue` | the promise of the anomalies table: insert-only by fingerprint | `queue` | `Add` |
| `Detection` | `engine.py` with the brute-force detector; refines `AnomalyQueue` | `logged`, `stored`, analyses `run` | `Ingest`, `Analyze`, `InsertRow`, `Commit`, `BreakDeadlock`, `Abort`, `Reject` |
| `Accounts` | accounts and roles | `known`, `row`, `generation` (hash parameters), sessions | `CheckRegistration`, `CheckAdmin`, `Insert`, `InsertRefused`, `LoadPromotion`, `LoadLogin`, `Authenticate`, `LoadGrant`, `ChangePassword`, `Commit`, `RaiseParameters` |
| `Sessions` | tokens and denylist | `now`, `expiry`, `denied`, `durable`, requests `bearer`; auxiliary `promised`, `crashed` | `Issue`, `Decode`, `Admit`, `Refuse`, `Serve`, `ComputeTtl`, `Revoke`, `RevokeFails`, `Tick`, `Crash` |
| `Ingestion` | `pipeline.py` and its endpoint | `registered`, `source`, `entries`, `jobs`, uploads `req` | `Register`, `Begin`, `InsertBatch`, `InsertRefused`, `Commit`, `CommitFailure`, `Lost`, `Reject` |
| `Corpus` | the promise of the knowledge base: whole documents of different contents | `corpus` | `Add`, `Reindex`, `Remove` |
| `Knowledge` | `rag/ingestion.py` and its endpoints; refines `Corpus` | `documents`, `chunks`, `audit`, sessions `req` | `CheckContent`, `InsertDocument`, `LoadForReindex`, `LoadForDelete`, `BeginDelete`, `DeleteChunks`, `CommitIndex`, `CommitDelete`, `InsertRefused`, `IndexRefused`, `EmbeddingFails`, `Reject`, `Abort` |
| `RateLimit` | one counter | `count`, `ttl`, requests `caller`; auxiliary `recent` | `Count`, `Expire`, `CountFails`, `ExpireFails`, `Die`, `Answer`, `Reset`, `SecondPasses` |
| `Chunking` | `chunking.py` | none | `Normalised`, `Boundary`, `ChunkEnd`, `NextCursor` |
| `ProviderCall` | one call of the embedding or the Groq client | `call` | `Begin`, `TimesOut`, `AnswersStatus`, `EmbeddingAnswers`, `GroqAnswers`, `AnswersNoJson`, `Wake` |
| `Indexing` | a document from its text to its rows, or one completion; extends the two above | `phase`, `text`, `shape`, `cursor`, `ends`, `passages`, `provider`, `start`, `vectors`, `rows`, `call`; auxiliary `spent` | `Clean`, `Split`, `Configure`, `EmbedLocally`, `SendBatch`, `Ask`, `Reply`, `Retry`, `TakeVectors`, `TakeCompletion`, `Fail`, `Store` |
| `Console` | one browser tab and the server it talks to | `tab`, `view`, `calls`, `accepted`, `issued`, `lapsed`, `version`; auxiliary `saved`, `ended`, `visits` | `Visit`, `SubmitLogin`, `PressLogout`, `Fetch`, `Save`, `Serve`, `ServeLogin`, `Break`, five `...Returns`, `Withdraw`, `Lapse` |
| `Schema` | what a DDL statement does to a PostgreSQL database, and when it is refused | none | `Accepted`, `Convertible`, `Restructured`, `Relabelled`, `Execute`, `Run` |
| `Revisions` | the seven revisions, up and down, as sequences of statements | none | `Up`, `Down`, `UpgradeFrom` |
| `Models` | the tables and types `app/models` declares | none | `Declared` |
| `Migrate` | `scripts/migrate.py` with `alembic/env.py`; extends the three above | `db`, `version`, `lock`, `reachable`, migrators `rep`, `faults`; auxiliary `disturbed` | `Wait`, `EnsureExtensions`, `Lock`, `Begin`, `Rehome`, `Upgrade`, `Unlock`, `LoseSession`, `Kill`, `Deadlock`, `Outage`, `Recovery`, `DowngradeByHand`, `UpgradeByHand`, `Write` |
| `RevisionFacts` | what the revisions make of a database with a row for each label, or for one; extends `Migrate` | none | none |

A module `MCx` instantiates `x` for TLC, a module `x_proofs` holds the theorems about it.
`Incidents_proofs` is also about `EvidenceLinks`, `Knowledge_proofs` about `Indexing`, and
`Guards_proofs` about the three guards of a handler, `Sessions`, `RateLimit` and `Accounts`. Modules whose theorems stand together
share no name, so their initial states and specifications are called `LinksInit`,
`TokensSpec`, `RateNext` and so on; `Indexing` follows them.

**How a request is modelled.** A request is a record in `req` (or `run`) with a phase. The
step that reads takes a copy of the committed rows; the step that flushes and commits is
one step, because the flush takes the row locks that every other writer then waits for.
The exception is `Detection`: its multi-row INSERT can wait in the middle, so its rows go
in one by one, with the waiting and the deadlock detection of PostgreSQL, and `Knowledge`,
whose DELETE of the old chunks sees the rows there were when it began, waits for the ones
another transaction is deleting, and then deletes what is left of them.

**How the console is modelled.** JavaScript runs one task at a time: a handler up to its
`await` is one step and what follows is another, so a call in flight is a record with the
token it was sent with and, once the server decided, its reply. `Serve` and `Break` fix the
reply, a `...Returns` action is the code behind the `await`. Reloading the page loses
everything but sessionStorage, and the server may or may not have seen what was in flight.
One thing is merged: after a save `onChanged` asks for another load, which the effect of
`useApi` starts in a later task of React; in the model it starts in the step of the save, so
the frame in between, which still shows what was read before, is left out.

**How a migration is modelled.** A revision is a sequence of statements, and an upgrade runs
those of all missing revisions in one transaction, as `env.py` does. A database has enum
types, tables and, of one table, the label each row holds. `Accepted` says when the schema
makes PostgreSQL refuse a statement (a type in use is not dropped, a default is an expression
of the old type), `Convertible` when a row does (a label must exist in the new type); one
refusal rolls everything back. `Restructured` is what a statement does to the schema and
`Relabelled` what it does to a row, the same to each.

The old version of the application serves on meanwhile. All statements but one lock their
table exclusively, and the transaction sees in it what was committed by the time it has the
lock. The one is the UPDATE a transaction starts with that finds the revision before
`8a549b9707fc`: it locks the rows it rewrites (`moved`) and no others. So an upgrade is two
steps, `Rehome` and `Upgrade`, with `Write` between them on every row that is not locked, and
the statements of the second step run on what is there by then (`Seen`). `Deadlock` is what
PostgreSQL does when the upgrade and a transaction of the application wait for each other's
tables and the upgrade is the victim. `disturbed` remembers whatever may rightly make a
migrator fail: a fault, alembic by hand, no right to install the extension, such a deadlock,
or a `Write` that gives a row the label `responder` between the two steps.

**Abstractions.** Text, ids and payloads are model values. In `Incidents` one field
stands for all editable fields besides the status, since `update()` treats them alike. In
`Reports` an anomaly is its score and a model answer is a severity with or without an
argument. In `Detection` an entry has the fields the brute-force detector reads; its
corroborating signals, which all raise the score through the remaining headroom, are
represented by the success after failures. Scores are counted in ten-thousandths, the
precision the code rounds to. In `Ingestion` a line of a file is what becomes of it: stored,
rejected, or accepted by the normaliser and refused by the database. In `Knowledge` a
document is its content up to the checksum, and the text of a chunk is its position and
the worker (model and chunk size) that made it. In `Chunking` a text is a sequence of
classes of characters: words, sentence ends, spaces and newlines, the ones its patterns tell
apart. In `Schema` a table has the columns with an enum or vector type and those a later
revision adds or drops, since the others come and go with their table.

Definitions whose comment calls them a variant are what the code would be with a plausible
mistake in it; no specification uses them, and `PROJECT.json` lists which property each
one breaks.

## 3. Runs

| Run | Shows | Instance |
|---|---|---|
| `incidents` | stamps, the end of the audit trail, notes, foreign keys and untouched fields survive four overlapping requests | 1 incident, 4 requests, 2 severities |
| `links` | links point to live incidents, whatever is linked, unlinked and deleted | 2 incidents, 2 anomalies, 4 requests |
| `reports` | versions without gaps, reasons for a severity; refinement of `ReportLog` | 1 incident, 2 anomalies (LOW, CRITICAL), 3 requests |
| `detection` | no duplicate and no lost finding, one anomaly for the same failures although a success raises their score, refinement of `AnomalyQueue`, and analyses that deadlock still end | 2 analyses, 5 failures on 2 accounts over 2 hours and a success, 3 windows, 2 scopes, cap 5 |
| `accounts` | rights change only by a grant of another administrator or by create_admin | 2 accounts, 4 requests, 3 spellings of 2 names, one change of hash parameters |
| `ingestion` | a source's total is the number of its entries; a finished job tells what was stored and the source shows the upload that committed last, also when an upload is refused in its second batch or lost | 2 sources, 3 uploads, 7 files, batches of 2, 2 errors reported |
| `knowledge` | documents are whole and their contents distinct whichever requests overlap; the audit trail tells the corpus; refinement of `Corpus` | 4 requests, 2 contents of different length, 2 workers with different models and chunk sizes |
| `sessions` | a revocation holds to the last fraction of a second; after a crash of Redis, one that is older than a second holds | 1 token, 3 requests, half-second ticks, 2 seconds of life, 4 seconds of clock |
| `rate` | at most twice the limit in a window; windows close, also one that lost its TTL | 3 requests in flight, limit 2, window 3 |
| `indexing` | no character is lost between passages, seams are whole, passages move on; retries, delays and the end of a job under any answers of the provider | all texts of up to 3 and all normalised ones of 8 characters, 4 shapes, batches of 2, 2 retries |
| `console` | no page without a session, a sign-out is final, a screen shows what was saved; sign-outs and rejected sessions end | 2 logins, 2 calls in flight, 1 change, 1 page load |
| `migrate` | the schema is the one its version names and fits the models, rows keep their outcome, queued migrators succeed if nothing crosses them, all end; the assumptions of `RevisionFacts` | 2 migrators, 8 start revisions, one row that is written at any time, 1 retry, 1 fault |

The instance of `detection` is built so that the cases happen: the shorter window ranks the
two accounts the other way round, so that two analyses insert their rows in opposite orders
and wait for each other; six entries are one more than the cap; the success comes late, so
that two analyses of the same failures score them differently.

**Bounds.** The properties are about a step of one request between two steps of another.
Two requests reach every such pair; three and four let a third change what the two had in
common (a resolution between two reopenings, a deletion between a load and a link). One
incident or one counter suffices where the code never relates two; two where an anomaly
can move between them. `Ingestion` has files with up to three rows and batches of two, so
that a last batch is short and a refusal comes after a batch that was inserted. Clocks stop at `MaxTime` in `Sessions`, which is longer than a
token's life plus the second a Redis crash may cost; the counter in `RateLimit` stops at
`Limit + 1`, beyond which no verdict changes, and that model runs for ever. `Incidents`
needs no bound on its clock: each request reads it at most once.

`Indexing` takes every text of its lengths, and overlaps below and above 65% of the size,
where the loop behaves differently; eight characters make three passages with each kind of
boundary in the window. In `Console` two logins are an older and a newer session, two calls
in flight are all that one handler can be overtaken by, and a page load may come between any
of them. In `Migrate` the rows of different tables never mix, so one row of one table is
followed at a time; alembic by hand is a step that commits at once, since what lies between
its reading and its commit is what `Begin`, `Rehome` and `Upgrade` have between them. A fault and a
command by hand may both happen, commands as often as they like.

**Fairness.** `RateSpec` assumes that time passes and nothing about requests, which
is what `WindowCloses` is about. `LostWindowCloses` has a premise, `Busy`: callers come again
and Redis does not fail every single time (strong fairness: a request finds it working
infinitely often, so one of them succeeds). Without callers a counter that lost its TTL
stays, and hurts nobody. `Detection!FairSpec` assumes that a handler goes on with a
transaction it began and that PostgreSQL's deadlock timeout fires; it assumes nothing about
new requests, and `Abort` is never forced. `IndexingFairSpec` assumes that a job goes on by
itself and that httpx ends every attempt, by an answer or by its timeout. `Console!FairSpec`
assumes that a call is answered or breaks and that the browser then runs the handler behind
it, and nothing about the user; `RejectedSessionsEnd` adds its premise, that screens go on
loading and hear an answer now and again. `Migrate!Spec` assumes that the migrators run, and
nothing about the database: it may stay away, and another migrator may hold the lock until it
ends, which it does. That an upgrade goes on means that the transactions of the application it
waits for end, each being one request. The other modules state safety only.

`CHECK_DEADLOCK FALSE` stands where requests are finite and the model rightly stops when
all are handled.

### Disagreements with the documentation

The models reach these states, where a docstring or a comment promises more than the code
does. The properties of the runs state what does hold.

| Module | The code |
|---|---|
| `Incidents` | a move from RESOLVED to INVESTIGATING keeps `resolved_at`: `apply_status` clears it for OPEN only, and its docstring says "Reopening clears ``resolved_at``: leaving the old timestamp behind would make an incident look resolved while it is being worked again" (`services/incidents.py`) |
| `Incidents` | an overlapping resolve and reopen leave OPEN with a resolution time, and merged stamps can put the acknowledgement after the resolution (`models/incident.py` wants dwell times reported from them) |
| `Incidents` | a note and its audit entry quote the status their request had loaded: of two overlapping moves from OPEN both say "Status changed from open", though the second moved the row from elsewhere (`services/incidents.py`). `NotesTellTheMoves` relates the two and, with `AuditEndsAtStatus`, ties to the row the status they move *to* |
| `EvidenceLinks` | an unlink, and a deletion, take an anomaly from the incident it was moved to meanwhile |
| `Reports` | two analyses number their report alike, and the second is lost with a 500 ("Each call produces a new version") |
| `Reports` | a report is held against the assessment its analysis took before the model call; evidence linked during the call does not raise its floor (`services/ai/analyzer.py`). `SeverityHasItsReason` is about the assessment stored with the report |
| `Ingestion` | a row the database refuses aborts the upload together with its job, although `ingest_upload` promises that every upload leaves a trace; nothing in it uses the fingerprint that `models/log_entry.py` keeps to drop a line delivered twice |
| `Knowledge` | the second of two overlapping creations of one content, or of two overlapping reindexings, is refused by a constraint and answered with a 500 instead of a 409 or a new index |
| `Detection` | the fingerprint holds the hour of the first entry inside the window, so a window that starts an hour into the burst stores the same failures again ("the same brute-force burst re-analysed with a slightly different window should update nothing and insert nothing, not appear twice with two scores", `detection/types.py`) |
| `Accounts` | a login that upgrades an old hash writes it over the hash of a password change that committed meanwhile ("Transparently upgrade a hash left behind by older Argon2 parameters", `services/auth.py`) |
| `Accounts` | `create_admin` and overlapping registrations store one username in two spellings, after which `get_by_username` finds two rows; two administrators demote each other and leave none |
| `Sessions` | a Redis crash within a second of a logout revives the token ("it stops working immediately"): `SettledRevocationsHold` states what does hold |
| `RateLimit` | of two first requests the later EXPIRE moves the end of the window ("rather than sliding forward") |
| `Indexing` | "a passage near a seam still appears whole somewhere" (`chunking.py`) holds up to an overlap of 65% of the size (`Gentle`); the validator of `core/config.py` admits any below 100%, and with 100 and 80 a seam is cut and passages lie inside one another |
| `Indexing` | the embedding client takes the vectors in the order of the answer and ignores the `index` each has |
| `Console` | a restore that fails late signs a new login out, and one that succeeds late shows the old user with the new token; a 401 to an older token, and the end of an older sign-out, clear a newer login ("The two are kept in step", `lib/auth.tsx`) |
| `Migrate` | `alembic downgrade -1` from incident management fails as soon as an incident is resolved: the old type has no such label and nothing maps it, although the revision says it "Restores the retired values" |
| `Migrate` | a migrator that loses the connection of its lock reports a failure though its upgrade committed, and another can be upgrading by then |
| `Migrate` | an account that the old version makes a `responder` after the UPDATE that is to "Re-home any existing responder before the value disappears" (`8a549b9707fc`) and before the lock on `users` makes the conversion, and the migrator, fail |
| `Migrate` | an upgrade can be the victim of a deadlock with transactions of the old version, and its migrator fails, where `scripts/migrate.py` only thinks of other migrators: "the second caller waits and then finds there is nothing left to do" |

Read off the source beside the models: `README.md` counts six revisions where there are seven;
revisions write `vector(1536)` where the models take `EMBEDDING_DIMENSIONS`.

## 4. Proofs

TLC checks small instances; these hold for every value of the constants, from the named
assumptions of the modules only.

| Theorem | Says | Argument |
|---|---|---|
| `Incidents_proofs!TypeCorrect`, `ResolutionIsStamped`, `InvestigationIsAcknowledged` | types; resolved incidents have both stamps; investigated ones are acknowledged | The stamps are not inductive alone: a commit merges a stale object into a row it has not seen. The invariant adds what every *object in memory* satisfies relative to what it loaded: whichever columns it is going to write make the merged row consistent. |
| `Incidents_proofs!NotesAreTheMoves` | the system notes are the audited moves, each once and in their order | A correspondence between two filtered sequences, in one order. The invariant adds that both are signed only by requests that are over, and that neither tells of an incident that is not there. A request then appends its note and its entry under a signature that neither list has, so the pairs there were remain, and a new pair comes last in both. |
| `Incidents_proofs!AuditEndsAtTheStatus`, `NothingIsOrphaned`, `OnlyNamedFields` | the trail ends at the status; nothing hangs on a deleted incident; a commit writes only what its request names | The first two are inductive with the type: the flush writes a status exactly when the object has another than it loaded, which is exactly when an entry that ends there is recorded with it, so what the row had become meanwhile does not matter; and a foreign key refuses what would hang on a deleted incident. For the third the invariant says that a changed object's field is the one it loaded or the one its request asks for; the first is in no UPDATE. |
| `Reports_proofs!TypeCorrect`, `VersionsHaveNoGaps`, `SeverityIsReasoned` | versions are 1..n, each once; a rating below the floor was argued | A session holds a version it read long ago. The invariant bounds it by the number of reports plus one while the incident lives; the unique constraint then leaves just the next one. |
| `Reports_proofs!ReportsImplementLog` | `Reports` implements `ReportLog` | The mapping lists a set of reports by version, which is a sequence because the versions are 1..n. Adding version n + 1 appends to that list and changes nothing in it, and a deletion empties it. |
| `Incidents_proofs!EvidenceIsNeverOrphaned` | links point to live incidents | inductive with the type: the foreign key is checked for the rows a commit writes, and a deletion clears the links there are by then |
| `Detection_proofs!AnomaliesImplementQueue` | `Detection` implements `AnomalyQueue` | Distinct *stored* fingerprints are not inductive, because a commit adds rows checked long before; distinct *inserted* ones, committed or not, are. |
| `Detection_proofs!FindingsAreStored`, `ReportedOnce` | answered analyses have their findings stored; the same failures are one anomaly | The inserting loop has every finding before its position in its own rows or in committed ones, and a commit moves the one to the other. (That the findings are a list at all needs a log to be a finite set of entries.) A fingerprint is a function of scope, entity and the hour of the first failure, so rows that agree on the failures have one fingerprint, and inserted fingerprints are distinct. |
| `Ingestion_proofs!TotalsAddUp` | a source's total is the number of its entries | The equation is not inductive: an upload adds to the total what it counted long before. The invariant adds that the lines an upload accepted are the ones it inserted and the ones it has left, and that stored entries belong to uploads that are done. |
| `Ingestion_proofs!JobsAreTruthful`, `HealthIsTheLastUpload` | jobs count what was stored; the health of a source is that of its last telling upload | The entries of an upload become visible at once with its job, and nobody adds to them later. The sample of errors has exactly min(rejected, `MaxErrors`) lines, because the rank of a line among the rejected ones is a bijection with 1..n that the sample cuts off. An upload that inserts was readable and one that fails was not; a job that tells nothing leaves the row as the one before it did. |
| `Knowledge_proofs!TextIsCovered`, `SeamsStayWhole`, `PassagesAdvance` | no character is lost, seams are whole, passages move on, for every text, size and overlap | The invariant says of the loop what the properties say of its end: all before the cursor is covered, the last passage ended no further back than the cursor plus the overlap, and whatever fits the overlap and ends before the last end is whole somewhere. A boundary lies beyond 65% of a passage, so with a gentle overlap the next one reaches beyond it. |
| `Knowledge_proofs!RetriesAreBounded` | requests and delays of a job stay within what its retries allow, for every number of retries and batch size | The bound is on a whole job, a step adds to one request of it. The invariant counts the batches that are done, `start = b * BatchSize`: each paid at most for all its attempts, and attempt `a` of the one under way for `a + 1` requests and `2^a - 1` half seconds; another batch is only sent while `b` is less than the number of batches. That the recursive function `TwoTo` doubles, and that it grows, is proved from the least number at which it would not. |
| `Console_proofs!NoPageWithoutSession`, `SignOutIsFinal` | no page without a session; no token after its sign-out | A token could return with an answer. The invariant says which calls may carry what: a stored session is checked by one call at most, with the token the tab has; only a login's answer brings a token, which nobody can have signed out of; neither the token nor its copy in sessionStorage was signed out of; while a stored session is checked there is a token and no sign-out is out. |
| `Console_proofs!NoStaleScreen` | no screen shows what was read before the last change its user was told of | Answers arrive in any order. The invariant is about the answers that are still *wanted*: a load that was answered and not cancelled has a version no older than the last reported change, since the report cancels every load that is out, and a save carries a version that exists. |
| `Guards_proofs!TokensTyped`, `RevocationsHold` | a revoked token is refused until it expires, unless Redis crashed within a second of the answer | The TTL is computed a while before the key is written. The invariant says that from any later moment it reaches the expiry, since it was rounded up; that a key in memory lasts as long as its token; and that the file has the key too, unless it was answered in the same second. A crash therefore loses it only if it falls into that second, and then it is recorded in `crashed`. |
| `Guards_proofs!TwiceTheLimitAtMost` | a span of a window has at most twice the limit | There is an `n` such that the last `n` requests allowed were counted under the key that is there now, so `n` is at most the limit; those before them are at most the limit too, and are a window old by the time the key is gone. A reset or an expiry makes `n` zero. |
| `Guards_proofs!OthersGrantRights` | rights change only by the script or by a grant of another administrator | A commit writes back rows read before others committed. The invariant says of each request what the object it is about to write may differ in: nothing for a login, a password change or an update of one's own account, and what the grant names for a grant, whose caller was an active administrator. |
| `Knowledge_proofs!WholeDocuments`, `KnowledgeImplementsCorpus` | documents are whole; `Knowledge` implements `Corpus` | A commit puts a new set of chunks beside whatever its DELETE did not see. The invariant adds that what a session removed is *every* chunk the document has or nothing; in the second case it is gone or has chunks, and one of the two constraints refuses the INSERTs. |
| `Knowledge_proofs!TrailTellsTheCorpus` | the last entry about a document tells whether and how it is there | Only two steps change the corpus, and each appends the entry about the one document it changes; `DocumentsAreWhole`'s invariant gives what its chunks are then. A document nobody touched keeps both its chunks and its last entry. |
| `Migrate_proofs!SchemaFollowsVersion`, `ModelsFit`, `ConversionsAreKept` | the schema is its version's and, at the last, the models'; no row changes its outcome | A statement is refused by the schema or by a label that is there, and treats all rows alike. So (`RunAlike`) what a transaction makes of a database shows in any other with the same schema and no other labels, by the least statement after which it would not. A run on any rows that does not fail is therefore the run on a single one, row by row, and a run that succeeds on all labels of a revision succeeds on any rows. The invariant says that the database is at its version: the schema is the computed one, and each row holds a label its type has. |
| `Migrate_proofs!ConcurrentMigrations` | undisturbed, no migrator fails, however many there are and whatever is written while they work, a `responder` after the UPDATE excepted | The invariant adds that without a fault each migrator from `Lock` to `Unlock` holds the lock, so the version it found is still the one there when its transaction ends; that the extension is there or can be had; that past the wait the database is reachable; and that after its UPDATE all rows it did not rewrite hold labels the UPDATE lets be. What a transaction sees is then a database of its revision with such labels only, on which the rest of its statements succeeds. |

Each module has a type invariant `TypeOK`. It is proved where a theorem rests on it
(`TypeCorrect` of `Incidents_proofs` and `Reports_proofs`, the invariants of the others) and is
not listed in the runs, which are about what a type does not tell.

`Detection` assumes that its entries are a finite set, as a table is, and `Sessions` that its
clock has a moment after the first; the other assumptions give the constants their types and
bounds (a window and a limit of at least one, an overlap shorter than a passage).

The theorems of `Migrate_proofs` rest on what the seven revisions do, and a prover has no way to
evaluate that. `RevisionFacts` states it in assumptions that name no constant and no variable,
about databases with no row, one row or one row per label: from every revision an upgrade, and
from every one but the first a downgrade, leads to the schema of the revision it is meant for,
keeps the outcome of the row or fails; no upgrade fails where pgvector is there or may be
installed; the statements after a leading UPDATE, on the labels it leaves, do the same; the
last schema is the declared one.
They are closed statements about `Revisions` and `Models`, and TLC evaluates each of them
completely at the start of `migrate`. What is proved is that they suffice: for any rows, any
number of migrators, and any order of faults, retries and commands by hand.

Only model-checked is everything under fairness, which the prover does not reach:
`AnalysesEnd`, `WindowCloses`, `LostWindowCloses`, `JobsEnd`, `SigningOutEnds`,
`RejectedSessionsEnd`, `MigratorsEnd`.

## 5. Not modelled

Left out on purpose: rendering, prompts, logging, the read endpoints (they keep no state and
change none) and the database pool (a parameter of the driver; an analysis holds a connection
during its model call, which can exhaust it).

Left for later, in this order:

1. The detectors besides brute force, and the corroborating signals, as pure functions:
   monotone in the evidence, bounded, one anomaly per address or hour.
2. A composition of detection, links, incidents and reports: a case from its first log entry
   to its report. Each module now takes what the others commit as an environment step.
3. Audit entries about resources other than incidents and documents.
