------------------------------- MODULE Migrate -------------------------------
(***************************************************************************)
(* scripts/migrate.py, run by several replicas at once against one         *)
(* database, and alembic/env.py, which applies all revisions that are      *)
(* missing in one transaction.                                             *)
(*                                                                         *)
(* A migrator holds the advisory lock on one connection while alembic      *)
(* works on another, so it can lose the lock and not notice before it      *)
(* gives the lock back.  Besides the migrators, somebody may run alembic   *)
(* by hand, which takes no lock, and the old version of the application is *)
(* still serving: its transactions write rows and hold locks.              *)
(***************************************************************************)
EXTENDS Revisions, Models

CONSTANTS
    Replica,    \* the migrators
    Row,        \* the rows of a table
    NoReplica,
    MaxTries,   \* how many retries fit in CONNECT_TIMEOUT_SECONDS
    MaxFaults   \* bound: lost connections, outages and killed migrators

ASSUME MigrateAssumption ==
    /\ MaxTries \in Nat /\ MaxFaults \in Nat
    /\ NoReplica \notin Replica

VARIABLES
    db,         \* the committed database
    version,    \* the row of alembic_version, as the place of a revision in the chain
    lock,       \* whose session holds the advisory lock
    reachable,  \* the database accepts connections
    rep,        \* what each migrator is at
    faults,
    disturbed   \* auxiliary: a fault, alembic by hand, no right to the extension, or a
                \* transaction of the application that crossed the one of an upgrade

vars == <<db, version, lock, reachable, rep, faults, disturbed>>

Final == {"done", "failed", "unreachable"}

Migrator == [phase : {"waiting", "extensions", "locking", "locked", "upgrading",
                      "converting", "unlocking"} \cup Final,
             tries : 0..MaxTries,
             session : BOOLEAN,         \* the connection of the lock is open
             base : 0..Latest,          \* the revision alembic found
             moved : SUBSET Row,        \* the rows its UPDATE rewrote, and locks
             ok : BOOLEAN]              \* the upgrade raised nothing

TypeOK ==
    /\ version \in 0..Latest
    /\ ~db.failed
    /\ lock \in Replica \cup {NoReplica}
    /\ reachable \in BOOLEAN
    /\ rep \in [Replica -> Migrator]
    /\ faults \in 0..MaxFaults
    /\ disturbed \in BOOLEAN

\* Deployed before at any revision, or not yet; the extension is there, or the role may
\* install it, or neither.  The rows of one table are followed; no statement mixes them.
Init ==
    /\ version \in 0..Latest
    /\ \E extension, privileged \in BOOLEAN :
          /\ extension => ~privileged
          /\ version > 0 => extension
          /\ \E watched \in Rebuilt :
                db = Run(EmptyDatabase({watched}, Row, extension, privileged), Chain[version])
          /\ disturbed = (~extension /\ ~privileged)
    /\ lock = NoReplica
    /\ reachable \in BOOLEAN
    /\ rep = [r \in Replica |-> [phase |-> "waiting", tries |-> MaxTries, session |-> FALSE,
                                 base |-> 0, moved |-> {}, ok |-> TRUE]]
    /\ faults = 0
-----------------------------------------------------------------------------
Goes(r, phase) == rep' = [rep EXCEPT ![r].phase = phase]

\* A variant that waits for ever.
Untiring(tries) == TRUE

TriesLeft(tries) == tries > 0

\* wait_for_database.
Wait(r) ==
    /\ rep[r].phase = "waiting"
    /\ IF reachable THEN rep' = [rep EXCEPT ![r].phase = "extensions", ![r].tries = 0]
       ELSE IF TriesLeft(rep[r].tries)
       THEN rep' = [rep EXCEPT ![r].tries = IF @ > 0 THEN @ - 1 ELSE @]
       ELSE Goes(r, "unreachable")
    /\ UNCHANGED <<db, version, lock, reachable, faults, disturbed>>

\* ensure_extensions: whatever goes wrong is only logged.
EnsureExtensions(r) ==
    /\ rep[r].phase = "extensions"
    /\ db' = [db EXCEPT !.schema.extension = @ \/ (reachable /\ db.schema.privileged)]
    /\ Goes(r, "locking")
    /\ UNCHANGED <<version, lock, reachable, faults, disturbed>>

\* A variant that takes no lock.
Anyhow(held) == TRUE

Grantable(held) == held = NoReplica

\* run_migrations: pg_advisory_lock blocks while another session holds the lock.
Lock(r) ==
    /\ rep[r].phase = "locking"
    /\ IF reachable
       THEN /\ Grantable(lock)
            /\ lock' = r
            /\ rep' = [rep EXCEPT ![r].phase = "locked", ![r].session = TRUE]
       ELSE Goes(r, "failed") /\ UNCHANGED lock
    /\ UNCHANGED <<db, version, reachable, faults, disturbed>>

\* command.upgrade: alembic connects and finds the revision of the database.
Begin(r) ==
    /\ rep[r].phase = "locked"
    /\ rep' = [rep EXCEPT ![r].phase = IF reachable THEN "upgrading" ELSE "unlocking",
                          ![r].ok = reachable,
                          ![r].base = IF reachable THEN version ELSE 0]
    /\ UNCHANGED <<db, version, lock, reachable, faults, disturbed>>

\* Variants of the revisions: one that forgets the default of a rebuilt column, and one that
\* reopens what was closed.
DefaultsLost(n) == SelectSeq(UpgradeFrom[n], LAMBDA s : s.op # "set default")
Reopening(n) ==
    [i \in DOMAIN UpgradeFrom[n] |->
        LET s == UpgradeFrom[n][i]
        IN  IF s.op = "alter type" /\ s.mapping = Collapse THEN [s EXCEPT !.mapping["closed"] = "open"]
            ELSE s]

\* The statements of the revisions a database at revision n lacks.
Missing(n) == UpgradeFrom[n]

\* An UPDATE ahead of all other statements locks the rows it rewrites and not the table.
First(n) == Head(Missing(n))
Rehomes(n) == n < Latest /\ First(n).op = "update"

\* s gives a row of the table with this label another one.
Moves(s, table, label) == Relabelled(table, s, label) # label

\* That UPDATE, on the rows committed by then; the transaction goes on.
Rehome(r) ==
    LET base == rep[r].base
    IN  /\ rep[r].phase = "upgrading"
        /\ Rehomes(base) /\ version = base
        /\ rep' = [rep EXCEPT ![r].phase = "converting",
                              ![r].moved = {row \in Row : \E t \in DOMAIN db.value :
                                                Moves(First(base), t, db.value[t][row])}]
        /\ UNCHANGED <<db, version, lock, reachable, faults, disturbed>>

\* What a transaction sees by the time it locks the table: the rows it rewrote, and of the
\* others what is committed.
Seen(r) ==
    [schema |-> db.schema,
     value |-> [t \in DOMAIN db.value |-> [row \in Row |->
                  IF row \in rep[r].moved
                  THEN Relabelled(t, First(rep[r].base), db.value[t][row])
                  ELSE db.value[t][row]]],
     failed |-> FALSE]

Ends(r, ok) == rep' = [rep EXCEPT ![r].phase = "unlocking", ![r].base = 0, ![r].moved = {},
                                  ![r].ok = ok]

\* The transaction ends: with nothing to do, or with an error because the version row is no
\* longer the one found, or after the statements that lock their tables.  (Of two
\* transactions that both wait to, the one that is not the deadlock's victim ends first, and
\* the other finds its version gone.)  They meet the database as it is by then, and fail on
\* it or commit.
Upgrade(r) ==
    LET base == rep[r].base
        left == IF rep[r].phase = "converting" THEN Tail(Missing(base)) ELSE Missing(base)
    IN  /\ \/ rep[r].phase = "converting"
           \/ rep[r].phase = "upgrading" /\ ~(Rehomes(base) /\ version = base)
        /\ \/ /\ base = Latest \/ version # base
              /\ Ends(r, base = Latest)
              /\ UNCHANGED <<db, version>>
           \/ /\ base < Latest /\ version = base
              /\ \E new \in {Run(Seen(r), left)} :
                    /\ Ends(r, ~new.failed)
                    /\ db' = IF new.failed THEN db ELSE new
                    /\ version' = IF new.failed THEN version ELSE Latest
        /\ UNCHANGED <<lock, reachable, faults, disturbed>>

\* The finally of run_migrations: on a connection that is lost it raises as well.
Unlock(r) ==
    /\ rep[r].phase = "unlocking"
    /\ lock' = IF lock = r THEN NoReplica ELSE lock
    /\ rep' = [rep EXCEPT ![r].phase = IF rep[r].ok /\ rep[r].session THEN "done"
                                        ELSE "failed",
                          ![r].session = FALSE, ![r].ok = TRUE]
    /\ UNCHANGED <<db, version, reachable, faults, disturbed>>
-----------------------------------------------------------------------------
Fault ==
    /\ faults < MaxFaults
    /\ faults' = faults + 1
    /\ disturbed' = TRUE

Released(gone) == IF lock \in gone THEN NoReplica ELSE lock

\* The session that holds or awaits the lock is cut; alembic's own is not.
LoseSession(r) ==
    /\ rep[r].session \/ rep[r].phase = "locking"
    /\ Fault
    /\ lock' = Released({r})
    /\ rep' = [rep EXCEPT ![r].session = FALSE,
                          ![r].phase = IF @ = "locking" THEN "failed" ELSE @]
    /\ UNCHANGED <<db, version, reachable>>

\* The process is killed: its sessions end, its transaction is rolled back.
Kill(r) ==
    /\ rep[r].phase \notin Final
    /\ Fault
    /\ lock' = Released({r})
    /\ rep' = [rep EXCEPT ![r] = [phase |-> "failed", tries |-> 0, session |-> FALSE,
                                base |-> 0, moved |-> {}, ok |-> TRUE]]
    /\ UNCHANGED <<db, version, reachable>>

\* The database goes away, with every session and transaction, and comes back.
Outage ==
    /\ reachable
    /\ Fault
    /\ reachable' = FALSE
    /\ lock' = NoReplica
    /\ rep' = [r \in Replica |->
                  CASE rep[r].phase \in {"upgrading", "converting"} ->
                          [rep[r] EXCEPT !.session = FALSE, !.phase = "unlocking",
                                         !.base = 0, !.moved = {}, !.ok = FALSE]
                    [] OTHER -> [rep[r] EXCEPT !.session = FALSE]]
    /\ UNCHANGED <<db, version>>

Recovery ==
    /\ ~reachable
    /\ reachable' = TRUE
    /\ UNCHANGED <<db, version, lock, rep, faults, disturbed>>

\* alembic downgrade -1 and alembic upgrade head, by hand; an error changes nothing.
\* (Read and commit are one step here: what lies between them is Begin, Rehome and Upgrade.)
ByHand(to, statements) ==
    /\ reachable
    /\ \E new \in {Run(db, statements)} : ~new.failed /\ db' = new
    /\ version' = to
    /\ disturbed' = TRUE
    /\ UNCHANGED <<lock, reachable, rep, faults>>

\* A variant of the revisions that leaves types behind, as autogeneration does.
TypesLeft(n) == SelectSeq(Down[n], LAMBDA s : s.op # "drop type if there")

Undone(n) == Down[n]

DowngradeByHand == version > 0 /\ ByHand(version - 1, Undone(version))
UpgradeByHand == version < Latest /\ ByHand(Latest, Missing(version))

\* The type of the column that is rebuilt.
EnumOf(table) == IF table = "users" THEN "user_role" ELSE "incident_status"

\* The application commits a row, with a label its column's type has, unless it has to wait
\* for the lock an UPDATE has on that row.  It crosses the upgrade if the label is the one
\* that the UPDATE has just removed.
Write(table, row) ==
    /\ reachable
    /\ table \in DOMAIN db.schema.tables \cap DOMAIN db.value
    /\ \A r \in Replica : row \notin rep[r].moved
    /\ \E label \in db.schema.types[EnumOf(table)] :
          /\ db' = [db EXCEPT !.value[table][row] = label]
          /\ disturbed' = \/ disturbed
                          \/ \E r \in Replica : /\ rep[r].phase = "converting"
                                                /\ Moves(First(rep[r].base), table, label)
    /\ UNCHANGED <<version, lock, reachable, rep, faults>>

\* A transaction of the application holds a lock the upgrade waits for and waits for one the
\* upgrade has, and PostgreSQL aborts the upgrade to break the deadlock.  (Aborting the
\* other one changes nothing here.)  From nothing, all tables are the upgrade's own.
Deadlock(r) ==
    /\ rep[r].phase \in {"upgrading", "converting"}
    /\ rep[r].base \in 1..(Latest - 1)
    /\ Ends(r, FALSE)
    /\ disturbed' = TRUE
    /\ UNCHANGED <<db, version, lock, reachable, faults>>

Works(r) ==
    \/ Wait(r) \/ EnsureExtensions(r) \/ Lock(r) \/ Begin(r) \/ Rehome(r) \/ Upgrade(r)
    \/ Unlock(r)

Next ==
    \/ \E r \in Replica : Works(r) \/ LoseSession(r) \/ Kill(r) \/ Deadlock(r)
    \/ Outage \/ Recovery
    \/ DowngradeByHand \/ UpgradeByHand
    \/ \E t \in Rebuilt, r \in Row : Write(t, r)

\* The processes run; nothing is promised about the database.
Spec == Init /\ [][Next]_vars /\ \A r \in Replica : WF_vars(Works(r))
-----------------------------------------------------------------------------
RevisionSchema == [n \in 0..Latest |-> Shape(Run(EmptyDatabase({}, {}, TRUE, TRUE), Chain[n]).schema)]

\* Whatever was upgraded, downgraded, raced or cut off: the schema is the one of the
\* revision alembic_version names, with no type left behind that "leaves a downgrade
\* followed by an upgrade failing", and no default or index lost.
SchemaIsTheRevisions == Shape(db.schema) = RevisionSchema[version]

\* At the last revision the tables are the models' own, down to the labels and defaults
\* that `alembic check` does not compare.
LatestFitsTheModels == version = Latest => Shape(db.schema) = Declared

\* No revision reopens a finished incident or finishes an open one, or makes or unmakes
\* an administrator.
Finished == {"closed", "resolved"}

Kept(old, new) ==
    /\ old \in Finished <=> new \in Finished
    /\ old = "admin" <=> new = "admin"

ConversionsKeepTheOutcome ==
    [][version' # version =>
          \A t \in DOMAIN db.value, r \in Row :
             db'.value[t][r] # Absent => Kept(db.value[t][r], db'.value[t][r])]_vars

\* "If it is ever run concurrently anyway, the second caller waits and then finds there
\* is nothing left to do": undisturbed, no migrator that finds the database fails, whatever
\* the rows hold and whatever is written meanwhile.  That excludes of the application what
\* does make an upgrade fail: a deadlock with one of its transactions, and a row that gets
\* the label `responder` between the UPDATE that re-homes those and the lock on the table.
QueuedMigratorsSucceed == ~disturbed => \A r \in Replica : rep[r].phase # "failed"

\* Every migrator ends, although the database may stay away and others fail, lose the
\* lock or die while they hold it.
MigratorsEnd == \A r \in Replica : <>(rep[r].phase \in Final)
=============================================================================
