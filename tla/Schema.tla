------------------------------- MODULE Schema -------------------------------
(***************************************************************************)
(* What the statements of the revisions under alembic/versions do to a     *)
(* PostgreSQL database, and when PostgreSQL refuses them.                  *)
(*                                                                         *)
(* A database is its schema, which is the enum types with their labels and *)
(* the tables, and the rows as far as an enum column is rebuilt under      *)
(* them.  Of the columns a table has, the ones are kept that have an enum  *)
(* or vector type or that a later revision adds or drops; the others come  *)
(* and go with their table.                                                *)
(***************************************************************************)
EXTENDS Integers, Sequences, SequencesExt, Functions

\* The tables whose enum column (role, status) is rebuilt under their rows; a row is the
\* label it holds there, or Absent.
Rebuilt == {"users", "incidents"}
Absent == "absent"

\* An empty function, and a function less some arguments.
Nothing == [x \in {} |-> {}]
Less(f, gone) == Restrict(f, DOMAIN f \ gone)
With(f, x, y) == [z \in DOMAIN f \cup {x} |-> IF z = x THEN y ELSE f[z]]

\* columns: name -> type; defaults: name -> label; unique: sets of columns;
\* refs: foreign keys; indexes: name -> column, on columns that come and go.
Table(columns, defaults, unique, refs) ==
    [columns |-> columns, defaults |-> defaults, unique |-> unique, refs |-> refs,
     indexes |-> Nothing]

Cascade(column, target) == [column |-> column, target |-> target, rule |-> "CASCADE"]
SetNull(column, target) == [column |-> column, target |-> target, rule |-> "SET NULL"]

\* The rows of the tables in `watched` are followed.
EmptyDatabase(watched, rows, extension, privileged) ==
    [schema |-> [types |-> Nothing, tables |-> Nothing,
                 extension |-> extension,     \* pgvector is installed
                 privileged |-> privileged],  \* the role may install it
     value |-> [t \in watched |-> [r \in rows |-> Absent]],
     failed |-> FALSE]
-----------------------------------------------------------------------------
\* The statements.
CreateExtension == [op |-> "create extension"]
EnsureType(type, labels) == [op |-> "ensure type", type |-> type, labels |-> labels]
CreateType(type, labels) == [op |-> "create type", type |-> type, labels |-> labels]
RenameType(type, new) == [op |-> "rename type", type |-> type, new |-> new]
DropType(type) == [op |-> "drop type", type |-> type]
DropTypeIfThere(type) == [op |-> "drop type if there", type |-> type]
CreateTable(table, is) == [op |-> "create table", table |-> table, is |-> is]
DropTable(table) == [op |-> "drop table", table |-> table]
AddColumn(table, column, type) ==
    [op |-> "add column", table |-> table, column |-> column, type |-> type]
DropColumn(table, column) == [op |-> "drop column", table |-> table, column |-> column]
\* ALTER COLUMN TYPE USING: the label becomes the one it maps to, if any.
AlterType(table, column, type, mapping) ==
    [op |-> "alter type", table |-> table, column |-> column, type |-> type,
     mapping |-> mapping]
SetDefault(table, column, label) ==
    [op |-> "set default", table |-> table, column |-> column, label |-> label]
DropDefault(table, column) == [op |-> "drop default", table |-> table, column |-> column]
AddUnique(table, columns) == [op |-> "add unique", table |-> table, columns |-> columns]
DropUnique(table, columns) == [op |-> "drop unique", table |-> table, columns |-> columns]
CreateIndex(table, index, column) ==
    [op |-> "create index", table |-> table, index |-> index, column |-> column]
DropIndex(table, index) == [op |-> "drop index", table |-> table, index |-> index]
\* UPDATE of the rows that hold a label.
Update(table, old, new) == [op |-> "update", table |-> table, old |-> old, new |-> new]
-----------------------------------------------------------------------------
Uses(schema, type) ==
    \E t \in DOMAIN schema.tables : \E c \in DOMAIN schema.tables[t].columns :
        schema.tables[t].columns[c] = type

Exists(schema, type) ==
    \/ type = "plain"
    \/ type = "vector" /\ schema.extension
    \/ type \in DOMAIN schema.types

Mapped(mapping, label) == IF label \in DOMAIN mapping THEN mapping[label] ELSE label

\* PostgreSQL carries the statement out, as far as the schema tells.
Accepted(schema, s) ==
    CASE s.op = "create extension" -> schema.extension \/ schema.privileged
      [] s.op \in {"ensure type", "drop type if there"} ->
            s.op = "ensure type" \/ ~Uses(schema, s.type)
      [] s.op = "create type" -> s.type \notin DOMAIN schema.types
      [] s.op = "rename type" ->
            s.type \in DOMAIN schema.types /\ s.new \notin DOMAIN schema.types
      [] s.op = "drop type" -> s.type \in DOMAIN schema.types /\ ~Uses(schema, s.type)
      [] s.op = "create table" ->
            /\ s.table \notin DOMAIN schema.tables
            /\ \A type \in Range(s.is.columns) : Exists(schema, type)
            /\ \A ref \in s.is.refs : ref.target \in DOMAIN schema.tables
      [] OTHER ->
            /\ s.table \in DOMAIN schema.tables
            /\ LET is == schema.tables[s.table]
               IN  CASE s.op = "drop table" ->
                          \A t \in DOMAIN schema.tables \ {s.table} :
                              \A ref \in schema.tables[t].refs : ref.target # s.table
                     [] s.op = "add column" ->
                          s.column \notin DOMAIN is.columns /\ Exists(schema, s.type)
                     [] s.op = "alter type" ->
                          \* a default is an expression of the old type
                          s.column \in DOMAIN is.columns \ DOMAIN is.defaults
                     [] s.op = "set default" -> s.label \in schema.types[is.columns[s.column]]
                     [] s.op \in {"drop column", "drop default", "create index"} ->
                          /\ s.column \in DOMAIN is.columns
                          /\ s.op = "create index" => s.index \notin DOMAIN is.indexes
                     [] s.op = "add unique" -> s.columns \notin is.unique
                     [] s.op = "drop unique" -> s.columns \in is.unique
                     [] s.op = "drop index" -> s.index \in DOMAIN is.indexes
                     [] s.op = "update" ->
                          s.new \in schema.types[is.columns[
                              CHOOSE c \in DOMAIN is.columns : c \in {"role", "status"}]]

\* A label the new type lacks is refused.
Convertible(d, s) ==
    (s.op = "alter type" /\ s.table \in DOMAIN d.value) =>
        \A label \in Range(d.value[s.table]) \ {Absent} :
            Mapped(s.mapping, label) \in d.schema.types[s.type]

Possible(d, s) == Accepted(d.schema, s) /\ Convertible(d, s)

\* A table after a statement that is about it.
Altered(is, s) ==
    CASE s.op = "add column" -> [is EXCEPT !.columns = With(@, s.column, s.type)]
      [] s.op = "drop column" ->
            [is EXCEPT !.columns = Less(@, {s.column}), !.defaults = Less(@, {s.column}),
                       !.unique = {u \in @ : s.column \notin u},
                       !.indexes = Less(@, {i \in DOMAIN @ : @[i] = s.column})]
      [] s.op = "alter type" -> [is EXCEPT !.columns[s.column] = s.type]
      [] s.op = "set default" -> [is EXCEPT !.defaults = With(@, s.column, s.label)]
      [] s.op = "drop default" -> [is EXCEPT !.defaults = Less(@, {s.column})]
      [] s.op = "add unique" -> [is EXCEPT !.unique = @ \cup {s.columns}]
      [] s.op = "drop unique" -> [is EXCEPT !.unique = @ \ {s.columns}]
      [] s.op = "create index" -> [is EXCEPT !.indexes = With(@, s.index, s.column)]
      [] s.op = "drop index" -> [is EXCEPT !.indexes = Less(@, {s.index})]
      [] s.op = "update" -> is

\* What a statement makes of the schema.
Restructured(schema, s) ==
    CASE s.op = "create extension" -> [schema EXCEPT !.extension = TRUE]
      [] s.op \in {"ensure type", "create type"} ->
            IF s.type \in DOMAIN schema.types THEN schema
            ELSE [schema EXCEPT !.types = With(@, s.type, s.labels)]
      [] s.op = "rename type" ->
            [schema EXCEPT !.types = With(Less(@, {s.type}), s.new, @[s.type]),
                           !.tables = [t \in DOMAIN @ |-> [@[t] EXCEPT !.columns =
                               [c \in DOMAIN @ |-> IF @[c] = s.type THEN s.new ELSE @[c]]]]]
      [] s.op \in {"drop type", "drop type if there"} ->
            [schema EXCEPT !.types = Less(@, {s.type})]
      [] s.op = "create table" -> [schema EXCEPT !.tables = With(@, s.table, s.is)]
      [] s.op = "drop table" -> [schema EXCEPT !.tables = Less(@, {s.table})]
      [] OTHER -> [schema EXCEPT !.tables[s.table] = Altered(@, s)]

\* What it makes of the label a row of table t holds.
Relabelled(t, s, label) ==
    IF s.op \notin {"drop table", "alter type", "update"} \/ s.table # t THEN label
    ELSE IF s.op = "drop table" THEN Absent
    ELSE IF s.op = "alter type" THEN Mapped(s.mapping, label)
    ELSE IF label = s.old THEN s.new ELSE label

After(d, s) ==
    [schema |-> Restructured(d.schema, s),
     value |-> [t \in DOMAIN d.value |->
                  [r \in DOMAIN d.value[t] |-> Relabelled(t, s, d.value[t][r])]],
     failed |-> FALSE]

Execute(d, s) ==
    IF d.failed THEN d
    ELSE IF Possible(d, s) THEN After(d, s) ELSE [d EXCEPT !.failed = TRUE]

\* A transaction of statements; `failed` when it has to be rolled back.  (Bound to d and
\* s, the database between two statements and the statement are computed once.)
Run(from, statements) ==
    LET after[i \in 0..Len(statements)] ==
            IF i = 0 THEN from
            ELSE CHOOSE e \in {Execute(d, s) : d \in {after[i - 1]}, s \in {statements[i]}} : TRUE
    IN  after[Len(statements)]

\* What a revision is about: the types and the tables.
Shape(schema) == [types |-> schema.types, tables |-> schema.tables]
=============================================================================
