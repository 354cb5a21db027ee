---------------------------- MODULE RevisionFacts ----------------------------
(***************************************************************************)
(* What the seven revisions do to a database, as far as it can be computed *)
(* once for all: no constant and no variable occurs in the assumptions     *)
(* below.  They are about databases with a row for every label, or for a   *)
(* single one; that other databases fare alike is proved, not assumed.     *)
(***************************************************************************)
EXTENDS Migrate

\* What a row of a table may hold at a revision.
Held(n, table) ==
    {Absent} \cup
    (IF table \in DOMAIN RevisionSchema[n].tables THEN RevisionSchema[n].types[EnumOf(table)]
     ELSE {})

SchemaAt(n, extension, privileged) ==
    [types |-> RevisionSchema[n].types, tables |-> RevisionSchema[n].tables,
     extension |-> extension, privileged |-> privileged]

\* A database at a revision, with a row of each of these labels.
Sample(n, extension, privileged, table, labels) ==
    [schema |-> SchemaAt(n, extension, privileged),
     value |-> [t \in {table} |-> [label \in labels |-> label]],
     failed |-> FALSE]

Singles(n, table) == {{}} \cup {{label} : label \in Held(n, table)}

\* Where the statements lead from revision n, they lead to revision m, and no row is
\* taken for another.
Leads(n, statements, m) ==
    \A extension, privileged \in BOOLEAN, table \in Rebuilt :
        (n > 0 => extension) =>
            \A labels \in Singles(n, table) :
                \E new \in {Run(Sample(n, extension, privileged, table, labels), statements)} :
                    ~new.failed =>
                        /\ new.schema = SchemaAt(m, TRUE, privileged)
                        /\ \A label \in labels :
                              /\ new.value[table][label] \in Held(m, table)
                              /\ new.value[table][label] # Absent =>
                                    Kept(label, new.value[table][label])

\* No label of the revision is in the way of an upgrade.
Upgradable(n) ==
    \A extension, privileged \in BOOLEAN, table \in Rebuilt :
        (n > 0 => extension) /\ (extension \/ privileged) =>
            ~Run(Sample(n, extension, privileged, table, Held(n, table)),
                 UpgradeFrom[n]).failed

\* Where an upgrade starts with an UPDATE: the labels of the revision that it lets be.
Updates(n) == Head(UpgradeFrom[n]).op = "update"
Settled(n, table) ==
    {label \in Held(n, table) : ~Moves(Head(UpgradeFrom[n]), table, label)}

\* It makes every label of the revision a settled one and takes none for another; what
\* comes after it leads to the last revision, and settled labels are not in the way.
Rehomed(n) ==
    /\ \A table \in Rebuilt : \A label \in Held(n, table) :
          \E new \in {Relabelled(table, Head(UpgradeFrom[n]), label)} :
              /\ new \in Settled(n, table)
              /\ Kept(label, new)
    /\ Leads(n, Tail(UpgradeFrom[n]), Latest)
    /\ \A extension, privileged \in BOOLEAN, table \in Rebuilt :
          (n > 0 => extension) /\ (extension \/ privileged) =>
              ~Run(Sample(n, extension, privileged, table, Settled(n, table)),
                   Tail(UpgradeFrom[n])).failed

ASSUME RevisionsAreLists ==
    /\ Latest \in Nat
    /\ \A n \in 0..Latest : Len(Chain[n]) \in Nat /\ Len(UpgradeFrom[n]) \in Nat
    /\ \A n \in 1..Latest : Len(Down[n]) \in Nat
    /\ \A n \in 0..(Latest - 1) : Len(Tail(UpgradeFrom[n])) \in Nat

ASSUME ChainLeads ==
    \A n \in 0..Latest, extension, privileged \in BOOLEAN, table \in Rebuilt :
        (extension => ~privileged) /\ (n > 0 => extension) =>
            Run(EmptyDatabase({table}, {Absent}, extension, privileged), Chain[n])
                = Sample(n, extension, privileged, table, {Absent})

ASSUME UpgradesLead == \A n \in 0..(Latest - 1) : Leads(n, UpgradeFrom[n], Latest)

ASSUME DowngradesLead == \A n \in 1..Latest : Leads(n, Down[n], n - 1)

ASSUME UpgradesSucceed == \A n \in 0..(Latest - 1) : Upgradable(n)

ASSUME RehomingLeads == \A n \in 0..(Latest - 1) : Updates(n) => Rehomed(n)

ASSUME LatestIsDeclared == RevisionSchema[Latest] = Declared
=============================================================================
