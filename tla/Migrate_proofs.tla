---------------------------- MODULE Migrate_proofs ----------------------------
(***************************************************************************)
(* The schema is the one its version names, rows keep their outcome and    *)
(* queued migrators succeed, for any number of migrators, any rows and any *)
(* faults.                                                                 *)
(*                                                                         *)
(* What the revisions do to single rows is computed in RevisionFacts.      *)
(* Here it is carried over to all databases: a statement is refused or not *)
(* by the schema and the labels there are, and treats every row alike.     *)
(***************************************************************************)
EXTENDS RevisionFacts, WellFoundedInduction, TLAPS

\* A set of natural numbers that is not empty has a least member.
LEMMA LeastExists ==
    ASSUME NEW S \in SUBSET Nat, S # {}
    PROVE  \E i \in S : \A j \in S : i <= j
  <1> DEFINE Below == OpToRel(<, Nat)
  <1>1. IsWellFoundedOn(Below, Nat)
    BY NatLessThanWellFounded
  <1>2. \A x, y \in Nat : x < y => <<x, y>> \in Below
    BY DEF OpToRel
  <1> HIDE DEF Below
  <1>3. PICK i \in S : \A j \in S : ~ (<<j, i>> \in Below)
    BY <1>1, WFMin
  <1>4. \A j \in S : ~ (j < i)
    BY <1>2, <1>3
  <1> QED  BY <1>4
-----------------------------------------------------------------------------
(***************************************************************************)
(* The databases between the statements of a transaction.                  *)
(***************************************************************************)
Stages(a, from, statements, n) ==
    /\ a = [i \in 0..n |-> a[i]]
    /\ a[0] = from
    /\ \A i \in 1..n : a[i] = Execute(a[i - 1], statements[i])

LEMMA StagesExist ==
    ASSUME NEW from, NEW statements
    PROVE  \A n \in Nat : \E a : Stages(a, from, statements, n)
  <1> DEFINE S == {n \in Nat : ~ \E a : Stages(a, from, statements, n)}
  <1>1. SUFFICES ASSUME S # {} PROVE FALSE
    OBVIOUS
  <1>2. S \in SUBSET Nat
    OBVIOUS
  <1>3. PICK m \in S : \A j \in S : m <= j
    <2> HIDE DEF S
    <2> QED  BY <1>1, <1>2, LeastExists
  <1>4. m \in Nat /\ ~ \E a : Stages(a, from, statements, m)
    OBVIOUS
  <1>5. m # 0
    <2>1. Stages([i \in 0..0 |-> from], from, statements, 0)
      BY DEF Stages
    <2> QED  BY <1>4, <2>1
  <1>6. m - 1 \in Nat /\ m - 1 \notin S
    <2>1. m - 1 \in Nat
      BY <1>4, <1>5
    <2> HIDE DEF S
    <2> QED  BY <1>3, <1>4, <2>1
  <1>7. PICK a : Stages(a, from, statements, m - 1)
    BY <1>6
  <1> DEFINE b == [i \in 0..m |-> IF i = m THEN Execute(a[m - 1], statements[m]) ELSE a[i]]
  <1>8. Stages(b, from, statements, m)
    <2>1. b = [i \in 0..m |-> b[i]]
      OBVIOUS
    <2>2. b[0] = from
      BY <1>4, <1>5, <1>7 DEF Stages
    <2>3. ASSUME NEW i \in 1..m PROVE b[i] = Execute(b[i - 1], statements[i])
      <3>1. CASE i = m
        BY <1>4, <1>5, <3>1
      <3>2. CASE i # m
        <4>1. i \in 1..(m - 1) /\ i - 1 \in 0..(m - 1)
          BY <1>4, <3>2
        <4>2. a[i] = Execute(a[i - 1], statements[i])
          BY <1>7, <4>1 DEF Stages
        <4>3. b[i] = a[i] /\ b[i - 1] = a[i - 1]
          BY <1>4, <3>2, <4>1
        <4> HIDE DEF b
        <4> QED  BY <4>2, <4>3
      <3> QED  BY <3>1, <3>2
    <2> HIDE DEF b
    <2> QED  BY <2>1, <2>2, <2>3 DEF Stages
  <1> HIDE DEF b
  <1> QED  BY <1>4, <1>8

LEMMA RunIsTheLast ==
    ASSUME NEW from, NEW statements, Len(statements) \in Nat
    PROVE  \E a : Stages(a, from, statements, Len(statements)) /\ Run(from, statements) = a[Len(statements)]
  <1> DEFINE n == Len(statements)
             Unfolded(a) == [i \in 0..n |-> IF i = 0 THEN from
                 ELSE CHOOSE e \in {Execute(d, s) : d \in {a[i - 1]}, s \in {statements[i]}} : TRUE]
             after == CHOOSE a : a = Unfolded(a)
  <1>1. Run(from, statements) = after[n]
    BY DEF Run
  <1>2. ASSUME NEW x, NEW i PROVE (CHOOSE e \in {Execute(d, s) : d \in {x}, s \in {statements[i]}} : TRUE)
                                    = Execute(x, statements[i])
    OBVIOUS
  <1>3. ASSUME NEW a, NEW i \in 0..n
        PROVE  Unfolded(a)[i] = IF i = 0 THEN from ELSE Execute(a[i - 1], statements[i])
    BY <1>2
  <1>4. PICK a : Stages(a, from, statements, n)
    BY StagesExist
  <1>5. a = Unfolded(a)
    <2>1. \A i \in 0..n : a[i] = Unfolded(a)[i]
      <3> HIDE DEF Unfolded
      <3>1. ASSUME NEW i \in 0..n PROVE a[i] = IF i = 0 THEN from ELSE Execute(a[i - 1], statements[i])
        BY <1>4 DEF Stages
      <3> QED  BY <1>3, <3>1
    <2>2. a = [i \in 0..n |-> a[i]]
      BY <1>4 DEF Stages
    <2>3. Unfolded(a) = [i \in 0..n |-> Unfolded(a)[i]]
      OBVIOUS
    <2> HIDE DEF Unfolded
    <2> QED  BY <2>1, <2>2, <2>3
  <1>6. after = Unfolded(after)
    <2> HIDE DEF Unfolded
    <2> QED  BY <1>5
  <1> HIDE DEF after
  <1>7. after = [i \in 0..n |-> after[i]]
    <2>1. Unfolded(after) = [i \in 0..n |-> Unfolded(after)[i]]
      OBVIOUS
    <2> HIDE DEF Unfolded
    <2> QED  BY <1>6, <2>1
  <1>8. \A i \in 0..n : after[i] = IF i = 0 THEN from ELSE Execute(after[i - 1], statements[i])
    <2>1. \A i \in 0..n : after[i] = Unfolded(after)[i]
      <3> HIDE DEF Unfolded
      <3> QED  BY <1>6
    <2> HIDE DEF Unfolded
    <2> QED  BY <1>3, <2>1
  <1>9. Stages(after, from, statements, n)
    <2> HIDE DEF n
    <2>1. after[0] = from /\ \A i \in 1..n : after[i] = Execute(after[i - 1], statements[i])
      BY <1>8 DEF n
    <2> QED  BY <1>7, <2>1 DEF Stages
  <1> QED  BY <1>1, <1>9
-----------------------------------------------------------------------------
(***************************************************************************)
(* Every row is treated alike.                                             *)
(***************************************************************************)
Database(schema, w, f) ==
    [schema |-> schema, value |-> [t \in {w} |-> f], failed |-> FALSE]

\* Database e has the rows A, and what row r holds is what d has in row rho[r].
Alike(e, d, w, A, B, rho) ==
    \E schema, f :
        /\ f = [x \in B |-> f[x]]
        /\ d = Database(schema, w, f)
        /\ e = Database(schema, w, [r \in A |-> f[rho[r]]])

LEMMA ExecuteOn ==
    ASSUME NEW schema, NEW w, NEW B, NEW f, f = [x \in B |-> f[x]], NEW s
    PROVE  /\ Possible(Database(schema, w, f), s) =>
                  Execute(Database(schema, w, f), s)
                      = Database(Restructured(schema, s), w, [x \in B |-> Relabelled(w, s, f[x])])
           /\ ~Possible(Database(schema, w, f), s) => Execute(Database(schema, w, f), s).failed
  <1> DEFINE d == Database(schema, w, f)
  <1>1. /\ d.schema = schema /\ ~d.failed /\ DOMAIN d.value = {w} /\ d.value[w] = f
        /\ d = [schema |-> schema, value |-> d.value, failed |-> FALSE]
    BY DEF Database
  <1>2. DOMAIN f = B
    OBVIOUS
  <1> HIDE DEF d
  <1>3. ASSUME Possible(d, s)
        PROVE  Execute(d, s) = Database(Restructured(schema, s), w,
                                        [x \in B |-> Relabelled(w, s, f[x])])
    <2>1. Execute(d, s) = After(d, s)
      BY <1>1, <1>3 DEF Execute
    <2>2. [t \in DOMAIN d.value |-> [r \in DOMAIN d.value[t] |-> Relabelled(t, s, d.value[t][r])]]
            = [t \in {w} |-> [x \in B |-> Relabelled(w, s, f[x])]]
      BY <1>1, <1>2
    <2> QED  BY <1>1, <2>1, <2>2 DEF After, Database
  <1>4. ASSUME ~Possible(d, s) PROVE Execute(d, s).failed
    <2>1. Execute(d, s) = [d EXCEPT !.failed = TRUE]
      BY <1>1, <1>4 DEF Execute
    <2>2. "failed" \in DOMAIN d
      BY <1>1
    <2> QED  BY <2>1, <2>2
  <1> QED  BY <1>3, <1>4 DEF d

LEMMA PossibleOn ==
    ASSUME NEW schema, NEW w, NEW f, NEW g, NEW s, Range(g) \subseteq Range(f),
           Possible(Database(schema, w, f), s)
    PROVE  Possible(Database(schema, w, g), s)
  <1> DEFINE d == Database(schema, w, f)
             e == Database(schema, w, g)
  <1>1. /\ d.schema = schema /\ DOMAIN d.value = {w} /\ d.value[w] = f
        /\ e.schema = schema /\ DOMAIN e.value = {w} /\ e.value[w] = g
    BY DEF Database
  <1> HIDE DEF d, e
  <1>2. Accepted(schema, s) /\ Convertible(d, s)
    BY <1>1 DEF Possible, d
  <1>3. Convertible(e, s)
    <2> SUFFICES ASSUME s.op = "alter type", s.table \in DOMAIN e.value,
                        NEW label \in Range(e.value[s.table]) \ {Absent}
                 PROVE  Mapped(s.mapping, label) \in e.schema.types[s.type]
      BY DEF Convertible
    <2>1. s.table = w /\ label \in Range(f) \ {Absent}
      BY <1>1
    <2>2. Mapped(s.mapping, label) \in d.schema.types[s.type]
      BY <1>1, <1>2, <2>1 DEF Convertible
    <2> QED  BY <1>1, <2>2
  <1> QED  BY <1>1, <1>2, <1>3 DEF Possible, e

LEMMA ExecuteAlike ==
    ASSUME NEW d, NEW e, NEW w, NEW A, NEW B, NEW rho, \A r \in A : rho[r] \in B,
           Alike(e, d, w, A, B, rho), NEW s, ~Execute(d, s).failed
    PROVE  Alike(Execute(e, s), Execute(d, s), w, A, B, rho)
  <1>1. PICK schema, f : /\ f = [x \in B |-> f[x]]
                         /\ d = Database(schema, w, f)
                         /\ e = Database(schema, w, [r \in A |-> f[rho[r]]])
    BY DEF Alike
  <1> DEFINE g == [r \in A |-> f[rho[r]]]
             ff == [x \in B |-> Relabelled(w, s, f[x])]
             gg == [r \in A |-> Relabelled(w, s, g[r])]
  <1>2. f = [x \in B |-> f[x]] /\ g = [r \in A |-> g[r]]
    BY <1>1
  <1>3. Possible(d, s)
    BY <1>1, ExecuteOn
  <1>4. Range(g) \subseteq Range(f)
    <2>1. DOMAIN f = B
      BY <1>1
    <2>2. DOMAIN g = A /\ \A r \in A : g[r] = f[rho[r]]
      OBVIOUS
    <2> HIDE DEF g
    <2> QED  BY <2>1, <2>2 DEF Range
  <1> HIDE DEF g
  <1>5. e = Database(schema, w, g)
    BY <1>1 DEF g
  <1>6. Possible(e, s)
    BY <1>1, <1>3, <1>4, <1>5, PossibleOn
  <1>7. Execute(d, s) = Database(Restructured(schema, s), w, ff)
    BY <1>1, <1>2, <1>3, ExecuteOn
  <1>8. Execute(e, s) = Database(Restructured(schema, s), w, gg)
    BY <1>2, <1>5, <1>6, ExecuteOn
  <1>9. gg = [r \in A |-> ff[rho[r]]]
    BY DEF g
  <1>10. ff = [x \in B |-> ff[x]]
    OBVIOUS
  <1> HIDE DEF ff, gg
  <1> QED  BY <1>7, <1>8, <1>9, <1>10 DEF Alike

\* What a transaction does not fail on, it does not fail on either with less in the rows.
LEMMA RunAlike ==
    ASSUME NEW d, NEW e, NEW w, NEW A, NEW B, NEW rho, \A r \in A : rho[r] \in B,
           Alike(e, d, w, A, B, rho),
           NEW statements, Len(statements) \in Nat, ~Run(d, statements).failed
    PROVE  Alike(Run(e, statements), Run(d, statements), w, A, B, rho)
  <1> DEFINE n == Len(statements)
  <1> USE DEF n
  <1>1. PICK a : Stages(a, d, statements, n) /\ Run(d, statements) = a[n]
    BY RunIsTheLast
  <1>2. PICK b : Stages(b, e, statements, n) /\ Run(e, statements) = b[n]
    BY RunIsTheLast
  <1> HIDE DEF n
  <1>3. n \in Nat
    BY DEF n
  <1> DEFINE Fine(i) == ~a[i].failed => Alike(b[i], a[i], w, A, B, rho)
             S == {i \in 0..n : ~Fine(i)}
  <1>4. SUFFICES ASSUME S # {} PROVE FALSE
    <2>1. n \in 0..n
      BY <1>3
    <2> QED  BY <1>1, <1>2, <2>1 DEF n
  <1>5. S \in SUBSET Nat
    BY <1>3
  <1>6. PICK i \in S : \A j \in S : i <= j
    <2> HIDE DEF S
    <2> QED  BY <1>4, <1>5, LeastExists
  <1>7. i \in 0..n /\ ~a[i].failed /\ ~Alike(b[i], a[i], w, A, B, rho)
    OBVIOUS
  <1>8. i # 0
    BY <1>1, <1>2, <1>7 DEF Stages
  <1>9. i - 1 \in 0..n /\ i \in 1..n /\ i - 1 \notin S
    <2>1. i - 1 \in 0..n /\ i \in 1..n
      BY <1>3, <1>7, <1>8
    <2>2. ~(i <= i - 1)
      BY <1>3, <1>7
    <2> HIDE DEF S
    <2> QED  BY <1>6, <2>1, <2>2
  <1>10. a[i] = Execute(a[i - 1], statements[i]) /\ b[i] = Execute(b[i - 1], statements[i])
    BY <1>1, <1>2, <1>9 DEF Stages
  <1>11. ~a[i - 1].failed
    BY <1>7, <1>10 DEF Execute
  <1>12. Alike(b[i - 1], a[i - 1], w, A, B, rho)
    BY <1>9, <1>11
  <1> HIDE DEF S, Fine
  <1> QED  BY <1>7, <1>10, <1>12, ExecuteAlike
-----------------------------------------------------------------------------
(***************************************************************************)
(* From revision to revision.                                              *)
(***************************************************************************)
LEMMA SampleIs ==
    ASSUME NEW n, NEW extension, NEW privileged, NEW w, NEW labels
    PROVE  Sample(n, extension, privileged, w, labels)
             = Database(SchemaAt(n, extension, privileged), w, [label \in labels |-> label])
  BY DEF Sample, Database

\* A database at revision n, whatever its rows hold.
AtRevision(d, n) ==
    \E w \in Rebuilt, extension, privileged \in BOOLEAN :
        \E f \in [Row -> Held(n, w)] :
            /\ n > 0 => extension
            /\ d = Database(SchemaAt(n, extension, privileged), w, f)

\* No row is taken for another.
RowsKept(d, new) ==
    \A t \in DOMAIN d.value, r \in Row :
        new.value[t][r] # Absent => Kept(d.value[t][r], new.value[t][r])

\* What holds of a database with one row or none holds of every one.
LEMMA RunFits ==
    ASSUME NEW n \in 0..Latest, NEW m \in 0..Latest,
           NEW statements, Len(statements) \in Nat, Leads(n, statements, m),
           NEW d, AtRevision(d, n), NEW new, new = Run(d, statements), ~new.failed
    PROVE  AtRevision(new, m) /\ RowsKept(d, new) /\ new.schema.extension
  <1>1. PICK w \in Rebuilt, x \in BOOLEAN, p \in BOOLEAN :
            \E f \in [Row -> Held(n, w)] :
                (n > 0 => x) /\ d = Database(SchemaAt(n, x, p), w, f)
    BY DEF AtRevision
  <1> DEFINE here == SchemaAt(n, x, p)
  <1>2. PICK f \in [Row -> Held(n, w)] : (n > 0 => x) /\ d = Database(here, w, f)
    BY <1>1
  <1> HIDE DEF here
  <1> DEFINE S(labels) == Database(here, w, [label \in labels |-> label])
  <1>3. f = [r \in Row |-> f[r]]
    OBVIOUS
  <1>4. ASSUME NEW labels, NEW rho, \A label \in labels : rho[label] \in Row /\ f[rho[label]] = label
        PROVE  Alike(Run(S(labels), statements), new, w, labels, Row, rho)
    <2> DEFINE same == [label \in labels |-> label]
    <2>1. same = [label \in labels |-> f[rho[label]]]
      BY <1>4
    <2>2. Alike(S(labels), d, w, labels, Row, rho)
      <3> HIDE DEF same
      <3>1. S(labels) = Database(here, w, same)
        BY DEF same
      <3> HIDE DEF S
      <3> QED  BY <1>3, <1>2, <2>1, <3>1 DEF Alike
    <2> HIDE DEF S
    <2> QED  BY <1>4, <2>2, RunAlike
  <1>5. ASSUME NEW labels \in Singles(n, w), ~Run(S(labels), statements).failed
        PROVE  /\ Run(S(labels), statements).schema = SchemaAt(m, TRUE, p)
               /\ \A label \in labels :
                     /\ Run(S(labels), statements).value[w][label] \in Held(m, w)
                     /\ Run(S(labels), statements).value[w][label] # Absent =>
                           Kept(label, Run(S(labels), statements).value[w][label])
    <2> DEFINE end == Run(S(labels), statements)
    <2>1. Run(Sample(n, x, p, w, labels), statements) = end
      BY SampleIs DEF here
    <2> HIDE DEF S, end
    <2>2. \E e \in {end} :
            ~e.failed =>
                /\ e.schema = SchemaAt(m, TRUE, p)
                /\ \A label \in labels :
                      /\ e.value[w][label] \in Held(m, w)
                      /\ e.value[w][label] # Absent => Kept(label, e.value[w][label])
      <3>1. \A set \in Singles(n, w) :
              \E e \in {Run(Sample(n, x, p, w, set), statements)} :
                ~e.failed =>
                    /\ e.schema = SchemaAt(m, TRUE, p)
                    /\ \A label \in set :
                          /\ e.value[w][label] \in Held(m, w)
                          /\ e.value[w][label] # Absent => Kept(label, e.value[w][label])
        BY <1>2, Zenon DEF Leads
      <3> QED  BY <2>1, <3>1, Zenon
    <2>3. ~end.failed
      BY <1>5 DEF end
    <2>4. /\ end.schema = SchemaAt(m, TRUE, p)
          /\ \A label \in labels :
                /\ end.value[w][label] \in Held(m, w)
                /\ end.value[w][label] # Absent => Kept(label, end.value[w][label])
      BY <2>2, <2>3
    <2> QED  BY <2>4 DEF end
  <1> HIDE DEF S
  <1>6. PICK g : /\ g = [r \in Row |-> g[r]]
                 /\ new = Database(SchemaAt(m, TRUE, p), w, g)
    <2> DEFINE rho == [label \in {} |-> {}]
    <2>1. Alike(Run(S({}), statements), new, w, {}, Row, rho)
      BY <1>4
    <2> HIDE DEF rho
    <2>2. PICK schema, g : /\ g = [r \in Row |-> g[r]]
                           /\ new = Database(schema, w, g)
                           /\ Run(S({}), statements)
                                = Database(schema, w, [label \in {} |-> g[rho[label]]])
      BY <2>1 DEF Alike
    <2>3. Run(S({}), statements).schema = schema /\ ~Run(S({}), statements).failed
      BY <2>2 DEF Database
    <2>4. {} \in Singles(n, w)
      BY DEF Singles
    <2>5. schema = SchemaAt(m, TRUE, p)
      <3>1. Run(S({}), statements).schema = SchemaAt(m, TRUE, p)
        BY <1>5, <2>3, <2>4, Zenon
      <3> QED  BY <2>3, <3>1
    <2> QED  BY <2>2, <2>5
  <1>7. ASSUME NEW r \in Row
        PROVE  g[r] \in Held(m, w) /\ (g[r] # Absent => Kept(f[r], g[r]))
    <2> DEFINE labels == {f[r]}
               rho == [label \in labels |-> r]
    <2>1. Alike(Run(S(labels), statements), new, w, labels, Row, rho)
      BY <1>4
    <2>2. PICK schema, h : /\ new = Database(schema, w, h)
                           /\ Run(S(labels), statements)
                                = Database(schema, w, [label \in labels |-> h[rho[label]]])
      BY <2>1 DEF Alike
    <2>3. h = g
      <3>1. new.value[w] = h
        BY <2>2 DEF Database
      <3>2. new.value[w] = g
        <4>1. new = Database(SchemaAt(m, TRUE, p), w, g)
          BY <1>6
        <4> QED  BY <4>1 DEF Database
      <3> QED  BY <3>1, <3>2
    <2>4. /\ ~Run(S(labels), statements).failed
          /\ Run(S(labels), statements).value[w] = [label \in labels |-> h[rho[label]]]
      BY <2>2 DEF Database
    <2>5. Run(S(labels), statements).value[w][f[r]] = g[r]
      BY <2>3, <2>4
    <2>6. labels \in Singles(n, w)
      BY DEF Singles
    <2>7. f[r] \in labels
      OBVIOUS
    <2> HIDE DEF labels
    <2> QED  BY <1>5, <2>4, <2>5, <2>6, <2>7
  <1>8. g \in [Row -> Held(m, w)]
    BY <1>6, <1>7
  <1>9. AtRevision(new, m)
    BY <1>6, <1>8 DEF AtRevision
  <1>10. RowsKept(d, new)
    <2>1. DOMAIN d.value = {w} /\ d.value[w] = f
      BY <1>2 DEF Database
    <2>2. new.value[w] = g
      <3>1. new = Database(SchemaAt(m, TRUE, p), w, g)
        BY <1>6
      <3> QED  BY <3>1 DEF Database
    <2> QED  BY <1>7, <2>1, <2>2 DEF RowsKept
  <1>11. new.schema.extension
    <2>1. new = Database(SchemaAt(m, TRUE, p), w, g)
      BY <1>6
    <2> QED  BY <2>1 DEF Database, SchemaAt
  <1> QED  BY <1>9, <1>10, <1>11

\* Where a row for each of some labels is in the way of nothing, no rows with them are.
LEMMA LabelsSucceed ==
    ASSUME NEW n, NEW w, NEW x, NEW p, NEW labels, NEW statements, Len(statements) \in Nat,
           ~Run(Sample(n, x, p, w, labels), statements).failed, NEW f \in [Row -> labels]
    PROVE  ~Run(Database(SchemaAt(n, x, p), w, f), statements).failed
  <1> DEFINE d == Sample(n, x, p, w, labels)
             e == Database(SchemaAt(n, x, p), w, f)
  <1>1. ~Run(d, statements).failed
    OBVIOUS
  <1>2. Alike(e, d, w, Row, labels, f)
    <2> DEFINE same == [label \in labels |-> label]
    <2>1. d = Database(SchemaAt(n, x, p), w, same)
      BY SampleIs
    <2>2. f = [r \in Row |-> same[f[r]]]
      OBVIOUS
    <2>3. same = [label \in labels |-> same[label]]
      OBVIOUS
    <2> HIDE DEF same
    <2> QED  BY <2>1, <2>2, <2>3 DEF Alike
  <1> HIDE DEF d, e
  <1>3. Alike(Run(e, statements), Run(d, statements), w, Row, labels, f)
    BY <1>1, <1>2, RunAlike
  <1>4. ~Run(e, statements).failed
    BY <1>3 DEF Alike, Database
  <1> QED  BY <1>4 DEF e

LEMMA ChainFits ==
    ASSUME NEW n \in 0..Latest, NEW w \in Rebuilt, NEW x \in BOOLEAN, NEW p \in BOOLEAN,
           x => ~p, n > 0 => x
    PROVE  LET d == Run(EmptyDatabase({w}, Row, x, p), Chain[n])
           IN  AtRevision(d, n) /\ d.schema = SchemaAt(n, x, p)
  <1> DEFINE s == Sample(n, x, p, w, {Absent})
             one == [row \in {Absent} |-> Absent]
             rho == [r \in Row |-> Absent]
             d == EmptyDatabase({w}, {Absent}, x, p)
             e == EmptyDatabase({w}, Row, x, p)
             empty == [types |-> Nothing, tables |-> Nothing, extension |-> x, privileged |-> p]
  <1>1. Run(d, Chain[n]) = s
    BY ChainLeads
  <1>2. s = Database(SchemaAt(n, x, p), w, [label \in {Absent} |-> label])
    BY SampleIs
  <1>3. d = Database(empty, w, one) /\ e = Database(empty, w, [r \in Row |-> one[rho[r]]])
    BY DEF EmptyDatabase, Database
  <1>4. one = [row \in {Absent} |-> one[row]]
    OBVIOUS
  <1>5. \A r \in Row : rho[r] \in {Absent}
    OBVIOUS
  <1> HIDE DEF s, one, rho, d, e, empty
  <1>6. Alike(e, d, w, Row, {Absent}, rho)
    BY <1>3, <1>4 DEF Alike
  <1>7. ~Run(d, Chain[n]).failed
    BY <1>1, <1>2 DEF Database
  <1>8. Len(Chain[n]) \in Nat
    BY RevisionsAreLists
  <1>9. Alike(Run(e, Chain[n]), s, w, Row, {Absent}, rho)
    BY <1>1, <1>5, <1>6, <1>7, <1>8, RunAlike
  <1>10. PICK schema, f : /\ s = Database(schema, w, f)
                          /\ Run(e, Chain[n]) = Database(schema, w, [r \in Row |-> f[rho[r]]])
    BY <1>9 DEF Alike
  <1>11. schema = SchemaAt(n, x, p) /\ f = [label \in {Absent} |-> label]
    BY <1>2, <1>10 DEF Database
  <1>12. [r \in Row |-> f[rho[r]]] \in [Row -> Held(n, w)]
    BY <1>11 DEF Held, rho
  <1>13. AtRevision(Run(e, Chain[n]), n)
    BY <1>10, <1>11, <1>12 DEF AtRevision
  <1>14. Run(e, Chain[n]).schema = SchemaAt(n, x, p)
    BY <1>10, <1>11 DEF Database
  <1> QED  BY <1>13, <1>14 DEF e

\* No row is in the way of an upgrade.
LEMMA UpgradeFits ==
    ASSUME NEW n \in 0..(Latest - 1), NEW d, AtRevision(d, n),
           d.schema.extension \/ d.schema.privileged
    PROVE  ~Run(d, UpgradeFrom[n]).failed
  <1>0. PICK w \in Rebuilt, x \in BOOLEAN, p \in BOOLEAN :
            \E f \in [Row -> Held(n, w)] : (n > 0 => x) /\ d = Database(SchemaAt(n, x, p), w, f)
    BY DEF AtRevision
  <1>1. PICK f \in [Row -> Held(n, w)] : (n > 0 => x) /\ d = Database(SchemaAt(n, x, p), w, f)
    BY <1>0
  <1>2. x \/ p
    BY <1>1 DEF Database, SchemaAt
  <1>3. ~Run(Sample(n, x, p, w, Held(n, w)), UpgradeFrom[n]).failed
    BY <1>1, <1>2, UpgradesSucceed DEF Upgradable
  <1>4. Len(UpgradeFrom[n]) \in Nat
    BY RevisionsAreLists
  <1>5. ~Run(Database(SchemaAt(n, x, p), w, f), UpgradeFrom[n]).failed
    BY <1>3, <1>4, LabelsSucceed
  <1> QED  BY <1>1, <1>5

LEMMA AtRevisionIs ==
    ASSUME NEW n \in 0..Latest, NEW d, AtRevision(d, n)
    PROVE  ~d.failed /\ Shape(d.schema) = RevisionSchema[n]
  <1>0. PICK w \in Rebuilt, x \in BOOLEAN, p \in BOOLEAN :
            \E f \in [Row -> Held(n, w)] : d = Database(SchemaAt(n, x, p), w, f)
    BY DEF AtRevision
  <1>1. PICK f \in [Row -> Held(n, w)] : d = Database(SchemaAt(n, x, p), w, f)
    BY <1>0
  <1>2. ~d.failed /\ d.schema = SchemaAt(n, x, p)
    BY <1>1 DEF Database
  <1>3. \E schema : RevisionSchema[n] = Shape(schema)
    BY DEF RevisionSchema
  <1>4. RevisionSchema[n] = [types |-> RevisionSchema[n].types, tables |-> RevisionSchema[n].tables]
    BY <1>3 DEF Shape
  <1> QED  BY <1>2, <1>4 DEF Shape, SchemaAt
-----------------------------------------------------------------------------
(***************************************************************************)
(* The migrators.                                                          *)
(***************************************************************************)
\* A transaction that has rows rewritten is one that starts with that UPDATE.
Rehoming(m) == IF m.phase = "converting" THEN Rehomes(m.base) ELSE m.moved = {}

\* All rows it has not rewritten hold labels its UPDATE lets be.
Caught(m, d) ==
    \A t \in DOMAIN d.value, row \in Row :
        row \notin m.moved => ~Moves(First(m.base), t, d.value[t][row])

\* Undisturbed, a migrator keeps its lock from Lock to Unlock, so the version does not
\* move under its transaction, nor is a row written that its UPDATE came too early for.
Steady(r, m, held, there, at, d) ==
    /\ m.phase # "failed"
    /\ m.phase \notin {"waiting", "unreachable"} => there
    /\ m.phase \in {"locked", "upgrading", "converting", "unlocking"} => m.session /\ held = r
    /\ m.phase \in {"upgrading", "converting"} => m.base = at
    /\ m.phase = "converting" => Caught(m, d)
    /\ m.phase = "unlocking" => m.ok

Undisturbed ==
    ~disturbed =>
        /\ db.schema.extension \/ db.schema.privileged
        /\ \A r \in Replica : Steady(r, rep[r], lock, reachable, version, db)

IInv ==
    /\ TypeOK
    /\ AtRevision(db, version)
    /\ \A r \in Replica : Rehoming(rep[r])
    /\ Undisturbed

LEMMA InitHolds == Init => IInv
  <1> SUFFICES ASSUME Init PROVE IInv
    OBVIOUS
  <1>1. version \in 0..Latest
    BY DEF Init
  <1>2. PICK x \in BOOLEAN, p \in BOOLEAN, w \in Rebuilt :
            /\ x => ~p
            /\ version > 0 => x
            /\ db = Run(EmptyDatabase({w}, Row, x, p), Chain[version])
            /\ disturbed = (~x /\ ~p)
    BY DEF Init
  <1>3. AtRevision(db, version) /\ db.schema = SchemaAt(version, x, p)
    BY <1>1, <1>2, ChainFits
  <1>4. TypeOK
    <2>1. [phase |-> "waiting", tries |-> MaxTries, session |-> FALSE, base |-> 0,
          moved |-> {}, ok |-> TRUE] \in Migrator
      BY RevisionsAreLists, MigrateAssumption DEF Migrator
    <2>2. disturbed \in BOOLEAN
      BY <1>2
    <2>3. ~db.failed
      BY <1>1, <1>3, AtRevisionIs
    <2> QED  BY <1>1, <2>1, <2>2, <2>3, MigrateAssumption DEF Init, TypeOK
  <1>5. Undisturbed
    <2>1. ~disturbed => db.schema.extension \/ db.schema.privileged
      <3>1. db.schema.extension = x /\ db.schema.privileged = p
        BY <1>3 DEF SchemaAt
      <3> QED  BY <1>2, <3>1, Zenon
    <2>2. \A r \in Replica : rep[r].phase = "waiting"
      BY DEF Init
    <2> QED  BY <2>1, <2>2 DEF Undisturbed, Steady
  <1>6. \A r \in Replica : Rehoming(rep[r])
    BY DEF Init, Rehoming
  <1> QED  BY <1>3, <1>4, <1>5, <1>6 DEF IInv

\* A transaction that commits leads to its revision, and no row is taken for another.
Committed ==
    /\ version' \in 0..Latest
    /\ AtRevision(db', version')
    /\ version' # version => RowsKept(db, db')

\* What a transaction sees is a database of its revision, with no row taken for another.
LEMMA SeenFits ==
    ASSUME IInv, NEW r \in Replica, rep[r].phase \in {"upgrading", "converting"},
           version = rep[r].base, version < Latest
    PROVE  /\ AtRevision(Seen(r), version) /\ Seen(r).schema = db.schema
           /\ DOMAIN Seen(r).value = DOMAIN db.value
           /\ \A t \in DOMAIN db.value, row \in Row :
                 Kept(db.value[t][row], Seen(r).value[t][row])
           /\ rep[r].phase = "upgrading" => Seen(r) = db
           /\ rep[r].phase = "converting" /\ Caught(rep[r], db) =>
                 \A t \in DOMAIN db.value, row \in Row :
                     Seen(r).value[t][row] \in Settled(version, t)
  <1> DEFINE base == rep[r].base
             m == rep[r]
  <1>0. PICK w \in Rebuilt, x \in BOOLEAN, p \in BOOLEAN :
            \E f \in [Row -> Held(version, w)] :
                (version > 0 => x) /\ db = Database(SchemaAt(version, x, p), w, f)
    BY DEF IInv, AtRevision
  <1>1. PICK f \in [Row -> Held(version, w)] :
            (version > 0 => x) /\ db = Database(SchemaAt(version, x, p), w, f)
    BY <1>0
  <1> DEFINE here == SchemaAt(version, x, p)
             g == [row \in Row |-> IF row \in m.moved THEN Relabelled(w, First(base), f[row])
                                   ELSE f[row]]
  <1> HIDE DEF here
  <1>2. /\ db = [schema |-> here, value |-> [t \in {w} |-> f], failed |-> FALSE]
        /\ db.schema = here /\ DOMAIN db.value = {w} /\ db.value[w] = f
    BY <1>1 DEF Database, here
  <1>3. Seen(r) = Database(here, w, g)
    <2> DEFINE V == [t \in DOMAIN db.value |-> [row \in Row |->
                       IF row \in m.moved THEN Relabelled(t, First(base), db.value[t][row])
                       ELSE db.value[t][row]]]
    <2>1. V = [t \in {w} |-> g]
      BY <1>2
    <2>2. Seen(r) = [schema |-> db.schema, value |-> V, failed |-> FALSE]
      BY DEF Seen
    <2> HIDE DEF V, g
    <2> QED  BY <1>2, <2>1, <2>2 DEF Database
  <1>4. Seen(r).schema = here /\ DOMAIN Seen(r).value = {w} /\ Seen(r).value[w] = g
    <2> HIDE DEF g
    <2> QED  BY <1>3 DEF Database
  <1>5. version \in 0..(Latest - 1)
    BY RevisionsAreLists DEF IInv, TypeOK
  <1>6. IF m.phase = "converting" THEN Updates(version) /\ Rehomed(version) ELSE m.moved = {}
    BY <1>5, RehomingLeads DEF IInv, Rehoming, Rehomes, First, Missing, Updates
  <1>7. First(base) = Head(UpgradeFrom[version])
    BY DEF First, Missing
  <1>8. ASSUME NEW row \in Row
        PROVE  /\ g[row] \in Held(version, w) /\ Kept(f[row], g[row])
               /\ m.phase = "converting" /\ (row \notin m.moved => ~Moves(First(base), w, f[row]))
                     => g[row] \in Settled(version, w)
    <2>1. f[row] \in Held(version, w) /\ Kept(f[row], f[row])
      BY DEF Kept
    <2>2. CASE row \in m.moved
      <3>1. Rehomed(version) /\ g[row] = Relabelled(w, Head(UpgradeFrom[version]), f[row])
        BY <1>6, <1>7, <2>2
      <3>2. g[row] \in Settled(version, w) /\ Kept(f[row], g[row])
        <4> HIDE DEF g
        <4> QED  BY <2>1, <3>1 DEF Rehomed
      <3> QED  BY <3>2 DEF Settled
    <2>3. CASE row \notin m.moved
      <3>1. g[row] = f[row]
        BY <2>3
      <3> HIDE DEF g
      <3> QED  BY <1>7, <2>1, <2>3, <3>1 DEF Settled
    <2> QED  BY <2>2, <2>3
  <1>9. g \in [Row -> Held(version, w)]
    BY <1>8
  <1>10. AtRevision(Seen(r), version)
    <2> HIDE DEF g
    <2> QED  BY <1>1, <1>3, <1>9 DEF AtRevision, here
  <1>11. m.phase = "upgrading" => Seen(r) = db
    <2> SUFFICES ASSUME m.phase = "upgrading" PROVE Seen(r) = db
      OBVIOUS
    <2>1. g = f
      BY <1>6
    <2> HIDE DEF g
    <2> QED  BY <1>2, <1>3, <2>1 DEF Database
  <1>12. ASSUME m.phase = "converting", Caught(m, db), NEW row \in Row
         PROVE  g[row] \in Settled(version, w)
    <2>1. row \notin m.moved => ~Moves(First(base), w, f[row])
      BY <1>2, <1>12 DEF Caught
    <2> QED  BY <1>8, <1>12, <2>1
  <1> HIDE DEF g
  <1> QED  BY <1>2, <1>4, <1>8, <1>10, <1>11, <1>12

\* The end of a transaction that finds its version.
Left(r) ==
    IF rep[r].phase = "converting" THEN Tail(UpgradeFrom[rep[r].base])
    ELSE UpgradeFrom[rep[r].base]

LEMMA LeftLeads ==
    ASSUME IInv, NEW r \in Replica, rep[r].phase \in {"upgrading", "converting"},
           version = rep[r].base, version < Latest
    PROVE  /\ Leads(version, Left(r), Latest) /\ Len(Left(r)) \in Nat
           /\ rep[r].phase = "converting" => Rehomed(version)
  <1>1. version \in 0..(Latest - 1) /\ version \in 0..Latest
    BY RevisionsAreLists DEF IInv, TypeOK
  <1>2. CASE rep[r].phase = "converting"
    <2>1. Updates(version)
      BY <1>2 DEF IInv, Rehoming, Rehomes, First, Missing, Updates
    <2>2. Rehomed(version)
      BY <1>1, <2>1, RehomingLeads
    <2>3. Left(r) = Tail(UpgradeFrom[version])
      BY <1>2 DEF Left
    <2> QED  BY <1>1, <1>2, <2>2, <2>3, RevisionsAreLists DEF Rehomed
  <1>3. CASE rep[r].phase = "upgrading"
    <2>1. Left(r) = UpgradeFrom[version]
      BY <1>3 DEF Left
    <2> QED  BY <1>1, <1>3, <2>1, UpgradesLead, RevisionsAreLists
  <1> QED  BY <1>2, <1>3

LEMMA UpgradeCommits ==
    ASSUME IInv, NEW r \in Replica, Upgrade(r)
    PROVE  /\ Committed
           /\ db'.schema.extension \/ db' = db
  <1> DEFINE base == rep[r].base
  <1>1. base \in 0..Latest /\ version \in 0..Latest /\ Latest \in Nat
        /\ rep[r].phase \in {"upgrading", "converting"}
    BY RevisionsAreLists DEF IInv, TypeOK, Migrator, Upgrade
  <1>2. CASE UNCHANGED <<db, version>>
    BY <1>2 DEF IInv, TypeOK, Committed
  <1>3. CASE /\ base < Latest /\ version = base
             /\ \E new \in {Run(Seen(r), Left(r))} :
                  /\ db' = IF new.failed THEN db ELSE new
                  /\ version' = IF new.failed THEN version ELSE Latest
    <2> DEFINE new == Run(Seen(r), Left(r))
    <2>1. /\ db' = IF new.failed THEN db ELSE new
          /\ version' = IF new.failed THEN version ELSE Latest
      BY <1>3
    <2> HIDE DEF new
    <2>2. CASE new.failed
      BY <2>1, <2>2, <1>2
    <2>3. CASE ~new.failed
      <3>1. version \in 0..Latest /\ Latest \in 0..Latest /\ version < Latest
        BY <1>1, <1>3
      <3>2. Leads(version, Left(r), Latest) /\ Len(Left(r)) \in Nat
        BY <1>1, <1>3, LeftLeads
      <3>3. /\ AtRevision(Seen(r), version) /\ DOMAIN Seen(r).value = DOMAIN db.value
            /\ \A t \in DOMAIN db.value, row \in Row :
                  Kept(db.value[t][row], Seen(r).value[t][row])
        BY <1>1, <1>3, SeenFits
      <3>4. AtRevision(new, Latest) /\ RowsKept(Seen(r), new) /\ new.schema.extension
        BY <2>3, <3>1, <3>2, <3>3, RunFits DEF new
      <3>5. RowsKept(db, new)
        BY <3>3, <3>4 DEF RowsKept, Kept
      <3> QED  BY <2>1, <2>3, <3>1, <3>4, <3>5 DEF Committed
    <2> QED  BY <2>2, <2>3
  <1> QED  BY <1>1, <1>2, <1>3 DEF Upgrade, Missing, Left

\* Nor does it fail, if no row came too late for its UPDATE.
LEMMA LeftSucceeds ==
    ASSUME IInv, NEW r \in Replica, rep[r].phase \in {"upgrading", "converting"},
           version = rep[r].base, version < Latest,
           db.schema.extension \/ db.schema.privileged,
           rep[r].phase = "converting" => Caught(rep[r], db)
    PROVE  ~Run(Seen(r), Left(r)).failed
  <1>1. version \in 0..(Latest - 1) /\ AtRevision(db, version)
    BY RevisionsAreLists DEF IInv, TypeOK
  <1>2. CASE rep[r].phase = "upgrading"
    <2>1. Seen(r) = db /\ Left(r) = UpgradeFrom[version]
      BY <1>2, SeenFits DEF Left
    <2> QED  BY <1>1, <2>1, UpgradeFits
  <1>3. CASE rep[r].phase = "converting"
    <2>1. /\ AtRevision(Seen(r), version) /\ Seen(r).schema = db.schema
          /\ DOMAIN Seen(r).value = DOMAIN db.value
          /\ \A t \in DOMAIN db.value, row \in Row : Seen(r).value[t][row] \in Settled(version, t)
      BY <1>3, SeenFits
    <2>2. Rehomed(version) /\ Left(r) = Tail(UpgradeFrom[version]) /\ Len(Left(r)) \in Nat
      BY <1>3, LeftLeads DEF Left
    <2>3. PICK w \in Rebuilt, x \in BOOLEAN, p \in BOOLEAN :
              \E f \in [Row -> Held(version, w)] :
                  (version > 0 => x) /\ Seen(r) = Database(SchemaAt(version, x, p), w, f)
      BY <2>1 DEF AtRevision
    <2>4. PICK f \in [Row -> Held(version, w)] :
              (version > 0 => x) /\ Seen(r) = Database(SchemaAt(version, x, p), w, f)
      BY <2>3
    <2>5. Seen(r).schema = SchemaAt(version, x, p) /\ Seen(r).value = [t \in {w} |-> f]
      BY <2>4 DEF Database
    <2>6. x \/ p
      BY <2>1, <2>5 DEF SchemaAt
    <2>7. f \in [Row -> Settled(version, w)]
      BY <2>1, <2>5
    <2>8. ~Run(Sample(version, x, p, w, Settled(version, w)), Left(r)).failed
      BY <2>2, <2>4, <2>6 DEF Rehomed
    <2>9. ~Run(Database(SchemaAt(version, x, p), w, f), Left(r)).failed
      BY <2>2, <2>7, <2>8, LabelsSucceed
    <2> QED  BY <2>4, <2>9
  <1> QED  BY <1>2, <1>3

LEMMA ByHandCommits ==
    ASSUME IInv, NEW to \in 0..Latest, NEW statements, Len(statements) \in Nat,
           Leads(version, statements, to), ByHand(to, statements)
    PROVE  Committed
  <1>1. version \in 0..Latest /\ AtRevision(db, version)
    BY DEF IInv, TypeOK
  <1>2. ~Run(db, statements).failed /\ db' = Run(db, statements) /\ version' = to
    BY DEF ByHand
  <1>3. AtRevision(db', to) /\ RowsKept(db, db')
    BY <1>1, <1>2, RunFits
  <1> QED  BY <1>2, <1>3 DEF Committed

LEMMA DowngradeCommits ==
    ASSUME IInv, DowngradeByHand
    PROVE  Committed
  <1>1. version \in 1..Latest /\ version - 1 \in 0..Latest
    BY RevisionsAreLists DEF IInv, TypeOK, DowngradeByHand
  <1>2. Leads(version, Down[version], version - 1) /\ Len(Down[version]) \in Nat
    BY <1>1, DowngradesLead, RevisionsAreLists
  <1> QED  BY <1>1, <1>2, ByHandCommits DEF DowngradeByHand, Undone

LEMMA UpgradeByHandCommits ==
    ASSUME IInv, UpgradeByHand
    PROVE  Committed
  <1>1. version \in 0..(Latest - 1) /\ version \in 0..Latest /\ Latest \in 0..Latest
    BY RevisionsAreLists DEF IInv, TypeOK, UpgradeByHand
  <1>2. Leads(version, UpgradeFrom[version], Latest) /\ Len(UpgradeFrom[version]) \in Nat
    BY <1>1, UpgradesLead, RevisionsAreLists
  <1> QED  BY <1>1, <1>2, ByHandCommits DEF UpgradeByHand, Missing

\* A row that is written holds a label of the revision.
LEMMA WriteFits ==
    ASSUME IInv, NEW t \in Rebuilt, NEW row \in Row, Write(t, row)
    PROVE  /\ AtRevision(db', version')
           /\ version' = version /\ db'.schema = db.schema
  <1>0. PICK w \in Rebuilt, x \in BOOLEAN, p \in BOOLEAN :
            \E f \in [Row -> Held(version, w)] : (version > 0 => x) /\ db = Database(SchemaAt(version, x, p), w, f)
    BY DEF IInv, AtRevision
  <1>1. PICK f \in [Row -> Held(version, w)] : (version > 0 => x) /\ db = Database(SchemaAt(version, x, p), w, f)
    BY <1>0
  <1>2. /\ db.schema = SchemaAt(version, x, p) /\ DOMAIN db.value = {w} /\ db.value[w] = f
        /\ db = [schema |-> db.schema, value |-> [s \in {w} |-> f], failed |-> FALSE]
    BY <1>1 DEF Database
  <1>3. PICK label \in db.schema.types[EnumOf(t)] : db' = [db EXCEPT !.value[t][row] = label]
    BY DEF Write
  <1>4. t = w /\ t \in DOMAIN db.schema.tables /\ version' = version
    BY <1>2 DEF Write
  <1>5. label \in Held(version, w)
    BY <1>2, <1>3, <1>4 DEF Held, SchemaAt
  <1> DEFINE g == [f EXCEPT ![row] = label]
  <1>6. g \in [Row -> Held(version, w)]
    BY <1>5
  <1>7. db' = Database(SchemaAt(version, x, p), w, g)
    <2>1. db' = [schema |-> db.schema, value |-> [db.value EXCEPT ![w][row] = label], failed |-> FALSE]
      <3> DEFINE S == db.schema
                 V == db.value
      <3>1. db = [schema |-> S, value |-> V, failed |-> FALSE]
        BY <1>2
      <3>2. db' = [db EXCEPT !.value[w][row] = label]
        BY <1>3, <1>4
      <3> HIDE DEF S, V
      <3>3. db' = [schema |-> S, value |-> [V EXCEPT ![w][row] = label], failed |-> FALSE]
        BY <3>1, <3>2
      <3> QED  BY <3>3 DEF S, V
    <2>2. [db.value EXCEPT ![w][row] = label] = [s \in {w} |-> g]
      BY <1>2
    <2> QED  BY <1>2, <2>1, <2>2 DEF Database
  <1> HIDE DEF g
  <1>8. db'.schema = db.schema
    BY <1>2, <1>7 DEF Database
  <1> QED  BY <1>1, <1>4, <1>6, <1>7, <1>8 DEF AtRevision

LEMMA EnsureFits ==
    ASSUME IInv, NEW r \in Replica, EnsureExtensions(r)
    PROVE  /\ AtRevision(db', version')
           /\ db.schema.extension \/ db.schema.privileged =>
                 db'.schema.extension \/ db'.schema.privileged
  <1>0. PICK w \in Rebuilt, x \in BOOLEAN, p \in BOOLEAN :
            \E f \in [Row -> Held(version, w)] : (version > 0 => x) /\ db = Database(SchemaAt(version, x, p), w, f)
    BY DEF IInv, AtRevision
  <1>1. PICK f \in [Row -> Held(version, w)] : (version > 0 => x) /\ db = Database(SchemaAt(version, x, p), w, f)
    BY <1>0
  <1>2. /\ db.schema = SchemaAt(version, x, p)
        /\ db = [schema |-> db.schema, value |-> db.value, failed |-> FALSE]
        /\ db.value = [s \in {w} |-> f]
    BY <1>1 DEF Database
  <1> DEFINE y == x \/ (reachable /\ p)
  <1>3. db' = Database(SchemaAt(version, y, p), w, f)
    <2>1. db' = [schema |-> [db.schema EXCEPT !.extension = y], value |-> db.value, failed |-> FALSE]
      <3> DEFINE S == db.schema
                 V == db.value
      <3>1. db = [schema |-> S, value |-> V, failed |-> FALSE]
        BY <1>2
      <3>2. db' = [db EXCEPT !.schema.extension = y]
        BY <1>2 DEF EnsureExtensions, SchemaAt
      <3> HIDE DEF S, V, y
      <3>3. db' = [schema |-> [S EXCEPT !.extension = y], value |-> V, failed |-> FALSE]
        BY <3>1, <3>2
      <3> QED  BY <3>3 DEF S, V
    <2>2. [db.schema EXCEPT !.extension = y] = SchemaAt(version, y, p)
      BY <1>2 DEF SchemaAt
    <2> QED  BY <1>2, <2>1, <2>2 DEF Database
  <1>4. y \in BOOLEAN /\ (x => y) /\ version' = version
    BY DEF EnsureExtensions
  <1> HIDE DEF y
  <1>5. AtRevision(db', version')
    BY <1>1, <1>3, <1>4 DEF AtRevision
  <1>6. /\ db.schema.extension = x /\ db.schema.privileged = p
        /\ db'.schema.extension = y /\ db'.schema.privileged = p
    BY <1>2, <1>3 DEF SchemaAt, Database
  <1> QED  BY <1>4, <1>5, <1>6

\* The database stays one at its revision, and rows keep their outcome when it moves.
LEMMA NextCommits == IInv /\ [Next]_vars => Committed
  <1> SUFFICES ASSUME IInv, [Next]_vars PROVE Committed
    OBVIOUS
  <1>1. ASSUME UNCHANGED <<db, version>> PROVE Committed
    BY <1>1 DEF IInv, TypeOK, Committed
  <1>2. ASSUME NEW r \in Replica, Works(r) PROVE Committed
    <2>1. CASE Upgrade(r)
      BY <2>1, UpgradeCommits
    <2>2. CASE EnsureExtensions(r)
      BY <2>2, EnsureFits DEF EnsureExtensions, IInv, TypeOK, Committed
    <2>3. CASE Wait(r) \/ Lock(r) \/ Begin(r) \/ Rehome(r) \/ Unlock(r)
      BY <1>1, <2>3 DEF Wait, Lock, Begin, Rehome, Unlock
    <2> QED  BY <1>2, <2>1, <2>2, <2>3 DEF Works
  <1>3. ASSUME NEW r \in Replica, LoseSession(r) \/ Kill(r) \/ Deadlock(r) PROVE Committed
    BY <1>1, <1>3 DEF LoseSession, Kill, Deadlock
  <1>4. ASSUME Outage \/ Recovery PROVE Committed
    BY <1>1, <1>4 DEF Outage, Recovery
  <1>5. ASSUME NEW t \in Rebuilt, NEW row \in Row, Write(t, row) PROVE Committed
    BY <1>5, WriteFits DEF IInv, TypeOK, Committed
  <1> QED
    BY <1>1, <1>2, <1>3, <1>4, <1>5, DowngradeCommits, UpgradeByHandCommits DEF Next, vars

\* A step of a migrator: what it becomes, and that it does not take another's lock away.
Turns(r, m) ==
    /\ m \in Migrator
    /\ rep' = [rep EXCEPT ![r] = m]
    /\ lock' \in Replica \cup {NoReplica}
    /\ lock' = lock \/ lock \in {r, NoReplica}
    /\ UNCHANGED <<reachable, faults, disturbed>>
    /\ Rehoming(m)
    /\ ~disturbed => Steady(r, m, lock', reachable, version', db')

LEMMA MigratorTurns ==
    ASSUME IInv, NEW r \in Replica, Works(r)
    PROVE  \E m : Turns(r, m)
  <1>1. /\ rep \in [Replica -> Migrator] /\ lock \in Replica \cup {NoReplica}
        /\ version \in 0..Latest /\ Latest \in Nat /\ MaxTries \in Nat
        /\ rep[r] \in Migrator /\ reachable \in BOOLEAN
        /\ 0 \in 0..Latest /\ 0 \in 0..MaxTries
        /\ rep[r].phase # "converting" => rep[r].moved = {}
    BY MigrateAssumption, RevisionsAreLists DEF IInv, TypeOK, Rehoming
  <1>2. ~disturbed => Steady(r, rep[r], lock, reachable, version, db)
    BY DEF IInv, Undisturbed
  <1>3. CASE Wait(r)
    <2>1. CASE reachable
      <3> DEFINE m == [rep[r] EXCEPT !.phase = "extensions", !.tries = 0]
      <3>1. m \in Migrator /\ m.phase = "extensions" /\ m.moved = rep[r].moved
        BY <1>1 DEF Migrator
      <3>2. rep' = [rep EXCEPT ![r] = m]
        BY <1>1, <1>3, <2>1 DEF Wait
      <3> HIDE DEF m
      <3> QED  BY <1>1, <1>3, <2>1, <3>1, <3>2 DEF Wait, Turns, Steady, Rehoming
    <2>2. CASE ~reachable /\ TriesLeft(rep[r].tries)
      <3> DEFINE m == [rep[r] EXCEPT !.tries = IF @ > 0 THEN @ - 1 ELSE @]
      <3>1. m \in Migrator /\ m.phase = "waiting" /\ m.moved = rep[r].moved
        BY <1>1, <1>3, <2>2 DEF Migrator, TriesLeft, Wait
      <3>2. rep' = [rep EXCEPT ![r] = m]
        BY <1>1, <1>3, <2>2 DEF Wait
      <3> HIDE DEF m
      <3> QED  BY <1>1, <1>3, <2>2, <3>1, <3>2 DEF Wait, Turns, Steady, Rehoming
    <2>3. CASE ~reachable /\ ~TriesLeft(rep[r].tries)
      <3> DEFINE m == [rep[r] EXCEPT !.phase = "unreachable"]
      <3>1. m \in Migrator /\ m.phase = "unreachable" /\ m.moved = rep[r].moved
        BY <1>1 DEF Migrator, Final
      <3>2. rep' = [rep EXCEPT ![r] = m]
        BY <1>1, <1>3, <2>3 DEF Wait, Goes
      <3> HIDE DEF m
      <3> QED  BY <1>1, <1>3, <2>3, <3>1, <3>2 DEF Wait, Turns, Steady, Rehoming
    <2> QED  BY <2>1, <2>2, <2>3
  <1>4. CASE EnsureExtensions(r)
    <2> DEFINE m == [rep[r] EXCEPT !.phase = "locking"]
    <2>1. m \in Migrator /\ m.phase = "locking" /\ m.moved = rep[r].moved
      BY <1>1 DEF Migrator
    <2>2. rep' = [rep EXCEPT ![r] = m]
      BY <1>1, <1>4 DEF EnsureExtensions, Goes
    <2> HIDE DEF m
    <2>3. UNCHANGED <<version, lock, reachable, faults, disturbed>> /\ rep[r].phase = "extensions"
      BY <1>4 DEF EnsureExtensions
    <2> QED  BY <1>1, <1>2, <2>1, <2>2, <2>3 DEF Turns, Steady, Rehoming
  <1>5. CASE Lock(r)
    <2>1. CASE reachable
      <3> DEFINE m == [rep[r] EXCEPT !.phase = "locked", !.session = TRUE]
      <3>1. m \in Migrator /\ m.phase = "locked" /\ m.session /\ m.moved = rep[r].moved
        BY <1>1 DEF Migrator
      <3>2. rep' = [rep EXCEPT ![r] = m]
        BY <1>1, <1>5, <2>1 DEF Lock
      <3> HIDE DEF m
      <3> QED  BY <1>1, <1>5, <2>1, <3>1, <3>2 DEF Lock, Grantable, Turns, Steady, Rehoming
    <2>2. CASE ~reachable
      <3> DEFINE m == [rep[r] EXCEPT !.phase = "failed"]
      <3>1. m \in Migrator /\ m.phase = "failed" /\ m.moved = rep[r].moved
        BY <1>1 DEF Migrator, Final
      <3>2. rep' = [rep EXCEPT ![r] = m]
        BY <1>1, <1>5, <2>2 DEF Lock, Goes
      <3>3. disturbed
        BY <1>2, <1>5, <2>2 DEF Lock, Steady
      <3> HIDE DEF m
      <3> QED  BY <1>1, <1>5, <2>2, <3>1, <3>2, <3>3 DEF Lock, Turns, Rehoming
    <2> QED  BY <2>1, <2>2
  <1>6. CASE Begin(r)
    <2>1. CASE reachable
      <3> DEFINE m == [rep[r] EXCEPT !.phase = "upgrading", !.ok = TRUE, !.base = version]
      <3>1. /\ m \in Migrator /\ m.phase = "upgrading" /\ m.base = version
            /\ m.session = rep[r].session /\ m.moved = rep[r].moved
        BY <1>1 DEF Migrator
      <3>2. rep' = [rep EXCEPT ![r] = m]
        <4>1. rep' = [rep EXCEPT ![r].phase = "upgrading", ![r].ok = TRUE, ![r].base = version]
          BY <1>6, <2>1 DEF Begin
        <4> QED  BY <1>1, <4>1
      <3> HIDE DEF m
      <3>3. UNCHANGED <<version, lock, reachable, faults, disturbed>> /\ rep[r].phase = "locked"
        BY <1>6 DEF Begin
      <3> QED  BY <1>1, <1>2, <2>1, <3>1, <3>2, <3>3 DEF Turns, Steady, Rehoming
    <2>2. CASE ~reachable
      <3> DEFINE m == [rep[r] EXCEPT !.phase = "unlocking", !.ok = FALSE, !.base = 0]
      <3>1. m \in Migrator /\ m.phase = "unlocking" /\ m.moved = rep[r].moved
        BY <1>1 DEF Migrator
      <3>2. rep' = [rep EXCEPT ![r] = m]
        <4>1. rep' = [rep EXCEPT ![r].phase = "unlocking", ![r].ok = FALSE, ![r].base = 0]
          BY <1>1, <1>6, <2>2 DEF Begin
        <4> QED  BY <1>1, <4>1
      <3> HIDE DEF m
      <3>3. UNCHANGED <<version, lock, reachable, faults, disturbed>> /\ rep[r].phase = "locked"
        BY <1>6 DEF Begin
      <3>4. disturbed
        BY <1>2, <2>2, <3>3 DEF Steady
      <3> QED  BY <1>1, <3>1, <3>2, <3>3, <3>4 DEF Turns, Rehoming
    <2> QED  BY <2>1, <2>2
  <1>7. CASE Rehome(r)
    <2> DEFINE rows == {row \in Row : \E t \in DOMAIN db.value :
                            Moves(First(rep[r].base), t, db.value[t][row])}
               m == [rep[r] EXCEPT !.phase = "converting", !.moved = rows]
    <2>1. rows \in SUBSET Row
      OBVIOUS
    <2>2. \A t \in DOMAIN db.value, row \in Row :
             row \notin rows => ~Moves(First(rep[r].base), t, db.value[t][row])
      OBVIOUS
    <2>3. rep' = [rep EXCEPT ![r].phase = "converting", ![r].moved = rows]
      BY <1>7 DEF Rehome
    <2>4. /\ UNCHANGED <<db, version, lock, reachable, faults, disturbed>>
          /\ rep[r].phase = "upgrading" /\ Rehomes(rep[r].base)
      BY <1>7 DEF Rehome
    <2> HIDE DEF rows
    <2>5. /\ m \in Migrator /\ m.phase = "converting" /\ m.moved = rows
          /\ m.base = rep[r].base /\ m.session = rep[r].session
      BY <1>1, <2>1 DEF Migrator
    <2>6. rep' = [rep EXCEPT ![r] = m]
      BY <1>1, <2>3
    <2> HIDE DEF m
    <2>7. Rehoming(m) /\ Caught(m, db)
      BY <2>2, <2>4, <2>5 DEF Rehoming, Caught
    <2>8. ~disturbed => Steady(r, m, lock', reachable, version', db')
      BY <1>2, <2>4, <2>5, <2>7 DEF Steady
    <2> QED  BY <1>1, <2>4, <2>5, <2>6, <2>7, <2>8 DEF Turns
  <1>8. CASE Upgrade(r)
    <2> DEFINE ends(ok) == [rep[r] EXCEPT !.phase = "unlocking", !.base = 0, !.moved = {},
                                          !.ok = ok]
    <2>1. /\ UNCHANGED <<lock, reachable, faults, disturbed>>
          /\ rep[r].phase \in {"upgrading", "converting"}
      BY <1>8 DEF Upgrade
    <2>2. \A ok : Ends(r, ok) => rep' = [rep EXCEPT ![r] = ends(ok)]
      BY <1>1 DEF Ends
    <2>3. \A ok \in BOOLEAN : /\ ends(ok) \in Migrator /\ ends(ok).phase = "unlocking"
                              /\ ends(ok).session = rep[r].session /\ ends(ok).ok = ok
                              /\ ends(ok).moved = {}
      BY <1>1 DEF Migrator
    <2> HIDE DEF ends
    <2>4. ASSUME NEW ok \in BOOLEAN, Ends(r, ok), disturbed \/ ok
          PROVE  \E m : Turns(r, m)
      <3> DEFINE m == ends(ok)
      <3>1. /\ m \in Migrator /\ m.phase = "unlocking" /\ m.session = rep[r].session
            /\ m.ok = ok /\ m.moved = {} /\ rep' = [rep EXCEPT ![r] = m]
        BY <2>2, <2>3, <2>4
      <3> HIDE DEF m
      <3>2. Rehoming(m)
        BY <3>1 DEF Rehoming
      <3>3. ~disturbed => Steady(r, m, lock', reachable, version', db')
        BY <1>2, <2>1, <2>4, <3>1 DEF Steady
      <3> QED  BY <1>1, <2>1, <3>1, <3>2, <3>3 DEF Turns
    <2>5. CASE rep[r].base = Latest \/ version # rep[r].base
      <3>1. Ends(r, rep[r].base = Latest)
        <4>1. ~(rep[r].base < Latest /\ version = rep[r].base)
          BY <1>1, <2>5
        <4> QED  BY <1>8, <4>1, Zenon DEF Upgrade
      <3>2. disturbed \/ rep[r].base = Latest
        BY <1>2, <2>1, <2>5 DEF Steady
      <3>3. (rep[r].base = Latest) \in BOOLEAN
        OBVIOUS
      <3> QED  BY <2>4, <3>1, <3>2, <3>3
    <2>6. CASE rep[r].base < Latest /\ version = rep[r].base
      <3> DEFINE new == Run(Seen(r), Left(r))
      <3>1. Ends(r, ~new.failed)
        BY <1>1, <1>8, <2>6 DEF Upgrade, Missing, Left
      <3>2. ~disturbed => ~new.failed
        <4> SUFFICES ASSUME ~disturbed PROVE ~new.failed
          OBVIOUS
        <4>1. db.schema.extension \/ db.schema.privileged
          BY DEF IInv, Undisturbed
        <4>2. rep[r].phase = "converting" => Caught(rep[r], db)
          BY <1>2 DEF Steady
        <4> QED  BY <2>1, <2>6, <4>1, <4>2, LeftSucceeds
      <3>3. (~new.failed) \in BOOLEAN
        OBVIOUS
      <3> HIDE DEF new
      <3> QED  BY <2>4, <3>1, <3>2, <3>3
    <2> QED  BY <1>1, <1>8, <2>5, <2>6 DEF Upgrade
  <1>9. CASE Unlock(r)
    <2> DEFINE to == IF rep[r].ok /\ rep[r].session THEN "done" ELSE "failed"
               m == [rep[r] EXCEPT !.phase = to, !.session = FALSE, !.ok = TRUE]
    <2>1. m \in Migrator /\ m.phase = to /\ to \in {"done", "failed"} /\ m.moved = rep[r].moved
      BY <1>1 DEF Migrator, Final
    <2>2. rep' = [rep EXCEPT ![r] = m]
      <3>1. rep' = [rep EXCEPT ![r].phase = to, ![r].session = FALSE, ![r].ok = TRUE]
        BY <1>9 DEF Unlock
      <3> HIDE DEF to
      <3> QED  BY <1>1, <3>1
    <2>3. /\ UNCHANGED <<version, reachable, faults, disturbed>> /\ rep[r].phase = "unlocking"
          /\ lock' = IF lock = r THEN NoReplica ELSE lock
      BY <1>9 DEF Unlock
    <2>4. ~disturbed => to = "done" /\ reachable
      BY <1>2, <2>3 DEF Steady
    <2> HIDE DEF m, to
    <2> QED  BY <1>1, <2>1, <2>2, <2>3, <2>4 DEF Turns, Steady, Rehoming
  <1> QED  BY <1>3, <1>4, <1>5, <1>6, <1>7, <1>8, <1>9 DEF Works

\* A write changes the row it is about and no other.
LEMMA WrittenIs ==
    ASSUME IInv, NEW t \in Rebuilt, NEW row \in Row, Write(t, row), NEW label,
           db' = [db EXCEPT !.value[t][row] = label]
    PROVE  /\ DOMAIN db'.value = DOMAIN db.value
           /\ \A s \in DOMAIN db.value, other \in Row :
                 /\ db'.value[s][other] \in {db.value[s][other], label}
                 /\ s # t => db'.value[s][other] = db.value[s][other]
  <1>1. PICK w \in Rebuilt, x \in BOOLEAN, p \in BOOLEAN :
            \E f \in [Row -> Held(version, w)] : db = Database(SchemaAt(version, x, p), w, f)
    BY DEF IInv, AtRevision
  <1>2. PICK f \in [Row -> Held(version, w)] : db = Database(SchemaAt(version, x, p), w, f)
    BY <1>1
  <1> DEFINE V == [s \in {w} |-> f]
             S == SchemaAt(version, x, p)
  <1>3. db = [schema |-> S, value |-> V, failed |-> FALSE]
    BY <1>2 DEF Database
  <1>4. t = w
    BY <1>3 DEF Write
  <1> HIDE DEF S
  <1>5. db'.value = [V EXCEPT ![w][row] = label]
    <2> HIDE DEF V
    <2> QED  BY <1>3, <1>4
  <1>6. db.value = V
    <2> HIDE DEF V
    <2> QED  BY <1>3
  <1> QED  BY <1>4, <1>5, <1>6

LEMMA InvariantKept == IInv /\ [Next]_vars => IInv'
  <1> SUFFICES ASSUME IInv, [Next]_vars PROVE IInv'
    OBVIOUS
  <1>1. /\ version' \in 0..Latest /\ ~db'.failed /\ AtRevision(db', version')
    BY NextCommits, AtRevisionIs DEF Committed
  <1>2. /\ rep \in [Replica -> Migrator] /\ lock \in Replica \cup {NoReplica}
        /\ version \in 0..Latest /\ Latest \in Nat /\ MaxTries \in Nat /\ MaxFaults \in Nat
        /\ reachable \in BOOLEAN /\ faults \in 0..MaxFaults /\ disturbed \in BOOLEAN
        /\ 0 \in 0..Latest /\ 0 \in 0..MaxTries /\ NoReplica \notin Replica
        /\ \A r \in Replica : Rehoming(rep[r])
    BY MigrateAssumption, RevisionsAreLists DEF IInv, TypeOK
  <1> DEFINE Typed == /\ lock' \in Replica \cup {NoReplica} /\ reachable' \in BOOLEAN
                      /\ faults' \in 0..MaxFaults /\ disturbed' \in BOOLEAN
                      /\ rep' \in [Replica -> Migrator]
                      /\ \A r \in Replica : Rehoming(rep'[r])
  <1>3. ASSUME Typed, Undisturbed' PROVE IInv'
    BY <1>1, <1>3 DEF IInv, TypeOK, Rehoming
  <1> HIDE DEF Typed
  <1>4. ASSUME disturbed' PROVE Undisturbed'
    BY <1>4 DEF Undisturbed
  <1>5. ASSUME NEW r \in Replica, Works(r) PROVE IInv'
    <2>1. PICK m : Turns(r, m)
      BY <1>5, MigratorTurns
    <2>2. Typed
      BY <1>2, <2>1 DEF Turns, Typed
    <2>3. Undisturbed'
      <3> SUFFICES ASSUME ~disturbed PROVE Undisturbed'
        BY <2>1 DEF Undisturbed, Turns
      <3>1. db'.schema.extension \/ db'.schema.privileged
        <4>1. db.schema.extension \/ db.schema.privileged
          BY DEF IInv, Undisturbed
        <4>2. CASE EnsureExtensions(r)
          BY <4>1, <4>2, EnsureFits
        <4>3. CASE Upgrade(r)
          BY <4>1, <4>3, UpgradeCommits
        <4>4. CASE Wait(r) \/ Lock(r) \/ Begin(r) \/ Rehome(r) \/ Unlock(r)
          BY <4>1, <4>4 DEF Wait, Lock, Begin, Rehome, Unlock
        <4> QED  BY <1>5, <4>2, <4>3, <4>4 DEF Works
      <3>2. ASSUME NEW q \in Replica PROVE Steady(q, rep'[q], lock', reachable', version', db')
        <4>1. CASE q = r
          BY <1>2, <2>1, <4>1 DEF Turns
        <4>2. CASE q # r
          <5>1. rep'[q] = rep[q] /\ reachable' = reachable
            BY <1>2, <2>1, <4>2 DEF Turns
          <5>2. Steady(q, rep[q], lock, reachable, version, db)
            BY DEF IInv, Undisturbed
          <5>3. lock = q => lock' = q
            BY <1>2, <2>1, <4>2 DEF Turns
          <5>4. (version' = version /\ db'.value = db.value) \/ lock = r
            <6>1. Steady(r, rep[r], lock, reachable, version, db)
              BY DEF IInv, Undisturbed
            <6>2. CASE Upgrade(r)
              BY <6>1, <6>2 DEF Upgrade, Steady
            <6>3. CASE EnsureExtensions(r)
              BY <6>3, EnsureFits DEF EnsureExtensions
            <6>4. CASE Wait(r) \/ Lock(r) \/ Begin(r) \/ Rehome(r) \/ Unlock(r)
              BY <6>4 DEF Wait, Lock, Begin, Rehome, Unlock
            <6> QED  BY <1>5, <6>2, <6>3, <6>4 DEF Works
          <5>5. CASE lock = r
            BY <4>2, <5>1, <5>2, <5>3, <5>5 DEF Steady
          <5>6. CASE version' = version /\ db'.value = db.value
            BY <4>2, <5>1, <5>2, <5>3, <5>6 DEF Steady, Caught
          <5> QED  BY <5>4, <5>5, <5>6
        <4> QED  BY <4>1, <4>2
      <3> QED  BY <3>1, <3>2 DEF Undisturbed
    <2> QED  BY <1>3, <2>2, <2>3
  <1>6. ASSUME NEW r \in Replica, LoseSession(r) PROVE IInv'
    <2> DEFINE m == [rep[r] EXCEPT !.session = FALSE,
                                   !.phase = IF @ = "locking" THEN "failed" ELSE @]
    <2>1. rep' = [rep EXCEPT ![r] = m]
      BY <1>2, <1>6 DEF LoseSession
    <2>2. m \in Migrator /\ Rehoming(m)
      <3>1. m \in Migrator
        BY <1>2 DEF Migrator, Final
      <3>2. /\ m.moved = rep[r].moved /\ m.base = rep[r].base
            /\ m.phase = "converting" <=> rep[r].phase = "converting"
        BY <1>2 DEF Migrator
      <3> HIDE DEF m
      <3> QED  BY <1>2, <3>1, <3>2 DEF Rehoming
    <2> HIDE DEF m
    <2>3. /\ lock' \in {lock, NoReplica} /\ UNCHANGED reachable
          /\ faults' = faults + 1 /\ faults < MaxFaults /\ disturbed' = TRUE
      BY <1>6 DEF LoseSession, Released, Fault
    <2>4. Typed
      BY <1>2, <2>1, <2>2, <2>3 DEF Typed
    <2> QED  BY <1>3, <1>4, <2>3, <2>4
  <1>7. ASSUME NEW r \in Replica, Kill(r) PROVE IInv'
    <2> DEFINE m == [phase |-> "failed", tries |-> 0, session |-> FALSE, base |-> 0, moved |-> {},
                     ok |-> TRUE]
    <2>1. rep' = [rep EXCEPT ![r] = m]
      BY <1>7 DEF Kill
    <2>2. m \in Migrator /\ Rehoming(m)
      BY <1>2 DEF Migrator, Final, Rehoming
    <2> HIDE DEF m
    <2>3. /\ lock' \in {lock, NoReplica} /\ UNCHANGED reachable
          /\ faults' = faults + 1 /\ faults < MaxFaults /\ disturbed' = TRUE
      BY <1>7 DEF Kill, Released, Fault
    <2>4. Typed
      BY <1>2, <2>1, <2>2, <2>3 DEF Typed
    <2> QED  BY <1>3, <1>4, <2>3, <2>4
  <1>8. ASSUME Outage PROVE IInv'
    <2> DEFINE cut(r) == CASE rep[r].phase \in {"upgrading", "converting"} ->
                                 [rep[r] EXCEPT !.session = FALSE, !.phase = "unlocking",
                                                !.base = 0, !.moved = {}, !.ok = FALSE]
                           [] OTHER -> [rep[r] EXCEPT !.session = FALSE]
    <2>1. \A r \in Replica : cut(r) \in Migrator /\ Rehoming(cut(r))
      <3> SUFFICES ASSUME NEW r \in Replica PROVE cut(r) \in Migrator /\ Rehoming(cut(r))
        OBVIOUS
      <3>1. CASE rep[r].phase \in {"upgrading", "converting"}
        BY <1>2, <3>1 DEF Migrator, Rehoming
      <3>2. CASE rep[r].phase \notin {"upgrading", "converting"}
        <4>1. rep[r].moved = {}
          BY <1>2, <3>2 DEF Rehoming
        <4> QED  BY <1>2, <3>2, <4>1 DEF Migrator, Rehoming
      <3> QED  BY <3>1, <3>2
    <2>2. rep' \in [Replica -> Migrator] /\ \A r \in Replica : Rehoming(rep'[r])
      <3>1. rep' = [r \in Replica |-> cut(r)]
        BY <1>8 DEF Outage
      <3>2. \A r \in Replica : rep'[r] = cut(r)
        BY <3>1
      <3>3. \A r \in Replica : rep'[r] \in Migrator /\ Rehoming(rep'[r])
        <4> HIDE DEF cut
        <4> QED  BY <2>1, <3>2
      <3> QED  BY <3>1, <3>3
    <2>3. /\ lock' = NoReplica /\ reachable' = FALSE
          /\ faults' = faults + 1 /\ faults < MaxFaults /\ disturbed' = TRUE
      BY <1>8 DEF Outage, Fault
    <2>4. Typed
      <3>1. faults' \in 0..MaxFaults
        BY <1>2, <2>3
      <3>2. reachable' \in BOOLEAN /\ disturbed' \in BOOLEAN
        BY <2>3
      <3> QED  BY <2>2, <2>3, <3>1, <3>2 DEF Typed
    <2> QED  BY <1>3, <1>4, <2>3, <2>4
  <1>9. ASSUME Recovery PROVE IInv'
    <2>1. /\ UNCHANGED <<db, version, lock, rep, faults, disturbed>> /\ reachable' = TRUE
      BY <1>9 DEF Recovery
    <2>2. Typed
      BY <1>2, <2>1 DEF Typed
    <2>3. Undisturbed'
      BY <2>1 DEF IInv, Undisturbed, Steady
    <2> QED  BY <1>3, <2>2, <2>3
  <1>10. ASSUME DowngradeByHand \/ UpgradeByHand PROVE IInv'
    <2>1. UNCHANGED <<lock, reachable, rep, faults>> /\ disturbed' = TRUE
      BY <1>10 DEF DowngradeByHand, UpgradeByHand, ByHand
    <2>2. Typed
      BY <1>2, <2>1 DEF Typed
    <2> QED  BY <1>3, <1>4, <2>1, <2>2
  <1>11. ASSUME NEW t \in Rebuilt, NEW row \in Row, Write(t, row) PROVE IInv'
    <2>1. UNCHANGED <<version, lock, reachable, rep, faults>>
      BY <1>11 DEF Write
    <2>2. db'.schema = db.schema /\ disturbed' \in BOOLEAN
      BY <1>11, WriteFits DEF Write
    <2>3. Typed
      BY <1>2, <2>1, <2>2 DEF Typed
    <2>4. Undisturbed'
      <3> SUFFICES ASSUME ~disturbed' PROVE Undisturbed'
        BY DEF Undisturbed
      <3>1. PICK label : /\ db' = [db EXCEPT !.value[t][row] = label]
                         /\ disturbed' = \/ disturbed
                                         \/ \E r \in Replica :
                                               /\ rep[r].phase = "converting"
                                               /\ Moves(First(rep[r].base), t, label)
        BY <1>11 DEF Write
      <3>2. ~disturbed
        BY <3>1
      <3>3. ASSUME NEW r \in Replica, rep[r].phase = "converting", Caught(rep[r], db)
            PROVE  Caught(rep[r], db')
        <4>1. ~Moves(First(rep[r].base), t, label)
          BY <3>1, <3>3
        <4> SUFFICES ASSUME NEW s \in DOMAIN db'.value, NEW other \in Row, other \notin rep[r].moved
                     PROVE  ~Moves(First(rep[r].base), s, db'.value[s][other])
          BY DEF Caught
        <4>2. s \in DOMAIN db.value /\ db'.value[s][other] \in {db.value[s][other], label}
              /\ (s # t => db'.value[s][other] = db.value[s][other])
          BY <1>11, WrittenIs, <3>1
        <4> QED  BY <3>3, <4>1, <4>2 DEF Caught
      <3>4. ASSUME NEW r \in Replica
            PROVE  Steady(r, rep'[r], lock', reachable', version', db')
        <4>1. Steady(r, rep[r], lock, reachable, version, db)
          BY <3>2 DEF IInv, Undisturbed
        <4> QED  BY <2>1, <3>3, <4>1 DEF Steady
      <3> QED  BY <2>2, <3>2, <3>4 DEF IInv, Undisturbed
    <2> QED  BY <1>3, <2>3, <2>4
  <1>12. ASSUME NEW r \in Replica, Deadlock(r) PROVE IInv'
    <2> DEFINE m == [rep[r] EXCEPT !.phase = "unlocking", !.base = 0, !.moved = {}, !.ok = FALSE]
    <2>1. rep' = [rep EXCEPT ![r] = m]
      BY <1>2, <1>12 DEF Deadlock, Ends
    <2>2. m \in Migrator /\ Rehoming(m)
      BY <1>2 DEF Migrator, Rehoming
    <2> HIDE DEF m
    <2>3. UNCHANGED <<db, version, lock, reachable, faults>> /\ disturbed' = TRUE
      BY <1>12 DEF Deadlock
    <2>4. Typed
      BY <1>2, <2>1, <2>2, <2>3 DEF Typed
    <2> QED  BY <1>3, <1>4, <2>3, <2>4
  <1>13. CASE UNCHANGED vars
    <2>1. UNCHANGED <<db, version, lock, reachable, rep, faults, disturbed>>
      BY <1>13 DEF vars
    <2>2. Typed /\ Undisturbed'
      BY <1>2, <2>1 DEF Typed, IInv, Undisturbed
    <2> QED  BY <1>3, <2>2
  <1> QED
    BY <1>5, <1>6, <1>7, <1>8, <1>9, <1>10, <1>11, <1>12, <1>13 DEF Next

LEMMA InvariantHolds == Spec => []IInv
  BY InitHolds, InvariantKept, PTL DEF Spec
-----------------------------------------------------------------------------
\* Whatever was upgraded, downgraded, raced, killed or cut off, and whatever the rows hold:
\* the schema is the one of the revision in alembic_version.
THEOREM SchemaFollowsVersion == Spec => []SchemaIsTheRevisions
  <1>1. IInv => SchemaIsTheRevisions
    BY AtRevisionIs DEF IInv, TypeOK, SchemaIsTheRevisions
  <1> QED  BY <1>1, InvariantHolds, PTL

\* At the last revision the tables are the models' own.
THEOREM ModelsFit == Spec => []LatestFitsTheModels
  <1>1. IInv => LatestFitsTheModels
    BY AtRevisionIs, LatestIsDeclared DEF IInv, TypeOK, LatestFitsTheModels
  <1> QED  BY <1>1, InvariantHolds, PTL

\* Any number of replicas may start at once: undisturbed, none of them fails.
THEOREM ConcurrentMigrations == Spec => []QueuedMigratorsSucceed
  <1>1. IInv => QueuedMigratorsSucceed
    BY DEF IInv, Undisturbed, Steady, QueuedMigratorsSucceed
  <1> QED  BY <1>1, InvariantHolds, PTL

\* A change of revision takes no incident or account for another, in any row.
THEOREM ConversionsAreKept == Spec => ConversionsKeepTheOutcome
  <1>1. IInv /\ [Next]_vars =>
          [version' # version =>
              \A t \in DOMAIN db.value, r \in Row :
                 db'.value[t][r] # Absent => Kept(db.value[t][r], db'.value[t][r])]_vars
    BY NextCommits DEF Committed, RowsKept
  <1> QED  BY <1>1, InvariantHolds, PTL DEF Spec, ConversionsKeepTheOutcome
=============================================================================
