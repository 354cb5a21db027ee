--------------------------- MODULE Knowledge_proofs ---------------------------
(***************************************************************************)
(* The documents are whole and implement a corpus, and the audit trail     *)
(* tells it, for any contents, workers and chunk sizes and however many    *)
(* requests overlap.                                                       *)
(*                                                                         *)
(* A session replaces chunks it saw long before.  The invariant says what  *)
(* the DELETE of READ COMMITTED can have removed: all the chunks there are *)
(* of the document or, when another transaction has replaced them since,   *)
(* none of them.  In the second case the INSERTs break a constraint.       *)
(***************************************************************************)
EXTENDS Knowledge, Indexing, FiniteSetTheorems, SequenceTheorems, WellFoundedInduction,
        TLAPS

Done(r) == req[r].phase = "done"

InsertPhase == {"embedding", "deleting", "replacing"}

\* Documents and chunks are of requests that were answered.
Settled ==
    /\ \A d \in documents : Done(d.id)
    /\ \A p \in chunks : Done(p.by)

\* A document has one id and one content, and no other has either.
Keys == \A d, e \in documents : d.id = e.id \/ d.content = e.content => d = e

\* What a session is about.
Knows(r) ==
    /\ req[r].phase = "idle" \/ req[r].op = "create" => req[r].document = r
    /\ req[r].op \in {"reindex", "delete"} =>
          /\ Done(req[r].document)
          /\ \A d \in documents : d.id = req[r].document => d.content = req[r].content
    /\ req[r].phase = "checked" => req[r].op = "create"
    /\ req[r].phase \in InsertPhase => req[r].op \in {"create", "reindex"}
    /\ req[r].phase = "loaded" => req[r].op = "delete"

\* The content of an uncommitted document is that of no other.
Reserves(r) ==
    req[r].op = "create" /\ req[r].phase \in InsertPhase =>
       /\ FreshContent(r)
       /\ \A q \in Inserting(req[r].content) : q = r

\* The chunks a session replaces: all of them or none.
Replaces(r) ==
    /\ \A p \in req[r].seen : p.document = req[r].document /\ Done(p.by)
    /\ req[r].phase = "deleting" => req[r].seen \cap chunks \in {{}, ChunksOf(req[r].document)}
    /\ req[r].removed \in {{}, ChunksOf(req[r].document)}
    /\ req[r].phase \notin {"deleting", "replacing"} => req[r].seen = {}
    /\ req[r].phase # "replacing" => req[r].removed = {}

\* A chunk is deleted by one uncommitted transaction at most.
Apart == \A q, r \in Request : q # r => req[q].removed \cap req[r].removed = {}

IInv ==
    /\ TypeOK
    /\ DocumentsAreWhole
    /\ Settled
    /\ Keys
    /\ \A r \in Request : Knows(r) /\ Reserves(r) /\ Replaces(r)
    /\ Apart
-----------------------------------------------------------------------------
\* Before any request the invariant holds.
LEMMA InitIInv == Init => IInv
  <1> SUFFICES ASSUME Init PROVE IInv
    OBVIOUS
  <1>1. \A r \in Request : EmptySession(r, "idle") \in Session
    BY ConstantsAssumption DEF EmptySession, Session
  <1>2. TypeOK
    BY <1>1 DEF Init, TypeOK
  <1>3. \A r \in Request : /\ req[r].phase = "idle" /\ req[r].op = "none"
                           /\ req[r].document = r
                           /\ req[r].seen = {} /\ req[r].removed = {}
    BY DEF Init, EmptySession
  <1>4. documents = {} /\ chunks = {}
    BY DEF Init
  <1>5. DocumentsAreWhole /\ Settled /\ Keys
    BY <1>4 DEF DocumentsAreWhole, Settled, Keys
  <1>6. \A r \in Request : Knows(r) /\ Reserves(r) /\ Replaces(r)
    BY <1>3 DEF Knows, Reserves, Replaces, InsertPhase
  <1>7. Apart
    BY <1>3 DEF Apart
  <1> QED
    BY <1>2, <1>5, <1>6, <1>7 DEF IInv

\* A step that changes one session, and it for the good, changes nothing else.
LEMMA SessionStep ==
    ASSUME IInv, NEW r \in Request, ~Done(r), NEW s \in Session,
           req' = [req EXCEPT ![r] = s], UNCHANGED <<documents, chunks, audit>>,
           Knows(r)', Reserves(r)', Replaces(r)',
           \A q \in Request \ {r} : s.removed \cap req[q].removed = {}
    PROVE  IInv'
  <1>1. TypeOK'
    BY DEF IInv, TypeOK
  <1>2. /\ req'[r] = s
        /\ \A q \in Request \ {r} : req'[q] = req[q]
        /\ req' \in [Request -> Session]
    BY DEF IInv, TypeOK
  <1>3. \A q \in Request : Done(q) => Done(q)'
    BY <1>2 DEF Done
  <1>4. DocumentsAreWhole' /\ Keys'
    BY DEF IInv, DocumentsAreWhole, Keys, ChunksOf
  <1>5. Settled'
    BY <1>3 DEF IInv, TypeOK, Settled, Document, Chunk
  <1>6. ASSUME NEW q \in Request \ {r} PROVE Knows(q)' /\ Reserves(q)' /\ Replaces(q)'
    <2>1. Knows(q) /\ Reserves(q) /\ Replaces(q)
      BY DEF IInv
    <2>2. req'[q] = req[q] /\ req[q] \in Session
      BY <1>2 DEF IInv, TypeOK
    <2>3. Knows(q)'
      BY <2>1, <2>2, <1>3 DEF Knows, Session
    <2>4. Replaces(q)'
      BY <2>1, <2>2, <1>3 DEF Replaces, ChunksOf, Session, Chunk
    <2>5. Reserves(q)'
      BY <2>1, <2>2, <1>2 DEF Reserves, FreshContent, IsStored, Inserting, InsertPhase
    <2> QED
      BY <2>3, <2>4, <2>5
  <1>7. Apart'
    BY <1>2 DEF IInv, Apart
  <1> QED
    BY <1>1, <1>4, <1>5, <1>6, <1>7 DEF IInv

\* A request that is answered without a commit.
LEMMA FinishKeepsIInv ==
    ASSUME IInv, NEW r \in Request, ~Done(r), Finish(r), UNCHANGED <<documents, chunks, audit>>
    PROVE  IInv'
  <1> PICK s : s = EmptySession(r, "done")
    OBVIOUS
  <1>1. s \in Session
    <2>1. req[r] \in Session
      BY DEF IInv, TypeOK
    <2> QED
      BY <2>1 DEF EmptySession, Session
  <1>2. req' = [req EXCEPT ![r] = s]
    BY DEF Finish
  <1>3. req'[r] = s
    BY <1>2 DEF IInv, TypeOK
  <1>4. s.phase = "done" /\ s.op = "none" /\ s.seen = {} /\ s.removed = {}
    BY DEF EmptySession
  <1>5. Knows(r)' /\ Reserves(r)' /\ Replaces(r)'
    BY <1>3, <1>4 DEF Knows, Reserves, Replaces, InsertPhase
  <1> QED
    BY <1>1, <1>2, <1>4, <1>5, SessionStep

\* An idle session becomes one that checks, reindexes or deletes.
LEMMA BeginKeepsIInv ==
    ASSUME IInv, NEW r \in Request, req[r].phase = "idle",
           NEW step \in {"checked", "embedding", "loaded"},
           NEW op \in {"create", "reindex", "delete"},
           step = "checked" => op = "create",
           step = "embedding" => op = "reindex",
           step = "loaded" => op = "delete",
           NEW x \in Request, NEW c \in Content, NEW w \in Worker,
           op = "create" => x = r,
           op # "create" => [id |-> x, content |-> c] \in documents,
           req' = [req EXCEPT ![r].phase = step, ![r].op = op, ![r].document = x,
                              ![r].content = c, ![r].worker = w],
           UNCHANGED <<documents, chunks, audit>>
    PROVE  IInv'
  <1> PICK s : s = [req[r] EXCEPT !.phase = step, !.op = op, !.document = x,
                                  !.content = c, !.worker = w]
    OBVIOUS
  <1>1. req[r] \in Session /\ Replaces(r)
    BY DEF IInv, TypeOK
  <1>2. s \in Session
    BY <1>1 DEF Session
  <1>3. req' = [req EXCEPT ![r] = s]
    BY DEF IInv, TypeOK
  <1>4. /\ req'[r] = s
        /\ \A q \in Request \ {r} : req'[q] = req[q]
    BY <1>3 DEF IInv, TypeOK
  <1>5. /\ s.phase = step /\ s.op = op /\ s.document = x /\ s.content = c
        /\ s.seen = {} /\ s.removed = {}
    BY <1>1 DEF Session, Replaces
  <1>6. Knows(r)'
    <2>1. op # "create" => Done(x) /\ x # r
      BY DEF IInv, Settled, Done
    <2>2. op # "create" => Done(x)'
      BY <2>1, <1>4 DEF Done
    <2>3. op # "create" => \A d \in documents : d.id = x => d.content = c
      BY DEF IInv, Keys
    <2> QED
      BY <2>2, <2>3, <1>4, <1>5 DEF Knows, InsertPhase
  <1>7. Reserves(r)'
    BY <1>4, <1>5 DEF Reserves, InsertPhase
  <1>8. Replaces(r)'
    BY <1>4, <1>5 DEF Replaces
  <1>9. ~Done(r) /\ \A q \in Request \ {r} : s.removed \cap req[q].removed = {}
    BY <1>5 DEF Done
  <1> QED
    BY <1>2, <1>3, <1>6, <1>7, <1>8, <1>9, SessionStep

\* The document is inserted, and no other transaction inserts its content.
LEMMA InsertDocumentKeepsIInv ==
    ASSUME IInv, NEW r \in Request, InsertDocument(r)
    PROVE  IInv'
  <1> PICK s : s = [req[r] EXCEPT !.phase = "embedding"]
    OBVIOUS
  <1>1. req[r] \in Session /\ Knows(r) /\ Replaces(r)
    BY DEF IInv, TypeOK
  <1>2. s \in Session
    BY <1>1 DEF Session
  <1>3. req' = [req EXCEPT ![r] = s]
    BY DEF IInv, TypeOK, InsertDocument
  <1>4. /\ req'[r] = s
        /\ \A q \in Request \ {r} : req'[q] = req[q]
    BY <1>3 DEF IInv, TypeOK
  <1>5. /\ s.phase = "embedding" /\ s.op = "create" /\ s.document = r
        /\ s.content = req[r].content /\ s.seen = {} /\ s.removed = {}
    BY <1>1 DEF Session, Replaces, Knows, InsertDocument
  <1>6. Knows(r)' /\ Replaces(r)'
    BY <1>4, <1>5 DEF Knows, Replaces, InsertPhase
  <1>7. Reserves(r)'
    <2>1. FreshContent(r)'
      BY <1>4, <1>5 DEF FreshContent, IsStored, InsertDocument
    <2>2. \A q \in Inserting(req[r].content)' : q = r
      BY <1>4, <1>5 DEF Inserting, InsertDocument
    <2> QED
      BY <2>1, <2>2 DEF Reserves
  <1> QED
    BY <1>2, <1>3, <1>5, <1>6, <1>7, SessionStep DEF Done, InsertDocument

\* A session that goes on inserting is about what it was about.
LEMMA SameSubject ==
    ASSUME IInv, NEW r \in Request, req[r].phase \in InsertPhase,
           req'[r].phase \in InsertPhase, req'[r].op = req[r].op,
           req'[r].document = req[r].document, req'[r].content = req[r].content,
           \A q \in Request \ {r} : req'[q] = req[q], UNCHANGED documents
    PROVE  /\ Knows(r)' /\ Reserves(r)'
           /\ \A q \in Request : Done(q) => Done(q)'
  <1>1. req[r] \in Session /\ Knows(r) /\ Reserves(r)
    BY DEF IInv, TypeOK
  <1>2. \A q \in Request : Done(q) => Done(q)'
    BY DEF Done, InsertPhase
  <1>3. Knows(r)'
    <2>1. req[r].op \in {"create", "reindex"} /\ req[r].document \in Request
      BY <1>1 DEF Knows, Session
    <2>2. req[r].op = "create" => req[r].document = r
      BY <1>1 DEF Knows
    <2>3. req[r].op = "reindex" =>
            /\ Done(req[r].document)'
            /\ \A d \in documents' : d.id = req[r].document => d.content = req[r].content
      BY <1>1, <1>2, <2>1 DEF Knows
    <2> QED
      BY <2>1, <2>2, <2>3 DEF Knows, InsertPhase
  <1>4. Reserves(r)'
    <2>1. CASE req[r].op # "create"
      BY <2>1 DEF Reserves
    <2>2. CASE req[r].op = "create"
      <3>1. FreshContent(r) /\ \A q \in Inserting(req[r].content) : q = r
        BY <1>1, <2>2 DEF Reserves
      <3>2. FreshContent(r)'
        BY <3>1 DEF FreshContent, IsStored
      <3>3. \A q \in Inserting(req[r].content)' : q = r
        BY <3>1 DEF Inserting
      <3> QED
        BY <3>2, <3>3 DEF Reserves
    <2> QED
      BY <2>1, <2>2
  <1> QED
    BY <1>2, <1>3, <1>4

\* The DELETE begins: it sees all the chunks of the document.
LEMMA BeginDeleteKeepsIInv ==
    ASSUME IInv, NEW r \in Request, BeginDelete(r)
    PROVE  IInv'
  <1> PICK s : s = [req[r] EXCEPT !.phase = "deleting", !.seen = ChunksOf(req[r].document)]
    OBVIOUS
  <1>1. req[r] \in Session /\ Knows(r) /\ Reserves(r) /\ Replaces(r)
    BY DEF IInv, TypeOK
  <1>2. ChunksOf(req[r].document) \subseteq chunks
    BY DEF ChunksOf
  <1>3. s \in Session
    BY <1>1, <1>2 DEF Session, IInv, TypeOK
  <1>4. req' = [req EXCEPT ![r] = s]
    BY DEF IInv, TypeOK, BeginDelete
  <1>5. /\ req'[r] = s
        /\ \A q \in Request \ {r} : req'[q] = req[q]
    BY <1>4 DEF IInv, TypeOK
  <1>6. /\ s.phase = "deleting" /\ s.op = req[r].op /\ s.document = req[r].document
        /\ s.content = req[r].content /\ s.seen = ChunksOf(req[r].document) /\ s.removed = {}
    BY <1>1 DEF Session, Replaces, BeginDelete
  <1>7. req[r].phase = "embedding" /\ UNCHANGED <<documents, chunks, audit>>
    BY DEF BeginDelete
  <1>8. Knows(r)' /\ Reserves(r)' /\ \A q \in Request : Done(q) => Done(q)'
    BY <1>5, <1>6, <1>7, SameSubject DEF InsertPhase
  <1>9. Replaces(r)'
    <2>1. \A p \in ChunksOf(req[r].document) : p.document = req[r].document /\ Done(p.by)'
      BY <1>8 DEF ChunksOf, IInv, Settled, TypeOK, Chunk
    <2>2. ChunksOf(s.document)' = ChunksOf(req[r].document)
      BY <1>6, <1>7 DEF ChunksOf
    <2>3. s.seen \cap chunks' = ChunksOf(req[r].document)
      BY <1>2, <1>6, <1>7
    <2> QED
      BY <2>1, <2>2, <2>3, <1>5, <1>6 DEF Replaces
  <1> QED
    BY <1>3, <1>4, <1>6, <1>7, <1>8, <1>9, SessionStep DEF Done

\* The DELETE ends: it has removed all the chunks of the document or none, and
\* none that another transaction has removed.
LEMMA DeleteChunksKeepsIInv ==
    ASSUME IInv, NEW r \in Request, DeleteChunks(r)
    PROVE  IInv'
  <1> PICK s : s = [req[r] EXCEPT !.phase = "replacing", !.removed = req[r].seen \cap chunks]
    OBVIOUS
  <1>1. req[r] \in Session /\ Knows(r) /\ Reserves(r) /\ Replaces(r)
    BY DEF IInv, TypeOK
  <1>2. s \in Session
    BY <1>1 DEF Session
  <1>3. req' = [req EXCEPT ![r] = s]
    BY DEF IInv, TypeOK, DeleteChunks
  <1>4. /\ req'[r] = s
        /\ \A q \in Request \ {r} : req'[q] = req[q]
    BY <1>3 DEF IInv, TypeOK
  <1>5. /\ s.phase = "replacing" /\ s.op = req[r].op /\ s.document = req[r].document
        /\ s.content = req[r].content /\ s.seen = req[r].seen
        /\ s.removed = req[r].seen \cap chunks
    BY <1>1 DEF Session
  <1>6. req[r].phase = "deleting" /\ UNCHANGED <<documents, chunks, audit>>
    BY DEF DeleteChunks
  <1>7. Knows(r)' /\ Reserves(r)' /\ \A q \in Request : Done(q) => Done(q)'
    BY <1>4, <1>5, <1>6, SameSubject DEF InsertPhase
  <1>8. Replaces(r)'
    <2>1. ChunksOf(s.document)' = ChunksOf(req[r].document)
      BY <1>5, <1>6 DEF ChunksOf
    <2>2. s.removed \in {{}, ChunksOf(req[r].document)}
      BY <1>1, <1>5, <1>6 DEF Replaces
    <2>3. \A p \in s.seen : p.document = s.document /\ Done(p.by)'
      BY <1>1, <1>5, <1>7 DEF Replaces, Session, Chunk
    <2> QED
      BY <2>1, <2>2, <2>3, <1>4, <1>5 DEF Replaces
  <1>9. \A q \in Request \ {r} : s.removed \cap req[q].removed = {}
    BY <1>5 DEF DeleteChunks, LockedFor
  <1> QED
    BY <1>2, <1>3, <1>6, <1>7, <1>8, <1>9, SessionStep DEF Done
-----------------------------------------------------------------------------
\* A document has its first chunk.
LEMMA FirstChunk ==
    ASSUME IInv, NEW d \in documents
    PROVE  \E p \in ChunksOf(d.id) : p.index = 0
  <1>1. PICK r \in Request, w \in Worker :
            ChunksOf(d.id) = [document : {d.id}, index : 0 .. Pieces[d.content][w] - 1,
                              worker : {w}, by : {r}]
    BY DEF IInv, DocumentsAreWhole
  <1>2. d.content \in Content
    BY DEF IInv, TypeOK, Document
  <1>3. Pieces[d.content][w] \in Nat \ {0}
    BY <1>2, PiecesAssumption
  <1>4. 0 \in 0 .. Pieces[d.content][w] - 1
    BY <1>3
  <1>5. [document |-> d.id, index |-> 0, worker |-> w, by |-> r] \in ChunksOf(d.id)
    BY <1>1, <1>4
  <1> QED
    BY <1>5

\* A commit replaces all the chunks of its document: if its DELETE removed none,
\* there are none, or the constraint on their positions would refuse it.
LEMMA RemovesAll ==
    ASSUME IInv, NEW r \in Request, req[r].phase = "replacing", HasDocument(r), Insertable(r)
    PROVE  req[r].removed = ChunksOf(req[r].document)
  <1>1. req[r] \in Session /\ Knows(r) /\ Replaces(r)
    BY DEF IInv, TypeOK
  <1>2. SUFFICES ASSUME req[r].removed = {}, NEW p \in chunks, p.document = req[r].document
                 PROVE  FALSE
    BY <1>1 DEF Replaces, ChunksOf
  <1>3. PICK d \in documents : d.id = req[r].document
    BY <1>2 DEF IInv, DocumentsAreWhole
  <1>4. PICK q \in ChunksOf(d.id) : q.index = 0
    BY FirstChunk
  <1>5. q \in chunks \ req[r].removed /\ q.document = req[r].document
    BY <1>2, <1>3, <1>4 DEF ChunksOf
  <1>6. Pieces[req[r].content][req[r].worker] \in Nat \ {0}
    BY <1>1, PiecesAssumption DEF Session
  <1>7. 0 \in 0 .. Pieces[req[r].content][req[r].worker] - 1
    BY <1>6
  <1>8. [document |-> req[r].document, index |-> 0, worker |-> req[r].worker, by |-> r]
            \in NewChunks(r)
    BY <1>7 DEF NewChunks
  <1> QED
    BY <1>4, <1>5, <1>8 DEF Insertable

\* What a commit that gives the document x the chunks "new" does to the sessions.
LEMMA CommitStep ==
    ASSUME IInv, NEW r \in Request, ~Done(r), Finish(r),
           NEW x \in Request, NEW new \in SUBSET Chunk,
           \A p \in new : p.document = x /\ p.by = r,
           chunks' = (chunks \ ChunksOf(x)) \cup new,
           \A q \in Request \ {r} : req[q].removed \cap ChunksOf(x) = {}
    PROVE  /\ req' \in [Request -> Session]
           /\ \A q \in Request \ {r} : req'[q] = req[q]
           /\ \A q \in Request : Done(q)' <=> Done(q) \/ q = r
           /\ chunks' \subseteq Chunk
           /\ ChunksOf(x)' = new
           /\ \A y \in Request \ {x} : ChunksOf(y)' = ChunksOf(y)
           /\ \A p \in chunks' : Done(p.by)'
           /\ \A q \in Request : Replaces(q)'
           /\ Knows(r)' /\ Reserves(r)'
           /\ Apart'
  <1>1. EmptySession(r, "done") \in Session
    <2>1. req[r] \in Session
      BY DEF IInv, TypeOK
    <2> QED
      BY <2>1 DEF EmptySession, Session
  <1>2. /\ req' \in [Request -> Session]
        /\ \A q \in Request \ {r} : req'[q] = req[q]
        /\ req'[r] = EmptySession(r, "done")
    BY <1>1 DEF Finish, IInv, TypeOK
  <1>3. /\ req'[r].phase = "done" /\ req'[r].op = "none" /\ req'[r].seen = {}
        /\ req'[r].removed = {}
    BY <1>2 DEF EmptySession
  <1>4. \A q \in Request : Done(q)' <=> Done(q) \/ q = r
    BY <1>2, <1>3 DEF Done
  <1>5. chunks' \subseteq Chunk
    BY DEF IInv, TypeOK
  <1>6. /\ ChunksOf(x)' = new
        /\ \A y \in Request \ {x} : ChunksOf(y)' = ChunksOf(y)
    BY DEF ChunksOf
  <1>7. \A p \in chunks' : Done(p.by)'
    BY <1>4 DEF IInv, Settled, TypeOK, Chunk
  <1>8. Knows(r)' /\ Reserves(r)' /\ Replaces(r)'
    BY <1>3 DEF Knows, Reserves, Replaces, InsertPhase
  <1>9. ASSUME NEW q \in Request \ {r} PROVE Replaces(q)'
    <2>1. req'[q] = req[q] /\ req[q] \in Session /\ Replaces(q)
      BY <1>2 DEF IInv, TypeOK
    <2>2. \A p \in req[q].seen : p.document = req[q].document /\ Done(p.by) /\ Done(p.by)'
      BY <2>1, <1>4 DEF Replaces, Session, Chunk
    <2>3. CASE req[q].document = x
      <3>1. req[q].seen \cap chunks' = {}
        BY <2>2, <2>3 DEF ChunksOf
      <3>2. req[q].removed = {}
        BY <2>1, <2>3 DEF Replaces
      <3> QED
        BY <2>1, <2>2, <3>1, <3>2 DEF Replaces
    <2>4. CASE req[q].document # x
      <3>1. ChunksOf(req[q].document)' = ChunksOf(req[q].document)
        BY <1>6, <2>1, <2>4 DEF Session
      <3>2. req[q].seen \cap chunks' = req[q].seen \cap chunks
        BY <2>2, <2>4 DEF ChunksOf
      <3> QED
        BY <2>1, <2>2, <3>1, <3>2 DEF Replaces
    <2> QED
      BY <2>3, <2>4
  <1>10. Apart'
    BY <1>2, <1>3 DEF IInv, Apart
  <1> QED
    BY <1>2, <1>4, <1>5, <1>6, <1>7, <1>8, <1>9, <1>10

\* An indexing gives its document the chunks it embedded, and no others.
LEMMA CommitIndexKeepsIInv ==
    ASSUME IInv, NEW r \in Request, CommitIndex(r), NEW x, x = req[r].document
    PROVE  /\ IInv'
           /\ ChunksOf(x)' = NewChunks(r)
           /\ \A y \in Request \ {x} : ChunksOf(y)' = ChunksOf(y)
  <1> PICK c, w : c = req[r].content /\ w = req[r].worker
    OBVIOUS
  <1> PICK new : new = NewChunks(r)
    OBVIOUS
  <1>1. /\ req[r].phase = "replacing" /\ HasDocument(r) /\ Insertable(r)
        /\ documents' = documents \cup Created(r)
        /\ chunks' = (chunks \ req[r].removed) \cup new
        /\ audit' = Append(audit, EntryOf(r))
        /\ Finish(r)
    BY DEF CommitIndex
  <1>2. req[r] \in Session /\ Knows(r) /\ Reserves(r) /\ Replaces(r)
    BY DEF IInv, TypeOK
  <1>3. /\ x \in Request /\ c \in Content /\ w \in Worker
        /\ req[r].op \in {"create", "reindex"} /\ ~Done(r)
        /\ Pieces[c][w] \in Nat \ {0}
    BY <1>1, <1>2, PiecesAssumption DEF Session, Knows, Done, InsertPhase
  <1>4. new = [document : {x}, index : 0 .. Pieces[c][w] - 1, worker : {w}, by : {r}]
    BY DEF NewChunks
  <1>5. /\ new \in SUBSET Chunk
        /\ \A p \in new : p.document = x /\ p.by = r
    <2>1. 0 .. Pieces[c][w] - 1 \subseteq Nat
      BY <1>3
    <2> QED
      BY <1>3, <1>4, <2>1 DEF Chunk
  <1>6. req[r].removed = ChunksOf(x)
    BY <1>1, RemovesAll
  <1>7. \A q \in Request \ {r} : req[q].removed \cap ChunksOf(x) = {}
    BY <1>6 DEF IInv, Apart
  <1>8. chunks' = (chunks \ ChunksOf(x)) \cup new
    BY <1>1, <1>6
  <1>9. /\ req' \in [Request -> Session]
        /\ \A q \in Request \ {r} : req'[q] = req[q]
        /\ \A q \in Request : Done(q)' <=> Done(q) \/ q = r
        /\ chunks' \subseteq Chunk
        /\ ChunksOf(x)' = new
        /\ \A y \in Request \ {x} : ChunksOf(y)' = ChunksOf(y)
        /\ \A p \in chunks' : Done(p.by)'
        /\ \A q \in Request : Replaces(q)'
        /\ Knows(r)' /\ Reserves(r)'
        /\ Apart'
    <2>1. Finish(r) /\ ~Done(r) /\ x \in Request /\ new \in SUBSET Chunk
      BY <1>1, <1>3, <1>5
    <2>2. \A p \in new : p.document = x /\ p.by = r
      BY <1>5
    <2> QED
      BY <2>1, <2>2, <1>7, <1>8, CommitStep, ZenonT(90)
  <1>10. \A d \in Created(r) : d = [id |-> r, content |-> c] /\ req[r].op = "create" /\ x = r
    BY <1>2 DEF Created, Knows
  <1>11. TypeOK'
    <2>1. documents' \subseteq Document
      BY <1>1, <1>3, <1>10 DEF IInv, TypeOK, Document
    <2>2. EntryOf(r) \in Entry
      BY <1>3 DEF EntryOf, Entry
    <2>3. audit' \in Seq(Entry)
      BY <1>1, <2>2 DEF IInv, TypeOK
    <2> QED
      BY <1>9, <2>1, <2>3 DEF TypeOK
  <1>12. \A d \in documents : ~(d.id = r)
    BY <1>3 DEF IInv, Settled
  <1>13. \A d \in documents' : d.id = x => d.content = c
    <2>1. ASSUME NEW d \in documents, d.id = x PROVE d.content = c
      BY <1>2, <1>3, <1>12, <2>1 DEF Knows
    <2> QED
      BY <1>1, <1>10, <2>1
  <1>14. \E d \in documents' : d.id = x
    <2>1. CASE req[r].op = "create"
      <3>1. [id |-> r, content |-> c] \in Created(r) /\ x = r
        BY <1>2, <2>1 DEF Created, Knows
      <3> QED
        BY <1>1, <3>1
    <2>2. CASE req[r].op # "create"
      BY <1>1, <2>2 DEF HasDocument
    <2> QED
      BY <2>1, <2>2
  <1>15. DocumentsAreWhole'
    <2>1. ASSUME NEW d \in documents', d.id # x
          PROVE  \E q \in Request, v \in Worker :
                    ChunksOf(d.id)' = [document : {d.id}, index : 0 .. Pieces[d.content][v] - 1,
                                       worker : {v}, by : {q}]
      <3>1. d \in documents /\ d.id \in Request
        BY <1>1, <1>10, <2>1 DEF IInv, TypeOK, Document
      <3>2. ChunksOf(d.id)' = ChunksOf(d.id)
        BY <1>9, <2>1, <3>1
      <3> QED
        BY <3>1, <3>2 DEF IInv, DocumentsAreWhole
    <2>2. ASSUME NEW d \in documents', d.id = x
          PROVE  ChunksOf(d.id)' = [document : {d.id}, index : 0 .. Pieces[d.content][w] - 1,
                                    worker : {w}, by : {r}]
      BY <1>4, <1>9, <1>13, <2>2
    <2>3. ASSUME NEW p \in chunks' PROVE \E d \in documents' : d.id = p.document
      BY <1>1, <1>5, <1>8, <1>14 DEF IInv, DocumentsAreWhole, ChunksOf
    <2> QED
      BY <1>3, <2>1, <2>2, <2>3 DEF DocumentsAreWhole, ChunksOf
  <1>16. Settled'
    <2>1. \A d \in documents' : Done(d.id)'
      BY <1>1, <1>9, <1>10 DEF IInv, Settled, TypeOK, Document
    <2> QED
      BY <1>9, <2>1 DEF Settled
  <1>17. \A d \in Created(r) : \A e \in documents : d.id # e.id /\ d.content # e.content
    BY <1>1, <1>2, <1>10, <1>12 DEF Reserves, FreshContent, IsStored, InsertPhase
  <1>18. Keys'
    BY <1>1, <1>10, <1>17 DEF IInv, Keys
  <1>19. ASSUME NEW q \in Request \ {r} PROVE Knows(q)' /\ Reserves(q)'
    <2>1. req'[q] = req[q] /\ req[q] \in Session /\ Knows(q) /\ Reserves(q)
      BY <1>9 DEF IInv, TypeOK
    <2>2. Knows(q)'
      <3>1. ASSUME req[q].op \in {"reindex", "delete"}
            PROVE  /\ Done(req[q].document)'
                   /\ \A d \in documents' : d.id = req[q].document => d.content = req[q].content
        <4>1. /\ Done(req[q].document) /\ req[q].document \in Request
              /\ \A d \in documents : d.id = req[q].document => d.content = req[q].content
          BY <2>1, <3>1 DEF Knows, Session
        <4> QED
          BY <1>1, <1>3, <1>9, <1>10, <4>1
      <3> QED
        BY <2>1, <3>1 DEF Knows
    <2>3. Reserves(q)'
      <3> SUFFICES ASSUME req[q].op = "create", req[q].phase \in InsertPhase
                   PROVE  /\ FreshContent(q)'
                          /\ \A t \in Inserting(req[q].content)' : t = q
        BY <2>1 DEF Reserves
      <3>1. FreshContent(q) /\ \A t \in Inserting(req[q].content) : t = q
        BY <2>1 DEF Reserves
      <3>2. \A t \in Inserting(req[q].content)' : t \in Inserting(req[q].content)
        <4>1. req'[r].phase = "done"
          BY <1>9 DEF Done
        <4> QED
          BY <1>9, <2>1, <4>1 DEF Inserting
      <3>3. req[r].op = "create" => c # req[q].content
        BY <1>1, <3>1 DEF Inserting
      <3>4. FreshContent(q)'
        BY <1>1, <1>10, <2>1, <3>1, <3>3 DEF FreshContent, IsStored
      <3> QED
        BY <3>1, <3>2, <3>4
    <2> QED
      BY <2>2, <2>3
  <1>20. IInv'
    BY <1>9, <1>11, <1>15, <1>16, <1>18, <1>19 DEF IInv
  <1> QED
    BY <1>9, <1>20

\* A deletion leaves no chunk of its document, and takes none from a session.
LEMMA CommitDeleteKeepsIInv ==
    ASSUME IInv, NEW r \in Request, CommitDelete(r), NEW x, x = req[r].document
    PROVE  /\ IInv'
           /\ \A y \in Request \ {x} : ChunksOf(y)' = ChunksOf(y)
  <1>1. /\ req[r].phase = "loaded"
        /\ ~LockedFor(r, ChunksOf(x))
        /\ documents' = {e \in documents : e.id # x}
        /\ chunks' = (chunks \ ChunksOf(x)) \cup {}
        /\ audit' = Append(audit, EntryOf(r))
        /\ Finish(r)
    BY DEF CommitDelete
  <1>2. req[r] \in Session /\ Knows(r)
    BY DEF IInv, TypeOK
  <1>3. /\ x \in Request /\ req[r].op = "delete" /\ ~Done(r)
        /\ Pieces[req[r].content][req[r].worker] \in Nat
    BY <1>1, <1>2, PiecesAssumption DEF Session, Knows, Done
  <1>4. \A q \in Request \ {r} : req[q].removed \cap ChunksOf(x) = {}
    BY <1>1 DEF LockedFor
  <1>5. /\ req' \in [Request -> Session]
        /\ \A q \in Request \ {r} : req'[q] = req[q]
        /\ \A q \in Request : Done(q)' <=> Done(q) \/ q = r
        /\ chunks' \subseteq Chunk
        /\ ChunksOf(x)' = {}
        /\ \A y \in Request \ {x} : ChunksOf(y)' = ChunksOf(y)
        /\ \A p \in chunks' : Done(p.by)'
        /\ \A q \in Request : Replaces(q)'
        /\ Knows(r)' /\ Reserves(r)'
        /\ Apart'
    <2>1. {} \in SUBSET Chunk /\ \A p \in {} : p.document = x /\ p.by = r
      OBVIOUS
    <2>2. ~Done(r) /\ Finish(r) /\ x \in Request /\ chunks' = (chunks \ ChunksOf(x)) \cup {}
      BY <1>1, <1>3
    <2> QED
      BY <2>1, <2>2, <1>4, CommitStep, ZenonT(90)
  <1>6. TypeOK'
    <2>1. EntryOf(r) \in Entry
      BY <1>2, <1>3 DEF EntryOf, Entry, Session
    <2>2. audit' \in Seq(Entry)
      BY <1>1, <2>1 DEF IInv, TypeOK
    <2>3. documents' \subseteq Document
      BY <1>1 DEF IInv, TypeOK
    <2> QED
      BY <1>5, <2>2, <2>3 DEF TypeOK
  <1>7. documents' \subseteq documents /\ \A d \in documents' : d.id \in Request /\ d.id # x
    BY <1>1 DEF IInv, TypeOK, Document
  <1>8. DocumentsAreWhole'
    <2>1. ASSUME NEW d \in documents'
          PROVE  \E q \in Request, v \in Worker :
                    ChunksOf(d.id)' = [document : {d.id}, index : 0 .. Pieces[d.content][v] - 1,
                                       worker : {v}, by : {q}]
      <3>1. d \in documents /\ ChunksOf(d.id)' = ChunksOf(d.id)
        BY <1>5, <1>7
      <3> QED
        BY <3>1 DEF IInv, DocumentsAreWhole
    <2>2. ASSUME NEW p \in chunks' PROVE \E d \in documents' : d.id = p.document
      <3>1. p \in chunks /\ p.document # x
        BY <1>1 DEF ChunksOf
      <3> QED
        BY <1>1, <3>1 DEF IInv, DocumentsAreWhole
    <2> QED
      BY <2>1, <2>2 DEF DocumentsAreWhole, ChunksOf
  <1>9. Settled' /\ Keys'
    BY <1>5, <1>7 DEF IInv, Settled, Keys
  <1>10. ASSUME NEW q \in Request \ {r} PROVE Knows(q)' /\ Reserves(q)'
    <2>1. req'[q] = req[q] /\ req[q] \in Session /\ Knows(q) /\ Reserves(q)
      BY <1>5 DEF IInv, TypeOK
    <2>2. Knows(q)'
      BY <1>5, <1>7, <2>1 DEF Knows, Session
    <2>3. Reserves(q)'
      <3> SUFFICES ASSUME req[q].op = "create", req[q].phase \in InsertPhase
                   PROVE  /\ FreshContent(q)'
                          /\ \A t \in Inserting(req[q].content)' : t = q
        BY <2>1 DEF Reserves
      <3>1. FreshContent(q) /\ \A t \in Inserting(req[q].content) : t = q
        BY <2>1 DEF Reserves
      <3>2. \A t \in Inserting(req[q].content)' : t \in Inserting(req[q].content)
        <4>1. req'[r].phase = "done"
          BY <1>5 DEF Done
        <4> QED
          BY <1>5, <2>1, <4>1 DEF Inserting
      <3> QED
        BY <1>7, <2>1, <3>1, <3>2 DEF FreshContent, IsStored
    <2> QED
      BY <2>2, <2>3
  <1> QED
    BY <1>5, <1>6, <1>8, <1>9, <1>10 DEF IInv

\* Every step keeps the invariant.
LEMMA NextKeepsIInv == IInv /\ [Next]_vars => IInv'
  <1> SUFFICES ASSUME IInv, [Next]_vars PROVE IInv'
    OBVIOUS
  <1>1. CASE UNCHANGED vars
    <2>1. UNCHANGED <<documents, chunks, audit, req>>
      BY <1>1 DEF vars
    <2>2. TypeOK' /\ DocumentsAreWhole'
      BY <2>1 DEF IInv, TypeOK, DocumentsAreWhole, ChunksOf
    <2>3. Settled' /\ Keys' /\ Apart'
      BY <2>1 DEF IInv, Settled, Keys, Apart, Done
    <2>4. ASSUME NEW r \in Request PROVE Knows(r)' /\ Reserves(r)' /\ Replaces(r)'
      <3>1. Knows(r)'
        BY <2>1 DEF IInv, Knows, Done
      <3>2. Reserves(r)'
        BY <2>1 DEF IInv, Reserves, FreshContent, IsStored, Inserting
      <3>3. Replaces(r)'
        BY <2>1 DEF IInv, Replaces, ChunksOf, Done
      <3> QED
        BY <3>1, <3>2, <3>3
    <2> QED
      BY <2>2, <2>3, <2>4 DEF IInv
  <1>2. ASSUME NEW r \in Request, NEW c \in Content, NEW w \in Worker, CheckContent(r, c, w)
        PROVE  IInv'
    <2>1. req[r].phase = "idle" /\ ~Done(r) /\ UNCHANGED <<documents, chunks, audit>>
      BY <1>2 DEF CheckContent, Done
    <2>2. CASE Finish(r)
      BY <2>1, <2>2, FinishKeepsIInv
    <2>3. CASE req' = [req EXCEPT ![r].phase = "checked", ![r].op = "create",
                                  ![r].content = c, ![r].worker = w]
      <3>1. req[r] \in Session /\ req[r].document = r
        BY <2>1 DEF IInv, TypeOK, Knows
      <3>2. req' = [req EXCEPT ![r].phase = "checked", ![r].op = "create", ![r].document = r,
                               ![r].content = c, ![r].worker = w]
        <4> DEFINE s == [req[r] EXCEPT !.phase = "checked", !.op = "create",
                                       !.content = c, !.worker = w]
                   t == [req[r] EXCEPT !.phase = "checked", !.op = "create", !.document = r,
                                       !.content = c, !.worker = w]
        <4>1. s = t
          BY <3>1 DEF Session
        <4>2. req' = [req EXCEPT ![r] = s]
          BY <2>3 DEF IInv, TypeOK
        <4>3. [req EXCEPT ![r] = t]
                = [req EXCEPT ![r].phase = "checked", ![r].op = "create", ![r].document = r,
                              ![r].content = c, ![r].worker = w]
          BY DEF IInv, TypeOK
        <4> HIDE DEF s, t
        <4> QED  BY <4>1, <4>2, <4>3
      <3> QED
        BY <2>1, <3>2, BeginKeepsIInv
    <2> QED
      BY <1>2, <2>2, <2>3 DEF CheckContent
  <1>3. ASSUME NEW r \in Request, InsertDocument(r) PROVE IInv'
    BY <1>3, InsertDocumentKeepsIInv
  <1>4. ASSUME NEW r \in Request,
               InsertRefused(r) \/ Reject(r) \/ EmbeddingFails(r) \/ IndexRefused(r) \/ Abort(r)
        PROVE  IInv'
    <2>1. Finish(r) /\ ~Done(r) /\ UNCHANGED <<documents, chunks, audit>>
      BY <1>4 DEF InsertRefused, Reject, EmbeddingFails, IndexRefused, Abort, Done
    <2> QED
      BY <2>1, FinishKeepsIInv
  <1>5. ASSUME NEW r \in Request, NEW d \in documents, NEW w \in Worker,
               LoadForReindex(r, d, w)
        PROVE  IInv'
    <2>1. PICK x \in Request, c \in Content : d = [id |-> x, content |-> c]
      BY DEF IInv, TypeOK, Document
    <2>2. d.id = x /\ d.content = c
      BY <2>1
    <2>3. /\ req[r].phase = "idle"
          /\ req' = [req EXCEPT ![r].phase = "embedding", ![r].op = "reindex",
                                ![r].document = x, ![r].content = c, ![r].worker = w]
          /\ UNCHANGED <<documents, chunks, audit>>
      BY <1>5, <2>2 DEF LoadForReindex
    <2> QED
      BY <2>1, <2>3, BeginKeepsIInv
  <1>6. ASSUME NEW r \in Request, NEW d \in documents, NEW w \in Worker,
               LoadForDelete(r, d, w)
        PROVE  IInv'
    <2>1. PICK x \in Request, c \in Content : d = [id |-> x, content |-> c]
      BY DEF IInv, TypeOK, Document
    <2>2. d.id = x /\ d.content = c
      BY <2>1
    <2>3. /\ req[r].phase = "idle"
          /\ req' = [req EXCEPT ![r].phase = "loaded", ![r].op = "delete",
                                ![r].document = x, ![r].content = c, ![r].worker = w]
          /\ UNCHANGED <<documents, chunks, audit>>
      BY <1>6, <2>2 DEF LoadForDelete
    <2> QED
      BY <2>1, <2>3, BeginKeepsIInv
  <1>7. ASSUME NEW r \in Request, BeginDelete(r) PROVE IInv'
    BY <1>7, BeginDeleteKeepsIInv
  <1>8. ASSUME NEW r \in Request, DeleteChunks(r) PROVE IInv'
    BY <1>8, DeleteChunksKeepsIInv
  <1>9. ASSUME NEW r \in Request, CommitIndex(r) PROVE IInv'
    BY <1>9, CommitIndexKeepsIInv
  <1>10. ASSUME NEW r \in Request, CommitDelete(r) PROVE IInv'
    BY <1>10, CommitDeleteKeepsIInv
  <1> QED
    BY <1>1, <1>2, <1>3, <1>4, <1>5, <1>6, <1>7, <1>8, <1>9, <1>10 DEF Next
-----------------------------------------------------------------------------
\* The chunks of every document are those of one indexing, and there are no others,
\* whatever reindexings and deletions of it overlap and whichever of them fail.
THEOREM WholeDocuments == Spec => [](TypeOK /\ DocumentsAreWhole)
  <1>1. IInv => TypeOK /\ DocumentsAreWhole
    BY DEF IInv
  <1> QED
    BY <1>1, InitIInv, NextKeepsIInv, PTL DEF Spec
-----------------------------------------------------------------------------
\* The documents as the corpus knows them.
View(d) == [document |-> d.id, content |-> d.content, passages |-> ChunksOf(d.id)]

Held == {View(d) : d \in documents}

\* Held, before a step and after it, is the views of the documents, which differ.
LEMMA Views ==
    /\ \A f : f \in Held <=> \E d \in documents : f = View(d)
    /\ \A f : f \in Held' <=> \E d \in documents' : f = View(d)'
    /\ \A d, e : View(d) = View(e) => d.id = e.id
  <1>1. \A d, e : View(d) = View(e) => d.id = e.id
    BY DEF View
  <1> QED
    BY <1>1 DEF Held

\* The passages of one indexing are whole.
LEMMA IndexingIsWhole ==
    ASSUME NEW x, NEW n \in Nat \ {0}, NEW w, NEW r
    PROVE  Promise!Whole([document : {x}, index : 0 .. n - 1, worker : {w}, by : {r}])
  <1> PICK S : S = [document : {x}, index : 0 .. n - 1, worker : {w}, by : {r}]
    OBVIOUS
  <1>1. [document |-> x, index |-> 0, worker |-> w, by |-> r] \in S
    <2>1. 0 \in 0 .. n - 1
      OBVIOUS
    <2> QED
      BY <2>1
  <1>2. \A p, q \in S : p.worker = q.worker
    OBVIOUS
  <1>3. ASSUME NEW p \in S, NEW k \in 0 .. p.index PROVE \E q \in S : q.index = k
    <2>1. p.index \in 0 .. n - 1
      OBVIOUS
    <2>2. k \in 0 .. n - 1
      BY <2>1
    <2>3. [document |-> x, index |-> k, worker |-> w, by |-> r] \in S
      BY <2>2
    <2> QED
      BY <2>3
  <1> QED
    BY <1>1, <1>2, <1>3 DEF Promise!Whole

\* A commit of an indexing adds a document or reindexes one.
LEMMA CommitIndexImplements ==
    ASSUME IInv, NEW r \in Request, CommitIndex(r)
    PROVE  Promise!Next
  <1> PICK x, c, w : x = req[r].document /\ c = req[r].content /\ w = req[r].worker
    OBVIOUS
  <1> PICK new : new = NewChunks(r)
    OBVIOUS
  <1> PICK e : e = [document |-> x, content |-> c, passages |-> new]
    OBVIOUS
  <1>1. /\ req[r] \in Session /\ Knows(r) /\ Reserves(r)
        /\ req[r].phase = "replacing" /\ HasDocument(r)
        /\ documents' = documents \cup Created(r)
    BY DEF IInv, TypeOK, CommitIndex
  <1>2. /\ x \in Request /\ c \in Content /\ w \in Worker /\ Pieces[c][w] \in Nat \ {0}
        /\ req[r].op \in {"create", "reindex"}
    BY <1>1, PiecesAssumption DEF Session, Knows, InsertPhase
  <1>3. /\ ChunksOf(x)' = new
        /\ \A y \in Request \ {x} : ChunksOf(y)' = ChunksOf(y)
    BY CommitIndexKeepsIInv
  <1>4. Promise!Whole(new)
    BY <1>2, IndexingIsWhole DEF NewChunks
  <1>5. \A d \in documents : d.id \in Request /\ d.content \in Content
    BY DEF IInv, TypeOK, Document
  <1>6. \A d \in documents : d.id # x => View(d)' = View(d)
    BY <1>3, <1>5 DEF View
  <1>7. CASE req[r].op = "create"
    <2>1. x = r /\ Created(r) = {[id |-> x, content |-> c]}
      BY <1>1, <1>7 DEF Knows, Created
    <2>2. \A d \in documents : d.id # x /\ d.content # c
      BY <1>1, <1>7, <2>1 DEF IInv, Settled, Done, Reserves, FreshContent, IsStored, InsertPhase
    <2>3. Held' = Held \cup {e}
      <3>1. PICK d : d = [id |-> x, content |-> c]
        OBVIOUS
      <3>2. View(d)' = e /\ documents' = documents \cup {d}
        BY <1>1, <1>3, <2>1, <3>1 DEF View
      <3>3. \A f \in documents : View(f)' = View(f)
        BY <1>6, <2>2
      <3> QED
        BY <3>2, <3>3, Views
    <2>4. \A f \in Held : f.document # e.document /\ f.content # e.content
      BY <2>2 DEF Held, View
    <2>5. e \in Held' \ Held /\ e.passages = new
      BY <2>3, <2>4
    <2>6. Promise!Add
      BY <1>4, <2>3, <2>4, <2>5 DEF Promise!Add, Held, View
    <2> QED
      BY <2>6 DEF Promise!Next
  <1>8. CASE req[r].op = "reindex"
    <2>1. documents' = documents
      BY <1>1, <1>8 DEF Created
    <2>2. PICK d \in documents : d.id = x
      BY <1>1, <1>8 DEF HasDocument
    <2>3. d.content = c
      BY <1>1, <1>8, <2>2 DEF Knows
    <2>4. \A f \in documents : f.id = x => f = d
      BY <2>2 DEF IInv, Keys
    <2>5. View(d)' = e
      BY <1>3, <2>2, <2>3 DEF View
    <2>6. Held' = (Held \ {View(d)}) \cup {e}
      <3>1. \A f \in documents : f # d => View(f)' = View(f) /\ View(f) # View(d)
        BY <1>6, <2>2, <2>4, Views
      <3> QED
        BY <2>1, <2>5, <3>1, Views
    <2>7. /\ View(d) \in Held /\ e \in Held'
          /\ e.document = View(d).document /\ e.content = View(d).content /\ e.passages = new
      BY <2>2, <2>3, <2>6 DEF Held, View
    <2>8. Promise!Reindex
      BY <1>4, <2>6, <2>7 DEF Promise!Reindex, Held, View
    <2> QED
      BY <2>8 DEF Promise!Next
  <1> QED
    BY <1>2, <1>7, <1>8

\* A commit of a deletion removes a document or finds it removed.
LEMMA CommitDeleteImplements ==
    ASSUME IInv, NEW r \in Request, CommitDelete(r)
    PROVE  Promise!Next \/ Held' = Held
  <1> PICK x : x = req[r].document
    OBVIOUS
  <1>1. documents' = {d \in documents : d.id # x}
    BY DEF CommitDelete
  <1>2. \A y \in Request \ {x} : ChunksOf(y)' = ChunksOf(y)
    BY CommitDeleteKeepsIInv
  <1>3. \A d \in documents : d.id # x => View(d)' = View(d)
    BY <1>2 DEF View, IInv, TypeOK, Document
  <1>4. CASE \E d \in documents : d.id = x
    <2>1. PICK d \in documents : d.id = x
      BY <1>4
    <2>2. \A f \in documents : f.id = x => f = d
      BY <2>1 DEF IInv, Keys
    <2>3. Held' = Held \ {View(d)}
      <3>1. \A f \in documents : f # d => View(f)' = View(f) /\ View(f) # View(d)
        BY <1>3, <2>1, <2>2, Views
      <3>2. documents' = documents \ {d}
        BY <1>1, <2>1, <2>2
      <3> QED
        BY <3>1, <3>2, Views
    <2>4. Promise!Remove
      BY <2>1, <2>3 DEF Promise!Remove, Held, View
    <2> QED
      BY <2>4 DEF Promise!Next
  <1>5. CASE \A d \in documents : d.id # x
    BY <1>1, <1>3, <1>5 DEF Held
  <1> QED
    BY <1>4, <1>5

\* Every step is one of the corpus, or changes nothing of it.
LEMMA StepImplements == IInv /\ [Next]_vars => Promise!Next \/ Held' = Held
  <1> SUFFICES ASSUME IInv, [Next]_vars PROVE Promise!Next \/ Held' = Held
    OBVIOUS
  <1>1. CASE UNCHANGED <<documents, chunks>>
    BY <1>1 DEF Held, View, ChunksOf
  <1>2. ASSUME NEW r \in Request, CommitIndex(r) PROVE Promise!Next
    BY <1>2, CommitIndexImplements
  <1>3. ASSUME NEW r \in Request, CommitDelete(r) PROVE Promise!Next \/ Held' = Held
    BY <1>3, CommitDeleteImplements
  <1>4. ASSUME NEW r \in Request, NEW c \in Content, NEW w \in Worker, CheckContent(r, c, w)
        PROVE  UNCHANGED <<documents, chunks>>
    BY <1>4 DEF CheckContent
  <1>5. ASSUME NEW r \in Request, NEW d \in documents, NEW w \in Worker,
               LoadForReindex(r, d, w) \/ LoadForDelete(r, d, w)
        PROVE  UNCHANGED <<documents, chunks>>
    BY <1>5 DEF LoadForReindex, LoadForDelete
  <1>6. ASSUME NEW r \in Request, InsertDocument(r) \/ InsertRefused(r) \/ Reject(r) \/ EmbeddingFails(r)
        PROVE  UNCHANGED <<documents, chunks>>
    BY <1>6 DEF InsertDocument, InsertRefused, Reject, EmbeddingFails
  <1>7. ASSUME NEW r \in Request, BeginDelete(r) \/ DeleteChunks(r) \/ IndexRefused(r) \/ Abort(r)
        PROVE  UNCHANGED <<documents, chunks>>
    BY <1>7 DEF BeginDelete, DeleteChunks, IndexRefused, Abort
  <1>8. CASE UNCHANGED vars
    BY <1>8, <1>1 DEF vars
  <1>9. CASE Next
    BY <1>9, <1>1, <1>2, <1>3, <1>4, <1>5, <1>6, <1>7 DEF Next
  <1> QED
    BY <1>8, <1>9

\* The knowledge base is a corpus of whole documents of different contents, each
\* replaced at once or not at all, for any requests, workers and chunk sizes.
THEOREM KnowledgeImplementsCorpus == Spec => ImplementsCorpus
  <1>1. Init => Promise!Init
    BY DEF Init, Promise!Init
  <1>2. IInv /\ [Next]_vars => [Promise!Next]_Held
    BY StepImplements
  <1>3. Spec => []IInv
    BY InitIInv, NextKeepsIInv, PTL DEF Spec
  <1> QED
    BY <1>1, <1>2, <1>3, PTL DEF Spec, ImplementsCorpus, Promise!Spec, Held, View
-----------------------------------------------------------------------------
(***************************************************************************)
(* The audit trail.                                                        *)
(***************************************************************************)
\* A commit that changes one document and records what it became.
LEMMA AuditStep ==
    ASSUME IInv, AuditTellsTheCorpus, NEW e \in Entry, audit' = Append(audit, e),
           ShowsIn(e)', documents' \subseteq Document,
           \A x \in Request \ {e.document} :
              /\ ChunksOf(x)' = ChunksOf(x)
              /\ (\E d \in documents' : d.id = x) <=> (\E d \in documents : d.id = x)
    PROVE  AuditTellsTheCorpus'
  <1> PICK n \in Nat : n = Len(audit)
    BY DEF IInv, TypeOK
  <1>1. audit \in Seq(Entry)
    BY DEF IInv, TypeOK
  <1>2. Len(audit') = n + 1 /\ audit'[n + 1] = e
    BY <1>1, AppendProperties
  <1>3. \A k \in 1..n : audit'[k] = audit[k] /\ audit[k] \in Entry
    <2>1. \A k \in 1..n : audit[k] \in Entry
      BY <1>1, ElementOfSeq
    <2>2. \A k \in 1..n : Append(audit, e)[k] = audit[k]
      BY <1>1, AppendProperties
    <2> QED BY <2>1, <2>2
  <1>4. ASSUME NEW k \in 1..(n + 1), NEW last, last = audit'[k],
               \A j \in (k + 1)..(n + 1) : audit'[j].document # last.document
        PROVE  ShowsIn(last)'
    <2>1. CASE k = n + 1
      BY <1>2, <1>4, <2>1
    <2>2. CASE k # n + 1
      <3>1. k \in 1..n /\ n + 1 \in (k + 1)..(n + 1)
        BY <2>2
      <3>2. last = audit[k] /\ last \in Entry
        BY <1>3, <1>4, <3>1
      <3>3. last.document # e.document /\ last.document \in Request
        BY <1>2, <1>4, <3>1, <3>2 DEF Entry
      <3>4. ASSUME NEW j \in (k + 1)..n PROVE audit[j].document # last.document
        <4>1. j \in (k + 1)..(n + 1) /\ j \in 1..n
          BY <3>1, <3>4
        <4>2. audit'[j].document # last.document
          BY <1>4, <4>1
        <4> QED BY <1>3, <4>1, <4>2
      <3>5. ShowsIn(last)
        BY <3>1, <3>2, <3>4 DEF AuditTellsTheCorpus
      <3>6. /\ ChunksOf(last.document)' = ChunksOf(last.document)
            /\ (\E d \in documents' : d.id = last.document)
                 <=> (\E d \in documents : d.id = last.document)
        BY <3>3
      <3> QED BY <3>5, <3>6 DEF ShowsIn
    <2> QED BY <2>1, <2>2
  <1>5. ASSUME NEW d \in documents'
        PROVE  \E k \in 1..(n + 1) : audit'[k].document = d.id
    <2>1. CASE d.id = e.document
      BY <1>2, <2>1
    <2>2. CASE d.id # e.document
      <3>1. d.id \in Request
        BY <1>5 DEF Document
      <3>2. PICK f \in documents : f.id = d.id
        BY <1>5, <2>2, <3>1
      <3>3. PICK k \in 1..n : audit[k].document = f.id
        BY <3>2 DEF AuditTellsTheCorpus
      <3>4. k \in 1..(n + 1)
        OBVIOUS
      <3> QED BY <1>3, <3>2, <3>3, <3>4
    <2> QED BY <2>1, <2>2
  <1>6. ASSUME NEW k \in 1..(n + 1),
               \A j \in (k + 1)..(n + 1) : audit'[j].document # audit'[k].document
        PROVE  ShowsIn(audit[k])'
    <2> PICK last : last = audit'[k]
      OBVIOUS
    <2>1. ShowsIn(last)'
      BY <1>4, <1>6
    <2> QED BY <2>1 DEF ShowsIn
  <1> QED BY <1>2, <1>5, <1>6 DEF AuditTellsTheCorpus

\* An indexing leaves the document with the chunks its entry counts.
LEMMA CommitIndexIsAudited ==
    ASSUME IInv, AuditTellsTheCorpus, NEW r \in Request, CommitIndex(r)
    PROVE  AuditTellsTheCorpus'
  <1> PICK x, c, w, e : /\ x = req[r].document /\ c = req[r].content
                        /\ w = req[r].worker /\ e = EntryOf(r)
    OBVIOUS
  <1>1. /\ req[r] \in Session /\ Knows(r) /\ req[r].phase = "replacing" /\ HasDocument(r)
        /\ documents' = documents \cup Created(r) /\ audit' = Append(audit, e)
    BY DEF IInv, TypeOK, CommitIndex
  <1>2. /\ x \in Request /\ c \in Content /\ w \in Worker /\ Pieces[c][w] \in Nat \ {0}
        /\ req[r].op \in {"create", "reindex"}
    BY <1>1, PiecesAssumption DEF Session, Knows, InsertPhase
  <1>3. /\ ChunksOf(x)' = [document : {x}, index : 0 .. Pieces[c][w] - 1,
                           worker : {w}, by : {r}]
        /\ \A y \in Request \ {x} : ChunksOf(y)' = ChunksOf(y)
    BY CommitIndexKeepsIInv DEF NewChunks
  <1>4. /\ e \in Entry /\ e.document = x /\ e.worker = w /\ e.chunks = Pieces[c][w]
        /\ e.action # "delete"
    BY <1>2 DEF EntryOf, Entry
  <1>5. /\ \A d \in Created(r) : d.id = x
        /\ \E d \in documents' : d.id = x
    <2>1. CASE req[r].op = "create"
      <3>1. x = r /\ Created(r) = {[id |-> r, content |-> c]}
        BY <1>1, <2>1 DEF Created, Knows
      <3>2. [id |-> r, content |-> c] \in documents'
        BY <1>1, <3>1
      <3>3. [id |-> r, content |-> c].id = x
        BY <3>1
      <3>4. \A d \in Created(r) : d.id = x
        BY <3>1
      <3>5. \E d \in documents' : d.id = x
        BY <3>2, <3>3
      <3> QED BY <3>4, <3>5
    <2>2. CASE req[r].op # "create"
      BY <1>1, <2>2 DEF Created, HasDocument
    <2> QED BY <2>1, <2>2
  <1>6. documents' \subseteq Document
    BY <1>1, <1>2 DEF Created, Document, IInv, TypeOK
  <1>7. \A y \in Request \ {x} :
          (\E d \in documents' : d.id = y) <=> (\E d \in documents : d.id = y)
    BY <1>1, <1>5
  <1>8. ShowsIn(e)'
    <2> PICK S : S = [document : {x}, index : 0 .. Pieces[c][w] - 1, worker : {w}, by : {r}]
      OBVIOUS
    <2>1. \A p \in S : p.worker = w /\ p.index \in 0 .. Pieces[c][w] - 1
      OBVIOUS
    <2>2. \A k \in 0 .. Pieces[c][w] - 1 : \E p \in S : p.index = k
      <3>1. \A k \in 0 .. Pieces[c][w] - 1 :
              [document |-> x, index |-> k, worker |-> w, by |-> r] \in S
        OBVIOUS
      <3> QED BY <3>1
    <2>3. ChunksOf(x)' = S
      BY <1>3
    <2>4. /\ \A p \in ChunksOf(x)' : p.worker = e.worker /\ p.index \in 0 .. e.chunks - 1
          /\ \A k \in 0 .. e.chunks - 1 : \E p \in ChunksOf(x)' : p.index = k
      BY <1>4, <2>1, <2>2, <2>3
    <2> QED BY <1>4, <1>5, <2>4, Zenon DEF ShowsIn
  <1> QED BY <1>1, <1>3, <1>4, <1>6, <1>7, <1>8, AuditStep

\* A deletion leaves nothing of the document.
LEMMA CommitDeleteIsAudited ==
    ASSUME IInv, AuditTellsTheCorpus, NEW r \in Request, CommitDelete(r)
    PROVE  AuditTellsTheCorpus'
  <1> PICK x, e : x = req[r].document /\ e = EntryOf(r)
    OBVIOUS
  <1>1. /\ req[r] \in Session /\ req[r].op = "delete" /\ x \in Request
        /\ req[r].content \in Content /\ req[r].worker \in Worker
    BY DEF IInv, TypeOK, Knows, CommitDelete, Session
  <1>2. /\ e \in Entry /\ e.document = x /\ e.action = "delete"
    BY <1>1, PiecesAssumption DEF EntryOf, Entry
  <1>3. /\ documents' = {d \in documents : d.id # x} /\ audit' = Append(audit, e)
        /\ chunks' = chunks \ ChunksOf(x)
    BY DEF CommitDelete
  <1>4. \A y \in Request \ {x} : ChunksOf(y)' = ChunksOf(y)
    BY CommitDeleteKeepsIInv
  <1>5. ChunksOf(x)' = {} /\ documents' \subseteq Document
    BY <1>3 DEF ChunksOf, IInv, TypeOK
  <1>6. ShowsIn(e)'
    BY <1>2, <1>3, <1>5 DEF ShowsIn
  <1>7. \A y \in Request \ {x} :
          (\E d \in documents' : d.id = y) <=> (\E d \in documents : d.id = y)
    BY <1>3
  <1> QED BY <1>2, <1>3, <1>4, <1>5, <1>6, <1>7, AuditStep

\* Nothing else changes the corpus or the trail.
LEMMA CorpusChanges ==
    ASSUME [Next]_vars, ~UNCHANGED <<documents, chunks, audit>>
    PROVE  \E r \in Request : CommitIndex(r) \/ CommitDelete(r)
  <1>1. ASSUME NEW r, NEW c, NEW d, NEW w,
               \/ CheckContent(r, c, w) \/ InsertDocument(r) \/ InsertRefused(r)
               \/ LoadForReindex(r, d, w) \/ LoadForDelete(r, d, w) \/ Reject(r)
               \/ EmbeddingFails(r) \/ BeginDelete(r) \/ DeleteChunks(r)
               \/ IndexRefused(r) \/ Abort(r)
        PROVE  FALSE
    BY <1>1 DEF CheckContent, InsertDocument, InsertRefused, LoadForReindex, LoadForDelete,
                Reject, EmbeddingFails, BeginDelete, DeleteChunks, IndexRefused, Abort
  <1> QED BY <1>1 DEF Next, vars

\* A document is there unless the last entry about it is its deletion, and has the
\* chunks that entry counts, whatever reindexings and deletions of it overlap.
THEOREM TrailTellsTheCorpus == Spec => []AuditTellsTheCorpus
  <1>1. Init => AuditTellsTheCorpus
    BY DEF Init, AuditTellsTheCorpus
  <1>2. IInv /\ AuditTellsTheCorpus /\ [Next]_vars => AuditTellsTheCorpus'
    <2> SUFFICES ASSUME IInv, AuditTellsTheCorpus, [Next]_vars PROVE AuditTellsTheCorpus'
      OBVIOUS
    <2>1. CASE UNCHANGED <<documents, chunks, audit>>
      BY <2>1 DEF AuditTellsTheCorpus, ShowsIn, ChunksOf
    <2> QED BY <2>1, CorpusChanges, CommitIndexIsAudited, CommitDeleteIsAudited
  <1> QED
    BY <1>1, <1>2, InitIInv, NextKeepsIInv, PTL DEF Spec
-----------------------------------------------------------------------------
(***************************************************************************)
(* The passages of a text.  No character is lost and no passage lies       *)
(* inside another, for every text, every passage size and every overlap.   *)
(***************************************************************************)
\* A set of natural numbers that is not empty has a least member.
LEMMA LeastExists ==
    ASSUME NEW S \in SUBSET Nat, S # {}
    PROVE  \E i \in S : \A j \in S : i <= j
  <1> DEFINE Below == OpToRel(<, Nat)
  <1>1. IsWellFoundedOn(Below, Nat)
    BY NatLessThanWellFounded
  <1>2. \A x, y \in Nat : x < y => <<x, y>> \in Below
    BY DEF OpToRel
  <1> HIDE DEF Below
  <1>3. PICK i \in S : \A j \in S : ~ (<<j, i>> \in Below)
    BY <1>1, WFMin
  <1>4. \A j \in S : ~ (j < i)
    BY <1>2, <1>3
  <1> QED  BY <1>4

LEMMA FirstIsLeast ==
    ASSUME NEW S \in SUBSET Nat, S # {}
    PROVE  First(S) \in S /\ \A i \in S : First(S) <= i
  BY LeastExists DEF First

\* When it is bounded it has a greatest one: the least of its mirror image.
LEMMA LastIsGreatest ==
    ASSUME NEW b \in Nat, NEW S \in SUBSET (0..b), S # {}
    PROVE  Last(S) \in S /\ \A i \in S : i <= Last(S)
  <1> DEFINE Mirror == {b - i : i \in S}
  <1>1. Mirror \in SUBSET Nat
    OBVIOUS
  <1>2. Mirror # {}
    OBVIOUS
  <1>3. PICK m \in Mirror : \A n \in Mirror : m <= n
    <2> HIDE DEF Mirror
    <2> QED  BY <1>1, <1>2, LeastExists
  <1>4. PICK i \in S : m = b - i
    OBVIOUS
  <1>5. ASSUME NEW j \in S
        PROVE  j <= i
    <2>1. b - j \in Mirror
      OBVIOUS
    <2>2. m <= b - j
      BY <1>3, <2>1
    <2> QED  BY <1>4, <2>2
  <1>6. \E k \in S : \A j \in S : j <= k
    BY <1>5
  <1> QED  BY <1>6 DEF Last

-----------------------------------------------------------------------------
\* A boundary lies behind the first 65% of what was read, and not beyond it.
LEMMA BoundaryIsInTheWindow ==
    ASSUME NEW t, Len(t) \in Nat, NEW from \in Nat, NEW hard \in Nat,
           from < hard, hard <= Len(t)
    PROVE  /\ Boundary(t, from, hard) \in (from + 1)..hard
           /\ \/ Boundary(t, from, hard) = hard
              \/ Boundary(t, from, hard) > WindowStart(from, hard)
  <1> DEFINE w == WindowStart(from, hard)
  <1>1. w \in Nat /\ w > from
    BY DEF WindowStart, Larger
  <1> DEFINE P == ParagraphEnds(t, w, hard)
             Q == SentenceEnds(t, w, hard)
             B == BlankEnds(t, w, hard)
  <1>2. P \in SUBSET (0..hard) /\ \A e \in P : e \in (w + 1)..hard
    BY <1>1 DEF ParagraphEnds
  <1>3. Q \in SUBSET (0..hard) /\ \A e \in Q : e \in (w + 1)..hard
    BY <1>1 DEF SentenceEnds
  <1>4. B \in SUBSET (0..hard) /\ \A e \in B : e \in (w + 1)..hard
    BY <1>1 DEF BlankEnds
  <1>5. Boundary(t, from, hard) = IF P # {} THEN Last(P) ELSE IF Q # {} THEN Last(Q)
                                  ELSE IF B # {} THEN Last(B) ELSE hard
    BY DEF Boundary
  <1> HIDE DEF P, Q, B, w
  <1>6. P # {} => Last(P) \in P
    BY <1>2, LastIsGreatest
  <1>7. Q # {} => Last(Q) \in Q
    BY <1>3, LastIsGreatest
  <1>8. B # {} => Last(B) \in B
    BY <1>4, LastIsGreatest
  <1>9. \/ Boundary(t, from, hard) = hard
        \/ Boundary(t, from, hard) \in (w + 1)..hard
    BY <1>2, <1>3, <1>4, <1>5, <1>6, <1>7, <1>8
  <1> QED  BY <1>1, <1>9 DEF w

\* So a passage ends behind its start, and before the end of the text only behind
\* 65% of its size.
LEMMA PassageEnds ==
    ASSUME NEW t, Len(t) \in Nat, NEW size \in Nat \ {0}, NEW from \in Nat, from < Len(t)
    PROVE  /\ ChunkEnd(t, size, from) \in (from + 1)..Len(t)
           /\ \/ ChunkEnd(t, size, from) = Len(t)
              \/ 20 * (ChunkEnd(t, size, from) - from) > 13 * size
  <1> DEFINE hard == Smaller(from + size, Len(t))
  <1>1. hard \in Nat /\ from < hard /\ hard <= Len(t)
    BY DEF Smaller
  <1>2. CASE hard = Len(t)
    BY <1>1, <1>2 DEF ChunkEnd
  <1>3. CASE hard # Len(t)
    <2>1. hard = from + size
      BY <1>3 DEF Smaller
    <2>2. ChunkEnd(t, size, from) = Boundary(t, from, hard)
      BY <1>3 DEF ChunkEnd
    <2> DEFINE end == Boundary(t, from, hard)
    <2>3. /\ end \in (from + 1)..hard
          /\ end = hard \/ end > WindowStart(from, hard)
      BY <1>1, BoundaryIsInTheWindow
    <2>4. WindowStart(from, hard) \in Nat /\ 20 * (WindowStart(from, hard) + 1 - from) > 13 * size
      BY <2>1 DEF WindowStart, Larger
    <2> HIDE DEF end, hard
    <2>5. 20 * (end - from) > 13 * size
      BY <1>1, <2>1, <2>3, <2>4
    <2> QED  BY <1>1, <2>2, <2>3, <2>5 DEF end
  <1> QED  BY <1>2, <1>3

-----------------------------------------------------------------------------
\* The place up to which the text is split.
Reached == IF ends = <<>> THEN 0 ELSE ends[Len(ends)]

\* Every character up to a place is in a passage,
Found(upto) ==
    \A i \in 1..upto : ~BlankAt(text, i) =>
        \E k \in DOMAIN passages : Inside(i, i, passages[k])

\* and so is everything no longer than the overlap.
Whole(upto) ==
    \A i, j \in 1..upto :
        (i <= j /\ j - i < Lap /\ ~BlankAt(text, i) /\ ~BlankAt(text, j)) =>
            \E k \in DOMAIN passages : Inside(i, j, passages[k])

Rising == \A k \in 1..(Len(ends) - 1) : ends[k] < ends[k + 1]

TypeInv ==
    /\ phase \in Phase
    /\ shape \in Shape
    /\ Len(text) \in Nat /\ DOMAIN text = 1..Len(text)
    /\ cursor \in Nat
    /\ ends \in Seq(Nat)
    /\ passages \in Seq(Nat \X Nat)

\* The cursor never passes what is split already, and under a gentle overlap it lies
\* exactly one overlap behind it.
Inv ==
    /\ TypeInv
    /\ phase = "uploaded" => cursor = 0 /\ ends = <<>> /\ passages = <<>>
    /\ phase = "splitting" =>
        /\ cursor < Len(text) /\ cursor <= Reached /\ Reached < Len(text)
        /\ Found(Reached)
        /\ ends = <<>> => cursor = 0
        /\ Gentle => Rising /\ Whole(Reached) /\ (ends = <<>> \/ cursor = Reached - Lap)
    /\ phase = "split" => Found(Len(text)) /\ (Gentle => Rising /\ Whole(Len(text)))

LEMMA ShapeIsSound ==
    ASSUME shape \in Shape
    PROVE  Size \in Nat \ {0} /\ Lap \in Nat /\ Lap < Size
  BY IndexingAssumption DEF Size, Lap

\* What normalise returns is a sequence.
LEMMA NormalisedIsSequence ==
    ASSUME NEW t, Len(t) \in Nat, DOMAIN t = 1..Len(t)
    PROVE  Len(Normalised(t)) \in Nat /\ DOMAIN Normalised(t) = 1..Len(Normalised(t))
  <1> DEFINE kept == {i \in DOMAIN t : Survives(t, i)}
             n == Cardinality(kept)
             Nth(m) == CHOOSE i \in kept : Cardinality({j \in kept : j <= i}) = m
  <1>1. n \in Nat
    <2>1. 1 \in Int /\ Len(t) \in Int
      OBVIOUS
    <2>2. IsFiniteSet(1..Len(t))
      BY <2>1, FS_Interval, Zenon
    <2>3. kept \subseteq 1..Len(t)
      OBVIOUS
    <2> HIDE DEF kept
    <2> QED  BY <2>2, <2>3, FS_Subset, FS_CardinalityType, Zenon
  <1>2. Normalised(t) = [m \in 1..n |-> t[Nth(m)]]
    BY DEF Normalised
  <1> HIDE DEF n
  <1>3. Normalised(t) \in [1..n -> {t[Nth(m)] : m \in 1..n}]
    BY <1>2
  <1> DEFINE Chars == {t[Nth(m)] : m \in 1..n}
  <1>4. Normalised(t) \in Seq(Chars)
    <2> HIDE DEF Chars, Nth, kept
    <2> QED  BY <1>1, <1>3, SeqDef, Zenon DEF Chars
  <1> HIDE DEF Chars
  <1> QED  BY <1>4
-----------------------------------------------------------------------------
LEMMA InvInit == IndexingInit => Inv
  <1> SUFFICES ASSUME IndexingInit PROVE Inv
    OBVIOUS
  <1>1. Len(text) \in Nat /\ DOMAIN text = 1..Len(text)
    <2>1. CASE text \in Text
      BY <2>1, IndexingAssumption
    <2>2. CASE text = <<>>
      BY <2>2
    <2> QED  BY <2>1, <2>2 DEF IndexingInit
  <1>2. phase \in {"uploaded", "asking"} /\ shape \in Shape
    BY DEF IndexingInit
  <1> QED  BY <1>1, <1>2 DEF IndexingInit, Inv, TypeInv, Phase

LEMMA CleanKeepsInv == Inv /\ Clean => Inv'
  <1> SUFFICES ASSUME Inv, Clean PROVE Inv'
    OBVIOUS
  <1>1. text' = Normalised(text) /\ UNCHANGED <<shape, cursor, ends, passages>>
    BY DEF Clean
  <1>2. Len(text') \in Nat /\ DOMAIN text' = 1..Len(text')
    BY <1>1, NormalisedIsSequence DEF Inv, TypeInv
  <1>3. phase' = IF text' = <<>> THEN "failed" ELSE "splitting"
    BY DEF Clean
  <1>4. cursor = 0 /\ ends = <<>> /\ passages = <<>>
    BY DEF Inv, Clean
  <1>5. phase' \in Phase
    BY <1>3 DEF Phase
  <1>6. TypeInv'
    BY <1>1, <1>2, <1>5 DEF Inv, TypeInv
  <1>7. Reached' = 0 /\ ends' = <<>> /\ cursor' = 0
    BY <1>1, <1>4 DEF Reached
  <1>8. phase' = "splitting" => Len(text') > 0
    BY <1>2, <1>3
  <1>9. Found(Reached)' /\ Whole(Reached)' /\ Rising'
    BY <1>7 DEF Found, Whole, Rising
  <1> QED  BY <1>3, <1>6, <1>7, <1>8, <1>9 DEF Inv

\* What a round of the loop adds: a place further on, and a passage that holds
\* whatever solid there is between the cursor and that place.
LEMMA SplitAdds ==
    ASSUME Inv, Split
    PROVE  \E end \in Nat :
              /\ end \in (cursor + 1)..Len(text)
              /\ end = Len(text) \/ 20 * (end - cursor) > 13 * Size
              /\ ends' = Append(ends, end)
              /\ UNCHANGED <<text, shape>>
              /\ IF end >= Len(text) THEN phase' = "split" /\ UNCHANGED cursor
                 ELSE phase' = "splitting" /\ cursor' = NextCursor(cursor, end, Lap)
              /\ passages' \in Seq(Nat \X Nat)
              /\ \A k \in DOMAIN passages : k \in DOMAIN passages' /\ passages'[k] = passages[k]
              /\ \A i, j \in (cursor + 1)..end :
                    (i <= j /\ ~BlankAt(text, i) /\ ~BlankAt(text, j)) =>
                        \E k \in DOMAIN passages' : Inside(i, j, passages'[k])
  <1> DEFINE end == ChunkEnd(text, Size, cursor)
             solid == Solid(text, cursor, end)
  <1>1. /\ Len(text) \in Nat /\ cursor \in Nat /\ cursor < Len(text)
        /\ passages \in Seq(Nat \X Nat)
    BY DEF Inv, TypeInv, Split
  <1>2. Size \in Nat \ {0}
    BY ShapeIsSound DEF Inv, TypeInv
  <1>3. /\ end \in (cursor + 1)..Len(text)
        /\ end = Len(text) \/ 20 * (end - cursor) > 13 * Size
    BY <1>1, <1>2, PassageEnds
  <1>4. /\ ends' = Append(ends, end)
        /\ UNCHANGED <<text, shape>>
        /\ passages' = IF solid = {} THEN passages
                       ELSE Append(passages, <<First(solid), Last(solid)>>)
        /\ IF end >= Len(text) THEN phase' = "split" /\ UNCHANGED cursor
           ELSE phase' = "splitting" /\ cursor' = NextCursor(cursor, end, Lap)
    BY DEF Split
  <1> HIDE DEF end
  <1>5. end \in Nat
    BY <1>1, <1>3
  <1>6. solid \in SUBSET (0..end)
    BY <1>1, <1>5 DEF Solid
  <1>7. \A i \in (cursor + 1)..end : ~BlankAt(text, i) => i \in solid
    BY DEF Solid
  <1> HIDE DEF solid
  <1>8. CASE solid = {}
    BY <1>1, <1>3, <1>4, <1>5, <1>7, <1>8
  <1>9. CASE solid # {}
    <2>1. /\ First(solid) \in solid /\ \A i \in solid : First(solid) <= i
          /\ Last(solid) \in solid /\ \A i \in solid : i <= Last(solid)
      <3>1. solid \in SUBSET Nat
        BY <1>5, <1>6
      <3> QED  BY <1>5, <1>6, <1>9, <3>1, FirstIsLeast, LastIsGreatest
    <2>2. PICK f \in Nat, l \in Nat :
            /\ passages' = Append(passages, <<f, l>>)
            /\ \A i \in solid : f <= i /\ i <= l
      <3>1. First(solid) \in Nat /\ Last(solid) \in Nat
        <4>1. solid \subseteq Nat
          BY <1>5, <1>6
        <4> QED  BY <2>1, <4>1, Zenon
      <3> QED  BY <1>4, <1>9, <2>1, <3>1
    <2>3. passages' \in Seq(Nat \X Nat)
      BY <1>1, <2>2
    <2>4. \A k \in DOMAIN passages : k \in DOMAIN passages' /\ passages'[k] = passages[k]
      BY <1>1, <2>2
    <2>5. Len(passages) + 1 \in DOMAIN passages' /\ passages'[Len(passages) + 1] = <<f, l>>
      BY <1>1, <2>2
    <2>6. ASSUME NEW i \in (cursor + 1)..end, NEW j \in (cursor + 1)..end,
                 i <= j, ~BlankAt(text, i), ~BlankAt(text, j)
          PROVE  \E k \in DOMAIN passages' : Inside(i, j, passages'[k])
      <3>1. i \in solid /\ j \in solid
        BY <1>7, <2>6
      <3>2. f <= i /\ j <= l
        BY <2>2, <3>1
      <3>3. Inside(i, j, <<f, l>>)
        BY <3>2 DEF Inside
      <3> QED  BY <2>5, <3>3
    <2> QED  BY <1>3, <1>4, <1>5, <2>3, <2>4, <2>6
  <1> QED  BY <1>8, <1>9

LEMMA SplitKeepsInv == Inv /\ Split => Inv'
  <1> SUFFICES ASSUME Inv, Split PROVE Inv'
    OBVIOUS
  <1>1. PICK end \in Nat :
              /\ end \in (cursor + 1)..Len(text)
              /\ end = Len(text) \/ 20 * (end - cursor) > 13 * Size
              /\ ends' = Append(ends, end)
              /\ UNCHANGED <<text, shape>>
              /\ IF end >= Len(text) THEN phase' = "split" /\ UNCHANGED cursor
                 ELSE phase' = "splitting" /\ cursor' = NextCursor(cursor, end, Lap)
              /\ passages' \in Seq(Nat \X Nat)
              /\ \A k \in DOMAIN passages : k \in DOMAIN passages' /\ passages'[k] = passages[k]
              /\ \A i, j \in (cursor + 1)..end :
                    (i <= j /\ ~BlankAt(text, i) /\ ~BlankAt(text, j)) =>
                        \E k \in DOMAIN passages' : Inside(i, j, passages'[k])
    BY SplitAdds
  <1>2. /\ Size \in Nat \ {0} /\ Lap \in Nat /\ Lap < Size
        /\ Size' = Size /\ Lap' = Lap /\ Gentle' = Gentle
    BY <1>1, ShapeIsSound DEF Inv, TypeInv, Size, Lap, Gentle
  <1>3. /\ TypeInv
        /\ cursor < Len(text) /\ cursor <= Reached /\ Reached < Len(text)
        /\ Found(Reached)
        /\ ends = <<>> => cursor = 0
        /\ Gentle => Rising /\ Whole(Reached) /\ (ends = <<>> \/ cursor = Reached - Lap)
    BY DEF Inv, Split
  <1>4. /\ Len(text) \in Nat /\ cursor \in Nat /\ ends \in Seq(Nat)
        /\ passages \in Seq(Nat \X Nat) /\ Reached \in Nat
    BY <1>3 DEF TypeInv, Reached
  <1>5. Reached' = end /\ ends' # <<>> /\ ends' \in Seq(Nat)
    <2>1. /\ ends' \in Seq(Nat) /\ Len(ends') = Len(ends) + 1
          /\ ends'[Len(ends) + 1] = end
      BY <1>1, <1>4
    <2>2. ends' # <<>>
      BY <1>4, <2>1
    <2> QED  BY <2>1, <2>2 DEF Reached
  <1>6. cursor' \in Nat /\ phase' \in Phase
    BY <1>1, <1>2, <1>4 DEF NextCursor, Larger, Phase
  <1>7. TypeInv'
    BY <1>1, <1>3, <1>5, <1>6 DEF TypeInv
  <1>8. Found(end)'
    <2> SUFFICES ASSUME NEW i \in 1..end, ~BlankAt(text, i)
                 PROVE  \E k \in DOMAIN passages' : Inside(i, i, passages'[k])
      BY <1>1 DEF Found, BlankAt, Inside
    <2>1. CASE i > cursor
      <3>1. i \in (cursor + 1)..end
        BY <1>4, <2>1
      <3> QED  BY <1>1, <3>1
    <2>2. CASE i <= cursor
      <3>1. i \in 1..Reached
        BY <1>3, <1>4, <2>2
      <3>2. PICK k \in DOMAIN passages : Inside(i, i, passages[k])
        BY <1>3, <3>1 DEF Found
      <3> QED  BY <1>1, <3>2
    <2> QED  BY <1>4, <2>1, <2>2
  <1>9. Gentle => Reached < end
    <2> SUFFICES ASSUME Gentle PROVE Reached < end
      OBVIOUS
    <2>1. CASE end = Len(text)
      BY <1>3, <2>1
    <2>2. CASE 20 * (end - cursor) > 13 * Size
      <3>1. 20 * Lap <= 13 * Size
        BY DEF Gentle
      <3>2. end - cursor > Lap
        BY <1>2, <1>4, <2>2, <3>1
      <3>3. CASE ends = <<>>
        BY <1>1, <1>4, <3>3 DEF Reached
      <3>4. CASE ends # <<>>
        BY <1>2, <1>3, <1>4, <3>2, <3>4
      <3> QED  BY <3>3, <3>4
    <2> QED  BY <1>1, <2>1, <2>2
  <1>10. Gentle => Rising'
    <2> SUFFICES ASSUME Gentle, NEW k \in 1..(Len(ends') - 1) PROVE ends'[k] < ends'[k + 1]
      BY DEF Rising
    <2>1. Len(ends') = Len(ends) + 1
      BY <1>1, <1>4
    <2>2. CASE k = Len(ends)
      <3>1. ends # <<>> /\ ends'[k] = Reached /\ ends'[k + 1] = end
        BY <1>1, <1>4, <2>1, <2>2 DEF Reached
      <3> QED  BY <1>9, <3>1
    <2>3. CASE k \in 1..(Len(ends) - 1)
      <3>1. ends'[k] = ends[k] /\ ends'[k + 1] = ends[k + 1]
        BY <1>1, <1>4, <2>3
      <3> QED  BY <1>3, <2>3, <3>1 DEF Rising
    <2> QED  BY <1>4, <2>1, <2>2, <2>3
  <1>11. Gentle => Whole(end)'
    <2> SUFFICES ASSUME Gentle, NEW i \in 1..end, NEW j \in 1..end,
                        i <= j, j - i < Lap, ~BlankAt(text, i), ~BlankAt(text, j)
                 PROVE  \E k \in DOMAIN passages' : Inside(i, j, passages'[k])
      BY <1>1, <1>2 DEF Whole, BlankAt, Inside
    <2>1. CASE j <= Reached
      <3>1. i \in 1..Reached /\ j \in 1..Reached
        BY <1>4, <2>1
      <3>2. PICK k \in DOMAIN passages : Inside(i, j, passages[k])
        BY <1>3, <3>1 DEF Whole
      <3> QED  BY <1>1, <3>2
    <2>2. CASE j > Reached
      <3>1. i > cursor
        <4>1. CASE ends = <<>>
          BY <1>3, <4>1
        <4>2. CASE ends # <<>>
          BY <1>2, <1>3, <1>4, <2>2, <4>2
        <4> QED  BY <4>1, <4>2
      <3>2. i \in (cursor + 1)..end /\ j \in (cursor + 1)..end
        BY <1>4, <3>1
      <3> QED  BY <1>1, <3>2
    <2> QED  BY <1>4, <2>1, <2>2
  <1>12. CASE end >= Len(text)
    <2>1. end = Len(text) /\ phase' = "split" /\ Len(text') = end
      BY <1>1, <1>4, <1>12
    <2> QED  BY <1>2, <1>7, <1>8, <1>10, <1>11, <2>1 DEF Inv
  <1>13. CASE end < Len(text)
    <2>1. phase' = "splitting" /\ cursor' = NextCursor(cursor, end, Lap) /\ Len(text') = Len(text)
      BY <1>1, <1>4, <1>13
    <2>2. cursor' <= end
      BY <1>1, <1>2, <1>4, <2>1 DEF NextCursor, Larger
    <2>3. Gentle => cursor' = end - Lap
      <3> SUFFICES ASSUME Gentle PROVE cursor' = end - Lap
        OBVIOUS
      <3>1. 20 * Lap <= 13 * Size /\ 20 * (end - cursor) > 13 * Size
        BY <1>1, <1>13 DEF Gentle
      <3>2. end - cursor > Lap
        BY <1>2, <1>4, <3>1
      <3> QED  BY <1>2, <1>4, <2>1, <3>2 DEF NextCursor, Larger
    <2>4. cursor' < Len(text') /\ cursor' <= Reached' /\ Reached' < Len(text')
      BY <1>4, <1>5, <1>6, <1>13, <2>1, <2>2
    <2> QED  BY <1>2, <1>5, <1>7, <1>8, <1>10, <1>11, <2>1, <2>3, <2>4 DEF Inv
  <1> QED  BY <1>4, <1>12, <1>13

\* The other actions leave the split text alone, or forget it.
LEMMA RestKeepsInv ==
    ASSUME Inv, [\E p \in Provider : Configure(p)]_indexingVars \/ EmbedLocally \/ SendBatch
                \/ (\E hasKey \in BOOLEAN : Ask(hasKey)) \/ Reply \/ Retry
                \/ TakeVectors \/ TakeCompletion \/ Fail \/ Store
    PROVE  Inv'
  <1>1. CASE \E p \in Provider : Configure(p)
    <2>1. /\ phase' = "embedding" /\ text' = <<>> /\ cursor' = 0 /\ ends' = <<>>
          /\ UNCHANGED <<shape, passages>>
      BY <1>1 DEF Configure
    <2>2. TypeInv'
      BY <2>1 DEF Inv, TypeInv, Phase
    <2> QED  BY <2>1, <2>2 DEF Inv
  <1>2. CASE UNCHANGED <<phase, split>>
    BY <1>2 DEF Inv, TypeInv, split, Reached, Found, Whole, Rising, Gentle, Size, Lap
  <1>3. CASE UNCHANGED split /\ phase' \in {"done", "failed"}
    <2>1. TypeInv'
      BY <1>3 DEF Inv, TypeInv, Phase, split
    <2> QED  BY <1>3, <2>1 DEF Inv
  <1> QED  BY <1>1, <1>2, <1>3 DEF indexingVars, EmbedLocally, SendBatch, Ask, Reply, Retry, TakeVectors,
              TakeCompletion, Fail, Store

LEMMA InvHolds == IndexingSpec => []Inv
  <1>1. Inv /\ [IndexingNext]_indexingVars => Inv'
    BY CleanKeepsInv, SplitKeepsInv, RestKeepsInv DEF IndexingNext
  <1> QED  BY InvInit, <1>1, PTL DEF IndexingSpec

\* chunk_text loses no character, whatever the text, the size and the overlap.
THEOREM TextIsCovered == IndexingSpec => []NothingIsLost
  <1>1. Inv => NothingIsLost
    BY DEF Inv, TypeInv, NothingIsLost, Found
  <1> QED  BY <1>1, InvHolds, PTL

\* Under an overlap of at most 65% of the size, what is no longer than the overlap
\* stays whole in a passage.
THEOREM SeamsStayWhole == IndexingSpec => []SeamsAreWhole
  <1>1. Inv => SeamsAreWhole
    BY DEF Inv, TypeInv, SeamsAreWhole, Whole
  <1> QED  BY <1>1, InvHolds, PTL

\* Then also every passage ends further on than the one before.
THEOREM PassagesAdvance == IndexingSpec => []PassagesMoveOn
  <1>1. Inv => PassagesMoveOn
    BY DEF Inv, PassagesMoveOn, Rising
  <1> QED  BY <1>1, InvHolds, PTL
-----------------------------------------------------------------------------
\* 2**n, as far as a function gives it.
Powers(f, n) == f[0] = 1 /\ \A i \in 1..n : f[i] = 2 * f[i - 1]

LEMMA PowersExist == \A n \in Nat : \E f \in [0..n -> Nat] : Powers(f, n)
  <1> DEFINE S == {n \in Nat : ~ \E f \in [0..n -> Nat] : Powers(f, n)}
  <1>1. SUFFICES ASSUME S # {} PROVE FALSE
    OBVIOUS
  <1>2. S \in SUBSET Nat
    OBVIOUS
  <1>3. PICK m \in S : \A j \in S : m <= j
    <2> HIDE DEF S
    <2> QED  BY <1>1, <1>2, LeastExists
  <1>4. m # 0
    <2>1. Powers([i \in 0..0 |-> 1], 0)
      BY DEF Powers
    <2>2. [i \in 0..0 |-> 1] \in [0..0 -> Nat]
      OBVIOUS
    <2> QED  BY <2>1, <2>2
  <1>5. PICK f \in [0..(m - 1) -> Nat] : Powers(f, m - 1)
    <2>1. m \in Nat /\ m - 1 \in Nat
      BY <1>4
    <2>2. m - 1 \notin S
      <3> HIDE DEF S
      <3> QED  BY <1>3, <2>1
    <2> QED  BY <2>1, <2>2
  <1> DEFINE g == [i \in 0..m |-> IF i = m THEN 2 * f[m - 1] ELSE f[i]]
  <1>6. g \in [0..m -> Nat]
    BY <1>4
  <1>7. Powers(g, m)
    <2>1. g[0] = 1
      BY <1>4, <1>5 DEF Powers
    <2>2. ASSUME NEW i \in 1..m PROVE g[i] = 2 * g[i - 1]
      BY <1>4, <1>5 DEF Powers
    <2> QED  BY <2>1, <2>2 DEF Powers
  <1> HIDE DEF g
  <1> QED  BY <1>6, <1>7

\* Two of them agree as far as both go.
LEMMA PowersAgree ==
    ASSUME NEW n \in Nat, NEW m \in Nat, NEW f, NEW g, Powers(f, n), Powers(g, m),
           NEW k \in Nat, k <= n, k <= m
    PROVE  f[k] = g[k]
  <1> DEFINE S == {i \in 0..k : f[i] # g[i]}
  <1>1. SUFFICES ASSUME S # {} PROVE FALSE
    OBVIOUS
  <1>2. S \in SUBSET Nat
    OBVIOUS
  <1>3. PICK i \in S : \A j \in S : i <= j
    <2> HIDE DEF S
    <2> QED  BY <1>1, <1>2, LeastExists
  <1>4. i # 0
    BY DEF Powers
  <1>5. i - 1 \in 0..k /\ i - 1 \notin S
    BY <1>3, <1>4
  <1>6. f[i - 1] = g[i - 1]
    BY <1>5
  <1>7. f[i] = 2 * f[i - 1] /\ g[i] = 2 * g[i - 1]
    <2>1. i \in 1..n /\ i \in 1..m
      BY <1>4
    <2> QED  BY <2>1 DEF Powers
  <1> QED  BY <1>6, <1>7

LEMMA TwoToDoubles ==
    TwoTo \in [Nat -> Nat] /\ TwoTo[0] = 1 /\ \A n \in Nat : TwoTo[n + 1] = 2 * TwoTo[n]
  <1> DEFINE P(n) == CHOOSE f \in [0..n -> Nat] : Powers(f, n)
             T == [n \in Nat |-> P(n)[n]]
             Unfolded(f) == [n \in Nat |-> IF n = 0 THEN 1 ELSE 2 * f[n - 1]]
  <1>1. \A n \in Nat : P(n) \in [0..n -> Nat] /\ Powers(P(n), n)
    BY PowersExist
  <1> HIDE DEF P
  <1>2. T \in [Nat -> Nat]
    BY <1>1
  <1>3. T[0] = 1
    BY <1>1 DEF Powers
  <1>4. ASSUME NEW n \in Nat, n # 0
        PROVE  T[n] = 2 * T[n - 1]
    <2>1. n - 1 \in Nat
      BY <1>4
    <2>2. P(n)[n] = 2 * P(n)[n - 1]
      BY <1>1, <1>4 DEF Powers
    <2>3. P(n)[n - 1] = P(n - 1)[n - 1]
      BY <1>1, <2>1, PowersAgree
    <2> QED  BY <2>1, <2>2, <2>3
  <1>5. T = Unfolded(T)
    <2> HIDE DEF T
    <2> QED  BY <1>2, <1>3, <1>4
  <1>6. \E f : f = Unfolded(f)
    <2> HIDE DEF T, Unfolded
    <2> QED  BY <1>5
  <1>7. TwoTo = CHOOSE f : f = Unfolded(f)
    BY DEF TwoTo
  <1>8. TwoTo = Unfolded(TwoTo)
    <2> HIDE DEF Unfolded
    <2> QED  BY <1>6, <1>7
  <1>9. \A n \in Nat : TwoTo[n] = IF n = 0 THEN 1 ELSE 2 * TwoTo[n - 1]
    <2>1. \A n \in Nat : TwoTo[n] = Unfolded(TwoTo)[n]
      BY <1>8
    <2> QED  BY <2>1
  <1>10. Powers(TwoTo, 0) /\ \A n \in Nat : Powers(TwoTo, n)
    BY <1>9 DEF Powers
  <1>11. \A n \in Nat : TwoTo[n] = T[n]
    BY <1>1, <1>10, PowersAgree
  <1>12. DOMAIN TwoTo = Nat /\ TwoTo = [n \in Nat |-> TwoTo[n]]
    BY <1>8
  <1>13. TwoTo \in [Nat -> Nat]
    <2> HIDE DEF T
    <2> QED  BY <1>2, <1>11, <1>12
  <1> QED  BY <1>9, <1>13

\* The delays grow.
LEMMA TwoToGrows ==
    ASSUME NEW m \in Nat, NEW k \in 0..m
    PROVE  TwoTo[k] >= 1 /\ TwoTo[k] <= TwoTo[m]
  <1> DEFINE S == {i \in Nat : ~ (TwoTo[k] >= 1 /\ TwoTo[k] <= TwoTo[k + i])}
             Z == {i \in Nat : ~ (TwoTo[i] >= 1)}
  <1>1. S \in SUBSET Nat /\ Z \in SUBSET Nat
    OBVIOUS
  <1>2. Z = {}
    <2>1. SUFFICES ASSUME Z # {} PROVE FALSE
      OBVIOUS
    <2>2. PICK i \in Z : \A j \in Z : i <= j
      <3> HIDE DEF Z
      <3> QED  BY <1>1, <2>1, LeastExists
    <2>3. i # 0
      BY TwoToDoubles
    <2>4. i - 1 \in Nat /\ i - 1 \notin Z
      BY <2>2, <2>3
    <2>5. TwoTo[(i - 1) + 1] = 2 * TwoTo[i - 1] /\ TwoTo[i - 1] \in Nat /\ TwoTo[i - 1] >= 1
      BY <2>4, TwoToDoubles
    <2> QED  BY <2>5
  <1>3. S = {}
    <2>1. SUFFICES ASSUME S # {} PROVE FALSE
      OBVIOUS
    <2>2. PICK i \in S : \A j \in S : i <= j
      <3> HIDE DEF S
      <3> QED  BY <1>1, <2>1, LeastExists
    <2>3. TwoTo[k] \in Nat /\ TwoTo[k] >= 1
      BY <1>2, TwoToDoubles
    <2>4. i # 0
      BY <2>3
    <2>5. i - 1 \in Nat /\ i - 1 \notin S /\ k + (i - 1) \in Nat
      BY <2>2, <2>4
    <2>6. TwoTo[(k + (i - 1)) + 1] = 2 * TwoTo[k + (i - 1)] /\ TwoTo[k + (i - 1)] \in Nat
      BY <2>5, TwoToDoubles
    <2>7. TwoTo[k] <= TwoTo[k + (i - 1)]
      BY <2>5
    <2>8. (k + (i - 1)) + 1 = k + i
      OBVIOUS
    <2> QED  BY <2>3, <2>6, <2>7, <2>8
  <1>4. m - k \in Nat /\ k + (m - k) = m
    OBVIOUS
  <1> QED  BY <1>3, <1>4
-----------------------------------------------------------------------------
\* What b finished requests and the attempts of the one under way may cost.
Within(b) ==
    /\ call.state = "idle" =>
        /\ spent.requests <= b * (MaxRetries + 1)
        /\ spent.slept <= b * (TwoTo[MaxRetries] - 1)
    /\ call.state # "idle" =>
        /\ spent.requests <= b * (MaxRetries + 1) + call.attempt + 1
        /\ spent.slept <= b * (TwoTo[MaxRetries] - 1) + TwoTo[call.attempt] - 1

\* b batches are embedded, and the next one is only sent when passages are left.
CostInv ==
    /\ phase \in {"uploaded", "splitting", "split"} =>
        call.state = "idle" /\ start = 0 /\ spent = [requests |-> 0, slept |-> 0]
    /\ phase = "asking" => Within(0)
    /\ phase = "embedding" =>
        \E b \in 0..Batches(Len(passages)) :
            /\ start = b * BatchSize
            /\ Within(b)
            /\ call.state # "idle" => b < Batches(Len(passages))
    /\ phase = "embedding" /\ provider = "hashing" => call.state = "idle"
    /\ call \in Call
    /\ call.state = "asleep" => call.attempt < MaxRetries
    /\ spent \in [requests : Nat, slept : Nat]

\* The next batch is one of them as long as passages are left.
LEMMA BatchIsOneOfThem ==
    ASSUME NEW n \in Nat
    PROVE  Batches(n) \in Nat /\ \A b \in Nat : b * BatchSize < n => b + 1 <= Batches(n)
  <1> DEFINE x == n + BatchSize - 1
             q == x \div BatchSize
  <1>1. BatchSize \in Nat /\ BatchSize >= 1 /\ x \in Nat
    BY IndexingAssumption
  <1> HIDE DEF x
  <1>2. q \in Nat /\ x = BatchSize * q + (x % BatchSize) /\ x % BatchSize \in 0..(BatchSize - 1)
    BY <1>1
  <1> HIDE DEF q
  <1>3. ASSUME NEW b \in Nat, b * BatchSize < n
        PROVE  b + 1 <= q
    <2>1. SUFFICES ASSUME q <= b PROVE FALSE
      BY <1>2
    <2>2. BatchSize * q <= BatchSize * b
      BY <1>1, <1>2, <2>1
    <2>3. BatchSize * q \in Nat /\ BatchSize * b \in Nat /\ BatchSize * b = b * BatchSize
      BY <1>1, <1>2
    <2> QED  BY <1>1, <1>2, <1>3, <2>2, <2>3 DEF x
  <1> QED  BY <1>2, <1>3 DEF Batches, q, x

LEMMA ProductGrows ==
    ASSUME NEW b \in Nat, NEW c \in Nat, NEW x \in Nat, b <= c
    PROVE  b * x \in Nat /\ c * x \in Nat /\ b * x <= c * x
  <1>1. c * x = b * x + (c - b) * x /\ c - b \in Nat
    OBVIOUS
  <1>2. (c - b) * x \in Nat /\ b * x \in Nat
    BY <1>1
  <1> QED  BY <1>1, <1>2

LEMMA OneMoreProduct ==
    ASSUME NEW b \in Nat, NEW x \in Nat
    PROVE  b * x \in Nat /\ (b + 1) * x = b * x + x /\ 0 * x = 0
  OBVIOUS

\* What an attempt costs is within what its whole request may cost.
LEMMA OnePaid ==
    ASSUME NEW r \in Nat, NEW s \in Nat, NEW rs \in Nat, NEW ss \in Nat,
           NEW A \in Nat, NEW D \in Nat, NEW a \in Nat, NEW t \in Nat,
           a + 1 <= A, t - 1 <= D,
           (r <= rs /\ s <= ss) \/ (r <= rs + a + 1 /\ s <= ss + t - 1)
    PROVE  r <= rs + A /\ s <= ss + D
  OBVIOUS

\* The delays up to an attempt are less than all delays.
LEMMA DelaysOfOneRequest ==
    /\ MaxRetries \in Nat /\ TwoTo[MaxRetries] \in Nat /\ TwoTo[MaxRetries] >= 1
    /\ \A a \in 0..MaxRetries : TwoTo[a] \in Nat /\ TwoTo[a] >= 1 /\ TwoTo[a] <= TwoTo[MaxRetries]
  <1>1. MaxRetries \in Nat
    BY CallAssumption
  <1> QED  BY <1>1, TwoToDoubles, TwoToGrows

-----------------------------------------------------------------------------
LEMMA CostInit == IndexingInit => CostInv
  <1> SUFFICES ASSUME IndexingInit PROVE CostInv
    OBVIOUS
  <1>1. /\ phase \in {"uploaded", "asking"} /\ start = 0
        /\ spent = [requests |-> 0, slept |-> 0] /\ call = Idle("embeddings")
    BY DEF IndexingInit
  <1>2. call \in Call /\ call.state = "idle"
    BY <1>1, CallAssumption DEF Idle, Call, Client
  <1>3. Within(0)
    BY <1>1, <1>2, DelaysOfOneRequest, OneMoreProduct DEF Within
  <1> QED  BY <1>1, <1>2, <1>3 DEF CostInv

\* Before the passages are embedded nothing is sent.
LEMMA SplittingCostsNothing ==
    ASSUME CostInv, Inv, Clean \/ Split \/ (\E p \in Provider : Configure(p))
    PROVE  CostInv'
  <1>1. /\ phase \in {"uploaded", "splitting", "split"}
        /\ UNCHANGED <<start, call, spent>>
    BY DEF Clean, Split, Configure
  <1>2. /\ call.state = "idle" /\ start = 0 /\ spent = [requests |-> 0, slept |-> 0]
        /\ call \in Call
    BY <1>1 DEF CostInv
  <1>3. CASE phase' \in {"uploaded", "splitting", "split", "failed"}
    BY <1>1, <1>2, <1>3 DEF CostInv
  <1>4. CASE \E p \in Provider : Configure(p)
    <2>1. phase' = "embedding" /\ passages' = passages /\ Len(passages) \in Nat
      BY <1>4 DEF Configure, Inv, TypeInv
    <2>2. Batches(Len(passages)) \in Nat
      BY <2>1, BatchIsOneOfThem
    <2>3. Within(0)'
      BY <1>1, <1>2, DelaysOfOneRequest, OneMoreProduct DEF Within
    <2>4. 0 \in 0..Batches(Len(passages)) /\ start' = 0 * BatchSize
      BY <1>1, <1>2, <2>2, IndexingAssumption, OneMoreProduct
    <2> QED  BY <1>1, <1>2, <2>1, <2>3, <2>4 DEF CostInv
  <1> QED  BY <1>3, <1>4 DEF Clean, Split

\* A batch leaves the request of the next one to be paid.
LEMMA NextBatch ==
    ASSUME NEW b \in Nat, b < Batches(Len(passages)), start = b * BatchSize, Inv, CostInv,
           phase = "embedding", phase' = phase, passages' = passages, start' = start + BatchSize,
           spent' = spent, Within(b), call'.state = "idle", call' \in Call
    PROVE  CostInv'
  <1>1. /\ Len(passages) \in Nat /\ Batches(Len(passages)) \in Nat
        /\ b + 1 \in 0..Batches(Len(passages))
    <2>1. Len(passages) \in Nat
      BY DEF Inv, TypeInv
    <2>2. Batches(Len(passages)) \in Nat
      BY <2>1, BatchIsOneOfThem
    <2> QED  BY <2>1, <2>2
  <1>2. start' = (b + 1) * BatchSize
    BY IndexingAssumption, OneMoreProduct
  <1>3. spent.requests \in Nat /\ spent.slept \in Nat /\ call.attempt \in 0..MaxRetries
    BY DEF CostInv, Call
  <1> DEFINE A == MaxRetries + 1
             D == TwoTo[MaxRetries] - 1
  <1>4. A \in Nat /\ D \in Nat
    BY DelaysOfOneRequest
  <1>5. b * A \in Nat /\ (b + 1) * A = b * A + A /\ b * D \in Nat /\ (b + 1) * D = b * D + D
    <2> HIDE DEF A, D
    <2> QED  BY <1>4, OneMoreProduct
  <1>6. PICK a \in 0..MaxRetries : a = call.attempt
    BY <1>3
  <1>7. a + 1 <= A
    BY DelaysOfOneRequest
  <1>8. TwoTo[a] \in Nat /\ TwoTo[a] - 1 <= D
    <2>1. TwoTo[a] \in Nat /\ TwoTo[a] <= TwoTo[MaxRetries] /\ TwoTo[MaxRetries] \in Nat
      BY DelaysOfOneRequest
    <2> QED  BY <2>1
  <1>9. \/ spent.requests <= b * A /\ spent.slept <= b * D
        \/ spent.requests <= b * A + a + 1 /\ spent.slept <= b * D + TwoTo[a] - 1
    BY <1>6 DEF Within
  <1>10. spent.requests <= b * A + A /\ spent.slept <= b * D + D
    <2>1. a \in Nat
      OBVIOUS
    <2> HIDE DEF A, D
    <2> QED  BY <1>3, <1>4, <1>5, <1>7, <1>8, <1>9, <2>1, OnePaid
  <1>11. Within(b + 1)'
    BY <1>5, <1>10 DEF Within
  <1> QED  BY <1>1, <1>2, <1>11 DEF CostInv

LEMMA EmbedLocallyKeepsCost ==
    ASSUME CostInv, Inv, EmbedLocally
    PROVE  CostInv'
  <1>1. PICK b \in 0..Batches(Len(passages)) : start = b * BatchSize /\ Within(b)
    BY DEF CostInv, EmbedLocally
  <1>2. /\ phase = "embedding" /\ start < Len(passages) /\ start' = start + BatchSize
        /\ UNCHANGED <<phase, passages, call, spent>>
        /\ call.state = "idle" /\ call \in Call
    BY DEF EmbedLocally, split, CostInv
  <1>3. Len(passages) \in Nat
    BY DEF Inv, TypeInv
  <1>4. b + 1 <= Batches(Len(passages)) /\ b \in Nat /\ Batches(Len(passages)) \in Nat
    BY <1>1, <1>2, <1>3, BatchIsOneOfThem
  <1>5. b < Batches(Len(passages))
    BY <1>4
  <1> QED  BY <1>1, <1>2, <1>4, <1>5, NextBatch

LEMMA TakeVectorsKeepsCost ==
    ASSUME CostInv, Inv, TakeVectors
    PROVE  CostInv'
  <1>1. PICK b \in 0..Batches(Len(passages)) :
            start = b * BatchSize /\ Within(b) /\ (call.state # "idle" => b < Batches(Len(passages)))
    BY DEF CostInv, TakeVectors
  <1>2. /\ phase = "embedding" /\ start' = start + BatchSize
        /\ UNCHANGED <<phase, passages, spent>>
        /\ call.state = "returned" /\ call' = Idle("embeddings")
    BY DEF TakeVectors, split
  <1>3. call'.state = "idle" /\ call' \in Call
    BY <1>2, CallAssumption DEF Idle, Call, Client
  <1>4. b \in Nat /\ b < Batches(Len(passages))
    BY <1>1, <1>2
  <1> QED  BY <1>1, <1>2, <1>3, <1>4, NextBatch

LEMMA AllowedIsNat ==
    ASSUME Inv
    PROVE  Requests \in Nat /\ Allowed.requests \in Nat /\ Allowed.slept \in Nat
  <1>1. Len(passages) \in Nat
    BY DEF Inv, TypeInv
  <1>2. Requests \in Nat
    BY <1>1, BatchIsOneOfThem DEF Requests
  <1>3. MaxRetries + 1 \in Nat /\ TwoTo[MaxRetries] - 1 \in Nat
    BY DelaysOfOneRequest
  <1>4. Requests * (MaxRetries + 1) \in Nat /\ Requests * (TwoTo[MaxRetries] - 1) \in Nat
    <2> HIDE DEF Requests
    <2> QED  BY <1>2, <1>3, OneMoreProduct
  <1> QED  BY <1>2, <1>4 DEF Allowed

-----------------------------------------------------------------------------
\* A request begins: it is sent as the first attempt, or it fails for want of a key.
LEMMA BeginCosts ==
    ASSUME NEW b \in Nat, NEW client \in Client, NEW inputs \in Nat, NEW hasKey \in BOOLEAN,
           Inv, CostInv, Within(b), Begin(client, inputs, hasKey),
           spent' = IF hasKey THEN Sent(spent) ELSE spent
    PROVE  /\ Within(b)' /\ call' \in Call /\ call'.state \in {"sent", "raised"}
           /\ spent' \in [requests : Nat, slept : Nat]
  <1>1. /\ call.state = "idle"
        /\ call' = [Idle(client) EXCEPT !.state = IF hasKey THEN "sent" ELSE "raised",
                                        !.inputs = inputs]
    BY DEF Begin
  <1>2. /\ call'.state = (IF hasKey THEN "sent" ELSE "raised") /\ call'.attempt = 0
        /\ call' \in Call
    <2>1. MaxRetries \in Nat /\ client \in {"embeddings", "groq"}
      BY CallAssumption DEF Client
    <2>2. CASE hasKey
      <3>1. call' = [client |-> client, state |-> "sent", inputs |-> inputs, attempt |-> 0,
                     got |-> 0]
        BY <1>1, <2>2 DEF Idle
      <3> QED  BY <2>1, <2>2, <3>1 DEF Call, Client
    <2>3. CASE ~hasKey
      <3>1. call' = [client |-> client, state |-> "raised", inputs |-> inputs, attempt |-> 0,
                     got |-> 0]
        BY <1>1, <2>3 DEF Idle
      <3> QED  BY <2>1, <2>3, <3>1 DEF Call, Client
    <2> QED  BY <2>2, <2>3
  <1>3. spent.requests \in Nat /\ spent.slept \in Nat /\ spent \in [requests : Nat, slept : Nat]
    BY DEF CostInv
  <1>4. /\ spent' \in [requests : Nat, slept : Nat]
        /\ spent'.requests <= spent.requests + 1
        /\ spent'.slept = spent.slept
    <2>1. Allowed.requests \in Nat
      BY AllowedIsNat
    <2>2. Smaller(spent.requests + 1, Allowed.requests + 1) \in 0..(spent.requests + 1)
      BY <1>3, <2>1 DEF Smaller
    <2> QED  BY <1>3, <2>2 DEF Sent
  <1>5. TwoTo[0] = 1
    BY TwoToDoubles
  <1> DEFINE A == b * (MaxRetries + 1)
             D == b * (TwoTo[MaxRetries] - 1)
  <1>6. A \in Nat /\ D \in Nat
    BY DelaysOfOneRequest, OneMoreProduct
  <1>7. spent.requests <= A /\ spent.slept <= D
    BY <1>1 DEF Within
  <1>8. spent'.requests <= A + 0 + 1 /\ spent'.slept <= D + 1 - 1
    <2> HIDE DEF A, D
    <2> QED  BY <1>3, <1>4, <1>6, <1>7
  <1> QED  BY <1>2, <1>4, <1>5, <1>8 DEF Within

LEMMA AskKeepsCost ==
    ASSUME CostInv, Inv, NEW hasKey \in BOOLEAN, Ask(hasKey)
    PROVE  CostInv'
  <1>1. /\ phase = "asking" /\ phase' = phase
        /\ Begin("groq", 1, hasKey)
        /\ spent' = IF hasKey THEN Sent(spent) ELSE spent
    BY DEF Ask
  <1>2. Within(0) /\ "groq" \in Client
    BY <1>1 DEF CostInv, Client
  <1>3. /\ Within(0)' /\ call' \in Call /\ call'.state \in {"sent", "raised"}
        /\ spent' \in [requests : Nat, slept : Nat]
    BY <1>1, <1>2, BeginCosts
  <1> QED  BY <1>1, <1>3 DEF CostInv

LEMMA SendBatchKeepsCost ==
    ASSUME CostInv, Inv, SendBatch
    PROVE  CostInv'
  <1> DEFINE n == Len(Batch)
             hasKey == provider = "remote"
  <1>1. /\ phase = "embedding" /\ provider # "hashing" /\ start < Len(passages)
        /\ Begin("embeddings", n, hasKey)
        /\ spent' = IF hasKey THEN Sent(spent) ELSE spent
        /\ UNCHANGED <<phase, passages, provider, start>>
    BY DEF SendBatch, split
  <1>2. PICK b \in 0..Batches(Len(passages)) : start = b * BatchSize /\ Within(b)
    BY <1>1 DEF CostInv
  <1>3. /\ Len(passages) \in Nat /\ Batches(Len(passages)) \in Nat /\ b \in Nat
        /\ b + 1 <= Batches(Len(passages))
    <2>1. Len(passages) \in Nat
      BY DEF Inv, TypeInv
    <2> QED  BY <1>1, <1>2, <2>1, BatchIsOneOfThem
  <1>4. n \in Nat
    <2>1. Smaller(BatchSize, Len(passages) - start) \in Nat
      <3>1. start \in Nat
        BY <1>2, <1>3, IndexingAssumption, OneMoreProduct
      <3> QED  BY <1>1, <1>3, <3>1, IndexingAssumption DEF Smaller
    <2> QED  BY <2>1 DEF Batch
  <1>5. "embeddings" \in Client /\ hasKey \in BOOLEAN
    BY DEF Client
  <1>6. /\ Within(b)' /\ call' \in Call /\ call'.state \in {"sent", "raised"}
        /\ spent' \in [requests : Nat, slept : Nat]
    <2> HIDE DEF n, hasKey
    <2> QED  BY <1>1, <1>2, <1>3, <1>4, <1>5, BeginCosts
  <1>7. start' = b * BatchSize /\ b < Batches(Len(passages')) /\ b \in 0..Batches(Len(passages'))
    BY <1>1, <1>2, <1>3
  <1> QED  BY <1>1, <1>6, <1>7 DEF CostInv

\* A step of a request under way.
LEMMA CallMovesOn ==
    ASSUME CostInv, UNCHANGED <<phase, passages, start>>, call.state # "idle",
           call' \in Call, call'.state \in {"sent", "asleep", "returned", "raised"},
           call'.state = "asleep" => call'.attempt < MaxRetries,
           spent' \in [requests : Nat, slept : Nat],
           \A b \in Nat : Within(b) => Within(b)',
           provider' = provider
    PROVE  CostInv'
  <1>1. phase \notin {"uploaded", "splitting", "split"}
    BY DEF CostInv
  <1>2. phase = "asking" => Within(0)'
    BY DEF CostInv
  <1>3. ASSUME phase = "embedding"
        PROVE  \E b \in 0..Batches(Len(passages)) :
                  start' = b * BatchSize /\ Within(b)' /\ b < Batches(Len(passages))
    <2>1. PICK b \in 0..Batches(Len(passages)) :
             start = b * BatchSize /\ Within(b) /\ b < Batches(Len(passages))
      BY <1>3 DEF CostInv
    <2> QED  BY <2>1
  <1>4. ~ (phase' = "embedding" /\ provider' = "hashing")
    BY DEF CostInv
  <1> QED  BY <1>1, <1>2, <1>3, <1>4 DEF CostInv

LEMMA AnswerKeepsAttempt ==
    ASSUME Settles, call \in Call
    PROVE  /\ call' \in Call /\ call'.attempt = call.attempt /\ call.state = "sent"
           /\ call'.state \in {"asleep", "returned", "raised"}
           /\ call'.state = "asleep" => call'.attempt < MaxRetries
  <1>1. ASSUME call.state = "sent", call' = AfterOutage(call)
        PROVE  /\ call' \in Call /\ call'.attempt = call.attempt
               /\ call'.state \in {"asleep", "raised"}
               /\ call'.state = "asleep" => call'.attempt < MaxRetries
    BY <1>1 DEF AfterOutage, TriesAgain, Call
  <1>2. ASSUME call.state = "sent", call' = [call EXCEPT !.state = "raised"]
        PROVE  call' \in Call /\ call'.attempt = call.attempt /\ call'.state = "raised"
    BY <1>2 DEF Call
  <1>3. ASSUME NEW got \in Nat, call.state = "sent",
               call' = [call EXCEPT !.state = "returned", !.got = got]
        PROVE  call' \in Call /\ call'.attempt = call.attempt /\ call'.state = "returned"
    BY <1>3 DEF Call
  <1>4. CASE TimesOut
    BY <1>1, <1>4 DEF TimesOut
  <1>5. CASE \E status \in Status : AnswersStatus(status)
    BY <1>1, <1>2, <1>5 DEF AnswersStatus
  <1>6. CASE Answered
    <2>1. PICK results \in 0..(call.inputs + 1), fits \in BOOLEAN :
             EmbeddingAnswers(results, fits) \/ GroqAnswers(results, fits)
      BY <1>6 DEF Answered
    <2>2. results \in Nat
      BY DEF Call
    <2> QED  BY <1>2, <1>3, <2>1, <2>2 DEF EmbeddingAnswers, GroqAnswers
  <1>7. CASE AnswersNoJson
    BY <1>2, <1>7 DEF AnswersNoJson
  <1> QED  BY <1>4, <1>5, <1>6, <1>7 DEF Settles

LEMMA ReplyKeepsCost ==
    ASSUME CostInv, Reply
    PROVE  CostInv'
  <1>1. Settles /\ UNCHANGED <<phase, passages, provider, start, spent>> /\ call \in Call
    BY DEF Reply, split, CostInv
  <1>2. /\ call' \in Call /\ call'.attempt = call.attempt /\ call.state = "sent"
        /\ call'.state \in {"asleep", "returned", "raised"}
        /\ call'.state = "asleep" => call'.attempt < MaxRetries
    BY <1>1, AnswerKeepsAttempt
  <1>3. \A b \in Nat : Within(b) => Within(b)'
    BY <1>1, <1>2 DEF Within
  <1>4. spent' \in [requests : Nat, slept : Nat]
    BY <1>1 DEF CostInv
  <1> QED  BY <1>1, <1>2, <1>3, <1>4, CallMovesOn

\* The delay of an attempt is as long as all before it and half a second more.
LEMMA RetryKeepsCost ==
    ASSUME CostInv, Inv, Retry
    PROVE  CostInv'
  <1>1. /\ call.state = "asleep" /\ call' = [call EXCEPT !.state = "sent", !.attempt = @ + 1]
        /\ spent' = Sent(Slept(spent, call.attempt))
        /\ UNCHANGED <<phase, passages, provider, start>>
    BY DEF Retry, Wake, NextAttempt, split
  <1>2. call.attempt \in 0..MaxRetries /\ call.attempt < MaxRetries /\ call \in Call
    BY <1>1 DEF CostInv, Call
  <1>3. PICK a \in Nat : a = call.attempt
    BY <1>2
  <1>4. call'.state = "sent" /\ call'.attempt = a + 1 /\ call' \in Call
    <2>1. a + 1 \in 0..MaxRetries
      BY <1>2, <1>3, CallAssumption
    <2>2. call' = [call EXCEPT !.state = "sent", !.attempt = a + 1]
      BY <1>1, <1>3
    <2> QED  BY <1>2, <2>1, <2>2 DEF Call
  <1>5. spent.requests \in Nat /\ spent.slept \in Nat /\ spent \in [requests : Nat, slept : Nat]
    BY DEF CostInv
  <1>6. TwoTo[a] \in Nat /\ TwoTo[a + 1] = 2 * TwoTo[a] /\ Delay(call.attempt) = TwoTo[a]
    BY <1>3, TwoToDoubles DEF Delay
  <1>7. /\ spent' \in [requests : Nat, slept : Nat]
        /\ spent'.requests <= spent.requests + 1
        /\ spent'.slept <= spent.slept + TwoTo[a]
    <2>1. Allowed.requests \in Nat /\ Allowed.slept \in Nat
      BY AllowedIsNat
    <2>2. Smaller(spent.requests + 1, Allowed.requests + 1) \in 0..(spent.requests + 1)
      BY <1>5, <2>1 DEF Smaller
    <2>3. Smaller(spent.slept + TwoTo[a], Allowed.slept + 1) \in 0..(spent.slept + TwoTo[a])
      BY <1>5, <1>6, <2>1 DEF Smaller
    <2>4. spent' = [requests |-> Smaller(spent.requests + 1, Allowed.requests + 1),
                    slept |-> Smaller(spent.slept + TwoTo[a], Allowed.slept + 1)]
      BY <1>1, <1>5, <1>6 DEF Sent, Slept
    <2> QED  BY <1>5, <1>6, <2>2, <2>3, <2>4
  <1>8. ASSUME NEW b \in Nat, Within(b)
        PROVE  Within(b)'
    <2> DEFINE A == b * (MaxRetries + 1)
               D == b * (TwoTo[MaxRetries] - 1)
    <2>1. A \in Nat /\ D \in Nat
      BY DelaysOfOneRequest, OneMoreProduct
    <2>2. spent.requests <= A + a + 1 /\ spent.slept <= D + TwoTo[a] - 1
      BY <1>1, <1>3, <1>8 DEF Within
    <2>3. spent'.requests <= A + (a + 1) + 1 /\ spent'.slept <= D + TwoTo[a + 1] - 1
      <3>1. spent'.requests \in Nat /\ spent'.slept \in Nat
        BY <1>7
      <3> HIDE DEF A, D
      <3> QED  BY <1>5, <1>6, <1>7, <2>1, <2>2, <3>1
    <2> QED  BY <1>4, <2>3 DEF Within
  <1>9. call.state # "idle" /\ call'.state \in {"sent", "asleep", "returned", "raised"}
    BY <1>1, <1>4
  <1>10. call'.state = "asleep" => call'.attempt < MaxRetries
    BY <1>4
  <1> QED  BY <1>1, <1>4, <1>7, <1>8, <1>9, <1>10, CallMovesOn

\* A job that ends costs no more.
LEMMA EndKeepsCost ==
    ASSUME CostInv, TakeCompletion \/ Fail \/ Store \/ UNCHANGED indexingVars
    PROVE  CostInv'
  <1>1. CASE phase' \in {"done", "failed"} /\ UNCHANGED <<call, spent>>
    BY <1>1 DEF CostInv
  <1>2. CASE UNCHANGED indexingVars
    BY <1>2 DEF CostInv, indexingVars, split, Within
  <1> QED  BY <1>1, <1>2 DEF TakeCompletion, Fail, Store

LEMMA CostHolds == IndexingSpec => [](Inv /\ CostInv)
  <1>1. CostInv /\ Inv /\ [IndexingNext]_indexingVars => CostInv'
    <2> SUFFICES ASSUME CostInv, Inv, [IndexingNext]_indexingVars PROVE CostInv'
      OBVIOUS
    <2>1. CASE Clean \/ Split \/ (\E p \in Provider : Configure(p))
      BY <2>1, SplittingCostsNothing
    <2>2. CASE EmbedLocally
      BY <2>2, EmbedLocallyKeepsCost
    <2>3. CASE SendBatch
      BY <2>3, SendBatchKeepsCost
    <2>4. CASE \E hasKey \in BOOLEAN : Ask(hasKey)
      BY <2>4, AskKeepsCost
    <2>5. CASE Reply
      BY <2>5, ReplyKeepsCost
    <2>6. CASE Retry
      BY <2>6, RetryKeepsCost
    <2>7. CASE TakeVectors
      BY <2>7, TakeVectorsKeepsCost
    <2>8. CASE TakeCompletion \/ Fail \/ Store \/ UNCHANGED indexingVars
      BY <2>8, EndKeepsCost
    <2> QED  BY <2>1, <2>2, <2>3, <2>4, <2>5, <2>6, <2>7, <2>8 DEF IndexingNext
  <1> QED  BY InvHolds, CostInit, <1>1, PTL DEF IndexingSpec

LEMMA CostFits == Inv /\ CostInv => CostIsBounded
  <1> SUFFICES ASSUME Inv, CostInv, phase \in {"embedding", "asking"}
               PROVE  spent.requests <= Allowed.requests /\ spent.slept <= Allowed.slept
    BY DEF CostIsBounded
  <1> DEFINE A == MaxRetries + 1
             D == TwoTo[MaxRetries] - 1
             R == Requests
  <1>1. A \in Nat /\ D \in Nat /\ R \in Nat
    BY DelaysOfOneRequest, AllowedIsNat
  <1>2. Allowed.requests = R * A /\ Allowed.slept = R * D
    BY DEF Allowed
  <1>3. PICK b \in Nat : /\ Within(b) /\ b <= R
                         /\ call.state # "idle" => b < R
    <2>1. CASE phase = "asking"
      BY <2>1 DEF CostInv, Requests
    <2>2. CASE phase = "embedding"
      <3>1. R = Batches(Len(passages))
        BY <2>2 DEF Requests
      <3> HIDE DEF R
      <3> QED  BY <2>2, <3>1, <1>1 DEF CostInv
    <2> QED  BY <2>1, <2>2
  <1>4. spent.requests \in Nat /\ spent.slept \in Nat /\ call.attempt \in 0..MaxRetries
    BY DEF CostInv, Call
  <1>5. CASE call.state = "idle"
    <2>1. spent.requests <= b * A /\ spent.slept <= b * D
      BY <1>3, <1>5 DEF Within
    <2> HIDE DEF A, D, R
    <2>2. b * A <= R * A /\ b * D <= R * D /\ b * A \in Nat /\ R * A \in Nat
          /\ b * D \in Nat /\ R * D \in Nat
      BY <1>1, <1>3, ProductGrows
    <2> QED  BY <1>2, <1>4, <2>1, <2>2
  <1>6. CASE call.state # "idle"
    <2>1. PICK a \in 0..MaxRetries : a = call.attempt
      BY <1>4
    <2>2. a + 1 <= A /\ a \in Nat
      BY DelaysOfOneRequest
    <2>3. TwoTo[a] \in Nat /\ TwoTo[a] - 1 <= D
      <3>1. TwoTo[a] \in Nat /\ TwoTo[a] <= TwoTo[MaxRetries] /\ TwoTo[MaxRetries] \in Nat
        BY DelaysOfOneRequest
      <3> QED  BY <3>1
    <2>4. spent.requests <= b * A + a + 1 /\ spent.slept <= b * D + TwoTo[a] - 1
      BY <1>3, <1>6, <2>1 DEF Within
    <2> HIDE DEF A, D, R
    <2>5. /\ (b + 1) * A = b * A + A /\ (b + 1) * D = b * D + D
          /\ b * A \in Nat /\ b * D \in Nat
      BY <1>1, OneMoreProduct
    <2>6. spent.requests <= b * A + A /\ spent.slept <= b * D + D
      BY <1>1, <1>4, <2>2, <2>3, <2>4, <2>5, OnePaid
    <2>7. b + 1 \in Nat /\ b + 1 <= R
      BY <1>1, <1>3, <1>6
    <2>8. (b + 1) * A <= R * A /\ (b + 1) * D <= R * D /\ R * A \in Nat /\ R * D \in Nat
      BY <1>1, <2>7, ProductGrows
    <2> QED  BY <1>1, <1>2, <1>4, <2>5, <2>6, <2>8
  <1> QED  BY <1>5, <1>6

\* However its provider fails, a job sends and sleeps no more than the retries of its
\* requests allow, whatever the sizes of the batches and the number of retries.
THEOREM RetriesAreBounded == IndexingSpec => []CostIsBounded
  <1>1. Inv /\ CostInv => CostIsBounded
    BY CostFits
  <1> QED  BY <1>1, CostHolds, PTL
=============================================================================
