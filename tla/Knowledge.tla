------------------------------ MODULE Knowledge ------------------------------
(***************************************************************************)
(* The knowledge base: POST /knowledge/documents, .../reindex and DELETE   *)
(* (endpoints/knowledge.py) with create_document and index_document of     *)
(* services/rag/ingestion.py.                                              *)
(*                                                                         *)
(* A document is looked up by its checksum, inserted, embedded by a call   *)
(* that takes seconds and may fail, and only then are its chunks replaced: *)
(* a DELETE, the INSERTs, the audit entry and the commit.  Under READ      *)
(* COMMITTED the DELETE sees the rows there were when it began, waits for  *)
(* those another transaction is deleting, and misses those inserted since. *)
(***************************************************************************)
EXTENDS Integers, Sequences

CONSTANTS
    Request,    \* the requests, each handled once; a document's id is the
                \* request that created it
    Content,    \* the documents' contents, up to their checksum
    Worker,     \* the configurations of the processes: model and chunk size
    Pieces      \* Pieces[c][w]: into how many chunks worker w splits content c

ASSUME ConstantsAssumption == Content # {} /\ Worker # {}
ASSUME PiecesAssumption == Pieces \in [Content -> [Worker -> Nat \ {0}]]

VARIABLES
    documents,  \* the committed documents
    chunks,     \* the committed chunks
    audit,      \* the committed audit entries, in the order they committed
    req         \* req[r]: what the session of request r holds

vars == <<documents, chunks, audit, req>>
-----------------------------------------------------------------------------
Document == [id : Request, content : Content]

\* "by" is the request that embedded the chunk, which embedded_at stands for.
Chunk == [document : Request, index : Nat, worker : Worker, by : Request]

Entry == [action : {"create", "update", "delete"}, document : Request,
          worker : Worker, chunks : Nat]

Session == [phase : {"idle", "checked", "embedding", "deleting", "replacing", "loaded", "done"},
            op : {"none", "create", "reindex", "delete"},
            document : Request, content : Content, worker : Worker,
            seen : SUBSET Chunk, removed : SUBSET Chunk]

TypeOK ==
    /\ documents \subseteq Document
    /\ chunks \subseteq Chunk
    /\ audit \in Seq(Entry)
    /\ req \in [Request -> Session]

EmptySession(r, phase) ==
    [phase |-> phase, op |-> "none", document |-> r, content |-> CHOOSE c \in Content : TRUE,
     worker |-> CHOOSE w \in Worker : TRUE, seen |-> {}, removed |-> {}]

Init ==
    /\ documents = {}
    /\ chunks = {}
    /\ audit = <<>>
    /\ req = [r \in Request |-> EmptySession(r, "idle")]
-----------------------------------------------------------------------------
Finish(r) == req' = [req EXCEPT ![r] = EmptySession(r, "done")]

IsStored(c) == \E d \in documents : d.content = c

ChunksOf(d) == {p \in chunks : p.document = d}

\* A variant of the schema without a unique checksum.
AnyContent(r) == TRUE

\* The unique checksum.
FreshContent(r) == ~IsStored(req[r].content)

\* The requests that hold an uncommitted document of content c: an INSERT of the
\* same checksum waits for them.
Inserting(c) == {q \in Request : /\ req[q].op = "create" /\ req[q].content = c
                                 /\ req[q].phase \in {"embedding", "deleting", "replacing"}}

\* The rows of S that another transaction has deleted and not committed.
LockedFor(r, S) == \E q \in Request \ {r} : req[q].removed \cap S # {}

\* The document this transaction inserts, if any.
Created(r) == IF req[r].op = "create" THEN {[id |-> r, content |-> req[r].content]} ELSE {}

\* index_document: the chunks to insert, numbered by chunk_text.
NewChunks(r) ==
    [document : {req[r].document}, index : 0 .. Pieces[req[r].content][req[r].worker] - 1,
     worker : {req[r].worker}, by : {r}]

\* A variant of the schema without the foreign key.
AnyDocument(r) == TRUE

\* The foreign key of the chunks.
HasDocument(r) == \/ req[r].op = "create"
                  \/ \E d \in documents : d.id = req[r].document

\* A variant of the schema without the constraint.
InsertableTwice(r) == TRUE

\* uq_document_chunks_doc_index, against the rows this transaction leaves.
Insertable(r) ==
    \A p \in chunks \ req[r].removed, n \in NewChunks(r) :
        p.document = n.document => p.index # n.index

\* The handlers' audit.record.  Of a deletion only the action and the document count.
EntryOf(r) ==
    [action |-> IF req[r].op = "reindex" THEN "update" ELSE req[r].op,
     document |-> req[r].document, worker |-> req[r].worker,
     chunks |-> Pieces[req[r].content][req[r].worker]]
-----------------------------------------------------------------------------
\* create_document: content that is stored already is refused (409).
CheckContent(r, c, w) ==
    /\ req[r].phase = "idle"
    /\ IF IsStored(c)
       THEN Finish(r)
       ELSE req' = [req EXCEPT ![r].phase = "checked", ![r].op = "create",
                               ![r].content = c, ![r].worker = w]
    /\ UNCHANGED <<documents, chunks, audit>>

\* create_document's flush, which waits for an INSERT of the same checksum.
InsertDocument(r) ==
    /\ req[r].phase = "checked"
    /\ Inserting(req[r].content) = {}
    /\ FreshContent(r)
    /\ req' = [req EXCEPT ![r].phase = "embedding"]
    /\ UNCHANGED <<documents, chunks, audit>>

\* The checksum was committed since it was looked for; nothing catches this.
InsertRefused(r) ==
    /\ req[r].phase = "checked"
    /\ ~FreshContent(r)
    /\ Finish(r)
    /\ UNCHANGED <<documents, chunks, audit>>

\* _load in the reindex handler.
LoadForReindex(r, d, w) ==
    /\ req[r].phase = "idle"
    /\ req' = [req EXCEPT ![r].phase = "embedding", ![r].op = "reindex",
                          ![r].document = d.id, ![r].content = d.content, ![r].worker = w]
    /\ UNCHANGED <<documents, chunks, audit>>

\* _load in the delete handler, with the chunks.
LoadForDelete(r, d, w) ==
    /\ req[r].phase = "idle"
    /\ req' = [req EXCEPT ![r].phase = "loaded", ![r].op = "delete",
                          ![r].document = d.id, ![r].content = d.content, ![r].worker = w]
    /\ UNCHANGED <<documents, chunks, audit>>

\* Content without a character that counts (422), or an unknown document (404).
Reject(r) ==
    /\ req[r].phase = "idle"
    /\ Finish(r)
    /\ UNCHANGED <<documents, chunks, audit>>

\* _embed_all raises EmbeddingError: the transaction is rolled back (500, 503).
EmbeddingFails(r) ==
    /\ req[r].phase = "embedding"
    /\ Finish(r)
    /\ UNCHANGED <<documents, chunks, audit>>

\* Every batch is embedded, and the DELETE begins: these are the rows it sees.
BeginDelete(r) ==
    /\ req[r].phase = "embedding"
    /\ req' = [req EXCEPT ![r].phase = "deleting", ![r].seen = ChunksOf(req[r].document)]
    /\ UNCHANGED <<documents, chunks, audit>>

\* The DELETE ends, once no other transaction is deleting any of them.
DeleteChunks(r) ==
    /\ req[r].phase = "deleting"
    /\ ~LockedFor(r, req[r].seen)
    /\ req' = [req EXCEPT ![r].phase = "replacing", ![r].removed = req[r].seen \cap chunks]
    /\ UNCHANGED <<documents, chunks, audit>>

\* The INSERTs, the audit entry and the commit.
CommitIndex(r) ==
    /\ req[r].phase = "replacing"
    /\ HasDocument(r)
    /\ Insertable(r)
    /\ documents' = documents \cup Created(r)
    /\ chunks' = (chunks \ req[r].removed) \cup NewChunks(r)
    /\ audit' = Append(audit, EntryOf(r))
    /\ Finish(r)

\* The document was deleted, or reindexed since the DELETE began: one of the two
\* constraints refuses the INSERTs, and nothing catches this.
IndexRefused(r) ==
    /\ req[r].phase = "replacing"
    /\ ~HasDocument(r) \/ ~Insertable(r)
    /\ Finish(r)
    /\ UNCHANGED <<documents, chunks, audit>>

\* delete_document's flush and commit: the chunks loaded with the document by
\* their ids, the document, and by ON DELETE CASCADE the chunks it has by now.
\* A document that is gone already is no error.
CommitDelete(r) ==
    LET d == req[r].document
    IN  /\ req[r].phase = "loaded"
        /\ ~LockedFor(r, ChunksOf(d))
        /\ documents' = {e \in documents : e.id # d}
        /\ chunks' = chunks \ ChunksOf(d)
        /\ audit' = Append(audit, EntryOf(r))
        /\ Finish(r)

\* A connection or a process is lost, or PostgreSQL ends a deadlock.
Abort(r) ==
    /\ req[r].phase \notin {"idle", "done"}
    /\ Finish(r)
    /\ UNCHANGED <<documents, chunks, audit>>

Next ==
    \E r \in Request :
        \/ \E c \in Content, w \in Worker : CheckContent(r, c, w)
        \/ InsertDocument(r)
        \/ InsertRefused(r)
        \/ \E d \in documents, w \in Worker : LoadForReindex(r, d, w)
        \/ \E d \in documents, w \in Worker : LoadForDelete(r, d, w)
        \/ Reject(r)
        \/ EmbeddingFails(r)
        \/ BeginDelete(r)
        \/ DeleteChunks(r)
        \/ CommitIndex(r)
        \/ IndexRefused(r)
        \/ CommitDelete(r)
        \/ Abort(r)

Spec == Init /\ [][Next]_vars
-----------------------------------------------------------------------------
(***************************************************************************)
(* Properties.                                                             *)
(***************************************************************************)

\* index_document: "merging old chunks with new would leave a corpus that is half
\* one thing and half another".  The chunks of every document are all those of one
\* indexing, and there are no others: a document without chunks, which would never
\* be found, there is not, nor a chunk without its document.
DocumentsAreWhole ==
    /\ \A d \in documents : \E r \in Request, w \in Worker :
          ChunksOf(d.id) = [document : {d.id}, index : 0 .. Pieces[d.content][w] - 1,
                            worker : {w}, by : {r}]
    /\ \A p \in chunks : \E d \in documents : d.id = p.document

\* What an entry says of its document, when it is the last about it.
ShowsIn(last) ==
    IF last.action = "delete"
    THEN ChunksOf(last.document) = {} /\ \A d \in documents : d.id # last.document
    ELSE /\ \E d \in documents : d.id = last.document
         /\ \A p \in ChunksOf(last.document) :
               p.worker = last.worker /\ p.index \in 0 .. last.chunks - 1
         /\ \A i \in 0 .. last.chunks - 1 : \E p \in ChunksOf(last.document) : p.index = i

\* audit.record in the transaction of the change: the trail tells the corpus.  A
\* document is there unless its last entry is its deletion, and has as many chunks,
\* by the model, as its last entry says, in whatever order reindexings and
\* deletions of it were begun; one without an entry there is not.
AuditTellsTheCorpus ==
    /\ \A k \in 1..Len(audit) :
          (\A j \in k + 1..Len(audit) : audit[j].document # audit[k].document)
             => ShowsIn(audit[k])
    /\ \A d \in documents : \E k \in 1..Len(audit) : audit[k].document = d.id

\* The knowledge base implements a corpus of whole documents of different contents,
\* whatever requests overlap, fail or are lost.
Promise == INSTANCE Corpus WITH
    corpus <- {[document |-> d.id, content |-> d.content, passages |-> ChunksOf(d.id)] :
                  d \in documents}

ImplementsCorpus == Promise!Spec
=============================================================================
