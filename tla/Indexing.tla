------------------------------ MODULE Indexing ------------------------------
(***************************************************************************)
(* From a document to the rows of its passages: chunk_text of              *)
(* services/rag/chunking.py, then _embed_all and index_document of         *)
(* services/rag/ingestion.py over the embedding clients.  A job may also   *)
(* be a single completion, the call analyze_incident makes of the model.   *)
(*                                                                         *)
(* A job runs alone: what interrupts it is its provider, which may time    *)
(* out, refuse, or answer something else.  How the transactions of several *)
(* jobs overlap is the subject of module Knowledge.                        *)
(***************************************************************************)
EXTENDS Chunking, ProviderCall

CONSTANTS
    Text,       \* the contents of the documents, as uploaded
    Shape,      \* the pairs RAG_CHUNK_SIZE, RAG_CHUNK_OVERLAP
    BatchSize   \* EMBEDDING_BATCH_SIZE

\* The bounds and the validator of core/config.py.
ASSUME IndexingAssumption ==
    /\ Text \subseteq Seq(Char)
    /\ \A shape \in Shape : shape \in Nat \X Nat /\ shape[1] > shape[2]
    /\ BatchSize \in Nat \ {0}

VARIABLES
    phase,      \* where the job is
    text,       \* the text being split; forgotten once it is
    shape,      \* the size of a passage and the overlap of two
    cursor,     \* where the next passage starts
    ends,       \* where the passages ended, before they were stripped
    passages,   \* the passages found so far, in order
    provider,   \* what EMBEDDING_PROVIDER and the keys make of the providers
    start,      \* the passages embedded by the batches so far
    vectors,    \* the passage each vector returned so far is of
    rows,       \* the rows stored: a passage and the passage its vector is of
    spent       \* auxiliary: the requests sent and the half seconds slept

split == <<text, shape, cursor, ends, passages>>
indexingVars == <<phase, split, provider, start, vectors, rows, call, spent>>

Phase == {"uploaded", "splitting", "split", "embedding", "asking", "done", "failed"}
Provider == {"hashing", "remote", "keyless"}

Size == shape[1]
Lap == shape[2]

Batches(n) == (n + BatchSize - 1) \div BatchSize

IndexingTypeOK ==
    /\ phase \in Phase
    /\ text \in Seq(Char)
    /\ shape \in Shape
    /\ cursor \in 0..Len(text)
    /\ ends \in Seq(Nat)
    /\ passages \in Seq(Nat \X Nat)
    /\ provider \in Provider
    /\ start \in Nat
    /\ vectors \in Seq(Nat)
    /\ rows \in Seq([passage : Nat \X Nat, vector : Nat])
    /\ call \in Call
    /\ spent \in [requests : Nat, slept : Nat]
-----------------------------------------------------------------------------
IndexingInit ==
    /\ \/ phase = "uploaded" /\ text \in Text
       \/ phase = "asking" /\ text = <<>>
    /\ shape \in Shape
    /\ cursor = 0
    /\ ends = <<>>
    /\ passages = <<>>
    /\ provider = "hashing"
    /\ start = 0
    /\ vectors = <<>>
    /\ rows = <<>>
    /\ call = Idle("embeddings")
    /\ spent = [requests |-> 0, slept |-> 0]

\* chunk_text cleans the text; index_document raises EmptyDocumentError when nothing
\* is left of it.
Clean ==
    /\ phase = "uploaded"
    /\ text' = Normalised(text)
    /\ phase' = IF text' = <<>> THEN "failed" ELSE "splitting"
    /\ UNCHANGED <<shape, cursor, ends, passages, provider, start, vectors, rows, call, spent>>

\* One round of the loop of chunk_text.  A text that fits one passage is one: the
\* first round takes it whole, as the early return does.
Split ==
    LET end == ChunkEnd(text, Size, cursor)
        solid == Solid(text, cursor, end)
    IN  /\ phase = "splitting"
        /\ ends' = Append(ends, end)
        /\ passages' = IF solid = {} THEN passages
                       ELSE Append(passages, <<First(solid), Last(solid)>>)
        /\ IF end >= Len(text) THEN phase' = "split" /\ UNCHANGED cursor
           ELSE cursor' = NextCursor(cursor, end, Lap) /\ UNCHANGED phase
        /\ UNCHANGED <<text, shape, provider, start, vectors, rows, call, spent>>

\* get_provider: from here on only the passages are read.
Configure(p) ==
    /\ phase = "split"
    /\ phase' = "embedding"
    /\ provider' = p
    /\ text' = <<>>
    /\ cursor' = 0
    /\ ends' = <<>>
    /\ UNCHANGED <<shape, passages, start, vectors, rows, call, spent>>
-----------------------------------------------------------------------------
\* texts[start : start + size], as the numbers of the passages.
Batch == [n \in 1..Smaller(BatchSize, Len(passages) - start) |-> start + n]

\* vectors.extend(await provider.embed(batch)).
Extended(found, batch) == found \o batch

\* HashingEmbeddingProvider.embed: one vector per text, and no way to fail.
EmbedLocally ==
    /\ phase = "embedding"
    /\ provider = "hashing"
    /\ start < Len(passages)
    /\ vectors' = Extended(vectors, Batch)
    /\ start' = start + BatchSize
    /\ UNCHANGED <<phase, split, provider, rows, call, spent>>

\* The requests of this job: a completion is one, a document one per batch.
Requests == IF phase = "asking" THEN 1 ELSE Batches(Len(passages))

\* No job is allowed more: every attempt of every request, and the delays between them.
Allowed == [requests |-> Requests * (MaxRetries + 1),
            slept |-> Requests * (TwoTo[MaxRetries] - 1)]

\* Requests are counted as they are sent and the delays as they are slept, up to one
\* more than is allowed.
Sent(s) == [s EXCEPT !.requests = Smaller(@ + 1, Allowed.requests + 1)]
Slept(s, attempt) == [s EXCEPT !.slept = Smaller(@ + Delay(attempt), Allowed.slept + 1)]

SendBatch ==
    /\ phase = "embedding"
    /\ provider # "hashing"
    /\ start < Len(passages)
    /\ Begin("embeddings", Len(Batch), provider = "remote")
    /\ spent' = IF provider = "remote" THEN Sent(spent) ELSE spent
    /\ UNCHANGED <<phase, split, provider, start, vectors, rows>>

\* analyze_incident: one request, made of the whole case.
Ask(hasKey) ==
    /\ phase = "asking"
    /\ Begin("groq", 1, hasKey)
    /\ spent' = IF hasKey THEN Sent(spent) ELSE spent
    /\ UNCHANGED <<phase, split, provider, start, vectors, rows>>

\* What the provider answers, or does not.
Reply ==
    /\ Settles
    /\ UNCHANGED <<phase, split, provider, start, vectors, rows, spent>>

\* The delay is over and the request is sent again.
Retry ==
    /\ Wake
    /\ spent' = Sent(Slept(spent, call.attempt))
    /\ UNCHANGED <<phase, split, provider, start, vectors, rows>>

\* The batch is embedded: the loop of _embed_all goes on.
TakeVectors ==
    /\ phase = "embedding"
    /\ call.state = "returned"
    /\ vectors' = Extended(vectors, [n \in 1..call.got |-> start + n])
    /\ start' = start + BatchSize
    /\ call' = Idle("embeddings")
    /\ UNCHANGED <<phase, split, provider, rows, spent>>

TakeCompletion ==
    /\ phase = "asking"
    /\ call.state = "returned"
    /\ phase' = "done"
    /\ UNCHANGED <<split, provider, start, vectors, rows, call, spent>>

\* EmbeddingError and LLMError end the job; what is stored stays as it was.
Fail ==
    /\ call.state = "raised"
    /\ phase \in {"embedding", "asking"}
    /\ phase' = "failed"
    /\ UNCHANGED <<split, provider, start, vectors, rows, call, spent>>

\* zip(chunks, vectors, strict=True): one row for each, or a ValueError.
Store ==
    /\ phase = "embedding"
    /\ start >= Len(passages)
    /\ IF Len(vectors) = Len(passages)
       THEN /\ rows' = [n \in DOMAIN passages |-> [passage |-> passages[n], vector |-> vectors[n]]]
            /\ phase' = "done"
       ELSE phase' = "failed" /\ UNCHANGED rows
    /\ UNCHANGED <<split, provider, start, vectors, call, spent>>

IndexingNext ==
    \/ Clean \/ Split
    \/ \E p \in Provider : Configure(p)
    \/ EmbedLocally \/ SendBatch
    \/ \E hasKey \in BOOLEAN : Ask(hasKey)
    \/ Reply \/ Retry
    \/ TakeVectors \/ TakeCompletion \/ Fail \/ Store

\* The job goes on by itself, and httpx ends every attempt by an answer or a timeout.
IndexingFairness == WF_indexingVars(IndexingNext)

IndexingSpec == IndexingInit /\ [][IndexingNext]_indexingVars
IndexingFairSpec == IndexingSpec /\ IndexingFairness
-----------------------------------------------------------------------------
Inside(i, j, passage) == passage[1] <= i /\ j <= passage[2]

\* No character is lost between two passages: what a document says can be found
\* (the loop of chunk_text, whatever boundary it took).
NothingIsLost ==
    phase = "split" =>
        \A i \in DOMAIN text : ~BlankAt(text, i) =>
            \E k \in DOMAIN passages : Inside(i, i, passages[k])

\* The overlap is short enough for every passage to reach beyond it: a seam is
\* never sought in the first 65% of a passage.
Gentle == 20 * Lap <= 13 * Size

\* "A passage near a seam still appears whole somewhere": what is no longer than the
\* overlap is whole in one of the passages.
SeamsAreWhole ==
    (phase = "split" /\ Gentle) =>
        \A i, j \in DOMAIN text :
            (i <= j /\ j - i < Lap /\ ~BlankAt(text, i) /\ ~BlankAt(text, j)) =>
                \E k \in DOMAIN passages : Inside(i, j, passages[k])

\* No passage lies inside the one before it, so a document of n characters makes no
\* more requests than its length calls for.
PassagesMoveOn ==
    (phase = "split" /\ Gentle) =>
        \A k \in 1..(Len(ends) - 1) : ends[k] < ends[k + 1]

\* However the provider fails, a job sends and sleeps no more than its retries allow,
\* and the last failure is reported without another delay.
CostIsBounded ==
    phase \in {"embedding", "asking"} =>
        /\ spent.requests <= Allowed.requests
        /\ spent.slept <= Allowed.slept

\* Every job ends, with its rows or with an error, and no provider can keep it.
JobsEnd == <>(phase \in {"done", "failed"})
=============================================================================
