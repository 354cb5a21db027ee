------------------------------- MODULE Corpus -------------------------------
(***************************************************************************)
(* What the knowledge base promises (services/rag/ingestion.py): documents *)
(* of pairwise different contents, each with the passages of one indexing. *)
(* A document comes with its passages, has them replaced all at once, and  *)
(* leaves with them.                                                       *)
(***************************************************************************)
EXTENDS Integers

VARIABLE corpus     \* records: a document, its content and its passages

\* Passages 0, 1, ... of one worker, and at least one of them.
Whole(passages) ==
    /\ passages # {}
    /\ \A p, q \in passages : p.worker = q.worker
    /\ \A p \in passages : \A k \in 0..p.index : \E q \in passages : q.index = k

Init == corpus = {}

Add == \E e \in corpus' \ corpus :
          /\ \A f \in corpus : f.document # e.document /\ f.content # e.content
          /\ Whole(e.passages)
          /\ corpus' = corpus \cup {e}

Reindex == \E e \in corpus, f \in corpus' :
              /\ f.document = e.document
              /\ f.content = e.content
              /\ Whole(f.passages)
              /\ corpus' = (corpus \ {e}) \cup {f}

Remove == \E e \in corpus : corpus' = corpus \ {e}

Next == Add \/ Reindex \/ Remove

Spec == Init /\ [][Next]_corpus
=============================================================================
