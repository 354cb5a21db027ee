----------------------------- MODULE MCIndexing -----------------------------
(***************************************************************************)
(* Texts long enough for three passages with every kind of boundary in the *)
(* window, among them the short ones that normalise changes; overlaps on   *)
(* both sides of 65% of the size.                                          *)
(***************************************************************************)
EXTENDS Indexing

LongText == 8

Texts(n) == [1..n -> Char]

Long == {t \in Texts(LongText) : t = Normalised(t)}

MCText == UNION {Texts(n) : n \in 0..3} \cup Long
MCShape == {<<3, 0>>, <<4, 2>>, <<6, 3>>, <<4, 3>>}
MCStatus == {400, 408, 429, 501, 503}
=============================================================================
