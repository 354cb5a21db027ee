------------------------------ MODULE Chunking ------------------------------
(***************************************************************************)
(* services/rag/chunking.py: where a passage of a document ends and where  *)
(* the next one begins.                                                    *)
(*                                                                         *)
(* A text is a sequence of classes of characters.  A position counts the   *)
(* characters before it, as in Python, so text[a:b] is the characters      *)
(* a + 1 .. b.  A passage is the pair of its first and last character.     *)
(***************************************************************************)
EXTENDS Integers, Sequences, FiniteSets

Blank == {"space", "newline"}

Char == {"word", "stop"} \cup Blank

BlankAt(text, i) == text[i] \in Blank

Larger(a, b) == IF a >= b THEN a ELSE b
Smaller(a, b) == IF a <= b THEN a ELSE b

First(S) == CHOOSE i \in S : \A j \in S : i <= j
Last(S) == CHOOSE i \in S : \A j \in S : j <= i
-----------------------------------------------------------------------------
\* normalise keeps no blank at either end and no space before the end of a line.
\* Line endings are one class here, as they are after its first replacement.
Survives(text, i) ==
    \/ ~BlankAt(text, i)
    \/ /\ \E j \in 1..(i - 1) : ~BlankAt(text, j)
       /\ \E j \in (i + 1)..Len(text) : ~BlankAt(text, j)
       /\ \/ text[i] = "newline"
          \/ \E j \in (i + 1)..Len(text) :
                ~BlankAt(text, j) /\ \A k \in i..j : text[k] # "newline"

Normalised(text) ==
    LET kept == {i \in DOMAIN text : Survives(text, i)}
        Nth(n) == CHOOSE i \in kept : Cardinality({j \in kept : j <= i}) = n
    IN  [n \in 1..Cardinality(kept) |-> text[Nth(n)]]
-----------------------------------------------------------------------------
\* int((hard_end - start) * (1 - _LOOKBACK_FRACTION)), at least one character on.
WindowStart(start, hard) == Larger(start + (13 * (hard - start)) \div 20, start + 1)

\* Where the matches of _PARAGRAPH, _SENTENCE and _WHITESPACE in text[from:to] end.
\* A lookbehind sees nothing before the slice.
ParagraphEnds(text, from, to) ==
    {e \in (from + 1)..to :
        /\ text[e] = "newline"
        /\ \E b \in (from + 1)..(e - 1) :
              text[b] = "newline" /\ \A m \in b..e : BlankAt(text, m)}

SentenceEnds(text, from, to) ==
    {e \in (from + 2)..to : BlankAt(text, e) /\ text[e - 1] = "stop"}

BlankEnds(text, from, to) == {e \in (from + 1)..to : BlankAt(text, e)}

\* _boundary: the last match of the first pattern that has one.
Boundary(text, start, hard) ==
    LET from == WindowStart(start, hard)
        paragraphs == ParagraphEnds(text, from, hard)
        sentences == SentenceEnds(text, from, hard)
        blanks == BlankEnds(text, from, hard)
    IN  IF paragraphs # {} THEN Last(paragraphs)
        ELSE IF sentences # {} THEN Last(sentences)
        ELSE IF blanks # {} THEN Last(blanks)
        ELSE hard

\* The body of the loop of chunk_text: the end of the passage that starts at cursor,
ChunkEnd(text, size, cursor) ==
    LET hard == Smaller(cursor + size, Len(text))
    IN  IF hard = Len(text) THEN hard ELSE Boundary(text, cursor, hard)

\* what strip leaves of text[from:to],
Solid(text, from, to) == {i \in (from + 1)..to : ~BlankAt(text, i)}

\* A variant that steps past the seam instead of back over it.
PastTheSeam(cursor, end, lap) == Larger(end + lap, cursor + 1)

\* A variant that starts again where the passage ended.
WithoutOverlap(cursor, end, lap) == end

\* A variant that always takes the smallest step.
OneByOne(cursor, end, lap) == cursor + 1

\* and where the next one starts.
NextCursor(cursor, end, lap) == Larger(end - lap, cursor + 1)
=============================================================================
