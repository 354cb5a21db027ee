----------------------------- MODULE MCIngestion -----------------------------
\* Small instances of Ingestion for TLC.
EXTENDS Ingestion, TLC

FileOf(format, sound, lines) == [format |-> format, sound |-> sound, lines |-> lines]

\* Three rows and a blank line: one batch and a half.
Complete == FileOf("csv", TRUE, <<"event", "event", "blank", "event">>)

\* Failures of both kinds around a row, more than are reported.
Partial == FileOf("csv", TRUE, <<"undated", "event", "broken", "broken">>)

\* Read, and nothing of use in it.
Useless == FileOf("json", TRUE, <<"undated", "broken">>)
NoRecords == FileOf("json", TRUE, <<>>)

\* Not to be read: bad encoding, or nothing but blank lines.
Garbled == FileOf("csv", FALSE, <<>>)
BlankLines == FileOf("ndjson", TRUE, <<"blank">>)

\* The database refuses a row of the second batch.
Poisoned == FileOf("ndjson", TRUE, <<"event", "event", "unstorable">>)

Files == {Complete, Partial, Useless, NoRecords, Garbled, BlankLines, Poisoned}

\* Uploads are interchangeable.
UploadSymmetry == Permutations(Upload)
=============================================================================
