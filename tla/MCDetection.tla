---------------------------- MODULE MCDetection ----------------------------
\* Small instances of Detection for TLC.
EXTENDS Detection

EntryOf(id, at, account, failed) ==
    [id |-> id, source |-> "sshd", address |-> "host", at |-> at, account |-> account,
     failed |-> failed]

\* One address fails on two accounts for two hours: the shorter window ranks the
\* accounts the other way.
Burst == {EntryOf("a1", 1, "alice", TRUE), EntryOf("a2", 2, "alice", TRUE),
          EntryOf("b1", 2, "bob", TRUE), EntryOf("b2", 2, "bob", TRUE),
          EntryOf("b3", 3, "bob", TRUE)}

\* It fails on one account and gets in afterwards.
Intrusion == {EntryOf("a1", 1, "alice", TRUE), EntryOf("a2", 2, "alice", TRUE),
              EntryOf("a3", 3, "alice", TRUE), EntryOf("s1", 4, "bob", FALSE)}

\* Both at once: the failures on alice also end in a success.
Siege == Burst \cup {EntryOf("s1", 3, "alice", FALSE)}

Windows == {<<1, 4>>, <<1, 2>>, <<2, 4>>}
=============================================================================
