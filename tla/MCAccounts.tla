----------------------------- MODULE MCAccounts -----------------------------
\* Small instances of Accounts for TLC.
EXTENDS Accounts, TLC

\* One name in two spellings and another one.
Lower(s) == IF s = "Ann" THEN "ann" ELSE s
ThreeSpellings == {"Ann", "ann", "bob"}
LowerThree == [s \in ThreeSpellings |-> Lower(s)]

\* Two names with one spelling each.
TwoNames == {"ann", "bob"}
LowerNames == [s \in TwoNames |-> s]

\* Of three spellings of two names, two are typed as usernames.
TwoUsernames == {"Ann", "bob"}

\* Requests are interchangeable.
RequestSymmetry == Permutations(Request)
=============================================================================
