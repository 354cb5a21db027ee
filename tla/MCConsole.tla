----------------------------- MODULE MCConsole -----------------------------
(***************************************************************************)
(* Two logins, two calls in flight, one reload of the page.                *)
(***************************************************************************)
EXTENDS Console

CONSTANTS u1, c1, c2

MCUser == {u1}
MCOwnerOf == [t \in 1..MaxLogins |-> u1]
MCSlot == {c1, c2}
=============================================================================
