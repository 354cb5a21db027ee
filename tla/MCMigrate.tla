----------------------------- MODULE MCMigrate -----------------------------
(***************************************************************************)
(* Two migrators, one row of one table, one fault.                         *)
(***************************************************************************)
EXTENDS RevisionFacts
=============================================================================
