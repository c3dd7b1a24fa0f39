----------------------------- MODULE MCStmtCache -----------------------------
(* StmtCache for TLC.                                                      *)
EXTENDS StmtCache
=============================================================================
