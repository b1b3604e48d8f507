----------------------------- MODULE MCHistory ------------------------------
(* A ring of three sectors of two records.  It wraps after six records, so   *)
(* ten numbers take it round once and into the second sector again.          *)
EXTENDS History
=============================================================================
