----------------------------- MODULE MCTsxTable -----------------------------
(***************************************************************************)
(* TsxTable for TLC.  One key of each role is enough: entries of different *)
(* keys do not touch each other.                                           *)
(***************************************************************************)
EXTENDS TsxTable
=============================================================================
