-------------------------- MODULE MCFineractClient --------------------------
(***************************************************************************)
(* A collection of up to four records in pages of two, read in at most two *)
(* pages, each with one retry.                                             *)
(***************************************************************************)
EXTENDS FineractClient, TLC

FourIds == {1, 2, 3, 4}
Shortfalls == {0, 1}
=============================================================================
