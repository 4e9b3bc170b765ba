---------------------------- MODULE MCMockCrawl ----------------------------
(***************************************************************************)
(* One process ingests everything, a second one the offices; two offices,  *)
(* two clients and two loans, pages of one record, one failure asked for   *)
(* and one by chance, and one retry.                                       *)
(***************************************************************************)
EXTENDS MockCrawl

CONSTANTS all, some

Processes == {all, some}
Plans == (all :> DefaultOrder) @@ (some :> <<"offices">>)
LoanStatuses == {200, 600}
LoanPrincipals == {100}
ProductRates == {24}
PartSet == {0}
=============================================================================
