------------------------------ MODULE MCDagRun ------------------------------
(***************************************************************************)
(* The three DAGs with two entities to ingest, at most one retry of each   *)
(* task, three faults and one failure of the connector per behaviour.      *)
(***************************************************************************)
EXTENDS DagRun

TwoIngests == <<"ingest_clients", "ingest_loans">>
=============================================================================
