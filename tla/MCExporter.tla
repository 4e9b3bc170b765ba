----------------------------- MODULE MCExporter -----------------------------
(***************************************************************************)
(* Two of the nine collectors, one of each database, the first with two    *)
(* queries and three gauges; an entity that runs twice and one that never  *)
(* does, a topic of either name that comes, one outage.                    *)
(***************************************************************************)
EXTENDS Exporter

TwoLabels == {"clients", "loans"}
TwoRuns == [l \in TwoLabels |-> IF l = "clients" THEN 2 ELSE 0]
TwoCollectors == <<"ingestion_run", "cdc_parse_errors">>
=============================================================================
