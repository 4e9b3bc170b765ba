------------------------------- MODULE DagRun -------------------------------
(***************************************************************************)
(* A run of one of the three DAGs of the platform, and the run after it:   *)
(* the scheduled pipeline, the manual backfill and the hourly maintenance. *)
(*                                                                         *)
(* Airflow itself (trigger rules, retries, the state of a run) is external *)
(* and modelled from how the DAGs use it; the tasks, their order, their    *)
(* rules and what each of them does are the code's.  A task is executed in *)
(* one step, or in several when it is retried or is a sensor that pokes.   *)
(*                                                                         *)
(* max_active_runs is 1 for each DAG: the next run begins when this one    *)
(* has ended.  Runs of two different DAGs at the same time are not here.   *)
(***************************************************************************)
EXTENDS Naturals, Sequences, FiniteSets

CONSTANTS
    Ingests,        \* the ingest tasks, in the order of the registry
    MaxRetries,     \* bound on the retries of a task, for TLC
    MaxFaults,      \* bound on what goes wrong in a behaviour
    MaxBreaks       \* bound on failures of the Debezium connector

ASSUME DagAssumption ==
    /\ Ingests \in Seq(STRING)
    /\ MaxRetries \in Nat /\ MaxFaults \in Nat /\ MaxBreaks \in Nat

VARIABLES
    dag,            \* which DAG this is a run of
    params,         \* those of its parameters that are set
    run,            \* "running", "success" or "failed"
    state,          \* of each task of the DAG
    tries,          \* retries used, per task
    acted,          \* history: tasks of the run that changed data
    connector,      \* the Debezium connector and its task
    results,        \* whose run_results.json is in dbt's target directory
    published,      \* whose results the run has put into fineract_ops
    counted,        \* fineract_pipeline_failed_tasks as the run pushed it
    pushed,         \* whether that push arrived
    faults, breaks  \* how much has gone wrong

world == <<connector, results, published, counted, pushed, breaks>>
vars == <<dag, params, run, state, tries, acted, world, faults>>

-----------------------------------------------------------------------------
(* The graphs.  Each DAG is a sequence of layers: all tasks of a layer are *)
(* upstream of all tasks of the next.                                      *)

Preflight == {"check_fineract_api", "check_postgres", "check_clickhouse",
              "check_debezium_connector"}

Ingest == [i \in DOMAIN Ingests |-> {Ingests[i]}]

\* Mutant: the metrics are pushed as soon as the models are built.
EarlyMetrics ==
    << {"start"}, Preflight >>
    \o Ingest
    \o << {"wait_for_cdc_to_catch_up"},
          {"dbt_deps"}, {"dbt_seed"}, {"dbt_run_staging"},
          {"dbt_run_intermediate"}, {"dbt_run_marts"}, {"dbt_run_ml"},
          {"publish_pipeline_metrics"},
          {"dbt_source_freshness"}, {"dbt_test"}, {"publish_dbt_results"},
          {"data_quality_gate"}, {"finish"} >>

Pipeline ==
    << {"start"}, Preflight >>
    \o Ingest
    \o << {"wait_for_cdc_to_catch_up"},
          {"dbt_deps"}, {"dbt_seed"}, {"dbt_run_staging"},
          {"dbt_run_intermediate"}, {"dbt_run_marts"}, {"dbt_run_ml"},
          {"dbt_source_freshness"}, {"dbt_test"},
          {"publish_dbt_results", "publish_pipeline_metrics"},
          {"data_quality_gate"}, {"finish"} >>

Backfill ==
    << {"start"}, {"validate_parameters"}, {"snapshot_row_counts_before"},
       {"reingest_from_source"}, {"build_dbt_arguments"},
       {"dbt_full_refresh"}, {"verify_row_counts_after"}, {"finish"} >>

Maintenance ==
    << {"start"}, {"cdc_heartbeat"},
       {"check_replication_slots", "check_connector_health"},
       {"optimize_clickhouse_tables"}, {"report_merge_pressure"},
       {"apply_retention", "report_open_rejects"}, {"finish"} >>

Dags == {"fineract_analytics_pipeline", "fineract_backfill",
         "platform_maintenance"}

Layers == [d \in Dags |->
    CASE d = "fineract_analytics_pipeline" -> Pipeline
      [] d = "fineract_backfill" -> Backfill
      [] d = "platform_maintenance" -> Maintenance]

Tasks(d) == UNION {Layers[d][i] : i \in DOMAIN Layers[d]}

\* A task that ingests is named after its entity, and like no other task.
ASSUME IngestNames ==
    \A i \in DOMAIN Ingests :
        /\ \A j \in DOMAIN Pipeline : Ingests[i] \in Pipeline[j] => j = i + 2
        /\ Ingests[i] \notin Tasks("fineract_backfill")
        /\ Ingests[i] \notin Tasks("platform_maintenance")

Upstream(t) ==
    UNION {Layers[dag][i] : i \in {j \in DOMAIN Layers[dag] :
        j + 1 \in DOMAIN Layers[dag] /\ t \in Layers[dag][j + 1]}}

\* Mutant: dbt starts whatever became of the CDC gate.
NoCdcGate(t) ==
    IF t \in {"dbt_deps", "dbt_source_freshness", "publish_dbt_results",
              "publish_pipeline_metrics", "verify_row_counts_after"}
      THEN "all_done"
    ELSE IF t = "finish" /\ dag = "fineract_analytics_pipeline"
      THEN "none_failed_min_one_success"
    ELSE "all_success"

Rule(t) ==
    IF t \in {"dbt_source_freshness", "publish_dbt_results",
              "publish_pipeline_metrics", "verify_row_counts_after"}
      THEN "all_done"
    ELSE IF t = "finish" /\ dag = "fineract_analytics_pipeline"
      THEN "none_failed_min_one_success"
    ELSE "all_success"

\* Retries of a task: its own, or those of default_args.
DeclaredRetries(t) ==
    IF t \in {"dbt_source_freshness", "data_quality_gate"} THEN 0
    ELSE IF t = "publish_dbt_results" THEN 1
    ELSE IF t = "dbt_deps" THEN 2
    ELSE IF dag = "fineract_analytics_pipeline" THEN 3
    ELSE IF dag = "fineract_backfill" THEN 1
    ELSE 2

Retries(t) ==
    IF DeclaredRetries(t) < MaxRetries THEN DeclaredRetries(t) ELSE MaxRetries

\* Tasks that change the landing tables or the warehouse.
DataTasks ==
    {Ingests[i] : i \in DOMAIN Ingests}
    \cup {"dbt_seed", "dbt_run_staging", "dbt_run_intermediate",
          "dbt_run_marts", "dbt_run_ml", "dbt_full_refresh",
          "reingest_from_source", "optimize_clickhouse_tables",
          "apply_retention"}

\* The parameters of a DAG that decide what a task does.
Ticks == [d \in Dags |->
    CASE d = "fineract_analytics_pipeline" -> {}
      [] d = "fineract_backfill" -> {"confirm", "reingest"}
      [] d = "platform_maintenance" -> {"optimize"}]

State == {"none", "success", "failed", "upstream_failed", "skipped"}
Bad == {"failed", "upstream_failed"}

TypeOK ==
    /\ dag \in Dags
    /\ params \in SUBSET Ticks[dag]
    /\ run \in {"running", "success", "failed"}
    /\ state \in [Tasks(dag) -> State]
    /\ tries \in [Tasks(dag) -> Nat]
    /\ acted \subseteq DataTasks
    /\ connector \in {"running", "task_failed", "failed"}
    /\ results \in {"none", "earlier", "this"}
    /\ published \in {"none", "earlier", "this"}
    /\ counted \in Nat
    /\ pushed \in BOOLEAN
    /\ faults \in 0..MaxFaults
    /\ breaks \in 0..MaxBreaks

Init ==
    /\ dag \in Dags
    /\ params \in SUBSET Ticks[dag]
    /\ run = "running"
    /\ state = [t \in Tasks(dag) |-> "none"]
    /\ tries = [t \in Tasks(dag) |-> 0]
    /\ acted = {}
    /\ connector = "running"
    /\ results \in {"none", "earlier"}
    /\ published = "none"
    /\ counted = 0
    /\ pushed = FALSE
    /\ faults = 0
    /\ breaks = 0

-----------------------------------------------------------------------------
(* Airflow's scheduler.                                                    *)

Done(t) == state[t] # "none"

SomeUpstream(t, S) == \E u \in Upstream(t) : state[u] \in S
AllUpstreamDone(t) == \A u \in Upstream(t) : Done(u)

Ready(t) ==
    /\ run = "running"
    /\ ~Done(t)
    /\ AllUpstreamDone(t)
    /\ CASE Rule(t) = "all_done" -> TRUE
         [] Rule(t) = "all_success" ->
              \A u \in Upstream(t) : state[u] = "success"
         [] Rule(t) = "none_failed_min_one_success" ->
              ~SomeUpstream(t, Bad) /\ SomeUpstream(t, {"success"})

Ends(t, s) ==
    /\ state' = [state EXCEPT ![t] = s]
    /\ UNCHANGED <<dag, params, run, tries>>

\* A task raises: it is tried again while it has retries.
Raises(t) ==
    \/ /\ tries[t] < Retries(t)
       /\ tries' = [tries EXCEPT ![t] = @ + 1]
       /\ UNCHANGED <<dag, params, run, state>>
    \/ /\ tries[t] >= Retries(t)
       /\ Ends(t, "failed")

NoFault == UNCHANGED faults
Fault == faults < MaxFaults /\ faults' = faults + 1

\* An upstream failure reaches a task without waiting for its siblings.
Cascade(t) ==
    /\ run = "running"
    /\ ~Done(t)
    /\ \/ /\ Rule(t) # "all_done"
          /\ SomeUpstream(t, Bad)
          /\ Ends(t, "upstream_failed")
       \/ /\ Rule(t) = "all_success"
          /\ ~SomeUpstream(t, Bad)
          /\ SomeUpstream(t, {"skipped"})
          /\ Ends(t, "skipped")
       \/ /\ Rule(t) = "none_failed_min_one_success"
          /\ Upstream(t) # {}
          /\ \A u \in Upstream(t) : state[u] = "skipped"
          /\ Ends(t, "skipped")
    /\ UNCHANGED <<acted, world, faults>>

\* Mutant: the run takes the state of its leaf as it is.
EndAsLeaf ==
    /\ run = "running"
    /\ \A t \in Tasks(dag) : Done(t)
    /\ run' = state["finish"]
    /\ UNCHANGED <<dag, params, state, tries, acted, world, faults>>

\* The state of a run is that of its leaf, once every task is done.
EndRun ==
    /\ run = "running"
    /\ \A t \in Tasks(dag) : Done(t)
    /\ run' = IF state["finish"] \in Bad THEN "failed" ELSE "success"
    /\ UNCHANGED <<dag, params, state, tries, acted, world, faults>>

\* dagrun_timeout: only the pipeline and the backfill have one, and it is
\* far longer than the preflight sensors are allowed to poke.
TimeoutRun ==
    /\ run = "running"
    /\ dag # "platform_maintenance"
    /\ dag = "fineract_analytics_pipeline" => \A t \in Preflight : Done(t)
    /\ Fault
    /\ run' = "failed"
    /\ state' = [t \in Tasks(dag) |->
                    IF Done(t) THEN state[t] ELSE "skipped"]
    /\ UNCHANGED <<dag, params, tries, acted, world>>

\* The schedule, or an operator, starts the next run.
NextRun ==
    /\ run # "running"
    /\ run' = "running"
    /\ params' \in SUBSET Ticks[dag]
    /\ state' = [t \in Tasks(dag) |-> "none"]
    /\ tries' = [t \in Tasks(dag) |-> 0]
    /\ acted' = {}
    /\ results' = IF results = "none" THEN "none" ELSE "earlier"
    /\ published' = "none"
    /\ counted' = 0
    /\ pushed' = FALSE
    /\ UNCHANGED <<dag, connector, faults, breaks>>

-----------------------------------------------------------------------------
(* Kafka Connect.                                                          *)

Break ==
    /\ connector = "running"
    /\ breaks < MaxBreaks
    /\ breaks' = breaks + 1
    /\ connector' \in {"task_failed", "failed"}
    /\ UNCHANGED <<dag, params, run, state, tries, acted, results, published,
                   counted, pushed, faults>>

\* Only the tasks of a connector are ever restarted by the platform.
Repair ==
    /\ connector = "failed"
    /\ connector' = "running"
    /\ UNCHANGED <<dag, params, run, state, tries, acted, results, published,
                   counted, pushed, faults, breaks>>

\* Mutant: a failed task is noticed and left alone.
RestartNothing == UNCHANGED connector

\* is_running, then restart_failed_tasks if a task is FAILED.
RestartFailedTasks ==
    connector' = IF connector = "task_failed" THEN "running" ELSE connector

-----------------------------------------------------------------------------
(* Tasks that have nothing to do with the world, or only read it.          *)

Empty == {"start", "finish"}

RunEmpty(t) ==
    /\ t \in Empty
    /\ Ends(t, "success")
    /\ NoFault
    /\ UNCHANGED <<acted, world>>

\* A service answers, or the sensor times out, which is not retried.
Sense(t) ==
    /\ t \in Preflight \ {"check_debezium_connector"}
    /\ \/ Ends(t, "success") /\ NoFault
       \/ Ends(t, "failed") /\ Fault
    /\ UNCHANGED <<acted, world>>

\* The gate sees the counts and the freshness, or times out, or a query
\* raises.
Gate(t) ==
    /\ t = "wait_for_cdc_to_catch_up"
    /\ \/ Ends(t, "success") /\ NoFault
       \/ Ends(t, "failed") /\ Fault
       \/ Raises(t) /\ Fault
    /\ UNCHANGED <<acted, world>>

\* Mutant: the sensor has no timeout.
PokeForever(t) == UNCHANGED <<dag, params, run, state, tries>>

\* A poke that found nothing is followed by another, until the time is up,
\* which is not retried.
PokesOn(t) ==
    \/ Ends(t, "failed")
    \/ UNCHANGED <<dag, params, run, state, tries>>

\* A poke that finds the connector unhealthy restarts what it may; it is
\* the next poke that succeeds, if the time is not up.  If Kafka Connect does
\* not say how the connector is, nothing is restarted; if the restart raises,
\* perhaps when it has been asked for, so does the poke.
PokeConnector(t) ==
    /\ t = "check_debezium_connector"
    /\ \/ /\ connector = "running"
          /\ Ends(t, "success")
          /\ NoFault
          /\ UNCHANGED connector
       \/ /\ connector # "running"
          /\ PokesOn(t)
          /\ NoFault
          /\ RestartFailedTasks
       \/ /\ PokesOn(t)
          /\ Fault
          /\ UNCHANGED connector
       \/ /\ connector # "running"
          /\ Raises(t)
          /\ Fault
          /\ RestartFailedTasks \/ UNCHANGED connector
    /\ UNCHANGED <<acted, results, published, counted, pushed, breaks>>

-----------------------------------------------------------------------------
(* The pipeline.                                                           *)

\* One entity is loaded, or main returns another exit code, perhaps after
\* the batch has landed.
RunIngestion(t) ==
    /\ t \in {Ingests[i] : i \in DOMAIN Ingests}
    /\ acted' = acted \cup {t}
    /\ \/ Ends(t, "success") /\ NoFault
       \/ Raises(t) /\ Fault
    /\ UNCHANGED world

DbtCommand ==
    [dbt_deps |-> "deps", dbt_seed |-> "seed", dbt_run_staging |-> "run",
     dbt_run_intermediate |-> "run", dbt_run_marts |-> "run",
     dbt_run_ml |-> "run", dbt_source_freshness |-> "source freshness",
     dbt_test |-> "test", dbt_full_refresh |-> "build"]

\* The command is one argument of the command line, and dbt refuses an
\* argument that is not a command: it has a command "source".
IsCommand(c) == c \in {"deps", "seed", "run", "test", "build", "source"}

\* Mutant: the results of the models are not written to the target.
OnlyTestsLeaveResults(c) == c \in {"test", "build"}

LeavesResults(c) == c \in {"seed", "run", "test", "build"}

\* A dbt command: what it leaves in the target directory is there whether
\* it succeeded or not.  A return code that is not 0 is not retried; anything
\* else that ends it, such as its execution_timeout, is.
Dbt(t) ==
    /\ t \in DOMAIN DbtCommand
    /\ acted' = acted \cup ({t} \cap DataTasks)
    /\ \/ /\ IsCommand(DbtCommand[t])
          /\ Ends(t, "success")
          /\ NoFault
          /\ results' = IF LeavesResults(DbtCommand[t]) THEN "this"
                        ELSE results
       \/ /\ (IsCommand(DbtCommand[t]) /\ Ends(t, "failed")) \/ Raises(t)
          /\ Fault
          /\ results' \in IF LeavesResults(DbtCommand[t])
                            THEN {results, "this"} ELSE {results}
       \/ /\ ~IsCommand(DbtCommand[t])
          /\ Ends(t, "failed")
          /\ NoFault
          /\ UNCHANGED results
    /\ UNCHANGED <<connector, published, counted, pushed, breaks>>

\* publish_dbt_results loads the file it finds, whoever left it there.
PublishResults(t) ==
    /\ t = "publish_dbt_results"
    /\ \/ /\ results = "none"
          /\ Ends(t, "skipped")
          /\ NoFault
          /\ UNCHANGED published
       \/ /\ results # "none"
          /\ Ends(t, "success")
          /\ NoFault
          /\ published' = results
       \/ /\ results # "none"
          /\ Raises(t)
          /\ Fault
          /\ UNCHANGED published
    /\ UNCHANGED <<acted, connector, results, counted, pushed, breaks>>

Failed == {t \in Tasks(dag) : state[t] = "failed"}

\* The push is best effort; the rest of the task may raise.
PublishMetrics(t) ==
    /\ t = "publish_pipeline_metrics"
    /\ \/ /\ Ends(t, "success")
          /\ NoFault
          /\ counted' = Cardinality(Failed)
          /\ pushed' = TRUE
       \/ /\ Ends(t, "success")
          /\ Fault
          /\ UNCHANGED <<counted, pushed>>
       \/ /\ Raises(t)
          /\ Fault
          /\ UNCHANGED <<counted, pushed>>
    /\ UNCHANGED <<acted, connector, results, published, breaks>>

\* DEFAULT_CHECKS: which of them are blocking.
Checks ==
    [marts_not_empty |-> TRUE, no_duplicate_loans |-> TRUE,
     no_duplicate_transactions |-> TRUE, no_negative_outstanding |-> TRUE,
     cdc_parse_errors |-> FALSE, ml_label_leakage |-> TRUE,
     dimension_coverage |-> FALSE]

\* tripped: the checks that do not hold, or whose query fails.
QualityGate(t) ==
    /\ t = "data_quality_gate"
    /\ \E tripped \in SUBSET DOMAIN Checks :
          IF \E c \in tripped : Checks[c]
            THEN Ends(t, "failed") /\ Fault
            ELSE Ends(t, "success") /\ NoFault
    /\ UNCHANGED <<acted, world>>

-----------------------------------------------------------------------------
(* The backfill.                                                           *)

ValidateParameters(t) ==
    /\ t = "validate_parameters"
    /\ IF "confirm" \in params THEN Ends(t, "success") ELSE Raises(t)
    /\ NoFault
    /\ UNCHANGED <<acted, world>>

Reingest(t) ==
    /\ t = "reingest_from_source"
    /\ \/ /\ Ends(t, "success")
          /\ NoFault
          /\ acted' = IF "reingest" \in params THEN acted \cup {t} ELSE acted
       \/ /\ "reingest" \in params
          /\ Raises(t)
          /\ Fault
          /\ acted' = acted \cup {t}
    /\ UNCHANGED world

\* Mutant: a snapshot that was not taken counts as an empty one.
TolerantSnapshot == TRUE

\* The counts from before the rebuild, if the task that takes them ran.
HasSnapshot == state["snapshot_row_counts_before"] = "success"

\* Without the earlier counts there is nothing to iterate over: it raises.
VerifyAfter(t) ==
    /\ t = "verify_row_counts_after"
    /\ IF HasSnapshot
         THEN \/ Ends(t, "success") /\ NoFault
              \/ Raises(t) /\ Fault
         ELSE Raises(t) /\ NoFault
    /\ UNCHANGED <<acted, world>>

-----------------------------------------------------------------------------
(* Maintenance.                                                            *)

CheckConnectorHealth(t) ==
    /\ t = "check_connector_health"
    /\ \/ /\ Ends(t, "success")
          /\ NoFault
          /\ RestartFailedTasks
       \/ /\ Raises(t)
          /\ Fault
          /\ RestartFailedTasks \/ UNCHANGED connector
    /\ UNCHANGED <<acted, results, published, counted, pushed, breaks>>

\* OPTIMIZE, if the parameter says so, and retention.
Housekeep(t) ==
    /\ t \in {"optimize_clickhouse_tables", "apply_retention"}
    /\ acted' = IF t = "optimize_clickhouse_tables" /\ "optimize" \notin params
                  THEN acted ELSE acted \cup {t}
    /\ \/ Ends(t, "success") /\ NoFault
       \/ Raises(t) /\ Fault
    /\ UNCHANGED world

\* A query each: it answers as the task hopes, or the task raises.
Queries == {"snapshot_row_counts_before", "build_dbt_arguments",
            "cdc_heartbeat", "check_replication_slots",
            "report_merge_pressure", "report_open_rejects"}

Query(t) ==
    /\ t \in Queries
    /\ \/ Ends(t, "success") /\ NoFault
       \/ Raises(t) /\ Fault
    /\ UNCHANGED <<acted, world>>

-----------------------------------------------------------------------------
Execute(t) ==
    /\ Ready(t)
    /\ \/ RunEmpty(t)
       \/ Sense(t)
       \/ Gate(t)
       \/ PokeConnector(t)
       \/ RunIngestion(t)
       \/ Dbt(t)
       \/ PublishResults(t)
       \/ PublishMetrics(t)
       \/ QualityGate(t)
       \/ ValidateParameters(t)
       \/ Reingest(t)
       \/ VerifyAfter(t)
       \/ CheckConnectorHealth(t)
       \/ Housekeep(t)
       \/ Query(t)

Step ==
    \/ \E t \in Tasks(dag) : Execute(t) \/ Cascade(t)
    \/ EndRun
    \/ NextRun

Next == Step \/ TimeoutRun \/ Break \/ Repair

Spec == Init /\ [][Next]_vars

(***************************************************************************)
(* The scheduler and its workers make progress: execution_timeout and the  *)
(* timeouts of the sensors end a task that hangs.  What goes wrong goes    *)
(* wrong a bounded number of times, and nobody has to repair a connector.  *)
(***************************************************************************)
FairSpec == Spec /\ WF_vars(Step)

-----------------------------------------------------------------------------
(* Everything in the layers before a task.                                 *)
Before(t) ==
    UNION {Layers[dag][i] : i \in {j \in DOMAIN Layers[dag] :
        \E k \in DOMAIN Layers[dag] : j < k /\ t \in Layers[dag][k]}}

(* A task that changes data has run only if every task before it in the    *)
(* DAG succeeded: no model is built on a batch that was not ingested, not  *)
(* delivered or not built, and nothing is trimmed past a bad slot.         *)
WorkNeedsACleanRun ==
    \A t \in acted : \A u \in Before(t) : state[u] = "success"

(* A pipeline run whose tasks failed may still be green, because finish    *)
(* looks at the publish tasks and the gate only.  But the metric it pushed *)
(* has counted every failure, unless a preflight sensor was still poking   *)
(* when another had failed already; and a green run that counted one       *)
(* failure at most, that of dbt_source_freshness, has ingested and built   *)
(* everything it serves.                                                   *)
GreenRunsAreCounted ==
    (dag = "fineract_analytics_pipeline" /\ run = "success" /\ pushed) =>
        /\ Cardinality(Failed \ Preflight) <= counted
        /\ counted <= 1 => \A t \in DataTasks \cap Tasks(dag) :
                              state[t] = "success"

(* A backfill nobody confirmed changes nothing and never ends well, though *)
(* its last check runs whatever happened before.                           *)
UnconfirmedBackfillFails ==
    (dag = "fineract_backfill" /\ "confirm" \notin params)
        => acted = {} /\ run # "success"

(* Results of an earlier run are published under this run's id only if no  *)
(* dbt task that builds models succeeded in it.  (One that was killed may  *)
(* have built some.)                                                       *)
StaleResultsOnlyWithoutModels ==
    published = "earlier" =>
        \A t \in DOMAIN DbtCommand \cap DataTasks \cap Tasks(dag) :
            state[t] # "success"

(* Every run ends.                                                         *)
RunsEnd == run = "running" ~> run # "running"

(* A failed Debezium task is restarted by the DAGs that run on a schedule. *)
ConnectorHeals ==
    (dag # "fineract_backfill" /\ connector = "task_failed")
        ~> connector # "task_failed"

(* Freshness is a warning, not a gate: dbt_test is not held back by it.    *)
FreshnessIsNotAGate ==
    (dag = "fineract_analytics_pipeline"
        /\ state["dbt_test"] = "upstream_failed")
        => Failed \ {"dbt_source_freshness"} # {}
=============================================================================
