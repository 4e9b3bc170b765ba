---------------------------- MODULE DagRunProofs ----------------------------
(***************************************************************************)
(* What a run of the DAGs may do and what it says of itself, for any       *)
(* number of entities to ingest, of retries and of faults, and any runs    *)
(* before it: data change behind successes only; results published are of  *)
(* the run itself unless it has built no models; and the metric of a run   *)
(* that ends well counts what failed in it.                                *)
(*                                                                         *)
(* Everything rests on the order of the layers: nothing starts before the  *)
(* layer in front of it has ended, so what has not ended has nothing       *)
(* behind it that started (TailInOrder, InOrder).                          *)
(***************************************************************************)
EXTENDS DagRun, FiniteSetTheorems, FunctionTheorems, SequenceTheorems, TLAPS

-----------------------------------------------------------------------------
(* The graphs, layer by layer.                                             *)

PipelineHead == << {"start"}, Preflight >>

PipelineTail ==
    << {"wait_for_cdc_to_catch_up"},
       {"dbt_deps"}, {"dbt_seed"}, {"dbt_run_staging"},
       {"dbt_run_intermediate"}, {"dbt_run_marts"}, {"dbt_run_ml"},
       {"dbt_source_freshness"}, {"dbt_test"},
       {"publish_dbt_results", "publish_pipeline_metrics"},
       {"data_quality_gate"}, {"finish"} >>

\* The tasks that do not ask for success of all that is before them.
Lenient == {"dbt_source_freshness", "publish_dbt_results",
            "publish_pipeline_metrics", "verify_row_counts_after"}

LEMMA LayersOf ==
    /\ Layers["fineract_analytics_pipeline"] = Pipeline
    /\ Layers["fineract_backfill"] = Backfill
    /\ Layers["platform_maintenance"] = Maintenance
<1>1. "fineract_analytics_pipeline" \in Dags /\ "fineract_backfill" \in Dags
      /\ "platform_maintenance" \in Dags
  BY DEF Dags
<1> QED BY <1>1 DEF Layers

LEMMA TwelveInSeq ==
    ASSUME NEW S, NEW a \in S, NEW b \in S, NEW c \in S, NEW d \in S,
           NEW e \in S, NEW f \in S, NEW g \in S, NEW h \in S, NEW i \in S,
           NEW j \in S, NEW k \in S, NEW l \in S
    PROVE  /\ <<a, b, c, d, e, f, g, h, i, j, k, l>> \in Seq(S)
           /\ Len(<<a, b, c, d, e, f, g, h, i, j, k, l>>) = 12
OBVIOUS

LEMMA TwoInSeq ==
    ASSUME NEW S, NEW a \in S, NEW b \in S
    PROVE  <<a, b>> \in Seq(S) /\ Len(<<a, b>>) = 2
OBVIOUS

\* What is where in a concatenation.
LEMMA ConcatParts ==
    ASSUME NEW S, NEW s \in Seq(S), NEW t \in Seq(S)
    PROVE  /\ s \o t \in Seq(S)
           /\ Len(s \o t) = Len(s) + Len(t)
           /\ \A i \in 1..Len(s) : (s \o t)[i] = s[i]
           /\ \A i \in 1..Len(t) : (s \o t)[Len(s) + i] = t[i]
OBVIOUS

LEMMA PipelineLayers ==
    /\ Len(Ingests) \in Nat
    /\ DOMAIN Pipeline = 1..(Len(Ingests) + 14)
    /\ Pipeline[1] = {"start"}
    /\ Pipeline[2] = Preflight
    /\ \A i \in 1..Len(Ingests) : Pipeline[2 + i] = {Ingests[i]}
    /\ \A m \in 1..12 : Pipeline[Len(Ingests) + 2 + m] = PipelineTail[m]
<1> DEFINE n == Len(Ingests)
           S == {{Ingests[i]} : i \in 1..n} \cup
                {{"start"}, Preflight, {"wait_for_cdc_to_catch_up"},
                 {"dbt_deps"}, {"dbt_seed"}, {"dbt_run_staging"},
                 {"dbt_run_intermediate"}, {"dbt_run_marts"}, {"dbt_run_ml"},
                 {"dbt_source_freshness"}, {"dbt_test"},
                 {"publish_dbt_results", "publish_pipeline_metrics"},
                 {"data_quality_gate"}, {"finish"}}
<1>1. n \in Nat /\ DOMAIN Ingests = 1..n
  BY DagAssumption
<1>2. PipelineHead \in Seq(S) /\ Len(PipelineHead) = 2
  <2>1. {"start"} \in S /\ Preflight \in S
    OBVIOUS
  <2> HIDE DEF S
  <2> QED BY <2>1, TwoInSeq DEF PipelineHead
<1>3. PipelineTail \in Seq(S) /\ Len(PipelineTail) = 12
  <2>1. /\ {"wait_for_cdc_to_catch_up"} \in S /\ {"dbt_deps"} \in S
        /\ {"dbt_seed"} \in S /\ {"dbt_run_staging"} \in S
        /\ {"dbt_run_intermediate"} \in S /\ {"dbt_run_marts"} \in S
        /\ {"dbt_run_ml"} \in S /\ {"dbt_source_freshness"} \in S
        /\ {"dbt_test"} \in S
        /\ {"publish_dbt_results", "publish_pipeline_metrics"} \in S
        /\ {"data_quality_gate"} \in S /\ {"finish"} \in S
    OBVIOUS
  <2> HIDE DEF S
  <2> QED BY <2>1, TwelveInSeq DEF PipelineTail
<1>4. /\ Ingest \in Seq(S) /\ Len(Ingest) = n
      /\ \A i \in 1..n : Ingest[i] = {Ingests[i]}
  <2>1. Ingest = [i \in 1..n |-> {Ingests[i]}]
    BY <1>1 DEF Ingest
  <2>2. \A i \in 1..n : {Ingests[i]} \in S
    OBVIOUS
  <2> HIDE DEF S, n
  <2> QED BY <1>1, <2>1, <2>2
<1> HIDE DEF S, n
<1> DEFINE front == PipelineHead \o Ingest
<1>5. Pipeline = front \o PipelineTail
  BY DEF Pipeline, PipelineHead, PipelineTail
<1>6. /\ front \in Seq(S) /\ Len(front) = 2 + n
      /\ \A i \in 1..2 : front[i] = PipelineHead[i]
      /\ \A i \in 1..n : front[2 + i] = Ingest[i]
  <2>1. PipelineHead \in Seq(S)
    BY <1>2
  <2>2. Ingest \in Seq(S)
    BY <1>4
  <2>3. /\ front \in Seq(S)
        /\ Len(front) = Len(PipelineHead) + Len(Ingest)
        /\ \A i \in 1..Len(PipelineHead) : front[i] = PipelineHead[i]
        /\ \A i \in 1..Len(Ingest) : front[Len(PipelineHead) + i] = Ingest[i]
    BY <2>1, <2>2, ConcatParts
  <2> QED BY <1>2, <1>4, <2>3
<1> HIDE DEF front
<1>7. /\ Pipeline \in Seq(S) /\ Len(Pipeline) = (2 + n) + 12
      /\ \A i \in 1..(2 + n) : Pipeline[i] = front[i]
      /\ \A i \in 1..12 : Pipeline[(2 + n) + i] = PipelineTail[i]
  <2>1. front \in Seq(S)
    BY <1>6
  <2>2. PipelineTail \in Seq(S)
    BY <1>3
  <2>3. /\ front \o PipelineTail \in Seq(S)
        /\ Len(front \o PipelineTail) = Len(front) + Len(PipelineTail)
        /\ \A i \in 1..Len(front) : (front \o PipelineTail)[i] = front[i]
        /\ \A i \in 1..Len(PipelineTail) :
              (front \o PipelineTail)[Len(front) + i] = PipelineTail[i]
    BY <2>1, <2>2, ConcatParts
  <2> QED BY <1>3, <1>5, <1>6, <2>3
<1>8. DOMAIN Pipeline = 1..(n + 14)
  BY <1>1, <1>7
<1>9. Pipeline[1] = {"start"} /\ Pipeline[2] = Preflight
  <2>1. PipelineHead[1] = {"start"} /\ PipelineHead[2] = Preflight
    BY DEF PipelineHead
  <2>2. Pipeline[1] = front[1] /\ Pipeline[2] = front[2]
    BY <1>1, <1>7
  <2> QED BY <1>6, <2>1, <2>2
<1>10. ASSUME NEW i \in 1..n PROVE Pipeline[2 + i] = {Ingests[i]}
  <2>1. 2 + i \in 1..(2 + n)
    BY <1>1
  <2> QED BY <1>4, <1>6, <1>7, <2>1
<1>11. ASSUME NEW m \in 1..12 PROVE Pipeline[n + 2 + m] = PipelineTail[m]
  <2>1. n + 2 + m = (2 + n) + m
    BY <1>1
  <2> QED BY <1>7, <2>1
<1> QED BY <1>1, <1>8, <1>9, <1>10, <1>11 DEF n

\* Where a layer of the pipeline is.
LEMMA PipelineCases ==
    ASSUME NEW j \in DOMAIN Pipeline
    PROVE  \/ j = 1
           \/ j = 2
           \/ \E i \in 1..Len(Ingests) : j = 2 + i
           \/ \E m \in 1..12 : j = Len(Ingests) + 2 + m
<1>1. j \in 1..(Len(Ingests) + 14) /\ Len(Ingests) \in Nat
  BY PipelineLayers
<1>2. CASE j > 2 /\ j <= Len(Ingests) + 2
  <2>1. j - 2 \in 1..Len(Ingests) /\ j = 2 + (j - 2)
    BY <1>1, <1>2
  <2> QED BY <2>1
<1>3. CASE j > Len(Ingests) + 2
  <2>1. j \in Nat /\ j <= Len(Ingests) + 14
    BY <1>1
  <2>2. j - (Len(Ingests) + 2) \in 1..12
        /\ j = Len(Ingests) + 2 + (j - (Len(Ingests) + 2))
    BY <1>1, <1>3, <2>1
  <2> QED BY <2>2
<1> QED BY <1>1, <1>2, <1>3

\* The numbers of the layers.
LEMMA LayerIndices ==
    /\ Len(Ingests) \in Nat
    /\ \A j \in DOMAIN Pipeline : j \in Nat /\ j >= 1 /\ j <= Len(Ingests) + 14
    /\ \A m \in 1..12 : Len(Ingests) + 2 + m \in DOMAIN Pipeline
    /\ 1 \in DOMAIN Pipeline /\ 2 \in DOMAIN Pipeline
<1>1. Len(Ingests) \in Nat /\ DOMAIN Pipeline = 1..(Len(Ingests) + 14)
  BY PipelineLayers
<1> QED BY <1>1

\* No layer is empty.
LEMMA NoEmptyLayer ==
    ASSUME NEW d \in Dags
    PROVE  \A j \in DOMAIN Layers[d] : j \in Nat /\ Layers[d][j] # {}
           /\ \A i \in 1..j : i \in DOMAIN Layers[d]
<1>1. CASE d = "fineract_analytics_pipeline"
  <2>1. ASSUME NEW j \in DOMAIN Pipeline PROVE Pipeline[j] # {}
    <3>1. \A m \in 1..12 : PipelineTail[m] # {}
      BY DEF PipelineTail
    <3>2. CASE j = 1 \/ j = 2
      BY <3>2, PipelineLayers DEF Preflight
    <3>3. CASE \E i \in 1..Len(Ingests) : j = 2 + i
      BY <3>3, PipelineLayers
    <3>4. CASE \E m \in 1..12 : j = Len(Ingests) + 2 + m
      BY <3>4, <3>1, PipelineLayers
    <3> QED BY <3>2, <3>3, <3>4, PipelineCases
  <2>2. DOMAIN Pipeline = 1..(Len(Ingests) + 14) /\ Len(Ingests) \in Nat
    BY PipelineLayers
  <2>3. \A j \in DOMAIN Pipeline : j \in Nat /\ \A i \in 1..j : i \in DOMAIN Pipeline
    BY <2>2
  <2> QED BY <1>1, <2>1, <2>3, LayersOf
<1>2. CASE d = "fineract_backfill"
  BY <1>2, LayersOf DEF Backfill
<1>3. CASE d = "platform_maintenance"
  BY <1>3, LayersOf DEF Maintenance
<1> QED BY <1>1, <1>2, <1>3 DEF Dags

LEMMA LayerNumbers ==
    ASSUME NEW d \in Dags
    PROVE  DOMAIN Layers[d] \subseteq Nat \ {0}
<1>1. CASE d = "fineract_analytics_pipeline"
  <2>1. Layers[d] = Pipeline
    BY <1>1, LayersOf
  <2> QED BY <2>1, LayerIndices
<1>2. CASE d = "fineract_backfill"
  BY <1>2, LayersOf DEF Backfill
<1>3. CASE d = "platform_maintenance"
  BY <1>3, LayersOf DEF Maintenance
<1> QED BY <1>1, <1>2, <1>3 DEF Dags

\* The tasks of the pipeline that change data come before the freshness check,
\* and none is a preflight check.
LEMMA DataPlace ==
    ASSUME NEW k \in DOMAIN Pipeline, NEW t \in Pipeline[k], t \in DataTasks
    PROVE  k <= Len(Ingests) + 9 /\ k # 2
<1> DEFINE n == Len(Ingests)
<1>1. n \in Nat /\ DOMAIN Ingests = 1..n /\ DOMAIN Pipeline = 1..(n + 14)
  BY DagAssumption, PipelineLayers
<1>2. CASE \E i \in 1..n : t = Ingests[i]
  BY <1>2, <1>1, IngestNames
<1>3. CASE t \notin {Ingests[i] : i \in DOMAIN Ingests}
  <2>1. t \in {"dbt_seed", "dbt_run_staging", "dbt_run_intermediate",
               "dbt_run_marts", "dbt_run_ml", "dbt_full_refresh",
               "reingest_from_source", "optimize_clickhouse_tables",
               "apply_retention"}
    BY <1>3 DEF DataTasks
  <2>2. \A m \in 8..12 : t \notin PipelineTail[m]
    BY <2>1 DEF PipelineTail
  <2>3. \A m \in 8..12 : k # n + 2 + m
    <3> SUFFICES ASSUME NEW m \in 8..12, k = n + 2 + m PROVE FALSE
      OBVIOUS
    <3>1. m \in 1..12
      OBVIOUS
    <3>2. Pipeline[k] = PipelineTail[m]
      BY <3>1, PipelineLayers
    <3> QED BY <2>2, <3>2
  <2>4. k # 2
    BY <2>1, PipelineLayers DEF Preflight
  <2> QED BY <2>3, <2>4, <1>1, PipelineCases
<1> QED BY <1>2, <1>3, <1>1

\* Up to a task that changes data every task of the pipeline is strict.
LEMMA PipelineStrict ==
    ASSUME NEW k \in DOMAIN Pipeline, NEW t \in Pipeline[k], t \in DataTasks,
           NEW j \in 1..k, NEW u \in Pipeline[j]
    PROVE  u \notin Lenient /\ u # "finish"
<1> DEFINE n == Len(Ingests)
<1>1. n \in Nat /\ DOMAIN Ingests = 1..n /\ DOMAIN Pipeline = 1..(n + 14)
  BY DagAssumption, PipelineLayers
<1>2. k <= n + 9
  BY DataPlace
<1>3. j \in DOMAIN Pipeline /\ j <= n + 9
  BY <1>1, <1>2
<1>4. CASE j = 1 \/ j = 2
  BY <1>4, PipelineLayers DEF Preflight, Lenient
<1>5. CASE \E i \in 1..n : j = 2 + i
  <2>1. PICK i \in 1..n : j = 2 + i
    BY <1>5
  <2>2. u = Ingests[i] /\ i \in DOMAIN Ingests
    BY <1>1, <2>1, PipelineLayers
  <2>3. /\ PipelineTail[8] = {"dbt_source_freshness"}
        /\ PipelineTail[10] = {"publish_dbt_results", "publish_pipeline_metrics"}
        /\ PipelineTail[12] = {"finish"}
    BY DEF PipelineTail
  <2>4. /\ n + 2 + 8 \in DOMAIN Pipeline /\ n + 2 + 10 \in DOMAIN Pipeline
        /\ n + 2 + 12 \in DOMAIN Pipeline
        /\ n + 2 + 8 # i + 2 /\ n + 2 + 10 # i + 2 /\ n + 2 + 12 # i + 2
    BY <1>1
  <2>5. /\ u \notin Pipeline[n + 2 + 8] /\ u \notin Pipeline[n + 2 + 10]
        /\ u \notin Pipeline[n + 2 + 12]
    BY <2>2, <2>4, IngestNames
  <2>6. /\ u \notin PipelineTail[8] /\ u \notin PipelineTail[10]
        /\ u \notin PipelineTail[12]
    <3>1. 8 \in 1..12 /\ 10 \in 1..12 /\ 12 \in 1..12
      OBVIOUS
    <3>2. /\ Pipeline[n + 2 + 8] = PipelineTail[8]
          /\ Pipeline[n + 2 + 10] = PipelineTail[10]
          /\ Pipeline[n + 2 + 12] = PipelineTail[12]
      BY <3>1, PipelineLayers, Zenon
    <3> QED BY <2>5, <3>2
  <2>7. "verify_row_counts_after" \in Tasks("fineract_backfill")
    <3>1. 7 \in DOMAIN Backfill /\ "verify_row_counts_after" \in Backfill[7]
      BY DEF Backfill
    <3> QED BY <3>1, LayersOf DEF Tasks
  <2>8. u # "verify_row_counts_after"
    BY <2>2, <2>7, IngestNames
  <2> QED BY <2>3, <2>6, <2>8 DEF Lenient
<1>6. CASE \E m \in 1..12 : j = n + 2 + m
  <2>1. PICK m \in 1..12 : j = n + 2 + m
    BY <1>6
  <2>2. m \in 1..7
    BY <1>1, <1>3, <2>1
  <2>3. u \in PipelineTail[m]
    BY <2>1, PipelineLayers
  <2> QED BY <2>2, <2>3 DEF PipelineTail, Lenient
<1> QED BY <1>3, <1>4, <1>5, <1>6, PipelineCases

LEMMA Strict ==
    ASSUME dag \in Dags, NEW k \in DOMAIN Layers[dag],
           NEW t \in Layers[dag][k], t \in DataTasks,
           NEW j \in 1..k, NEW u \in Layers[dag][j]
    PROVE  Rule(u) = "all_success"
<1>1. CASE dag = "fineract_analytics_pipeline"
  <2>1. u \notin Lenient /\ u # "finish"
    BY <1>1, LayersOf, PipelineStrict
  <2> QED BY <2>1 DEF Rule, Lenient
<1>2. CASE dag = "fineract_backfill"
  <2>1. k \in 1..8 /\ t \in Backfill[k] /\ u \in Backfill[j]
    BY <1>2, LayersOf DEF Backfill
  <2>2. t \notin {Ingests[i] : i \in DOMAIN Ingests}
    BY <1>2, IngestNames DEF Tasks
  <2>3. t \notin {"verify_row_counts_after", "finish"}
    BY <2>2 DEF DataTasks
  <2>4. k <= 6
    BY <2>1, <2>3 DEF Backfill
  <2>5. j \in 1..6
    BY <2>1, <2>4
  <2>6. u \notin Lenient
    BY <2>1, <2>5 DEF Backfill, Lenient
  <2> QED BY <1>2, <2>6 DEF Rule, Lenient
<1>3. CASE dag = "platform_maintenance"
  <2>1. j \in 1..7 /\ u \in Maintenance[j]
    BY <1>3, LayersOf DEF Maintenance
  <2>2. u \notin Lenient
    BY <2>1 DEF Maintenance, Lenient
  <2> QED BY <1>3, <2>2 DEF Rule, Lenient
<1> QED BY <1>1, <1>2, <1>3 DEF Dags

-----------------------------------------------------------------------------
(* What a step may do to a run.                                            *)

Shape == dag \in Dags /\ state \in [Tasks(dag) -> State]

LEMMA EndsFacts ==
    ASSUME NEW t, NEW s \in State \ {"none"}, Ends(t, s)
    PROVE  /\ UNCHANGED <<dag, params, run>>
           /\ \E x \in State \ {"none"} : state' = [state EXCEPT ![t] = x]
BY DEF Ends

LEMMA RaisesFacts ==
    ASSUME NEW t, Raises(t)
    PROVE  /\ UNCHANGED <<dag, params, run>>
           /\ state' = state \/ state' = [state EXCEPT ![t] = "failed"]
BY DEF Raises, Ends

\* A task that executes was ready, changes no state but its own, and data only
\* if it is one of those that do.
LEMMA ExecuteFacts ==
    ASSUME NEW t \in Tasks(dag), Execute(t)
    PROVE  /\ Ready(t)
           /\ UNCHANGED <<dag, params, run>>
           /\ \/ state' = state
              \/ \E x \in State \ {"none"} : state' = [state EXCEPT ![t] = x]
           /\ acted' \subseteq acted \cup ({t} \cap DataTasks)
<1> DEFINE Effect == /\ UNCHANGED <<dag, params, run>>
                     /\ \/ state' = state
                        \/ \E x \in State \ {"none"} :
                              state' = [state EXCEPT ![t] = x]
<1>1. Ready(t)
  BY DEF Execute
<1>2. Ends(t, "success") \/ Ends(t, "failed") \/ Ends(t, "skipped") => Effect
  BY DEF Ends, State
<1>3. Raises(t) => Effect
  BY DEF Raises, Ends, State
<1>4. UNCHANGED <<dag, params, run, state, tries>> => Effect
  OBVIOUS
<1>9. PokesOn(t) => Effect
  BY <1>2, <1>4 DEF PokesOn
<1> HIDE DEF Effect
<1>5. CASE RunEmpty(t) \/ Sense(t) \/ Gate(t) \/ PokeConnector(t)
  <2>1. Effect
    BY <1>2, <1>3, <1>9, <1>5 DEF RunEmpty, Sense, Gate, PokeConnector
  <2>2. acted' = acted
    BY <1>5 DEF RunEmpty, Sense, Gate, PokeConnector
  <2> QED BY <1>1, <2>1, <2>2 DEF Effect
<1>6. CASE RunIngestion(t) \/ Dbt(t) \/ Reingest(t) \/ Housekeep(t)
  <2>1. Effect
    BY <1>2, <1>3, <1>6 DEF RunIngestion, Dbt, Reingest, Housekeep
  <2>2. acted' \subseteq acted \cup ({t} \cap DataTasks)
    BY <1>6 DEF RunIngestion, Dbt, Reingest, Housekeep, DataTasks
  <2> QED BY <1>1, <2>1, <2>2 DEF Effect
<1>7. CASE PublishResults(t) \/ PublishMetrics(t) \/ QualityGate(t)
  <2>1. Effect
    BY <1>2, <1>3, <1>7 DEF PublishResults, PublishMetrics, QualityGate
  <2>2. acted' = acted
    BY <1>7 DEF PublishResults, PublishMetrics, QualityGate
  <2> QED BY <1>1, <2>1, <2>2 DEF Effect
<1>8. CASE ValidateParameters(t) \/ VerifyAfter(t)
           \/ CheckConnectorHealth(t) \/ Query(t)
  <2>1. Effect
    BY <1>2, <1>3, <1>8
    DEF ValidateParameters, VerifyAfter, CheckConnectorHealth, Query
  <2>2. acted' = acted
    BY <1>8 DEF ValidateParameters, VerifyAfter, CheckConnectorHealth, Query
  <2> QED BY <1>1, <2>1, <2>2 DEF Effect
<1> QED BY <1>5, <1>6, <1>7, <1>8 DEF Execute

LEMMA CascadeFacts ==
    ASSUME NEW t \in Tasks(dag), Cascade(t)
    PROVE  /\ UNCHANGED <<dag, params, run, acted>>
           /\ ~Done(t)
           /\ \E x \in {"upstream_failed", "skipped"} :
                 state' = [state EXCEPT ![t] = x]
BY DEF Cascade, Ends

LEMMA TimeoutFacts ==
    ASSUME Shape, TimeoutRun
    PROVE  /\ UNCHANGED <<dag, params, acted>> /\ run' = "failed"
           /\ state' \in [Tasks(dag) -> State]
           /\ \A t \in Tasks(dag) : state'[t] = state[t]
                                    \/ (state[t] = "none" /\ state'[t] = "skipped")
<1>1. /\ UNCHANGED <<dag, params, acted>> /\ run' = "failed"
      /\ state' = [t \in Tasks(dag) |-> IF Done(t) THEN state[t] ELSE "skipped"]
  BY DEF TimeoutRun
<1>2. \A t \in Tasks(dag) : state[t] \in State
  BY DEF Shape
<1>3. state' \in [Tasks(dag) -> State]
  BY <1>1, <1>2 DEF State
<1> QED BY <1>1, <1>3 DEF Done

LEMMA NextRunFacts ==
    ASSUME NextRun
    PROVE  /\ dag' = dag /\ run' = "running" /\ acted' = {}
           /\ state' = [t \in Tasks(dag) |-> "none"]
BY DEF NextRun

\* The steps of a run, sorted by what they do to its tasks.
LEMMA StepCases ==
    ASSUME Shape, [Next]_vars
    PROVE  \/ \E t \in Tasks(dag) : Execute(t)
           \/ \E t \in Tasks(dag) : Cascade(t)
           \/ EndRun
           \/ TimeoutRun
           \/ NextRun
           \/ UNCHANGED <<dag, params, run, state, acted>>
BY DEF Next, Step, Break, Repair, vars

LEMMA ShapeStep == ASSUME Shape, [Next]_vars PROVE Shape'
<1>1. ASSUME NEW t \in Tasks(dag), Execute(t) PROVE Shape'
  <2>1. /\ dag' = dag
        /\ \/ state' = state
           \/ \E x \in State \ {"none"} : state' = [state EXCEPT ![t] = x]
    BY <1>1, ExecuteFacts
  <2> QED BY <2>1 DEF Shape
<1>2. ASSUME NEW t \in Tasks(dag), Cascade(t) PROVE Shape'
  <2>1. /\ dag' = dag
        /\ \E x \in {"upstream_failed", "skipped"} : state' = [state EXCEPT ![t] = x]
    BY <1>2, CascadeFacts
  <2> QED BY <2>1 DEF Shape, State
<1>3. CASE EndRun
  BY <1>3 DEF EndRun, Shape
<1>4. CASE TimeoutRun
  BY <1>4, TimeoutFacts DEF Shape
<1>5. CASE NextRun
  BY <1>5, NextRunFacts DEF Shape, State
<1>6. CASE UNCHANGED <<dag, params, run, state, acted>>
  BY <1>6 DEF Shape
<1> QED BY <1>1, <1>2, <1>3, <1>4, <1>5, <1>6, StepCases

LEMMA InitShape == Init => Shape
BY DEF Init, Shape, State

-----------------------------------------------------------------------------
(* The order of a run.                                                     *)

\* Every layer before this one has succeeded.
CleanUpTo(k) ==
    \A j \in DOMAIN Layers[dag] : j < k =>
        \A u \in Layers[dag][j] : state[u] = "success"

\* All that is in this layer or before it asks for success.
StrictUpTo(k) ==
    \A j \in DOMAIN Layers[dag] : j <= k =>
        \A u \in Layers[dag][j] : Rule(u) = "all_success"

CleanBehind ==
    \A k \in DOMAIN Layers[dag] :
        StrictUpTo(k) /\ (\E t \in Layers[dag][k] : state[t] = "success")
            => CleanUpTo(k)

ActedClean ==
    \A t \in acted : t \in DataTasks /\
        \A k \in DOMAIN Layers[dag] : t \in Layers[dag][k] => CleanUpTo(k)

OrderInv == Shape /\ CleanBehind /\ ActedClean

\* A strict task that is ready has nothing but successes behind it: what is
\* directly before it succeeded, and so, in turn, did what is before that.
LEMMA ReadyIsClean ==
    ASSUME OrderInv, NEW k \in DOMAIN Layers[dag], StrictUpTo(k),
           NEW t \in Layers[dag][k], Ready(t)
    PROVE  CleanUpTo(k)
<1>1. /\ k \in Nat
      /\ \A j \in DOMAIN Layers[dag] : j \in Nat /\ j # 0 /\ Layers[dag][j] # {}
      /\ \A j \in 1..k : j \in DOMAIN Layers[dag]
  <2>1. \A j \in DOMAIN Layers[dag] : j \in Nat /\ Layers[dag][j] # {}
           /\ \A i \in 1..j : i \in DOMAIN Layers[dag]
    BY NoEmptyLayer DEF OrderInv, Shape
  <2>2. 0 \notin DOMAIN Layers[dag]
    BY LayerNumbers DEF OrderInv, Shape
  <2> QED BY <2>1, <2>2
<1>2. Rule(t) = "all_success"
  BY <1>1 DEF StrictUpTo
<1>3. \A u \in Upstream(t) : state[u] = "success"
  BY <1>2 DEF Ready
<1> SUFFICES ASSUME NEW j \in DOMAIN Layers[dag], j < k,
                    NEW u \in Layers[dag][j]
             PROVE  state[u] = "success"
  BY DEF CleanUpTo
<1> DEFINE i == k - 1
<1>4. /\ i \in Nat /\ i \in 1..k /\ i + 1 = k /\ j <= i /\ j \in Nat
  BY <1>1
<1>5. i \in DOMAIN Layers[dag]
  BY <1>1, <1>4
<1> HIDE DEF i
<1>6. Layers[dag][i] \subseteq Upstream(t)
  BY <1>4, <1>5 DEF Upstream
<1>7. CASE j = i
  BY <1>3, <1>6, <1>7
<1>8. CASE j < i
  <2>1. \E w \in Layers[dag][i] : state[w] = "success"
    BY <1>1, <1>3, <1>5, <1>6
  <2>2. StrictUpTo(i)
    BY <1>1, <1>4 DEF StrictUpTo
  <2>3. CleanUpTo(i)
    BY <1>5, <2>1, <2>2 DEF OrderInv, CleanBehind
  <2> QED BY <1>8, <2>3 DEF CleanUpTo
<1> QED BY <1>4, <1>7, <1>8

\* A step within a run: finished tasks stay as they are.
LEMMA WithinRun ==
    ASSUME OrderInv, Shape', UNCHANGED dag,
           \A u \in Tasks(dag) : state[u] # "none" => state'[u] = state[u],
           \A u \in Tasks(dag) :
               state'[u] = "success" /\ state[u] # "success" => Ready(u),
           \A u \in acted' \ acted : u \in DataTasks /\ Ready(u)
    PROVE  OrderInv'
<1>1. \A k \in DOMAIN Layers[dag] : Layers[dag][k] \subseteq Tasks(dag)
  BY DEF Tasks
<1>2. ASSUME NEW k \in DOMAIN Layers[dag], CleanUpTo(k) PROVE CleanUpTo(k)'
  BY <1>1, <1>2 DEF CleanUpTo
<1>3. ASSUME NEW k \in DOMAIN Layers[dag], StrictUpTo(k)' PROVE StrictUpTo(k)
  BY <1>3 DEF StrictUpTo, Rule
<1>4. CleanBehind'
  <2> SUFFICES ASSUME NEW k \in DOMAIN Layers[dag], StrictUpTo(k)',
                      NEW t \in Layers[dag][k], state'[t] = "success"
               PROVE  CleanUpTo(k)'
    BY DEF CleanBehind
  <2>1. StrictUpTo(k) /\ t \in Tasks(dag)
    BY <1>1, <1>3
  <2>2. CASE state[t] = "success"
    BY <1>2, <2>1, <2>2 DEF OrderInv, CleanBehind
  <2>3. CASE state[t] # "success"
    BY <1>2, <2>1, <2>3, ReadyIsClean
  <2> QED BY <2>2, <2>3
<1>5. ActedClean'
  <2> SUFFICES ASSUME NEW t \in acted'
               PROVE  t \in DataTasks /\
                   \A k \in DOMAIN Layers[dag] : t \in Layers[dag][k] => CleanUpTo(k)'
    BY DEF ActedClean
  <2>1. CASE t \in acted
    BY <1>2, <2>1 DEF OrderInv, ActedClean
  <2>2. CASE t \notin acted
    <3>1. t \in DataTasks /\ Ready(t)
      BY <2>2
    <3>2. ASSUME NEW k \in DOMAIN Layers[dag], t \in Layers[dag][k]
          PROVE  CleanUpTo(k)'
      <4>1. StrictUpTo(k)
        <5> SUFFICES ASSUME NEW j \in DOMAIN Layers[dag], j <= k,
                            NEW u \in Layers[dag][j]
                     PROVE  Rule(u) = "all_success"
          BY DEF StrictUpTo
        <5>1. dag \in Dags /\ j \in 1..k
          <6>1. dag \in Dags
            BY DEF OrderInv, Shape
          <6>2. DOMAIN Layers[dag] \subseteq Nat \ {0}
            BY <6>1, LayerNumbers
          <6> QED BY <6>1, <6>2
        <5> QED BY <3>1, <3>2, <5>1, Strict
      <4> QED BY <1>2, <3>1, <3>2, <4>1, ReadyIsClean
    <3> QED BY <3>1, <3>2
  <2> QED BY <2>1, <2>2
<1> QED BY <1>4, <1>5 DEF OrderInv

LEMMA OrderStep == ASSUME OrderInv, [Next]_vars PROVE OrderInv'
<1>1. Shape /\ Shape'
  BY ShapeStep DEF OrderInv
<1>2. ASSUME NEW t \in Tasks(dag), Execute(t) PROVE OrderInv'
  <2>1. /\ Ready(t) /\ dag' = dag
        /\ \/ state' = state
           \/ \E x \in State \ {"none"} : state' = [state EXCEPT ![t] = x]
        /\ acted' \subseteq acted \cup ({t} \cap DataTasks)
    BY <1>2, ExecuteFacts
  <2>2. state[t] = "none"
    BY <2>1 DEF Ready, Done
  <2>3. \A u \in Tasks(dag) : state[u] # "none" => state'[u] = state[u]
    BY <1>1, <2>1, <2>2 DEF Shape
  <2>4. \A u \in Tasks(dag) :
            state'[u] = "success" /\ state[u] # "success" => Ready(u)
    BY <1>1, <2>1 DEF Shape
  <2>5. \A u \in acted' \ acted : u \in DataTasks /\ Ready(u)
    BY <2>1
  <2> QED BY <1>1, <2>1, <2>3, <2>4, <2>5, WithinRun
<1>3. ASSUME NEW t \in Tasks(dag), Cascade(t) PROVE OrderInv'
  <2>1. /\ UNCHANGED <<dag, acted>> /\ state[t] = "none"
        /\ \E x \in {"upstream_failed", "skipped"} : state' = [state EXCEPT ![t] = x]
    BY <1>3, CascadeFacts DEF Done
  <2>2. \A u \in Tasks(dag) : state[u] # "none" => state'[u] = state[u]
    BY <1>1, <2>1 DEF Shape
  <2>3. \A u \in Tasks(dag) :
            state'[u] = "success" /\ state[u] # "success" => Ready(u)
    BY <1>1, <2>1 DEF Shape
  <2> QED BY <1>1, <2>1, <2>2, <2>3, WithinRun
<1>4. CASE TimeoutRun
  <2>1. /\ UNCHANGED <<dag, acted>>
        /\ \A t \in Tasks(dag) : state'[t] = state[t]
                                 \/ (state[t] = "none" /\ state'[t] = "skipped")
    BY <1>1, <1>4, TimeoutFacts
  <2> QED BY <1>1, <2>1, WithinRun
<1>5. CASE EndRun \/ UNCHANGED <<dag, params, run, state, acted>>
  <2>1. UNCHANGED <<dag, state, acted>>
    BY <1>5 DEF EndRun
  <2> QED BY <1>1, <2>1, WithinRun
<1>6. CASE NextRun
  <2>1. dag' = dag /\ acted' = {} /\ state' = [t \in Tasks(dag) |-> "none"]
    BY <1>6, NextRunFacts
  <2>2. \A k \in DOMAIN Layers[dag] : Layers[dag][k] \subseteq Tasks(dag)
    BY DEF Tasks
  <2>3. CleanBehind' /\ ActedClean'
    BY <2>1, <2>2 DEF CleanBehind, ActedClean
  <2> QED BY <1>1, <2>3 DEF OrderInv
<1> QED BY <1>1, <1>2, <1>3, <1>4, <1>5, <1>6, StepCases

-----------------------------------------------------------------------------
\* Within a run, and from one run to the next.
THEOREM OrderInvariant == Spec => []OrderInv
<1>1. Init => OrderInv
  <2> SUFFICES ASSUME Init PROVE OrderInv
    OBVIOUS
  <2>1. acted = {} /\ state = [t \in Tasks(dag) |-> "none"]
    BY DEF Init
  <2>2. \A k \in DOMAIN Layers[dag] : Layers[dag][k] \subseteq Tasks(dag)
    BY DEF Tasks
  <2> QED BY <2>1, <2>2, InitShape DEF OrderInv, CleanBehind, ActedClean
<1> QED BY <1>1, OrderStep, PTL DEF Spec

\* However many entities are ingested and whatever fails, times out, is
\* skipped or is tried again: what changes data has run only on top of a run
\* that was clean until then.
THEOREM WorkOnCleanRuns == Spec => []WorkNeedsACleanRun
<1>1. OrderInv => WorkNeedsACleanRun
  <2> SUFFICES ASSUME OrderInv, NEW t \in acted, NEW u \in Before(t)
               PROVE  state[u] = "success"
    BY DEF WorkNeedsACleanRun
  <2>1. PICK i \in DOMAIN Layers[dag] : u \in Layers[dag][i] /\
            \E k \in DOMAIN Layers[dag] : i < k /\ t \in Layers[dag][k]
    BY DEF Before
  <2> QED BY <2>1 DEF OrderInv, ActedClean, CleanUpTo
<1> QED BY <1>1, OrderInvariant, PTL

-----------------------------------------------------------------------------
(* A backfill that nobody confirmed.                                       *)

Refused == dag = "fineract_backfill" /\ "confirm" \notin params

\* Nothing behind the parameter check succeeds, and what fails at the end
\* cannot be made good by the skipping of a task before it.
RefusedInv ==
    Refused =>
        /\ acted = {} /\ run # "success"
        /\ \A t \in {"validate_parameters", "snapshot_row_counts_before",
                     "reingest_from_source", "build_dbt_arguments",
                     "dbt_full_refresh", "verify_row_counts_after"} :
              state[t] # "success"
        /\ run = "running" =>
              /\ state["verify_row_counts_after"] \in {"none", "failed"}
              /\ state["finish"] \in {"none", "upstream_failed"}

LEMMA BackfillGraph ==
    ASSUME dag = "fineract_backfill"
    PROVE  /\ Tasks(dag) = {"start", "validate_parameters",
                  "snapshot_row_counts_before", "reingest_from_source",
                  "build_dbt_arguments", "dbt_full_refresh",
                  "verify_row_counts_after", "finish"}
           /\ "validate_parameters" \in Upstream("snapshot_row_counts_before")
           /\ "snapshot_row_counts_before" \in Upstream("reingest_from_source")
           /\ "reingest_from_source" \in Upstream("build_dbt_arguments")
           /\ "build_dbt_arguments" \in Upstream("dbt_full_refresh")
           /\ Upstream("finish") = {"verify_row_counts_after"}
<1>1. Layers[dag] = Backfill
  BY LayersOf
<1>2. DOMAIN Backfill = 1..8
  BY DEF Backfill
<1>3. /\ Backfill[1] = {"start"} /\ Backfill[2] = {"validate_parameters"}
      /\ Backfill[3] = {"snapshot_row_counts_before"}
      /\ Backfill[4] = {"reingest_from_source"}
      /\ Backfill[5] = {"build_dbt_arguments"}
      /\ Backfill[6] = {"dbt_full_refresh"}
      /\ Backfill[7] = {"verify_row_counts_after"} /\ Backfill[8] = {"finish"}
  BY DEF Backfill
<1>4. Tasks(dag) = {"start", "validate_parameters",
                  "snapshot_row_counts_before", "reingest_from_source",
                  "build_dbt_arguments", "dbt_full_refresh",
                  "verify_row_counts_after", "finish"}
  BY <1>1, <1>2, <1>3 DEF Tasks
<1>5. /\ "validate_parameters" \in Upstream("snapshot_row_counts_before")
      /\ "snapshot_row_counts_before" \in Upstream("reingest_from_source")
      /\ "reingest_from_source" \in Upstream("build_dbt_arguments")
      /\ "build_dbt_arguments" \in Upstream("dbt_full_refresh")
  BY <1>1, <1>2, <1>3 DEF Upstream
<1>6. Upstream("finish") = {"verify_row_counts_after"}
  BY <1>1, <1>2, <1>3 DEF Upstream
<1> QED BY <1>4, <1>5, <1>6

LEMMA RefusedExecute ==
    ASSUME Shape, RefusedInv, NEW t \in Tasks(dag), Execute(t)
    PROVE  RefusedInv'
<1>1. /\ Ready(t) /\ UNCHANGED <<dag, params, run>>
      /\ \/ state' = state
         \/ \E x \in State \ {"none"} : state' = [state EXCEPT ![t] = x]
      /\ acted' \subseteq acted \cup ({t} \cap DataTasks)
  BY ExecuteFacts
<1> SUFFICES ASSUME Refused PROVE RefusedInv'
  BY <1>1 DEF RefusedInv, Refused
<1>2. dag = "fineract_backfill" /\ "confirm" \notin params
  BY DEF Refused
<1>3. run = "running" /\ state[t] = "none"
  BY <1>1 DEF Ready, Done
<1>4. t \notin {Ingests[i] : i \in DOMAIN Ingests}
  BY <1>2, IngestNames
<1> DEFINE Guarded == {"validate_parameters", "snapshot_row_counts_before",
                     "reingest_from_source", "build_dbt_arguments",
                     "dbt_full_refresh", "verify_row_counts_after"}
<1>5. ASSUME acted' = acted, state' = state \/
                  (t \in Guarded /\ state' = [state EXCEPT ![t] = "failed"])
       PROVE  RefusedInv'
  <2>1. \A u \in Guarded \cup {"finish"} :
            state'[u] = state[u] \/ (u = t /\ u # "finish" /\ state'[u] = "failed")
    <3>1. Guarded \cup {"finish"} \subseteq Tasks(dag)
      BY <1>2, BackfillGraph
    <3> HIDE DEF Guarded
    <3>2. t # "finish" \/ t \notin Guarded
      BY DEF Guarded
    <3> QED BY <1>5, <3>1, <3>2 DEF Shape
  <2>2. UNCHANGED <<dag, params, run, acted>>
    BY <1>1, <1>5
  <2>3. /\ acted' = {} /\ run' # "success"
        /\ \A u \in Guarded : state'[u] # "success"
    BY <2>1, <2>2 DEF RefusedInv
  <2>4. run' = "running" =>
          /\ state'["verify_row_counts_after"] \in {"none", "failed"}
          /\ state'["finish"] \in {"none", "upstream_failed"}
    BY <2>1, <2>2 DEF RefusedInv
  <2> QED BY <2>3, <2>4 DEF RefusedInv
<1>6. ~(Rule(t) = "all_success" /\ \E u \in Upstream(t) : state[u] # "success")
  BY <1>1 DEF Ready
<1>7. CASE t = "start"
  <2>1. acted' = {}
    BY <1>1, <1>4, <1>7 DEF RefusedInv, DataTasks
  <2>2. \A u \in Guarded \cup {"finish"} : state'[u] = state[u]
    <3>1. Guarded \cup {"finish"} \subseteq Tasks(dag)
      BY <1>2, BackfillGraph
    <3>2. t \notin Guarded \cup {"finish"}
      BY <1>7
    <3> HIDE DEF Guarded
    <3> QED BY <1>1, <3>1, <3>2 DEF Shape
  <2>3. run' = run
    BY <1>1
  <2>4. /\ acted' = {} /\ run' # "success"
        /\ \A u \in Guarded : state'[u] # "success"
    BY <2>1, <2>2, <2>3 DEF RefusedInv
  <2>5. run' = "running" =>
          /\ state'["verify_row_counts_after"] \in {"none", "failed"}
          /\ state'["finish"] \in {"none", "upstream_failed"}
    BY <2>2, <2>3 DEF RefusedInv
  <2> QED BY <2>4, <2>5 DEF RefusedInv
<1>8. CASE t = "validate_parameters"
  <2>1. ValidateParameters(t)
    BY <1>4, <1>8 DEF Execute, RunEmpty, Empty, Sense, Preflight, Gate,
       PokeConnector, RunIngestion, Dbt, DbtCommand, PublishResults,
       PublishMetrics, QualityGate, Reingest, VerifyAfter,
       CheckConnectorHealth, Housekeep, Query, Queries
  <2>2. Raises(t) /\ acted' = acted
    BY <1>2, <2>1 DEF ValidateParameters
  <2>3. state' = state \/ state' = [state EXCEPT ![t] = "failed"]
    BY <2>2, RaisesFacts
  <2> QED BY <1>8, <1>5, <2>2, <2>3
<1>9. CASE t \in {"snapshot_row_counts_before", "reingest_from_source",
                  "build_dbt_arguments", "dbt_full_refresh", "finish"}
  <2>1. Rule(t) = "all_success"
    BY <1>2, <1>9 DEF Rule
  <2>2. \E u \in Upstream(t) : state[u] # "success"
    BY <1>2, <1>9, BackfillGraph DEF RefusedInv
  <2> QED BY <1>6, <2>1, <2>2
<1>10. CASE t = "verify_row_counts_after"
  <2>1. VerifyAfter(t)
    BY <1>4, <1>10 DEF Execute, RunEmpty, Empty, Sense, Preflight, Gate,
       PokeConnector, RunIngestion, Dbt, DbtCommand, PublishResults,
       PublishMetrics, QualityGate, Reingest, ValidateParameters,
       CheckConnectorHealth, Housekeep, Query, Queries
  <2>2. ~HasSnapshot
    BY DEF RefusedInv, HasSnapshot
  <2>3. Raises(t) /\ acted' = acted
    BY <2>1, <2>2 DEF VerifyAfter
  <2>4. state' = state \/ state' = [state EXCEPT ![t] = "failed"]
    BY <2>3, RaisesFacts
  <2> QED BY <1>10, <1>5, <2>3, <2>4
<1> QED BY <1>2, <1>7, <1>8, <1>9, <1>10, BackfillGraph

LEMMA RefusedCascade ==
    ASSUME Shape, RefusedInv, NEW t \in Tasks(dag), Cascade(t)
    PROVE  RefusedInv'
<1>1. /\ UNCHANGED <<dag, params, run, acted>>
      /\ \E x \in {"upstream_failed", "skipped"} : state' = [state EXCEPT ![t] = x]
  BY CascadeFacts
<1> SUFFICES ASSUME Refused PROVE RefusedInv'
  BY <1>1 DEF RefusedInv, Refused
<1>2. dag = "fineract_backfill" /\ run = "running"
  BY DEF Refused, Cascade
<1>3. t # "verify_row_counts_after"
  BY DEF Cascade, Rule
<1>4. CASE t = "finish"
  <2>1. Rule(t) = "all_success"
    BY <1>2, <1>4 DEF Rule
  <2>2. ~SomeUpstream(t, {"skipped"})
    BY <1>2, <1>4, BackfillGraph DEF SomeUpstream, RefusedInv
  <2>3. state' = [state EXCEPT ![t] = "upstream_failed"]
    BY <2>1, <2>2 DEF Cascade, Ends
  <2> QED BY <1>1, <1>4, <2>3 DEF RefusedInv, Shape
<1>5. CASE t # "finish"
  BY <1>1, <1>3, <1>5 DEF RefusedInv, Shape
<1> QED BY <1>4, <1>5

\* fineract_backfill without its confirmation: the landing tables and the
\* warehouse are left alone and the run is not green.
THEOREM UnconfirmedBackfills == Spec => []UnconfirmedBackfillFails
<1> DEFINE Inv == Shape /\ RefusedInv
<1>1. Init => Inv
  <2> SUFFICES ASSUME Init PROVE RefusedInv
    BY InitShape
  <2>1. acted = {} /\ run = "running" /\ state = [t \in Tasks(dag) |-> "none"]
    BY DEF Init
  <2> QED BY <2>1, BackfillGraph DEF RefusedInv, Refused
<1>2. Inv /\ [Next]_vars => Inv'
  <2> SUFFICES ASSUME Shape, RefusedInv, [Next]_vars PROVE RefusedInv'
    BY ShapeStep
  <2>1. CASE EndRun
    <3>1. /\ UNCHANGED <<dag, params, state, acted>> /\ run = "running"
          /\ \A t \in Tasks(dag) : Done(t)
          /\ run' = IF state["finish"] \in Bad THEN "failed" ELSE "success"
      BY <2>1 DEF EndRun
    <3> SUFFICES ASSUME Refused PROVE RefusedInv'
      BY <3>1 DEF RefusedInv, Refused
    <3>2. state["finish"] # "none"
      BY <3>1, BackfillGraph DEF Refused, Done
    <3>3. state["finish"] = "upstream_failed"
      BY <3>1, <3>2 DEF RefusedInv
    <3>4. run' = "failed"
      BY <3>1, <3>3 DEF Bad
    <3> QED BY <3>1, <3>4 DEF RefusedInv, Refused
  <2>2. CASE TimeoutRun
    <3>1. /\ UNCHANGED <<dag, params, acted>> /\ run' = "failed"
          /\ \A t \in Tasks(dag) : state'[t] = state[t] \/ state'[t] = "skipped"
      BY <2>2, TimeoutFacts
    <3> QED BY <3>1, BackfillGraph DEF RefusedInv, Refused
  <2>3. CASE NextRun
    <3>1. /\ dag' = dag /\ run' = "running" /\ acted' = {}
          /\ state' = [t \in Tasks(dag) |-> "none"]
      BY <2>3, NextRunFacts
    <3> QED BY <3>1, BackfillGraph DEF RefusedInv, Refused
  <2>4. CASE UNCHANGED <<dag, params, run, state, acted>>
    BY <2>4 DEF RefusedInv, Refused
  <2> QED BY <2>1, <2>2, <2>3, <2>4, StepCases, RefusedExecute, RefusedCascade
<1>3. Inv => UnconfirmedBackfillFails
  BY DEF RefusedInv, Refused, UnconfirmedBackfillFails
<1> QED BY <1>1, <1>2, <1>3, PTL DEF Spec

-----------------------------------------------------------------------------
(* Types.                                                                  *)

\* A set of at most two is finite.
LEMMA TwoAreFinite ==
    ASSUME NEW a, NEW b
    PROVE  IsFiniteSet({a}) /\ IsFiniteSet({a, b})
<1>1. IsFiniteSet({} \cup {a})
  BY FS_EmptySet, FS_AddElement
<1>2. IsFiniteSet(({} \cup {a}) \cup {b})
  BY <1>1, FS_AddElement
<1>3. {a} = {} \cup {a} /\ {a, b} = ({} \cup {a}) \cup {b}
  OBVIOUS
<1> QED BY <1>1, <1>2, <1>3

LEMMA LayersFinite ==
    ASSUME NEW d \in Dags, NEW j \in DOMAIN Layers[d]
    PROVE  IsFiniteSet(Layers[d][j])
<1>1. CASE d = "fineract_analytics_pipeline"
  <2>1. j \in DOMAIN Pipeline /\ Layers[d][j] = Pipeline[j]
    BY <1>1, LayersOf, Zenon
  <2>2. IsFiniteSet({"start"}) /\ IsFiniteSet(Preflight)
    <3>1. Preflight = {"check_fineract_api", "check_postgres"} \cup
                      {"check_clickhouse", "check_debezium_connector"}
      BY DEF Preflight
    <3> QED BY <3>1, TwoAreFinite, FS_Union
  <2>3. CASE j = 1 \/ j = 2
    BY <2>1, <2>2, <2>3, PipelineLayers, Zenon
  <2>4. CASE \E i \in 1..Len(Ingests) : j = 2 + i
    <3>1. PICK i \in 1..Len(Ingests) : Pipeline[j] = {Ingests[i]}
      BY <2>4, PipelineLayers, Zenon
    <3> QED BY <2>1, <3>1, TwoAreFinite, Zenon
  <2>5. CASE \E m \in 1..12 : j = Len(Ingests) + 2 + m
    <3>1. PICK m \in 1..12 : Pipeline[j] = PipelineTail[m]
      BY <2>5, PipelineLayers, Zenon
    <3>2. IsFiniteSet(PipelineTail[m])
      <4>1. /\ IsFiniteSet({"wait_for_cdc_to_catch_up"})
            /\ IsFiniteSet({"dbt_deps"}) /\ IsFiniteSet({"dbt_seed"})
            /\ IsFiniteSet({"dbt_run_staging"})
            /\ IsFiniteSet({"dbt_run_intermediate"})
            /\ IsFiniteSet({"dbt_run_marts"}) /\ IsFiniteSet({"dbt_run_ml"})
            /\ IsFiniteSet({"dbt_source_freshness"})
            /\ IsFiniteSet({"dbt_test"})
            /\ IsFiniteSet({"publish_dbt_results", "publish_pipeline_metrics"})
            /\ IsFiniteSet({"data_quality_gate"}) /\ IsFiniteSet({"finish"})
        BY TwoAreFinite, Zenon
      <4> QED BY <4>1 DEF PipelineTail
    <3> QED BY <2>1, <3>1, <3>2, Zenon
  <2> QED BY <2>1, <2>3, <2>4, <2>5, PipelineCases
<1>2. CASE d = "fineract_backfill"
  <2>1. j \in DOMAIN Backfill /\ Layers[d][j] = Backfill[j]
    BY <1>2, LayersOf, Zenon
  <2>2. /\ IsFiniteSet({"start"}) /\ IsFiniteSet({"validate_parameters"})
        /\ IsFiniteSet({"snapshot_row_counts_before"})
        /\ IsFiniteSet({"reingest_from_source"})
        /\ IsFiniteSet({"build_dbt_arguments"})
        /\ IsFiniteSet({"dbt_full_refresh"})
        /\ IsFiniteSet({"verify_row_counts_after"}) /\ IsFiniteSet({"finish"})
    BY TwoAreFinite, Zenon
  <2>3. IsFiniteSet(Backfill[j])
    BY <2>1, <2>2 DEF Backfill
  <2> QED BY <2>1, <2>3, Zenon
<1>3. CASE d = "platform_maintenance"
  <2>1. j \in DOMAIN Maintenance /\ Layers[d][j] = Maintenance[j]
    BY <1>3, LayersOf, Zenon
  <2>2. /\ IsFiniteSet({"start"}) /\ IsFiniteSet({"cdc_heartbeat"})
        /\ IsFiniteSet({"check_replication_slots", "check_connector_health"})
        /\ IsFiniteSet({"optimize_clickhouse_tables"})
        /\ IsFiniteSet({"report_merge_pressure"})
        /\ IsFiniteSet({"apply_retention", "report_open_rejects"})
        /\ IsFiniteSet({"finish"})
    BY TwoAreFinite, Zenon
  <2>3. IsFiniteSet(Maintenance[j])
    BY <2>1, <2>2 DEF Maintenance
  <2> QED BY <2>1, <2>3, Zenon
<1> QED BY <1>1, <1>2, <1>3 DEF Dags

LEMMA TasksFinite ==
    ASSUME NEW d \in Dags
    PROVE  IsFiniteSet(Tasks(d))
<1> DEFINE D == DOMAIN Layers[d]
           L == {Layers[d][i] : i \in D}
<1>1. IsFiniteSet(D)
  <2>1. \E n \in Nat : D = 1..n
    <3>1. CASE d = "fineract_analytics_pipeline"
      BY <3>1, LayersOf, PipelineLayers
    <3>2. CASE d = "fineract_backfill"
      BY <3>2, LayersOf DEF Backfill
    <3>3. CASE d = "platform_maintenance"
      BY <3>3, LayersOf DEF Maintenance
    <3> QED BY <3>1, <3>2, <3>3 DEF Dags
  <2> QED BY <2>1, FS_Interval
<1>2. IsFiniteSet(L)
  <2> DEFINE f == [i \in D |-> Layers[d][i]]
  <2>1. f \in Surjection(D, L)
    BY DEF Surjection
  <2> HIDE DEF f, L, D
  <2> QED BY <1>1, <2>1, FS_Surjection
<1>3. \A l \in L : IsFiniteSet(l)
  BY LayersFinite
<1> QED BY <1>2, <1>3, FS_UNION DEF Tasks

\* An ingest task is none of the dbt tasks, and does not publish.
LEMMA IngestIsNotDbt ==
    ASSUME NEW i \in DOMAIN Ingests
    PROVE  Ingests[i] \notin DOMAIN DbtCommand /\ Ingests[i] # "publish_dbt_results"
<1> DEFINE n == Len(Ingests)
<1>1. n \in Nat /\ i \in 1..n
  BY DagAssumption
<1>2. ASSUME NEW m \in 1..12 PROVE Ingests[i] \notin PipelineTail[m]
  <2>1. n + 2 + m \in 1..(n + 14) /\ n + 2 + m # i + 2
    BY <1>1
  <2>2. Pipeline[n + 2 + m] = PipelineTail[m]
    BY PipelineLayers
  <2> QED BY <2>1, <2>2, PipelineLayers, IngestNames
<1>3. "dbt_full_refresh" \in Tasks("fineract_backfill")
  <2>1. 6 \in DOMAIN Backfill /\ "dbt_full_refresh" \in Backfill[6]
    BY DEF Backfill
  <2> QED BY <2>1, LayersOf DEF Tasks
<1>4. /\ 2 \in 1..12 /\ 3 \in 1..12 /\ 4 \in 1..12 /\ 5 \in 1..12 /\ 6 \in 1..12
      /\ 7 \in 1..12 /\ 8 \in 1..12 /\ 9 \in 1..12
  OBVIOUS
<1>5. /\ Ingests[i] \notin PipelineTail[2] /\ Ingests[i] \notin PipelineTail[3]
      /\ Ingests[i] \notin PipelineTail[4] /\ Ingests[i] \notin PipelineTail[5]
      /\ Ingests[i] \notin PipelineTail[6] /\ Ingests[i] \notin PipelineTail[7]
      /\ Ingests[i] \notin PipelineTail[8] /\ Ingests[i] \notin PipelineTail[9]
  BY <1>2, <1>4, Zenon
<1>6. Ingests[i] # "dbt_full_refresh"
  BY <1>3, IngestNames
<1>7. Ingests[i] \notin PipelineTail[10]
  <2>1. 10 \in 1..12
    OBVIOUS
  <2> QED BY <1>2, <2>1, Zenon
<1> QED BY <1>5, <1>6, <1>7 DEF PipelineTail, DbtCommand

\* What a task that executes does to the results and to the metrics.
Quiet(t) ==
    /\ UNCHANGED <<results, published, counted, pushed, breaks>>
    /\ t \notin DOMAIN DbtCommand /\ t # "publish_dbt_results"
    /\ \/ UNCHANGED <<state, tries>>
       \/ state' = state /\ tries' = [tries EXCEPT ![t] = @ + 1]
       \/ /\ tries' = tries
          /\ \E x \in {"success", "failed"} : state' = [state EXCEPT ![t] = x]

Building(t) ==
    /\ t \in DOMAIN DbtCommand
    /\ UNCHANGED <<published, counted, pushed, breaks>>
    /\ results' = results \/ results' = "this"
    /\ \/ state' = [state EXCEPT ![t] = "failed"] /\ tries' = tries
       \/ state' = state /\ tries' = [tries EXCEPT ![t] = @ + 1]
       \/ /\ state' = [state EXCEPT ![t] = "success"]
          /\ tries' = tries
          /\ IsCommand(DbtCommand[t])
          /\ LeavesResults(DbtCommand[t]) => results' = "this"

Publishing(t) ==
    /\ t = "publish_dbt_results"
    /\ UNCHANGED <<results, counted, pushed, breaks>>
    /\ \/ /\ published' = published /\ tries' = tries
          /\ \E x \in {"skipped", "failed"} : state' = [state EXCEPT ![t] = x]
       \/ /\ published' = published /\ state' = state
          /\ tries' = [tries EXCEPT ![t] = @ + 1]
       \/ /\ published' = results /\ results # "none" /\ tries' = tries
          /\ state' = [state EXCEPT ![t] = "success"]

Counting(t) ==
    /\ t = "publish_pipeline_metrics"
    /\ UNCHANGED <<results, published, breaks, tries>>
    /\ counted' = Cardinality(Failed) /\ pushed' = TRUE
    /\ state' = [state EXCEPT ![t] = "success"]

LEMMA ExecuteEffects ==
    ASSUME NEW t \in Tasks(dag), Execute(t)
    PROVE  /\ Quiet(t) \/ Building(t) \/ Publishing(t) \/ Counting(t)
           /\ connector' \in {connector, "running"}
           /\ faults' = faults \/ (faults < MaxFaults /\ faults' = faults + 1)
<1> DEFINE Moved == \/ UNCHANGED <<state, tries>>
                    \/ state' = state /\ tries' = [tries EXCEPT ![t] = @ + 1]
                    \/ /\ tries' = tries
                       /\ \E x \in {"success", "failed"} :
                             state' = [state EXCEPT ![t] = x]
           Same == UNCHANGED <<results, published, counted, pushed, breaks>>
           Plain == connector' \in {connector, "running"}
           Faulty == faults' = faults \/ (faults < MaxFaults /\ faults' = faults + 1)
<1>1. /\ Ends(t, "success") => Moved
      /\ Ends(t, "failed") => Moved
      /\ Raises(t) => Moved
      /\ PokesOn(t) => Moved
  BY DEF Ends, Raises, PokesOn
<1>2. (NoFault => Faulty) /\ (Fault => Faulty)
  BY DEF NoFault, Fault
<1>3. UNCHANGED world => Same /\ Plain
  BY DEF world
<1>4. RestartFailedTasks => Plain
  BY DEF RestartFailedTasks
<1> HIDE DEF Moved, Plain, Faulty
<1>5. CASE RunEmpty(t) \/ Sense(t) \/ Gate(t) \/ QualityGate(t)
  <2>1. Moved /\ Faulty /\ Same /\ Plain
    BY <1>1, <1>2, <1>3, <1>5 DEF RunEmpty, Sense, Gate, QualityGate
  <2>2. t \notin DOMAIN DbtCommand /\ t # "publish_dbt_results"
    BY <1>5 DEF RunEmpty, Empty, Sense, Preflight, Gate, QualityGate, DbtCommand
  <2> QED BY <2>1, <2>2 DEF Quiet, Moved, Plain, Faulty
<1>6. CASE PokeConnector(t)
  <2>1. Moved /\ Faulty
    BY <1>1, <1>2, <1>6 DEF PokeConnector
  <2>2. Same /\ Plain
    BY <1>4, <1>6 DEF PokeConnector, Plain
  <2>3. t \notin DOMAIN DbtCommand /\ t # "publish_dbt_results"
    BY <1>6 DEF PokeConnector, DbtCommand
  <2> QED BY <2>1, <2>2, <2>3 DEF Quiet, Moved, Plain, Faulty
<1>7. CASE RunIngestion(t)
  <2>1. Moved /\ Faulty /\ Same /\ Plain
    BY <1>1, <1>2, <1>3, <1>7 DEF RunIngestion
  <2>2. PICK i \in DOMAIN Ingests : t = Ingests[i]
    BY <1>7 DEF RunIngestion
  <2>3. t \notin DOMAIN DbtCommand /\ t # "publish_dbt_results"
    BY <2>2, IngestIsNotDbt
  <2> QED BY <2>1, <2>3 DEF Quiet, Moved, Plain, Faulty
<1>8. CASE ValidateParameters(t) \/ Reingest(t) \/ VerifyAfter(t) \/ Query(t)
           \/ Housekeep(t)
  <2>1. Moved /\ Faulty /\ Same /\ Plain
    BY <1>1, <1>2, <1>3, <1>8 DEF ValidateParameters, Reingest, VerifyAfter,
       Query, Housekeep
  <2>2. t \notin DOMAIN DbtCommand /\ t # "publish_dbt_results"
    BY <1>8 DEF ValidateParameters, Reingest, VerifyAfter, Query, Queries,
       Housekeep, DbtCommand
  <2> QED BY <2>1, <2>2 DEF Quiet, Moved, Plain, Faulty
<1>9. CASE CheckConnectorHealth(t)
  <2>1. Moved /\ Faulty /\ Same /\ Plain
    BY <1>1, <1>2, <1>4, <1>9 DEF CheckConnectorHealth, Plain
  <2>2. t \notin DOMAIN DbtCommand /\ t # "publish_dbt_results"
    BY <1>9 DEF CheckConnectorHealth, DbtCommand
  <2> QED BY <2>1, <2>2 DEF Quiet, Moved, Plain, Faulty
<1>10. CASE Dbt(t)
  <2>1. Building(t)
    BY <1>10 DEF Dbt, Building, Ends, Raises
  <2>2. Plain /\ Faulty
    BY <1>2, <1>10 DEF Dbt, Plain
  <2> QED BY <2>1, <2>2 DEF Plain, Faulty
<1>11. CASE PublishResults(t)
  <2>1. Publishing(t)
    BY <1>11 DEF PublishResults, Publishing, Ends, Raises
  <2>2. Plain /\ Faulty
    BY <1>2, <1>11 DEF PublishResults, Plain
  <2> QED BY <2>1, <2>2 DEF Plain, Faulty
<1>12. CASE PublishMetrics(t)
  <2>1. Plain /\ Faulty
    BY <1>2, <1>12 DEF PublishMetrics, Plain
  <2>2. t \notin DOMAIN DbtCommand /\ t # "publish_dbt_results"
    BY <1>12 DEF PublishMetrics, DbtCommand
  <2>3. Counting(t) \/ (Moved /\ Same)
    BY <1>1, <1>12 DEF PublishMetrics, Counting, Ends
  <2> QED BY <2>1, <2>2, <2>3 DEF Quiet, Moved, Plain, Faulty
<1> QED BY <1>5, <1>6, <1>7, <1>8, <1>9, <1>10, <1>11, <1>12 DEF Execute

LEMMA CountIsNat == Shape => Cardinality(Failed) \in Nat
<1> SUFFICES ASSUME Shape PROVE Cardinality(Failed) \in Nat
  OBVIOUS
<1>1. IsFiniteSet(Tasks(dag)) /\ Failed \subseteq Tasks(dag)
  BY TasksFinite DEF Shape, Failed
<1>2. IsFiniteSet(Failed)
  BY <1>1, FS_Subset
<1> QED BY <1>2, FS_CardinalityType

LEMMA InitTypeOK == Init => TypeOK
<1> SUFFICES ASSUME Init PROVE TypeOK
  OBVIOUS
<1>1. state \in [Tasks(dag) -> State]
  BY InitShape DEF Shape
<1>2. tries = [t \in Tasks(dag) |-> 0]
  BY DEF Init
<1>3. tries \in [Tasks(dag) -> Nat]
  BY <1>2
<1>4. 0 \in 0..MaxFaults /\ 0 \in 0..MaxBreaks
  BY DagAssumption
<1> QED BY <1>1, <1>3, <1>4 DEF Init, TypeOK

\* The steps that are no task's: what they do to the rest of the state.
LEMMA OtherEffects ==
    ASSUME [Next]_vars, ~\E t \in Tasks(dag) : Execute(t) \/ Cascade(t),
           ~EndRun, ~TimeoutRun, ~NextRun
    PROVE  /\ UNCHANGED <<dag, params, run, state, tries, acted, results,
                          published, counted, pushed, faults>>
           /\ connector' \in {connector, "task_failed", "failed", "running"}
           /\ breaks' = breaks \/ (breaks < MaxBreaks /\ breaks' = breaks + 1)
BY DEF Next, Step, Break, Repair, vars, world

LEMMA TypeOKStep == ASSUME TypeOK, [Next]_vars PROVE TypeOK'
<1>1. Shape
  BY DEF TypeOK, Shape
<1>2. Shape'
  BY <1>1, ShapeStep
<1>3. MaxFaults \in Nat /\ MaxBreaks \in Nat
  BY DagAssumption
<1>4. ASSUME NEW t \in Tasks(dag), Execute(t) PROVE TypeOK'
  <2>1. UNCHANGED <<dag, params, run>> /\ acted' \subseteq acted \cup ({t} \cap DataTasks)
    BY <1>4, ExecuteFacts
  <2>2. /\ Quiet(t) \/ Building(t) \/ Publishing(t) \/ Counting(t)
        /\ connector' \in {connector, "running"}
        /\ faults' = faults \/ (faults < MaxFaults /\ faults' = faults + 1)
    BY <1>4, ExecuteEffects
  <2>3. tries' = tries \/ tries' = [tries EXCEPT ![t] = @ + 1]
    BY <2>2 DEF Quiet, Building, Publishing, Counting
  <2>4. tries' \in [Tasks(dag) -> Nat]
    BY <2>3 DEF TypeOK
  <2>5. results' \in {"none", "earlier", "this"} /\ published' \in {"none", "earlier", "this"}
    BY <2>2 DEF TypeOK, Quiet, Building, Publishing, Counting
  <2>6. counted' \in Nat /\ pushed' \in BOOLEAN /\ breaks' = breaks
    BY <2>2, <1>1, CountIsNat DEF TypeOK, Quiet, Building, Publishing, Counting
  <2>7. faults' \in 0..MaxFaults
    BY <2>2, <1>3 DEF TypeOK
  <2> QED BY <1>2, <2>1, <2>2, <2>4, <2>5, <2>6, <2>7 DEF TypeOK, Shape
<1>5. ASSUME NEW t \in Tasks(dag), Cascade(t) PROVE TypeOK'
  <2>1. UNCHANGED <<dag, params, run, tries, acted, world, faults>>
    BY <1>5 DEF Cascade, Ends
  <2> QED BY <1>2, <2>1 DEF TypeOK, Shape, world
<1>6. CASE EndRun
  BY <1>2, <1>6 DEF EndRun, TypeOK, Shape, world
<1>7. CASE TimeoutRun
  <2>1. /\ UNCHANGED <<dag, params, tries, acted, world>> /\ run' = "failed"
        /\ faults < MaxFaults /\ faults' = faults + 1
    BY <1>7 DEF TimeoutRun, Fault
  <2>2. faults' \in 0..MaxFaults
    BY <2>1, <1>3 DEF TypeOK
  <2> QED BY <1>2, <2>1, <2>2 DEF TypeOK, Shape, world
<1>8. CASE NextRun
  <2>1. /\ dag' = dag /\ params' \in SUBSET Ticks[dag] /\ run' = "running"
        /\ tries' = [t \in Tasks(dag) |-> 0] /\ acted' = {}
        /\ results' \in {"none", "earlier"} /\ published' = "none"
        /\ counted' = 0 /\ pushed' = FALSE
        /\ UNCHANGED <<connector, faults, breaks>>
    BY <1>8 DEF NextRun
  <2>2. tries' \in [Tasks(dag) -> Nat]
    BY <2>1
  <2> QED BY <1>2, <2>1, <2>2 DEF TypeOK, Shape
<1>9. ASSUME ~\E t \in Tasks(dag) : Execute(t) \/ Cascade(t),
              ~EndRun, ~TimeoutRun, ~NextRun
       PROVE  TypeOK'
  <2>1. /\ UNCHANGED <<dag, params, run, state, tries, acted, results,
                       published, counted, pushed, faults>>
        /\ connector' \in {connector, "task_failed", "failed", "running"}
        /\ breaks' = breaks \/ (breaks < MaxBreaks /\ breaks' = breaks + 1)
    BY <1>9, OtherEffects
  <2>2. breaks' \in 0..MaxBreaks
    BY <2>1, <1>3 DEF TypeOK
  <2> QED BY <2>1, <2>2 DEF TypeOK
<1> QED BY <1>4, <1>5, <1>6, <1>7, <1>8, <1>9

(* Every variable keeps its type in every behaviour, for any list of       *)
(* entities: the tasks of a DAG and their states, the retries, the         *)
(* parameters a run was started with, and a count of failed tasks that is  *)
(* a number because a DAG has finitely many tasks.                         *)
THEOREM TypeCorrect == Spec => []TypeOK
<1>1. Init => TypeOK
  BY InitTypeOK
<1>2. TypeOK /\ [Next]_vars => TypeOK'
  BY TypeOKStep
<1> QED BY <1>1, <1>2, PTL DEF Spec

-----------------------------------------------------------------------------
(* Where the tasks of the pipeline are.                                    *)

IsPipeline == dag = "fineract_analytics_pipeline"

\* The layer of each task that is not an ingest, counted from the CDC gate.
TailPlace ==
    [wait_for_cdc_to_catch_up |-> 1, dbt_deps |-> 2, dbt_seed |-> 3,
     dbt_run_staging |-> 4, dbt_run_intermediate |-> 5, dbt_run_marts |-> 6,
     dbt_run_ml |-> 7, dbt_source_freshness |-> 8, dbt_test |-> 9,
     publish_dbt_results |-> 10, publish_pipeline_metrics |-> 10,
     data_quality_gate |-> 11, finish |-> 12]

LEMMA TailPlaces ==
    ASSUME NEW m \in 1..12, NEW t \in PipelineTail[m]
    PROVE  t \in DOMAIN TailPlace /\ TailPlace[t] = m
BY DEF PipelineTail, TailPlace

LEMMA HeadIsNotTail ==
    ASSUME NEW t \in {"start"} \cup Preflight
    PROVE  t \notin DOMAIN TailPlace
BY DEF Preflight, TailPlace

LEMMA IngestIsNotTail ==
    ASSUME NEW i \in DOMAIN Ingests, NEW m \in 1..12
    PROVE  Ingests[i] \notin PipelineTail[m]
<1>1. Len(Ingests) \in Nat /\ i \in 1..Len(Ingests)
  BY DagAssumption
<1>2. /\ Len(Ingests) + 2 + m \in DOMAIN Pipeline
      /\ Len(Ingests) + 2 + m # i + 2
  <2>1. DOMAIN Pipeline = 1..(Len(Ingests) + 14)
    BY PipelineLayers
  <2> QED BY <1>1, <2>1
<1>3. Pipeline[Len(Ingests) + 2 + m] = PipelineTail[m]
  BY PipelineLayers
<1> QED BY <1>2, <1>3, IngestNames

\* A task is in one layer of the pipeline.
LEMMA OneLayer ==
    ASSUME NEW k \in DOMAIN Pipeline, NEW j \in DOMAIN Pipeline,
           NEW t \in Pipeline[k], t \in Pipeline[j]
    PROVE  j = k
<1> DEFINE n == Len(Ingests)
<1>1. n \in Nat /\ DOMAIN Ingests = 1..n /\ DOMAIN Pipeline = 1..(n + 14)
  BY DagAssumption, PipelineLayers
<1>2. CASE \E i \in 1..n : t = Ingests[i]
  BY <1>1, <1>2, IngestNames
<1>3. CASE ~\E i \in 1..n : t = Ingests[i]
  <2>1. ASSUME NEW h \in DOMAIN Pipeline, t \in Pipeline[h]
        PROVE  \/ h = 1 /\ t = "start"
               \/ h = 2 /\ t \in Preflight
               \/ \E m \in 1..12 : h = n + 2 + m /\ t \in PipelineTail[m]
    <3>1. CASE h = 1 \/ h = 2
      BY <2>1, <3>1, PipelineLayers
    <3>2. ASSUME NEW i \in 1..n, h = 2 + i PROVE FALSE
      BY <2>1, <3>2, <1>3, PipelineLayers
    <3>3. ASSUME NEW m \in 1..12, h = n + 2 + m PROVE t \in PipelineTail[m]
      BY <2>1, <3>3, PipelineLayers
    <3> QED BY <3>1, <3>2, <3>3, PipelineCases
  <2>2. t = "start" => t \notin Preflight
    BY DEF Preflight
  <2>3. ASSUME NEW m \in 1..12, t \in PipelineTail[m]
        PROVE  t # "start" /\ t \notin Preflight /\ TailPlace[t] = m
    BY <2>3, TailPlaces, HeadIsNotTail
  <2>4. CASE t = "start" \/ t \in Preflight
    BY <2>1, <2>2, <2>3, <2>4
  <2>5. CASE t # "start" /\ t \notin Preflight
    <3>1. PICK m \in 1..12 : k = n + 2 + m /\ t \in PipelineTail[m]
      BY <2>1, <2>5
    <3>2. PICK h \in 1..12 : j = n + 2 + h /\ t \in PipelineTail[h]
      BY <2>1, <2>5
    <3>3. m = h
      BY <2>3, <3>1, <3>2
    <3> QED BY <3>1, <3>2, <3>3
  <2> QED BY <2>4, <2>5
<1> QED BY <1>2, <1>3

\* What a task of the pipeline waits for is the layer before it.
LEMMA PipelineUpstream ==
    ASSUME IsPipeline, NEW k \in DOMAIN Pipeline, k + 1 \in DOMAIN Pipeline,
           NEW t \in Pipeline[k + 1]
    PROVE  Upstream(t) = Pipeline[k]
<1> DEFINE J == {j \in DOMAIN Pipeline : j + 1 \in DOMAIN Pipeline /\ t \in Pipeline[j + 1]}
<1>1. Layers[dag] = Pipeline
  BY LayersOf DEF IsPipeline
<1>2. DOMAIN Pipeline \subseteq Nat
  BY LayerIndices
<1>3. J = {k}
  BY <1>2, OneLayer
<1>4. Upstream(t) = UNION {Pipeline[i] : i \in J}
  BY <1>1 DEF Upstream
<1> QED BY <1>3, <1>4

LEMMA TailUpstream ==
    ASSUME IsPipeline, NEW m \in 2..12, NEW t \in PipelineTail[m]
    PROVE  Upstream(t) = PipelineTail[m - 1]
<1> DEFINE k == Len(Ingests) + 2 + (m - 1)
<1>1. Len(Ingests) \in Nat /\ DOMAIN Pipeline = 1..(Len(Ingests) + 14)
  BY PipelineLayers
<1>2. k \in DOMAIN Pipeline /\ k + 1 \in DOMAIN Pipeline
      /\ k + 1 = Len(Ingests) + 2 + m /\ m \in 1..12 /\ m - 1 \in 1..12
  BY <1>1
<1>3. Pipeline[k + 1] = PipelineTail[m] /\ Pipeline[k] = PipelineTail[m - 1]
  BY <1>2, PipelineLayers
<1> HIDE DEF k
<1> QED BY <1>2, <1>3, PipelineUpstream

LEMMA TailTasks ==
    ASSUME IsPipeline, NEW m \in 1..12, NEW t \in PipelineTail[m]
    PROVE  t \in Tasks(dag)
<1>1. Len(Ingests) \in Nat /\ Len(Ingests) + 2 + m \in DOMAIN Pipeline
  BY LayerIndices
<1>2. Pipeline[Len(Ingests) + 2 + m] = PipelineTail[m]
  BY PipelineLayers
<1>3. Layers[dag] = Pipeline
  BY LayersOf DEF IsPipeline
<1> QED BY <1>1, <1>2, <1>3 DEF Tasks

\* The models and seeds that dbt builds, and where the pipeline builds them.
DbtModels == DOMAIN DbtCommand \cap DataTasks

LEMMA ModelsOf ==
    ASSUME NEW t \in DbtModels
    PROVE  LeavesResults(DbtCommand[t])
<1>1. \A i \in DOMAIN Ingests : t # Ingests[i]
  BY IngestIsNotDbt DEF DbtModels
<1>2. t \in {"dbt_seed", "dbt_run_staging", "dbt_run_intermediate",
             "dbt_run_marts", "dbt_run_ml", "dbt_full_refresh"}
  BY <1>1 DEF DbtModels, DataTasks, DbtCommand
<1>3. DbtCommand[t] \in {"seed", "run", "build"}
  <2>1. /\ DbtCommand["dbt_seed"] = "seed" /\ DbtCommand["dbt_run_staging"] = "run"
        /\ DbtCommand["dbt_run_intermediate"] = "run"
        /\ DbtCommand["dbt_run_marts"] = "run" /\ DbtCommand["dbt_run_ml"] = "run"
        /\ DbtCommand["dbt_full_refresh"] = "build"
    BY DEF DbtCommand
  <2> QED BY <1>2, <2>1
<1> QED BY <1>3 DEF LeavesResults

LEMMA ModelsOfThePipeline ==
    ASSUME IsPipeline, NEW t \in DbtModels \cap Tasks(dag)
    PROVE  \E m \in 3..7 : t \in PipelineTail[m]
<1>1. \A i \in DOMAIN Ingests : t # Ingests[i]
  BY IngestIsNotDbt DEF DbtModels
<1>2. t \in {"dbt_seed", "dbt_run_staging", "dbt_run_intermediate",
             "dbt_run_marts", "dbt_run_ml", "dbt_full_refresh"}
  BY <1>1 DEF DbtModels, DataTasks, DbtCommand
<1>3. t # "dbt_full_refresh"
  <2> SUFFICES ASSUME t = "dbt_full_refresh" PROVE FALSE
    OBVIOUS
  <2>1. PICK j \in DOMAIN Pipeline : t \in Pipeline[j]
    BY LayersOf DEF IsPipeline, Tasks
  <2>2. CASE j = 1 \/ j = 2
    <3>1. t \in {"start"} \/ t \in Preflight
      BY <2>1, <2>2, PipelineLayers
    <3> QED BY <3>1 DEF Preflight
  <2>3. CASE \E i \in 1..Len(Ingests) : j = 2 + i
    <3>1. PICK i \in 1..Len(Ingests) : j = 2 + i
      BY <2>3
    <3>2. Pipeline[j] = {Ingests[i]}
      BY <3>1, PipelineLayers
    <3>3. i \in DOMAIN Ingests
      BY DagAssumption
    <3> QED BY <2>1, <3>2, <3>3, <1>1
  <2>4. CASE \E m \in 1..12 : j = Len(Ingests) + 2 + m
    <3>1. PICK m \in 1..12 : t \in PipelineTail[m]
      BY <2>1, <2>4, PipelineLayers
    <3>2. t \in DOMAIN TailPlace
      BY <3>1, TailPlaces
    <3> QED BY <3>2 DEF TailPlace
  <2> QED BY <2>2, <2>3, <2>4, PipelineCases
<1>4. /\ "dbt_seed" \in PipelineTail[3] /\ "dbt_run_staging" \in PipelineTail[4]
      /\ "dbt_run_intermediate" \in PipelineTail[5]
      /\ "dbt_run_marts" \in PipelineTail[6] /\ "dbt_run_ml" \in PipelineTail[7]
  BY DEF PipelineTail
<1>5. 3 \in 3..7 /\ 4 \in 3..7 /\ 5 \in 3..7 /\ 6 \in 3..7 /\ 7 \in 3..7
  OBVIOUS
<1> QED BY <1>2, <1>3, <1>4, <1>5

\* Only the pipeline publishes.
LEMMA OnlyThePipelinePublishes ==
    ASSUME dag \in Dags, "publish_dbt_results" \in Tasks(dag)
    PROVE  IsPipeline
<1>1. "publish_dbt_results" \notin Tasks("fineract_backfill")
  <2>1. \A j \in DOMAIN Backfill : "publish_dbt_results" \notin Backfill[j]
    BY DEF Backfill
  <2> QED BY <2>1, LayersOf DEF Tasks
<1>2. "publish_dbt_results" \notin Tasks("platform_maintenance")
  <2>1. \A j \in DOMAIN Maintenance : "publish_dbt_results" \notin Maintenance[j]
    BY DEF Maintenance
  <2> QED BY <2>1, LayersOf DEF Tasks
<1> QED BY <1>1, <1>2 DEF Dags, IsPipeline

-----------------------------------------------------------------------------
(* What is published, and when.                                            *)

\* From the CDC gate to the publishing tasks nothing is done out of order.
TailInOrder ==
    IsPipeline => \A m \in 2..10 :
        \A t \in PipelineTail[m], u \in PipelineTail[m - 1] : Done(t) => Done(u)

\* A model that was built has left its results.
BuiltModelsLeaveResults ==
    \A t \in DbtModels \cap Tasks(dag) : state[t] = "success" => results = "this"

\* Earlier results are published when the models of this run are past.
PublishedAfterTheModels ==
    /\ published # "none" => IsPipeline
    /\ published = "earlier" =>
          \A t \in DbtModels \cap Tasks(dag) : Done(t) /\ state[t] # "success"

PublishInv ==
    TypeOK /\ TailInOrder /\ BuiltModelsLeaveResults /\ PublishedAfterTheModels

\* The layers behind the gate that are one task wide.
LEMMA TailIsNarrow ==
    ASSUME NEW m \in 1..9
    PROVE  \E w : PipelineTail[m] = {w}
<1>1. \/ PipelineTail[m] = {"wait_for_cdc_to_catch_up"}
      \/ PipelineTail[m] = {"dbt_deps"} \/ PipelineTail[m] = {"dbt_seed"}
      \/ PipelineTail[m] = {"dbt_run_staging"}
      \/ PipelineTail[m] = {"dbt_run_intermediate"}
      \/ PipelineTail[m] = {"dbt_run_marts"} \/ PipelineTail[m] = {"dbt_run_ml"}
      \/ PipelineTail[m] = {"dbt_source_freshness"}
      \/ PipelineTail[m] = {"dbt_test"}
  BY DEF PipelineTail
<1> QED BY <1>1, Zenon

\* A step changes the state of the tasks of this run one at a time, and of a
\* task that was not done, unless the run ends or the next begins.
LEMMA OneTaskAtATime ==
    ASSUME Shape, NEW t \in Tasks(dag), Execute(t) \/ Cascade(t)
    PROVE  /\ UNCHANGED <<dag, params, run>>
           /\ run = "running" /\ ~Done(t)
           /\ state \in [Tasks(dag) -> State] /\ state' \in [Tasks(dag) -> State]
           /\ \A u \in Tasks(dag) : u # t => state'[u] = state[u]
<1>1. CASE Execute(t)
  <2>1. /\ Ready(t) /\ UNCHANGED <<dag, params, run>>
        /\ \/ state' = state
           \/ \E x \in State \ {"none"} : state' = [state EXCEPT ![t] = x]
    BY <1>1, ExecuteFacts
  <2> QED BY <2>1 DEF Ready, Shape
<1>2. CASE Cascade(t)
  <2>1. /\ UNCHANGED <<dag, params, run, acted>> /\ ~Done(t)
        /\ \E x \in {"upstream_failed", "skipped"} : state' = [state EXCEPT ![t] = x]
    BY <1>2, CascadeFacts
  <2>2. run = "running"
    BY <1>2 DEF Cascade
  <2> QED BY <2>1, <2>2 DEF Shape, State
<1> QED BY <1>1, <1>2

\* The layers behind the gate stay in order while tasks only become done, each
\* after its layer's predecessor.
LEMMA TailStep == ASSUME PublishInv, [Next]_vars PROVE TailInOrder'
<1> USE DEF Done
<1>0. Shape
  BY DEF PublishInv, TypeOK, Shape
<1>1. ASSUME NEW t \in Tasks(dag), Execute(t) \/ Cascade(t) PROVE TailInOrder'
  <2>1. /\ UNCHANGED <<dag, params, run>>
        /\ \A u \in Tasks(dag) : u # t => state'[u] = state[u]
        /\ ~Done(t)
    BY <1>0, <1>1, OneTaskAtATime
  <2> SUFFICES ASSUME IsPipeline, NEW m \in 2..10, NEW v \in PipelineTail[m],
                      NEW u \in PipelineTail[m - 1], state'[v] # "none"
               PROVE  state'[u] # "none"
    BY <2>1 DEF TailInOrder, IsPipeline
  <2>2. m \in 1..12 /\ m - 1 \in 1..9 /\ m - 1 \in 1..12 /\ m \in 2..12
    OBVIOUS
  <2>3. v \in Tasks(dag) /\ u \in Tasks(dag)
    BY <2>2, TailTasks
  <2>4. Done(v) => Done(u)
    BY DEF PublishInv, TailInOrder
  <2>5. CASE v # t
    BY <2>1, <2>3, <2>4, <2>5
  <2>6. CASE v = t
    <3>1. Upstream(t) = PipelineTail[m - 1]
      BY <2>2, <2>6, TailUpstream
    <3>2. PICK w : PipelineTail[m - 1] = {w}
      BY <2>2, TailIsNarrow
    <3>3. Upstream(t) = {u}
      BY <3>1, <3>2
    <3>4. Done(u)
      BY <1>1, <3>3 DEF Execute, Ready, AllUpstreamDone, Cascade, SomeUpstream, Bad
    <3> QED BY <2>1, <2>3, <3>4
  <2> QED BY <2>5, <2>6
<1>2. ASSUME dag' = dag, state' = state PROVE TailInOrder'
  BY <1>2 DEF PublishInv, TailInOrder, IsPipeline
<1>3. CASE EndRun
  BY <1>2, <1>3 DEF EndRun
<1>4. CASE TimeoutRun
  <2>1. dag' = dag /\ state' = [t \in Tasks(dag) |->
                                  IF Done(t) THEN state[t] ELSE "skipped"]
    BY <1>4 DEF TimeoutRun
  <2>2. \A t \in Tasks(dag) : state'[t] # "none"
    BY <2>1
  <2>3. IsPipeline => \A m \in 2..10 : \A u \in PipelineTail[m - 1] : u \in Tasks(dag)
    <3>1. \A m \in 2..10 : m - 1 \in 1..12
      OBVIOUS
    <3> QED BY <3>1, TailTasks
  <2> QED BY <2>1, <2>2, <2>3 DEF TailInOrder, IsPipeline
<1>5. CASE NextRun
  <2>1. dag' = dag /\ state' = [t \in Tasks(dag) |-> "none"]
    BY <1>5, NextRunFacts
  <2>2. IsPipeline => \A m \in 2..10 : \A t \in PipelineTail[m] : t \in Tasks(dag)
    <3>1. \A m \in 2..10 : m \in 1..12
      OBVIOUS
    <3> QED BY <3>1, TailTasks
  <2> QED BY <2>1, <2>2 DEF TailInOrder, IsPipeline
<1>6. CASE UNCHANGED <<dag, params, run, state, acted>>
  BY <1>2, <1>6
<1> QED BY <1>0, <1>1, <1>3, <1>4, <1>5, <1>6, StepCases

\* When the results are about to be published the models are past.
LEMMA ModelsArePast ==
    ASSUME PublishInv, IsPipeline, Ready("publish_dbt_results"),
           NEW t \in DbtModels \cap Tasks(dag)
    PROVE  Done(t)
<1>1. "publish_dbt_results" \in PipelineTail[10] /\ "dbt_test" \in PipelineTail[9]
      /\ "dbt_source_freshness" \in PipelineTail[8]
      /\ "dbt_run_ml" \in PipelineTail[7] /\ "dbt_run_marts" \in PipelineTail[6]
      /\ "dbt_run_intermediate" \in PipelineTail[5]
      /\ "dbt_run_staging" \in PipelineTail[4] /\ "dbt_seed" \in PipelineTail[3]
  BY DEF PipelineTail
<1>2. Upstream("publish_dbt_results") = PipelineTail[9]
  <2>1. 10 \in 2..12 /\ 10 - 1 = 9
    OBVIOUS
  <2> QED BY <1>1, <2>1, TailUpstream
<1>3. Done("dbt_test")
  BY <1>1, <1>2 DEF Ready, AllUpstreamDone
<1>4. \A m \in 4..9 : \A v \in PipelineTail[m], u \in PipelineTail[m - 1] :
          Done(v) => Done(u)
  BY DEF PublishInv, TailInOrder
<1>5. /\ 9 \in 4..9 /\ 8 \in 4..9 /\ 7 \in 4..9 /\ 6 \in 4..9 /\ 5 \in 4..9
      /\ 4 \in 4..9 /\ 9 - 1 = 8 /\ 8 - 1 = 7 /\ 7 - 1 = 6 /\ 6 - 1 = 5
      /\ 5 - 1 = 4 /\ 4 - 1 = 3
  OBVIOUS
<1>6. Done("dbt_source_freshness")
  BY <1>1, <1>3, <1>4, <1>5
<1>7. Done("dbt_run_ml")
  BY <1>1, <1>4, <1>5, <1>6
<1>8. Done("dbt_run_marts")
  BY <1>1, <1>4, <1>5, <1>7
<1>9. Done("dbt_run_intermediate")
  BY <1>1, <1>4, <1>5, <1>8
<1>10. Done("dbt_run_staging")
  BY <1>1, <1>4, <1>5, <1>9
<1>11. Done("dbt_seed")
  BY <1>1, <1>4, <1>5, <1>10
<1>12. PICK m \in 3..7 : t \in PipelineTail[m]
  BY ModelsOfThePipeline
<1>13. t \in {"dbt_seed", "dbt_run_staging", "dbt_run_intermediate",
              "dbt_run_marts", "dbt_run_ml"}
  BY <1>12 DEF PipelineTail
<1> QED BY <1>7, <1>8, <1>9, <1>10, <1>11, <1>13

LEMMA ResultsStep ==
    ASSUME PublishInv, [Next]_vars
    PROVE  BuiltModelsLeaveResults' /\ PublishedAfterTheModels'
<1> DEFINE M == DbtModels \cap Tasks(dag)
           Goal == /\ \A u \in M : state'[u] = "success" => results' = "this"
                   /\ published' # "none" => IsPipeline
                   /\ published' = "earlier" =>
                        \A u \in M : state'[u] # "none" /\ state'[u] # "success"
<1>0. Shape
  BY DEF PublishInv, TypeOK, Shape
<1>1. ASSUME dag' = dag, Goal
      PROVE  BuiltModelsLeaveResults' /\ PublishedAfterTheModels'
  <2>1. M' = M /\ (IsPipeline' <=> IsPipeline)
    BY <1>1 DEF Tasks, DbtModels, IsPipeline, DataTasks
  <2> QED BY <1>1, <2>1 DEF BuiltModelsLeaveResults, PublishedAfterTheModels, Done
<1>2. /\ \A u \in M : state[u] = "success" => results = "this"
      /\ published # "none" => IsPipeline
      /\ published = "earlier" =>
            \A u \in M : state[u] # "none" /\ state[u] # "success"
  BY DEF PublishInv, BuiltModelsLeaveResults, PublishedAfterTheModels, Done
<1>3. M \subseteq Tasks(dag) /\ M \subseteq DOMAIN DbtCommand
  BY DEF DbtModels
<1> HIDE DEF M
<1>4. ASSUME NEW t \in Tasks(dag), Execute(t) PROVE dag' = dag /\ Goal
  <2>1. /\ UNCHANGED <<dag, params, run>> /\ run = "running" /\ ~Done(t)
        /\ state \in [Tasks(dag) -> State] /\ state' \in [Tasks(dag) -> State]
        /\ \A u \in Tasks(dag) : u # t => state'[u] = state[u]
    BY <1>0, <1>4, OneTaskAtATime
  <2>2. Quiet(t) \/ Building(t) \/ Publishing(t) \/ Counting(t)
    BY <1>4, ExecuteEffects
  <2>3. CASE Quiet(t) \/ Counting(t)
    <3>1. t \notin DOMAIN DbtCommand /\ results' = results /\ published' = published
      BY <2>3 DEF Quiet, Counting, DbtCommand
    <3> QED BY <1>2, <1>3, <2>1, <3>1
  <2>4. CASE Building(t)
    <3>1. /\ published' = published
          /\ results' = results \/ results' = "this"
          /\ \/ state' = [state EXCEPT ![t] = "failed"] \/ state' = state
             \/ /\ state' = [state EXCEPT ![t] = "success"]
                /\ LeavesResults(DbtCommand[t]) => results' = "this"
      BY <2>4 DEF Building
    <3>2. t \in M => LeavesResults(DbtCommand[t])
      BY ModelsOf DEF M
    <3>3. \A u \in M : state'[u] = "success" => results' = "this"
      BY <1>2, <1>3, <2>1, <3>1, <3>2
    <3>4. published = "earlier" => t \notin M
      BY <1>2, <2>1 DEF Done
    <3> QED BY <1>2, <1>3, <2>1, <3>1, <3>3, <3>4
  <2>5. CASE Publishing(t)
    <3>1. /\ t = "publish_dbt_results" /\ results' = results
          /\ published' = published \/ (published' = results /\ results # "none")
      BY <2>5 DEF Publishing
    <3>2. t \notin M
      BY <1>3, <3>1 DEF DbtCommand
    <3>3. IsPipeline
      BY <1>0, <3>1, OnlyThePipelinePublishes DEF Shape
    <3>4. \A u \in M : state[u] # "none"
      BY <1>4, <3>1, <3>3, ModelsArePast DEF M, Execute, Done
    <3>5. \A u \in M : state'[u] = state[u]
      BY <1>3, <2>1, <3>2
    <3>6. results = "earlier" => \A u \in M : state[u] # "success"
      BY <1>2
    <3> QED BY <1>2, <2>1, <3>1, <3>3, <3>4, <3>5, <3>6
  <2> QED BY <2>2, <2>3, <2>4, <2>5
<1>5. ASSUME NEW t \in Tasks(dag), Cascade(t) PROVE dag' = dag /\ Goal
  <2>1. /\ dag' = dag /\ ~Done(t)
        /\ \E x \in {"upstream_failed", "skipped"} : state' = [state EXCEPT ![t] = x]
    BY <1>5, CascadeFacts
  <2>2. results' = results /\ published' = published
    BY <1>5 DEF Cascade, world
  <2>3. \A u \in M : \/ state'[u] = state[u]
                     \/ state'[u] \in {"upstream_failed", "skipped"}
    BY <1>0, <1>3, <2>1 DEF Shape
  <2> QED BY <1>2, <2>1, <2>2, <2>3
<1>6. CASE EndRun
  BY <1>1, <1>2, <1>6 DEF EndRun, world
<1>7. CASE TimeoutRun
  <2>1. /\ dag' = dag
        /\ \A t \in Tasks(dag) : state'[t] = state[t]
                                 \/ (state[t] = "none" /\ state'[t] = "skipped")
    BY <1>0, <1>7, TimeoutFacts
  <2>2. results' = results /\ published' = published
    BY <1>7 DEF TimeoutRun, world
  <2> QED BY <1>1, <1>2, <1>3, <2>1, <2>2
<1>8. CASE NextRun
  <2>1. dag' = dag /\ published' = "none" /\ state' = [t \in Tasks(dag) |-> "none"]
    BY <1>8 DEF NextRun
  <2> QED BY <1>1, <1>3, <2>1
<1>9. ASSUME ~\E t \in Tasks(dag) : Execute(t) \/ Cascade(t),
             ~EndRun, ~TimeoutRun, ~NextRun
      PROVE  dag' = dag /\ Goal
  <2>1. UNCHANGED <<dag, state, results, published>>
    BY <1>9, OtherEffects
  <2> QED BY <1>2, <2>1
<1> HIDE DEF Goal
<1> QED BY <1>1, <1>4, <1>5, <1>6, <1>7, <1>8, <1>9

LEMMA InitPublish == Init => PublishInv
<1> SUFFICES ASSUME Init PROVE PublishInv
  OBVIOUS
<1>1. TypeOK
  BY InitTypeOK
<1>2. published = "none" /\ state = [t \in Tasks(dag) |-> "none"]
  BY DEF Init
<1>3. \A m \in 2..10 : m \in 1..12
  OBVIOUS
<1>4. TailInOrder
  BY <1>2, <1>3, TailTasks DEF TailInOrder, Done
<1> QED BY <1>1, <1>2, <1>4 DEF PublishInv, BuiltModelsLeaveResults,
       PublishedAfterTheModels

(* The order behind the CDC gate, with what dbt leaves in its target       *)
(* directory: inductive for any list of entities and any faults.           *)
THEOREM PublishInvariant == Spec => []PublishInv
<1>1. Init => PublishInv
  BY InitPublish
<1>2. PublishInv /\ [Next]_vars => PublishInv'
  BY TypeOKStep, TailStep, ResultsStep DEF PublishInv
<1> QED BY <1>1, <1>2, PTL DEF Spec

(* publish_dbt_results takes the file it finds.  It finds that of an       *)
(* earlier run only if dbt_seed and every dbt_run of this one ended        *)
(* without success: each of them leaves its own behind.                    *)
THEOREM StaleResultsAreBarren == Spec => []StaleResultsOnlyWithoutModels
<1>1. PublishInv => StaleResultsOnlyWithoutModels
  BY DEF PublishInv, PublishedAfterTheModels, StaleResultsOnlyWithoutModels,
     DbtModels
<1> QED BY <1>1, PublishInvariant, PTL

-----------------------------------------------------------------------------
(* The failures of a green run.                                            *)

\* The tasks that end after the metrics are pushed, or beside them.
Late == {"publish_dbt_results", "data_quality_gate", "finish"}

\* The tasks that have ended when the metrics are pushed: nothing waits for
\* more than one of the preflight sensors to fail.
Counted == Tasks(dag) \ (Preflight \cup Late)

\* What is passed over was passed over because something before it failed.
Origins ==
    IsPipeline =>
        \A k \in DOMAIN Pipeline : \A t \in Pipeline[k] :
            state[t] = "upstream_failed" =>
                \E j \in DOMAIN Pipeline : j < k /\ \E u \in Pipeline[j] :
                    state[u] = "failed"

\* Only the end of the pipeline is ever skipped, unless the run times out.
NothingSkipped ==
    IsPipeline /\ run # "failed" =>
        \A t \in Tasks(dag) \ Late : state[t] # "skipped"

\* Whatever fails, the tasks end in the order of their layers up to where the
\* metrics are pushed; the preflight sensors are the exception.
InOrder ==
    IsPipeline /\ run # "failed" =>
        \A k \in DOMAIN Pipeline : k <= Len(Ingests) + 12 =>
            \A t \in Pipeline[k] : Done(t) =>
                \A j \in DOMAIN Pipeline : j < k /\ j # 2 =>
                    \A u \in Pipeline[j] : Done(u)

\* dbt does not know the command of this task.
FreshnessFails ==
    IsPipeline /\ run # "failed" =>
        state["dbt_source_freshness"] \in {"none", "failed"}

\* The metrics were pushed when all but the end of the run was done, with
\* every failure in them, and a single failure is that of the freshness check.
CountedAtTheEnd ==
    IsPipeline /\ pushed =>
        /\ \A t \in Counted : Done(t)
        /\ Cardinality(Failed \cap Counted) <= counted
        /\ counted <= 1 =>
              \A t \in DataTasks \cap Tasks(dag) : state[t] = "success"

\* A green end has no failure right before it.
GreenEnd ==
    IsPipeline /\ run # "failed" =>
        /\ state["finish"] \in {"success", "skipped"} =>
              state["data_quality_gate"] \in {"success", "skipped"}
        /\ state["data_quality_gate"] \in {"success", "skipped"} =>
              state["publish_dbt_results"] \in {"success", "skipped"}
        /\ run = "success" => state["finish"] \in {"success", "skipped"}

CountInv ==
    /\ TypeOK /\ Origins /\ NothingSkipped /\ InOrder /\ FreshnessFails
    /\ CountedAtTheEnd /\ GreenEnd

LEMMA LatePlaces ==
    ASSUME NEW j \in DOMAIN Pipeline, NEW t \in Pipeline[j]
    PROVE  /\ t \in Late => j >= Len(Ingests) + 12
           /\ t \notin Late => j <= Len(Ingests) + 12
           /\ t \notin Late /\ j = Len(Ingests) + 12 =>
                  t = "publish_pipeline_metrics"
<1> DEFINE n == Len(Ingests)
<1>1. n \in Nat /\ DOMAIN Pipeline = 1..(n + 14)
  BY PipelineLayers
<1>2. /\ "publish_dbt_results" \in Pipeline[n + 12]
      /\ "data_quality_gate" \in Pipeline[n + 13]
      /\ "finish" \in Pipeline[n + 14]
      /\ \A u \in Pipeline[n + 12] :
            u \in Late \/ u = "publish_pipeline_metrics"
      /\ \A u \in Pipeline[n + 13] : u \in Late
      /\ \A u \in Pipeline[n + 14] : u \in Late
  <2>1. /\ n + 12 = n + 2 + 10 /\ n + 13 = n + 2 + 11 /\ n + 14 = n + 2 + 12
        /\ 10 \in 1..12 /\ 11 \in 1..12 /\ 12 \in 1..12
    BY <1>1
  <2>2. /\ Pipeline[n + 12] = PipelineTail[10]
        /\ Pipeline[n + 13] = PipelineTail[11]
        /\ Pipeline[n + 14] = PipelineTail[12]
    BY <2>1, PipelineLayers, Zenon
  <2>3. /\ PipelineTail[10] = {"publish_dbt_results", "publish_pipeline_metrics"}
        /\ PipelineTail[11] = {"data_quality_gate"}
        /\ PipelineTail[12] = {"finish"}
    BY DEF PipelineTail
  <2> QED BY <2>2, <2>3 DEF Late
<1>3. n + 12 \in DOMAIN Pipeline /\ n + 13 \in DOMAIN Pipeline
      /\ n + 14 \in DOMAIN Pipeline
  BY <1>1
<1>4. t \in Late => j \in {n + 12, n + 13, n + 14}
  BY <1>2, <1>3, OneLayer DEF Late
<1>5. t \notin Late => j # n + 13 /\ j # n + 14
  BY <1>2
<1> HIDE DEF n
<1>6. j \in Nat /\ j <= n + 14 /\ n \in Nat
  BY <1>1
<1>7. t \in Late => j >= n + 12
  BY <1>4, <1>6
<1>8. t \notin Late => j <= n + 12
  BY <1>5, <1>6
<1>9. t \notin Late /\ j = n + 12 => t = "publish_pipeline_metrics"
  BY <1>2
<1> QED BY <1>7, <1>8, <1>9 DEF n

\* What comes before a task that is not late is not late.
LEMMA EarlyUpstream ==
    ASSUME NEW k \in DOMAIN Pipeline, NEW t \in Pipeline[k] \ Late,
           NEW j \in DOMAIN Pipeline, j < k, NEW u \in Pipeline[j]
    PROVE  u \notin Late
<1>1. k <= Len(Ingests) + 12
  BY LatePlaces
<1>2. u \in Late => j >= Len(Ingests) + 12
  BY LatePlaces
<1>3. j \in Nat /\ k \in Nat /\ Len(Ingests) \in Nat
  BY LayerIndices
<1> QED BY <1>1, <1>2, <1>3

\* Where a task of the pipeline waits, it waits for the layer before its own.
LEMMA WaitsFor ==
    ASSUME IsPipeline, NEW t \in Tasks(dag)
    PROVE  \E k \in DOMAIN Pipeline :
              /\ t \in Pipeline[k]
              /\ k > 1 => /\ k - 1 \in DOMAIN Pipeline
                          /\ Upstream(t) = Pipeline[k - 1]
              /\ k = 1 => Upstream(t) = {}
<1>1. Layers[dag] = Pipeline
  BY LayersOf DEF IsPipeline
<1>2. PICK k \in DOMAIN Pipeline : t \in Pipeline[k]
  BY <1>1 DEF Tasks
<1>3. Len(Ingests) \in Nat /\ DOMAIN Pipeline = 1..(Len(Ingests) + 14)
  BY PipelineLayers
<1>4. k > 1 => k - 1 \in DOMAIN Pipeline /\ (k - 1) + 1 = k
  BY <1>3
<1>5. k > 1 => Upstream(t) = Pipeline[k - 1]
  BY <1>2, <1>4, PipelineUpstream
<1>6. k = 1 => Upstream(t) = {}
  <2> SUFFICES ASSUME k = 1 PROVE Upstream(t) = {}
    OBVIOUS
  <2>1. ASSUME NEW j \in DOMAIN Pipeline, j + 1 \in DOMAIN Pipeline,
               t \in Pipeline[j + 1]
        PROVE  FALSE
    <3>1. j + 1 = 1
      BY <1>2, <2>1, OneLayer
    <3> QED BY <1>3, <3>1
  <2> QED BY <1>1, <2>1 DEF Upstream
<1> QED BY <1>2, <1>4, <1>5, <1>6

LEMMA UpstreamTasks ==
    ASSUME NEW t
    PROVE  Upstream(t) \subseteq Tasks(dag)
BY DEF Upstream, Tasks

LEMMA PipelineTasks ==
    ASSUME IsPipeline, NEW j \in DOMAIN Pipeline, NEW u \in Pipeline[j]
    PROVE  u \in Tasks(dag)
<1>1. Layers[dag] = Pipeline
  BY LayersOf DEF IsPipeline
<1> QED BY <1>1 DEF Tasks

\* The last three layers.
LEMMA TheEnd ==
    ASSUME IsPipeline
    PROVE  /\ Late \subseteq Tasks(dag)
           /\ "publish_pipeline_metrics" \in Tasks(dag)
           /\ Upstream("finish") = {"data_quality_gate"}
           /\ Upstream("data_quality_gate") =
                 {"publish_dbt_results", "publish_pipeline_metrics"}
<1>1. /\ PipelineTail[10] = {"publish_dbt_results", "publish_pipeline_metrics"}
      /\ PipelineTail[11] = {"data_quality_gate"}
      /\ PipelineTail[12] = {"finish"}
  BY DEF PipelineTail
<1>2. /\ 10 \in 1..12 /\ 11 \in 1..12 /\ 12 \in 1..12
      /\ 11 \in 2..12 /\ 12 \in 2..12 /\ 11 - 1 = 10 /\ 12 - 1 = 11
  OBVIOUS
<1>3. /\ "publish_dbt_results" \in Tasks(dag)
      /\ "publish_pipeline_metrics" \in Tasks(dag)
      /\ "data_quality_gate" \in Tasks(dag) /\ "finish" \in Tasks(dag)
  BY <1>1, <1>2, TailTasks
<1>4. Upstream("finish") = PipelineTail[11]
  BY <1>1, <1>2, TailUpstream
<1>5. Upstream("data_quality_gate") = PipelineTail[10]
  BY <1>1, <1>2, TailUpstream
<1> QED BY <1>1, <1>3, <1>4, <1>5 DEF Late

\* How a task that executes ends.
LEMMA Outcomes ==
    ASSUME Shape, NEW t \in Tasks(dag), Execute(t)
    PROVE  /\ state'[t] \in {"none", "success", "failed", "skipped"}
           /\ state'[t] = "skipped" => t = "publish_dbt_results"
<1>1. Quiet(t) \/ Building(t) \/ Publishing(t) \/ Counting(t)
  BY ExecuteEffects
<1>2. ~Done(t) /\ state \in [Tasks(dag) -> State]
  BY DEF Execute, Ready, Shape
<1>3. CASE Quiet(t)
  BY <1>2, <1>3 DEF Quiet, Done
<1>4. CASE Building(t)
  BY <1>2, <1>4 DEF Building, Done
<1>5. CASE Publishing(t)
  BY <1>2, <1>5 DEF Publishing, Done
<1>6. CASE Counting(t)
  BY <1>2, <1>6 DEF Counting
<1> QED BY <1>1, <1>3, <1>4, <1>5, <1>6

\* What a failure passes over was not done, and something before it was bad
\* or was skipped.
LEMMA PassedOver ==
    ASSUME Shape, NEW t \in Tasks(dag), Cascade(t)
    PROVE  /\ state'[t] \in {"upstream_failed", "skipped"}
           /\ state'[t] = "upstream_failed" => SomeUpstream(t, Bad)
           /\ state'[t] = "skipped" => /\ SomeUpstream(t, {"skipped"})
                                       /\ ~SomeUpstream(t, Bad)
<1>1. state \in [Tasks(dag) -> State]
  BY DEF Shape
<1>2. CASE /\ SomeUpstream(t, Bad)
           /\ Ends(t, "upstream_failed")
  BY <1>1, <1>2 DEF Ends
<1>3. CASE /\ ~SomeUpstream(t, Bad)
           /\ SomeUpstream(t, {"skipped"})
           /\ Ends(t, "skipped")
  BY <1>1, <1>3 DEF Ends
<1>4. CASE /\ Upstream(t) # {}
           /\ \A u \in Upstream(t) : state[u] = "skipped"
           /\ Ends(t, "skipped")
  BY <1>1, <1>4 DEF Ends, SomeUpstream, Bad
<1> QED BY <1>2, <1>3, <1>4 DEF Cascade

\* A task's step takes nothing away from what has failed.
LEMMA FailuresStay ==
    ASSUME Shape, NEW t \in Tasks(dag), Execute(t) \/ Cascade(t)
    PROVE  /\ Failed \subseteq Failed'
           /\ \A u \in Failed' : u \in Failed \/ (u = t /\ state'[t] = "failed")
<1>1. /\ dag' = dag /\ ~Done(t)
      /\ \A u \in Tasks(dag) : u # t => state'[u] = state[u]
  BY OneTaskAtATime
<1> QED BY <1>1 DEF Failed, Done

LEMMA OriginsStep == ASSUME CountInv, [Next]_vars PROVE Origins'
<1>0. Shape /\ Origins
  BY DEF CountInv, TypeOK, Shape
<1>1. ASSUME NEW t \in Tasks(dag), Execute(t) \/ Cascade(t) PROVE Origins'
  <2>1. /\ UNCHANGED dag /\ ~Done(t)
        /\ \A u \in Tasks(dag) : u # t => state'[u] = state[u]
    BY <1>0, <1>1, OneTaskAtATime
  <2> SUFFICES ASSUME IsPipeline, NEW k \in DOMAIN Pipeline, NEW v \in Pipeline[k],
                      state'[v] = "upstream_failed"
               PROVE  \E j \in DOMAIN Pipeline : j < k /\ \E u \in Pipeline[j] :
                         state'[u] = "failed"
    BY <2>1 DEF Origins, IsPipeline
  <2>2. v \in Tasks(dag)
    BY PipelineTasks
  <2>3. ASSUME NEW j \in DOMAIN Pipeline, j < k, NEW u \in Pipeline[j],
               state[u] = "failed"
        PROVE  \E h \in DOMAIN Pipeline : h < k /\ \E w \in Pipeline[h] :
                  state'[w] = "failed"
    <3>1. u # t /\ u \in Tasks(dag)
      BY <2>1, <2>3, PipelineTasks DEF Done
    <3> QED BY <2>1, <2>3, <3>1
  <2>4. CASE v # t
    <3>1. state[v] = "upstream_failed"
      BY <2>1, <2>2, <2>4
    <3>2. PICK j \in DOMAIN Pipeline : j < k /\ \E u \in Pipeline[j] : state[u] = "failed"
      BY <1>0, <3>1 DEF Origins
    <3> QED BY <2>3, <3>2
  <2>5. CASE v = t
    <3>1. Cascade(t)
      BY <1>0, <1>1, <2>5, Outcomes
    <3>2. PICK w \in Upstream(t) : state[w] \in Bad
      BY <1>0, <2>5, <3>1, PassedOver DEF SomeUpstream
    <3>3. PICK h \in DOMAIN Pipeline :
             /\ t \in Pipeline[h]
             /\ h > 1 => /\ h - 1 \in DOMAIN Pipeline
                         /\ Upstream(t) = Pipeline[h - 1]
             /\ h = 1 => Upstream(t) = {}
      BY WaitsFor
    <3>4. h = k /\ k \in Nat /\ k >= 1
      BY <2>5, <3>3, OneLayer, LayerIndices
    <3>5. k - 1 \in DOMAIN Pipeline /\ w \in Pipeline[k - 1] /\ k - 1 < k
      BY <3>2, <3>3, <3>4
    <3>6. CASE state[w] = "failed"
      BY <2>3, <3>5, <3>6
    <3>7. CASE state[w] = "upstream_failed"
      <4>1. PICK j \in DOMAIN Pipeline :
               j < k - 1 /\ \E u \in Pipeline[j] : state[u] = "failed"
        BY <1>0, <3>5, <3>7 DEF Origins
      <4>2. j < k
        BY <3>4, <4>1, LayerIndices
      <4> QED BY <2>3, <4>1, <4>2
    <3> QED BY <3>2, <3>6, <3>7 DEF Bad
  <2> QED BY <2>4, <2>5
<1>2. ASSUME dag' = dag, state' = state PROVE Origins'
  BY <1>0, <1>2 DEF Origins, IsPipeline
<1>3. CASE EndRun
  BY <1>2, <1>3 DEF EndRun
<1>4. CASE TimeoutRun
  <2>1. /\ dag' = dag
        /\ \A t \in Tasks(dag) : state'[t] = state[t]
                                 \/ (state[t] = "none" /\ state'[t] = "skipped")
    BY <1>0, <1>4, TimeoutFacts
  <2>2. IsPipeline => \A k \in DOMAIN Pipeline : \A t \in Pipeline[k] :
           \/ state'[t] = state[t]
           \/ state[t] = "none" /\ state'[t] = "skipped"
    BY <2>1, PipelineTasks
  <2> SUFFICES ASSUME IsPipeline, NEW k \in DOMAIN Pipeline, NEW v \in Pipeline[k],
                      state'[v] = "upstream_failed"
               PROVE  \E j \in DOMAIN Pipeline : j < k /\ \E u \in Pipeline[j] :
                         state'[u] = "failed"
    BY <2>1 DEF Origins, IsPipeline
  <2>3. state[v] = "upstream_failed"
    BY <2>2
  <2>4. PICK j \in DOMAIN Pipeline : j < k /\ \E u \in Pipeline[j] : state[u] = "failed"
    BY <1>0, <2>3 DEF Origins
  <2>5. PICK u \in Pipeline[j] : state[u] = "failed"
    BY <2>4
  <2>6. state'[u] = "failed"
    BY <2>2, <2>5
  <2> QED BY <2>4, <2>6
<1>5. CASE NextRun
  <2>1. dag' = dag /\ state' = [t \in Tasks(dag) |-> "none"]
    BY <1>5, NextRunFacts
  <2>2. IsPipeline => \A k \in DOMAIN Pipeline : \A t \in Pipeline[k] : t \in Tasks(dag)
    BY PipelineTasks
  <2> QED BY <2>1, <2>2 DEF Origins, IsPipeline
<1>6. CASE UNCHANGED <<dag, params, run, state, acted>>
  BY <1>2, <1>6
<1> QED BY <1>0, <1>1, <1>3, <1>4, <1>5, <1>6, StepCases

\* What is skipped in a run that has not timed out is late.
LEMMA SkippedIsLate ==
    ASSUME CountInv, IsPipeline, NEW t \in Tasks(dag), Cascade(t),
           state'[t] = "skipped"
    PROVE  t \in Late
<1>1. Shape /\ NothingSkipped /\ run = "running"
  BY DEF CountInv, TypeOK, Shape, Cascade
<1>2. PICK u \in Upstream(t) : state[u] = "skipped"
  BY <1>1, PassedOver DEF SomeUpstream
<1>3. u \in Late
  BY <1>1, <1>2, UpstreamTasks DEF NothingSkipped
<1>4. PICK k \in DOMAIN Pipeline :
         /\ t \in Pipeline[k]
         /\ k > 1 => /\ k - 1 \in DOMAIN Pipeline
                     /\ Upstream(t) = Pipeline[k - 1]
         /\ k = 1 => Upstream(t) = {}
  BY WaitsFor
<1>5. k \in Nat /\ k > 1 /\ k - 1 < k
  <2>1. k \in Nat /\ k >= 1
    BY LayerIndices
  <2> QED BY <1>2, <1>4, <2>1
<1> QED BY <1>2, <1>3, <1>4, <1>5, EarlyUpstream

LEMMA SkippedStep == ASSUME CountInv, [Next]_vars PROVE NothingSkipped'
<1>0. Shape /\ NothingSkipped
  BY DEF CountInv, TypeOK, Shape
<1>1. ASSUME NEW t \in Tasks(dag), Execute(t) \/ Cascade(t) PROVE NothingSkipped'
  <2>1. /\ UNCHANGED <<dag, params, run>>
        /\ \A u \in Tasks(dag) : u # t => state'[u] = state[u]
    BY <1>0, <1>1, OneTaskAtATime
  <2>2. IsPipeline /\ state'[t] = "skipped" => t \in Late
    <3>1. CASE Execute(t)
      BY <1>0, <3>1, Outcomes DEF Late
    <3>2. CASE Cascade(t)
      BY <3>2, SkippedIsLate
    <3> QED BY <1>1, <3>1, <3>2
  <2> QED BY <1>0, <2>1, <2>2 DEF NothingSkipped, IsPipeline, Late
<1>2. ASSUME dag' = dag, state' = state, run # "failed" \/ run' = "failed"
      PROVE  NothingSkipped'
  BY <1>0, <1>2 DEF NothingSkipped, IsPipeline, Late
<1>3. CASE EndRun
  BY <1>2, <1>3 DEF EndRun
<1>4. CASE TimeoutRun
  BY <1>4 DEF TimeoutRun, NothingSkipped
<1>5. CASE NextRun
  BY <1>5, NextRunFacts DEF NothingSkipped
<1>6. CASE UNCHANGED <<dag, params, run, state, acted>>
  BY <1>2, <1>6
<1> QED BY <1>0, <1>1, <1>3, <1>4, <1>5, <1>6, StepCases

\* But for the preflight sensors, a layer in front of the metrics is one task.
LEMMA OneWide ==
    ASSUME NEW j \in DOMAIN Pipeline, j # 2, j <= Len(Ingests) + 11
    PROVE  \E w : Pipeline[j] = {w}
<1>1. Len(Ingests) \in Nat
  BY PipelineLayers
<1>2. CASE j = 1
  BY <1>2, PipelineLayers
<1>3. CASE \E i \in 1..Len(Ingests) : j = 2 + i
  <2>1. PICK i \in 1..Len(Ingests) : j = 2 + i
    BY <1>3
  <2>2. Pipeline[j] = {Ingests[i]}
    BY <2>1, PipelineLayers
  <2> QED BY <2>2
<1>4. CASE \E m \in 1..12 : j = Len(Ingests) + 2 + m
  <2>1. PICK m \in 1..12 : j = Len(Ingests) + 2 + m
    BY <1>4
  <2>2. m \in 1..9
    BY <1>1, <2>1
  <2>3. Pipeline[j] = PipelineTail[m]
    BY <2>1, PipelineLayers
  <2> QED BY <2>2, <2>3, TailIsNarrow
<1> QED BY <1>2, <1>3, <1>4, PipelineCases

\* Whether a task is executed or passed over, something right before it is done.
LEMMA SomethingBefore ==
    ASSUME Shape, NEW t \in Tasks(dag), Execute(t) \/ Cascade(t),
           state'[t] # "none", NEW w \in Upstream(t)
    PROVE  \E x \in Upstream(t) : Done(x)
<1>1. CASE Execute(t)
  BY <1>1 DEF Execute, Ready, AllUpstreamDone
<1>2. CASE Cascade(t)
  <2>1. PICK x \in Upstream(t) : state[x] \in Bad \cup {"skipped"}
    BY <1>2, PassedOver DEF SomeUpstream
  <2> QED BY <2>1 DEF Done, Bad
<1> QED BY <1>1, <1>2

LEMMA InOrderStep == ASSUME CountInv, [Next]_vars PROVE InOrder'
<1> USE DEF Done
<1> DEFINE n == Len(Ingests)
<1>0. Shape /\ InOrder /\ n \in Nat
  BY LayerIndices DEF CountInv, TypeOK, Shape
<1>1. ASSUME NEW t \in Tasks(dag), Execute(t) \/ Cascade(t) PROVE InOrder'
  <2>1. /\ UNCHANGED <<dag, params, run>> /\ run = "running" /\ ~Done(t)
        /\ \A u \in Tasks(dag) : u # t => state'[u] = state[u]
    BY <1>0, <1>1, OneTaskAtATime
  <2> SUFFICES ASSUME IsPipeline,
                      NEW k \in DOMAIN Pipeline, k <= n + 12,
                      NEW v \in Pipeline[k], state'[v] # "none",
                      NEW j \in DOMAIN Pipeline, j < k, j # 2,
                      NEW u \in Pipeline[j]
               PROVE  state'[u] # "none"
    BY <2>1 DEF InOrder, IsPipeline
  <2>2. v \in Tasks(dag) /\ u \in Tasks(dag)
    BY PipelineTasks
  <2>3. \A h \in DOMAIN Pipeline : h <= n + 12 =>
           \A w \in Pipeline[h] : Done(w) =>
              \A i \in DOMAIN Pipeline : i < h /\ i # 2 =>
                 \A x \in Pipeline[i] : Done(x)
    BY <1>0, <2>1 DEF InOrder
  <2> SUFFICES Done(u)
    BY <2>1, <2>2
  <2>4. CASE v # t
    BY <2>1, <2>2, <2>3, <2>4
  <2>5. CASE v = t
    <3>1. PICK h \in DOMAIN Pipeline :
             /\ t \in Pipeline[h]
             /\ h > 1 => /\ h - 1 \in DOMAIN Pipeline
                         /\ Upstream(t) = Pipeline[h - 1]
      BY WaitsFor
    <3>2. h = k
      BY <2>5, <3>1, OneLayer
    <3>3. j \in Nat /\ k \in Nat /\ j >= 1
      BY LayerIndices
    <3>4. k > 1 /\ k - 1 < k /\ k - 1 <= n + 12 /\ k - 1 <= n + 11 /\ j <= k - 1
      BY <1>0, <3>3
    <3>5. k - 1 \in DOMAIN Pipeline /\ Upstream(t) = Pipeline[k - 1]
      BY <3>1, <3>2, <3>4
    <3>6. Pipeline[k - 1] # {}
      <4>1. Layers[dag] = Pipeline /\ dag \in Dags
        BY LayersOf DEF IsPipeline, Dags
      <4> QED BY <3>5, <4>1, NoEmptyLayer
    <3>7. PICK x \in Pipeline[k - 1] : Done(x)
      BY <1>0, <1>1, <2>5, <3>5, <3>6, SomethingBefore
    <3>8. CASE j = k - 1
      <4>1. PICK w : Pipeline[j] = {w}
        BY <3>4, <3>8, OneWide
      <4> QED BY <3>7, <3>8, <4>1
    <3>9. CASE j < k - 1
      BY <2>3, <3>4, <3>5, <3>7, <3>9
    <3> QED BY <3>3, <3>4, <3>8, <3>9
  <2> QED BY <2>4, <2>5
<1>2. ASSUME dag' = dag, state' = state, run # "failed" \/ run' = "failed"
      PROVE  InOrder'
  BY <1>0, <1>2 DEF InOrder, IsPipeline
<1>3. CASE EndRun
  BY <1>2, <1>3 DEF EndRun
<1>4. CASE TimeoutRun
  BY <1>4 DEF TimeoutRun, InOrder
<1>5. CASE NextRun
  <2>1. dag' = dag /\ state' = [t \in Tasks(dag) |-> "none"]
    BY <1>5, NextRunFacts
  <2>2. IsPipeline => \A k \in DOMAIN Pipeline : \A t \in Pipeline[k] : t \in Tasks(dag)
    BY PipelineTasks
  <2> QED BY <2>1, <2>2 DEF InOrder, IsPipeline
<1>6. CASE UNCHANGED <<dag, params, run, state, acted>>
  BY <1>2, <1>6
<1> QED BY <1>0, <1>1, <1>3, <1>4, <1>5, <1>6, StepCases

\* The freshness check is never passed over, and dbt refuses its command.
LEMMA FreshnessStep == ASSUME CountInv, [Next]_vars PROVE FreshnessFails'
<1> DEFINE f == "dbt_source_freshness"
<1>0. Shape /\ FreshnessFails
  BY DEF CountInv, TypeOK, Shape
<1>1. ASSUME NEW t \in Tasks(dag), Execute(t) \/ Cascade(t) PROVE FreshnessFails'
  <2>1. /\ UNCHANGED <<dag, params, run>> /\ run = "running" /\ ~Done(t)
        /\ state \in [Tasks(dag) -> State]
        /\ \A u \in Tasks(dag) : u # t => state'[u] = state[u]
    BY <1>0, <1>1, OneTaskAtATime
  <2> SUFFICES ASSUME IsPipeline PROVE state'[f] \in {"none", "failed"}
    BY <2>1 DEF FreshnessFails, IsPipeline
  <2>2. f \in Tasks(dag)
    <3>1. 8 \in 1..12 /\ f \in PipelineTail[8]
      BY DEF PipelineTail
    <3> QED BY <3>1, TailTasks
  <2>3. CASE t # f
    BY <1>0, <2>1, <2>2, <2>3 DEF FreshnessFails
  <2>4. CASE t = f
    <3>1. Execute(t)
      BY <1>1, <2>4 DEF Cascade, Rule
    <3>2. f \in DOMAIN DbtCommand /\ ~IsCommand(DbtCommand[f])
      BY DEF DbtCommand, IsCommand
    <3>3. Building(t)
      BY <2>4, <3>1, <3>2, ExecuteEffects DEF Quiet, Publishing, Counting
    <3> QED BY <2>1, <2>2, <2>4, <3>2, <3>3 DEF Building, Done
  <2> QED BY <2>3, <2>4
<1>2. ASSUME dag' = dag, state' = state, run # "failed" \/ run' = "failed"
      PROVE  FreshnessFails'
  BY <1>0, <1>2 DEF FreshnessFails, IsPipeline
<1>3. CASE EndRun
  BY <1>2, <1>3 DEF EndRun
<1>4. CASE TimeoutRun
  BY <1>4 DEF TimeoutRun, FreshnessFails
<1>5. CASE NextRun
  <2>1. dag' = dag /\ state' = [t \in Tasks(dag) |-> "none"]
    BY <1>5, NextRunFacts
  <2>2. IsPipeline => f \in Tasks(dag)
    <3>1. 8 \in 1..12 /\ f \in PipelineTail[8]
      BY DEF PipelineTail
    <3> QED BY <3>1, TailTasks
  <2> QED BY <2>1, <2>2 DEF FreshnessFails, IsPipeline
<1>6. CASE UNCHANGED <<dag, params, run, state, acted>>
  BY <1>2, <1>6
<1> QED BY <1>0, <1>1, <1>3, <1>4, <1>5, <1>6, StepCases

\* The tasks that are counted are those of the layers before the metrics.
LEMMA CountedPlaces ==
    ASSUME IsPipeline
    PROVE  /\ \A u \in Counted : u # "publish_pipeline_metrics" =>
                 \E j \in DOMAIN Pipeline :
                    u \in Pipeline[j] /\ j # 2 /\ j <= Len(Ingests) + 11
           /\ DataTasks \cap Tasks(dag) \subseteq Counted
           /\ "publish_pipeline_metrics" \notin DataTasks
<1> DEFINE n == Len(Ingests)
<1>1. n \in Nat
  BY LayerIndices
<1>2. Layers[dag] = Pipeline
  BY LayersOf DEF IsPipeline
<1>3. ASSUME NEW u \in Counted, u # "publish_pipeline_metrics"
      PROVE  \E j \in DOMAIN Pipeline : u \in Pipeline[j] /\ j # 2 /\ j <= n + 11
  <2>1. PICK j \in DOMAIN Pipeline : u \in Pipeline[j]
    BY <1>2 DEF Counted, Tasks
  <2>2. u \notin Late /\ u \notin Preflight
    BY DEF Counted
  <2>3. j # 2
    BY <2>1, <2>2, PipelineLayers
  <2>4. j \in Nat /\ j <= n + 12 /\ j # n + 12
    BY <1>3, <2>1, <2>2, LatePlaces, LayerIndices
  <2> QED BY <1>1, <2>1, <2>3, <2>4
<1>4. ASSUME NEW u \in DataTasks \cap Tasks(dag)
      PROVE  u \in Counted /\ u # "publish_pipeline_metrics"
  <2>1. PICK j \in DOMAIN Pipeline : u \in Pipeline[j]
    BY <1>2 DEF Tasks
  <2>2. j <= n + 9 /\ j # 2 /\ j \in Nat
    BY <2>1, DataPlace, LayerIndices
  <2>3. u \notin Late
    <3>1. u \in Late => j >= n + 12
      BY <2>1, LatePlaces
    <3> QED BY <1>1, <2>2, <3>1
  <2>4. u \notin Preflight
    <3>1. 2 \in DOMAIN Pipeline
      BY LayerIndices
    <3> QED BY <2>1, <2>2, <3>1, PipelineLayers, OneLayer
  <2>5. u # "publish_pipeline_metrics"
    <3>1. 10 \in 1..12 /\ "publish_pipeline_metrics" \in PipelineTail[10]
      BY DEF PipelineTail
    <3>2. n + 2 + 10 \in DOMAIN Pipeline
      BY <3>1, LayerIndices
    <3>3. "publish_pipeline_metrics" \in Pipeline[n + 2 + 10]
      BY <3>1, PipelineLayers, Zenon
    <3>4. n + 2 + 10 # j
      BY <1>1, <2>2
    <3> HIDE DEF n
    <3> QED BY <2>1, <3>2, <3>3, <3>4, OneLayer
  <2> QED BY <2>3, <2>4, <2>5 DEF Counted
<1>5. "publish_pipeline_metrics" \in Tasks(dag)
  BY TheEnd
<1> QED BY <1>3, <1>4, <1>5

\* When the tests have ended, whatever is counted has ended but for the push.
LEMMA DoneBeforeThePush ==
    ASSUME CountInv, IsPipeline, run = "running",
           NEW t \in Tasks(dag), t = "publish_pipeline_metrics", Execute(t),
           NEW u \in Counted, u # t
    PROVE  Done(u)
<1> DEFINE n == Len(Ingests)
<1>1. n \in Nat /\ InOrder
  BY LayerIndices DEF CountInv
<1>2. PICK j \in DOMAIN Pipeline : u \in Pipeline[j] /\ j # 2 /\ j <= n + 11
  BY CountedPlaces
<1>3. Upstream(t) = {"dbt_test"} /\ Pipeline[n + 11] = {"dbt_test"}
  <2>1. /\ PipelineTail[9] = {"dbt_test"}
        /\ "publish_pipeline_metrics" \in PipelineTail[10]
    BY DEF PipelineTail
  <2>2. 9 \in 1..12 /\ 10 \in 2..12 /\ 10 - 1 = 9 /\ n + 2 + 9 = n + 11
    BY <1>1
  <2>3. Upstream(t) = PipelineTail[9]
    BY <2>1, <2>2, TailUpstream
  <2>4. Pipeline[n + 2 + 9] = PipelineTail[9]
    BY <2>2, PipelineLayers
  <2> QED BY <2>1, <2>2, <2>3, <2>4
<1>4. Done("dbt_test")
  BY <1>3 DEF Execute, Ready, AllUpstreamDone
<1>5. CASE j = n + 11
  BY <1>2, <1>3, <1>4, <1>5
<1>6. CASE j # n + 11
  <2>1. j \in Nat /\ j < n + 11 /\ n + 11 <= n + 12 /\ n + 11 \in DOMAIN Pipeline
    BY <1>1, <1>2, <1>6, PipelineLayers
  <2> QED BY <1>1, <1>2, <1>3, <1>4, <2>1 DEF InOrder
<1> QED BY <1>5, <1>6

\* If one task at most has failed by then, it is the freshness check, and
\* nothing that changes data has failed, was passed over or was skipped.
LEMMA AllBuiltBeforeThePush ==
    ASSUME CountInv, IsPipeline, run = "running",
           NEW t \in Tasks(dag), t = "publish_pipeline_metrics", Execute(t),
           Cardinality(Failed) <= 1,
           NEW u \in DataTasks \cap Tasks(dag)
    PROVE  state[u] = "success" /\ u # t
<1> DEFINE n == Len(Ingests)
           f == "dbt_source_freshness"
<1>0. Shape /\ n \in Nat /\ Origins /\ NothingSkipped /\ FreshnessFails
  BY LayerIndices DEF CountInv, TypeOK, Shape
<1>1. /\ u \in Counted /\ u # t
  BY CountedPlaces
<1>2. f \in Pipeline[n + 10] /\ n + 10 \in DOMAIN Pipeline /\ f \in Counted
  <2>1. 8 \in 1..12 /\ n + 2 + 8 = n + 10 /\ f \in PipelineTail[8]
    BY <1>0 DEF PipelineTail
  <2>2. Pipeline[n + 2 + 8] = PipelineTail[8] /\ n + 2 + 8 \in DOMAIN Pipeline
    BY <2>1, PipelineLayers, LayerIndices
  <2>3. f \in Tasks(dag)
    BY <2>1, TailTasks
  <2> QED BY <2>1, <2>2, <2>3 DEF Counted, Late, Preflight
<1>3. f \in Failed
  <2>1. Done(f)
    BY <1>2, DoneBeforeThePush
  <2> QED BY <1>0, <1>2, <2>1 DEF FreshnessFails, Failed, Done, Counted
<1>4. \A w \in Failed : w = f
  <2>1. IsFiniteSet(Tasks(dag)) /\ Failed \subseteq Tasks(dag)
    BY <1>0, TasksFinite DEF Shape, Failed
  <2>2. IsFiniteSet(Failed)
    BY <2>1, FS_Subset
  <2> SUFFICES ASSUME NEW w \in Failed, w # f PROVE FALSE
    OBVIOUS
  <2>3. {w, f} \subseteq Failed
    BY <1>3
  <2>4. Cardinality({w, f}) <= Cardinality(Failed)
    BY <2>2, <2>3, FS_Subset
  <2>5. Cardinality({w, f}) = 2
    <3>1. IsFiniteSet({f}) /\ Cardinality({f}) = 1
      BY FS_Singleton
    <3>2. Cardinality({f} \cup {w}) = Cardinality({f}) + 1
      BY <3>1, FS_AddElement
    <3>3. {f} \cup {w} = {w, f}
      OBVIOUS
    <3> QED BY <3>1, <3>2, <3>3
  <2>6. Cardinality(Failed) \in Nat
    BY <2>2, FS_CardinalityType
  <2> QED BY <2>4, <2>5, <2>6
<1>5. PICK k \in DOMAIN Pipeline : u \in Pipeline[k]
  BY LayersOf DEF IsPipeline, Tasks
<1>6. k <= n + 9 /\ k \in Nat
  BY <1>5, DataPlace, LayerIndices
<1>7. u # f
  <2>1. k # n + 10
    BY <1>0, <1>6
  <2> HIDE DEF n
  <2> QED BY <1>2, <1>5, <2>1, OneLayer
<1>8. state[u] # "none"
  BY <1>1, DoneBeforeThePush DEF Done
<1>9. state[u] # "failed"
  BY <1>4, <1>7 DEF Failed
<1>10. state[u] # "skipped"
  BY <1>0, <1>1 DEF NothingSkipped, Counted
<1>11. state[u] # "upstream_failed"
  <2> SUFFICES ASSUME state[u] = "upstream_failed" PROVE FALSE
    OBVIOUS
  <2>1. PICK j \in DOMAIN Pipeline :
           j < k /\ \E w \in Pipeline[j] : state[w] = "failed"
    BY <1>0, <1>5 DEF Origins
  <2>2. PICK w \in Pipeline[j] : state[w] = "failed"
    BY <2>1
  <2>3. w \in Failed
    BY <2>2, PipelineTasks DEF Failed
  <2>4. f \in Pipeline[j]
    BY <1>4, <2>2, <2>3
  <2>5. j # n + 10
    BY <1>0, <1>6, <2>1, LayerIndices
  <2> HIDE DEF n
  <2> QED BY <1>2, <2>4, <2>5, OneLayer
<1> QED BY <1>0, <1>1, <1>8, <1>9, <1>10, <1>11 DEF Shape, State

LEMMA CountedStep == ASSUME CountInv, [Next]_vars PROVE CountedAtTheEnd'
<1> USE DEF Done
<1>0. Shape
  BY DEF CountInv, TypeOK, Shape
<1>1. IsPipeline /\ pushed =>
         /\ \A u \in Counted : Done(u)
         /\ Cardinality(Failed \cap Counted) <= counted
         /\ counted <= 1 =>
               \A u \in DataTasks \cap Tasks(dag) : state[u] = "success"
  BY DEF CountInv, CountedAtTheEnd
<1>2. ASSUME dag' = dag, pushed' = pushed, counted' = counted,
             \A u \in Tasks(dag) : Done(u) => state'[u] = state[u]
      PROVE  CountedAtTheEnd'
  <2> SUFFICES ASSUME IsPipeline, pushed
               PROVE  /\ \A u \in Counted : state'[u] # "none"
                      /\ Cardinality(Failed' \cap Counted) <= counted
                      /\ counted <= 1 => \A u \in DataTasks \cap Tasks(dag) :
                                            state'[u] = "success"
    BY <1>2 DEF CountedAtTheEnd, IsPipeline, Counted, DataTasks
  <2>1. \A u \in Counted : u \in Tasks(dag) /\ state'[u] = state[u]
    BY <1>1, <1>2 DEF Counted
  <2>2. Failed' \cap Counted = Failed \cap Counted
    BY <1>2, <2>1 DEF Failed
  <2>3. DataTasks \cap Tasks(dag) \subseteq Counted
    BY CountedPlaces
  <2> QED BY <1>1, <2>1, <2>2, <2>3
<1>3. ASSUME NEW t \in Tasks(dag), Execute(t) \/ Cascade(t),
             pushed' = pushed, counted' = counted
      PROVE  CountedAtTheEnd'
  <2>1. /\ UNCHANGED <<dag, params, run>> /\ ~Done(t)
        /\ \A u \in Tasks(dag) : u # t => state'[u] = state[u]
    BY <1>0, <1>3, OneTaskAtATime
  <2> QED BY <1>2, <1>3, <2>1
<1>4. ASSUME NEW t \in Tasks(dag), Execute(t), Counting(t)
      PROVE  CountedAtTheEnd'
  <2>1. /\ UNCHANGED <<dag, params, run>> /\ run = "running"
        /\ \A u \in Tasks(dag) : u # t => state'[u] = state[u]
    BY <1>0, <1>4, OneTaskAtATime
  <2>2. /\ t = "publish_pipeline_metrics" /\ counted' = Cardinality(Failed)
        /\ state'[t] = "success"
    BY <1>0, <1>4 DEF Counting, Shape
  <2> SUFFICES ASSUME IsPipeline
               PROVE  /\ \A u \in Counted : state'[u] # "none"
                      /\ Cardinality(Failed' \cap Counted) <= counted'
                      /\ counted' <= 1 => \A u \in DataTasks \cap Tasks(dag) :
                                            state'[u] = "success"
    BY <2>1 DEF CountedAtTheEnd, IsPipeline, Counted, DataTasks
  <2>3. ASSUME NEW u \in Counted PROVE state'[u] # "none"
    <3>1. u \in Tasks(dag) /\ (u # t => Done(u))
      BY <1>4, <2>1, <2>2, DoneBeforeThePush DEF Counted
    <3> QED BY <2>1, <2>2, <3>1
  <2>4. Cardinality(Failed' \cap Counted) <= counted'
    <3>1. IsFiniteSet(Tasks(dag)) /\ Failed \subseteq Tasks(dag)
      BY <1>0, TasksFinite DEF Shape, Failed
    <3>2. IsFiniteSet(Failed)
      BY <3>1, FS_Subset
    <3>3. Failed' \cap Counted \subseteq Failed
      BY <2>1, <2>2 DEF Failed
    <3> QED BY <2>2, <3>2, <3>3, FS_Subset
  <2>5. ASSUME counted' <= 1, NEW u \in DataTasks \cap Tasks(dag)
        PROVE  state'[u] = "success"
    BY <1>4, <2>1, <2>2, <2>5, AllBuiltBeforeThePush
  <2> QED BY <2>3, <2>4, <2>5
<1>5. ASSUME NEW t \in Tasks(dag), Execute(t) PROVE CountedAtTheEnd'
  <2>1. Quiet(t) \/ Building(t) \/ Publishing(t) \/ Counting(t)
    BY <1>5, ExecuteEffects
  <2>2. CASE Counting(t)
    BY <1>4, <1>5, <2>2
  <2>3. CASE Quiet(t) \/ Building(t) \/ Publishing(t)
    <3>1. pushed' = pushed /\ counted' = counted
      BY <2>3 DEF Quiet, Building, Publishing
    <3> QED BY <1>3, <1>5, <3>1
  <2> QED BY <2>1, <2>2, <2>3
<1>6. ASSUME NEW t \in Tasks(dag), Cascade(t) PROVE CountedAtTheEnd'
  BY <1>3, <1>6 DEF Cascade, world
<1>7. CASE EndRun
  BY <1>2, <1>7 DEF EndRun, world
<1>8. CASE TimeoutRun
  <2>1. /\ dag' = dag
        /\ \A t \in Tasks(dag) : state'[t] = state[t]
                                 \/ (state[t] = "none" /\ state'[t] = "skipped")
    BY <1>0, <1>8, TimeoutFacts
  <2>2. pushed' = pushed /\ counted' = counted
    BY <1>8 DEF TimeoutRun, world
  <2> QED BY <1>2, <2>1, <2>2
<1>9. CASE NextRun
  BY <1>9 DEF NextRun, CountedAtTheEnd
<1>10. ASSUME ~\E t \in Tasks(dag) : Execute(t) \/ Cascade(t),
              ~EndRun, ~TimeoutRun, ~NextRun
       PROVE  CountedAtTheEnd'
  <2>1. UNCHANGED <<dag, state, counted, pushed>>
    BY <1>10, OtherEffects
  <2> QED BY <1>2, <2>1
<1> QED BY <1>5, <1>6, <1>7, <1>8, <1>9, <1>10

LEMMA GreenStep == ASSUME CountInv, [Next]_vars PROVE GreenEnd'
<1> DEFINE Fine == {"success", "skipped"}
           Links(s) == /\ s["finish"] \in Fine => s["data_quality_gate"] \in Fine
                       /\ s["data_quality_gate"] \in Fine =>
                             s["publish_dbt_results"] \in Fine
<1>0. Shape /\ NothingSkipped
  BY DEF CountInv, TypeOK, Shape
<1>1. IsPipeline /\ run # "failed" =>
         Links(state) /\ (run = "success" => state["finish"] \in Fine)
  BY DEF CountInv, GreenEnd
<1>2. ASSUME NEW t \in Tasks(dag), Execute(t) \/ Cascade(t) PROVE GreenEnd'
  <2>1. /\ UNCHANGED <<dag, params, run>> /\ run = "running" /\ ~Done(t)
        /\ \A u \in Tasks(dag) : u # t => state'[u] = state[u]
    BY <1>0, <1>2, OneTaskAtATime
  <2> SUFFICES ASSUME IsPipeline PROVE Links(state')
    BY <2>1 DEF GreenEnd, IsPipeline
  <2>2. /\ "finish" \in Tasks(dag) /\ "data_quality_gate" \in Tasks(dag)
        /\ "publish_dbt_results" \in Tasks(dag)
        /\ "publish_pipeline_metrics" \in Tasks(dag)
        /\ Upstream("finish") = {"data_quality_gate"}
        /\ Upstream("data_quality_gate") =
              {"publish_dbt_results", "publish_pipeline_metrics"}
    BY TheEnd DEF Late
  <2>3. Links(state)
    BY <1>1, <2>1
  <2>4. ASSUME t = "finish", state'["finish"] \in Fine
        PROVE  state["data_quality_gate"] \in Fine
    <3>1. CASE Execute(t)
      <4>1. Rule(t) = "none_failed_min_one_success"
        BY <2>4 DEF Rule, IsPipeline
      <4> QED BY <2>2, <2>4, <3>1, <4>1 DEF Execute, Ready, SomeUpstream
    <3>2. CASE Cascade(t)
      BY <1>0, <2>2, <2>4, <3>2, PassedOver DEF SomeUpstream
    <3> QED BY <1>2, <3>1, <3>2
  <2>5. ASSUME t = "data_quality_gate", state'["data_quality_gate"] \in Fine
        PROVE  state["publish_dbt_results"] \in Fine
    <3>1. CASE Execute(t)
      <4>1. Rule(t) = "all_success"
        BY <2>5 DEF Rule
      <4> QED BY <2>2, <2>5, <3>1, <4>1 DEF Execute, Ready
    <3>2. CASE Cascade(t)
      <4>1. PICK u \in Upstream(t) : state[u] = "skipped"
        BY <1>0, <2>5, <3>2, PassedOver DEF SomeUpstream
      <4>2. state["publish_pipeline_metrics"] # "skipped"
        BY <1>0, <2>1, <2>2 DEF NothingSkipped, Late
      <4> QED BY <2>2, <2>5, <4>1, <4>2
    <3> QED BY <1>2, <3>1, <3>2
  <2>6. /\ state["data_quality_gate"] \in Fine => t # "data_quality_gate"
        /\ state["publish_dbt_results"] \in Fine => t # "publish_dbt_results"
    BY <2>1 DEF Done
  <2>7. state'["finish"] \in Fine => state'["data_quality_gate"] \in Fine
    BY <2>1, <2>2, <2>3, <2>4, <2>6
  <2>8. state'["data_quality_gate"] \in Fine => state'["publish_dbt_results"] \in Fine
    BY <2>1, <2>2, <2>3, <2>5, <2>6
  <2> QED BY <2>7, <2>8
<1>3. CASE EndRun
  <2>1. /\ run = "running" /\ UNCHANGED <<dag, state>>
        /\ \A t \in Tasks(dag) : Done(t)
        /\ run' = IF state["finish"] \in Bad THEN "failed" ELSE "success"
    BY <1>3 DEF EndRun
  <2>2. IsPipeline => "finish" \in Tasks(dag)
    BY TheEnd DEF Late
  <2>3. IsPipeline /\ run' = "success" => state["finish"] \in Fine
    BY <1>0, <2>1, <2>2 DEF Shape, State, Done, Bad
  <2> QED BY <1>1, <2>1, <2>3 DEF GreenEnd, IsPipeline
<1>4. CASE TimeoutRun
  BY <1>4 DEF TimeoutRun, GreenEnd
<1>5. CASE NextRun
  <2>1. run' = "running" /\ dag' = dag /\ state' = [t \in Tasks(dag) |-> "none"]
    BY <1>5, NextRunFacts
  <2>2. IsPipeline => "finish" \in Tasks(dag) /\ "data_quality_gate" \in Tasks(dag)
    BY TheEnd DEF Late
  <2> QED BY <2>1, <2>2 DEF GreenEnd, IsPipeline
<1>6. CASE UNCHANGED <<dag, params, run, state, acted>>
  BY <1>1, <1>6 DEF GreenEnd, IsPipeline
<1> QED BY <1>0, <1>2, <1>3, <1>4, <1>5, <1>6, StepCases

LEMMA InitCount == Init => CountInv
<1> SUFFICES ASSUME Init PROVE CountInv
  OBVIOUS
<1>1. TypeOK
  BY InitTypeOK
<1>2. run = "running" /\ state = [t \in Tasks(dag) |-> "none"] /\ pushed = FALSE
  BY DEF Init
<1>3. NothingSkipped /\ CountedAtTheEnd
  BY <1>2 DEF NothingSkipped, CountedAtTheEnd
<1>4. InOrder /\ Origins
  BY <1>2, PipelineTasks DEF InOrder, Origins, Done
<1>5. FreshnessFails
  <2>1. 8 \in 1..12 /\ "dbt_source_freshness" \in PipelineTail[8]
    BY DEF PipelineTail
  <2>2. IsPipeline => "dbt_source_freshness" \in Tasks(dag)
    BY <2>1, TailTasks
  <2> QED BY <1>2, <2>2 DEF FreshnessFails
<1>6. GreenEnd
  BY <1>2, TheEnd DEF GreenEnd, Late
<1> QED BY <1>1, <1>3, <1>4, <1>5, <1>6 DEF CountInv

(* The order in which a run ends its tasks whatever fails in it, the cause *)
(* of each task that was passed over, and what the metrics and the         *)
(* end of the run say of it: inductive for any list of entities and any    *)
(* faults.                                                                 *)
THEOREM CountInvariant == Spec => []CountInv
<1>1. Init => CountInv
  BY InitCount
<1>2. CountInv /\ [Next]_vars => CountInv'
  BY TypeOKStep, OriginsStep, SkippedStep, InOrderStep, FreshnessStep,
     CountedStep, GreenStep
  DEF CountInv
<1> QED BY <1>1, <1>2, PTL DEF Spec

(* The metric that a green pipeline run has pushed counts every failure in *)
(* it but those of preflight sensors that ended later; and if it counts    *)
(* one at most, every entity was ingested and every model built.  When the *)
(* metrics are pushed all that could still end is a sensor or is beside or *)
(* behind them, where a failure turns the run red; one failure is counted  *)
(* in any case, because dbt refuses the command of the freshness check, so *)
(* that a single one leaves no cause for another task to have been passed  *)
(* over.                                                                   *)
THEOREM GreenRunsSayWhatFailed == Spec => []GreenRunsAreCounted
<1>1. CountInv => GreenRunsAreCounted
  <2> SUFFICES ASSUME CountInv, IsPipeline, run = "success", pushed
               PROVE  /\ Cardinality(Failed \ Preflight) <= counted
                      /\ counted <= 1 => \A t \in DataTasks \cap Tasks(dag) :
                                            state[t] = "success"
    BY DEF GreenRunsAreCounted, IsPipeline
  <2>1. /\ Cardinality(Failed \cap Counted) <= counted
        /\ counted <= 1 => \A t \in DataTasks \cap Tasks(dag) : state[t] = "success"
    BY DEF CountInv, CountedAtTheEnd
  <2>2. /\ state["finish"] \in {"success", "skipped"}
        /\ state["data_quality_gate"] \in {"success", "skipped"}
        /\ state["publish_dbt_results"] \in {"success", "skipped"}
    BY DEF CountInv, GreenEnd
  <2>3. Failed \ Preflight = Failed \cap Counted
    BY <2>2 DEF Failed, Late, Counted
  <2> QED BY <2>1, <2>3
<1> QED BY <1>1, CountInvariant, PTL
=============================================================================
