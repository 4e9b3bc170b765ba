------------------------------ MODULE Exporter ------------------------------
(***************************************************************************)
(* The metrics exporter: a thread that runs the collectors one after the   *)
(* other and refills their gauges, beside the HTTP thread that Prometheus  *)
(* scrapes, over two databases that change, fail and drop connections.     *)
(*                                                                         *)
(* A database table is the set of the labels its query returns.  Only of   *)
(* the ingestion runs is the content kept: the gauges made of it are what  *)
(* the alerts on stalled and failed ingestions look at.                    *)
(***************************************************************************)
EXTENDS Naturals, Sequences, FiniteSets

CONSTANTS
    Labels,         \* of all series: entities, tables, topics
    Enabled,        \* the collectors the exporter is given, in order
    MaxChanges, MaxOutages,     \* bounds, for TLC, ...
    MaxRuns                     \* ... this one for each label

(***************************************************************************)
(* ALL_COLLECTORS: the queries of each in the order it makes them, and the *)
(* gauges in the order it fills them, each with the query it is made of.   *)
(***************************************************************************)
Collectors ==
  [ingestion_run |->
     [queries |-> <<"latest", "last_success">>,
      gauges |-> << <<"run_status", "latest">>, <<"rows_last_run", "latest">>,
                    <<"last_success", "last_success">> >>],
   ingestion_reject |->
     [queries |-> <<"rejects">>,
      gauges |-> << <<"rejected_rows", "rejects">> >>],
   replication_slot |->
     [queries |-> <<"slots">>,
      gauges |-> << <<"lag_bytes", "slots">>, <<"active", "slots">> >>],
   cdc_freshness |->
     [queries |-> <<"freshness">>,
      gauges |-> << <<"freshness_seconds", "freshness">>,
                    <<"lag_p50", "freshness">>, <<"lag_p95", "freshness">>,
                    <<"events", "freshness">> >>],
   raw_table_health |->
     [queries |-> <<"raw_tables">>,
      gauges |-> << <<"table_rows", "raw_tables">>,
                    <<"seconds_since_insert", "raw_tables">> >>],
   cdc_parse_errors |->
     [queries |-> <<"parse_errors">>,
      gauges |-> << <<"parse_errors", "parse_errors">> >>],
   reconciliation |->
     [queries |-> <<"live_keys", "counts">>,
      gauges |-> << <<"row_delta", "counts">> >>],
   merge_health |->
     [queries |-> <<"parts">>,
      gauges |-> << <<"active_parts", "parts">>, <<"bytes", "parts">> >>],
   dbt_results |->
     [queries |-> <<"tests", "models">>,
      gauges |-> << <<"test_failures", "tests">>,
                    <<"model_runtime", "models">> >>]]

AllCollectors ==
    <<"ingestion_run", "ingestion_reject", "replication_slot",
      "cdc_freshness", "raw_table_health", "cdc_parse_errors",
      "reconciliation", "merge_health", "dbt_results">>

ASSUME ExporterAssumption ==
    /\ Enabled \in Seq({AllCollectors[i] : i \in DOMAIN AllCollectors})
    /\ Enabled # <<>>
    /\ {MaxChanges, MaxOutages} \subseteq Nat /\ MaxRuns \in [Labels -> Nat]

InPostgres == {"latest", "last_success", "rejects", "slots", "counts"}

\* Its rows are the fixed list of entities, whatever the databases hold.
Fixed == {"counts"}

QueriesOf(c) == Collectors[c].queries
GaugesOf(c) == Collectors[c].gauges
Running == {Enabled[i] : i \in DOMAIN Enabled}
Queries == UNION {{QueriesOf(c)[i] : i \in DOMAIN QueriesOf(c)} : c \in Running}
Gauges == UNION {{GaugesOf(c)[i][1] : i \in DOMAIN GaugesOf(c)} : c \in Running}

VARIABLES
    table,          \* of other queries than those of the runs: its labels
    runs,           \* per entity the statuses of its runs, the latest last
    lost,           \* history: entities that had a success, and then none
    up,             \* per database, whether it answers
    conn,           \* the PostgreSQL connection: none, open or dropped
    pc,             \* down, next, query or fill: where the thread is
    at,             \* the collector it is at
    step,           \* the query, or the gauge, it is at
    got,            \* what the queries of this collector have returned
    shown,          \* per gauge its labels and their values, as a scrape
                    \* would find them
    filled,         \* per gauge the labels it had when last filled
    rest,           \* labels of the gauge that are still to be set
    scraped,        \* entities that a scrape in progress found successful
    changes, outages

source == <<table, runs, lost, changes>>
link == <<up, conn, outages>>
thread == <<pc, at, step, got, rest>>
registry == <<shown, filled>>
vars == <<source, link, thread, registry, scraped>>

-----------------------------------------------------------------------------
\* A dry run, which ends as skipped, is a failed one here: no query tells the
\* two apart.
Statuses == {"running", "success", "failed", "deleted"}

Pairs(Q) == UNION {[S -> {0, 1}] : S \in SUBSET Q}

TypeOK ==
    /\ table \in [Queries \ {"latest", "last_success"} -> SUBSET Labels]
    /\ runs \in [Labels -> Seq(Statuses)]
    /\ lost \subseteq Labels
    /\ up \in [{"postgres", "clickhouse"} -> BOOLEAN]
    /\ conn \in {"none", "open", "dropped"}
    /\ pc \in {"down", "next", "query", "fill"}
    /\ at \in 0..Len(Enabled)
    /\ step \in Nat
    /\ DOMAIN got \subseteq Queries
    /\ \A q \in DOMAIN got : got[q] \in Pairs(Labels)
    /\ shown \in [Gauges -> Pairs(Labels)]
    /\ filled \in [Gauges -> SUBSET Labels]
    /\ rest \subseteq Labels
    /\ scraped \subseteq Labels
    /\ changes \in 0..MaxChanges /\ outages \in 0..MaxOutages

Init ==
    /\ table = [q \in Queries \ {"latest", "last_success"} |->
                   IF q \in Fixed THEN Labels ELSE {}]
    /\ runs = [e \in Labels |-> <<>>]
    /\ lost = {}
    /\ up = [d \in {"postgres", "clickhouse"} |-> TRUE]
    /\ conn = "none"
    /\ pc = "down" /\ at = 0 /\ step = 0
    /\ got = <<>>
    /\ shown = [g \in Gauges |-> <<>>]
    /\ filled = [g \in Gauges |-> {}]
    /\ rest = {}
    /\ scraped = {}
    /\ changes = 0 /\ outages = 0

-----------------------------------------------------------------------------
(* The databases.                                                          *)

Last(s) == s[Len(s)]

\* Entities with a run.  Of the runs of an entity the oldest are deleted first.
WithRuns == {e \in Labels : runs[e] # <<>> /\ Last(runs[e]) # "deleted"}

\* Mutant: a run in progress has a value of its own.
LatestOrRunning ==
    [e \in WithRuns |->
        IF Last(runs[e]) = "success" THEN 1
        ELSE IF Last(runs[e]) = "running" THEN 2 ELSE 0]

\* meta.v_latest_ingestion_run: 1 for an entity whose last run succeeded.
Latest == [e \in WithRuns |-> IF Last(runs[e]) = "success" THEN 1 ELSE 0]

\* A run that is a success, and was not called a failure or deleted since.
Succeeded(e) == \E i \in DOMAIN runs[e] : runs[e][i] = "success"

LastSuccess == [e \in {x \in Labels : Succeeded(x)} |-> 1]

Answer(q) ==
    CASE q = "latest" -> Latest
      [] q = "last_success" -> LastSuccess
      [] OTHER -> [l \in table[q] |-> 1]

StartRun(e) ==
    /\ "latest" \in Queries
    /\ Len(runs[e]) < MaxRuns[e]
    /\ runs' = [runs EXCEPT ![e] = Append(@, "running")]
    /\ UNCHANGED <<table, lost, changes, link, thread, registry, scraped>>

LoseSuccesses ==
    lost' = lost \cup {e \in Labels : Succeeded(e) /\ ~Succeeded(e)'}

\* A run ends; one that had landed may still be marked as failed.
EndRun(e, s) ==
    /\ \E i \in DOMAIN runs[e] :
          /\ \/ runs[e][i] = "running"
             \/ runs[e][i] = "success" /\ s = "failed"
          /\ runs' = [runs EXCEPT ![e][i] = s]
    /\ LoseSuccesses
    /\ UNCHANGED <<table, changes, link, thread, registry, scraped>>

\* Runs that began before some time are deleted, whatever became of them.
ApplyRetention(e) ==
    /\ \E n \in DOMAIN runs[e] :
          /\ runs[e][n] # "deleted"
          /\ runs' = [runs EXCEPT ![e] =
                [i \in DOMAIN @ |-> IF i <= n THEN "deleted" ELSE @[i]]]
    /\ LoseSuccesses
    /\ UNCHANGED <<table, changes, link, thread, registry, scraped>>

\* A table, a topic or a slot comes or goes.
Change(q) ==
    /\ changes < MaxChanges
    /\ changes' = changes + 1
    /\ \E l \in Labels :
          table' = [table EXCEPT ![q] = IF l \in @ THEN @ \ {l} ELSE @ \cup {l}]
    /\ UNCHANGED <<runs, lost, link, thread, registry, scraped>>

Outage(d) ==
    /\ outages < MaxOutages
    /\ up[d]
    /\ outages' = outages + 1
    /\ up' = [up EXCEPT ![d] = FALSE]
    /\ conn' = IF d = "postgres" /\ conn = "open" THEN "dropped" ELSE conn
    /\ UNCHANGED <<source, thread, registry, scraped>>

Recover(d) ==
    /\ ~up[d]
    /\ up' = [up EXCEPT ![d] = TRUE]
    /\ UNCHANGED <<source, conn, outages, thread, registry, scraped>>

-----------------------------------------------------------------------------
(* The thread.                                                             *)

\* The port is open before the first collection, and the process may be
\* asked for its metrics from then on.
Start ==
    /\ pc = "down"
    /\ pc' = "next"
    /\ UNCHANGED <<source, link, at, step, got, rest, registry,
                   scraped>>

\* run_once goes on to the next collector, or begins again.
NextCollector ==
    /\ pc = "next"
    /\ pc' = "query"
    /\ at' = IF at = Len(Enabled) THEN 1 ELSE at + 1
    /\ step' = 1
    /\ got' = <<>>
    /\ UNCHANGED <<source, link, rest, registry, scraped>>

\* A connection that has dropped is opened again, once for each query.
Answers(q) == IF q \in InPostgres THEN up["postgres"] ELSE up["clickhouse"]

\* Mutant: the time of the last success is read before the latest status.
SuccessFirst(c) ==
    IF c = "ingestion_run" THEN <<"last_success", "latest">>
    ELSE Collectors[c].queries

InOrder(c) == QueriesOf(c)

Query ==
    /\ pc = "query"
    /\ LET q == InOrder(Enabled[at])[step]
       IN  /\ Answers(q)
           /\ got' = [x \in DOMAIN got \cup {q} |->
                         IF x = q THEN Answer(q) ELSE got[x]]
           /\ conn' = IF q \in InPostgres THEN "open" ELSE conn
    /\ IF step = Len(InOrder(Enabled[at]))
         THEN pc' = "fill" /\ step' = 0
         ELSE pc' = pc /\ step' = step + 1
    /\ UNCHANGED <<source, up, outages, at, rest, registry, scraped>>

\* Mutant: the first collector that fails ends the round.
FailRound ==
    /\ pc = "query"
    /\ ~Answers(InOrder(Enabled[at])[step])
    /\ step' = 0 /\ got' = <<>>
    /\ pc' = "next"
    /\ at' = 0
    /\ UNCHANGED <<source, link, rest, registry, scraped>>

\* A collector that raises leaves its gauges as they are.
Fail ==
    /\ pc = "query"
    /\ ~Answers(InOrder(Enabled[at])[step])
    /\ step' = 0 /\ got' = <<>>
    /\ pc' = "next"
    /\ UNCHANGED <<source, link, at, rest, registry, scraped>>

Gauge == GaugesOf(Enabled[at])[step][1]
Series(i) == got[GaugesOf(Enabled[at])[i][2]]

\* Mutant: all gauges of the collector are cleared before the first is set.
ClearAll ==
    /\ pc = "fill" /\ rest = {}
    /\ step < Len(GaugesOf(Enabled[at]))
    /\ step' = step + 1
    /\ LET g == GaugesOf(Enabled[at])[step + 1][1]
       IN  /\ rest' = DOMAIN Series(step + 1)
           /\ shown' = [x \in Gauges |->
                 IF \E i \in DOMAIN GaugesOf(Enabled[at]) :
                       i > step /\ GaugesOf(Enabled[at])[i][1] = x
                 THEN <<>> ELSE shown[x]]
           /\ filled' = [filled EXCEPT ![g] = DOMAIN Series(step + 1)]
    /\ UNCHANGED <<source, link, pc, at, got, scraped>>

\* _apply: the next gauge is cleared ...
Clear ==
    /\ pc = "fill" /\ rest = {}
    /\ step < Len(GaugesOf(Enabled[at]))
    /\ step' = step + 1
    /\ LET g == GaugesOf(Enabled[at])[step + 1][1]
       IN  /\ rest' = DOMAIN Series(step + 1)
           /\ shown' = [shown EXCEPT ![g] = <<>>]
           /\ filled' = [filled EXCEPT ![g] = DOMAIN Series(step + 1)]
    /\ UNCHANGED <<source, link, pc, at, got, scraped>>

\* ... and filled before the next, label by label: labels() makes a series, ...
Create(l) ==
    /\ pc = "fill" /\ l \in rest
    /\ rest \cap DOMAIN shown[Gauge] = {}
    /\ shown' = [shown EXCEPT ![Gauge] =
          [x \in DOMAIN @ \cup {l} |-> IF x = l THEN 0 ELSE @[x]]]
    /\ UNCHANGED <<source, link, thread, filled, scraped>>

\* ... and set() gives it its value.
Set(l) ==
    /\ pc = "fill" /\ l \in rest
    /\ l \in DOMAIN shown[Gauge]
    /\ rest' = rest \ {l}
    /\ shown' = [shown EXCEPT ![Gauge][l] = Series(step)[l]]
    /\ UNCHANGED <<source, link, pc, at, step, got, filled, scraped>>

Applied ==
    /\ pc = "fill" /\ rest = {}
    /\ step = Len(GaugesOf(Enabled[at]))
    /\ pc' = "next"
    /\ step' = 0 /\ got' = <<>>
    /\ UNCHANGED <<source, link, at, rest, registry, scraped>>

\* The HTTP thread reads gauge after gauge: the statuses before the times.
Scrape ==
    /\ pc # "down"
    /\ "run_status" \in Gauges
    /\ scraped' = {e \in DOMAIN shown["run_status"] :
                      shown["run_status"][e] = 1}
    /\ UNCHANGED <<source, link, thread, registry>>

Thread ==
    \/ Start \/ NextCollector \/ Query \/ Fail
    \/ Clear \/ Applied \/ \E l \in Labels : Create(l) \/ Set(l)

World ==
    \/ \E e \in Labels :
          \/ StartRun(e) \/ ApplyRetention(e)
          \/ \E s \in {"success", "failed"} : EndRun(e, s)
    \/ \E q \in DOMAIN table \ Fixed : Change(q)
    \/ \E d \in DOMAIN up : Outage(d) \/ Recover(d)

Next == Thread \/ World \/ Scrape

Spec == Init /\ [][Next]_vars

(***************************************************************************)
(* The loop runs until the process is stopped, and every query has a       *)
(* timeout.  A database that is out of order need not recover.             *)
(***************************************************************************)
FairSpec == Spec /\ WF_vars(Thread)

-----------------------------------------------------------------------------
(* A scrape misses a series of the last collection only from the gauge     *)
(* that is being refilled at that moment.                                  *)
GapsOnlyWhileRefilling ==
    \A g \in Gauges :
        DOMAIN shown[g] = filled[g] \/ (pc = "fill" /\ step > 0 /\ g = Gauge)

Settled(c) == pc # "fill" \/ Enabled[at] # c

(* An entity whose status says success has a time of its last success: the *)
(* two alerts on it never lack what they compare with, even if the scrape  *)
(* takes the status from an older round than the time.  Only an entity     *)
(* that lost its last success, taken back or deleted, can break this.      *)
SuccessHasTimestamp ==
    "ingestion_run" \in Running /\ Settled("ingestion_run") =>
        scraped \ lost \subseteq DOMAIN shown["last_success"]

Healthy(c) ==
    \A i \in DOMAIN QueriesOf(c) :
        up[IF QueriesOf(c)[i] \in InPostgres THEN "postgres" ELSE "clickhouse"]

(* The gauges of a collector whose databases answer from some time on      *)
(* come to show what is there, and nothing that is gone, whatever becomes  *)
(* of the databases of the others.                                         *)
GaugesCatchUp ==
    \A c \in Running :
        <>[]Healthy(c) =>
            <>[](Settled(c) =>
                \A i \in DOMAIN GaugesOf(c) :
                    shown[GaugesOf(c)[i][1]] = Answer(GaugesOf(c)[i][2]))
=============================================================================
