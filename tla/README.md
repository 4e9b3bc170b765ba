# Verification of the Fineract analytics platform

TLA+ models of the platform in this repository, model-checked with TLC on small
instances, and theorems about them that TLAPS proves for every instance.

The platform copies a core-banking system (Apache Fineract) into an analytics
warehouse:

```
Fineract REST ─► ingestion process ─► PostgreSQL oltp.* / meta.* ─► WAL
   ─► Debezium ─► Kafka ─► ClickHouse raw ─► dbt staging ─► marts / ML
Airflow drives the ingestion and dbt; an exporter and alerts watch all of it.
```

The models cover that path from the API to the staging layer, and what drives and
watches it: a mock of the source and its records, the crawl, the landing
transaction, the change stream with the gate behind it, the DAGs and the exporter.
The marts are stateless SQL and are not modelled.

## 1. Inventory

Paths are relative to `src/`.

| Component | State | Operations | Meets others through | What makes it correct |
|---|---|---|---|---|
| Ingestion pipeline (`ingestion/fineract_ingest/pipeline.py`, `cli.py`) | queue of entities, current run id, crawled records, open transaction | `run`, `run_entity` and its phases | loader, client, metrics | a batch lands whole or not at all; outcomes in `meta.ingestion_run` are true |
| PostgreSQL loader (`loader.py`) | one connection; rows and locks in PostgreSQL | `start_run`, `upsert`, `record_rejects`, `record_expectations`, `update_watermark`, `finish_run`, `fetch_parent_ids` | row locks with other processes | churn-free upserts, exact counts, watermark in the batch's transaction |
| Validation (`validation.py`) | none | `validate_record`, `evaluate_expectations` | called by the pipeline | gates fail closed, rejects are quarantined |
| Registry and mappers (`entities.py`, `parsers.py`) | none | map a payload to a row; parent query | pipeline | children only under landed parents |
| REST client (`client.py`) | auth key, rate limiter, counters | `authenticate`, `get`, `iter_pages` | Fineract | every loop ends, no page is lost |
| Control plane (`platform/postgres/init/03_*.sql`) | run, watermark, reject, data-quality tables | – | loader writes, exporter and DAGs read | status values, progress never ahead of data |
| OLTP schema (`02_oltp_schema.sql`) | eight landing tables | – | loader writes, the WAL carries it on | keys |
| CDC source (`04_cdc_publication.sql`, `cdc/`) | replication slot, connector offsets | snapshot, stream, restart, heartbeat | WAL → Kafka | at least once, in order per key |
| CDC sink (`platform/clickhouse/init/02..04_*.sql`) | consumer offsets, raw and audit tables | consume, quarantine, merge | Kafka → raw tables | the newest version of a key wins |
| Operational views (`05_ops_views.sql`) | none | freshness, reconciliation counts | sensor, exporter | agree with the tables |
| dbt (`transform/`) | staging, mart and ML tables | incremental run, full refresh, tests | reads raw tables | one row per key, the newest one |
| Main DAG (`orchestration/dags/fineract_analytics_pipeline.py`) | task instance states | schedule, retry, trigger rules | calls all of the above | a successful run means a fresh, tested warehouse |
| Sensors, operators, hooks (`orchestration/plugins/fineract/`) | none | CDC gate, connector restart, dbt, quality gate | PostgreSQL, ClickHouse, Connect | the gate opens exactly when the data has arrived |
| Backfill, maintenance DAGs | task instance states | catch-up load, heartbeat, slot alarms, retention | beside the main DAG | do not disturb it |
| Exporter, Pushgateway, alerts (`observability/`, `metrics.py`) | gauges | collect, clear, refill, push | Prometheus | a scrape sees whole sets of series |
| Mock server, logging, configuration, scripts, dashboards, CI | – | – | – | – |

Hard behaviours, each listed at its line under `hazards` in `PROJECT.json`:
concurrent loads of the same rows by the scheduled DAG, the backfill DAG and a
manual run; deadlocks between them; stale crawls; crashes and statement failures
at every point of `run_entity`, before, in and after the commit; swallowed errors
of child crawls; retries of a load that did commit; at-least-once change events;
gates that look at counts and clocks; trigger rules that let a run end well
although a part of it failed.

## 2. Plan, and where it stands

Modules are ordered by what depends on what: first the place where financial data
becomes durable, then what feeds it, then what reads it, then what drives and
watches.

| | Module | Runs | Proofs |
|---|---|---|---|
| 1 | `IngestionRun`, refining `LoadLedger` | yes | typing, all its invariants and action properties, the refinement |
| 2 | `FineractClient` | yes | typing, nothing lost, nothing twice |
| 3 | `CdcStream`: log, connector, Kafka, ClickHouse, the gate and staging | yes | typing, parity means arrival, replays never win, delivered means current |
| 4 | `DagRun`: the three DAGs | yes | typing, work only on clean runs, unconfirmed backfills, stale results, counted failures |
| 5 | `Exporter` | yes | typing, gaps are refills, successes have a time |
| 6 | `EntityMapping` and `MockCrawl` | yes | no injected failure is lost, what is landed is the book, the book is clean |

`IngestionRun`, `CdcStream`, `DagRun` and `MockCrawl` meet in what they take from
each other, each of which one of them guarantees and the next allows: a crawl
yields records of a collection with gaps and repeats (`FineractClient` to
`IngestionRun`); the change stream of a key replays to its landed row
(`StreamMirrorsTable`), which is the log `CdcStream` starts from; the gate and each
dbt command succeed, fail or time out (`CdcStream` to `DagRun`).

Every invariant and every action property that a run expects to hold is a theorem,
and so is the refinement. Open: the liveness properties, which TLC alone checks, and
runs of two DAGs at the same time.

## 3. Modules

| Module | Contents |
|---|---|
| `IngestionRun` | the model: processes, landing schema, locks, properties, inductive invariant |
| `LoadLedger` | the abstract specification: batches land whole, with watermark and run status |
| `MCIngestionRun` | values of the constants for TLC |
| `FineractClient`, `MCFineractClient` | a crawl of one collection: the paging loop over the retry loop |
| `FineractClientProofs` | no record lost to insertions, none repeated for deletions |
| `IngestionRunTyping` | facts about crawls, batches and counts; `Spec => []TypeOK` |
| `IngestionRunSafety` | `Spec => []IInv`, the safety theorems, processes that are alone |
| `IngestionRunQuarantine` | the quarantine is complete, outcomes are final, counts are exact, `LoadLedger` is implemented |
| `CdcStream`, `MCCdcStream`, `CdcStreamProofs` | from PostgreSQL's log to the staging table, the CDC gate |
| `DagRun`, `MCDagRun`, `DagRunProofs` | a run of one of the three DAGs, and the next one |
| `Exporter`, `MCExporter`, `ExporterProofs` | collectors, gauges and scrapes |
| `EntityMapping` | mappers, registry and checks, as operators |
| `MockCrawl`, `MCMockCrawl`, `MockCrawlProofs` | the mock server, its book, and processes that ingest it |

### State of `IngestionRun`

| Variable | Code |
|---|---|
| `source` | Fineract: version of each key; written by nobody in this repository |
| `oltp` | the `oltp.*` tables, all entities: version of each key |
| `watermark`, `ingestion_run`, `ingestion_reject`, `data_quality_result` | the `meta.*` tables |
| `wal` | per key, the row changes in commit order, each with its run |
| `row_lock`, `wm_lock` | PostgreSQL row locks on `oltp.*` rows and on watermark rows |
| `pc`, `job`, `raw`, `parents`, `todo`, `tx` | a process: phase of `run_entity`, arguments and run, `raw` records, parents still to crawl, rows still to upsert, its uncommitted transaction |
| `seen`, `committed`, `partial`, `overlap` | history, read by properties only (`committed` and the others are never in a guard) |

A record is a key and a version. Versions stand for payload hashes: `upsert`
changes a row iff the hash differs. They are ordered only so that a property can
say *older*. `Malformed` versions are those the mapper or `validate_record`
rejects, `Blocking` ones fail an expectation of severity `error`.

### Actions

| Action | Code |
|---|---|
| `Begin` | `IngestionPipeline.run` with a queue of entities, dry run and fail-fast flags |
| `StartRun` | `start_run` and its commit |
| `ListParents` | `fetch_parent_ids` for a parent-driven entity |
| `CrawlRecord`, `ChildCrawlFails`, `CrawlFails` | `_fetch_records`: a record arrives; a child collection fails and is skipped; a flat collection fails, or any crawl with another exception, and the run with it |
| `GateRefuses`, `DryRunEnds`, `BeginBatch` | mapping, reject ratio, expectations; then refusal, the dry-run return, or the transaction |
| `UpsertRow` | one `INSERT ... ON CONFLICT DO UPDATE ... WHERE hash differs RETURNING` |
| `CloseBatch` | `record_rejects`, `record_expectations`, `update_watermark` |
| `Commit` | `finish_run('success')` and `connection.commit()` |
| `Report` | `record_load` and `table_count`, inside the same `try` |
| `StatementFails`, `DeadlockVictim` | any statement or the reporting raises; PostgreSQL picks a victim |
| `Rollback`, `MarkFailed` | the `except` clause; the failed run row is its own transaction, which may itself fail |
| `Die` | the process ends: killed, or an exception outside the `try` |
| `SourceWrites` | the core-banking system |

Choices worth knowing:

- READ COMMITTED: an upsert reads the row committed at that moment or its own
  change; `ON CONFLICT DO UPDATE` locks the row even when its `WHERE` is false,
  and a locked row is waited for.
- `record_rejects`, `record_expectations` and `update_watermark` are one action:
  what they write is private until the commit. The one of them that can wait for
  another process, the watermark row, has its lock and its guard.
- A crawl returns the keys of one entity in any order, with repeats and gaps, and
  the version current when the record is read. That covers paging over a
  changing collection, the `disbursed` filter and `--parent-limit`.
- `Die` merges a killed process with an exception that escapes `run_entity`
  (`start_run` is outside the `try`; `rollback` may raise on a dead connection).
- The ingestion never deletes rows, so deletions at the source do not appear.
- Metrics in memory, logging and elapsed times are left out.

### `FineractClient`

`collection` is the server's list, which `Insert` and `Delete` change between any
two requests. `offset`, `page_no` and `attempt` are the locals of `iter_pages` and
`get`; `yielded` counts how often each record was yielded (their order within a
crawl does not matter to `IngestionRun`, which allows any). `kind` says whether
the endpoint is read at once (`EntitySpec.paged` is false), in pages, or is asked
for pages and answers with a bare list (`_items_of`).

| Action | Code |
|---|---|
| `Begin` | `iter_pages` is called |
| `Answer` | `get` returns a page; the page is yielded, `offset` moves by its length, and the loop returns or goes on |
| `Retry` | a retryable status, connection error or timeout; the last attempt raises |
| `Refuse` | any other status from 400 on, or a body that is not JSON |

`Answer` takes a page and all of the loop body at once: the generator does
nothing else between a reply and the next request. Back-off times, the rate
limiter and `authenticate` are left out.

`NothingIsLost` has three conditions, each of which the code really needs. A
deletion before the offset shifts a record out of the next page. A reported total
that falls short ends the crawl even after a full page (`client.py:282`), although
the comment above (`client.py:254-257`) names under-reporting endpoints as the
reason for the several exit conditions; the model reports such totals
(`UnderReports`) and `misled` marks the crawls that met one. And `max_pages` cuts a
collection with a log line only.

`FineractClient` and `IngestionRun` meet in what a crawl may return: records of
the collection, some perhaps missing or repeated, and then an end or an error.
That is what `CrawlRecord`, `ChildCrawlFails` and `CrawlFails` allow.

### `CdcStream`

A commit of one row is its position in `wal`; the row is that position. `ms` is its
commit time, all ClickHouse ever compares.

| State | Code |
|---|---|
| `rows`, `wal`, `clock` | landing tables, PostgreSQL's log, the time |
| `flaw` of a commit | what is wrong with it: its message cannot be parsed (`poison`), or it is a transaction without a date (`undated`) |
| `sent`, `topic` | the connector's position, and the partitions of the topics |
| `read`, `raw`, `audit`, `errors` | the Kafka engine's offsets; unmerged rows of a key in the order of insertion; newest entry of `cdc_audit`; `cdc_errors` |
| `gate`, `target`, `source` | a poke of `CDCCaughtUpSensor`: the counts it has read so far. `source` holds the keys behind the counts of PostgreSQL, so that a property can name them; the code compares `Cardinality` only |
| `staging`, `built` | the staging table of loan transactions |

`RestartConnector` and `Redeliver` set an offset back to any earlier one: at least
once, as the connector and the consumer group store offsets after the fact.
`Consume` is the three materialized views of one topic, and its three disjuncts are what
they make of a message: only an error; an audit row and no more; an audit row and the
raw row. The second is that of `mv_loan_transactions`, which drops a row whose
`transaction_date` is NULL (`04_materialized_views.sql:329`): the mapper yields None for a
missing date, the column is nullable, no expectation looks at it. `Dated` names the
tables whose view does so. `Merge` and `Final` are ReplacingMergeTree, which of two
equal versions keeps the one inserted last. A key stands for the sorting key and the
partition of its table; `03_raw_tables.sql:28-31` takes a transaction's date as
immutable, and so does the model.
`ReadClickHouse`, `ReadPostgres` and `ReadFreshness` are the queries of one poke in
the code's order. `BuildStaging` is a dbt run behind an open gate.

Found while modelling, all at the lines `hazards` names: `full_refresh` reaches
`DbtOperator` as a rendered string, which is never empty, so **every scheduled run is
a full refresh**; and the incremental branch compares `_source_commit_at` of a model
that has no such column. The first hides the second. The model has both: `FullRefresh`
is true, and an existing table without it stays as it is. The mutant that makes
the flag a boolean loses `StagingConverges`. A source with one change in the last
day is not fresh five minutes after it and stays so until the event leaves the
view's 24 hours: `GateOpens` holds because of that window only, and the sensor's
timeout of 30 minutes is shorter.

A row whose every change is poisoned or dropped is in PostgreSQL's count and never in
ClickHouse's, and as no row may be missing the gate never opens again. A poisoned one
is at least in `cdc_errors`; **a transaction without a date is nowhere to be seen**. So
`DeliveredMeansCurrent` speaks of the changes the views keep (`LastKept`), and
`GateOpens` and `StagingConverges` of behaviours in which every key keeps at last one of
them (`Complete`); the second part of `GateOpens` says that otherwise it stays shut.

### `DagRun`

A DAG is a sequence of layers, each upstream of the next; that is how the three
files chain their task groups. `Rule`, `DeclaredRetries` and the outcomes of each
task are the code's; `Ready`, `Cascade`, `Raises`, `EndRun` are Airflow's scheduler
as the DAGs use it. `AirflowFailException` (a dbt command that returns non-zero, the
quality gate, an unknown check) is not retried, any other exception is: a dbt command
that runs into its `execution_timeout`, or cannot be started, is tried again, and what
it left in the target directory is there. `PokeConnector` may find that Kafka Connect
does not answer, and may raise when a restart does not go through, perhaps after it
was asked for. A fault
budget bounds what fails; a task that must fail needs none.

| State | Code |
|---|---|
| `dag`, `params`, `run`, `state`, `tries` | a DAG run and its task instances |
| `connector` | the Debezium connector: running, with a failed task, or failed itself |
| `results`, `published` | whose `run_results.json` is in dbt's target directory, and whose was loaded into `fineract_ops` |
| `counted`, `pushed` | the failed tasks that `publish_pipeline_metrics` counted, and whether the push arrived |
| `acted` | history: tasks of the run that changed data |

`skip_cdc_gate` of the pipeline and `rebuild_models` of the backfill are declared and
never looked at: there is nothing of them in the model. A confirmed backfill whose
rebuild fails ends as a success, because its last check looks at the landing tables
only and `finish` at that check; `UnconfirmedBackfillFails` states what does hold.

### `Exporter`

`Collectors` lists each collector's queries and gauges in the order of the code.
`table` holds the label sets the queries return; for the ingestion runs, their
statuses, since two alerts compare the gauges made of them. The thread queries,
fails or fills: `_apply` clears a gauge and sets it label by label, and `Scrape` may
happen between any two steps. `run_once` in `start` and in the loop are the
same steps; the port is open before the first of them, in spite of the comment
at `exporter.py:257`, so a scrape can find nothing yet. `labels()` makes a series with the
value 0 and `set()` gives it its value (`Create`, `Set`): a scrape in between sees a 0 that
no query returned, which for a status reads as a failure.

`EndRun` may turn a success into a failure, as `IngestionRun` does after a commit, and
`ApplyRetention` is the DELETE of old runs by the maintenance DAG. Either can take an
entity its last success between the two queries; `lost` excludes those entities from
`SuccessHasTimestamp`. A dry run, of status `skipped`, is a failed run here: neither query
tells the two apart.

### `EntityMapping` and `MockCrawl`

`EntityMapping` is `entities.py` and `validation.py` as operators over records with the
columns that are keys, references, or named by an expectation or a query.
`MockCrawl` generates a book with every choice the seed could make, serves it in
pages, and lets processes crawl, map, check and land it with the operators of
`EntityMapping`. `Choose`, `Read` and `Write` are the three accesses of `do_GET` to
`fail_next_n`, which the threads of the server share without a lock; `Transient` is a
failure by `failure_rate`, and `Arm` a test that sets `fail_next_n`, once per behaviour (a
second time would start the count anew). `Land` has both gates, of the reject ratio and of
the expectations. A loan that was
not disbursed gets its expected date, so its transactions are asked for, and there
are none.

`BookAssumption` is what the generator itself ensures: at least one office, officer and
product, rates below 47 percent a year. `PagesSuffice` says that no collection is longer
than the pages a crawl may take of it (`client.py:284` cuts it otherwise, which is what
`FineractClient` is about). `LandedIsTheBook` demands all transactions of
loans not given up as soon as one is landed; where none is, only if the plan of the
processes puts the loans first (`LoansFirst`, as `DefaultOrder` does) and they are
landed. An earlier form without that condition held in the run and failed for
plans that ask for transactions first: `fetch_parent_ids` then finds no loans, and
the run succeeds with nothing.

## 4. Runs

| Run | Instance | Shows |
|---|---|---|
| `ingest_concurrent` | 2 processes, 2 runs, one entity with 2 rows, 2 versions, crawls of ≤ 2 records | `TypeOK`, `StreamMirrorsTable`, `CountsAreExact`, `LandsAtomically` (refines LoadLedger), `AloneNeverRegresses` |
| `ingest_family` | a loan and a transaction of it, loaded in order or alone, malformed and blocking versions, dry run, fail fast | `ChildrenHaveParents`, `GatesFailClosed`, `QuarantineIsComplete`, `IInv`, `OutcomesAreFinal` |
| `ingest_liveness` | 2 processes that can lock 2 rows in opposite orders, rejects | `WatermarkIsBacked`, `EveryLoadEnds` |
| `client_crawl` | up to 4 of 4 records, pages of 2, at most 2 pages, 1 retry, totals that are missing, right or one short | `TypeOK`, `NothingIsLost`, `NothingTwice`, `EveryCrawlEnds` |
| `cdc_stream` | 2 rows of one table on 2 partitions, 2 commits, 5 ticks, one restart or redelivery, one event that cannot be parsed or has no date, a window of 3 ticks, of which 1 is fresh | `TypeOK`, `DeliveredMeansCurrent`, `ReplaysNeverWin`, `ParityMeansArrival`, `GateOpens`, `StagingConverges` |
| `dag_runs` | the three DAGs with 2 entities, one retry, 3 faults, one failure of the connector, any number of runs in a row | `TypeOK`, `WorkNeedsACleanRun`, `GreenRunsAreCounted`, `UnconfirmedBackfillFails`, `StaleResultsOnlyWithoutModels`, `RunsEnd`, `ConnectorHeals` |
| `exporter` | 2 of the 9 collectors, one of each database, 2 entities, one of them with two runs, two table changes, one outage | `TypeOK`, `GapsOnlyWhileRefilling`, `SuccessHasTimestamp`, `GaugesCatchUp` |
| `mock_crawl` | 2 processes, all 8 entities, 2 offices, clients and loans, pages of one record and at most two of them, one failure asked for, one by chance, one retry | `LandedIsTheBook`, `InjectsWhatWasAsked`, `DemoBookIsClean` |
| `ingest_demoted` | as `ingest_concurrent`, plain loads | violation, see below |
| `ingest_quarantine` | malformed versions over the ratio | violation, see below |
| `ingest_partial` | a child crawl that fails | violation, see below |
| `dag_freshness` | as `dag_runs` | violation, see below |

The bounds: `Runs` limits how many run rows are ever opened, `MaxRecords` the
length of a crawl, `MaxVersion` the changes of a key. Two processes and two rows
are the least with which a lost count, a lost watermark addition or a deadlock
can happen; two records the least with which a key repeats in a crawl or a batch
is cut between rows; two versions give an older and a newer one, and a third one
a malformed or blocking kind. The proofs do not depend on any of these bounds.
In `client_crawl` a collection can fill both pages, end in a short one, or be longer
than what `max_pages` reads, and records deleted can be inserted again, so the
changes never run out. Deadlock checking is off because a finished instance, with all its run ids
used, really stops. Symmetry of processes and of run ids is used where only
safety is checked.

In `cdc_stream` two commits can be of one row, at one time or at two, or of two rows
whose partitions lag behind each other; one restart replays everything. A commit
is fresh, then stale but in the window, then out of it, and commits stop early
enough for the clock to get there. In `dag_runs` three faults are enough to
exhaust a task's retry and still fail another one, and later runs start from what
earlier ones left behind. In `exporter` the first collector has the two queries and
three gauges that can disagree; other collectors differ in names only. Two runs of one
entity let a success be followed by a failure or be deleted under it; the other entity
makes no run and is there for the labels of the tables. In
`mock_crawl` one loan is disbursed and one is not or both are alike, every collection
takes more than one page that can, and the retry can be used up or not. Clients and
offices are two each and an account is at the office of its client, so a reference read
from another field of the same range does not go unnoticed: with the client of a
loan taken from its product, `DemoBookIsClean` fails. Deadlock
checking is off in `cdc_stream` and `mock_crawl`, which stop when their clock
or their work has run out, and on in `dag_runs` and `exporter`, which never stop.

Fairness (`FairSpec`): weak fairness of `Progress(l)`, what a process inside
`run_entity` does unless it fails. A process that is running goes on running;
PostgreSQL detects deadlocks and grants a free lock. Nothing is assumed of the
source, of new processes starting, of the crawl ever failing or of the
crash: `EveryLoadEnds` does not count on luck. The number of run ids bounds how
often the other process can take a lock first.

For the client, weak fairness of `Request`: every request ends in an answer or in
the connect or read timeout that `get` gives it. Nothing is assumed of which.

For `CdcStream`, weak fairness of the clock, the connector, each partition's consumer
and the sensor with dbt behind it: the connector's loop, the Kafka engine's
threads and the schedule. Nothing is assumed of commits, restarts and merges, and
`Complete` says that no key lacks every change it had: for a poisoned or dropped event
nobody retries.
For `DagRun`, weak fairness of `Step`: the scheduler goes on, and `execution_timeout`
and the sensors' timeouts end what hangs; breaking and repairing a connector is
free. For `Exporter`, weak fairness of the thread, whose loop runs until the process
is stopped and whose queries have timeouts; `GaugesCatchUp` assumes nothing of a
database that is down. `MockCrawl` states no liveness.

### Where the code differs from its documentation

- **A run can be marked failed although its batch landed** (`ingest_demoted`).
  `table_count` and the metrics run after the commit but inside the `try`
  (`pipeline.py:243-252`); if they raise, the `except` clause marks the run
  failed. The trace ends with a failed run whose row is in the landing table. `pipeline.py:13`: "If any step raises, nothing lands".
- **A refused batch quarantines nothing** (`ingest_quarantine`). The gates raise
  before `record_rejects` (`pipeline.py:182-194`). `validation.py:6`: "A record
  that fails is *quarantined*, not dropped"; it "must never vanish silently".
- **A half crawled batch can be committed** (`ingest_partial`). A failing child
  collection is logged and skipped (`pipeline.py:100-111`), and the run is a
  success. In the trace what it had read is landed. `pipeline.py:14`: "There is deliberately no partial-commit path".

- **No model test ever runs** (`dag_freshness`). `DbtOperator` passes "source
  freshness" to dbt as one argument (`operators.py:68`), which dbt refuses, so the task
  always fails and `dbt_test` behind it is `upstream_failed`; the run still ends green.
  `fineract_analytics_pipeline.py:261`: "Freshness is a warning, not a gate: a quiet
  Sunday is not a pipeline failure".

`StreamMirrorsTable` and `AloneNeverRegresses` state what remains true: one
process at a time never lands older data; two at once can, since each lands what
it crawled earlier (the upsert compares hashes, not ages).

## 5. Proofs

`THEOREM TypeCorrect == Spec => []TypeOK` and `THEOREM Invariant == Spec => []IInv`
hold for all values of the constants that meet the assumptions `KeysAssumption`,
`ValuesAssumption` and `ProcessAssumption`: any number of processes, entities,
keys, versions, any gates, crawls of any length. From `Invariant` follow
`StreamCorrect`, `WatermarkCorrect`, `ParentsCorrect` and `GatesCorrect`.

None of the four properties is inductive. The argument:

1. `TypeOK` and `ProcessInv` (a phase determines what the process holds: a run
   row of its entity, a batch, a transaction) are inductive together.
2. Only `Commit` changes `oltp`, `wal` or a watermark, and it takes no row away
   (`OnlyCommitLands`, `RowsStayLanded`).
3. `BatchInv`: what a process crawled is of its entity, children only under
   parents that are landed, which by 2 stay landed; past the gates it contains
   nothing they refuse.
4. `TransactionInv`: a row the transaction changed is locked by it, its new
   version is one of the batch and differs from the committed one. Others cannot
   take the lock (`LocksHold`), so the row stands still until the commit
   (`LockedRowsStandStill`), and the difference is still there when it lands.
   Every row of the batch it has passed is visible to it, so the cursor names a
   landed row.
5. Each property is then preserved by `Commit` (`CommitLands`).

`IInv` itself is an invariant of `ingest_family`.

`AloneCorrect` needs that a process alone with the schema stays so until its commit:
whoever begins beside it is marked with it (`AloneOK`), nobody else is in
`run_entity`, and what it crawled is at least as new as what is landed (`CrawlOK`,
`FreshOK`), which is at most as new as the source. Only its own commit could change
that. A process that was beside another has no such bound, and the property says
nothing of it.

For the client, `CrawlInvariant`, `InsertsLoseNothing` and `DeletesRepeatNothing`
hold for all constants that meet `ClientAssumption`. The invariant puts the offset
between what was yielded and what was not: while the crawl goes on, every record
that was there from the start is yielded or at a position after the offset
(`StillAhead`), and everything yielded is at or before it (`AlreadyBehind`).
`InsertAtPositions` and `RemoveAtPositions` say how the positions shift, and
`PageFacts` that a page is exactly the part of the collection the offset moves over.

`QuarantineCorrect` needs more of the same specification: no two processes hold one
run, a run is judged once and before it commits, and from the gates on exactly what
a process will write into the quarantine has been refused (`QInv`). With it,
`OutcomesCorrect` follows from where a process is: its row says `running` up to the
commit, and `running` or `success` from an exception on (`RunsOpen`).

`LedgerImplemented` is the refinement: `IngestionRun` implies `LoadLedger` under the
mapping of its INSTANCE. Every action but `Commit` and the closing of a run stutters;
the commit must show that what the batch claims (its last version of each key, the
watermark computed from old total and rows read) is what the transaction holds.
That is `LedgerInv`: each row that a statement has gone over is under lock and reads
as the batch has it (`Written`), whether it was changed or found so; the
counters are the cardinalities of the rows to insert, to update and gone over
(`Counted`); the watermark to write was computed from the row still there (`Claim`),
as its lock is held. `CountsCorrect` carries the same counters over into the stream:
the rows whose first event is of a run are its inserts, the later events its updates
(`RunCounted`), and no later run adds to them.

For the change stream, `TypeCorrect` bounds offsets by logs, and `CountsThatAgree` rests
on `GateInv`: nothing is in ClickHouse that PostgreSQL does not have (`LogOK`, `RawOK`),
and what the sensor counted there is the cardinality of a set of keys that has
landed and that PostgreSQL's later count contains (`Counting`). Two finite sets of one
size, one inside the other, are equal.

`ReplaysLose` says of every insert and merge that the winner of FINAL is as new as
the one before. It needs that there always is one (`HasWinner`), though rows of
equal `_version` are told apart by the order of insertion alone. `DeliveredIsCurrent`
is not inductive by far, as restarts send old events behind new ones. `FinalInv` says
why that is harmless: a restart sends again all that follows, so behind the last
copy of an event there is nothing older (`SentInOrder`); events of a key share a
partition (`Routed`) and the log is in the order of its times (`Ordered`); so whatever
ClickHouse has read is in `cdc_errors`, was dropped, or the winner of its key is newer, or
as new with a copy at that position or behind it (`ReadIsKept`). When all is sent and
read, the last change that the view keeps (`LastKept`) has been read, nothing of its key
is newer, and behind its last copy nothing is left that could have replaced it. And
`cdc_errors` holds nothing else than what could not be parsed (`ErrorsOK`).

For the DAGs, `OrderInv`: a success on rule `all_success` in a part of the graph where
all rules are `all_success` has only successes before it (`CleanBehind`), and so has
whatever changed data (`ActedClean`); every data task is in front of the first
`all_done` task. It needs `IngestNames`: entities are not called like other tasks, and
each occurs once. For a backfill without confirmation `RefusedInv` says that nothing
behind `validate_parameters` has succeeded, so the last check raises.

`StaleResultsAreBarren` follows from `PublishInv`: from the gate on tasks end in the
order of the layers (`TailInOrder`), a built model has left results of this run
(`BuiltModelsLeaveResults`), and earlier ones are published with all models past and
none built (`PublishedAfterTheModels`). `GreenRunsSayWhatFailed` follows from `CountInv`.
Up to the metrics task the tasks end in the order of their layers, whatever fails
(`InOrder`); only a preflight sensor may still be poking after another has failed. So
when the metrics are counted, all before them is done, and no failure is missed
(`CountedAtTheEnd`). What is passed over goes back to a failure (`Origins`), and
`dbt_source_freshness` is one in each run that gets there (`FreshnessFails`); if it is the
only one counted, all in front of it succeeded. A run that ends green has no
failure in the chain from `publish_dbt_results` to `finish` (`GreenEnd`), so none was
missed after the count either.

For the exporter, `ExporterInv` says where the thread is in its collector and what it
has asked (`Position`), and that a gauge has the series it was last filled with, but
for the labels still to set of the one being filled (`Refill`): `GapsAreRefills`.
`SuccessesAreTimed` relates two queries at different times: `latest` is asked before
`last_success`, a success does not go away unless it is taken back or deleted, and then
its entity is in `lost` if it was the last one; so the later
answer has a time for all the earlier one shows (`Truthful`, `Asked`), and so has
the gauge unless it is being filled (`Timed`). With the queries the other way round
it would not hold.

For the mock server, `InjectInv`: what was asked for and not injected is still in
`fail_next_n` and in what each thread is about to write back.

`BookIsLanded` and `DemoIsClean` hold for all constants that meet `CrawlAssumption`,
`BookAssumption` and `PagesSuffice`. First, whatever the dice say the book is well formed (`BookOK`):
identifiers are distinct, references resolve, accounts are at the office of their client,
outstanding amounts are not negative. For transactions that takes the counter of the generator, a recursive
function: that it exists and grows is proved by the least loan that
would break it (`LeastNatural`), as induction is not available. Then the way of a
record: it keeps its key (`MapKeepsKey`), is not rejected (`RowIsValid`), a batch is
exactly the rows of the records crawled, duplicates or not (`BatchIs`), and passes
every check of the registry (`ChecksPass`). Last, `CrawlInv`: a crawl holds a prefix of
its collection and, when done, all of it (`CollectionOK`, with `PageIs`); of the
transactions it holds those of every loan it has no longer to ask for and did not
give up, or found no loans at all (`ChildrenOK`); what is landed is the rows of the
whole (`StoreOK`). `PlanOK` and `PastChildren` place each process in its plan, so that
loans that are asked for first are landed first (`OrderOK`).

All candidates for inductive invariants were checked by TLC before they were proved:
`IInv` in `ingest_family`; the others on the instances of their runs, `CrawlInv` with
plans in other orders as well, and `ExporterInv` with more runs than `exporter` has.

Model-checked only: liveness (`EveryLoadEnds`, `EveryCrawlEnds`, `GateOpens`,
`StagingConverges`, `RunsEnd`, `ConnectorHeals`, `GaugesCatchUp`). It rests on fairness, and
so on ENABLED, which the prover does not handle.

## 6. Not modelled

`PROJECT.json` gives the reason for each component.

- Marts, ML features and their tests: SQL over a snapshot, no state of their own.
- Parsers and descriptive columns of the mappers: conversions of single values.
- Pushgateway metrics and Airflow callbacks: each push replaces the group of its job,
  so series of other tasks vanish; nothing reads them, so there is no promise.
- Initial snapshot, slot size and retained log, heartbeat events, deletes: the first
  three belong to external code the repository only configures, and nothing in the
  platform deletes landing rows.
- The dbt runs of two DAGs at the same time, in one target directory.
- Logging, configuration, dashboards, CI and static validation scripts.
