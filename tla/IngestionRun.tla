---------------------------- MODULE IngestionRun ----------------------------
(***************************************************************************)
(* One or several ingestion processes loading Fineract entities into the   *)
(* PostgreSQL landing schema: IngestionPipeline.run and run_entity         *)
(* (pipeline.py) over PostgresLoader (loader.py).                          *)
(*                                                                         *)
(* A process works through its queue of entities.  For each it opens a     *)
(* meta.ingestion_run row and commits it, crawls the API, applies the      *)
(* quality gates, and then lands the batch in ONE transaction: the rows    *)
(* one statement at a time, the rejects, the expectation results, the      *)
(* watermark and the closing of the run row.  After the commit it reports  *)
(* its metrics, still inside the same try block.  Whatever raises rolls    *)
(* back and marks the run failed in a transaction of its own.              *)
(*                                                                         *)
(* Nothing serialises the processes: the scheduled DAG, the backfill DAG   *)
(* and `make ingest` may run at the same time, meeting only in the row     *)
(* locks of PostgreSQL (READ COMMITTED, ON CONFLICT DO UPDATE).            *)
(*                                                                         *)
(* A record is a key and a version of it.  Versions stand for payload      *)
(* hashes, and are ordered so that a property can tell an older one.       *)
(***************************************************************************)
EXTENDS Naturals, Sequences, FiniteSets

CONSTANTS
    Loaders,        \* ingestion processes
    Runs,           \* run_id values of meta.ingestion_run (bounds the runs)
    Entities,       \* the entities of the registry
    Keys,           \* natural keys, positive integers
    EntityOf,       \* the entity each key belongs to
    ParentDriven,   \* entities crawled under a parent (mode = "parent")
    ParentOf,       \* the parent key of each key of such an entity
    MaxVersion,     \* the source holds versions 1..MaxVersion of a key
    Malformed,      \* versions that the mapper or validate_record rejects
    Blocking,       \* versions that fail an expectation of severity "error"
    MinRows,        \* row_count_min of each entity, 0 when it has none
    MaxRejectPct,   \* runtime.max_reject_ratio, in percent
    MaxRecords,     \* bound on the records of one crawl
    Arguments,      \* what a process may be started with
    Null            \* no loader, no run

Absent == 0
Versions == 1..MaxVersion
ParentKeys == {k \in Keys : EntityOf[k] \notin ParentDriven}
ChildKeys == {k \in Keys : EntityOf[k] \in ParentDriven}

ASSUME KeysAssumption ==
    /\ Keys \subseteq Nat \ {Absent}
    /\ EntityOf \in [Keys -> Entities]
    /\ ParentDriven \subseteq Entities
    /\ ParentOf \in [ChildKeys -> ParentKeys]

ASSUME ValuesAssumption ==
    /\ MaxVersion \in Nat
    /\ Malformed \subseteq Versions
    /\ Blocking \subseteq Versions
    /\ MinRows \in [Entities -> Nat]
    /\ MaxRejectPct \in Nat
    /\ MaxRecords \in Nat

ASSUME ProcessAssumption ==
    /\ Null \notin Loaders
    /\ Null \notin Runs
    /\ Arguments \subseteq [queue : Seq(Entities), dry_run : BOOLEAN,
                            fail_fast : BOOLEAN]
    /\ \A a \in Arguments : a.queue # <<>>

(***************************************************************************)
(* An operator whose comment begins with "Mutant" is a plausible mistake   *)
(* in the definition after it.  Nothing uses it: put in the place of that  *)
(* definition it must make a run fail, which PROJECT.json lists.           *)
(***************************************************************************)
VARIABLES
    source,                 \* Fineract: the current version of each key
    oltp,                   \* the landed rows of every entity
    watermark,              \* meta.ingestion_watermark
    ingestion_run,          \* meta.ingestion_run
    ingestion_reject,       \* meta.ingestion_reject
    data_quality_result,    \* meta.data_quality_result: runs with results
    wal,                    \* change events per key, in commit order
    row_lock,               \* the transaction that holds each row
    wm_lock,                \* the transaction that holds each watermark row
    pc,                     \* where each process is
    job,                    \* its arguments and current run
    raw,                    \* the records it has crawled
    parents,                \* parents it still crawls children under
    todo,                   \* positions of raw it still has to upsert
    tx,                     \* its open transaction
    seen,                   \* history: the records it refused
    committed,              \* history: runs whose transaction committed
    partial,                \* history: of those, with a failed child crawl
    overlap                 \* history: processes that ran beside another

database == <<oltp, watermark, ingestion_run, ingestion_reject,
              data_quality_result, wal>>
locks == <<row_lock, wm_lock>>
process == <<pc, job, raw, parents, todo, tx>>
history == <<seen, committed, partial, overlap>>
vars == <<source, database, locks, process, history>>

-----------------------------------------------------------------------------
Record == [key : Keys, ver : Versions]
LoadResult == [read : Nat, inserted : Nat, updated : Nat, unchanged : Nat,
               rejected : Nat]
NoRows == [read |-> 0, inserted |-> 0, updated |-> 0, unchanged |-> 0,
           rejected |-> 0]

Watermark == [cursor : Keys \cup {Absent}, last : Nat, total : Nat]
NoProgress == [cursor |-> Absent, last |-> 0, total |-> 0]

Status == {"none", "running", "success", "failed", "skipped"}
RunRow == [status : Status, entity : Entities \cup {Null},
           result : LoadResult]
NoRunRow == [status |-> "none", entity |-> Null, result |-> NoRows]

Reject == [run : Runs, pos : Nat, rec : Record]
Event == [ver : Versions, run : Runs]

PC == {"idle", "ready", "parents", "crawl", "upsert", "close", "commit",
       "report", "raised", "rolledback"}
Job == [queue : Seq(Entities), dry_run : BOOLEAN, fail_fast : BOOLEAN,
        run : Runs \cup {Null}, gap : BOOLEAN]
NoJob == [queue |-> <<>>, dry_run |-> FALSE, fail_fast |-> FALSE,
          run |-> Null, gap |-> FALSE]

Transaction == [pending : [Keys -> Versions \cup {Absent}],
                result : LoadResult, watermark : Watermark]
NoTransaction == [pending |-> [k \in Keys |-> Absent],
                  result |-> NoRows, watermark |-> NoProgress]

TypeOK ==
    /\ source \in [Keys -> Versions \cup {Absent}]
    /\ oltp \in [Keys -> Versions \cup {Absent}]
    /\ watermark \in [Entities -> Watermark]
    /\ ingestion_run \in [Runs -> RunRow]
    /\ ingestion_reject \subseteq Reject
    /\ data_quality_result \subseteq Runs
    /\ wal \in [Keys -> Seq(Event)]
    /\ row_lock \in [Keys -> Loaders \cup {Null}]
    /\ wm_lock \in [Entities -> Loaders \cup {Null}]
    /\ pc \in [Loaders -> PC]
    /\ job \in [Loaders -> Job]
    /\ raw \in [Loaders -> Seq(Record)]
    /\ parents \in [Loaders -> SUBSET Keys]
    /\ todo \in [Loaders -> SUBSET Nat]
    /\ tx \in [Loaders -> Transaction]
    /\ seen \subseteq Reject
    /\ committed \subseteq Runs
    /\ partial \subseteq Runs
    /\ overlap \subseteq Loaders

Init ==
    /\ source \in [Keys -> (Versions \cup {Absent}) \cap {0, 1}]
    /\ oltp = [k \in Keys |-> Absent]
    /\ watermark = [e \in Entities |-> NoProgress]
    /\ ingestion_run = [r \in Runs |-> NoRunRow]
    /\ ingestion_reject = {}
    /\ data_quality_result = {}
    /\ wal = [k \in Keys |-> <<>>]
    /\ row_lock = [k \in Keys |-> Null]
    /\ wm_lock = [e \in Entities |-> Null]
    /\ pc = [l \in Loaders |-> "idle"]
    /\ job = [l \in Loaders |-> NoJob]
    /\ raw = [l \in Loaders |-> <<>>]
    /\ parents = [l \in Loaders |-> {}]
    /\ todo = [l \in Loaders |-> {}]
    /\ tx = [l \in Loaders |-> NoTransaction]
    /\ seen = {}
    /\ committed = {}
    /\ partial = {}
    /\ overlap = {}

-----------------------------------------------------------------------------
(***************************************************************************)
(* What _map_and_validate and the gates of run_entity make of a crawl s.   *)
(* A later record of a key replaces an earlier one, and takes its place at *)
(* the end of the batch: what is left are the last occurrences, in order.  *)
(***************************************************************************)
Mapped(s) == {i \in DOMAIN s : s[i].ver \notin Malformed}

Rejected(s) == DOMAIN s \ Mapped(s)

\* Mutant: duplicates of a key stay in the batch.
LandingWithDuplicates(s) == Mapped(s)

Landing(s) ==
    {i \in Mapped(s) : \A j \in Mapped(s) : j > i => s[j].key # s[i].key}

\* Mutant: the cursor is taken from everything that was crawled.
CrawledKeys(s) == {s[i].key : i \in DOMAIN s}

LandingKeys(s) == {s[i].key : i \in Landing(s)}

TooManyRejects(s) ==
    Cardinality(Rejected(s)) * 100 > MaxRejectPct * Len(s)

\* Mutant: only the row count blocks.
TooFewRows(e, s) == Cardinality(Landing(s)) < MinRows[e]

BlockingFailure(e, s) ==
    \/ \E i \in Landing(s) : s[i].ver \in Blocking
    \/ Cardinality(Landing(s)) < MinRows[e]

\* Mutant: a reject is dropped when its key landed in another version.
RejectsOfOtherKeys(r, s) ==
    {[run |-> r, pos |-> i, rec |-> s[i]] :
        i \in {j \in Rejected(s) : s[j].key \notin LandingKeys(s)}}

\* The quarantine records of run r, as record_rejects writes them.
Rejects(r, s) == {[run |-> r, pos |-> i, rec |-> s[i]] : i \in Rejected(s)}

\* What run r refused, for the history.
Refused(r, s) ==
    {[run |-> r, pos |-> i, rec |-> s[i]] :
        i \in {j \in DOMAIN s : s[j].ver \in Malformed}}

MaxKey(S) == CHOOSE k \in S : \A j \in S : j <= k

-----------------------------------------------------------------------------
Entity(l) == Head(job[l].queue)

\* Mutant: the watermark row stays locked.
UnlockRows(l) ==
    /\ row_lock' = [k \in Keys |-> IF row_lock[k] = l THEN Null
                                                       ELSE row_lock[k]]
    /\ UNCHANGED wm_lock

\* PostgreSQL ends a transaction, by commit or rollback: its locks go.
Unlock(l) ==
    /\ row_lock' = [k \in Keys |-> IF row_lock[k] = l THEN Null
                                                       ELSE row_lock[k]]
    /\ wm_lock' = [e \in Entities |-> IF wm_lock[e] = l THEN Null
                                                        ELSE wm_lock[e]]

\* run_entity returns: on to the next entity of the queue, unless this was
\* the last one or a failure under fail_fast.
Advance(l, failed) ==
    LET rest == IF failed /\ job[l].fail_fast THEN <<>>
                                              ELSE Tail(job[l].queue)
    IN  /\ job' = [job EXCEPT ![l].queue = rest, ![l].run = Null,
                              ![l].gap = FALSE]
        /\ pc' = [pc EXCEPT ![l] = IF rest = <<>> THEN "idle" ELSE "ready"]
        /\ raw' = [raw EXCEPT ![l] = <<>>]
        /\ parents' = [parents EXCEPT ![l] = {}]
        /\ todo' = [todo EXCEPT ![l] = {}]
        /\ tx' = [tx EXCEPT ![l] = NoTransaction]

\* Mutant: the UPDATE names the entity instead of the run.
FinishEntity(r, status, result) ==
    ingestion_run' = [q \in Runs |->
        IF ingestion_run[q].entity = ingestion_run[r].entity
          THEN [ingestion_run[q] EXCEPT !.status = status, !.result = result]
          ELSE ingestion_run[q]]

\* Mutant: a status that meta.ingestion_run does not have.
FinishWithError(r, status, result) ==
    ingestion_run' = [ingestion_run EXCEPT
        ![r].status = IF status = "failed" THEN "error" ELSE status,
        ![r].result = result]

\* finish_run on the row of run r.
Finish(r, status, result) ==
    ingestion_run' = [ingestion_run EXCEPT ![r].status = status,
                                           ![r].result = result]

-----------------------------------------------------------------------------
(* The core-banking system writes a key.                                   *)
SourceWrites(k) ==
    /\ source[k] < MaxVersion
    /\ source' = [source EXCEPT ![k] = @ + 1]
    /\ UNCHANGED <<database, locks, process, history>>

(* IngestionPipeline.run is called in a fresh process.                     *)
Begin(l, a) ==
    LET others == {m \in Loaders \ {l} : pc[m] # "idle"}
    IN  /\ pc[l] = "idle"
        /\ pc' = [pc EXCEPT ![l] = "ready"]
        /\ job' = [job EXCEPT ![l] = [NoJob EXCEPT !.queue = a.queue,
                                                 !.dry_run = a.dry_run,
                                                 !.fail_fast = a.fail_fast]]
        /\ overlap' = IF others = {} THEN overlap \ {l}
                                     ELSE overlap \cup others \cup {l}
        /\ UNCHANGED <<source, database, locks, raw, parents, todo, tx,
                       seen, committed, partial>>

(* start_run: the run row is committed before anything else happens.       *)
StartRun(l, r) ==
    /\ pc[l] = "ready"
    /\ ingestion_run[r].status = "none"
    /\ ingestion_run' = [ingestion_run EXCEPT
            ![r] = [status |-> "running", entity |-> Entity(l),
                    result |-> NoRows]]
    /\ job' = [job EXCEPT ![l].run = r]
    /\ pc' = [pc EXCEPT ![l] = IF Entity(l) \in ParentDriven
                                 THEN "parents" ELSE "crawl"]
    /\ UNCHANGED <<source, oltp, watermark, ingestion_reject,
                   data_quality_result, wal, locks, raw, parents, todo, tx,
                   history>>

\* Mutant: the parents are listed at the source.
SourceParents == {k \in ParentKeys : source[k] # Absent}

LandedParents == {k \in ParentKeys : oltp[k] # Absent}

(* fetch_parent_ids: any part of the landed parents may pass the query's   *)
(* filter (disbursed loans) and its limit.                                 *)
ListParents(l) ==
    /\ pc[l] = "parents"
    /\ \E P \in SUBSET LandedParents :
          parents' = [parents EXCEPT ![l] = P]
    /\ pc' = [pc EXCEPT ![l] = "crawl"]
    /\ UNCHANGED <<source, database, locks, job, raw, todo, tx, history>>

\* Mutant: any version up to the current one, as from a cache.
ServedFromCache(k) == 1..source[k]

\* The versions of key k that the API may answer with.
Served(k) == {source[k]} \ {Absent}

(* The crawl returns one more record.  Pages move under a live source, so  *)
(* a key may come again, in a later version, or not at all.                *)
CrawlRecord(l, k) ==
    /\ pc[l] = "crawl"
    /\ Len(raw[l]) < MaxRecords
    /\ EntityOf[k] = Entity(l)
    /\ Entity(l) \in ParentDriven => ParentOf[k] \in parents[l]
    /\ \E v \in Served(k) :
          raw' = [raw EXCEPT ![l] = Append(@, [key |-> k, ver |-> v])]
    /\ UNCHANGED <<source, database, locks, pc, job, parents, todo, tx,
                   history>>

(* FineractError under one parent is logged and the crawl goes on with the *)
(* next one, keeping the records this parent already yielded.              *)
ChildCrawlFails(l, p) ==
    /\ pc[l] = "crawl"
    /\ Entity(l) \in ParentDriven
    /\ p \in parents[l]
    /\ parents' = [parents EXCEPT ![l] = @ \ {p}]
    /\ job' = [job EXCEPT ![l].gap = TRUE]
    /\ UNCHANGED <<source, database, locks, pc, raw, todo, tx, history>>

(* FineractError of a flat crawl, or any other exception of any crawl,     *)
(* raises out of run_entity's try block.                                   *)
CrawlFails(l) ==
    /\ pc[l] = "crawl"
    /\ pc' = [pc EXCEPT ![l] = "raised"]
    /\ UNCHANGED <<source, database, locks, job, raw, parents, todo, tx,
                   history>>

(* The crawl is over and the batch does not pass: ValueError.              *)
GateRefuses(l) ==
    /\ pc[l] = "crawl"
    /\ TooManyRejects(raw[l]) \/ BlockingFailure(Entity(l), raw[l])
    /\ seen' = seen \cup Refused(job[l].run, raw[l])
    /\ pc' = [pc EXCEPT ![l] = "raised"]
    /\ UNCHANGED <<source, database, locks, job, raw, parents, todo, tx,
                   committed, partial, overlap>>

GatePasses(l) ==
    /\ pc[l] = "crawl"
    /\ ~TooManyRejects(raw[l])
    /\ ~BlockingFailure(Entity(l), raw[l])

(* The batch passes, and a dry run stops here.                             *)
DryRunEnds(l) ==
    /\ GatePasses(l)
    /\ job[l].dry_run
    /\ Finish(job[l].run, "skipped",
              [NoRows EXCEPT !.read = Cardinality(Landing(raw[l])),
                             !.rejected = Cardinality(Rejected(raw[l]))])
    /\ Advance(l, FALSE)
    /\ UNCHANGED <<source, oltp, watermark, ingestion_reject,
                   data_quality_result, wal, locks, history>>

(* The batch passes and the atomic unit of work begins.                    *)
BeginBatch(l) ==
    /\ GatePasses(l)
    /\ ~job[l].dry_run
    /\ seen' = seen \cup Refused(job[l].run, raw[l])
    /\ todo' = [todo EXCEPT ![l] = Landing(raw[l])]
    /\ pc' = [pc EXCEPT ![l] = "upsert"]
    /\ UNCHANGED <<source, database, locks, job, raw, parents, tx,
                   committed, partial, overlap>>

NextRow(l) == CHOOSE i \in todo[l] : \A j \in todo[l] : i <= j

\* The version of key k that a statement of l's transaction sees.
Visible(l, k) ==
    IF tx[l].pending[k] # Absent THEN tx[l].pending[k] ELSE oltp[k]

\* Mutant: a statement reads and writes a row that another one holds.
RowAlwaysFree(l, k) == TRUE

RowFree(l, k) == row_lock[k] \in {l, Null}

\* Mutant: the watermark is read before its row is locked.
WatermarkAlwaysFree(l, e) == TRUE

WatermarkFree(l, e) == wm_lock[e] \in {l, Null}

\* Mutant: DO UPDATE without its WHERE.
AlwaysDistinct(old, new) == TRUE

\* WHERE ..._payload_hash IS DISTINCT FROM EXCLUDED._payload_hash
Distinct(old, new) == old # new

\* LoadResult after the statement for a row whose visible version is old.
Count(result, old, new) ==
    CASE old = Absent ->
            [result EXCEPT !.read = @ + 1, !.inserted = @ + 1]
      [] old # Absent /\ Distinct(old, new) ->
            [result EXCEPT !.read = @ + 1, !.updated = @ + 1]
      [] OTHER ->
            [result EXCEPT !.read = @ + 1, !.unchanged = @ + 1]

(* INSERT ... ON CONFLICT DO UPDATE ... WHERE the hash is distinct.  The   *)
(* statement waits for, and then holds, the row, even if the WHERE leaves  *)
(* it as it is.                                                            *)
UpsertRow(l) ==
    LET rec == raw[l][NextRow(l)]
        old == Visible(l, rec.key)
    IN  /\ pc[l] = "upsert"
        /\ todo[l] # {}
        /\ RowFree(l, rec.key)
        /\ row_lock' = [row_lock EXCEPT ![rec.key] = l]
        /\ tx' = [tx EXCEPT
              ![l].pending[rec.key] = IF Distinct(old, rec.ver) THEN rec.ver
                                                                ELSE @,
              ![l].result = Count(@, old, rec.ver)]
        /\ todo' = [todo EXCEPT ![l] = @ \ {NextRow(l)}]
        /\ UNCHANGED <<source, database, wm_lock, pc, job, raw, parents,
                       history>>

(* record_rejects, record_expectations and update_watermark.  The first    *)
(* two only insert; the third waits for the watermark row, and computes    *)
(* the new one from the row as it is then.                                 *)
CloseBatch(l) ==
    LET e == Entity(l)
        old == watermark[e]
        keys == LandingKeys(raw[l])
        read == tx[l].result.read
    IN  /\ pc[l] = "upsert"
        /\ todo[l] = {}
        /\ WatermarkFree(l, e)
        /\ wm_lock' = [wm_lock EXCEPT ![e] = l]
        /\ tx' = [tx EXCEPT
              ![l].result.rejected = Cardinality(Rejected(raw[l])),
              ![l].watermark =
                  [cursor |-> IF keys = {} THEN old.cursor ELSE MaxKey(keys),
                   last |-> read,
                   total |-> old.total + read]]
        /\ pc' = [pc EXCEPT ![l] = "commit"]
        /\ UNCHANGED <<source, database, row_lock, job, raw, parents, todo,
                       history>>

(* finish_run(success) and COMMIT: everything the transaction wrote shows  *)
(* at once, and each row written becomes a change event.                   *)
Commit(l) ==
    LET r == job[l].run
        new == tx[l].pending
    IN  /\ pc[l] = "commit"
        /\ oltp' = [k \in Keys |-> IF new[k] # Absent THEN new[k]
                                                      ELSE oltp[k]]
        /\ wal' = [k \in Keys |->
              IF new[k] # Absent
                THEN Append(wal[k], [ver |-> new[k], run |-> r])
                ELSE wal[k]]
        /\ watermark' = [watermark EXCEPT ![Entity(l)] = tx[l].watermark]
        /\ ingestion_reject' = ingestion_reject \cup Rejects(r, raw[l])
        /\ data_quality_result' = data_quality_result \cup {r}
        /\ Finish(r, "success", tx[l].result)
        /\ Unlock(l)
        /\ tx' = [tx EXCEPT ![l] = NoTransaction]
        /\ pc' = [pc EXCEPT ![l] = "report"]
        /\ committed' = committed \cup {r}
        /\ partial' = IF job[l].gap THEN partial \cup {r} ELSE partial
        /\ UNCHANGED <<source, job, raw, parents, todo, seen, overlap>>

(* record_load(..., table_rows=table_count(...)): the run is a success.    *)
Report(l) ==
    /\ pc[l] = "report"
    /\ Advance(l, FALSE)
    /\ UNCHANGED <<source, database, locks, history>>

-----------------------------------------------------------------------------
(* Failures.                                                               *)

\* A statement or the reporting after the commit raises: a statement
\* timeout, a value the column refuses, table_count(...) for the metrics.
StatementFails(l) ==
    /\ \/ pc[l] \in {"parents", "upsert", "commit", "report"}
       \/ GatePasses(l) /\ job[l].dry_run
    /\ pc' = [pc EXCEPT ![l] = "raised"]
    /\ UNCHANGED <<source, database, locks, job, raw, parents, todo, tx,
                   history>>

\* Whom the next statement of l waits for.
Blocker(l) ==
    IF pc[l] # "upsert" THEN Null
    ELSE IF todo[l] = {} THEN wm_lock[Entity(l)]
                         ELSE row_lock[raw[l][NextRow(l)].key]

Deadlocked(l) ==
    \E S \in SUBSET Loaders :
        /\ l \in S
        /\ \A m \in S : Blocker(m) \in S \ {m}

(* PostgreSQL breaks a cycle of waiting transactions by aborting one.      *)
DeadlockVictim(l) ==
    /\ Deadlocked(l)
    /\ pc' = [pc EXCEPT ![l] = "raised"]
    /\ UNCHANGED <<source, database, locks, job, raw, parents, todo, tx,
                   history>>

(* except Exception: connection.rollback() ...                             *)
Rollback(l) ==
    /\ pc[l] = "raised"
    /\ Unlock(l)
    /\ tx' = [tx EXCEPT ![l] = NoTransaction]
    /\ pc' = [pc EXCEPT ![l] = "rolledback"]
    /\ UNCHANGED <<source, database, job, raw, parents, todo, history>>

(* ... then finish_run(failed), committed on its own; if that raises too,  *)
(* the row stays as it was.                                                *)
MarkFailed(l) ==
    /\ pc[l] = "rolledback"
    /\ \/ Finish(job[l].run, "failed", NoRows)
       \/ UNCHANGED ingestion_run
    /\ Advance(l, TRUE)
    /\ UNCHANGED <<source, oltp, watermark, ingestion_reject,
                   data_quality_result, wal, locks, history>>

(* The process ends early: killed, or an exception escapes run_entity (its *)
(* start_run, or the rollback on a connection that is gone).  PostgreSQL   *)
(* aborts what it had open; its run row stays as it was.                   *)
Die(l) ==
    /\ pc[l] # "idle"
    /\ pc' = [pc EXCEPT ![l] = "idle"]
    /\ job' = [job EXCEPT ![l] = NoJob]
    /\ raw' = [raw EXCEPT ![l] = <<>>]
    /\ parents' = [parents EXCEPT ![l] = {}]
    /\ todo' = [todo EXCEPT ![l] = {}]
    /\ tx' = [tx EXCEPT ![l] = NoTransaction]
    /\ Unlock(l)
    /\ UNCHANGED <<source, database, history>>

-----------------------------------------------------------------------------
(* What a process that is in run_entity does unless it fails.              *)
Progress(l) ==
    \/ ListParents(l)
    \/ GateRefuses(l)
    \/ DryRunEnds(l)
    \/ BeginBatch(l)
    \/ UpsertRow(l)
    \/ CloseBatch(l)
    \/ Commit(l)
    \/ Report(l)
    \/ DeadlockVictim(l)
    \/ Rollback(l)
    \/ MarkFailed(l)

Step(l) ==
    \/ \E a \in Arguments : Begin(l, a)
    \/ \E r \in Runs : StartRun(l, r)
    \/ \E k \in Keys : CrawlRecord(l, k)
    \/ \E p \in Keys : ChildCrawlFails(l, p)
    \/ CrawlFails(l)
    \/ StatementFails(l)
    \/ Die(l)
    \/ Progress(l)

Next ==
    \/ \E k \in Keys : SourceWrites(k)
    \/ \E l \in Loaders : Step(l)

Spec == Init /\ [][Next]_vars

(* A process that runs goes on running, and PostgreSQL resolves deadlocks. *)
FairSpec == Spec /\ \A l \in Loaders : WF_vars(Progress(l))

-----------------------------------------------------------------------------
(* Properties.                                                             *)

\* The change stream replays to the landed table, and every event of it
\* really changed its row: a load that finds a row as it left it writes
\* nothing, whatever other loads do meanwhile (loader.py, "Churn-free").
StreamMirrorsTable ==
    \A k \in Keys :
        /\ oltp[k] = IF wal[k] = <<>> THEN Absent ELSE wal[k][Len(wal[k])].ver
        /\ \A i \in 2..Len(wal[k]) : wal[k][i].ver # wal[k][i-1].ver

\* What meta.ingestion_run says a successful load did is what it did: the
\* counts add up, the inserts are the first events of their rows and the
\* updates the later ones.  A run that did not commit caused no event.
CountsAreExact ==
    \A r \in Runs :
        LET inserted == {k \in Keys : wal[k] # <<>> /\ wal[k][1].run = r}
            updated == {k \in Keys : \E i \in 2..Len(wal[k]) :
                                         wal[k][i].run = r}
            result == ingestion_run[r].result
        IN  /\ r \notin committed => inserted \cup updated = {}
            /\ ingestion_run[r].status = "success" =>
                  /\ result.inserted = Cardinality(inserted)
                  /\ result.updated = Cardinality(updated)
                  /\ result.read = result.inserted + result.updated
                                   + result.unchanged

\* The watermark never claims progress the data does not have: the row its
\* cursor names is a landed row of that entity, and a positive total has some
\* run of that entity behind it that committed.
WatermarkIsBacked ==
    \A e \in Entities :
        /\ watermark[e].cursor # Absent =>
              /\ EntityOf[watermark[e].cursor] = e
              /\ oltp[watermark[e].cursor] # Absent
        /\ watermark[e].total > 0 =>
              \E r \in committed : ingestion_run[r].entity = e

\* A child row is only ever landed under a landed parent, in whatever order
\* the entities were selected and whatever failed on the way.
ChildrenHaveParents ==
    \A k \in ChildKeys : oltp[k] # Absent => oltp[ParentOf[k]] # Absent

\* The gates fail closed: no version that a row-level or a blocking
\* batch-level check refuses ever reached the change stream.
GatesFailClosed ==
    \A k \in Keys : \A i \in 1..Len(wal[k]) :
        wal[k][i].ver \notin Malformed \cup Blocking

\* A load that lands quarantines every record it refused, counts them right,
\* and nothing else is in the quarantine.
QuarantineIsComplete ==
    /\ \A x \in seen : x.run \in committed => x \in ingestion_reject
    /\ \A x \in ingestion_reject : x.run \in committed /\ x \in seen
    /\ \A r \in Runs : ingestion_run[r].status = "success" =>
          ingestion_run[r].result.rejected =
              Cardinality({x \in ingestion_reject : x.run = r})

\* A run row moves from running to one outcome, by the hand of the process
\* that opened it; the one outcome that is ever taken back is a success
\* whose reporting failed.  The row of a dead process stays as it was.
OutcomesAreFinal ==
    [][\A r \in Runs :
          LET old == ingestion_run[r].status
              new == ingestion_run'[r].status
          IN  old # new =>
                \/ old = "none" /\ new = "running"
                \/ /\ \E l \in Loaders : job[l].run = r
                   /\ \/ old = "running" /\ new # "none"
                      \/ old = "success" /\ new = "failed"]_vars

\* A landed row goes back to an older version of itself only by the load of
\* a process that ran beside another one: one process at a time, with any
\* crashes and retries between them, never overwrites newer data.
AloneNeverRegresses ==
    [][\A l \in Loaders :
          pc[l] = "commit" /\ pc'[l] = "report" /\ l \notin overlap =>
              \A k \in Keys : oltp'[k] >= oltp[k]]_vars

\* No process waits forever inside run_entity, even if two of them take the
\* same rows in opposite orders.
EveryLoadEnds ==
    \A l \in Loaders : pc[l] \notin {"idle", "ready"} ~>
                       pc[l] \in {"idle", "ready"}

\* The landing schema implements the ledger.
Ledger == INSTANCE LoadLedger WITH
              rows <- oltp, mark <- watermark,
              status <- [r \in Runs |-> ingestion_run[r].status]

\* Every batch appears whole, with its watermark and its run record.
LandsAtomically == Ledger!Spec

-----------------------------------------------------------------------------
(* What the documentation says and the code does not do.                   *)

\* A run that has changed a landed row.
HasLanded(r) == \E k \in Keys : \E i \in DOMAIN wal[k] : wal[k][i].run = r

\* pipeline.py: "If any step raises, nothing lands and the run is marked
\* failed in a separate transaction."
FailedMeansNothingLanded ==
    \A r \in Runs : ingestion_run[r].status = "failed" => ~HasLanded(r)

\* validation.py: a record that fails is quarantined "and it must never
\* vanish silently".
NoRejectVanishes ==
    \A x \in seen : ingestion_run[x.run].status = "failed" =>
                        x \in ingestion_reject

\* pipeline.py: "There is deliberately no partial-commit path: for financial
\* data, a half-loaded batch is worse than no batch".
NoPartialBatch ==
    \A r \in partial : ingestion_run[r].status = "success" => ~HasLanded(r)

-----------------------------------------------------------------------------
(* The inductive invariant behind the safety properties.                   *)

\* Where a process is determines what it holds.
ProcessOK(l) ==
    /\ pc[l] = "idle" <=> job[l].queue = <<>>
    /\ pc[l] \in {"idle", "ready", "parents"} =>
          raw[l] = <<>> /\ parents[l] = {}
    /\ pc[l] \in {"idle", "ready", "parents", "crawl", "commit"} =>
          todo[l] = {}
    /\ todo[l] \subseteq Landing(raw[l])
    /\ pc[l] \notin {"upsert", "commit", "raised"} => tx[l] = NoTransaction
    /\ pc[l] \notin {"idle", "ready"} =>
          /\ job[l].run \in Runs
          /\ ingestion_run[job[l].run].status # "none"
          /\ ingestion_run[job[l].run].entity = Entity(l)

\* What a process crawled belongs to the entity it loads, children only under
\* parents that are landed; what it writes has passed the gates.
BatchOK(l) ==
    /\ \A p \in parents[l] : oltp[p] # Absent
    /\ \A i \in DOMAIN raw[l] :
          LET k == raw[l][i].key
          IN  /\ EntityOf[k] = Entity(l)
              /\ k \in ChildKeys => oltp[ParentOf[k]] # Absent
    /\ pc[l] \in {"upsert", "commit"} => ~BlockingFailure(Entity(l), raw[l])

\* A row that the transaction of l changed: l holds its lock, and the new
\* version is one of the batch and not the committed one.
PendingOK(l, k) ==
    /\ row_lock[k] = l
    /\ tx[l].pending[k] # oltp[k]
    /\ \E i \in Landing(raw[l]) :
          raw[l][i].key = k /\ raw[l][i].ver = tx[l].pending[k]

\* The new cursor of a transaction will name a landed row of the entity.
CursorOK(l, c) ==
    \/ c = Absent
    \/ c \in LandingKeys(raw[l])
    \/ c \in Keys /\ EntityOf[c] = Entity(l) /\ oltp[c] # Absent

TransactionOK(l) ==
    /\ \A k \in Keys : tx[l].pending[k] # Absent => PendingOK(l, k)
    /\ \A i \in todo[l] : tx[l].pending[raw[l][i].key] = Absent
    /\ pc[l] \in {"upsert", "commit"} =>
          \A i \in Landing(raw[l]) \ todo[l] :
              Visible(l, raw[l][i].key) # Absent
    /\ pc[l] = "commit" => CursorOK(l, tx[l].watermark.cursor)

ProcessInv == \A l \in Loaders : ProcessOK(l)
BatchInv == \A l \in Loaders : BatchOK(l)
TransactionInv == \A l \in Loaders : TransactionOK(l)
CommittedInv == \A r \in committed : ingestion_run[r].status # "none"

IInv ==
    /\ TypeOK
    /\ ProcessInv
    /\ BatchInv
    /\ TransactionInv
    /\ CommittedInv
    /\ StreamMirrorsTable
    /\ WatermarkIsBacked
    /\ ChildrenHaveParents
    /\ GatesFailClosed
=============================================================================
