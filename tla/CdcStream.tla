----------------------------- MODULE CdcStream -----------------------------
(***************************************************************************)
(* The change stream from the landing schema to the staging layer:         *)
(* PostgreSQL's log, the Debezium connector, the Kafka topics, the Kafka   *)
(* engine and the ReplacingMergeTree tables of ClickHouse, the sensor that *)
(* waits until they have caught up, and the dbt build behind it.           *)
(*                                                                         *)
(* A commit of one row is named by its position in the log; the row itself *)
(* is that position.  Its commit time is all ClickHouse knows of the       *)
(* order, and several commits can share one.  Rows are never deleted: no   *)
(* code of the platform deletes from the landing schema.  A key stands for *)
(* the sorting key of its raw table, which the tables take as unchanging.  *)
(***************************************************************************)
EXTENDS Naturals, Sequences, FiniteSets, SequencesExt

CONSTANTS
    Keys,           \* primary keys, of all tables
    Entities,       \* the tables the sensor watches
    EntityOf,       \* the table of a key
    Dated,          \* the tables whose view wants a transaction date
    Partitions,     \* of the topics of all tables
    PartitionOf,    \* the partition of a key
    MaxLag,         \* max_lag_seconds of the sensor
    Window,         \* the 24 hours the freshness view looks back
    MaxCommits, MaxTime, MaxRestarts, MaxFlaws      \* bounds, for TLC

ASSUME CdcAssumption ==
    /\ IsFiniteSet(Keys)
    /\ EntityOf \in [Keys -> Entities]
    /\ PartitionOf \in [Keys -> Partitions]
    /\ Dated \subseteq Entities
    /\ MaxLag \in Nat /\ Window \in Nat
    /\ {MaxCommits, MaxTime, MaxRestarts, MaxFlaws} \subseteq Nat

VARIABLES
    rows,           \* the landing tables: per key its last commit, or 0
    wal,            \* the commits, in order
    clock,
    sent,           \* how far the connector is in the log
    topic,          \* per partition, the events in it
    read,           \* per partition, how far ClickHouse is
    raw,            \* per key, the unmerged rows in the order of insertion
    audit,          \* per table, the newest commit time in cdc_audit
    errors,         \* what is in cdc_errors
    gate,           \* where the sensor is: idle, counting, passed
    target,         \* the counts of ClickHouse that this poke has read
    source,         \* the keys behind the counts of PostgreSQL it has read
    staging,        \* per key, the commit its staging row is of, or 0
    built,          \* the staging table exists
    restarts

database == <<rows, wal, clock>>
connector == <<sent, topic>>
clickhouse == <<read, raw, audit, errors>>
sensor == <<gate, target, source>>
dbt == <<staging, built>>
vars == <<database, connector, clickhouse, sensor, dbt, restarts>>

-----------------------------------------------------------------------------
\* What can be wrong with a row: its message cannot be parsed, or the
\* transaction has no date, which the landing schema allows.
Flaws == {"none", "poison", "undated"}

Change == [key : Keys, ms : Nat, flaw : Flaws]

KeysOf(e) == {k \in Keys : EntityOf[k] = e}
Live(e) == {k \in KeysOf(e) : rows[k] # 0}
Landed(e) == {k \in KeysOf(e) : raw[k] # <<>>}

TypeOK ==
    /\ rows \in [Keys -> 0..Len(wal)]
    /\ wal \in Seq(Change)
    /\ clock \in Nat
    /\ sent \in 0..Len(wal)
    /\ topic \in [Partitions -> Seq(1..Len(wal))]
    /\ read \in [Partitions -> Nat]
    /\ \A p \in Partitions : read[p] <= Len(topic[p])
    /\ raw \in [Keys -> Seq(1..Len(wal))]
    /\ audit \in [Entities -> Nat]
    /\ errors \subseteq 1..Len(wal)
    /\ gate \in {"idle", "counting", "passed"}
    /\ target \in [Entities -> Nat]
    /\ DOMAIN source \subseteq Entities
    /\ \A e \in DOMAIN source : source[e] \subseteq KeysOf(e)
    /\ staging \in [Keys -> 0..Len(wal)]
    /\ built \in BOOLEAN
    /\ restarts \in Nat

Init ==
    /\ rows = [k \in Keys |-> 0]
    /\ wal = <<>>
    /\ clock = 1
    /\ sent = 0
    /\ topic = [p \in Partitions |-> <<>>]
    /\ read = [p \in Partitions |-> 0]
    /\ raw = [k \in Keys |-> <<>>]
    /\ audit = [e \in Entities |-> 0]
    /\ errors = {}
    /\ gate = "idle"
    /\ target = [e \in Entities |-> 0]
    /\ source = <<>>
    /\ staging = [k \in Keys |-> 0]
    /\ built = FALSE
    /\ restarts = 0

-----------------------------------------------------------------------------
(* PostgreSQL and its log.                                                 *)

Poisoned == {l \in DOMAIN wal : wal[l].flaw = "poison"}

\* A message the view of its table drops, though it can be parsed.
Dropped == {l \in DOMAIN wal :
               wal[l].flaw = "undated" /\ EntityOf[wal[l].key] \in Dated}

Kept == DOMAIN wal \ (Poisoned \cup Dropped)

\* A transaction inserts or updates a row.  (The bounds let the clock outlive
\* the window of the last commit.)
Commit(k) ==
    /\ Len(wal) < MaxCommits
    /\ clock + Window <= MaxTime
    /\ \E flaw \in Flaws :
          /\ \/ flaw = "none"
             \/ Cardinality({l \in DOMAIN wal : wal[l].flaw # "none"}) < MaxFlaws
          /\ wal' = Append(wal, [key |-> k, ms |-> clock, flaw |-> flaw])
    /\ rows' = [rows EXCEPT ![k] = Len(wal) + 1]
    /\ UNCHANGED <<clock, connector, clickhouse, sensor, dbt, restarts>>

Tick ==
    /\ clock < MaxTime
    /\ clock' = clock + 1
    /\ UNCHANGED <<rows, wal, connector, clickhouse, sensor, dbt, restarts>>

-----------------------------------------------------------------------------
(* The connector: one task, events of a key to one partition in order.     *)

Send ==
    /\ sent < Len(wal)
    /\ sent' = sent + 1
    /\ topic' = [topic EXCEPT ![PartitionOf[wal[sent + 1].key]] =
                    Append(@, sent + 1)]
    /\ UNCHANGED <<database, clickhouse, sensor, dbt, restarts>>

\* Mutant: a restarted connector skips to the end of the log.
ResumeAtEnd ==
    /\ restarts < MaxRestarts
    /\ sent < Len(wal)
    /\ sent' = Len(wal)
    /\ restarts' = restarts + 1
    /\ UNCHANGED <<database, topic, clickhouse, sensor, dbt>>

\* A restarted connector resumes at the offset it has stored, which may be
\* any that it has passed: what came after it is sent again.
RestartConnector ==
    /\ restarts < MaxRestarts
    /\ \E offset \in 0..Len(wal) : offset < sent /\ sent' = offset
    /\ restarts' = restarts + 1
    /\ UNCHANGED <<database, topic, clickhouse, sensor, dbt>>

-----------------------------------------------------------------------------
(* ClickHouse.                                                             *)

\* The three views on the Kafka table of an entity: an error and no more, or
\* an audit row, and with it the raw row unless the view drops it.
Consume(p) ==
    /\ read[p] < Len(topic[p])
    /\ read' = [read EXCEPT ![p] = @ + 1]
    /\ LET l == topic[p][read[p] + 1]
           c == wal[l]
           Audited == audit' = [audit EXCEPT ![EntityOf[c.key]] =
                                   IF c.ms > @ THEN c.ms ELSE @]
       IN  \/ /\ l \in Poisoned
              /\ errors' = errors \cup {l}
              /\ UNCHANGED <<raw, audit>>
           \/ /\ l \in Dropped
              /\ Audited
              /\ UNCHANGED <<raw, errors>>
           \/ /\ l \in Kept
              /\ raw' = [raw EXCEPT ![c.key] = Append(@, l)]
              /\ Audited
              /\ UNCHANGED errors
    /\ UNCHANGED <<database, connector, sensor, dbt, restarts>>

\* Mutant: the version column is the time of the insert, not of the commit.
LastInserted(s, i, j) == IF i < j THEN s[j] ELSE s[i]

\* The one of two rows that a merge, or FINAL, keeps: the one with the
\* higher _version, and of two with the same the one inserted last.
Newer(s, i, j) ==
    IF wal[s[i]].ms > wal[s[j]].ms THEN s[i] ELSE s[j]

\* Parts merge with their neighbours, whenever it suits ClickHouse.
Merge(k, i) ==
    /\ i + 1 \in DOMAIN raw[k]
    /\ i \in DOMAIN raw[k]
    /\ raw' = [raw EXCEPT ![k] =
                  SubSeq(@, 1, i - 1) \o <<Newer(@, i, i + 1)>>
                  \o SubSeq(@, i + 2, Len(@))]
    /\ UNCHANGED <<database, connector, read, audit, errors, sensor,
                   dbt, restarts>>

\* Mutant: a consumer group is reset past the end of the partition.
ResetPastEnd(p) ==
    /\ restarts < MaxRestarts
    /\ read' = [read EXCEPT ![p] = Len(topic[p]) + 1]
    /\ restarts' = restarts + 1
    /\ UNCHANGED <<database, connector, raw, audit, errors, sensor, dbt>>

\* A consumer that has inserted a block and not stored its offset is given
\* the block again.
Redeliver(p) ==
    /\ restarts < MaxRestarts
    /\ \E offset \in 0..Len(topic[p]) :
          offset < read[p] /\ read' = [read EXCEPT ![p] = offset]
    /\ restarts' = restarts + 1
    /\ UNCHANGED <<database, connector, raw, audit, errors, sensor, dbt>>

-----------------------------------------------------------------------------
(* CDCCaughtUpSensor.poke: all counts of ClickHouse in one query, then     *)
(* those of PostgreSQL one by one, then the freshness of every table.      *)

ReadClickHouse ==
    /\ gate = "idle"
    /\ gate' = "counting"
    /\ target' = [e \in Entities |-> Cardinality(Landed(e))]
    /\ source' = <<>>
    /\ UNCHANGED <<database, connector, clickhouse, dbt, restarts>>

ReadPostgres(e) ==
    /\ gate = "counting"
    /\ e \in Entities \ DOMAIN source
    /\ source' = [x \in DOMAIN source \cup {e} |->
                     IF x = e THEN Live(e) ELSE source[x]]
    /\ UNCHANGED <<database, connector, clickhouse, gate, target, dbt,
                   restarts>>

\* Mutant: the view forgets no event.
InAuditForever(e) == audit[e] # 0

\* v_cdc_freshness has a row for a table with an event in the window.
InAudit(e) == audit[e] # 0 /\ audit[e] + Window > clock

Fresh(e) == InAudit(e) => clock <= audit[e] + MaxLag

\* Mutant: ClickHouse is counted after PostgreSQL.
TargetNow(e) == Cardinality(Landed(e))

TargetCount(e) == target[e]

\* No row is tolerated to be missing, and none to be too many.
Parity(e) == Cardinality(source[e]) = TargetCount(e)

\* What a poke has read is gone when it returns.
Forget ==
    /\ target' = [e \in Entities |-> 0]
    /\ source' = <<>>

ReadFreshness ==
    /\ gate = "counting"
    /\ DOMAIN source = Entities
    /\ gate' = IF \A e \in Entities : Parity(e) /\ Fresh(e)
                 THEN "passed" ELSE "idle"
    /\ Forget
    /\ UNCHANGED <<database, connector, clickhouse, dbt, restarts>>

-----------------------------------------------------------------------------
(* dbt.                                                                    *)

\* argMax by _version: which of several newest rows it takes is open.
ArgMax(k) ==
    {l \in Range(raw[k]) :
        \A m \in Range(raw[k]) : wal[m].ms <= wal[l].ms}

\* Mutant: the parameter arrives as the boolean it was.
AsBoolean(flag) == flag

\* The parameter arrives as a rendered template, a string that is not empty.
FullRefresh(flag) == TRUE

\* An existing table would be extended by a filter on a column it does not
\* have, which ClickHouse refuses; the scheduled run does not ask for a
\* full refresh.
BuildStaging ==
    /\ gate = "passed"
    /\ gate' = "idle"
    /\ IF FullRefresh(FALSE) \/ ~built
         THEN /\ built' = TRUE
              /\ \E pick \in [Keys -> 0..Len(wal)] :
                    /\ \A k \in Keys : IF raw[k] = <<>> THEN pick[k] = 0
                                       ELSE pick[k] \in ArgMax(k)
                    /\ staging' = pick
         ELSE UNCHANGED dbt
    /\ UNCHANGED <<database, connector, clickhouse, target, source, restarts>>

-----------------------------------------------------------------------------
Stream ==
    \/ Send \/ RestartConnector
    \/ \E p \in Partitions : Consume(p) \/ Redeliver(p)

Poke ==
    \/ ReadClickHouse
    \/ \E e \in Entities : ReadPostgres(e)
    \/ ReadFreshness
    \/ BuildStaging

Next ==
    \/ \E k \in Keys : Commit(k) \/ \E i \in DOMAIN raw[k] : Merge(k, i)
    \/ Tick
    \/ Stream
    \/ Poke

Spec == Init /\ [][Next]_vars

(***************************************************************************)
(* Time passes, the connector and ClickHouse make progress, and the sensor *)
(* pokes again.  Nobody has to write, and nothing has to merge.            *)
(***************************************************************************)
FairSpec ==
    /\ Spec
    /\ WF_vars(Tick) /\ WF_vars(Send)
    /\ \A p \in Partitions : WF_vars(Consume(p))
    /\ WF_vars(Poke)

-----------------------------------------------------------------------------
Delivered ==
    /\ sent = Len(wal)
    /\ \A p \in Partitions : read[p] = Len(topic[p])

Final(k) ==
    LET s == raw[k]
    IN  CHOOSE l \in ArgMax(k) : \E i \in DOMAIN s :
            s[i] = l /\ \A j \in DOMAIN s : j > i => wal[s[j]].ms < wal[l].ms

\* What FINAL shows of a key, or 0.
Shown(k) == IF raw[k] = <<>> THEN 0 ELSE Final(k)

\* The last change of a key that the views keep, or 0.
LastKept(k) ==
    LET kept == {l \in Kept : wal[l].key = k}
    IN  IF kept = {} THEN 0
        ELSE CHOOSE l \in kept : \A m \in kept : m <= l

(* Whatever was replayed, delivered twice or merged, and even if commits   *)
(* share a millisecond: once all is delivered, FINAL shows the last change *)
(* of every key that the views let through, which is the landing row       *)
(* unless that one was not, and cdc_errors has exactly the changes that    *)
(* could not be parsed.                                                    *)
DeliveredMeansCurrent ==
    Delivered =>
        /\ \A k \in Keys :
              /\ Shown(k) = LastKept(k)
              /\ rows[k] \in Kept => Shown(k) = rows[k]
        /\ errors = Poisoned

(* A replay never wins over something newer that was delivered before it:  *)
(* the newest commit time of a key that ever arrived is still there.       *)
ReplaysNeverWin ==
    [][\A k \in Keys : raw[k] # <<>> =>
          raw'[k] # <<>> /\ wal[Final(k)].ms <= wal'[Final(k)'].ms]_vars

(* Counts that agree mean that no key is missing: every row PostgreSQL     *)
(* counted has arrived, though both sides move while the sensor counts.    *)
ParityMeansArrival ==
    \A e \in DOMAIN source : Parity(e) => source[e] \subseteq Landed(e)

\* Every key in the landing schema has a change that the views keep.
Complete == \A k \in Keys : rows[k] # 0 => LastKept(k) # 0

(* If no key is missing for good the gate opens again and again, however   *)
(* quiet the source is: what is not fresh leaves the window one day.  And  *)
(* one key whose every change was poisoned or dropped shuts it for good.   *)
GateOpens ==
    /\ <>[]Complete => []<>(gate = "passed")
    /\ <>[]~Complete => <>[](gate # "passed")

(* And staging catches up for good with what the views let through, up to  *)
(* the choice between commits of the same millisecond.                     *)
StagingConverges ==
    <>[]Complete =>
        <>[](\A k \in Keys : rows[k] # 0 =>
                /\ staging[k] # 0
                /\ wal[staging[k]].ms = wal[LastKept(k)].ms)
=============================================================================
