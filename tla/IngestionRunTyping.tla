------------------------- MODULE IngestionRunTyping -------------------------
(***************************************************************************)
(* The type invariant of IngestionRun, for any number of processes, runs,  *)
(* keys, entities and versions, and what its operators return: facts about *)
(* one crawl, about the CHOOSEs, and about the records a step writes.      *)
(*                                                                         *)
(* TypeOK needs ProcessInv: only a process inside run_entity has an entity *)
(* and a run row, and every action that writes one of them is taken there. *)
(***************************************************************************)
EXTENDS IngestionRun, FiniteSetTheorems, SequenceTheorems,
        WellFoundedInduction, TLAPS

-----------------------------------------------------------------------------
(* Smallest and greatest elements.                                         *)

\* A set of naturals that is not empty has a least element.
LEMMA LeastNatural ==
    ASSUME NEW T \in SUBSET Nat, T # {}
    PROVE  \E i \in T : \A j \in T : i <= j
<1>1. \E i \in T : \A j \in T : ~ (<<j, i>> \in OpToRel(<, Nat))
  BY NatLessThanWellFounded, WFMin
<1>2. PICK i \in T : \A j \in T : ~ (<<j, i>> \in OpToRel(<, Nat))
  BY <1>1
<1>3. ASSUME NEW j \in T PROVE i <= j
  <2>1. ~ (j < i)
    BY <1>2 DEF OpToRel
  <2> QED BY <2>1
<1> QED BY <1>3

\* A finite set of naturals that is not empty has a greatest element: the one
\* with the fewest others above it.
LEMMA GreatestNatural ==
    ASSUME NEW T \in SUBSET Nat, IsFiniteSet(T), T # {}
    PROVE  \E i \in T : \A j \in T : j <= i
<1> DEFINE Above(k) == {j \in T : j > k}
           Sizes == {Cardinality(Above(k)) : k \in T}
<1>1. \A k \in T : IsFiniteSet(Above(k)) /\ Cardinality(Above(k)) \in Nat
  <2> SUFFICES ASSUME NEW k \in T
               PROVE  IsFiniteSet(Above(k)) /\ Cardinality(Above(k)) \in Nat
    OBVIOUS
  <2>1. IsFiniteSet(Above(k))
    BY FS_Subset
  <2> QED BY <2>1, FS_CardinalityType
<1>2. Sizes \in SUBSET Nat /\ Sizes # {}
  BY <1>1
<1>3. PICK n \in Sizes : \A m \in Sizes : n <= m
  <2> HIDE DEF Sizes
  <2> QED BY <1>2, LeastNatural
<1>4. PICK i \in T : n = Cardinality(Above(i))
  OBVIOUS
<1>5. ASSUME NEW j \in T, j > i PROVE FALSE
  <2>1. /\ i \in Nat /\ j \in Nat
        /\ \A m \in T : m \in Nat /\ (m > j => m > i)
    BY <1>5
  <2>2. Above(j) \in SUBSET Above(i)
    BY <2>1
  <2>3. j \in Above(i) /\ j \notin Above(j)
    BY <1>5, <2>1
  <2>4. Cardinality(Above(j)) # Cardinality(Above(i))
    <3> HIDE DEF Above
    <3> QED BY <1>1, <2>2, <2>3, FS_Subset
  <2>5. Cardinality(Above(j)) <= Cardinality(Above(i))
    <3> HIDE DEF Above
    <3> QED BY <1>1, <2>2, FS_Subset
  <2>6. Cardinality(Above(i)) <= Cardinality(Above(j))
    BY <1>3, <1>4
  <2> QED BY <1>1, <2>4, <2>5, <2>6
<1> QED BY <1>5

-----------------------------------------------------------------------------
(* The batch a crawl makes.                                                *)

\* Every part of a crawl that the loader counts is finite, and its positions
\* and records are those of the crawl.
LEMMA BatchFacts ==
    ASSUME NEW s \in Seq(Record)
    PROVE  /\ DOMAIN s \subseteq Nat
           /\ \A i \in DOMAIN s : /\ s[i] \in Record
                                  /\ s[i].key \in Keys
                                  /\ s[i].ver \in Versions
           /\ Mapped(s) \subseteq DOMAIN s
           /\ Rejected(s) \subseteq DOMAIN s
           /\ Landing(s) \subseteq Mapped(s)
           /\ IsFiniteSet(DOMAIN s)
           /\ Cardinality(Rejected(s)) \in Nat
           /\ IsFiniteSet(Landing(s))
           /\ Cardinality(Landing(s)) \in Nat
<1>1. DOMAIN s = 1..Len(s) /\ Len(s) \in Nat
  BY LenProperties
<1>2. \A i \in DOMAIN s : s[i] \in Record
  BY <1>1, ElementOfSeq
<1>3. /\ Mapped(s) \subseteq DOMAIN s
      /\ Rejected(s) \subseteq DOMAIN s
      /\ Landing(s) \subseteq Mapped(s)
  BY DEF Mapped, Rejected, Landing
<1>4. IsFiniteSet(DOMAIN s)
  BY <1>1, FS_Interval
<1>5. IsFiniteSet(Rejected(s)) /\ IsFiniteSet(Landing(s))
  BY <1>3, <1>4, FS_Subset
<1>6. Cardinality(Rejected(s)) \in Nat /\ Cardinality(Landing(s)) \in Nat
  BY <1>5, FS_CardinalityType
<1>7. DOMAIN s \subseteq Nat
  BY <1>1
<1>8. \A i \in DOMAIN s : s[i].key \in Keys /\ s[i].ver \in Versions
  BY <1>2 DEF Record
<1> QED BY <1>2, <1>3, <1>4, <1>5, <1>6, <1>7, <1>8

\* The cursor of a batch that is not empty is one of its keys.
LEMMA MaxKeyOfBatch ==
    ASSUME NEW s \in Seq(Record), LandingKeys(s) # {}
    PROVE  MaxKey(LandingKeys(s)) \in LandingKeys(s)
<1> DEFINE T == LandingKeys(s)
           f == [i \in Landing(s) |-> s[i].key]
<1>1. T \subseteq Keys
  BY BatchFacts DEF LandingKeys
<1>2. T \in SUBSET Nat
  BY <1>1, KeysAssumption
<1>3. f \in Surjection(Landing(s), T)
  BY DEF LandingKeys, Surjection
<1>4. IsFiniteSet(T)
  <2>1. IsFiniteSet(Landing(s))
    BY BatchFacts
  <2> HIDE DEF f, T
  <2> QED BY <1>3, <2>1, FS_Surjection
<1>5. \E k \in T : \A j \in T : j <= k
  <2>1. T # {}
    OBVIOUS
  <2> HIDE DEF T
  <2> QED BY <1>2, <1>4, <2>1, GreatestNatural
<1> QED BY <1>5 DEF MaxKey

\* A crawl that goes on keeps its records, and adds one.
LEMMA AppendedRecord ==
    ASSUME NEW s \in Seq(Record), NEW rec \in Record,
           NEW i \in DOMAIN Append(s, rec)
    PROVE  \/ Append(s, rec)[i] = rec
           \/ i \in DOMAIN s /\ Append(s, rec)[i] = s[i]
<1> DEFINE t == Append(s, rec)
<1>1. /\ t \in Seq(Record) /\ Len(t) = Len(s) + 1 /\ t[Len(s) + 1] = rec
      /\ \A j \in 1..Len(s) : t[j] = s[j]
      /\ Len(s) \in Nat
      /\ DOMAIN s = 1..Len(s) /\ DOMAIN t = 1..Len(t)
  BY AppendProperties, LenProperties
<1> HIDE DEF t
<1>2. i \in DOMAIN t
  BY DEF t
<1>3. CASE i = Len(s) + 1
  BY <1>1, <1>3 DEF t
<1>4. CASE i \in 1..Len(s)
  BY <1>1, <1>4 DEF t
<1> QED BY <1>1, <1>2, <1>3, <1>4

\* A batch lands under natural keys.
LEMMA LandingKeysAreKeys ==
    ASSUME NEW s \in Seq(Record)
    PROVE  LandingKeys(s) \subseteq Keys
BY BatchFacts DEF LandingKeys

\* The quarantine records of a run are of the right type.
LEMMA RejectsType ==
    ASSUME NEW s \in Seq(Record), NEW r \in Runs
    PROVE  Rejects(r, s) \subseteq Reject /\ Refused(r, s) \subseteq Reject
BY BatchFacts DEF Rejects, Refused, Reject, Rejected

\* Counting a statement keeps a LoadResult a LoadResult.
LEMMA CountType ==
    ASSUME NEW result \in LoadResult, NEW old, NEW new
    PROVE  Count(result, old, new) \in LoadResult
<1> DEFINE inserted == [result EXCEPT !.read = @ + 1, !.inserted = @ + 1]
           updated == [result EXCEPT !.read = @ + 1, !.updated = @ + 1]
           unchanged == [result EXCEPT !.read = @ + 1, !.unchanged = @ + 1]
<1>1. /\ result.read + 1 \in Nat
      /\ result.inserted + 1 \in Nat
      /\ result.updated + 1 \in Nat
      /\ result.unchanged + 1 \in Nat
  BY DEF LoadResult
<1>2. inserted \in LoadResult
  BY <1>1 DEF LoadResult
<1>3. updated \in LoadResult
  BY <1>1 DEF LoadResult
<1>4. unchanged \in LoadResult
  BY <1>1 DEF LoadResult
<1>5. Count(result, old, new) \in {inserted, updated, unchanged}
  BY Zenon DEF Count
<1> QED BY <1>2, <1>3, <1>4, <1>5

-----------------------------------------------------------------------------
(* The values everything starts from.                                      *)

\* The rows, cursors and jobs that the system starts from have the types of
\* their columns.
LEMMA InitialValues ==
    /\ Absent \in Nat
    /\ NoRows \in LoadResult
    /\ NoProgress \in Watermark
    /\ NoRunRow \in RunRow
    /\ NoJob \in Job
    /\ NoTransaction \in Transaction
<1>1. Absent \in Nat /\ NoRows \in LoadResult
  BY DEF Absent, NoRows, LoadResult
<1>2. NoProgress \in Watermark
  BY DEF NoProgress, Watermark, Absent
<1>3. NoRunRow \in RunRow
  BY <1>1 DEF NoRunRow, RunRow, Status
<1>4. NoJob \in Job
  <2>1. <<>> \in Seq(Entities)
    BY EmptySeq
  <2> QED BY <2>1 DEF NoJob, Job
<1>5. NoTransaction \in Transaction
  BY <1>1, <1>2 DEF NoTransaction, Transaction
<1> QED BY <1>1, <1>2, <1>3, <1>4, <1>5

\* Inside run_entity there is an entity and a run row.
LEMMA InsideRunEntity ==
    ASSUME TypeOK, ProcessInv, NEW l \in Loaders
    PROVE  /\ pc[l] # "idle" => /\ job[l].queue # <<>>
                                /\ Entity(l) \in Entities
                                /\ Tail(job[l].queue) \in Seq(Entities)
           /\ pc[l] \notin {"idle", "ready"} =>
                /\ job[l].run \in Runs
                /\ ingestion_run[job[l].run] \in RunRow
                /\ ingestion_run[job[l].run].status # "none"
<1>1. job[l] \in Job /\ job[l].queue \in Seq(Entities)
  BY DEF TypeOK, Job
<1>2. pc[l] # "idle" => job[l].queue # <<>>
  BY DEF ProcessInv, ProcessOK
<1>3. job[l].queue # <<>> => /\ Head(job[l].queue) \in Entities
                             /\ Tail(job[l].queue) \in Seq(Entities)
  BY <1>1, HeadTailProperties
<1>4. pc[l] \notin {"idle", "ready"} =>
        /\ job[l].run \in Runs
        /\ ingestion_run[job[l].run].status # "none"
  BY DEF ProcessInv, ProcessOK
<1> QED BY <1>2, <1>3, <1>4 DEF Entity, TypeOK

\* The row the next statement writes is one of the batch.
LEMMA RowToWrite ==
    ASSUME TypeOK, ProcessInv, NEW l \in Loaders, todo[l] # {}
    PROVE  /\ NextRow(l) \in todo[l]
           /\ NextRow(l) \in Landing(raw[l])
           /\ NextRow(l) \in DOMAIN raw[l]
           /\ raw[l][NextRow(l)].key \in Keys
           /\ raw[l][NextRow(l)].ver \in Versions
<1>1. todo[l] \in SUBSET Nat /\ raw[l] \in Seq(Record)
  BY DEF TypeOK
<1>2. NextRow(l) \in todo[l]
  BY <1>1, LeastNatural DEF NextRow
<1>3. todo[l] \subseteq Landing(raw[l])
  BY DEF ProcessInv, ProcessOK
<1> QED BY <1>1, <1>2, <1>3, BatchFacts

-----------------------------------------------------------------------------
(* The steps that several actions share.                                   *)

\* Returning from run_entity keeps the types of what the process holds.
LEMMA AdvanceType ==
    ASSUME TypeOK, ProcessInv, NEW l \in Loaders, NEW failed \in BOOLEAN,
           pc[l] # "idle", Advance(l, failed)
    PROVE  /\ pc' \in [Loaders -> PC]
           /\ job' \in [Loaders -> Job]
           /\ raw' \in [Loaders -> Seq(Record)]
           /\ parents' \in [Loaders -> SUBSET Keys]
           /\ todo' \in [Loaders -> SUBSET Nat]
           /\ tx' \in [Loaders -> Transaction]
<1> DEFINE rest == IF failed /\ job[l].fail_fast THEN <<>>
                                                 ELSE Tail(job[l].queue)
<1>1. rest \in Seq(Entities)
  BY InsideRunEntity, EmptySeq
<1>2. job' = [job EXCEPT ![l] = [job[l] EXCEPT !.queue = rest, !.run = Null,
                                               !.gap = FALSE]]
  BY DEF Advance
<1>3. [job[l] EXCEPT !.queue = rest, !.run = Null, !.gap = FALSE] \in Job
  <2>1. job[l] \in Job
    BY DEF TypeOK
  <2> HIDE DEF rest
  <2> QED BY <1>1, <2>1 DEF Job
<1>4. job' \in [Loaders -> Job]
  <2> HIDE DEF rest
  <2> QED BY <1>2, <1>3 DEF TypeOK
<1>5. pc' \in [Loaders -> PC]
  BY DEF Advance, TypeOK, PC
<1>6. /\ raw' \in [Loaders -> Seq(Record)]
      /\ parents' \in [Loaders -> SUBSET Keys]
      /\ todo' \in [Loaders -> SUBSET Nat]
      /\ tx' \in [Loaders -> Transaction]
  BY InitialValues, EmptySeq DEF Advance, TypeOK
<1> QED BY <1>4, <1>5, <1>6

\* The end of a transaction leaves locks to processes or to nobody.
LEMMA UnlockType ==
    ASSUME TypeOK, NEW l \in Loaders, Unlock(l)
    PROVE  /\ row_lock' \in [Keys -> Loaders \cup {Null}]
           /\ wm_lock' \in [Entities -> Loaders \cup {Null}]
BY DEF TypeOK, Unlock

\* finish_run keeps meta.ingestion_run a table of run rows.
LEMMA FinishType ==
    ASSUME TypeOK, NEW r \in Runs, NEW status \in Status,
           NEW result \in LoadResult, Finish(r, status, result)
    PROVE  ingestion_run' \in [Runs -> RunRow]
BY DEF TypeOK, Finish, RunRow

-----------------------------------------------------------------------------
(* TypeOK.                                                                 *)

\* The empty database and the idle processes are of the right types.
LEMMA InitType == Init => TypeOK
<1> SUFFICES ASSUME Init PROVE TypeOK
  OBVIOUS
<1>1. <<>> \in Seq(Event) /\ <<>> \in Seq(Record)
  BY EmptySeq
<1> QED BY <1>1, InitialValues DEF Init, TypeOK, PC

\* Every step keeps the types: one step of the proof per action.
LEMMA TypeStep ==
    ASSUME TypeOK, ProcessInv, [Next]_vars
    PROVE  TypeOK'
<1> USE DEF TypeOK
<1>1. CASE \E k \in Keys : SourceWrites(k)
  <2> PICK k \in Keys : SourceWrites(k)
    BY <1>1
  <2>1. source[k] + 1 \in Versions
    <3>1. source[k] \in 0..MaxVersion /\ MaxVersion \in Nat
      BY ValuesAssumption DEF Versions, Absent
    <3>2. source[k] < MaxVersion
      BY DEF SourceWrites
    <3> QED BY <3>1, <3>2 DEF Versions
  <2> QED BY <2>1 DEF SourceWrites, database, locks, process, history
<1>2. ASSUME NEW l \in Loaders, NEW a \in Arguments, Begin(l, a)
      PROVE  TypeOK'
  <2> DEFINE new == [NoJob EXCEPT !.queue = a.queue, !.dry_run = a.dry_run,
                                  !.fail_fast = a.fail_fast]
  <2>1. new \in Job
    BY ProcessAssumption DEF NoJob, Job
  <2>2. job' = [job EXCEPT ![l] = new] /\ pc' = [pc EXCEPT ![l] = "ready"]
    BY <1>2 DEF Begin
  <2>3. overlap' \subseteq Loaders
    BY <1>2 DEF Begin
  <2> HIDE DEF new
  <2> QED BY <1>2, <2>1, <2>2, <2>3 DEF Begin, PC, database, locks
<1>3. ASSUME NEW l \in Loaders, NEW r \in Runs, StartRun(l, r)
      PROVE  TypeOK'
  <2>1. Entity(l) \in Entities
    BY <1>3, InsideRunEntity DEF StartRun
  <2>2. [status |-> "running", entity |-> Entity(l), result |-> NoRows]
           \in RunRow
    BY <2>1, InitialValues DEF RunRow, Status
  <2>3. job' \in [Loaders -> Job]
    <3>1. [job[l] EXCEPT !.run = r] \in Job
      BY DEF Job
    <3> QED BY <1>3, <3>1 DEF StartRun
  <2> QED BY <1>3, <2>2, <2>3 DEF StartRun, PC, locks, history
<1>4. ASSUME NEW l \in Loaders, ListParents(l)
      PROVE  TypeOK'
  BY <1>4 DEF ListParents, LandedParents, ParentKeys, PC, database, locks,
              history
<1>5. ASSUME NEW l \in Loaders, NEW k \in Keys, CrawlRecord(l, k)
      PROVE  TypeOK'
  <2>1. PICK v \in Served(k) :
           raw' = [raw EXCEPT ![l] = Append(@, [key |-> k, ver |-> v])]
    BY <1>5 DEF CrawlRecord
  <2>2. [key |-> k, ver |-> v] \in Record
    BY <2>1 DEF Served, Record
  <2>3. raw' \in [Loaders -> Seq(Record)]
    BY <2>1, <2>2, AppendProperties
  <2> QED BY <1>5, <2>3 DEF CrawlRecord, database, locks, history
<1>6. ASSUME NEW l \in Loaders, NEW p \in Keys, ChildCrawlFails(l, p)
      PROVE  TypeOK'
  <2>1. job' \in [Loaders -> Job]
    <3>1. [job[l] EXCEPT !.gap = TRUE] \in Job
      BY DEF Job
    <3> QED BY <1>6, <3>1 DEF ChildCrawlFails
  <2> QED BY <1>6, <2>1 DEF ChildCrawlFails, database, locks, history
<1>7. ASSUME NEW l \in Loaders, CrawlFails(l)
      PROVE  TypeOK'
  BY <1>7 DEF CrawlFails, PC, database, locks, history
<1>8. ASSUME NEW l \in Loaders, StatementFails(l)
      PROVE  TypeOK'
  BY <1>8 DEF StatementFails, PC, database, locks, history
<1>9. ASSUME NEW l \in Loaders, Die(l)
      PROVE  TypeOK'
  BY <1>9, UnlockType, InitialValues, EmptySeq
  DEF Die, PC, database, history
<1>10. ASSUME NEW l \in Loaders, GateRefuses(l)
       PROVE  TypeOK'
  <2>1. Refused(job[l].run, raw[l]) \subseteq Reject
    BY <1>10, InsideRunEntity, RejectsType DEF GateRefuses
  <2> QED BY <1>10, <2>1 DEF GateRefuses, PC, database, locks
<1>11. ASSUME NEW l \in Loaders, DryRunEnds(l)
       PROVE  TypeOK'
  <2>1. pc[l] = "crawl" /\ Advance(l, FALSE)
    BY <1>11 DEF DryRunEnds, GatePasses
  <2>2. [NoRows EXCEPT !.read = Cardinality(Landing(raw[l])),
                       !.rejected = Cardinality(Rejected(raw[l]))]
           \in LoadResult
    BY BatchFacts DEF NoRows, LoadResult
  <2>3. ingestion_run' \in [Runs -> RunRow]
    BY <1>11, <2>1, <2>2, InsideRunEntity, FinishType DEF DryRunEnds, Status
  <2> QED BY <1>11, <2>1, <2>3, AdvanceType DEF DryRunEnds, locks, history
<1>12. ASSUME NEW l \in Loaders, BeginBatch(l)
       PROVE  TypeOK'
  <2>1. Refused(job[l].run, raw[l]) \subseteq Reject
    BY <1>12, InsideRunEntity, RejectsType DEF BeginBatch, GatePasses
  <2>2. Landing(raw[l]) \subseteq Nat
    BY BatchFacts
  <2> QED BY <1>12, <2>1, <2>2 DEF BeginBatch, PC, database, locks
<1>13. ASSUME NEW l \in Loaders, UpsertRow(l)
       PROVE  TypeOK'
  <2> DEFINE rec == raw[l][NextRow(l)]
             old == Visible(l, rec.key)
             pending == [tx[l].pending EXCEPT
                            ![rec.key] = IF Distinct(old, rec.ver) THEN rec.ver
                                                                   ELSE @]
             result == Count(tx[l].result, old, rec.ver)
  <2>1. rec.key \in Keys /\ rec.ver \in Versions
    BY <1>13, RowToWrite DEF UpsertRow
  <2>2. tx[l] \in Transaction
    OBVIOUS
  <2>3. pending \in [Keys -> Versions \cup {Absent}]
    <3> HIDE DEF old, rec
    <3> QED BY <2>1, <2>2 DEF Transaction
  <2>4. result \in LoadResult
    BY <2>2, CountType DEF Transaction
  <2>5. tx' = [tx EXCEPT ![l] = [tx[l] EXCEPT !.pending = pending,
                                              !.result = result]]
    BY <1>13 DEF UpsertRow
  <2>6. [tx[l] EXCEPT !.pending = pending, !.result = result] \in Transaction
    <3> HIDE DEF pending, result
    <3> QED BY <2>2, <2>3, <2>4 DEF Transaction
  <2>7. tx' \in [Loaders -> Transaction]
    <3> HIDE DEF pending, result
    <3> QED BY <2>5, <2>6
  <2>8. row_lock' = [row_lock EXCEPT ![rec.key] = l]
        /\ todo' = [todo EXCEPT ![l] = @ \ {NextRow(l)}]
    BY <1>13 DEF UpsertRow
  <2>9. UNCHANGED <<source, database, wm_lock, pc, job, raw, parents, history>>
    BY <1>13 DEF UpsertRow
  <2> HIDE DEF rec, pending, result, old
  <2> QED BY <2>1, <2>7, <2>8, <2>9 DEF database, history
<1>14. ASSUME NEW l \in Loaders, CloseBatch(l)
       PROVE  TypeOK'
  <2> DEFINE e == Entity(l)
             keys == LandingKeys(raw[l])
             read == tx[l].result.read
             mark == [cursor |-> IF keys = {} THEN watermark[e].cursor
                                              ELSE MaxKey(keys),
                      last |-> read, total |-> watermark[e].total + read]
             result == [tx[l].result EXCEPT
                           !.rejected = Cardinality(Rejected(raw[l]))]
  <2>1. pc[l] = "upsert" /\ e \in Entities
    BY <1>14, InsideRunEntity DEF CloseBatch
  <2>2. watermark[e].cursor \in Keys \cup {Absent} /\ watermark[e].total \in Nat
    BY <2>1 DEF Watermark
  <2>3. tx[l] \in Transaction /\ tx[l].result \in LoadResult /\ read \in Nat
    BY DEF Transaction, LoadResult
  <2>4. keys # {} => MaxKey(keys) \in Keys
    BY MaxKeyOfBatch, LandingKeysAreKeys
  <2>5. mark \in Watermark
    <3> HIDE DEF e, keys, read
    <3> QED BY <2>2, <2>3, <2>4 DEF Watermark
  <2>6. result \in LoadResult
    BY <2>3, BatchFacts DEF LoadResult
  <2>7. tx' = [tx EXCEPT ![l] = [tx[l] EXCEPT !.result = result,
                                              !.watermark = mark]]
    BY <1>14 DEF CloseBatch
  <2>8. [tx[l] EXCEPT !.result = result, !.watermark = mark] \in Transaction
    <3> HIDE DEF result, mark
    <3> QED BY <2>3, <2>5, <2>6 DEF Transaction
  <2>9. tx' \in [Loaders -> Transaction]
    <3> HIDE DEF result, mark
    <3> QED BY <2>7, <2>8
  <2>10. wm_lock' = [wm_lock EXCEPT ![e] = l]
         /\ pc' = [pc EXCEPT ![l] = "commit"]
    BY <1>14 DEF CloseBatch
  <2>11. UNCHANGED <<source, database, row_lock, job, raw, parents, todo,
                     history>>
    BY <1>14 DEF CloseBatch
  <2> HIDE DEF e, keys, read, mark, result
  <2> QED BY <2>9, <2>10, <2>11 DEF PC, database, history
<1>15. ASSUME NEW l \in Loaders, Commit(l)
       PROVE  TypeOK'
  <2> DEFINE r == job[l].run
             new == tx[l].pending
  <2>1. pc[l] = "commit" /\ r \in Runs /\ Finish(r, "success", tx[l].result)
    BY <1>15, InsideRunEntity DEF Commit
  <2>2. /\ new \in [Keys -> Versions \cup {Absent}]
        /\ tx[l].result \in LoadResult
        /\ tx[l].watermark \in Watermark
    BY DEF Transaction
  <2>3. ingestion_run' \in [Runs -> RunRow]
    BY <2>1, <2>2, FinishType DEF Status
  <2>4. oltp' \in [Keys -> Versions \cup {Absent}]
    BY <1>15, <2>2 DEF Commit
  <2>5. wal' \in [Keys -> Seq(Event)]
    <3>1. ASSUME NEW k \in Keys, new[k] # Absent
          PROVE  Append(wal[k], [ver |-> new[k], run |-> r]) \in Seq(Event)
      <4>1. [ver |-> new[k], run |-> r] \in Event
        BY <2>1, <2>2, <3>1 DEF Event
      <4> QED BY <4>1, AppendProperties
    <3> QED BY <1>15, <3>1 DEF Commit
  <2>6. Rejects(r, raw[l]) \subseteq Reject
    BY <2>1, RejectsType
  <2>7. watermark' \in [Entities -> Watermark]
    BY <1>15, <2>2 DEF Commit
  <2> QED BY <1>15, <2>1, <2>3, <2>4, <2>5, <2>6, <2>7, UnlockType,
             InitialValues
          DEF Commit, PC
<1>16. ASSUME NEW l \in Loaders, Report(l)
       PROVE  TypeOK'
  BY <1>16, AdvanceType DEF Report, database, locks, history
<1>17. ASSUME NEW l \in Loaders, DeadlockVictim(l)
       PROVE  TypeOK'
  BY <1>17 DEF DeadlockVictim, PC, database, locks, history
<1>18. ASSUME NEW l \in Loaders, Rollback(l)
       PROVE  TypeOK'
  BY <1>18, UnlockType, InitialValues
  DEF Rollback, PC, database, history
<1>19. ASSUME NEW l \in Loaders, MarkFailed(l)
       PROVE  TypeOK'
  <2>1. pc[l] = "rolledback" /\ Advance(l, TRUE)
    BY <1>19 DEF MarkFailed
  <2>2. ingestion_run' \in [Runs -> RunRow]
    <3>1. CASE Finish(job[l].run, "failed", NoRows)
      BY <2>1, <3>1, InsideRunEntity, FinishType, InitialValues DEF Status
    <3>2. CASE UNCHANGED ingestion_run
      BY <3>2
    <3> QED BY <1>19, <3>1, <3>2 DEF MarkFailed
  <2> QED BY <1>19, <2>1, <2>2, AdvanceType DEF MarkFailed, locks, history
<1>20. CASE UNCHANGED vars
  BY <1>20 DEF vars, database, locks, process, history
<1> QED
  BY <1>1, <1>2, <1>3, <1>4, <1>5, <1>6, <1>7, <1>8, <1>9, <1>10, <1>11,
     <1>12, <1>13, <1>14, <1>15, <1>16, <1>17, <1>18, <1>19, <1>20
  DEF Next, Step, Progress
-----------------------------------------------------------------------------
(* A step of one process, seen from the others.                            *)

\* A step of l leaves the variables of every other process as they are.
LEMMA OthersAreLeftAlone ==
    ASSUME TypeOK, NEW l \in Loaders, Step(l), NEW m \in Loaders, m # l
    PROVE  /\ pc'[m] = pc[m]
           /\ job'[m] = job[m]
           /\ raw'[m] = raw[m]
           /\ parents'[m] = parents[m]
           /\ todo'[m] = todo[m]
           /\ tx'[m] = tx[m]
BY DEF TypeOK, Step, Progress, Begin, StartRun, ListParents, CrawlRecord,
       ChildCrawlFails, CrawlFails, StatementFails, Die, GateRefuses,
       DryRunEnds, BeginBatch, UpsertRow, CloseBatch, Commit, Report,
       DeadlockVictim, Rollback, MarkFailed, Advance, process

\* A run row that was opened stays opened, for the same entity.
LEMMA RunsStayOpened ==
    ASSUME TypeOK, ProcessInv, NEW l \in Loaders, Step(l),
           NEW r \in Runs, ingestion_run[r].status # "none"
    PROVE  /\ ingestion_run'[r].status # "none"
           /\ ingestion_run'[r].entity = ingestion_run[r].entity
<1>1. CASE UNCHANGED ingestion_run
  BY <1>1
<1>2. ASSUME NEW q \in Runs, StartRun(l, q)
      PROVE  ingestion_run'[r] = ingestion_run[r]
  BY <1>2 DEF StartRun, TypeOK
<1>3. ASSUME NEW status \in {"success", "failed", "skipped"}, NEW result,
             Finish(job[l].run, status, result)
      PROVE  /\ ingestion_run'[r].status # "none"
             /\ ingestion_run'[r].entity = ingestion_run[r].entity
  BY <1>3 DEF Finish, TypeOK, RunRow
<1> QED
  BY <1>1, <1>2, <1>3
  DEF Step, Progress, Begin, ListParents, CrawlRecord, ChildCrawlFails,
      CrawlFails, StatementFails, Die, GateRefuses, DryRunEnds,
      BeginBatch, UpsertRow, CloseBatch, Commit, Report, DeadlockVictim,
      Rollback, MarkFailed, database
-----------------------------------------------------------------------------
(* ProcessInv.                                                             *)

\* A process that has not begun holds nothing.
LEMMA InitProcess == Init => ProcessInv
<1> SUFFICES ASSUME Init, NEW l \in Loaders PROVE ProcessOK(l)
  BY DEF ProcessInv
<1> QED BY DEF Init, ProcessOK, NoJob

\* A process that returns from run_entity holds nothing of the last entity.
LEMMA AdvanceProcess ==
    ASSUME TypeOK, ProcessInv, NEW l \in Loaders, NEW failed \in BOOLEAN,
           pc[l] # "idle", Advance(l, failed)
    PROVE  ProcessOK(l)'
<1> DEFINE rest == IF failed /\ job[l].fail_fast THEN <<>>
                                                 ELSE Tail(job[l].queue)
<1>1. /\ pc' = [pc EXCEPT ![l] = IF rest = <<>> THEN "idle" ELSE "ready"]
      /\ job' = [job EXCEPT ![l].queue = rest, ![l].run = Null,
                            ![l].gap = FALSE]
      /\ raw' = [raw EXCEPT ![l] = <<>>]
      /\ parents' = [parents EXCEPT ![l] = {}]
      /\ todo' = [todo EXCEPT ![l] = {}]
      /\ tx' = [tx EXCEPT ![l] = NoTransaction]
  BY DEF Advance
<1>2. job'[l].queue = rest
  <2> HIDE DEF rest
  <2> QED BY <1>1 DEF TypeOK, Job
<1>3. pc'[l] = IF rest = <<>> THEN "idle" ELSE "ready"
  <2> HIDE DEF rest
  <2> QED BY <1>1 DEF TypeOK
<1>4. /\ raw'[l] = <<>> /\ parents'[l] = {} /\ todo'[l] = {}
      /\ tx'[l] = NoTransaction
  BY <1>1 DEF TypeOK
<1> HIDE DEF rest
<1> QED BY <1>2, <1>3, <1>4 DEF ProcessOK

\* Every step keeps what the place of a process says about what it holds.
LEMMA ProcessStep ==
    ASSUME TypeOK, ProcessInv, [Next]_vars
    PROVE  ProcessInv'
<1> SUFFICES ASSUME NEW m \in Loaders PROVE ProcessOK(m)'
  BY DEF ProcessInv
<1>1. ProcessOK(m)
  BY DEF ProcessInv
<1>2. CASE \/ \E k \in Keys : SourceWrites(k)
           \/ UNCHANGED vars
  BY <1>1, <1>2
  DEF SourceWrites, vars, database, process, history, ProcessOK, Entity
<1>3. ASSUME NEW l \in Loaders, Step(l), m # l
      PROVE  ProcessOK(m)'
  BY <1>1, <1>3, OthersAreLeftAlone, RunsStayOpened DEF ProcessOK, Entity
<1>4. ASSUME NEW a \in Arguments, Begin(m, a)
      PROVE  ProcessOK(m)'
  <2>1. job'[m].queue # <<>>
    BY <1>4, ProcessAssumption DEF Begin, TypeOK, NoJob
  <2>2. pc[m] = "idle" /\ pc'[m] = "ready"
    BY <1>4 DEF Begin, TypeOK
  <2> QED BY <1>1, <1>4, <2>1, <2>2 DEF Begin, ProcessOK
<1>5. ASSUME NEW r \in Runs, StartRun(m, r)
      PROVE  ProcessOK(m)'
  <2>1. /\ job'[m].run = r
        /\ job'[m].queue = job[m].queue
        /\ ingestion_run'[r].status = "running"
        /\ ingestion_run'[r].entity = Entity(m)
        /\ pc'[m] \in {"parents", "crawl"}
        /\ pc[m] = "ready"
    BY <1>5 DEF StartRun, TypeOK, Job
  <2> QED BY <1>1, <1>5, <2>1 DEF StartRun, ProcessOK, Entity
<1>6. CASE ListParents(m)
  BY <1>1, <1>6 DEF ListParents, ProcessOK, Entity, TypeOK, database
<1>7. ASSUME NEW k \in Keys, CrawlRecord(m, k)
      PROVE  ProcessOK(m)'
  BY <1>1, <1>7 DEF CrawlRecord, ProcessOK, Entity, TypeOK, database
<1>8. ASSUME NEW p \in Keys, ChildCrawlFails(m, p)
      PROVE  ProcessOK(m)'
  <2>1. job'[m].run = job[m].run /\ job'[m].queue = job[m].queue
    BY <1>8 DEF ChildCrawlFails, TypeOK, Job
  <2> QED BY <1>1, <1>8, <2>1
          DEF ChildCrawlFails, ProcessOK, Entity, TypeOK, database
<1>9. CASE \/ CrawlFails(m) \/ StatementFails(m) \/ GateRefuses(m)
           \/ DeadlockVictim(m)
  <2>1. pc[m] \notin {"idle", "ready"}
    <3>1. DeadlockVictim(m) => pc[m] = "upsert"
      BY ProcessAssumption DEF DeadlockVictim, Deadlocked, Blocker
    <3> QED
      BY <1>9, <3>1 DEF CrawlFails, StatementFails, GateRefuses, GatePasses
  <2>2. /\ pc'[m] = "raised"
        /\ UNCHANGED <<job, raw, todo, ingestion_run>>
    BY <1>9 DEF CrawlFails, StatementFails, GateRefuses, DeadlockVictim,
                TypeOK, database
  <2> QED BY <1>1, <2>1, <2>2 DEF ProcessOK, Entity
<1>10. CASE Die(m)
  <2>1. /\ pc'[m] = "idle"
        /\ job'[m] = NoJob
        /\ raw'[m] = <<>> /\ parents'[m] = {} /\ todo'[m] = {}
        /\ tx'[m] = NoTransaction
    BY <1>10 DEF Die, TypeOK
  <2> QED BY <2>1 DEF ProcessOK, NoJob
<1>11. CASE DryRunEnds(m)
  BY <1>11, AdvanceProcess DEF DryRunEnds, GatePasses
<1>12. CASE BeginBatch(m)
  BY <1>1, <1>12
  DEF BeginBatch, GatePasses, ProcessOK, Entity, TypeOK, database
<1>13. CASE UpsertRow(m)
  <2>1. /\ pc[m] = "upsert"
        /\ todo'[m] \subseteq todo[m]
        /\ UNCHANGED <<pc, job, raw, ingestion_run>>
    BY <1>13 DEF UpsertRow, TypeOK, database
  <2> QED BY <1>1, <2>1 DEF ProcessOK, Entity
<1>14. CASE CloseBatch(m)
  <2>1. /\ pc[m] = "upsert" /\ todo[m] = {}
        /\ pc'[m] = "commit"
        /\ UNCHANGED <<job, raw, todo, ingestion_run>>
    BY <1>14 DEF CloseBatch, TypeOK, database
  <2> QED BY <1>1, <2>1 DEF ProcessOK, Entity
<1>15. CASE Commit(m)
  <2>1. /\ pc[m] = "commit"
        /\ pc'[m] = "report"
        /\ tx'[m] = NoTransaction
        /\ UNCHANGED <<job, raw, todo>>
    BY <1>15 DEF Commit, TypeOK
  <2>2. /\ ingestion_run'[job[m].run].status # "none"
        /\ ingestion_run'[job[m].run].entity
               = ingestion_run[job[m].run].entity
    BY <1>15, <2>1, InsideRunEntity, RunsStayOpened DEF Step, Progress
  <2> QED BY <1>1, <2>1, <2>2 DEF ProcessOK, Entity
<1>16. CASE Report(m)
  BY <1>16, AdvanceProcess DEF Report
<1>17. CASE Rollback(m)
  <2>1. /\ pc[m] = "raised"
        /\ pc'[m] = "rolledback"
        /\ tx'[m] = NoTransaction
        /\ UNCHANGED <<job, raw, todo, ingestion_run>>
    BY <1>17 DEF Rollback, TypeOK, database
  <2> QED BY <1>1, <2>1 DEF ProcessOK, Entity
<1>18. CASE MarkFailed(m)
  BY <1>18, AdvanceProcess DEF MarkFailed
<1> QED
  BY <1>2, <1>3, <1>4, <1>5, <1>6, <1>7, <1>8, <1>9, <1>10, <1>11, <1>12,
     <1>13, <1>14, <1>15, <1>16, <1>17, <1>18
  DEF Next, Step, Progress

\* Every variable has its type, whatever processes, crashes and failures
\* there are: no row, run, watermark or lock ever holds a value that its
\* column in 03_meta_control_plane.sql could not.
THEOREM TypeCorrect == Spec => []TypeOK
<1>1. Init => TypeOK /\ ProcessInv
  BY InitType, InitProcess
<1>2. TypeOK /\ ProcessInv /\ [Next]_vars => (TypeOK /\ ProcessInv)'
  BY TypeStep, ProcessStep
<1> QED BY <1>1, <1>2, PTL DEF Spec
=============================================================================
