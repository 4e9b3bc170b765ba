------------------------- MODULE IngestionRunSafety -------------------------
(***************************************************************************)
(* The safety invariants of IngestionRun, for any number of processes,     *)
(* runs, keys, entities and versions, and its first action property.       *)
(*                                                                         *)
(* Only a commit changes the landed rows, the change stream and the        *)
(* watermarks, so each invariant comes down to what a transaction about to *)
(* commit holds. BatchInv says where its rows come from; TransactionInv    *)
(* says that it holds the lock of every row it changed, so that nobody     *)
(* else's commit can have changed that row since the statement saw it.     *)
(*                                                                         *)
(* A process that ran beside nobody since its crawl is the only one that   *)
(* lands anything, so what it crawled is still not older than what is      *)
(* landed (AloneInv).                                                      *)
(***************************************************************************)
EXTENDS IngestionRunTyping

-----------------------------------------------------------------------------
(* What a step can do to the landed rows and to their locks.               *)

\* A crawl without records lands nothing.
LEMMA EmptyBatch ==
    /\ DOMAIN <<>> = {}
    /\ Landing(<<>>) = {}
BY DEF Landing, Mapped

\* Rows, change events and watermarks move in the commit of a batch alone.
LEMMA OnlyCommitLands ==
    ASSUME NEW l \in Loaders, Step(l)
    PROVE  Commit(l) \/ UNCHANGED <<oltp, wal, watermark, committed>>
BY DEF Step, Progress, Begin, StartRun, ListParents, CrawlRecord,
       ChildCrawlFails, CrawlFails, StatementFails, Die, GateRefuses,
       DryRunEnds, BeginBatch, UpsertRow, CloseBatch, Commit, Report,
       DeadlockVictim, Rollback, MarkFailed, database, history

\* A landed row is never taken away.
LEMMA RowsStayLanded ==
    ASSUME [Next]_vars, NEW k \in Keys, oltp[k] # Absent
    PROVE  oltp'[k] # Absent
<1>1. ASSUME NEW l \in Loaders, Commit(l) PROVE oltp'[k] # Absent
  BY <1>1 DEF Commit
<1>2. CASE UNCHANGED oltp
  BY <1>2
<1> QED
  BY <1>1, <1>2, OnlyCommitLands DEF Next, SourceWrites, vars, database

\* Nobody takes the lock of a row from the transaction that holds it.
LEMMA LocksHold ==
    ASSUME TypeOK, ProcessInv, NEW l \in Loaders, Step(l),
           NEW m \in Loaders, m # l, NEW k \in Keys, row_lock[k] = m
    PROVE  row_lock'[k] = m
<1>1. CASE UNCHANGED row_lock
  BY <1>1
<1>2. CASE Unlock(l)
  BY <1>2 DEF Unlock
<1>3. CASE UpsertRow(l)
  <2> DEFINE j == raw[l][NextRow(l)].key
  <2>1. /\ row_lock[j] \in {l, Null}
        /\ row_lock' = [row_lock EXCEPT ![j] = l]
    BY <1>3 DEF UpsertRow, RowFree
  <2>2. j # k
    BY <2>1, ProcessAssumption
  <2> HIDE DEF j
  <2> QED BY <2>1, <2>2 DEF TypeOK
<1> QED
  BY <1>1, <1>2, <1>3
  DEF Step, Progress, Begin, StartRun, ListParents, CrawlRecord,
      ChildCrawlFails, CrawlFails, StatementFails, Die, GateRefuses,
      DryRunEnds, BeginBatch, CloseBatch, Commit, Report,
      DeadlockVictim, Rollback, MarkFailed, locks

\* So the row a transaction holds does not change under it.
LEMMA LockedRowsStandStill ==
    ASSUME TypeOK, ProcessInv, TransactionInv, NEW l \in Loaders, Step(l),
           NEW m \in Loaders, m # l, NEW k \in Keys, row_lock[k] = m
    PROVE  oltp'[k] = oltp[k]
<1>1. CASE Commit(l)
  <2>1. tx[l].pending[k] = Absent
    BY DEF TransactionInv, TransactionOK, PendingOK
  <2> QED BY <1>1, <2>1 DEF Commit, TypeOK
<1> QED BY <1>1, OnlyCommitLands

-----------------------------------------------------------------------------
(* BatchInv.                                                               *)

\* A process that has crawled nothing has nothing foreign in its batch.
LEMMA InitBatch == Init => BatchInv
<1> SUFFICES ASSUME Init, NEW l \in Loaders PROVE BatchOK(l)
  BY DEF BatchInv
<1> QED BY EmptyBatch DEF Init, BatchOK

\* Every step keeps the batch of a process to its entity, to landed parents
\* and, once past the gates, to what they let through.
LEMMA BatchStep ==
    ASSUME TypeOK, ProcessInv, BatchInv, [Next]_vars
    PROVE  BatchInv'
<1> SUFFICES ASSUME NEW m \in Loaders PROVE BatchOK(m)'
  BY DEF BatchInv
<1>1. BatchOK(m) /\ ProcessOK(m)
  BY DEF BatchInv, ProcessInv
<1>2. /\ raw[m] \in Seq(Record)
      /\ parents[m] \subseteq Keys
      /\ \A i \in DOMAIN raw[m] : raw[m][i].key \in Keys
      /\ \A k \in ChildKeys : ParentOf[k] \in Keys
  BY BatchFacts, KeysAssumption DEF TypeOK, ParentKeys
\* A process that starts over.
<1>3. ASSUME raw'[m] = <<>>, parents'[m] = {}, pc'[m] \notin {"upsert", "commit"}
      PROVE  BatchOK(m)'
  BY <1>3, EmptyBatch DEF BatchOK
\* A process that keeps its batch.
<1>4. ASSUME raw'[m] = raw[m], parents'[m] \subseteq parents[m],
             job'[m].queue = job[m].queue,
             \/ pc'[m] \notin {"upsert", "commit"}
             \/ pc[m] \in {"upsert", "commit"}
             \/ ~BlockingFailure(Entity(m), raw[m])
      PROVE  BatchOK(m)'
  <2>1. Entity(m)' = Entity(m)
    BY <1>4 DEF Entity
  <2>2. \A k \in Keys : oltp[k] # Absent => oltp'[k] # Absent
    BY RowsStayLanded
  <2>3. \A p \in parents'[m] : oltp'[p] # Absent
    BY <1>1, <1>2, <1>4, <2>2 DEF BatchOK
  <2>4. ASSUME NEW i \in DOMAIN raw'[m]
        PROVE  /\ EntityOf[raw'[m][i].key] = Entity(m)'
               /\ raw'[m][i].key \in ChildKeys =>
                     oltp'[ParentOf[raw'[m][i].key]] # Absent
    BY <1>1, <1>2, <1>4, <2>1, <2>2 DEF BatchOK
  <2>5. pc'[m] \in {"upsert", "commit"} =>
           ~BlockingFailure(Entity(m), raw[m])'
    <3>1. BlockingFailure(Entity(m), raw[m])'
             <=> BlockingFailure(Entity(m), raw[m])
      BY <1>4, <2>1 DEF BlockingFailure
    <3> QED BY <1>1, <1>4, <3>1 DEF BatchOK
  <2> QED BY <2>3, <2>4, <2>5 DEF BatchOK
<1>5. CASE \/ \E k \in Keys : SourceWrites(k)
           \/ UNCHANGED vars
  BY <1>4, <1>5 DEF SourceWrites, vars, process
<1>6. ASSUME NEW l \in Loaders, Step(l), m # l
      PROVE  BatchOK(m)'
  BY <1>4, <1>6, OthersAreLeftAlone
<1>7. ASSUME NEW a \in Arguments, Begin(m, a)
      PROVE  BatchOK(m)'
  BY <1>1, <1>3, <1>7 DEF Begin, ProcessOK, TypeOK
<1>8. ASSUME NEW r \in Runs, StartRun(m, r)
      PROVE  BatchOK(m)'
  BY <1>1, <1>3, <1>8 DEF StartRun, ProcessOK, TypeOK
<1>9. CASE ListParents(m)
  <2>1. PICK P \in SUBSET LandedParents : parents' = [parents EXCEPT ![m] = P]
    BY <1>9 DEF ListParents
  <2>2. \A p \in parents'[m] : oltp[p] # Absent
    BY <2>1 DEF TypeOK, LandedParents
  <2>3. raw'[m] = <<>> /\ pc'[m] = "crawl" /\ oltp' = oltp
    BY <1>1, <1>9 DEF ListParents, ProcessOK, TypeOK, database
  <2> QED BY <2>2, <2>3, EmptyBatch DEF BatchOK
<1>10. ASSUME NEW k \in Keys, CrawlRecord(m, k)
       PROVE  BatchOK(m)'
  <2>1. PICK v \in Served(k) :
           raw' = [raw EXCEPT ![m] = Append(@, [key |-> k, ver |-> v])]
    BY <1>10 DEF CrawlRecord
  <2> DEFINE rec == [key |-> k, ver |-> v]
  <2>2. rec \in Record
    BY <2>1 DEF Served, TypeOK, Record
  <2>3. raw'[m] = Append(raw[m], rec)
    BY <2>1 DEF TypeOK
  <2>4. /\ pc'[m] = "crawl" /\ Entity(m)' = Entity(m)
        /\ parents' = parents /\ oltp' = oltp
        /\ EntityOf[k] = Entity(m)
        /\ Entity(m) \in ParentDriven => ParentOf[k] \in parents[m]
    BY <1>10 DEF CrawlRecord, Entity, database
  <2>5. ASSUME NEW i \in DOMAIN raw'[m]
        PROVE  raw'[m][i] = rec \/ (i \in DOMAIN raw[m]
                                    /\ raw'[m][i] = raw[m][i])
    BY <1>2, <2>2, <2>3, <2>5, AppendedRecord
  <2>6. k \in ChildKeys => oltp[ParentOf[k]] # Absent
    BY <1>1, <2>4 DEF BatchOK, ChildKeys
  <2> QED BY <1>1, <2>4, <2>5, <2>6 DEF BatchOK
<1>11. ASSUME NEW p \in Keys, ChildCrawlFails(m, p)
       PROVE  BatchOK(m)'
  <2>1. job'[m].queue = job[m].queue
    BY <1>11 DEF ChildCrawlFails, TypeOK, Job
  <2> QED BY <1>4, <1>11, <2>1 DEF ChildCrawlFails, TypeOK
<1>12. CASE \/ CrawlFails(m) \/ StatementFails(m) \/ GateRefuses(m)
            \/ DeadlockVictim(m) \/ Rollback(m)
  BY <1>4, <1>12 DEF CrawlFails, StatementFails, GateRefuses,
                     DeadlockVictim, Rollback, TypeOK
<1>13. CASE Die(m)
  BY <1>3, <1>13 DEF Die, TypeOK
<1>14. CASE BeginBatch(m)
  BY <1>4, <1>14 DEF BeginBatch, GatePasses
<1>15. CASE UpsertRow(m)
  BY <1>4, <1>15 DEF UpsertRow
<1>16. CASE CloseBatch(m)
  BY <1>4, <1>16 DEF CloseBatch
<1>17. CASE Commit(m)
  BY <1>4, <1>17 DEF Commit, TypeOK
<1>18. ASSUME NEW failed \in BOOLEAN, Advance(m, failed)
       PROVE  BatchOK(m)'
  BY <1>3, <1>18 DEF Advance, TypeOK
<1>19. CASE \/ DryRunEnds(m) \/ Report(m) \/ MarkFailed(m)
  BY <1>18, <1>19 DEF DryRunEnds, Report, MarkFailed
<1> QED
  BY <1>5, <1>6, <1>7, <1>8, <1>9, <1>10, <1>11, <1>12, <1>13, <1>14, <1>15,
     <1>16, <1>17, <1>19
  DEF Next, Step, Progress
-----------------------------------------------------------------------------
(* TransactionInv.                                                         *)

\* A transaction that has not begun has written no row.
LEMMA NothingPending ==
    \A k \in Keys : NoTransaction.pending[k] = Absent
BY DEF NoTransaction

\* Two rows of a batch have different keys.
LEMMA BatchKeysDiffer ==
    ASSUME NEW s \in Seq(Record), NEW i \in Landing(s), NEW j \in Landing(s),
           s[i].key = s[j].key
    PROVE  i = j
<1>1. i \in Nat /\ j \in Nat /\ i \in Mapped(s) /\ j \in Mapped(s)
  BY BatchFacts
<1>2. ~ (j > i) /\ ~ (i > j)
  BY <1>1 DEF Landing
<1> QED BY <1>1, <1>2

\* There is no transaction at the start.
LEMMA InitTransaction == Init => TransactionInv
<1> SUFFICES ASSUME Init, NEW l \in Loaders PROVE TransactionOK(l)
  BY DEF TransactionInv
<1> QED BY NothingPending DEF Init, TransactionOK

\* A transaction that has written nothing yet, or is over.
LEMMA NewTransaction ==
    ASSUME TypeOK', ProcessInv', NEW m \in Loaders, tx'[m] = NoTransaction,
           pc'[m] # "commit",
           pc'[m] = "upsert" => todo'[m] = Landing(raw'[m])
    PROVE  TransactionOK(m)'
<1>1. \A i \in todo'[m] : raw'[m][i].key \in Keys
  BY BatchFacts DEF TypeOK, ProcessInv, ProcessOK
<1> QED BY <1>1, NothingPending DEF TransactionOK

\* What a statement does: it goes over the next row of the batch, which the
\* transaction has not touched, takes its lock, and writes it if it differs.
LEMMA UpsertWrites ==
    ASSUME TypeOK, ProcessInv, TransactionInv, NEW m \in Loaders, UpsertRow(m),
           NEW n, n = NextRow(m), NEW key, key = raw[m][n].key,
           NEW ver, ver = raw[m][n].ver
    PROVE  /\ n \in todo[m] /\ n \in Landing(raw[m])
           /\ key \in Keys /\ ver \in Versions /\ ver # Absent
           /\ row_lock' = [row_lock EXCEPT ![key] = m]
           /\ todo'[m] = todo[m] \ {n}
           /\ UNCHANGED <<source, database, wm_lock, raw, pc, job>>
           /\ tx[m].pending[key] = Absent
           /\ tx'[m].pending[key] = IF oltp[key] # ver THEN ver ELSE Absent
           /\ \A k \in Keys : k # key => tx'[m].pending[k] = tx[m].pending[k]
           /\ tx'[m].result = Count(tx[m].result, oltp[key], ver)
<1> DEFINE old == Visible(m, key)
<1>1. TransactionOK(m) /\ ProcessOK(m) /\ todo[m] # {}
  BY DEF TransactionInv, ProcessInv, UpsertRow
<1>2. /\ n \in todo[m] /\ n \in Landing(raw[m])
      /\ key \in Keys /\ ver \in Versions
  BY <1>1, RowToWrite
<1>3. /\ row_lock' = [row_lock EXCEPT ![key] = m]
      /\ todo'[m] = todo[m] \ {n}
      /\ UNCHANGED <<source, database, wm_lock, raw, pc, job>>
  BY DEF UpsertRow, TypeOK
<1>4. tx[m].pending[key] = Absent
  BY <1>1, <1>2 DEF TransactionOK
<1>5. old = oltp[key]
  BY <1>4 DEF Visible
<1>6. ver # Absent
  BY <1>2 DEF Versions, Absent
<1> HIDE DEF old
<1>7. tx' = [tx EXCEPT
              ![m].pending[key] = IF Distinct(old, ver) THEN ver ELSE @,
              ![m].result = Count(@, old, ver)]
  BY DEF UpsertRow, old
<1>8. /\ tx'[m].pending = [tx[m].pending EXCEPT
                             ![key] = IF Distinct(old, ver) THEN ver ELSE @]
      /\ tx'[m].result = Count(tx[m].result, old, ver)
  BY <1>7 DEF TypeOK, Transaction
<1>9. tx[m].pending \in [Keys -> Versions \cup {Absent}]
  BY DEF TypeOK, Transaction
<1>10. tx'[m].pending[key] = IF oltp[key] # ver THEN ver ELSE Absent
  BY <1>2, <1>4, <1>5, <1>8, <1>9 DEF Distinct
<1>11. \A k \in Keys : k # key => tx'[m].pending[k] = tx[m].pending[k]
  BY <1>2, <1>8, <1>9
<1> QED BY <1>2, <1>3, <1>4, <1>5, <1>6, <1>8, <1>10, <1>11

\* What the next statement of a transaction leaves of it.
LEMMA UpsertTransaction ==
    ASSUME TypeOK, ProcessInv, TransactionInv, NEW m \in Loaders, UpsertRow(m)
    PROVE  TransactionOK(m)'
<1> DEFINE n == NextRow(m)
           key == raw[m][n].key
           ver == raw[m][n].ver
<1>1. TransactionOK(m) /\ ProcessOK(m) /\ raw[m] \in Seq(Record)
  BY DEF TransactionInv, ProcessInv, TypeOK
<1>2. pc[m] = "upsert"
  BY DEF UpsertRow
<1>3. /\ n \in todo[m] /\ n \in Landing(raw[m])
      /\ key \in Keys /\ ver # Absent
      /\ row_lock' = [row_lock EXCEPT ![key] = m]
      /\ todo'[m] = todo[m] \ {n}
      /\ UNCHANGED <<oltp, raw, pc, job>>
      /\ tx'[m].pending[key] = IF oltp[key] # ver THEN ver ELSE Absent
      /\ \A k \in Keys : k # key => tx'[m].pending[k] = tx[m].pending[k]
  BY UpsertWrites DEF database
<1>4. \A i \in Landing(raw[m]) :
         /\ raw[m][i].key \in Keys
         /\ raw[m][i].key = key => i = n
  BY <1>1, <1>3, BatchFacts, BatchKeysDiffer
<1>5. ASSUME NEW k \in Keys, tx'[m].pending[k] # Absent
      PROVE  PendingOK(m, k)'
  <2>1. CASE k = key
    <3>1. tx'[m].pending[k] = ver /\ oltp[k] # ver
      BY <1>3, <1>5, <2>1
    <3>2. row_lock'[k] = m
      BY <1>3, <2>1 DEF TypeOK
    <3> QED BY <1>3, <2>1, <3>1, <3>2 DEF PendingOK
  <2>2. CASE k # key
    <3>1. PendingOK(m, k)
      BY <1>1, <1>3, <1>5, <2>2 DEF TransactionOK
    <3>2. row_lock'[k] = row_lock[k]
      <4> HIDE DEF key
      <4> QED BY <1>3, <2>2 DEF TypeOK
    <3> QED BY <1>3, <2>2, <3>1, <3>2 DEF PendingOK
  <2> QED BY <2>1, <2>2
<1>6. ASSUME NEW i \in todo'[m]
      PROVE  tx'[m].pending[raw'[m][i].key] = Absent
  <2>1. i \in todo[m] /\ i # n /\ i \in Landing(raw[m])
    BY <1>1, <1>3 DEF ProcessOK
  <2>2. raw[m][i].key \in Keys /\ raw[m][i].key # key
    BY <1>4, <2>1
  <2>3. tx[m].pending[raw[m][i].key] = Absent
    BY <1>1, <2>1 DEF TransactionOK
  <2> QED BY <1>3, <2>2, <2>3
<1>7. ASSUME NEW i \in Landing(raw'[m]) \ todo'[m]
      PROVE  (Visible(m, raw[m][i].key) # Absent)'
  <2>1. i \in Landing(raw[m]) /\ (i = n \/ i \notin todo[m])
    BY <1>3
  <2>2. CASE i = n
    BY <1>3, <2>2 DEF Visible
  <2>3. CASE i # n
    <3>1. Visible(m, raw[m][i].key) # Absent
      BY <1>1, <1>2, <2>1, <2>3 DEF TransactionOK
    <3>2. raw[m][i].key \in Keys /\ raw[m][i].key # key
      BY <1>4, <2>1, <2>3
    <3>3. tx'[m].pending[raw[m][i].key] = tx[m].pending[raw[m][i].key]
      BY <1>3, <3>2
    <3> QED BY <1>3, <3>1, <3>3 DEF Visible
  <2> QED BY <2>2, <2>3
<1>8. pc'[m] # "commit"
  BY <1>2, <1>3
<1> QED BY <1>5, <1>6, <1>7, <1>8 DEF TransactionOK

\* update_watermark leaves what the transaction wrote, and takes its cursor
\* from the batch or from the watermark before it.
LEMMA CloseTransaction ==
    ASSUME TypeOK, ProcessInv, TransactionInv, WatermarkIsBacked,
           NEW m \in Loaders, CloseBatch(m)
    PROVE  TransactionOK(m)'
<1> DEFINE c == IF LandingKeys(raw[m]) = {} THEN watermark[Entity(m)].cursor
                                            ELSE MaxKey(LandingKeys(raw[m]))
<1>1. TransactionOK(m) /\ raw[m] \in Seq(Record)
  BY DEF TransactionInv, TypeOK
<1>2. /\ pc[m] = "upsert" /\ pc'[m] = "commit"
      /\ UNCHANGED <<oltp, raw, job, todo, row_lock>>
  BY DEF CloseBatch, TypeOK, database
<1>3. tx'[m].pending = tx[m].pending /\ tx'[m].watermark.cursor = c
  BY DEF CloseBatch, TypeOK, Transaction
<1>4. Entity(m) \in Entities
  BY <1>2, InsideRunEntity
<1>5. CursorOK(m, c)
  <2>1. CASE LandingKeys(raw[m]) # {}
    BY <1>1, <2>1, MaxKeyOfBatch DEF CursorOK
  <2>2. CASE LandingKeys(raw[m]) = {}
    <3>1. c = watermark[Entity(m)].cursor /\ c \in Keys \cup {Absent}
      BY <1>4, <2>2 DEF TypeOK, Watermark
    <3> QED BY <1>4, <3>1 DEF CursorOK, WatermarkIsBacked
  <2> QED BY <2>1, <2>2
<1>6. CursorOK(m, tx[m].watermark.cursor)'
  <2>1. LandingKeys(raw[m])' = LandingKeys(raw[m]) /\ Entity(m)' = Entity(m)
    BY <1>2 DEF LandingKeys, Entity
  <2> HIDE DEF c
  <2> QED BY <1>2, <1>3, <1>5, <2>1 DEF CursorOK
<1>7. \A k \in Keys : tx'[m].pending[k] # Absent => PendingOK(m, k)'
  BY <1>1, <1>2, <1>3 DEF TransactionOK, PendingOK
<1>8. \A i \in todo'[m] : tx'[m].pending[raw'[m][i].key] = Absent
  BY <1>1, <1>2, <1>3 DEF TransactionOK
<1>9. \A i \in Landing(raw[m]) \ todo[m] :
         Visible(m, raw[m][i].key) # Absent
  BY <1>1, <1>2 DEF TransactionOK
<1>10. (\A i \in Landing(raw[m]) \ todo[m] :
            Visible(m, raw[m][i].key) # Absent)'
  BY <1>2, <1>3, <1>9 DEF Visible
<1> QED BY <1>6, <1>7, <1>8, <1>10 DEF TransactionOK

\* Every step keeps what a transaction has written consistent with the rows
\* and locks it found.
LEMMA TransactionStep ==
    ASSUME TypeOK, ProcessInv, BatchInv, TransactionInv, WatermarkIsBacked,
           [Next]_vars
    PROVE  TransactionInv'
<1> SUFFICES ASSUME NEW m \in Loaders PROVE TransactionOK(m)'
  BY DEF TransactionInv
<1>1. TransactionOK(m) /\ ProcessOK(m) /\ raw[m] \in Seq(Record)
  BY DEF TransactionInv, ProcessInv, TypeOK
<1>2. TypeOK' /\ ProcessInv'
  BY TypeStep, ProcessStep
<1>3. \A i \in Landing(raw[m]) : raw[m][i].key \in Keys
  BY <1>1, BatchFacts
\* A process that keeps its transaction, its locks and the rows under them.
<1>4. ASSUME raw'[m] = raw[m], tx'[m] = tx[m], todo'[m] = todo[m],
             job'[m].queue = job[m].queue,
             pc'[m] = pc[m] \/ pc'[m] = "raised",
             \A k \in Keys : row_lock[k] = m =>
                                row_lock'[k] = m /\ oltp'[k] = oltp[k]
      PROVE  TransactionOK(m)'
  <2>1. \A k \in Keys : oltp[k] # Absent => oltp'[k] # Absent
    BY RowsStayLanded
  <2>2. \A k \in Keys : tx'[m].pending[k] # Absent => PendingOK(m, k)'
    BY <1>1, <1>4 DEF TransactionOK, PendingOK
  <2>3. \A i \in todo'[m] : tx'[m].pending[raw'[m][i].key] = Absent
    BY <1>1, <1>4 DEF TransactionOK
  <2>4. pc'[m] \in {"upsert", "commit"} =>
          (\A i \in Landing(raw[m]) \ todo[m] :
              Visible(m, raw[m][i].key) # Absent)'
    BY <1>1, <1>3, <1>4, <2>1 DEF TransactionOK, Visible
  <2>5. pc'[m] = "commit" => CursorOK(m, tx[m].watermark.cursor)'
    <3>1. LandingKeys(raw[m])' = LandingKeys(raw[m]) /\ Entity(m)' = Entity(m)
      BY <1>4 DEF LandingKeys, Entity
    <3> QED BY <1>1, <1>4, <2>1, <3>1 DEF TransactionOK, CursorOK
  <2> QED BY <2>2, <2>3, <2>4, <2>5 DEF TransactionOK
<1>5. CASE \/ \E k \in Keys : SourceWrites(k)
           \/ UNCHANGED vars
  BY <1>4, <1>5 DEF SourceWrites, vars, database, locks, process
<1>6. ASSUME NEW l \in Loaders, Step(l), m # l
      PROVE  TransactionOK(m)'
  BY <1>4, <1>6, OthersAreLeftAlone, LocksHold, LockedRowsStandStill
<1>7. CASE \/ CrawlFails(m) \/ StatementFails(m) \/ GateRefuses(m)
           \/ DeadlockVictim(m)
  BY <1>4, <1>7 DEF CrawlFails, StatementFails, GateRefuses,
                    DeadlockVictim, TypeOK, database, locks
<1>8. CASE \/ \E a \in Arguments : Begin(m, a)
           \/ \E r \in Runs : StartRun(m, r)
           \/ ListParents(m)
           \/ \E k \in Keys : CrawlRecord(m, k)
           \/ \E p \in Keys : ChildCrawlFails(m, p)
  <2>1. tx'[m] = NoTransaction /\ pc'[m] \in {"ready", "parents", "crawl"}
    BY <1>1, <1>8 DEF Begin, StartRun, ListParents, CrawlRecord,
                      ChildCrawlFails, ProcessOK, TypeOK
  <2> QED BY <1>2, <2>1, NewTransaction
<1>9. CASE BeginBatch(m)
  <2>1. /\ tx'[m] = NoTransaction /\ pc'[m] = "upsert"
        /\ todo'[m] = Landing(raw'[m])
    BY <1>1, <1>9 DEF BeginBatch, GatePasses, ProcessOK, TypeOK
  <2> QED BY <1>2, <2>1, NewTransaction
<1>10. CASE UpsertRow(m)
  BY <1>10, UpsertTransaction
<1>11. CASE CloseBatch(m)
  BY <1>11, CloseTransaction
<1>12. CASE \/ Commit(m) \/ Rollback(m) \/ Die(m)
            \/ DryRunEnds(m) \/ Report(m) \/ MarkFailed(m)
  <2>1. tx'[m] = NoTransaction /\ pc'[m] \notin {"upsert", "commit"}
    BY <1>12 DEF Commit, Rollback, Die, DryRunEnds, Report, MarkFailed,
                 Advance, TypeOK
  <2> QED BY <1>2, <2>1, NewTransaction
<1> QED
  BY <1>5, <1>6, <1>7, <1>8, <1>9, <1>10, <1>11, <1>12
  DEF Next, Step, Progress

-----------------------------------------------------------------------------
(* What a commit lands.                                                    *)

\* A row about to land is of the loaded entity, under a landed parent, past
\* the gates, and really new.
LEMMA CommitLands ==
    ASSUME TypeOK, BatchInv, TransactionInv,
           NEW l \in Loaders, Commit(l),
           NEW k \in Keys, tx[l].pending[k] # Absent
    PROVE  /\ tx[l].pending[k] \in Versions
           /\ tx[l].pending[k] \notin Malformed \cup Blocking
           /\ tx[l].pending[k] # oltp[k]
           /\ k \in ChildKeys => oltp[ParentOf[k]] # Absent
<1>1. BatchOK(l) /\ TransactionOK(l) /\ raw[l] \in Seq(Record)
  BY DEF BatchInv, TransactionInv, TypeOK
<1>2. tx[l].pending[k] # oltp[k]
  BY <1>1 DEF TransactionOK, PendingOK
<1>3. PICK i \in Landing(raw[l]) :
         raw[l][i].key = k /\ raw[l][i].ver = tx[l].pending[k]
  BY <1>1 DEF TransactionOK, PendingOK
<1>4. i \in DOMAIN raw[l] /\ i \in Mapped(raw[l])
  BY <1>1, BatchFacts
<1>5. tx[l].pending[k] \in Versions
  BY <1>1, <1>3, <1>4, BatchFacts
<1>6. tx[l].pending[k] \notin Malformed
  BY <1>3, <1>4 DEF Mapped
<1>7. tx[l].pending[k] \notin Blocking
  BY <1>1, <1>3 DEF BatchOK, BlockingFailure, Commit
<1>8. k \in ChildKeys => oltp[ParentOf[k]] # Absent
  BY <1>1, <1>3, <1>4 DEF BatchOK
<1> QED BY <1>2, <1>5, <1>6, <1>7, <1>8

-----------------------------------------------------------------------------
(* The invariants.                                                         *)

\* A run that committed has a run row ever after.
LEMMA CommittedStep ==
    ASSUME TypeOK, ProcessInv, CommittedInv, [Next]_vars
    PROVE  CommittedInv'
<1> SUFFICES ASSUME NEW r \in committed' PROVE ingestion_run'[r].status # "none"
  BY DEF CommittedInv
<1>1. CASE \/ \E k \in Keys : SourceWrites(k)
           \/ UNCHANGED vars
  BY <1>1 DEF SourceWrites, vars, database, history, CommittedInv
<1>2. ASSUME NEW l \in Loaders, Step(l)
      PROVE  ingestion_run'[r].status # "none"
  <2>1. CASE r \in committed
    <3>1. r \in Runs /\ ingestion_run[r].status # "none"
      BY <2>1 DEF TypeOK, CommittedInv
    <3> QED BY <1>2, <3>1, RunsStayOpened
  <2>2. CASE r \notin committed
    <3>1. Commit(l) /\ r = job[l].run
      BY <1>2, <2>2, OnlyCommitLands DEF Commit
    <3>2. r \in Runs /\ ingestion_run[r].status # "none"
      BY <3>1, InsideRunEntity DEF Commit
    <3> QED BY <1>2, <3>2, RunsStayOpened
  <2> QED BY <2>1, <2>2
<1> QED BY <1>1, <1>2 DEF Next

\* Every step keeps the change stream and the table in agreement.
LEMMA StreamStep ==
    ASSUME TypeOK, BatchInv, TransactionInv, StreamMirrorsTable, [Next]_vars
    PROVE  StreamMirrorsTable'
<1>1. CASE UNCHANGED <<oltp, wal>>
  BY <1>1 DEF StreamMirrorsTable
<1>2. ASSUME NEW l \in Loaders, Commit(l)
      PROVE  StreamMirrorsTable'
  <2> SUFFICES ASSUME NEW k \in Keys
               PROVE  /\ oltp'[k] = IF wal'[k] = <<>> THEN Absent
                                    ELSE wal'[k][Len(wal'[k])].ver
                      /\ \A i \in 2..Len(wal'[k]) :
                            wal'[k][i].ver # wal'[k][i-1].ver
    BY DEF StreamMirrorsTable
  <2> DEFINE v == tx[l].pending[k]
             s == wal[k]
             e == [ver |-> v, run |-> job[l].run]
  <2>1. /\ s \in Seq(Event)
        /\ oltp[k] = IF s = <<>> THEN Absent ELSE s[Len(s)].ver
        /\ \A i \in 2..Len(s) : s[i].ver # s[i-1].ver
    BY DEF TypeOK, StreamMirrorsTable
  <2>2. CASE v = Absent
    BY <1>2, <2>1, <2>2 DEF Commit
  <2>3. CASE v # Absent
    <3>1. oltp'[k] = v /\ wal'[k] = Append(s, e)
      BY <1>2, <2>3 DEF Commit
    <3>2. v # oltp[k] /\ e.ver = v
      BY <1>2, <2>3, CommitLands
    <3> DEFINE t == Append(s, e)
               S == Event \cup {e}
    <3>3. s \in Seq(S) /\ e \in S
      BY <2>1, SeqMonotonic
    <3>4. Len(s) \in Nat
      BY <2>1, LenProperties
    <3>5. /\ t \in Seq(S)
          /\ Len(t) = Len(s) + 1
          /\ t[Len(s) + 1] = e
          /\ \A i \in 1..Len(s) : t[i] = s[i]
      <4> HIDE DEF e, s, S
      <4> QED BY <3>3, <3>4, AppendProperties
    <3> HIDE DEF s, e, t, v
    <3>6. t # <<>> /\ t[Len(t)].ver = v
      BY <3>2, <3>4, <3>5, EmptySeq
    <3>7. ASSUME NEW i \in 2..Len(t) PROVE t[i].ver # t[i-1].ver
      <4>1. CASE i = Len(s) + 1
        <5>1. Len(s) \in 1..Len(s) /\ i - 1 = Len(s)
          BY <3>4, <3>5, <3>7, <4>1
        <5>2. t[i] = e /\ t[i-1] = s[Len(s)]
          BY <3>5, <4>1, <5>1
        <5>3. s # <<>>
          BY <5>1, EmptySeq
        <5> QED BY <2>1, <3>2, <5>2, <5>3
      <4>2. CASE i # Len(s) + 1
        <5>1. i \in 2..Len(s) /\ i \in 1..Len(s) /\ i - 1 \in 1..Len(s)
          BY <3>4, <3>5, <3>7, <4>2
        <5> QED BY <2>1, <3>5, <5>1
      <4> QED BY <4>1, <4>2
    <3> QED BY <3>1, <3>6, <3>7 DEF t
  <2> QED BY <2>2, <2>3
<1> QED
  BY <1>1, <1>2, OnlyCommitLands DEF Next, SourceWrites, vars, database

\* Every step keeps the watermark backed by landed rows and committed runs.
LEMMA WatermarkStep ==
    ASSUME TypeOK, ProcessInv, BatchInv, TransactionInv, CommittedInv,
           WatermarkIsBacked, [Next]_vars
    PROVE  WatermarkIsBacked'
<1> SUFFICES ASSUME NEW e \in Entities
             PROVE  /\ watermark'[e].cursor # Absent =>
                          /\ EntityOf[watermark'[e].cursor] = e
                          /\ oltp'[watermark'[e].cursor] # Absent
                    /\ watermark'[e].total > 0 =>
                          \E r \in committed' : ingestion_run'[r].entity = e
  BY DEF WatermarkIsBacked
<1>1. /\ watermark[e].cursor \in Keys \cup {Absent}
      /\ watermark[e].cursor # Absent =>
            /\ EntityOf[watermark[e].cursor] = e
            /\ oltp[watermark[e].cursor] # Absent
      /\ watermark[e].total > 0 =>
            \E r \in committed : ingestion_run[r].entity = e
  BY DEF WatermarkIsBacked, TypeOK, Watermark
<1>2. \A k \in Keys : oltp[k] # Absent => oltp'[k] # Absent
  BY RowsStayLanded
<1>3. CASE \/ \E k \in Keys : SourceWrites(k)
           \/ UNCHANGED vars
  BY <1>1, <1>3 DEF SourceWrites, vars, database, history
<1>4. ASSUME NEW l \in Loaders, Step(l), watermark'[e] = watermark[e],
             committed \subseteq committed'
      PROVE  /\ watermark'[e].cursor # Absent =>
                   /\ EntityOf[watermark'[e].cursor] = e
                   /\ oltp'[watermark'[e].cursor] # Absent
             /\ watermark'[e].total > 0 =>
                   \E r \in committed' : ingestion_run'[r].entity = e
  <2>1. \A r \in committed : ingestion_run'[r].entity = ingestion_run[r].entity
    BY <1>4, RunsStayOpened DEF CommittedInv, TypeOK
  <2> QED BY <1>1, <1>2, <1>4, <2>1
<1>5. ASSUME NEW l \in Loaders, Step(l), Commit(l), Entity(l) = e
      PROVE  /\ watermark'[e].cursor # Absent =>
                   /\ EntityOf[watermark'[e].cursor] = e
                   /\ oltp'[watermark'[e].cursor] # Absent
             /\ \E r \in committed' : ingestion_run'[r].entity = e
  <2> DEFINE c == tx[l].watermark.cursor
  <2>1. /\ BatchOK(l) /\ TransactionOK(l) /\ ProcessOK(l)
        /\ raw[l] \in Seq(Record) /\ pc[l] = "commit"
    BY <1>5 DEF BatchInv, TransactionInv, ProcessInv, TypeOK, Commit
  <2>2. watermark'[e].cursor = c
    BY <1>5 DEF Commit, TypeOK
  <2>3. ASSUME c \in LandingKeys(raw[l])
        PROVE  EntityOf[c] = e /\ oltp'[c] # Absent
    <3>1. PICK i \in Landing(raw[l]) : c = raw[l][i].key
      BY <2>3 DEF LandingKeys
    <3>2. i \in DOMAIN raw[l] /\ c \in Keys
      BY <2>1, <3>1, BatchFacts
    <3>3. EntityOf[c] = e
      BY <1>5, <2>1, <3>1, <3>2 DEF BatchOK
    <3>4. Visible(l, c) # Absent
      <4>1. todo[l] = {}
        BY <2>1 DEF ProcessOK
      <4> QED BY <2>1, <3>1, <4>1 DEF TransactionOK
    <3>5. oltp'[c] # Absent
      BY <1>5, <3>2, <3>4 DEF Commit, Visible
    <3> QED BY <3>3, <3>5
  <2>4. ASSUME c \in Keys, EntityOf[c] = Entity(l), oltp[c] # Absent
        PROVE  EntityOf[c] = e /\ oltp'[c] # Absent
    BY <1>2, <1>5, <2>4
  <2>5. \/ c = Absent
        \/ c \in LandingKeys(raw[l])
        \/ c \in Keys /\ EntityOf[c] = Entity(l) /\ oltp[c] # Absent
    BY <2>1 DEF TransactionOK, CursorOK
  <2>6. job[l].run \in committed'
    BY <1>5 DEF Commit
  <2>7. ingestion_run'[job[l].run].entity = e
    BY <1>5, <2>1, RunsStayOpened DEF ProcessOK
  <2>8. c # Absent => EntityOf[c] = e /\ oltp'[c] # Absent
    <3> HIDE DEF c
    <3> QED BY <2>3, <2>4, <2>5
  <2> HIDE DEF c
  <2> QED BY <2>2, <2>6, <2>7, <2>8
<1>6. ASSUME NEW l \in Loaders, Step(l)
      PROVE  \/ watermark'[e] = watermark[e] /\ committed \subseteq committed'
             \/ Commit(l) /\ Entity(l) = e
  <2>1. CASE Commit(l) /\ Entity(l) # e
    BY <2>1 DEF Commit, TypeOK
  <2> QED BY <1>6, <2>1, OnlyCommitLands
<1> QED BY <1>3, <1>4, <1>5, <1>6 DEF Next

\* Every step keeps children under parents.
LEMMA ChildrenStep ==
    ASSUME TypeOK, BatchInv, TransactionInv, ChildrenHaveParents, [Next]_vars
    PROVE  ChildrenHaveParents'
<1> SUFFICES ASSUME NEW k \in ChildKeys, oltp'[k] # Absent
             PROVE  oltp'[ParentOf[k]] # Absent
  BY DEF ChildrenHaveParents
<1>1. k \in Keys /\ ParentOf[k] \in Keys
  BY KeysAssumption DEF ChildKeys, ParentKeys
<1>2. oltp[k] # Absent => oltp[ParentOf[k]] # Absent
  BY DEF ChildrenHaveParents
<1>3. oltp[ParentOf[k]] # Absent => oltp'[ParentOf[k]] # Absent
  BY <1>1, RowsStayLanded
<1>4. ASSUME NEW l \in Loaders, Commit(l), oltp[k] = Absent
      PROVE  oltp[ParentOf[k]] # Absent
  <2>1. tx[l].pending[k] # Absent
    BY <1>1, <1>4 DEF Commit
  <2> QED BY <1>1, <1>4, <2>1, CommitLands
<1> QED
  BY <1>2, <1>3, <1>4, OnlyCommitLands DEF Next, SourceWrites, vars, database

\* Every step keeps refused versions out of the change stream.
LEMMA GatesStep ==
    ASSUME TypeOK, BatchInv, TransactionInv, GatesFailClosed, [Next]_vars
    PROVE  GatesFailClosed'
<1>1. CASE UNCHANGED wal
  BY <1>1 DEF GatesFailClosed
<1>2. ASSUME NEW l \in Loaders, Commit(l)
      PROVE  GatesFailClosed'
  <2> SUFFICES ASSUME NEW k \in Keys, NEW i \in 1..Len(wal'[k])
               PROVE  wal'[k][i].ver \notin Malformed \cup Blocking
    BY DEF GatesFailClosed
  <2> DEFINE v == tx[l].pending[k]
             s == wal[k]
             e == [ver |-> v, run |-> job[l].run]
             S == Event \cup {e}
  <2>1. /\ s \in Seq(Event)
        /\ \A j \in 1..Len(s) : s[j].ver \notin Malformed \cup Blocking
    BY DEF TypeOK, GatesFailClosed
  <2>2. CASE v = Absent
    BY <1>2, <2>1, <2>2 DEF Commit
  <2>3. CASE v # Absent
    <3>1. wal'[k] = Append(s, e)
      BY <1>2, <2>3 DEF Commit
    <3>2. e.ver \notin Malformed \cup Blocking
      BY <1>2, <2>3, CommitLands
    <3>3. s \in Seq(S) /\ e \in S
      BY <2>1, SeqMonotonic
    <3>4. Len(s) \in Nat
      BY <2>1, LenProperties
    <3> HIDE DEF e, s, S
    <3>5. /\ Len(wal'[k]) = Len(s) + 1
          /\ wal'[k][Len(s) + 1] = e
          /\ \A j \in 1..Len(s) : wal'[k][j] = s[j]
      BY <3>1, <3>3, <3>4, AppendProperties
    <3>6. i = Len(s) + 1 \/ i \in 1..Len(s)
      BY <3>4, <3>5
    <3> QED BY <2>1, <3>2, <3>5, <3>6
  <2> QED BY <2>2, <2>3
<1> QED
  BY <1>1, <1>2, OnlyCommitLands DEF Next, SourceWrites, vars, database

-----------------------------------------------------------------------------
(* The theorems.                                                           *)

\* The inductive invariant holds at the start.
LEMMA InitInvariant == Init => IInv
<1> SUFFICES ASSUME Init PROVE IInv
  OBVIOUS
<1>1. CommittedInv
  BY DEF Init, CommittedInv
<1>2. StreamMirrorsTable
  BY EmptySeq DEF Init, StreamMirrorsTable
<1>3. WatermarkIsBacked
  BY DEF Init, WatermarkIsBacked, NoProgress
<1>4. ChildrenHaveParents
  BY DEF Init, ChildrenHaveParents, ChildKeys
<1>5. GatesFailClosed
  BY EmptySeq DEF Init, GatesFailClosed
<1> QED
  BY <1>1, <1>2, <1>3, <1>4, <1>5, InitType, InitProcess, InitBatch,
     InitTransaction
  DEF IInv

\* The invariant that the safety properties follow from.
THEOREM Invariant == Spec => []IInv
<1>1. IInv /\ [Next]_vars => IInv'
  BY TypeStep, ProcessStep, BatchStep, TransactionStep, CommittedStep,
     StreamStep, WatermarkStep, ChildrenStep, GatesStep
  DEF IInv
<1> QED BY <1>1, InitInvariant, PTL DEF Spec

\* Replaying the change stream gives the landed table, and every event of it
\* changed its row, whatever processes ran at the same time.
THEOREM StreamCorrect == Spec => []StreamMirrorsTable
<1>1. IInv => StreamMirrorsTable
  BY DEF IInv
<1> QED BY <1>1, Invariant, PTL

\* The cursor of a watermark always names a landed row of its entity, and a
\* watermark that counts rows has a committed run behind it.
THEOREM WatermarkCorrect == Spec => []WatermarkIsBacked
<1>1. IInv => WatermarkIsBacked
  BY DEF IInv
<1> QED BY <1>1, Invariant, PTL

\* No child row is ever landed without its parent.
THEOREM ParentsCorrect == Spec => []ChildrenHaveParents
<1>1. IInv => ChildrenHaveParents
  BY DEF IInv
<1> QED BY <1>1, Invariant, PTL

\* No version that a gate refuses is ever in the change stream.
THEOREM GatesCorrect == Spec => []GatesFailClosed
<1>1. IInv => GatesFailClosed
  BY DEF IInv
<1> QED BY <1>1, Invariant, PTL

-----------------------------------------------------------------------------
(* A process that runs alone lands nothing older than what is landed.      *)

\* A process that never ran beside another one is the only one that runs.
AloneOK(l) ==
    pc[l] # "idle" /\ l \notin overlap =>
        \A m \in Loaders \ {l} : pc[m] = "idle"

\* What a process crawled the source once had, and it has moved on only.
CrawlOK(l) ==
    \A i \in DOMAIN raw[l] : raw[l][i].ver <= source[raw[l][i].key]

\* Until its commit, what a process that is alone crawled is not older than
\* the landed row.
FreshOK(l) ==
    l \notin overlap /\ pc[l] \in {"crawl", "upsert", "commit"} =>
        \A i \in DOMAIN raw[l] : oltp[raw[l][i].key] <= raw[l][i].ver

AloneInv ==
    /\ \A l \in Loaders : AloneOK(l) /\ CrawlOK(l) /\ FreshOK(l)
    /\ \A k \in Keys : oltp[k] <= source[k]

\* A step of a process that is not its start: it does not touch who ran
\* beside whom.
LEMMA OverlapKept ==
    ASSUME NEW l \in Loaders, Step(l)
    PROVE  \/ \E a \in Arguments : Begin(l, a)
           \/ pc[l] # "idle" /\ UNCHANGED <<overlap, source>>
<1>1. ASSUME NEW r, StartRun(l, r)
      PROVE  pc[l] # "idle" /\ UNCHANGED <<overlap, source>>
  BY <1>1 DEF StartRun, history
<1>2. ASSUME NEW k, CrawlRecord(l, k)
      PROVE  pc[l] # "idle" /\ UNCHANGED <<overlap, source>>
  BY <1>2 DEF CrawlRecord, history
<1>3. ASSUME NEW p, ChildCrawlFails(l, p)
      PROVE  pc[l] # "idle" /\ UNCHANGED <<overlap, source>>
  BY <1>3 DEF ChildCrawlFails, history
<1>4. CASE DeadlockVictim(l)
  <2>1. Blocker(l) # Null
    BY <1>4, ProcessAssumption DEF DeadlockVictim, Deadlocked
  <2> QED BY <1>4, <2>1 DEF DeadlockVictim, Blocker, history
<1>5. CASE \/ ListParents(l) \/ CrawlFails(l) \/ GateRefuses(l)
           \/ DryRunEnds(l) \/ BeginBatch(l) \/ StatementFails(l)
  BY <1>5 DEF ListParents, CrawlFails, GateRefuses, DryRunEnds,
              GatePasses, BeginBatch, StatementFails, history
<1>6. CASE \/ UpsertRow(l) \/ CloseBatch(l) \/ Commit(l) \/ Report(l)
           \/ Rollback(l) \/ MarkFailed(l) \/ Die(l)
  BY <1>6 DEF UpsertRow, CloseBatch, Commit, Report, Rollback, MarkFailed,
              Die, history
<1> QED BY <1>1, <1>2, <1>3, <1>4, <1>5, <1>6 DEF Step, Progress

\* Only a process that is alone is outside overlap.
LEMMA AloneStep ==
    ASSUME TypeOK, [Next]_vars, NEW m \in Loaders, \A l \in Loaders : AloneOK(l)
    PROVE  AloneOK(m)'
<1>1. CASE \/ \E k \in Keys : SourceWrites(k)
           \/ UNCHANGED vars
  BY <1>1 DEF SourceWrites, vars, process, history, AloneOK
<1>2. ASSUME NEW l \in Loaders, NEW a \in Arguments, Begin(l, a)
      PROVE  AloneOK(m)'
  <2> DEFINE others == {j \in Loaders \ {l} : pc[j] # "idle"}
  <2>1. /\ pc[l] = "idle" /\ pc' = [pc EXCEPT ![l] = "ready"]
        /\ overlap' = IF others = {} THEN overlap \ {l}
                                     ELSE overlap \cup others \cup {l}
    BY <1>2 DEF Begin
  <2>2. ASSUME pc'[m] # "idle", m \notin overlap',
               NEW j \in Loaders \ {m}
        PROVE  pc'[j] = "idle"
    <3>1. CASE m = l
      BY <2>1, <2>2, <3>1 DEF TypeOK
    <3>2. CASE m # l
      <4>1. m \in others
        BY <2>1, <2>2, <3>2 DEF TypeOK
      <4> QED BY <2>1, <2>2, <4>1
    <3> QED BY <3>1, <3>2
  <2> QED BY <2>2 DEF AloneOK
<1>3. ASSUME NEW l \in Loaders, Step(l), pc[l] # "idle", UNCHANGED overlap
      PROVE  AloneOK(m)'
  <2>1. \A j \in Loaders : j # l => pc'[j] = pc[j]
    BY <1>3, OthersAreLeftAlone
  <2> QED BY <1>3, <2>1 DEF AloneOK
<1> QED BY <1>1, <1>2, <1>3, OverlapKept DEF Next

\* The versions are ordered as the numbers are.
LEMMA VersionsAreNumbers == Versions \cup {Absent} \subseteq Nat
BY ValuesAssumption DEF Versions, Absent

\* A commit lands versions that its process crawled.
LEMMA CommitIsCrawled ==
    ASSUME TypeOK, TransactionInv, NEW l \in Loaders, Commit(l), NEW k \in Keys
    PROVE  \/ oltp'[k] = oltp[k]
           \/ \E i \in DOMAIN raw[l] :
                 raw[l][i].key = k /\ raw[l][i].ver = oltp'[k]
<1>1. tx[l].pending[k] # Absent =>
         \E i \in Landing(raw[l]) :
            raw[l][i].key = k /\ raw[l][i].ver = tx[l].pending[k]
  BY DEF TransactionInv, TransactionOK, PendingOK
<1>2. Landing(raw[l]) \subseteq DOMAIN raw[l]
  BY BatchFacts DEF TypeOK
<1> QED BY <1>1, <1>2 DEF Commit

\* The source only moves on.
LEMMA SourceMovesOn ==
    ASSUME TypeOK, [Next]_vars, NEW k \in Keys
    PROVE  source[k] \in Nat /\ source'[k] \in Nat /\ source[k] <= source'[k]
<1>1. source[k] \in Nat
  BY VersionsAreNumbers DEF TypeOK
<1>2. ASSUME NEW j \in Keys, SourceWrites(j)
      PROVE  source'[k] \in Nat /\ source[k] <= source'[k]
  BY <1>1, <1>2 DEF SourceWrites, TypeOK
<1>3. CASE UNCHANGED source
  BY <1>1, <1>3
<1>4. ASSUME NEW l \in Loaders, Step(l) PROVE UNCHANGED source
  <2>1. ASSUME NEW a, Begin(l, a) PROVE UNCHANGED source
    BY <2>1 DEF Begin
  <2> QED BY <1>4, <2>1, OverlapKept
<1>5. CASE UNCHANGED vars
  BY <1>3, <1>5 DEF vars
<1> QED BY <1>1, <1>2, <1>3, <1>4, <1>5 DEF Next

\* What a step adds to a crawl is the version the source has.
LEMMA CrawlsCurrent ==
    ASSUME TypeOK, ProcessInv, NEW l \in Loaders, Step(l),
           NEW m \in Loaders, NEW i \in DOMAIN raw'[m]
    PROVE  \/ i \in DOMAIN raw[m] /\ raw'[m][i] = raw[m][i]
           \/ /\ m = l /\ pc[l] = "crawl"
              /\ raw'[m][i].key \in Keys
              /\ raw'[m][i].ver = source[raw'[m][i].key]
<1>1. CASE raw'[m] = raw[m]
  BY <1>1
<1>2. CASE raw'[m] = <<>>
  BY <1>2, EmptyBatch
<1>3. ASSUME NEW k \in Keys, CrawlRecord(l, k), m = l
      PROVE  \/ i \in DOMAIN raw[m] /\ raw'[m][i] = raw[m][i]
             \/ /\ pc[l] = "crawl"
                /\ raw'[m][i].key \in Keys
                /\ raw'[m][i].ver = source[raw'[m][i].key]
  <2>1. PICK v \in Served(k) :
           raw' = [raw EXCEPT ![l] = Append(@, [key |-> k, ver |-> v])]
    BY <1>3 DEF CrawlRecord
  <2> DEFINE rec == [key |-> k, ver |-> v]
  <2>2. rec \in Record /\ v = source[k] /\ rec.key = k /\ rec.ver = v
    BY <2>1 DEF Served, TypeOK, Record
  <2>3. raw'[m] = Append(raw[m], rec) /\ raw[m] \in Seq(Record)
    BY <1>3, <2>1 DEF TypeOK
  <2> HIDE DEF rec
  <2>4. raw'[m][i] = rec \/ (i \in DOMAIN raw[m] /\ raw'[m][i] = raw[m][i])
    BY <2>2, <2>3, AppendedRecord
  <2> QED BY <1>3, <2>2, <2>4 DEF CrawlRecord
<1>4. CASE m # l
  BY <1>1, <1>4, OthersAreLeftAlone
<1>5. CASE Die(l) /\ m = l
  BY <1>2, <1>5 DEF Die, TypeOK
<1>6. CASE (DryRunEnds(l) \/ Report(l) \/ MarkFailed(l)) /\ m = l
  BY <1>2, <1>6 DEF DryRunEnds, Report, MarkFailed, Advance, TypeOK
<1>7. ASSUME NEW a, Begin(l, a) PROVE UNCHANGED raw
  BY <1>7 DEF Begin
<1>8. ASSUME NEW r, StartRun(l, r) PROVE UNCHANGED raw
  BY <1>8 DEF StartRun
<1>9. ASSUME NEW p, ChildCrawlFails(l, p) PROVE UNCHANGED raw
  BY <1>9 DEF ChildCrawlFails
<1>10. CASE \/ ListParents(l) \/ CrawlFails(l) \/ GateRefuses(l)
            \/ BeginBatch(l) \/ StatementFails(l) \/ UpsertRow(l)
            \/ CloseBatch(l) \/ Commit(l) \/ Rollback(l) \/ DeadlockVictim(l)
  BY <1>1, <1>10 DEF ListParents, CrawlFails, GateRefuses, BeginBatch,
     StatementFails, UpsertRow, CloseBatch, Commit, Rollback, DeadlockVictim
<1> QED
  BY <1>1, <1>3, <1>4, <1>5, <1>6, <1>7, <1>8, <1>9, <1>10 DEF Step, Progress

\* No crawl and no landed row is ahead of the source.
LEMMA CrawlStep ==
    ASSUME IInv, AloneInv, [Next]_vars
    PROVE  /\ \A m \in Loaders : CrawlOK(m)'
           /\ \A k \in Keys : oltp'[k] <= source'[k]
<1> USE DEF IInv
<1>1. ASSUME NEW m \in Loaders, NEW i \in DOMAIN raw[m]
      PROVE  /\ raw[m][i].key \in Keys /\ raw[m][i].ver \in Nat
             /\ raw[m][i].ver <= source[raw[m][i].key]
             /\ raw[m][i].ver <= source'[raw[m][i].key]
  <2>1. raw[m][i].key \in Keys /\ raw[m][i].ver \in Nat
    BY BatchFacts, VersionsAreNumbers DEF TypeOK
  <2>2. raw[m][i].ver <= source[raw[m][i].key]
    BY DEF AloneInv, CrawlOK
  <2> QED BY <2>1, <2>2, SourceMovesOn
<1>2. ASSUME NEW m \in Loaders PROVE CrawlOK(m)'
  <2> SUFFICES ASSUME NEW i \in DOMAIN raw'[m]
               PROVE  raw'[m][i].ver <= source'[raw'[m][i].key]
    BY DEF CrawlOK
  <2>1. CASE \/ \E k \in Keys : SourceWrites(k)
             \/ UNCHANGED vars
    BY <1>1, <2>1 DEF SourceWrites, vars, process
  <2>2. ASSUME NEW l \in Loaders, Step(l)
        PROVE  raw'[m][i].ver <= source'[raw'[m][i].key]
    BY <1>1, <2>2, CrawlsCurrent, SourceMovesOn
  <2> QED BY <2>1, <2>2 DEF Next
<1>3. ASSUME NEW k \in Keys PROVE oltp'[k] <= source'[k]
  <2>1. /\ oltp[k] \in Nat /\ oltp[k] <= source[k]
        /\ source[k] \in Nat /\ source'[k] \in Nat /\ source[k] <= source'[k]
    BY VersionsAreNumbers, SourceMovesOn DEF AloneInv, TypeOK
  <2>2. CASE oltp'[k] = oltp[k]
    BY <2>1, <2>2
  <2>3. ASSUME NEW l \in Loaders, Commit(l), oltp'[k] # oltp[k]
        PROVE  oltp'[k] <= source'[k]
    BY <1>1, <2>3, CommitIsCrawled
  <2>4. CASE \E j \in Keys : SourceWrites(j)
    BY <2>2, <2>4 DEF SourceWrites, database
  <2>5. CASE UNCHANGED vars
    BY <2>2, <2>5 DEF vars, database
  <2> QED BY <2>2, <2>3, <2>4, <2>5, OnlyCommitLands DEF Next
<1> QED BY <1>2, <1>3

\* Only a process that crawls goes on to the batch and to its commit.
LEMMA LateSteps ==
    ASSUME TypeOK, ProcessInv, NEW l \in Loaders, Step(l),
           pc[l] \notin {"idle", "ready", "parents"},
           pc'[l] \in {"crawl", "upsert", "commit"}
    PROVE  pc[l] \in {"crawl", "upsert", "commit"}
<1>1. ASSUME NEW a, Begin(l, a) PROVE FALSE
  BY <1>1 DEF Begin
<1>2. ASSUME NEW r, StartRun(l, r) PROVE FALSE
  BY <1>2 DEF StartRun
<1>3. ASSUME NEW k, CrawlRecord(l, k) PROVE pc[l] = "crawl"
  BY <1>3 DEF CrawlRecord
<1>4. ASSUME NEW p, ChildCrawlFails(l, p) PROVE pc[l] = "crawl"
  BY <1>4 DEF ChildCrawlFails
<1>5. CASE \/ ListParents(l) \/ CrawlFails(l) \/ GateRefuses(l)
           \/ DryRunEnds(l) \/ BeginBatch(l) \/ UpsertRow(l)
           \/ CloseBatch(l) \/ Commit(l)
  BY <1>5 DEF ListParents, CrawlFails, GateRefuses, DryRunEnds,
              GatePasses, BeginBatch, UpsertRow, CloseBatch, Commit
<1>6. CASE \/ StatementFails(l) \/ DeadlockVictim(l) \/ Rollback(l)
           \/ Die(l) \/ Report(l) \/ MarkFailed(l)
  BY <1>6 DEF StatementFails, DeadlockVictim, Rollback, Die, Report,
              MarkFailed, Advance, TypeOK
<1> QED BY <1>1, <1>2, <1>3, <1>4, <1>5, <1>6 DEF Step, Progress

\* While a process is alone, nobody but itself moves the rows it crawled for.
LEMMA FreshStep ==
    ASSUME IInv, AloneInv, [Next]_vars, NEW m \in Loaders
    PROVE  FreshOK(m)'
<1> USE DEF IInv
<1>1. FreshOK(m) /\ AloneOK(m) /\ raw[m] \in Seq(Record)
  BY DEF AloneInv, TypeOK
<1>2. CASE \/ \E k \in Keys : SourceWrites(k)
           \/ UNCHANGED vars
  BY <1>1, <1>2 DEF SourceWrites, vars, database, process, history, FreshOK
<1>3. ASSUME NEW l \in Loaders, NEW a \in Arguments, Begin(l, a)
      PROVE  FreshOK(m)'
  <2>1. UNCHANGED <<oltp, raw>> /\ pc' = [pc EXCEPT ![l] = "ready"]
        /\ (m # l /\ m \notin overlap' => m \notin overlap)
    BY <1>3 DEF Begin, database
  <2> QED BY <1>1, <2>1 DEF FreshOK, TypeOK
<1>4. ASSUME NEW l \in Loaders, Step(l), pc[l] # "idle", UNCHANGED overlap,
             m # l
      PROVE  FreshOK(m)'
  <2>1. m \notin overlap => pc[m] = "idle"
    BY <1>1, <1>4 DEF AloneOK
  <2>2. pc'[m] = pc[m]
    BY <1>4, OthersAreLeftAlone
  <2> QED BY <1>4, <2>1, <2>2 DEF FreshOK
<1>5. ASSUME Step(m), UNCHANGED overlap
      PROVE  FreshOK(m)'
  <2>1. CASE Commit(m)
    BY <2>1 DEF Commit, FreshOK, TypeOK
  <2>2. CASE ~Commit(m)
    <3> SUFFICES ASSUME m \notin overlap,
                        pc'[m] \in {"crawl", "upsert", "commit"},
                        NEW i \in DOMAIN raw'[m]
                 PROVE  oltp'[raw'[m][i].key] <= raw'[m][i].ver
      BY <1>5 DEF FreshOK
    <3>1. UNCHANGED oltp
      BY <1>5, <2>2, OnlyCommitLands
    <3>2. CASE /\ raw'[m][i].key \in Keys
               /\ raw'[m][i].ver = source[raw'[m][i].key]
      BY <3>1, <3>2 DEF AloneInv
    <3>3. CASE i \in DOMAIN raw[m] /\ raw'[m][i] = raw[m][i]
      <4>1. raw[m] # <<>>
        BY <3>3, EmptyBatch
      <4>2. pc[m] \notin {"idle", "ready", "parents"}
        BY <4>1 DEF ProcessInv, ProcessOK
      <4>3. pc[m] \in {"crawl", "upsert", "commit"}
        BY <1>5, <2>2, <4>2, LateSteps
      <4> QED BY <1>1, <3>1, <3>3, <4>3 DEF FreshOK
    <3> QED BY <1>5, <3>2, <3>3, CrawlsCurrent
  <2> QED BY <2>1, <2>2
<1> QED BY <1>2, <1>3, <1>4, <1>5, OverlapKept DEF Next

-----------------------------------------------------------------------------
\* A process that had the schema to itself from its start to its commit never
\* takes a landed row back to an older version, for any number of processes,
\* crashes and retries before it.
THEOREM AloneCorrect == Spec => AloneNeverRegresses
<1>1. Init => AloneInv
  <2> SUFFICES ASSUME Init PROVE AloneInv
    OBVIOUS
  <2>1. \A l \in Loaders : pc[l] = "idle" /\ raw[l] = <<>>
    BY DEF Init
  <2>2. \A l \in Loaders : AloneOK(l) /\ CrawlOK(l) /\ FreshOK(l)
    BY <2>1, EmptyBatch DEF AloneOK, CrawlOK, FreshOK
  <2>3. ASSUME NEW k \in Keys PROVE oltp[k] <= source[k]
    <3>1. source[k] \in Nat /\ oltp[k] = 0
      BY DEF Init, Absent
    <3> QED BY <3>1
  <2> QED BY <2>2, <2>3 DEF AloneInv
<1>2. IInv /\ AloneInv /\ [Next]_vars => AloneInv'
  BY AloneStep, CrawlStep, FreshStep DEF IInv, AloneInv
<1>3. ASSUME IInv, AloneInv, [Next]_vars, NEW l \in Loaders,
             pc[l] = "commit", pc'[l] = "report", l \notin overlap,
             NEW k \in Keys
      PROVE  oltp'[k] >= oltp[k]
  <2>1. oltp[k] \in Nat
    BY <1>3, VersionsAreNumbers DEF IInv, TypeOK
  <2>2. CASE oltp'[k] = oltp[k]
    BY <2>1, <2>2
  <2>3. CASE Commit(l)
    <3>1. ASSUME NEW i \in DOMAIN raw[l], raw[l][i].key = k,
                 raw[l][i].ver = oltp'[k]
          PROVE  oltp'[k] >= oltp[k]
      <4>1. oltp[k] <= raw[l][i].ver
        BY <1>3, <3>1 DEF AloneInv, FreshOK
      <4>2. raw[l][i].ver \in Nat
        BY <1>3, BatchFacts, VersionsAreNumbers DEF IInv, TypeOK
      <4> QED BY <2>1, <3>1, <4>1, <4>2
    <3> QED BY <1>3, <2>2, <2>3, <3>1, CommitIsCrawled DEF IInv
  <2>4. ASSUME NEW m \in Loaders, Step(m), oltp'[k] # oltp[k]
        PROVE  m = l /\ Commit(l)
    <3>1. Commit(m)
      BY <2>4, OnlyCommitLands
    <3>2. m = l
      BY <1>3, <2>4, OthersAreLeftAlone DEF IInv
    <3> QED BY <3>1, <3>2
  <2>5. CASE \E j \in Keys : SourceWrites(j)
    BY <2>2, <2>5 DEF SourceWrites, database
  <2>6. CASE UNCHANGED vars
    BY <2>2, <2>6 DEF vars, database
  <2> QED BY <1>3, <2>2, <2>3, <2>4, <2>5, <2>6 DEF Next
<1>4. IInv /\ AloneInv /\ [Next]_vars =>
        [\A l \in Loaders :
            pc[l] = "commit" /\ pc'[l] = "report" /\ l \notin overlap =>
                \A k \in Keys : oltp'[k] >= oltp[k]]_vars
  BY <1>3
<1> QED BY <1>1, <1>2, <1>4, Invariant, PTL DEF Spec, AloneNeverRegresses
=============================================================================
