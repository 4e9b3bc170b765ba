----------------------- MODULE IngestionRunQuarantine -----------------------
(***************************************************************************)
(* What IngestionRun leaves in the control plane is true: the quarantine,  *)
(* the outcome and the counts of a run, and the whole landing schema as an *)
(* implementation of LoadLedger.                                           *)
(*                                                                         *)
(* What a process refused, it writes under the run it holds; so what       *)
(* matters is that no two processes hold the same run, and that a run is   *)
(* judged once and before it commits. The same makes the outcomes final:   *)
(* only its holder closes a run.                                           *)
(*                                                                         *)
(* The counts and the refinement come down to the transaction about to     *)
(* commit: every row of the batch is as the batch has it, under a lock     *)
(* that keeps it so; the counters of the transaction count its rows; and   *)
(* the watermark it will write was computed from the row that is still     *)
(* there.                                                                  *)
(***************************************************************************)
EXTENDS IngestionRunSafety

\* No two processes hold the same run.
RunsDiffer ==
    \A l, m \in Loaders : job[l].run = job[m].run /\ job[l].run # Null => l = m

\* Until the gates have judged a crawl nothing of it is refused; after that
\* exactly what it will write into the quarantine is, and until the commit
\* the run is not committed.
LoaderOK(l) ==
    /\ pc[l] \in {"idle", "ready"} => job[l].run = Null
    /\ pc[l] \in {"parents", "crawl", "upsert", "commit"} =>
          job[l].run \notin committed
    /\ pc[l] \in {"parents", "crawl"} => \A x \in seen : x.run # job[l].run
    /\ pc[l] \in {"upsert", "commit"} =>
          \A x \in Reject : x.run = job[l].run =>
              (x \in seen <=> x \in Rejects(job[l].run, raw[l]))
    /\ pc[l] = "commit" =>
          tx[l].result.rejected = Cardinality(Rejected(raw[l]))

LoadersOK == \A l \in Loaders : LoaderOK(l)

SeenOpened == \A x \in seen : ingestion_run[x.run].status # "none"

SuccessCommitted ==
    \A r \in Runs : ingestion_run[r].status = "success" => r \in committed

QInv == RunsDiffer /\ LoadersOK /\ SeenOpened /\ SuccessCommitted
        /\ QuarantineIsComplete

-----------------------------------------------------------------------------
\* What is refused is what is quarantined, one record for each position.
LEMMA RefusedIsRejected ==
    ASSUME NEW s \in Seq(Record), NEW r \in Runs
    PROVE  /\ Refused(r, s) = Rejects(r, s)
           /\ Rejects(r, s) \subseteq Reject
           /\ \A x \in Rejects(r, s) : x.run = r
           /\ IsFiniteSet(Rejects(r, s))
           /\ Cardinality(Rejects(r, s)) = Cardinality(Rejected(s))
<1>1. Refused(r, s) = Rejects(r, s)
  BY DEF Refused, Rejects, Rejected, Mapped
<1>2. Rejects(r, s) \subseteq Reject /\ \A x \in Rejects(r, s) : x.run = r
  BY RejectsType DEF Rejects
<1> DEFINE f == [i \in Rejected(s) |-> [run |-> r, pos |-> i, rec |-> s[i]]]
<1>3. f \in Bijection(Rejected(s), Rejects(r, s))
  <2>1. f \in [Rejected(s) -> Rejects(r, s)]
    BY DEF Rejects
  <2>2. ASSUME NEW i \in Rejected(s), NEW j \in Rejected(s), f[i] = f[j]
        PROVE  i = j
    <3>1. f[i].pos = i /\ f[j].pos = j
      OBVIOUS
    <3> HIDE DEF f
    <3> QED BY <2>2, <3>1
  <2>3. \A x \in Rejects(r, s) : \E i \in Rejected(s) : f[i] = x
    BY DEF Rejects
  <2> HIDE DEF f
  <2> QED BY <2>1, <2>2, <2>3 DEF Bijection, Injection, Surjection, IsInjective
<1>4. IsFiniteSet(Rejected(s))
  BY BatchFacts, FS_Subset
<1>5. ExistsBijection(Rejected(s), Rejects(r, s))
  BY <1>3 DEF ExistsBijection
<1> QED BY <1>1, <1>2, <1>4, <1>5, FS_Bijection

\* A process inside run_entity holds an opened run.
LEMMA HoldsARun ==
    ASSUME TypeOK, ProcessInv, NEW l \in Loaders, pc[l] \notin {"idle", "ready"}
    PROVE  /\ job[l].run \in Runs /\ job[l].run # Null
           /\ ingestion_run[job[l].run].status # "none"
BY ProcessAssumption DEF ProcessInv, ProcessOK

\* The other processes: what a step adds, it adds under its own run.
LEMMA OthersStayOK ==
    ASSUME TypeOK, ProcessInv, QInv, NEW l \in Loaders, Step(l),
           seen \subseteq seen',
           \A x \in seen' : x \in seen \/ x.run = job[l].run,
           \A r \in committed' : r \in committed \/ r = job[l].run,
           NEW m \in Loaders, m # l
    PROVE  LoaderOK(m)'
<1>1. /\ pc'[m] = pc[m] /\ job'[m] = job[m] /\ raw'[m] = raw[m]
      /\ tx'[m] = tx[m]
  BY OthersAreLeftAlone
<1>2. LoaderOK(m)
  BY DEF QInv, LoadersOK
<1>3. CASE pc[m] \in {"idle", "ready"}
  BY <1>1, <1>2, <1>3 DEF LoaderOK
<1>4. CASE pc[m] \notin {"idle", "ready"}
  <2>1. job[m].run # Null
    BY <1>4, HoldsARun
  <2>2. job[m].run # job[l].run
    BY <2>1 DEF QInv, RunsDiffer
  <2>3. \A x \in Reject : x.run = job[m].run => (x \in seen' <=> x \in seen)
    BY <2>2
  <2>4. \A x \in seen' : x.run = job[m].run => x \in seen
    BY <2>2
  <2>5. job[m].run \in committed' => job[m].run \in committed
    BY <2>2
  <2>6. pc[m] \in {"parents", "crawl"} => \A x \in seen' : x.run # job[m].run
    BY <1>2, <2>4 DEF LoaderOK
  <2>7. pc[m] \in {"upsert", "commit"} =>
          \A x \in Reject : x.run = job[m].run =>
              (x \in seen' <=> x \in Rejects(job[m].run, raw[m]))
    BY <1>2, <2>3 DEF LoaderOK
  <2> QED BY <1>1, <1>2, <1>4, <2>5, <2>6, <2>7 DEF LoaderOK, Rejects
<1> QED BY <1>3, <1>4

\* A step that neither opens nor closes a run.
LEMMA SameRun ==
    ASSUME TypeOK, QInv, NEW l \in Loaders, Step(l), job'[l].run = job[l].run
    PROVE  RunsDiffer'
<1>1. \A m \in Loaders : job'[m].run = job[m].run
  BY OthersAreLeftAlone
<1> QED BY <1>1 DEF QInv, RunsDiffer

LEMMA NoRun ==
    ASSUME TypeOK, QInv, NEW l \in Loaders, Step(l), job'[l].run = Null
    PROVE  RunsDiffer'
<1>1. \A m \in Loaders \ {l} : job'[m].run = job[m].run
  BY OthersAreLeftAlone
<1> QED BY <1>1 DEF QInv, RunsDiffer

-----------------------------------------------------------------------------
(* The kinds of steps.                                                     *)

LEMMA OpensRun ==
    ASSUME IInv, QInv, NEW l \in Loaders, NEW r \in Runs, StartRun(l, r), Step(l)
    PROVE  QInv'
<1> USE DEF IInv
<1>1. /\ ingestion_run[r].status = "none"
      /\ UNCHANGED <<seen, committed, ingestion_reject>>
      /\ job'[l].run = r /\ pc'[l] \in {"parents", "crawl"}
  BY DEF StartRun, history, TypeOK, Job
<1>2. /\ ingestion_run'[r].status = "running"
      /\ \A q \in Runs : q # r => ingestion_run'[q] = ingestion_run[q]
  BY DEF StartRun, TypeOK
<1>3. r \notin committed /\ \A x \in seen : x.run # r
  BY <1>1 DEF CommittedInv, QInv, SeenOpened
<1>4. LoadersOK'
  <2>1. LoaderOK(l)'
    BY <1>1, <1>3 DEF LoaderOK
  <2>2. ASSUME NEW m \in Loaders, m # l PROVE LoaderOK(m)'
    BY <1>1, <2>2, OthersStayOK
  <2> QED BY <2>1, <2>2 DEF LoadersOK
<1>5. RunsDiffer'
  <2>1. \A m \in Loaders \ {l} : job'[m].run = job[m].run
    BY OthersAreLeftAlone
  <2>2. \A m \in Loaders : job[m].run # r
    <3> SUFFICES ASSUME NEW m \in Loaders, job[m].run = r PROVE FALSE
      OBVIOUS
    <3>1. r # Null
      BY ProcessAssumption
    <3>2. pc[m] \notin {"idle", "ready"}
      BY <3>1 DEF QInv, LoadersOK, LoaderOK
    <3> QED BY <1>1, <3>2, HoldsARun
  <2> QED BY <1>1, <2>1, <2>2 DEF QInv, RunsDiffer
<1>6. SeenOpened'
  <2>1. \A x \in seen : x.run \in Runs
    BY DEF TypeOK, Reject
  <2> QED BY <1>1, <1>2, <1>3, <2>1 DEF QInv, SeenOpened
<1>7. SuccessCommitted'
  BY <1>1, <1>2 DEF QInv, SuccessCommitted
<1>8. QuarantineIsComplete'
  BY <1>1, <1>2 DEF QInv, QuarantineIsComplete
<1> QED BY <1>4, <1>5, <1>6, <1>7, <1>8 DEF QInv

\* run_entity returns, the process dies, or a new one begins.
LEMMA ClosesRun ==
    ASSUME IInv, QInv, NEW l \in Loaders, Step(l),
           job'[l].run = Null, pc'[l] \in {"idle", "ready"},
           UNCHANGED <<seen, committed, ingestion_reject>>,
           \/ UNCHANGED ingestion_run
           \/ \E s \in {"failed", "skipped"}, result \in LoadResult :
                 Finish(job[l].run, s, result)
    PROVE  QInv'
<1> USE DEF IInv
<1>1. \A r \in Runs : \/ ingestion_run'[r] = ingestion_run[r]
                      \/ ingestion_run'[r].status \in {"failed", "skipped"}
  <2> SUFFICES ASSUME NEW s \in {"failed", "skipped"}, NEW result \in LoadResult,
                      Finish(job[l].run, s, result), NEW r \in Runs
               PROVE  \/ ingestion_run'[r] = ingestion_run[r]
                      \/ ingestion_run'[r].status \in {"failed", "skipped"}
    OBVIOUS
  <2>1. ingestion_run[r] \in RunRow
    BY DEF TypeOK
  <2>2. CASE r = job[l].run
    BY <2>1, <2>2 DEF Finish, TypeOK, RunRow
  <2>3. CASE r # job[l].run
    BY <2>3 DEF Finish, TypeOK
  <2> QED BY <2>2, <2>3
<1>2. LoadersOK'
  <2>1. LoaderOK(l)'
    BY DEF LoaderOK
  <2>2. ASSUME NEW m \in Loaders, m # l PROVE LoaderOK(m)'
    BY <2>2, OthersStayOK
  <2> QED BY <2>1, <2>2 DEF LoadersOK
<1>3. RunsDiffer'
  BY NoRun
<1>4. SeenOpened'
  <2>1. \A x \in seen : x.run \in Runs
    BY DEF TypeOK, Reject
  <2> QED BY <1>1, <2>1 DEF QInv, SeenOpened
<1>5. SuccessCommitted'
  BY <1>1 DEF QInv, SuccessCommitted
<1>6. QuarantineIsComplete'
  BY <1>1 DEF QInv, QuarantineIsComplete
<1> QED BY <1>2, <1>3, <1>4, <1>5, <1>6 DEF QInv

\* A step inside run_entity that judges nothing.
LEMMA QuietStep ==
    ASSUME IInv, QInv, NEW l \in Loaders, Step(l), LoaderOK(l)',
           job'[l].run = job[l].run,
           UNCHANGED <<seen, committed, ingestion_reject, ingestion_run>>
    PROVE  QInv'
<1> USE DEF IInv
<1>1. LoadersOK'
  <2>1. ASSUME NEW m \in Loaders, m # l PROVE LoaderOK(m)'
    BY <2>1, OthersStayOK
  <2> QED BY <2>1 DEF LoadersOK
<1>2. RunsDiffer'
  BY SameRun
<1>3. SeenOpened' /\ SuccessCommitted' /\ QuarantineIsComplete'
  BY DEF QInv, SeenOpened, SuccessCommitted, QuarantineIsComplete
<1> QED BY <1>1, <1>2, <1>3 DEF QInv

\* The gates judge a crawl.
LEMMA JudgeStep ==
    ASSUME IInv, QInv, NEW l \in Loaders, Step(l),
           GateRefuses(l) \/ BeginBatch(l)
    PROVE  QInv'
<1> USE DEF IInv
<1> DEFINE r == job[l].run
<1>1. /\ pc[l] = "crawl" /\ seen' = seen \cup Refused(r, raw[l])
      /\ UNCHANGED <<job, raw, committed, ingestion_reject, ingestion_run>>
      /\ pc'[l] \in {"raised", "upsert"}
  BY DEF GateRefuses, BeginBatch, GatePasses, database, TypeOK
<1>2. /\ r \in Runs /\ ingestion_run[r].status # "none"
      /\ r \notin committed /\ \A x \in seen : x.run # r
  BY <1>1, HoldsARun DEF QInv, LoadersOK, LoaderOK
<1>3. raw[l] \in Seq(Record)
  BY DEF TypeOK
<1> HIDE DEF r
<1>4. /\ Refused(r, raw[l]) = Rejects(r, raw[l])
      /\ \A x \in Rejects(r, raw[l]) : x.run = r
  BY <1>2, <1>3, RefusedIsRejected
<1>5. LoadersOK'
  <2>1. LoaderOK(l)'
    <3>1. job'[l].run = r /\ raw'[l] = raw[l]
      BY <1>1 DEF r
    <3>2. Rejects(r, raw[l])' = Rejects(r, raw[l])
      BY <1>1 DEF Rejects, r
    <3>3. \A x \in Reject : x.run = r =>
              (x \in seen' <=> x \in Rejects(r, raw[l]))
      BY <1>1, <1>2, <1>4 DEF r
    <3> QED BY <1>1, <1>2, <3>1, <3>2, <3>3 DEF LoaderOK, r
  <2>2. ASSUME NEW m \in Loaders, m # l PROVE LoaderOK(m)'
    <3>1. \A x \in seen' : x \in seen \/ x.run = job[l].run
      BY <1>1, <1>4 DEF r
    <3> QED BY <1>1, <2>2, <3>1, OthersStayOK
  <2> QED BY <2>1, <2>2 DEF LoadersOK
<1>6. RunsDiffer'
  BY <1>1, SameRun
<1>7. SeenOpened'
  BY <1>1, <1>2, <1>4 DEF QInv, SeenOpened, r
<1>8. SuccessCommitted'
  BY <1>1 DEF QInv, SuccessCommitted
<1>9. QuarantineIsComplete'
  BY <1>1, <1>2, <1>4 DEF QInv, QuarantineIsComplete, r
<1> QED BY <1>5, <1>6, <1>7, <1>8, <1>9 DEF QInv

\* The commit quarantines what the run refused, and counts it right.
LEMMA CommitStep ==
    ASSUME IInv, QInv, NEW l \in Loaders, Step(l), Commit(l)
    PROVE  QInv'
<1> USE DEF IInv
<1> DEFINE r == job[l].run
           own == Rejects(r, raw[l])
<1>1. /\ pc[l] = "commit" /\ pc'[l] = "report"
      /\ UNCHANGED <<job, raw, seen>>
      /\ committed' = committed \cup {r}
      /\ ingestion_reject' = ingestion_reject \cup own
  BY DEF Commit, TypeOK
<1>2. r \in Runs /\ r # Null /\ ingestion_run[r].status # "none"
  BY <1>1, HoldsARun
<1>3. raw[l] \in Seq(Record)
  BY DEF TypeOK
<1>4. /\ r \notin committed
      /\ \A x \in Reject : x.run = r => (x \in seen <=> x \in own)
      /\ tx[l].result.rejected = Cardinality(Rejected(raw[l]))
  BY <1>1 DEF QInv, LoadersOK, LoaderOK
<1>5. /\ ingestion_run'[r].status = "success"
      /\ ingestion_run'[r].result = tx[l].result
      /\ \A q \in Runs : q # r => ingestion_run'[q] = ingestion_run[q]
  <2>1. ingestion_run' = [ingestion_run EXCEPT ![r].status = "success",
                                               ![r].result = tx[l].result]
    BY DEF Commit, Finish
  <2>2. ingestion_run[r] \in RunRow
    BY <1>2 DEF TypeOK
  <2> HIDE DEF r
  <2> QED BY <1>2, <2>1, <2>2 DEF TypeOK, RunRow
<1>6. /\ own \subseteq Reject /\ \A x \in own : x.run = r
      /\ Cardinality(own) = Cardinality(Rejected(raw[l]))
  BY <1>2, <1>3, RefusedIsRejected
<1>7. LoadersOK'
  <2>1. LoaderOK(l)'
    BY <1>1 DEF LoaderOK
  <2>2. ASSUME NEW m \in Loaders, m # l PROVE LoaderOK(m)'
    BY <1>1, <2>2, OthersStayOK
  <2> QED BY <2>1, <2>2 DEF LoadersOK
<1>8. RunsDiffer'
  BY <1>1, SameRun
<1> HIDE DEF r, own
<1>9. SeenOpened'
  <2>1. \A x \in seen : x.run \in Runs
    BY DEF TypeOK, Reject
  <2> QED BY <1>1, <1>5, <2>1 DEF QInv, SeenOpened
<1>10. SuccessCommitted'
  BY <1>1, <1>5 DEF QInv, SuccessCommitted
<1>11. QuarantineIsComplete'
  <2>1. \A x \in seen' : x.run \in committed' => x \in ingestion_reject'
    <3>1. \A x \in seen : x \in Reject
      BY DEF TypeOK
    <3> QED BY <1>1, <1>4, <3>1 DEF QInv, QuarantineIsComplete
  <2>2. \A x \in ingestion_reject' : x.run \in committed' /\ x \in seen'
    BY <1>1, <1>4, <1>6 DEF QInv, QuarantineIsComplete
  <2>3. ASSUME NEW q \in Runs, ingestion_run'[q].status = "success"
        PROVE  ingestion_run'[q].result.rejected =
                   Cardinality({x \in ingestion_reject' : x.run = q})
    <3>1. \A x \in ingestion_reject : x.run # r
      BY <1>4 DEF QInv, QuarantineIsComplete
    <3>2. CASE q = r
      <4>1. {x \in ingestion_reject' : x.run = q} = own
        BY <1>1, <1>6, <3>1, <3>2
      <4> QED BY <1>4, <1>5, <1>6, <3>2, <4>1
    <3>3. CASE q # r
      <4>1. {x \in ingestion_reject' : x.run = q} =
                {x \in ingestion_reject : x.run = q}
        BY <1>1, <1>6, <3>3
      <4>2. ingestion_run'[q] = ingestion_run[q]
        BY <1>5, <3>3
      <4> QED BY <2>3, <4>1, <4>2 DEF QInv, QuarantineIsComplete
    <3> QED BY <3>2, <3>3
  <2> QED BY <2>1, <2>2, <2>3 DEF QuarantineIsComplete
<1> QED BY <1>7, <1>8, <1>9, <1>10, <1>11 DEF QInv

LEMMA QuarantineStep == ASSUME IInv, QInv, [Next]_vars PROVE QInv'
<1> USE DEF IInv
<1>1. CASE \/ \E k \in Keys : SourceWrites(k)
           \/ UNCHANGED vars
  <2>1. UNCHANGED <<ingestion_run, ingestion_reject, pc, job, raw, tx, seen,
                    committed>>
    BY <1>1 DEF SourceWrites, vars, database, process, history
  <2> QED BY <2>1 DEF QInv, RunsDiffer, LoadersOK, LoaderOK, SeenOpened,
                      SuccessCommitted, QuarantineIsComplete, Rejects
<1>2. ASSUME NEW l \in Loaders, Step(l) PROVE QInv'
  <2>1. LoaderOK(l) /\ job[l] \in Job /\ tx[l] \in Transaction
    BY DEF QInv, LoadersOK, TypeOK
  <2>2. ASSUME NEW a \in Arguments, Begin(l, a) PROVE QInv'
    <3>1. job'[l].run = Null /\ pc'[l] = "ready"
      BY <2>2 DEF Begin, TypeOK, NoJob
    <3>2. UNCHANGED <<seen, committed, ingestion_reject, ingestion_run>>
      BY <2>2 DEF Begin, database
    <3> QED BY <1>2, <3>1, <3>2, ClosesRun
  <2>3. ASSUME NEW r \in Runs, StartRun(l, r) PROVE QInv'
    BY <1>2, <2>3, OpensRun
  <2>4. ASSUME ListParents(l) \/ (\E k \in Keys : CrawlRecord(l, k))
                 \/ (\E p \in Keys : ChildCrawlFails(l, p))
        PROVE  QInv'
    <3>1. /\ pc[l] \in {"parents", "crawl"} /\ pc'[l] = "crawl"
          /\ UNCHANGED <<seen, committed, ingestion_reject, ingestion_run>>
      BY <2>4 DEF ListParents, CrawlRecord, ChildCrawlFails, database, history,
                  TypeOK
    <3>2. job'[l].run = job[l].run
      BY <2>1, <2>4 DEF ListParents, CrawlRecord, ChildCrawlFails, TypeOK, Job
    <3>3. LoaderOK(l)'
      BY <2>1, <3>1, <3>2 DEF LoaderOK
    <3> QED BY <1>2, <3>1, <3>2, <3>3, QuietStep
  <2>5. ASSUME CrawlFails(l) \/ StatementFails(l) \/ DeadlockVictim(l)
                 \/ Rollback(l)
        PROVE  QInv'
    <3>1. /\ pc'[l] \in {"raised", "rolledback"} /\ job' = job
          /\ UNCHANGED <<seen, committed, ingestion_reject, ingestion_run>>
      BY <2>5 DEF CrawlFails, StatementFails, DeadlockVictim, Rollback,
                  database, history, TypeOK
    <3>2. LoaderOK(l)'
      BY <3>1 DEF LoaderOK
    <3> QED BY <1>2, <3>1, <3>2, QuietStep
  <2>6. CASE UpsertRow(l)
    <3>1. /\ pc[l] = "upsert"
          /\ UNCHANGED <<pc, job, raw, seen, committed, ingestion_reject,
                         ingestion_run>>
      BY <2>6 DEF UpsertRow, database, history
    <3>2. LoaderOK(l)'
      BY <2>1, <3>1 DEF LoaderOK, Rejects
    <3> QED BY <1>2, <3>1, <3>2, QuietStep
  <2>7. CASE CloseBatch(l)
    <3>1. /\ pc[l] = "upsert" /\ pc'[l] = "commit"
          /\ UNCHANGED <<job, raw, seen, committed, ingestion_reject,
                         ingestion_run>>
      BY <2>7 DEF CloseBatch, database, history, TypeOK
    <3>2. tx'[l].result.rejected = Cardinality(Rejected(raw[l]))
      BY <2>1, <2>7 DEF CloseBatch, TypeOK, Transaction, LoadResult
    <3>3. LoaderOK(l)'
      BY <2>1, <3>1, <3>2 DEF LoaderOK, Rejects, Rejected
    <3> QED BY <1>2, <3>1, <3>3, QuietStep
  <2>8. CASE GateRefuses(l) \/ BeginBatch(l)
    BY <1>2, <2>8, JudgeStep
  <2>9. CASE Commit(l)
    BY <1>2, <2>9, CommitStep
  <2>10. ASSUME NEW failed \in BOOLEAN, Advance(l, failed)
         PROVE  job'[l].run = Null /\ pc'[l] \in {"idle", "ready"}
    BY <2>1, <2>10 DEF Advance, TypeOK, Job
  <2>11. CASE DryRunEnds(l)
    <3> DEFINE result == [NoRows EXCEPT
                            !.read = Cardinality(Landing(raw[l])),
                            !.rejected = Cardinality(Rejected(raw[l]))]
    <3>1. Finish(job[l].run, "skipped", result) /\ Advance(l, FALSE)
      BY <2>11 DEF DryRunEnds
    <3>2. raw[l] \in Seq(Record)
      BY DEF TypeOK
    <3>3. result \in LoadResult
      BY <3>2, BatchFacts DEF NoRows, LoadResult
    <3>4. UNCHANGED <<seen, committed, ingestion_reject>>
      BY <2>11 DEF DryRunEnds, history
    <3>5. job'[l].run = Null /\ pc'[l] \in {"idle", "ready"}
      BY <2>10, <3>1
    <3> HIDE DEF result
    <3> QED BY <1>2, <3>1, <3>3, <3>4, <3>5, ClosesRun
  <2>12. CASE Report(l)
    <3>1. UNCHANGED <<seen, committed, ingestion_reject, ingestion_run>>
      BY <2>12 DEF Report, database, history
    <3>2. job'[l].run = Null /\ pc'[l] \in {"idle", "ready"}
      BY <2>10, <2>12 DEF Report
    <3> QED BY <1>2, <3>1, <3>2, ClosesRun
  <2>13. CASE MarkFailed(l)
    <3>1. /\ UNCHANGED <<seen, committed, ingestion_reject>>
          /\ \/ UNCHANGED ingestion_run
             \/ Finish(job[l].run, "failed", NoRows)
      BY <2>13 DEF MarkFailed, history
    <3>2. job'[l].run = Null /\ pc'[l] \in {"idle", "ready"}
      BY <2>10, <2>13 DEF MarkFailed
    <3>3. NoRows \in LoadResult
      BY DEF NoRows, LoadResult
    <3> QED BY <1>2, <3>1, <3>2, <3>3, ClosesRun
  <2>14. CASE Die(l)
    <3>1. UNCHANGED <<seen, committed, ingestion_reject, ingestion_run>>
      BY <2>14 DEF Die, database, history
    <3>2. job'[l].run = Null /\ pc'[l] = "idle"
      BY <2>14 DEF Die, TypeOK, NoJob
    <3> QED BY <1>2, <3>1, <3>2, ClosesRun
  <2> QED BY <1>2, <2>2, <2>3, <2>4, <2>5, <2>6, <2>7, <2>8, <2>9, <2>11,
             <2>12, <2>13, <2>14 DEF Step, Progress
<1> QED BY <1>1, <1>2 DEF Next

LEMMA InitQuarantine == Init => QInv
<1> SUFFICES ASSUME Init PROVE QInv
  OBVIOUS
<1>1. /\ seen = {} /\ committed = {} /\ ingestion_reject = {}
      /\ pc = [l \in Loaders |-> "idle"] /\ job = [l \in Loaders |-> NoJob]
      /\ ingestion_run = [r \in Runs |-> NoRunRow]
  BY DEF Init
<1>2. RunsDiffer /\ LoadersOK
  BY <1>1 DEF RunsDiffer, LoadersOK, LoaderOK, NoJob
<1>3. SeenOpened /\ SuccessCommitted /\ QuarantineIsComplete
  BY <1>1 DEF SeenOpened, SuccessCommitted, QuarantineIsComplete, NoRunRow
<1> QED BY <1>2, <1>3 DEF QInv

-----------------------------------------------------------------------------
(* The outcome of a run: its row is written by its own process only, and   *)
(* where that process is tells what the row says.                          *)

StatusOK(l) ==
    /\ pc[l] \in {"parents", "crawl", "upsert", "commit"} =>
          ingestion_run[job[l].run].status = "running"
    /\ pc[l] \in {"report", "raised", "rolledback"} =>
          ingestion_run[job[l].run].status \in {"running", "success"}

RunsOpen == \A l \in Loaders : StatusOK(l)

\* How the row of run r may change by the hand of its process.
Outcome(old, new) ==
    \/ old = "running" /\ new # "none"
    \/ old = "success" /\ new = "failed"

OutcomeStep ==
    \A r \in Runs :
        LET old == ingestion_run[r].status
            new == ingestion_run'[r].status
        IN  old # new =>
              \/ old = "none" /\ new = "running"
              \/ /\ \E l \in Loaders : job[l].run = r
                 /\ \/ old = "running" /\ new # "none"
                    \/ old = "success" /\ new = "failed"

\* A step that changes the row of its own run only, or opens one.
LEMMA OwnRowOnly ==
    ASSUME IInv, QInv, RunsOpen, NEW l \in Loaders, Step(l), StatusOK(l)',
           \A r \in Runs :
              \/ ingestion_run'[r].status = ingestion_run[r].status
              \/ /\ ingestion_run[r].status = "none"
                 /\ ingestion_run'[r].status = "running"
              \/ /\ r = job[l].run
                 /\ Outcome(ingestion_run[r].status, ingestion_run'[r].status)
    PROVE  RunsOpen' /\ OutcomeStep
<1> USE DEF IInv
<1>1. ASSUME NEW m \in Loaders, m # l PROVE StatusOK(m)'
  <2>1. pc'[m] = pc[m] /\ job'[m] = job[m]
    BY <1>1, OthersAreLeftAlone
  <2>2. CASE pc[m] \in {"idle", "ready"}
    BY <2>1, <2>2 DEF StatusOK
  <2>3. CASE pc[m] \notin {"idle", "ready"}
    <3>1. /\ job[m].run \in Runs /\ job[m].run # Null
          /\ ingestion_run[job[m].run].status # "none"
      BY <2>3, HoldsARun
    <3>2. job[m].run # job[l].run
      BY <1>1, <3>1 DEF QInv, RunsDiffer
    <3>3. ingestion_run'[job[m].run].status = ingestion_run[job[m].run].status
      BY <3>1, <3>2
    <3> QED BY <2>1, <3>3 DEF RunsOpen, StatusOK
  <2> QED BY <2>2, <2>3
<1>2. RunsOpen'
  BY <1>1 DEF RunsOpen
<1>3. OutcomeStep
  BY DEF OutcomeStep, Outcome
<1> QED BY <1>2, <1>3

\* finish_run gives the row of an opened run its status, and no other.
LEMMA FinishRow ==
    ASSUME TypeOK, NEW r \in Runs, NEW status, NEW result,
           Finish(r, status, result)
    PROVE  /\ ingestion_run'[r].status = status
           /\ \A q \in Runs : q # r => ingestion_run'[q] = ingestion_run[q]
<1>1. ingestion_run[r] \in RunRow
  BY DEF TypeOK
<1> QED BY <1>1 DEF Finish, TypeOK, RunRow

LEMMA OutcomesStep ==
    ASSUME IInv, QInv, RunsOpen, [Next]_vars
    PROVE  RunsOpen' /\ (OutcomeStep \/ UNCHANGED vars)
<1> USE DEF IInv
<1>1. CASE UNCHANGED vars
  BY <1>1 DEF vars, database, process, RunsOpen, StatusOK
<1>2. ASSUME NEW k \in Keys, SourceWrites(k) PROVE RunsOpen' /\ OutcomeStep
  BY <1>2 DEF SourceWrites, database, process, RunsOpen, StatusOK, OutcomeStep
<1>3. ASSUME NEW l \in Loaders, Step(l) PROVE RunsOpen' /\ OutcomeStep
  <2>1. StatusOK(l) /\ job[l] \in Job
    BY DEF RunsOpen, TypeOK
  <2>2. ASSUME UNCHANGED ingestion_run, StatusOK(l)'
        PROVE  RunsOpen' /\ OutcomeStep
    BY <1>3, <2>2, OwnRowOnly
  <2>3. ASSUME UNCHANGED ingestion_run, pc'[l] \in {"idle", "ready"}
        PROVE  RunsOpen' /\ OutcomeStep
    BY <2>2, <2>3 DEF StatusOK
  <2>4. ASSUME NEW a \in Arguments, Begin(l, a) PROVE RunsOpen' /\ OutcomeStep
    BY <2>3, <2>4 DEF Begin, database, TypeOK
  <2>5. ASSUME NEW r \in Runs, StartRun(l, r) PROVE RunsOpen' /\ OutcomeStep
    <3>1. /\ ingestion_run[r].status = "none"
          /\ ingestion_run'[r].status = "running"
          /\ \A q \in Runs : q # r => ingestion_run'[q] = ingestion_run[q]
          /\ job'[l].run = r /\ pc'[l] \in {"parents", "crawl"}
      BY <2>1, <2>5 DEF StartRun, TypeOK, Job
    <3>2. StatusOK(l)'
      BY <3>1 DEF StatusOK
    <3> QED BY <1>3, <3>1, <3>2, OwnRowOnly
  <2>6. ASSUME \/ ListParents(l) \/ (\E k \in Keys : CrawlRecord(l, k))
               \/ \E p \in Keys : ChildCrawlFails(l, p)
        PROVE  RunsOpen' /\ OutcomeStep
    <3>1. /\ pc[l] \in {"parents", "crawl"} /\ pc'[l] = "crawl"
          /\ UNCHANGED ingestion_run
      BY <2>6 DEF ListParents, CrawlRecord, ChildCrawlFails, database, TypeOK
    <3>2. job'[l].run = job[l].run
      BY <2>1, <2>6 DEF ListParents, CrawlRecord, ChildCrawlFails, TypeOK, Job
    <3> QED BY <2>1, <2>2, <3>1, <3>2 DEF StatusOK
  <2>7. ASSUME \/ CrawlFails(l) \/ GateRefuses(l) \/ BeginBatch(l)
               \/ UpsertRow(l) \/ CloseBatch(l)
               \/ StatementFails(l) \/ DeadlockVictim(l) \/ Rollback(l)
        PROVE  RunsOpen' /\ OutcomeStep
    <3>1. UNCHANGED <<job, ingestion_run>>
      BY <2>7 DEF CrawlFails, GateRefuses, BeginBatch, UpsertRow,
                  CloseBatch, StatementFails, DeadlockVictim, Rollback, database
    <3>2. DeadlockVictim(l) => pc[l] = "upsert" /\ pc'[l] = "raised"
      <4>1. DeadlockVictim(l) => Blocker(l) \in Loaders /\ Null \notin Loaders
        BY ProcessAssumption DEF DeadlockVictim, Deadlocked
      <4> QED BY <4>1 DEF DeadlockVictim, Blocker, TypeOK
    <3>3. UpsertRow(l) \/ CloseBatch(l) =>
              pc[l] = "upsert" /\ pc'[l] \in {"upsert", "commit"}
      BY DEF UpsertRow, CloseBatch, TypeOK
    <3>4. CrawlFails(l) \/ GateRefuses(l) \/ BeginBatch(l) =>
              pc[l] = "crawl" /\ pc'[l] \in {"raised", "upsert"}
      BY DEF CrawlFails, GateRefuses, BeginBatch, GatePasses, TypeOK
    <3>5. StatementFails(l) =>
              /\ pc[l] \in {"parents", "crawl", "upsert", "commit", "report"}
              /\ pc'[l] = "raised"
      BY DEF StatementFails, GatePasses, TypeOK
    <3>6. Rollback(l) => pc[l] = "raised" /\ pc'[l] = "rolledback"
      BY DEF Rollback, TypeOK
    <3>7. \/ /\ pc[l] \in {"parents", "crawl", "upsert", "commit"}
             /\ pc'[l] \in {"upsert", "commit", "raised"}
          \/ /\ pc[l] \in {"report", "raised"}
             /\ pc'[l] \in {"raised", "rolledback"}
      BY <2>7, <3>2, <3>3, <3>4, <3>5, <3>6
    <3> QED BY <2>1, <2>2, <3>1, <3>7 DEF StatusOK
  <2>8. CASE Commit(l)
    <3>1. /\ pc[l] = "commit" /\ pc'[l] = "report" /\ UNCHANGED job
          /\ Finish(job[l].run, "success", tx[l].result)
      BY <2>8 DEF Commit, TypeOK
    <3>2. job[l].run \in Runs /\ ingestion_run[job[l].run].status = "running"
      BY <2>1, <3>1, HoldsARun DEF StatusOK
    <3>3. /\ ingestion_run'[job[l].run].status = "success"
          /\ \A q \in Runs : q # job[l].run =>
                ingestion_run'[q] = ingestion_run[q]
      BY <3>1, <3>2, FinishRow
    <3>4. StatusOK(l)'
      BY <3>1, <3>3 DEF StatusOK
    <3> QED BY <1>3, <3>2, <3>3, <3>4, OwnRowOnly DEF Outcome
  <2>9. ASSUME NEW failed \in BOOLEAN, Advance(l, failed)
        PROVE  pc'[l] \in {"idle", "ready"}
    BY <2>9 DEF Advance, TypeOK
  <2>10. ASSUME NEW s \in {"failed", "skipped"}, NEW result, pc[l] # "idle",
                pc[l] # "ready", Finish(job[l].run, s, result),
                pc'[l] \in {"idle", "ready"},
                Outcome(ingestion_run[job[l].run].status, s)
         PROVE  RunsOpen' /\ OutcomeStep
    <3>1. job[l].run \in Runs
      BY <2>10, HoldsARun
    <3>2. /\ ingestion_run'[job[l].run].status = s
          /\ \A q \in Runs : q # job[l].run =>
                ingestion_run'[q] = ingestion_run[q]
      BY <2>10, <3>1, FinishRow
    <3>3. StatusOK(l)'
      BY <2>10 DEF StatusOK
    <3> QED BY <1>3, <2>10, <3>2, <3>3, OwnRowOnly
  <2>11. CASE DryRunEnds(l)
    <3>1. pc[l] = "crawl" /\ Advance(l, FALSE)
          /\ \E result : Finish(job[l].run, "skipped", result)
      BY <2>11 DEF DryRunEnds, GatePasses
    <3>2. Outcome(ingestion_run[job[l].run].status, "skipped")
      BY <2>1, <3>1 DEF StatusOK, Outcome
    <3> QED BY <2>9, <2>10, <3>1, <3>2
  <2>12. CASE Report(l) \/ Die(l)
    <3>1. UNCHANGED ingestion_run
      BY <2>12 DEF Report, Die, database
    <3>2. pc'[l] \in {"idle", "ready"}
      BY <2>9, <2>12 DEF Report, Die, TypeOK
    <3> QED BY <2>3, <3>1, <3>2
  <2>13. CASE MarkFailed(l)
    <3>1. pc[l] = "rolledback" /\ pc'[l] \in {"idle", "ready"}
      BY <2>9, <2>13 DEF MarkFailed
    <3>2. Outcome(ingestion_run[job[l].run].status, "failed")
      BY <2>1, <3>1 DEF StatusOK, Outcome
    <3>3. UNCHANGED ingestion_run \/ Finish(job[l].run, "failed", NoRows)
      BY <2>13 DEF MarkFailed
    <3> QED BY <2>3, <2>10, <3>1, <3>2, <3>3
  <2> QED BY <1>3, <2>4, <2>5, <2>6, <2>7, <2>8, <2>11, <2>12, <2>13
          DEF Step, Progress
<1> QED BY <1>1, <1>2, <1>3 DEF Next

-----------------------------------------------------------------------------
\* A load that lands has quarantined every record it refused, nothing else is
\* in the quarantine, and the count of rejects in its run row is exact, for
\* any number of processes, runs and records.
THEOREM QuarantineCorrect == Spec => []QuarantineIsComplete
<1>1. Init => QInv
  BY InitQuarantine
<1>2. IInv /\ QInv /\ [Next]_vars => QInv'
  BY QuarantineStep
<1>3. QInv => QuarantineIsComplete
  BY DEF QInv
<1> QED BY <1>1, <1>2, <1>3, Invariant, PTL DEF Spec

\* finish_run never reopens a run and never touches that of another process:
\* a row goes from running to one outcome by its own process, and only a
\* success whose reporting failed is taken back, for any number of processes.
THEOREM OutcomesCorrect == Spec => OutcomesAreFinal
<1>1. Init => QInv /\ RunsOpen
  <2>1. Init => RunsOpen
    BY DEF Init, RunsOpen, StatusOK
  <2> QED BY <2>1, InitQuarantine
<1>2. IInv /\ QInv /\ RunsOpen /\ [Next]_vars => QInv' /\ RunsOpen'
  BY QuarantineStep, OutcomesStep
<1>3. IInv /\ QInv /\ RunsOpen /\ [Next]_vars => [OutcomeStep]_vars
  BY OutcomesStep
<1>4. [OutcomeStep]_vars =>
        [\A r \in Runs :
            LET old == ingestion_run[r].status
                new == ingestion_run'[r].status
            IN  old # new =>
                  \/ old = "none" /\ new = "running"
                  \/ /\ \E l \in Loaders : job[l].run = r
                     /\ \/ old = "running" /\ new # "none"
                        \/ old = "success" /\ new = "failed"]_vars
  BY DEF OutcomeStep
<1> QED BY <1>1, <1>2, <1>3, <1>4, Invariant, PTL DEF Spec, OutcomesAreFinal

-----------------------------------------------------------------------------
(* The landing schema implements LoadLedger.                               *)

\* The rows a transaction will insert, and those it will update.
Inserts(l) == {k \in Keys : tx[l].pending[k] # Absent /\ oltp[k] = Absent}
Updates(l) == {k \in Keys : tx[l].pending[k] # Absent /\ oltp[k] # Absent}

\* A row that a statement has gone over reads as the batch has it, whether
\* the statement wrote it or found it so, and stays locked.
Written(l, i) ==
    /\ row_lock[raw[l][i].key] = l
    /\ Visible(l, raw[l][i].key) = raw[l][i].ver

\* The counters count the statements so far, each in one of the three ways.
Counted(l) ==
    LET result == tx[l].result
    IN  /\ result.read = Cardinality(Landing(raw[l]) \ todo[l])
        /\ result.inserted = Cardinality(Inserts(l))
        /\ result.updated = Cardinality(Updates(l))
        /\ result.read = result.inserted + result.updated + result.unchanged

\* The watermark row that the batch of l leaves, from the one that is there.
Claim(l) ==
    LET keys == LandingKeys(raw[l])
        old == watermark[Entity(l)]
        read == tx[l].result.read
    IN  [cursor |-> IF keys = {} THEN old.cursor ELSE MaxKey(keys),
         last |-> read,
         total |-> old.total + read]

BatchWritten(l) ==
    /\ pc[l] \in {"upsert", "commit"} =>
          /\ \A i \in Landing(raw[l]) \ todo[l] : Written(l, i)
          /\ Counted(l)
    /\ pc[l] = "commit" =>
          /\ wm_lock[Entity(l)] = l
          /\ tx[l].watermark = Claim(l)

LedgerInv == \A l \in Loaders : BatchWritten(l)

-----------------------------------------------------------------------------
(* Facts about batches and locks.                                          *)

\* A batch has as many rows as keys.
LEMMA BatchSize ==
    ASSUME NEW s \in Seq(Record)
    PROVE  /\ IsFiniteSet(LandingKeys(s))
           /\ Cardinality(LandingKeys(s)) = Cardinality(Landing(s))
<1> DEFINE f == [i \in Landing(s) |-> s[i].key]
<1>1. f \in Bijection(Landing(s), LandingKeys(s))
  <2>1. f \in [Landing(s) -> LandingKeys(s)]
    BY DEF LandingKeys
  <2>2. \A i, j \in Landing(s) : f[i] = f[j] => i = j
    BY BatchKeysDiffer
  <2>3. \A k \in LandingKeys(s) : \E i \in Landing(s) : f[i] = k
    BY DEF LandingKeys
  <2> HIDE DEF f
  <2> QED BY <2>1, <2>2, <2>3 DEF Bijection, Injection, Surjection, IsInjective
<1>2. ExistsBijection(Landing(s), LandingKeys(s))
  BY <1>1 DEF ExistsBijection
<1> QED BY <1>2, BatchFacts, FS_Bijection

\* Nobody takes the lock of a watermark from the transaction that holds it.
LEMMA WatermarkLockHolds ==
    ASSUME TypeOK, ProcessInv, NEW l \in Loaders, Step(l),
           NEW m \in Loaders, m # l, NEW e \in Entities, wm_lock[e] = m
    PROVE  wm_lock'[e] = m
<1>1. CASE UNCHANGED wm_lock
  BY <1>1
<1>2. CASE Unlock(l)
  BY <1>2 DEF Unlock
<1>3. CASE CloseBatch(l)
  <2>1. /\ wm_lock[Entity(l)] \in {l, Null}
        /\ wm_lock' = [wm_lock EXCEPT ![Entity(l)] = l]
    BY <1>3 DEF CloseBatch, WatermarkFree
  <2>2. Entity(l) # e
    BY <2>1, ProcessAssumption
  <2> QED BY <2>1, <2>2 DEF TypeOK
<1>4. CASE UpsertRow(l)
  BY <1>1, <1>4 DEF UpsertRow
<1>5. CASE Commit(l) \/ Rollback(l) \/ Die(l)
  BY <1>2, <1>5 DEF Commit, Rollback, Die
<1>6. CASE \/ \E a \in Arguments : Begin(l, a)
           \/ \E r \in Runs : StartRun(l, r)
           \/ ListParents(l)
           \/ \E k \in Keys : CrawlRecord(l, k)
           \/ \E p \in Keys : ChildCrawlFails(l, p)
           \/ CrawlFails(l)
  <2>1. CASE \E a \in Arguments : Begin(l, a)
    BY <1>1, <2>1 DEF Begin, locks
  <2>2. CASE \E r \in Runs : StartRun(l, r)
    BY <1>1, <2>2 DEF StartRun, locks
  <2>3. CASE ListParents(l)
    BY <1>1, <2>3 DEF ListParents, locks
  <2>4. CASE \E k \in Keys : CrawlRecord(l, k)
    BY <1>1, <2>4 DEF CrawlRecord, locks
  <2>5. CASE \E p \in Keys : ChildCrawlFails(l, p)
    BY <1>1, <2>5 DEF ChildCrawlFails, locks
  <2>6. CASE CrawlFails(l)
    BY <1>1, <2>6 DEF CrawlFails, locks
  <2> QED BY <1>6, <2>1, <2>2, <2>3, <2>4, <2>5, <2>6
<1>7. CASE \/ StatementFails(l) \/ GateRefuses(l) \/ BeginBatch(l)
           \/ DeadlockVictim(l)
  BY <1>1, <1>7 DEF StatementFails, GateRefuses, BeginBatch, DeadlockVictim,
                    locks
<1>8. CASE DryRunEnds(l) \/ Report(l) \/ MarkFailed(l)
  BY <1>1, <1>8 DEF DryRunEnds, Report, MarkFailed, locks
<1> QED BY <1>3, <1>4, <1>5, <1>6, <1>7, <1>8 DEF Step, Progress

\* So the watermark it will write is still computed from the one there is.
LEMMA LockedWatermarkStandsStill ==
    ASSUME TypeOK, LedgerInv, NEW l \in Loaders, Step(l),
           NEW m \in Loaders, m # l, NEW e \in Entities, wm_lock[e] = m
    PROVE  watermark'[e] = watermark[e]
<1>1. CASE Commit(l)
  <2>1. wm_lock[Entity(l)] = l
    BY <1>1 DEF Commit, LedgerInv, BatchWritten
  <2> QED BY <1>1, <2>1 DEF Commit, TypeOK
<1> QED BY <1>1, OnlyCommitLands

-----------------------------------------------------------------------------
(* LedgerInv.                                                              *)

\* The rows a transaction writes are rows of its batch, so it has finitely
\* many of them.
LEMMA PendingRows ==
    ASSUME TypeOK, TransactionInv, NEW l \in Loaders
    PROVE  /\ \A k \in Keys : tx[l].pending[k] # Absent =>
                 k \in LandingKeys(raw[l])
           /\ IsFiniteSet(Inserts(l)) /\ IsFiniteSet(Updates(l))
<1>1. \A k \in Keys : tx[l].pending[k] # Absent => k \in LandingKeys(raw[l])
  BY DEF TransactionInv, TransactionOK, PendingOK, LandingKeys
<1>2. Inserts(l) \subseteq LandingKeys(raw[l])
  BY <1>1 DEF Inserts
<1>3. Updates(l) \subseteq LandingKeys(raw[l])
  BY <1>1 DEF Updates
<1>4. IsFiniteSet(LandingKeys(raw[l]))
  BY BatchSize DEF TypeOK
<1> QED BY <1>1, <1>2, <1>3, <1>4, FS_Subset

\* A statement of the batch is counted in the one way that fits its row.
LEMMA UpsertCounted ==
    ASSUME TypeOK, ProcessInv, TransactionInv, NEW m \in Loaders, UpsertRow(m),
           Counted(m)
    PROVE  Counted(m)'
<1> DEFINE n == NextRow(m)
           key == raw[m][n].key
           ver == raw[m][n].ver
           old == tx[m].result
           new == tx'[m].result
<1>1. /\ n \in todo[m] /\ n \in Landing(raw[m])
      /\ key \in Keys /\ ver # Absent
      /\ todo'[m] = todo[m] \ {n}
      /\ UNCHANGED <<oltp, raw>>
      /\ tx[m].pending[key] = Absent
      /\ tx'[m].pending[key] = IF oltp[key] # ver THEN ver ELSE Absent
      /\ \A k \in Keys : k # key => tx'[m].pending[k] = tx[m].pending[k]
      /\ new = Count(old, oltp[key], ver)
  BY UpsertWrites DEF database
<1>2. old \in LoadResult
  BY DEF TypeOK, Transaction
<1>3. /\ old.read = Cardinality(Landing(raw[m]) \ todo[m])
      /\ old.inserted = Cardinality(Inserts(m))
      /\ old.updated = Cardinality(Updates(m))
      /\ old.read = old.inserted + old.updated + old.unchanged
  BY DEF Counted
<1>4. Cardinality(Landing(raw'[m]) \ todo'[m]) = old.read + 1
  <2> DEFINE done == Landing(raw[m]) \ todo[m]
  <2>1. IsFiniteSet(done)
    BY BatchFacts, FS_Subset DEF TypeOK
  <2>2. Landing(raw'[m]) \ todo'[m] = done \cup {n} /\ n \notin done
    BY <1>1
  <2> HIDE DEF done, n
  <2>3. Cardinality(done) = old.read
    BY <1>3 DEF done
  <2> QED BY <2>1, <2>2, <2>3, FS_AddElement
<1>5. IsFiniteSet(Inserts(m)) /\ IsFiniteSet(Updates(m))
  BY PendingRows
<1>6. key \notin Inserts(m) /\ key \notin Updates(m)
  BY <1>1 DEF Inserts, Updates
<1>7. CASE oltp[key] = Absent
  <2>1. Inserts(m)' = Inserts(m) \cup {key} /\ Updates(m)' = Updates(m)
    BY <1>1, <1>7 DEF Inserts, Updates
  <2>2. /\ Cardinality(Inserts(m)') = old.inserted + 1
        /\ Cardinality(Updates(m)') = old.updated
    BY <1>3, <1>5, <1>6, <2>1, FS_AddElement
  <2>3. new = [old EXCEPT !.read = @ + 1, !.inserted = @ + 1]
    BY <1>1, <1>7 DEF Count
  <2>4. /\ new.read = old.read + 1 /\ new.inserted = old.inserted + 1
        /\ new.updated = old.updated /\ new.unchanged = old.unchanged
    BY <1>2, <2>3 DEF LoadResult
  <2>5. new.read = new.inserted + new.updated + new.unchanged
    BY <1>2, <1>3, <2>4 DEF LoadResult
  <2> QED BY <1>4, <2>2, <2>4, <2>5 DEF Counted
<1>8. CASE oltp[key] # Absent /\ oltp[key] # ver
  <2>1. Updates(m)' = Updates(m) \cup {key} /\ Inserts(m)' = Inserts(m)
    BY <1>1, <1>8 DEF Inserts, Updates
  <2>2. /\ Cardinality(Updates(m)') = old.updated + 1
        /\ Cardinality(Inserts(m)') = old.inserted
    BY <1>3, <1>5, <1>6, <2>1, FS_AddElement
  <2>3. new = [old EXCEPT !.read = @ + 1, !.updated = @ + 1]
    BY <1>1, <1>8 DEF Count, Distinct
  <2>4. /\ new.read = old.read + 1 /\ new.updated = old.updated + 1
        /\ new.inserted = old.inserted /\ new.unchanged = old.unchanged
    BY <1>2, <2>3 DEF LoadResult
  <2>5. new.read = new.inserted + new.updated + new.unchanged
    BY <1>2, <1>3, <2>4 DEF LoadResult
  <2> QED BY <1>4, <2>2, <2>4, <2>5 DEF Counted
<1>9. CASE oltp[key] = ver
  <2>1. Updates(m)' = Updates(m) /\ Inserts(m)' = Inserts(m)
    BY <1>1, <1>9 DEF Inserts, Updates
  <2>2. new = [old EXCEPT !.read = @ + 1, !.unchanged = @ + 1]
    BY <1>1, <1>9 DEF Count, Distinct
  <2>3. /\ new.read = old.read + 1 /\ new.unchanged = old.unchanged + 1
        /\ new.inserted = old.inserted /\ new.updated = old.updated
    BY <1>2, <2>2 DEF LoadResult
  <2>4. new.read = new.inserted + new.updated + new.unchanged
    BY <1>2, <1>3, <2>3 DEF LoadResult
  <2> QED BY <1>3, <1>4, <2>1, <2>3, <2>4 DEF Counted
<1> QED BY <1>7, <1>8, <1>9

\* ... and leaves its row as the batch has it, and the others alone.
LEMMA UpsertWritten ==
    ASSUME TypeOK, ProcessInv, TransactionInv, NEW m \in Loaders, UpsertRow(m),
           \A i \in Landing(raw[m]) \ todo[m] : Written(m, i)
    PROVE  \A i \in Landing(raw'[m]) \ todo'[m] : Written(m, i)'
<1> DEFINE n == NextRow(m)
           key == raw[m][n].key
           ver == raw[m][n].ver
<1>1. /\ n \in todo[m] /\ n \in Landing(raw[m])
      /\ key \in Keys /\ ver # Absent
      /\ row_lock' = [row_lock EXCEPT ![key] = m]
      /\ todo'[m] = todo[m] \ {n}
      /\ UNCHANGED <<oltp, raw>>
      /\ tx'[m].pending[key] = IF oltp[key] # ver THEN ver ELSE Absent
      /\ \A k \in Keys : k # key => tx'[m].pending[k] = tx[m].pending[k]
  BY UpsertWrites DEF database
<1>2. row_lock'[key] = m /\ \A k \in Keys : k # key =>
                                row_lock'[k] = row_lock[k]
  <2> HIDE DEF key
  <2> QED BY <1>1 DEF TypeOK
<1>3. \A i \in Landing(raw[m]) :
         /\ raw[m][i].key \in Keys
         /\ raw[m][i].key = key => i = n
  BY <1>1, BatchFacts, BatchKeysDiffer DEF TypeOK
<1> SUFFICES ASSUME NEW i \in Landing(raw[m]) \ (todo[m] \ {n})
             PROVE  Written(m, i)'
  BY <1>1
<1>4. CASE i = n
  <2>1. Visible(m, raw[m][i].key)' = ver
    BY <1>1, <1>4 DEF Visible
  <2> QED BY <1>1, <1>2, <1>4, <2>1 DEF Written
<1>5. CASE i # n
  <2>1. Written(m, i) /\ raw[m][i].key \in Keys /\ raw[m][i].key # key
    BY <1>3, <1>5
  <2>2. Visible(m, raw[m][i].key)' = Visible(m, raw[m][i].key)
    BY <1>1, <2>1 DEF Visible
  <2> QED BY <1>1, <1>2, <2>1, <2>2 DEF Written
<1> QED BY <1>4, <1>5

\* A process that keeps its transaction, while the rows and the watermark it
\* holds stand still.
LEMMA KeepsBatch ==
    ASSUME TypeOK, ProcessInv, TransactionInv, NEW m \in Loaders,
           BatchWritten(m),
           raw'[m] = raw[m], tx'[m] = tx[m], todo'[m] = todo[m],
           job'[m].queue = job[m].queue,
           pc'[m] = pc[m] \/ pc'[m] \notin {"upsert", "commit"},
           \A k \in Keys : row_lock[k] = m =>
                              row_lock'[k] = m /\ oltp'[k] = oltp[k],
           \A e \in Entities : wm_lock[e] = m =>
                              wm_lock'[e] = m /\ watermark'[e] = watermark[e]
    PROVE  BatchWritten(m)'
<1>1. CASE pc'[m] \notin {"upsert", "commit"}
  BY <1>1 DEF BatchWritten
<1>2. CASE pc'[m] = pc[m] /\ pc[m] \in {"upsert", "commit"}
  <2>1. \A i \in Landing(raw[m]) \ todo[m] :
           Written(m, i) /\ raw[m][i].key \in Keys
    BY <1>2, BatchFacts DEF BatchWritten, TypeOK
  <2>2. \A i \in Landing(raw[m]) \ todo[m] : Written(m, i)'
    BY <2>1 DEF Written, Visible
  <2>3. \A k \in Keys : tx[m].pending[k] # Absent => oltp'[k] = oltp[k]
    BY DEF TransactionInv, TransactionOK, PendingOK
  <2>4. Inserts(m)' = Inserts(m) /\ Updates(m)' = Updates(m)
    BY <2>3 DEF Inserts, Updates
  <2>5. Counted(m)'
    BY <1>2, <2>4 DEF BatchWritten, Counted
  <2>6. pc[m] = "commit" => wm_lock'[Entity(m)'] = m
                            /\ tx'[m].watermark = Claim(m)'
    <3>1. Entity(m)' = Entity(m) /\ Entity(m) \in Entities
      BY <1>2, InsideRunEntity DEF Entity
    <3>2. LandingKeys(raw[m])' = LandingKeys(raw[m])
      BY DEF LandingKeys
    <3> QED BY <3>1, <3>2 DEF BatchWritten, Claim
  <2> QED BY <1>2, <2>2, <2>5, <2>6 DEF BatchWritten
<1> QED BY <1>1, <1>2

LEMMA LedgerStep ==
    ASSUME TypeOK, ProcessInv, TransactionInv, LedgerInv, [Next]_vars
    PROVE  LedgerInv'
<1> SUFFICES ASSUME NEW m \in Loaders PROVE BatchWritten(m)'
  BY DEF LedgerInv
<1>1. BatchWritten(m) /\ ProcessOK(m) /\ raw[m] \in Seq(Record)
  BY DEF LedgerInv, ProcessInv, TypeOK
<1>2. CASE \/ \E k \in Keys : SourceWrites(k)
           \/ UNCHANGED vars
  BY <1>1, <1>2, KeepsBatch DEF SourceWrites, vars, database, locks, process
<1>3. ASSUME NEW l \in Loaders, Step(l), m # l
      PROVE  BatchWritten(m)'
  <2>1. /\ pc'[m] = pc[m] /\ job'[m] = job[m] /\ raw'[m] = raw[m]
        /\ todo'[m] = todo[m] /\ tx'[m] = tx[m]
    BY <1>3, OthersAreLeftAlone
  <2>2. \A k \in Keys : row_lock[k] = m =>
                           row_lock'[k] = m /\ oltp'[k] = oltp[k]
    BY <1>3, LocksHold, LockedRowsStandStill
  <2>3. \A e \in Entities : wm_lock[e] = m =>
                           wm_lock'[e] = m /\ watermark'[e] = watermark[e]
    BY <1>3, WatermarkLockHolds, LockedWatermarkStandsStill
  <2> QED BY <1>1, <2>1, <2>2, <2>3, KeepsBatch
<1>4. ASSUME pc'[m] \notin {"upsert", "commit"}
      PROVE  BatchWritten(m)'
  BY <1>4 DEF BatchWritten
<1>5. CASE \/ \E a \in Arguments : Begin(m, a)
           \/ \E r \in Runs : StartRun(m, r)
           \/ ListParents(m)
           \/ \E k \in Keys : CrawlRecord(m, k)
           \/ \E p \in Keys : ChildCrawlFails(m, p)
  <2>1. ASSUME NEW a \in Arguments, Begin(m, a) PROVE pc'[m] = "ready"
    BY <2>1 DEF Begin, TypeOK
  <2>2. ASSUME NEW r \in Runs, StartRun(m, r)
        PROVE  pc'[m] \in {"parents", "crawl"}
    BY <2>2 DEF StartRun, TypeOK
  <2>3. ASSUME ListParents(m) PROVE pc'[m] = "crawl"
    BY <2>3 DEF ListParents, TypeOK
  <2>4. ASSUME NEW k \in Keys, CrawlRecord(m, k) PROVE pc'[m] = "crawl"
    BY <2>4 DEF CrawlRecord
  <2>5. ASSUME NEW p \in Keys, ChildCrawlFails(m, p) PROVE pc'[m] = "crawl"
    BY <2>5 DEF ChildCrawlFails
  <2> QED BY <1>4, <1>5, <2>1, <2>2, <2>3, <2>4, <2>5
<1>6. CASE \/ CrawlFails(m) \/ StatementFails(m) \/ GateRefuses(m)
           \/ DeadlockVictim(m) \/ Rollback(m) \/ Die(m) \/ Commit(m)
  BY <1>4, <1>6 DEF CrawlFails, StatementFails, GateRefuses,
                    DeadlockVictim, Rollback, Die, Commit, TypeOK
<1>7. CASE DryRunEnds(m) \/ Report(m) \/ MarkFailed(m)
  BY <1>4, <1>7 DEF DryRunEnds, Report, MarkFailed, Advance, TypeOK
<1>8. CASE BeginBatch(m)
  <2>1. /\ pc'[m] = "upsert" /\ raw'[m] = raw[m]
        /\ todo'[m] = Landing(raw[m]) /\ tx'[m] = NoTransaction
    BY <1>1, <1>8 DEF BeginBatch, GatePasses, ProcessOK, TypeOK
  <2>2. Landing(raw'[m]) \ todo'[m] = {}
    BY <2>1
  <2>3. Inserts(m)' = {} /\ Updates(m)' = {}
    BY <2>1, NothingPending DEF Inserts, Updates
  <2>4. Counted(m)'
    BY <2>1, <2>2, <2>3, FS_EmptySet DEF Counted, NoTransaction, NoRows
  <2> QED BY <2>1, <2>2, <2>4 DEF BatchWritten
<1>9. CASE UpsertRow(m)
  <2>1. pc[m] = "upsert" /\ pc'[m] = "upsert"
    BY <1>9 DEF UpsertRow
  <2> QED BY <1>1, <1>9, <2>1, UpsertCounted, UpsertWritten DEF BatchWritten
<1>10. CASE CloseBatch(m)
  <2>1. /\ pc[m] = "upsert" /\ Entity(m) \in Entities
        /\ UNCHANGED <<oltp, watermark, row_lock, raw, job, todo>>
        /\ wm_lock' = [wm_lock EXCEPT ![Entity(m)] = m]
    BY <1>10, InsideRunEntity DEF CloseBatch, database
  <2>2. /\ tx'[m].pending = tx[m].pending
        /\ tx'[m].result = [tx[m].result EXCEPT
                              !.rejected = Cardinality(Rejected(raw[m]))]
        /\ tx'[m].watermark = Claim(m)
    BY <1>10 DEF CloseBatch, Claim, TypeOK, Transaction
  <2>3. /\ tx'[m].result.read = tx[m].result.read
        /\ tx'[m].result.inserted = tx[m].result.inserted
        /\ tx'[m].result.updated = tx[m].result.updated
        /\ tx'[m].result.unchanged = tx[m].result.unchanged
    BY <2>2 DEF TypeOK, Transaction, LoadResult
  <2>4. \A i \in Landing(raw'[m]) \ todo'[m] : Written(m, i)'
    BY <1>1, <2>1, <2>2 DEF BatchWritten, Written, Visible
  <2>5. Counted(m)'
    <3>1. Inserts(m)' = Inserts(m) /\ Updates(m)' = Updates(m)
      BY <2>1, <2>2 DEF Inserts, Updates
    <3> QED BY <1>1, <2>1, <2>3, <3>1 DEF BatchWritten, Counted
  <2>6. Entity(m)' = Entity(m) /\ LandingKeys(raw[m])' = LandingKeys(raw[m])
    BY <2>1 DEF Entity, LandingKeys
  <2>7. Claim(m)' = Claim(m)
    BY <2>1, <2>3, <2>6 DEF Claim
  <2>8. wm_lock'[Entity(m)'] = m
    BY <2>1, <2>6 DEF TypeOK
  <2> QED BY <2>2, <2>4, <2>5, <2>7, <2>8 DEF BatchWritten
<1> QED
  BY <1>2, <1>3, <1>5, <1>6, <1>7, <1>8, <1>9, <1>10
  DEF Next, Step, Progress

-----------------------------------------------------------------------------
(* The steps of the loads are steps of the ledger.                         *)

\* What the ledger shows of the run rows.
Shown == [r \in Runs |-> ingestion_run[r].status]

\* Only four actions write a run row.
LEMMA RunRowsKept ==
    ASSUME NEW l \in Loaders, Step(l)
    PROVE  \/ UNCHANGED ingestion_run
           \/ Commit(l) \/ DryRunEnds(l) \/ MarkFailed(l)
           \/ \E r \in Runs : StartRun(l, r)
<1>1. ASSUME \/ \E a \in Arguments : Begin(l, a)
             \/ \E k \in Keys : CrawlRecord(l, k)
             \/ \E p \in Keys : ChildCrawlFails(l, p)
             \/ ListParents(l)
      PROVE  UNCHANGED ingestion_run
  <2>1. ASSUME NEW a, Begin(l, a) PROVE UNCHANGED ingestion_run
    BY <2>1 DEF Begin, database
  <2>2. ASSUME NEW k, CrawlRecord(l, k) PROVE UNCHANGED ingestion_run
    BY <2>2 DEF CrawlRecord, database
  <2>3. ASSUME NEW p, ChildCrawlFails(l, p) PROVE UNCHANGED ingestion_run
    BY <2>3 DEF ChildCrawlFails, database
  <2> QED BY <1>1, <2>1, <2>2, <2>3 DEF ListParents, database
<1>2. CASE \/ CrawlFails(l) \/ StatementFails(l) \/ Die(l)
           \/ GateRefuses(l) \/ BeginBatch(l) \/ UpsertRow(l)
           \/ CloseBatch(l) \/ Report(l) \/ DeadlockVictim(l) \/ Rollback(l)
  BY <1>2 DEF CrawlFails, StatementFails, Die, GateRefuses, BeginBatch,
              UpsertRow, CloseBatch, Report, DeadlockVictim, Rollback, database
<1> QED BY <1>1, <1>2 DEF Step, Progress

LEMMA LedgerInit == Init => Ledger!Init
BY DEF Init, Ledger!Init, NoRunRow, NoProgress, Absent

\* finish_run shows in the ledger as the new status of its run.
LEMMA FinishShows ==
    ASSUME TypeOK, NEW r \in Runs, NEW status, NEW result,
           Finish(r, status, result)
    PROVE  Shown' = [Shown EXCEPT ![r] = status]
BY FinishRow DEF Shown

LEMMA CommitLandsInLedger ==
    ASSUME IInv, QInv, RunsOpen, LedgerInv, NEW l \in Loaders, Commit(l)
    PROVE  Ledger!Next
<1> USE DEF IInv
<1>1. /\ pc[l] = "commit" /\ todo[l] = {} /\ raw[l] \in Seq(Record)
      /\ job[l].run \in Runs /\ Entity(l) \in Entities
  BY InsideRunEntity DEF Commit, ProcessInv, ProcessOK, TypeOK
<1> PICK r \in Runs : r = job[l].run
  BY <1>1
<1> PICK e \in Entities : e = Entity(l)
  BY <1>1
<1> PICK B : B = LandingKeys(raw[l])
  OBVIOUS
<1> PICK batch : batch = [k \in B |-> oltp'[k]]
  OBVIOUS
<1>2. \A i \in Landing(raw[l]) : Written(l, i)
  BY <1>1 DEF LedgerInv, BatchWritten
<1>3. B \in SUBSET Ledger!KeysIn(e)
  <2>1. \A i \in Landing(raw[l]) : EntityOf[raw[l][i].key] = e
    BY <1>1, BatchFacts DEF BatchInv, BatchOK
  <2> QED BY <1>1, <2>1, BatchFacts DEF LandingKeys, Ledger!KeysIn
<1>4. batch \in [B -> Versions]
  <2> SUFFICES ASSUME NEW k \in B PROVE oltp'[k] \in Versions
    OBVIOUS
  <2>1. PICK i \in Landing(raw[l]) : k = raw[l][i].key
    BY DEF LandingKeys
  <2>2. oltp'[k] = Visible(l, k)
    BY <1>1, <2>1, BatchFacts DEF Commit, Visible
  <2> QED BY <1>1, <1>2, <2>1, <2>2, BatchFacts DEF Written
<1>5. oltp' = [k \in Keys |-> IF k \in B THEN batch[k] ELSE oltp[k]]
  <2>1. \A k \in Keys : k \notin B => oltp'[k] = oltp[k]
    BY PendingRows DEF Commit
  <2>2. oltp' \in [Keys -> {oltp'[k] : k \in Keys}]
    BY DEF Commit
  <2> QED BY <2>1, <2>2
<1>6. tx[l].watermark =
          [cursor |-> IF B = {} THEN watermark[e].cursor ELSE MaxKey(B),
           last |-> Cardinality(B),
           total |-> watermark[e].total + Cardinality(B)]
  <2>1. Counted(l) /\ tx[l].watermark = Claim(l)
    BY <1>1 DEF LedgerInv, BatchWritten
  <2>2. Landing(raw[l]) \ todo[l] = Landing(raw[l])
    BY <1>1
  <2>3. Cardinality(B) = Cardinality(Landing(raw[l]))
    BY <1>1, BatchSize
  <2>4. tx[l].result.read = Cardinality(B)
    BY <2>1, <2>2, <2>3 DEF Counted
  <2> QED BY <2>1, <2>4 DEF Claim
<1>7. watermark' = [watermark EXCEPT ![e] =
          [cursor |-> IF B = {} THEN @.cursor
                      ELSE CHOOSE k \in B : \A j \in B : j <= k,
           last |-> Cardinality(B),
           total |-> @.total + Cardinality(B)]]
  <2>1. watermark' = [watermark EXCEPT ![e] = tx[l].watermark]
    BY DEF Commit
  <2> QED BY <1>6, <2>1 DEF MaxKey
<1>8. Shown[r] = "running" /\ Shown' = [Shown EXCEPT ![r] = "success"]
  <2>1. ingestion_run[r].status = "running"
    BY <1>1 DEF RunsOpen, StatusOK
  <2>2. Finish(r, "success", tx[l].result)
    BY DEF Commit
  <2> QED BY <2>1, <2>2, FinishShows DEF Shown
<1>9. Ledger!Land(r, e, B, batch)
  BY <1>5, <1>7, <1>8
  DEF Ledger!Land, Shown, Cardinality, Ledger!Cardinality
<1> QED BY <1>3, <1>4, <1>9 DEF Ledger!Next

\* Opening and closing a run row, and everything that shows in no table.
LEMMA LedgerStepOf ==
    ASSUME IInv, QInv, RunsOpen, LedgerInv, [Next]_vars
    PROVE  Ledger!Next \/ UNCHANGED Ledger!vars
<1> USE DEF IInv
<1>1. ASSUME UNCHANGED <<oltp, watermark, ingestion_run>>
      PROVE  UNCHANGED Ledger!vars
  BY <1>1 DEF Ledger!vars
<1>2. CASE \/ \E k \in Keys : SourceWrites(k)
           \/ UNCHANGED vars
  BY <1>1, <1>2 DEF SourceWrites, vars, database
<1>3. ASSUME NEW l \in Loaders, NEW r \in Runs, StartRun(l, r)
      PROVE  Ledger!Next
  <2>1. Shown[r] = "none" /\ Shown' = [Shown EXCEPT ![r] = "running"]
    BY <1>3 DEF StartRun, Shown, TypeOK
  <2>2. UNCHANGED <<oltp, watermark>>
    BY <1>3 DEF StartRun
  <2>3. Ledger!Open(r)
    BY <2>1, <2>2 DEF Ledger!Open, Shown
  <2> QED BY <2>3 DEF Ledger!Next
<1>4. ASSUME NEW l \in Loaders, pc[l] \in {"crawl", "rolledback"},
             NEW status \in {"failed", "skipped"}, NEW result,
             pc[l] = "rolledback" => status = "failed",
             Finish(job[l].run, status, result),
             UNCHANGED <<oltp, watermark>>
      PROVE  Ledger!Next
  <2>1. PICK r \in Runs : r = job[l].run
    BY <1>4, InsideRunEntity
  <2>2. /\ Shown[r] \in {"running", "success"}
        /\ Shown[r] = "success" => status = "failed"
    BY <1>4, <2>1 DEF RunsOpen, StatusOK, Shown
  <2>3. Shown' = [Shown EXCEPT ![r] = status]
    BY <1>4, <2>1, FinishShows
  <2>4. Ledger!Close(r)
    <3>1. \E s \in {"failed", "skipped"} :
             /\ Shown[r] = "success" => s = "failed"
             /\ Shown' = [Shown EXCEPT ![r] = s]
      BY <2>2, <2>3
    <3> QED BY <1>4, <2>2, <3>1 DEF Ledger!Close, Shown
  <2> QED BY <2>4 DEF Ledger!Next
<1>5. ASSUME NEW l \in Loaders, DryRunEnds(l) PROVE Ledger!Next
  <2>1. /\ pc[l] = "crawl" /\ UNCHANGED <<oltp, watermark>>
        /\ \E result : Finish(job[l].run, "skipped", result)
    BY <1>5 DEF DryRunEnds, GatePasses
  <2> QED BY <1>4, <2>1
<1>6. ASSUME NEW l \in Loaders, MarkFailed(l)
      PROVE  Ledger!Next \/ UNCHANGED Ledger!vars
  <2>1. /\ pc[l] = "rolledback" /\ UNCHANGED <<oltp, watermark>>
        /\ \/ Finish(job[l].run, "failed", NoRows)
           \/ UNCHANGED ingestion_run
    BY <1>6 DEF MarkFailed
  <2> QED BY <1>1, <1>4, <2>1
<1>7. ASSUME NEW l \in Loaders, Step(l), ~Commit(l)
      PROVE  UNCHANGED <<oltp, watermark>>
  BY <1>7, OnlyCommitLands
<1> QED
  BY <1>1, <1>2, <1>3, <1>5, <1>6, <1>7, RunRowsKept, CommitLandsInLedger
  DEF Next

-----------------------------------------------------------------------------
\* Whatever the interleaving, crashes and failures of any number of loads, the
\* landing schema behaves as the ledger: a batch, its watermark and its run
\* record appear in one step, and nothing else moves rows or watermarks.
THEOREM LedgerImplemented == Spec => LandsAtomically
<1>1. Init => QInv /\ RunsOpen /\ LedgerInv /\ Ledger!Init
  <2>1. Init => RunsOpen /\ LedgerInv
    BY DEF Init, RunsOpen, StatusOK, LedgerInv, BatchWritten
  <2> QED BY <2>1, InitQuarantine, LedgerInit
<1>2. IInv /\ QInv /\ RunsOpen /\ LedgerInv /\ [Next]_vars
        => QInv' /\ RunsOpen' /\ LedgerInv'
  BY QuarantineStep, OutcomesStep, LedgerStep DEF IInv
<1>3. IInv /\ QInv /\ RunsOpen /\ LedgerInv /\ [Next]_vars
        => [Ledger!Next]_(Ledger!vars)
  BY LedgerStepOf
<1> QED
  BY <1>1, <1>2, <1>3, Invariant, PTL DEF Spec, LandsAtomically, Ledger!Spec

-----------------------------------------------------------------------------
(* What a run row says its load did.                                       *)

\* The rows whose first event is of run r, and those it changed later.
InsertedBy(r) == {k \in Keys : wal[k] # <<>> /\ wal[k][1].run = r}
UpdatedBy(r) ==
    {k \in Keys : \E i \in 2..Len(wal[k]) : wal[k][i].run = r}

RunCounted(r) ==
    LET result == ingestion_run[r].result
    IN  /\ r \notin committed => InsertedBy(r) \cup UpdatedBy(r) = {}
        /\ ingestion_run[r].status = "success" =>
              /\ result.inserted = Cardinality(InsertedBy(r))
              /\ result.updated = Cardinality(UpdatedBy(r))
              /\ result.read = result.inserted + result.updated
                               + result.unchanged

\* A change event after those of a row is its first or a later one.
LEMMA EventAfter ==
    ASSUME NEW s \in Seq(Event), NEW e \in Event, NEW r
    PROVE  /\ Append(s, e) # <<>>
           /\ Append(s, e)[1] = IF s = <<>> THEN e ELSE s[1]
           /\ (\E i \in 2..Len(Append(s, e)) : Append(s, e)[i].run = r)
                <=> \/ \E i \in 2..Len(s) : s[i].run = r
                    \/ s # <<>> /\ e.run = r
<1> DEFINE t == Append(s, e)
<1>1. /\ t \in Seq(Event) /\ Len(t) = Len(s) + 1 /\ t[Len(s) + 1] = e
      /\ \A i \in 1..Len(s) : t[i] = s[i]
      /\ Len(s) \in Nat
  BY AppendProperties, LenProperties
<1>2. s = <<>> <=> Len(s) = 0
  BY EmptySeq
<1>3. t # <<>>
  BY <1>1, EmptySeq
<1> HIDE DEF t
<1>4. t[1] = IF s = <<>> THEN e ELSE s[1]
  BY <1>1, <1>2
<1>5. ASSUME NEW i \in 2..Len(t), t[i].run = r
      PROVE  \/ \E j \in 2..Len(s) : s[j].run = r
             \/ s # <<>> /\ e.run = r
  <2>1. CASE i = Len(s) + 1
    BY <1>1, <1>2, <1>5, <2>1
  <2>2. CASE i \in 2..Len(s)
    BY <1>1, <1>5, <2>2
  <2> QED BY <1>1, <2>1, <2>2
<1>6. ASSUME NEW j \in 2..Len(s), s[j].run = r
      PROVE  \E i \in 2..Len(t) : t[i].run = r
  <2>1. j \in 2..Len(t) /\ t[j] = s[j]
    BY <1>1
  <2> QED BY <1>6, <2>1
<1>7. ASSUME s # <<>>, e.run = r
      PROVE  \E i \in 2..Len(t) : t[i].run = r
  <2>1. Len(s) + 1 \in 2..Len(t)
    BY <1>1, <1>2, <1>7
  <2> QED BY <1>1, <1>7, <2>1
<1> QED BY <1>3, <1>4, <1>5, <1>6, <1>7 DEF t

\* A row is landed when it has an event.
LEMMA LandedHasEvent ==
    ASSUME TypeOK, StreamMirrorsTable, NEW k \in Keys
    PROVE  wal[k] = <<>> <=> oltp[k] = Absent
<1>1. CASE wal[k] # <<>>
  <2>1. wal[k] \in Seq(Event)
    BY DEF TypeOK
  <2>2. Len(wal[k]) \in 1..Len(wal[k])
    BY <1>1, <2>1, EmptySeq, LenProperties
  <2>3. wal[k][Len(wal[k])] \in Event
    BY <2>1, <2>2, ElementOfSeq
  <2> QED BY <1>1, <2>3 DEF StreamMirrorsTable, Event, Versions, Absent
<1> QED BY <1>1 DEF StreamMirrorsTable

\* A run row that a step touches says success in the commit of the run alone.
LEMMA RunRowStep ==
    ASSUME TypeOK, ProcessInv, NEW l \in Loaders, Step(l), ~Commit(l),
           NEW r \in Runs
    PROVE  \/ ingestion_run'[r] = ingestion_run[r]
           \/ ingestion_run'[r].status # "success"
<1>1. CASE UNCHANGED ingestion_run
  BY <1>1
<1>2. ASSUME NEW q \in Runs, StartRun(l, q)
      PROVE  \/ ingestion_run'[r] = ingestion_run[r]
             \/ ingestion_run'[r].status # "success"
  BY <1>2 DEF StartRun, TypeOK
<1>3. ASSUME NEW status \in {"failed", "skipped"}, NEW result,
             pc[l] \notin {"idle", "ready"}, Finish(job[l].run, status, result)
      PROVE  \/ ingestion_run'[r] = ingestion_run[r]
             \/ ingestion_run'[r].status # "success"
  <2>1. PICK q \in Runs : q = job[l].run
    BY <1>3, InsideRunEntity
  <2>2. Finish(q, status, result)
    BY <1>3, <2>1
  <2> QED BY <2>2, FinishRow
<1>4. CASE DryRunEnds(l)
  <2>1. pc[l] = "crawl" /\ \E result : Finish(job[l].run, "skipped", result)
    BY <1>4 DEF DryRunEnds, GatePasses
  <2> QED BY <1>3, <2>1
<1>5. CASE MarkFailed(l)
  <2>1. /\ pc[l] = "rolledback"
        /\ UNCHANGED ingestion_run \/ Finish(job[l].run, "failed", NoRows)
    BY <1>5 DEF MarkFailed
  <2> QED BY <1>1, <1>3, <2>1
<1> QED BY <1>1, <1>2, <1>4, <1>5, RunRowsKept

\* The events of a commit: one for each row it inserts or updates, all of its
\* run.
LEMMA CommitEvents ==
    ASSUME IInv, NEW l \in Loaders, Commit(l), NEW r \in Runs
    PROVE  /\ InsertedBy(r)' =
                InsertedBy(r) \cup IF r = job[l].run THEN Inserts(l) ELSE {}
           /\ UpdatedBy(r)' =
                UpdatedBy(r) \cup IF r = job[l].run THEN Updates(l) ELSE {}
<1> USE DEF IInv
<1>1. PICK q \in Runs : q = job[l].run
  BY InsideRunEntity DEF Commit
<1>2. ASSUME NEW k \in Keys
      PROVE  /\ k \in InsertedBy(r)' <=>
                   k \in InsertedBy(r) \/ (r = q /\ k \in Inserts(l))
             /\ k \in UpdatedBy(r)' <=>
                   k \in UpdatedBy(r) \/ (r = q /\ k \in Updates(l))
  <2> DEFINE v == tx[l].pending[k]
             e == [ver |-> v, run |-> q]
  <2>1. wal[k] \in Seq(Event) /\ (wal[k] = <<>> <=> oltp[k] = Absent)
    BY LandedHasEvent DEF TypeOK
  <2>2. CASE v = Absent
    <3>1. wal'[k] = wal[k]
      BY <2>2 DEF Commit
    <3> QED BY <2>2, <3>1 DEF InsertedBy, UpdatedBy, Inserts, Updates
  <2>3. CASE v # Absent
    <3>1. wal'[k] = Append(wal[k], e)
      BY <1>1, <2>3 DEF Commit
    <3>2. e \in Event /\ e.run = q
      BY <2>3, CommitLands DEF Event
    <3>3. k \in Inserts(l) <=> oltp[k] = Absent
      BY <2>3 DEF Inserts
    <3>4. k \in Updates(l) <=> oltp[k] # Absent
      BY <2>3 DEF Updates
    <3> HIDE DEF e, v
    <3>5. /\ wal'[k] # <<>>
          /\ wal'[k][1] = IF wal[k] = <<>> THEN e ELSE wal[k][1]
          /\ (\E i \in 2..Len(wal'[k]) : wal'[k][i].run = r)
               <=> \/ \E i \in 2..Len(wal[k]) : wal[k][i].run = r
                   \/ wal[k] # <<>> /\ e.run = r
      BY <2>1, <3>1, <3>2, EventAfter
    <3>6. k \in InsertedBy(r)' <=>
             k \in InsertedBy(r) \/ (r = q /\ k \in Inserts(l))
      BY <2>1, <3>2, <3>3, <3>5 DEF InsertedBy
    <3>7. k \in UpdatedBy(r)' <=>
             k \in UpdatedBy(r) \/ (r = q /\ k \in Updates(l))
      BY <2>1, <3>2, <3>4, <3>5 DEF UpdatedBy
    <3> QED BY <3>6, <3>7
  <2> QED BY <2>2, <2>3
<1>3. /\ InsertedBy(r)' \subseteq Keys /\ InsertedBy(r) \subseteq Keys
      /\ UpdatedBy(r)' \subseteq Keys /\ UpdatedBy(r) \subseteq Keys
      /\ Inserts(l) \subseteq Keys /\ Updates(l) \subseteq Keys
  BY DEF InsertedBy, UpdatedBy, Inserts, Updates
<1> QED BY <1>1, <1>2, <1>3

LEMMA CountsStep ==
    ASSUME IInv, QInv, LedgerInv, [Next]_vars, \A r \in Runs : RunCounted(r)
    PROVE  \A r \in Runs : RunCounted(r)'
<1> USE DEF IInv
<1> SUFFICES ASSUME NEW r \in Runs PROVE RunCounted(r)'
  OBVIOUS
<1>1. RunCounted(r)
  OBVIOUS
<1>2. CASE \/ \E k \in Keys : SourceWrites(k)
           \/ UNCHANGED vars
  BY <1>1, <1>2 DEF SourceWrites, vars, database, history, RunCounted,
                    InsertedBy, UpdatedBy
<1>3. ASSUME NEW l \in Loaders, Step(l), ~Commit(l) PROVE RunCounted(r)'
  <2>1. UNCHANGED <<wal, committed>>
    BY <1>3, OnlyCommitLands
  <2>2. InsertedBy(r)' = InsertedBy(r) /\ UpdatedBy(r)' = UpdatedBy(r)
    BY <2>1 DEF InsertedBy, UpdatedBy
  <2> QED BY <1>1, <1>3, <2>1, <2>2, RunRowStep DEF RunCounted
<1>4. ASSUME NEW l \in Loaders, Commit(l) PROVE RunCounted(r)'
  <2>1. PICK q \in Runs : q = job[l].run
    BY <1>4, InsideRunEntity DEF Commit
  <2>2. /\ pc[l] = "commit" /\ committed' = committed \cup {q}
        /\ Finish(q, "success", tx[l].result)
    BY <1>4, <2>1 DEF Commit
  <2>3. CASE r # q
    <3>1. InsertedBy(r)' = InsertedBy(r) /\ UpdatedBy(r)' = UpdatedBy(r)
      BY <1>4, <2>1, <2>3, CommitEvents
    <3>2. ingestion_run'[r] = ingestion_run[r]
      BY <2>2, <2>3, FinishRow
    <3> QED BY <1>1, <2>2, <2>3, <3>1, <3>2 DEF RunCounted
  <2>4. CASE r = q
    <3>1. InsertedBy(r) = {} /\ UpdatedBy(r) = {}
      BY <1>1, <2>1, <2>2, <2>4 DEF RunCounted, QInv, LoadersOK, LoaderOK
    <3>2. InsertedBy(r)' = Inserts(l) /\ UpdatedBy(r)' = Updates(l)
      BY <1>4, <2>1, <2>4, <3>1, CommitEvents
    <3>3. ingestion_run'[r].result = tx[l].result
      BY <2>2, <2>4 DEF Finish, TypeOK, RunRow
    <3>4. Counted(l)
      BY <2>2 DEF LedgerInv, BatchWritten
    <3>5. r \in committed'
      BY <2>2, <2>4
    <3> QED BY <3>2, <3>3, <3>4, <3>5 DEF RunCounted, Counted
  <2> QED BY <2>3, <2>4
<1> QED BY <1>2, <1>3, <1>4 DEF Next

\* A run row that says success counts the inserts and the updates of its load
\* exactly, and the rows it read are those and the unchanged ones; a run that
\* did not commit caused no event: for any number of processes and keys.
THEOREM CountsCorrect == Spec => []CountsAreExact
<1> DEFINE All == \A r \in Runs : RunCounted(r)
<1>1. Init => QInv /\ RunsOpen /\ LedgerInv /\ All
  <2>1. Init => All
    <3> SUFFICES ASSUME Init, NEW r \in Runs PROVE RunCounted(r)
      OBVIOUS
    <3>1. \A k \in Keys : wal[k] = <<>> /\ Len(wal[k]) = 0
      BY EmptySeq DEF Init
    <3>2. InsertedBy(r) = {} /\ UpdatedBy(r) = {}
      BY <3>1 DEF InsertedBy, UpdatedBy
    <3> QED BY <3>2 DEF Init, RunCounted, NoRunRow
  <2>2. Init => RunsOpen /\ LedgerInv
    BY DEF Init, RunsOpen, StatusOK, LedgerInv, BatchWritten
  <2> QED BY <2>1, <2>2, InitQuarantine
<1>2. IInv /\ QInv /\ RunsOpen /\ LedgerInv /\ All /\ [Next]_vars
        => QInv' /\ RunsOpen' /\ LedgerInv' /\ All'
  BY QuarantineStep, OutcomesStep, LedgerStep, CountsStep DEF IInv
<1>3. All => CountsAreExact
  BY DEF RunCounted, CountsAreExact, InsertedBy, UpdatedBy
<1> QED BY <1>1, <1>2, <1>3, Invariant, PTL DEF Spec
=============================================================================
