--------------------------- MODULE ExporterProofs ---------------------------
(***************************************************************************)
(* What a scrape finds, for any collectors the exporter is given, any      *)
(* labels and any number of runs, changes and outages.                     *)
(***************************************************************************)
EXTENDS Exporter, TLAPS

-----------------------------------------------------------------------------
(* The collectors.                                                         *)

Names == {"ingestion_run", "ingestion_reject", "replication_slot",
          "cdc_freshness", "raw_table_health", "cdc_parse_errors",
          "reconciliation", "merge_health", "dbt_results"}

LEMMA RunningNames == Running \subseteq Names
<1>1. {AllCollectors[i] : i \in DOMAIN AllCollectors} \subseteq Names
  BY DEF AllCollectors, Names
<1>2. \A i \in DOMAIN Enabled : Enabled[i] \in Names
  BY <1>1, ExporterAssumption
<1> QED BY <1>2 DEF Running

LEMMA Places ==
    /\ Len(Enabled) \in Nat /\ Len(Enabled) >= 1
    /\ DOMAIN Enabled = 1..Len(Enabled)
    /\ \A i \in 1..Len(Enabled) : Enabled[i] \in Running
BY ExporterAssumption DEF Running

\* What a collector is: its queries, its gauges, each made of one of them, and
\* nothing in common with the collector of the runs.
WellMade(Q, G) ==
    /\ Len(Q) \in {1, 2} /\ DOMAIN Q = 1..Len(Q)
    /\ Len(G) \in {1, 2, 3, 4} /\ DOMAIN G = 1..Len(G)
    /\ \A i \in DOMAIN G : \E j \in DOMAIN Q : G[i][2] = Q[j]

Foreign(Q, G) ==
    /\ \A i \in DOMAIN Q : Q[i] \notin {"latest", "last_success"}
    /\ \A i \in DOMAIN G : G[i][1] \notin {"run_status", "last_success"}

LEMMA RunCollector ==
    /\ QueriesOf("ingestion_run") = <<"latest", "last_success">>
    /\ GaugesOf("ingestion_run") =
          << <<"run_status", "latest">>, <<"rows_last_run", "latest">>,
             <<"last_success", "last_success">> >>
BY DEF QueriesOf, GaugesOf, Collectors

LEMMA Wiring ==
    ASSUME NEW c \in Names
    PROVE  /\ WellMade(QueriesOf(c), GaugesOf(c))
           /\ c # "ingestion_run" => Foreign(QueriesOf(c), GaugesOf(c))
<1>1. CASE c = "ingestion_run"
  <2>1. /\ QueriesOf(c) = <<"latest", "last_success">>
        /\ GaugesOf(c) = << <<"run_status", "latest">>, <<"rows_last_run", "latest">>,
                            <<"last_success", "last_success">> >>
    BY <1>1, RunCollector
  <2>2. \A i \in 1..3 : \E j \in 1..2 : GaugesOf(c)[i][2] = QueriesOf(c)[j]
    <3>1. /\ GaugesOf(c)[1][2] = "latest" /\ GaugesOf(c)[2][2] = "latest"
          /\ GaugesOf(c)[3][2] = "last_success"
          /\ QueriesOf(c)[1] = "latest" /\ QueriesOf(c)[2] = "last_success"
      BY <2>1
    <3>2. 1 \in 1..2 /\ 2 \in 1..2 /\ \A i \in 1..3 : i = 1 \/ i = 2 \/ i = 3
      OBVIOUS
    <3> QED BY <3>1, <3>2
  <2>3. /\ Len(QueriesOf(c)) = 2 /\ DOMAIN QueriesOf(c) = 1..2
        /\ Len(GaugesOf(c)) = 3 /\ DOMAIN GaugesOf(c) = 1..3
    BY <2>1
  <2> QED BY <1>1, <2>2, <2>3 DEF WellMade
<1>2. CASE c = "ingestion_reject"
  <2>1. QueriesOf(c) = <<"rejects">> /\ GaugesOf(c) = << <<"rejected_rows", "rejects">> >>
    BY <1>2 DEF QueriesOf, GaugesOf, Collectors
  <2> QED BY <2>1 DEF WellMade, Foreign
<1>3. CASE c = "replication_slot"
  <2>1. QueriesOf(c) = <<"slots">>
        /\ GaugesOf(c) = << <<"lag_bytes", "slots">>, <<"active", "slots">> >>
    BY <1>3 DEF QueriesOf, GaugesOf, Collectors
  <2> QED BY <2>1 DEF WellMade, Foreign
<1>4. CASE c = "cdc_freshness"
  <2>1. QueriesOf(c) = <<"freshness">>
        /\ GaugesOf(c) = << <<"freshness_seconds", "freshness">>,
                            <<"lag_p50", "freshness">>, <<"lag_p95", "freshness">>,
                            <<"events", "freshness">> >>
    BY <1>4 DEF QueriesOf, GaugesOf, Collectors
  <2> QED BY <2>1 DEF WellMade, Foreign
<1>5. CASE c = "raw_table_health"
  <2>1. QueriesOf(c) = <<"raw_tables">>
        /\ GaugesOf(c) = << <<"table_rows", "raw_tables">>,
                            <<"seconds_since_insert", "raw_tables">> >>
    BY <1>5 DEF QueriesOf, GaugesOf, Collectors
  <2> QED BY <2>1 DEF WellMade, Foreign
<1>6. CASE c = "cdc_parse_errors"
  <2>1. QueriesOf(c) = <<"parse_errors">>
        /\ GaugesOf(c) = << <<"parse_errors", "parse_errors">> >>
    BY <1>6 DEF QueriesOf, GaugesOf, Collectors
  <2> QED BY <2>1 DEF WellMade, Foreign
<1>7. CASE c = "reconciliation"
  <2>1. QueriesOf(c) = <<"live_keys", "counts">>
        /\ GaugesOf(c) = << <<"row_delta", "counts">> >>
    BY <1>7 DEF QueriesOf, GaugesOf, Collectors
  <2> QED BY <2>1 DEF WellMade, Foreign
<1>8. CASE c = "merge_health"
  <2>1. QueriesOf(c) = <<"parts">>
        /\ GaugesOf(c) = << <<"active_parts", "parts">>, <<"bytes", "parts">> >>
    BY <1>8 DEF QueriesOf, GaugesOf, Collectors
  <2> QED BY <2>1 DEF WellMade, Foreign
<1>9. CASE c = "dbt_results"
  <2>1. QueriesOf(c) = <<"tests", "models">>
        /\ GaugesOf(c) = << <<"test_failures", "tests">>, <<"model_runtime", "models">> >>
    BY <1>9 DEF QueriesOf, GaugesOf, Collectors
  <2> QED BY <2>1 DEF WellMade, Foreign
<1> QED BY <1>1, <1>2, <1>3, <1>4, <1>5, <1>6, <1>7, <1>8, <1>9 DEF Names

\* What a step of the thread needs to know of the collector it is at.
LEMMA AtCollector ==
    ASSUME NEW k \in 1..Len(Enabled)
    PROVE  /\ Enabled[k] \in Running
           /\ WellMade(QueriesOf(Enabled[k]), GaugesOf(Enabled[k]))
           /\ Enabled[k] # "ingestion_run" =>
                 Foreign(QueriesOf(Enabled[k]), GaugesOf(Enabled[k]))
           /\ \A i \in DOMAIN QueriesOf(Enabled[k]) :
                 QueriesOf(Enabled[k])[i] \in Queries
           /\ \A i \in DOMAIN GaugesOf(Enabled[k]) :
                 GaugesOf(Enabled[k])[i][1] \in Gauges
<1>1. Enabled[k] \in Running
  BY Places
<1>2. Enabled[k] \in Names
  BY <1>1, RunningNames
<1> QED BY <1>1, <1>2, Wiring DEF Queries, Gauges

-----------------------------------------------------------------------------
(* Maps from labels to 0 or 1.                                             *)

LEMMA PairFacts ==
    ASSUME NEW L, NEW f
    PROVE  f \in Pairs(L) <=> \E S \in SUBSET L : f \in [S -> {0, 1}]
BY DEF Pairs

LEMMA PairIntro ==
    ASSUME NEW L, NEW S \in SUBSET L, NEW f \in [S -> {0, 1}]
    PROVE  f \in Pairs(L)
BY PairFacts

LEMMA PairElim ==
    ASSUME NEW L, NEW f \in Pairs(L)
    PROVE  /\ DOMAIN f \subseteq L
           /\ f \in [DOMAIN f -> {0, 1}]
           /\ \A x \in DOMAIN f : f[x] \in {0, 1}
BY PairFacts

LEMMA NoPairs ==
    ASSUME NEW L
    PROVE  <<>> \in Pairs(L) /\ DOMAIN <<>> = {}
<1>1. DOMAIN <<>> = {}
  OBVIOUS
<1>2. <<>> = [x \in {} |-> 0]
  OBVIOUS
<1>3. [x \in {} |-> 0] \in [{} -> {0, 1}]
  OBVIOUS
<1>4. {} \in SUBSET L
  OBVIOUS
<1>5. <<>> \in [{} -> {0, 1}]
  BY <1>2, <1>3
<1> QED BY <1>1, <1>4, <1>5, PairIntro

\* One label more.
LEMMA SetPair ==
    ASSUME NEW L, NEW f \in Pairs(L), NEW l \in L, NEW v \in {0, 1},
           NEW g, g = [x \in DOMAIN f \cup {l} |-> IF x = l THEN v ELSE f[x]]
    PROVE  /\ g \in Pairs(L)
           /\ DOMAIN g = DOMAIN f \cup {l}
           /\ g[l] = v
           /\ \A x \in DOMAIN f : x # l => g[x] = f[x]
<1>1. DOMAIN f \subseteq L /\ \A x \in DOMAIN f : f[x] \in {0, 1}
  BY PairElim
<1>2. DOMAIN f \cup {l} \in SUBSET L
  BY <1>1
<1>3. g \in [DOMAIN f \cup {l} -> {0, 1}]
  BY <1>1
<1>4. g \in Pairs(L)
  BY <1>2, <1>3, PairIntro
<1>5. DOMAIN g = DOMAIN f \cup {l} /\ g[l] = v
      /\ \A x \in DOMAIN f : x # l => g[x] = f[x]
  OBVIOUS
<1> QED BY <1>4, <1>5

\* The answers of the databases are such maps.
LEMMA Answered ==
    ASSUME TypeOK, NEW q \in Queries
    PROVE  Answer(q) \in Pairs(Labels)
<1>1. CASE q = "latest"
  <2>1. Latest \in [WithRuns -> {0, 1}]
    BY DEF Latest
  <2>2. WithRuns \in SUBSET Labels
    BY DEF WithRuns
  <2>3. Latest \in Pairs(Labels)
    BY <2>1, <2>2, PairIntro
  <2> QED BY <1>1, <2>3 DEF Answer
<1>2. CASE q = "last_success"
  <2> DEFINE S == {x \in Labels : Succeeded(x)}
  <2>1. LastSuccess \in [S -> {0, 1}]
    BY DEF LastSuccess
  <2>2. S \in SUBSET Labels
    OBVIOUS
  <2>3. LastSuccess \in Pairs(Labels)
    BY <2>1, <2>2, PairIntro
  <2> QED BY <1>2, <2>3 DEF Answer
<1>3. CASE q # "latest" /\ q # "last_success"
  <2>1. table[q] \in SUBSET Labels
    BY <1>3 DEF TypeOK
  <2>2. [l \in table[q] |-> 1] \in [table[q] -> {0, 1}]
    OBVIOUS
  <2>3. [l \in table[q] |-> 1] \in Pairs(Labels)
    BY <2>1, <2>2, PairIntro
  <2> QED BY <1>3, <2>3 DEF Answer
<1> QED BY <1>1, <1>2, <1>3

-----------------------------------------------------------------------------
(* Where the thread is, and what of a gauge is filled.                     *)

\* The collector the thread is at, when it is at one.
Here == Enabled[at]

Filling == pc = "fill" /\ step > 0

\* What the thread has asked of its collector, and when a label is left to set.
Position ==
    /\ pc \in {"query", "fill"} => at \in 1..Len(Enabled)
    /\ pc = "query" =>
          /\ step \in 1..Len(QueriesOf(Here))
          /\ DOMAIN got = {QueriesOf(Here)[i] : i \in 1..(step - 1)}
    /\ pc = "fill" =>
          /\ step \in 0..Len(GaugesOf(Here))
          /\ DOMAIN got = {QueriesOf(Here)[i] : i \in DOMAIN QueriesOf(Here)}
    /\ pc \in {"down", "next"} => got = <<>>
    /\ rest # {} => Filling

\* A gauge has what it was filled with; the one being filled lacks the rest.
Refill ==
    /\ \A g \in Gauges :
          DOMAIN shown[g] = filled[g] \/ (Filling /\ g = Gauge)
    /\ Filling =>
          /\ filled[Gauge] = DOMAIN Series(step)
          /\ rest \subseteq filled[Gauge]
          /\ filled[Gauge] \ rest \subseteq DOMAIN shown[Gauge]
          /\ DOMAIN shown[Gauge] \subseteq filled[Gauge]

ExporterInv == TypeOK /\ Position /\ Refill

LEMMA WorldKeeps == ASSUME World PROVE UNCHANGED <<thread, registry, scraped>>
BY DEF World, StartRun, EndRun, ApplyRetention, Change, Outage, Recover

LEMMA WorldTypes == ASSUME TypeOK, World PROVE TypeOK'
<1>1. UNCHANGED <<pc, at, step, got, rest, shown, filled, scraped>>
  BY WorldKeeps DEF thread, registry
<1>2. ASSUME UNCHANGED table, UNCHANGED changes, UNCHANGED link,
             runs' \in [Labels -> Seq(Statuses)], lost' \subseteq Labels
      PROVE  TypeOK'
  BY <1>1, <1>2 DEF TypeOK, link
<1>3. ASSUME NEW e \in Labels, StartRun(e) PROVE TypeOK'
  <2>1. runs' \in [Labels -> Seq(Statuses)]
    BY <1>3 DEF StartRun, TypeOK, Statuses
  <2> QED BY <1>2, <1>3, <2>1 DEF StartRun, TypeOK
<1>a. LoseSuccesses => lost' \subseteq Labels
  BY DEF LoseSuccesses, TypeOK
<1>4. ASSUME NEW e \in Labels, NEW s \in {"success", "failed"}, EndRun(e, s)
      PROVE  TypeOK'
  <2>1. PICK i \in DOMAIN runs[e] : runs' = [runs EXCEPT ![e][i] = s]
    BY <1>4 DEF EndRun
  <2>2. runs[e] \in Seq(Statuses) /\ s \in Statuses
    BY DEF TypeOK, Statuses
  <2>3. [runs[e] EXCEPT ![i] = s] \in Seq(Statuses)
    BY <2>1, <2>2
  <2>4. runs' = [runs EXCEPT ![e] = [runs[e] EXCEPT ![i] = s]]
    BY <2>1 DEF TypeOK
  <2>5. runs' \in [Labels -> Seq(Statuses)]
    BY <2>3, <2>4 DEF TypeOK
  <2> QED BY <1>2, <1>a, <1>4, <2>5 DEF EndRun
<1>7. ASSUME NEW e \in Labels, ApplyRetention(e)
      PROVE  TypeOK'
  <2>1. PICK n \in DOMAIN runs[e] :
            runs' = [runs EXCEPT ![e] =
                [i \in DOMAIN @ |-> IF i <= n THEN "deleted" ELSE @[i]]]
    BY <1>7 DEF ApplyRetention
  <2> DEFINE kept == [i \in DOMAIN runs[e] |->
                         IF i <= n THEN "deleted" ELSE runs[e][i]]
  <2>2. runs[e] \in Seq(Statuses) /\ "deleted" \in Statuses
    BY DEF TypeOK, Statuses
  <2>3. kept \in Seq(Statuses)
    BY <2>2
  <2>4. runs' = [runs EXCEPT ![e] = kept]
    BY <2>1 DEF TypeOK
  <2> HIDE DEF kept
  <2>5. runs' \in [Labels -> Seq(Statuses)]
    BY <2>3, <2>4 DEF TypeOK
  <2> QED BY <1>2, <1>a, <1>7, <2>5 DEF ApplyRetention
<1>5. ASSUME NEW q \in DOMAIN table, Change(q) PROVE TypeOK'
  <2>1. table' \in [Queries \ {"latest", "last_success"} -> SUBSET Labels]
    BY <1>5 DEF Change, TypeOK
  <2>2. changes' \in 0..MaxChanges
    BY <1>5, ExporterAssumption DEF Change, TypeOK
  <2> QED BY <1>1, <1>5, <2>1, <2>2 DEF Change, TypeOK, link
<1>6. ASSUME NEW d \in DOMAIN up, Outage(d) \/ Recover(d) PROVE TypeOK'
  <2>1. up' \in [{"postgres", "clickhouse"} -> BOOLEAN]
    BY <1>6 DEF Outage, Recover, TypeOK
  <2>2. outages' \in 0..MaxOutages
    BY <1>6, ExporterAssumption DEF Outage, Recover, TypeOK
  <2>3. conn' \in {"none", "open", "dropped"}
    BY <1>6 DEF Outage, Recover, TypeOK
  <2>4. UNCHANGED source
    BY <1>6 DEF Outage, Recover
  <2> QED BY <1>1, <2>1, <2>2, <2>3, <2>4 DEF TypeOK, source
<1> QED BY <1>3, <1>4, <1>5, <1>6, <1>7 DEF World

LEMMA WorldInv == ASSUME ExporterInv, World PROVE ExporterInv'
<1>1. UNCHANGED <<pc, at, step, got, rest, shown, filled>>
  BY WorldKeeps DEF thread, registry
<1>2. TypeOK'
  BY WorldTypes DEF ExporterInv
<1>3. Position'
  BY <1>1 DEF ExporterInv, Position, Here, Filling
<1>4. Refill'
  BY <1>1 DEF ExporterInv, Refill, Filling, Gauge, Series
<1> QED BY <1>2, <1>3, <1>4 DEF ExporterInv

\* A step that is not filling, and leaves the registry and the world alone.
LEMMA QuietStep ==
    ASSUME ExporterInv, ~Filling, ~Filling', UNCHANGED <<registry, source, rest>>,
           Position', pc' \in {"down", "next", "query", "fill"},
           at' \in 0..Len(Enabled), step' \in Nat, DOMAIN got' \subseteq Queries,
           \A q \in DOMAIN got' : got'[q] \in Pairs(Labels),
           UNCHANGED <<up, outages>>, conn' \in {"none", "open", "dropped"},
           scraped' \subseteq Labels
    PROVE  ExporterInv'
<1>1. UNCHANGED <<shown, filled, rest, table, runs, lost, changes>>
  BY DEF registry, source
<1>2. TypeOK'
  BY <1>1 DEF ExporterInv, TypeOK
<1>3. Refill'
  BY <1>1 DEF ExporterInv, Refill
<1> QED BY <1>2, <1>3 DEF ExporterInv

LEMMA StartInv == ASSUME ExporterInv, Start PROVE ExporterInv'
<1>1. /\ pc = "down" /\ pc' = "next"
      /\ UNCHANGED <<source, link, at, step, got, rest, registry, scraped>>
  BY DEF Start
<1>2. ~Filling /\ ~Filling'
  BY <1>1 DEF Filling
<1>3. Position'
  BY <1>1, <1>2 DEF ExporterInv, Position
<1>4. UNCHANGED <<up, outages, conn>>
  BY <1>1 DEF link
<1>5. /\ at \in 0..Len(Enabled) /\ step \in Nat /\ DOMAIN got \subseteq Queries
      /\ \A q \in DOMAIN got : got[q] \in Pairs(Labels)
      /\ conn \in {"none", "open", "dropped"} /\ scraped \subseteq Labels
  BY DEF ExporterInv, TypeOK
<1> QED BY <1>1, <1>2, <1>3, <1>4, <1>5, QuietStep

LEMMA NextCollectorInv == ASSUME ExporterInv, NextCollector PROVE ExporterInv'
<1>1. /\ pc = "next" /\ pc' = "query" /\ step' = 1 /\ got' = <<>>
      /\ at' = IF at = Len(Enabled) THEN 1 ELSE at + 1
      /\ UNCHANGED <<source, link, rest, registry, scraped>>
  BY DEF NextCollector
<1>2. ~Filling /\ ~Filling'
  BY <1>1 DEF Filling
<1>3. at' \in 1..Len(Enabled)
  <2>1. at \in 0..Len(Enabled)
    BY DEF ExporterInv, TypeOK
  <2>2. at' = IF at = Len(Enabled) THEN 1 ELSE at + 1
    BY DEF NextCollector
  <2>3. Len(Enabled) \in Nat /\ Len(Enabled) >= 1
    BY Places
  <2> QED BY <2>1, <2>2, <2>3
<1>4. Len(QueriesOf(Enabled[at'])) \in {1, 2}
  BY <1>3, AtCollector DEF WellMade
<1>5. rest = {}
  BY <1>2 DEF ExporterInv, Position
<1>6. DOMAIN got' = {}
  BY <1>1, NoPairs
<1>7. Position'
  <2>1. {QueriesOf(Here')[i] : i \in 1..(step' - 1)} = {}
    BY <1>1
  <2>2. step' \in 1..Len(QueriesOf(Here'))
    BY <1>1, <1>4 DEF Here
  <2> QED BY <1>1, <1>3, <1>5, <1>6, <2>1, <2>2 DEF Position
<1>8. UNCHANGED <<up, outages, conn>>
  BY <1>1 DEF link
<1>9. /\ at' \in 0..Len(Enabled) /\ step' \in Nat /\ pc' = "query"
      /\ conn' \in {"none", "open", "dropped"} /\ scraped' \subseteq Labels
  <2>1. conn \in {"none", "open", "dropped"} /\ scraped \subseteq Labels
    BY DEF ExporterInv, TypeOK
  <2> QED BY <1>1, <1>3, <1>8, <2>1, Places
<1> QED BY <1>1, <1>2, <1>6, <1>7, <1>8, <1>9, QuietStep

LEMMA OneMore ==
    ASSUME NEW k \in Nat \ {0}
    PROVE  1..k = 1..(k - 1) \cup {k}
<1>1. \A i : i \in 1..k <=> (i \in 1..(k - 1) \/ i = k)
  OBVIOUS
<1> QED BY <1>1

\* What the thread asks next.
Asking == QueriesOf(Here)[step]

\* The thread has the answer it asked for.
LEMMA QueryFacts ==
    ASSUME ExporterInv, Query
    PROVE  /\ at \in 1..Len(Enabled) /\ Asking \in Queries /\ pc = "query"
           /\ step \in 1..Len(QueriesOf(Here))
           /\ DOMAIN got = {QueriesOf(Here)[i] : i \in 1..(step - 1)}
           /\ DOMAIN got' = DOMAIN got \cup {Asking}
           /\ got'[Asking] = Answer(Asking)
           /\ \A x \in DOMAIN got : x # Asking => got'[x] = got[x]
           /\ conn' = IF Asking \in InPostgres THEN "open" ELSE conn
           /\ \/ step = Len(QueriesOf(Here)) /\ pc' = "fill" /\ step' = 0
              \/ step # Len(QueriesOf(Here)) /\ pc' = "query" /\ step' = step + 1
           /\ UNCHANGED <<source, up, outages, at, rest, registry, scraped>>
<1>1. /\ pc = "query"
      /\ got' = [x \in DOMAIN got \cup {Asking} |->
                    IF x = Asking THEN Answer(Asking) ELSE got[x]]
      /\ conn' = IF Asking \in InPostgres THEN "open" ELSE conn
      /\ IF step = Len(QueriesOf(Here))
           THEN pc' = "fill" /\ step' = 0
           ELSE pc' = pc /\ step' = step + 1
      /\ UNCHANGED <<source, up, outages, at, rest, registry, scraped>>
  BY DEF Query, InOrder, Here, Asking
<1>2. /\ at \in 1..Len(Enabled) /\ step \in 1..Len(QueriesOf(Here))
      /\ DOMAIN got = {QueriesOf(Here)[i] : i \in 1..(step - 1)}
  BY <1>1 DEF ExporterInv, Position
<1>3. Asking \in Queries
  <2>1. /\ WellMade(QueriesOf(Here), GaugesOf(Here))
        /\ \A i \in DOMAIN QueriesOf(Here) : QueriesOf(Here)[i] \in Queries
    BY <1>2, AtCollector DEF Here
  <2>2. DOMAIN QueriesOf(Here) = 1..Len(QueriesOf(Here))
    BY <2>1 DEF WellMade
  <2> QED BY <1>2, <2>1, <2>2 DEF Asking
<1>4. /\ DOMAIN got' = DOMAIN got \cup {Asking} /\ got'[Asking] = Answer(Asking)
      /\ \A x \in DOMAIN got : x # Asking => got'[x] = got[x]
  BY <1>1
<1> QED BY <1>1, <1>2, <1>3, <1>4, Zenon

LEMMA QueryInv == ASSUME ExporterInv, Query PROVE ExporterInv'
<1> DEFINE Q == QueriesOf(Here)
           n == Len(Q)
<1>1. /\ at \in 1..Len(Enabled) /\ Asking \in Queries /\ pc = "query"
      /\ UNCHANGED <<source, up, outages, at, rest, registry, scraped>>
      /\ conn' = IF Asking \in InPostgres THEN "open" ELSE conn
  BY QueryFacts, Zenon
<1>2. n \in {1, 2} /\ DOMAIN Q = 1..n /\ Len(GaugesOf(Here)) \in {1, 2, 3, 4}
  BY <1>1, AtCollector DEF WellMade, Here
<1>3. step \in 1..n
  BY QueryFacts, Zenon
<1>4. Asking = Q[step]
  BY DEF Asking
<1>5. /\ DOMAIN got = {Q[i] : i \in 1..(step - 1)}
      /\ DOMAIN got' = DOMAIN got \cup {Asking}
      /\ got'[Asking] = Answer(Asking)
      /\ \A x \in DOMAIN got : x # Asking => got'[x] = got[x]
  BY QueryFacts, Zenon
<1>6. \/ step = n /\ pc' = "fill" /\ step' = 0
      \/ step # n /\ pc' = "query" /\ step' = step + 1
  BY QueryFacts, Zenon
<1> HIDE DEF n
<1>7. ~Filling /\ ~Filling'
  BY <1>1, <1>6 DEF Filling
<1>8. rest = {} /\ rest' = {}
  BY <1>1, <1>7 DEF ExporterInv, Position
<1>9. DOMAIN got' = {Q[i] : i \in 1..step}
  <2>1. 1..step = 1..(step - 1) \cup {step}
    <3>1. step \in Nat \ {0}
      BY <1>2, <1>3
    <3> QED BY <3>1, OneMore
  <2> QED BY <1>4, <1>5, <2>1
<1>10. Here' = Here /\ at' \in 1..Len(Enabled)
  BY <1>1 DEF Here
<1>11. Position'
  <2>1. CASE step = n /\ pc' = "fill" /\ step' = 0
    <3>1. step' \in 0..Len(GaugesOf(Here))
      BY <1>2, <2>1
    <3>2. DOMAIN got' = {Q[i] : i \in DOMAIN Q}
      BY <1>2, <1>9, <2>1
    <3> QED BY <1>8, <1>10, <2>1, <3>1, <3>2 DEF Position
  <2>2. CASE step # n /\ pc' = "query" /\ step' = step + 1
    <3>1. step' \in 1..n /\ step' - 1 = step
      BY <1>2, <1>3, <2>2
    <3> QED BY <1>8, <1>9, <1>10, <2>2, <3>1 DEF Position, n
  <2> QED BY <1>6, <2>1, <2>2
<1>12. \A x \in DOMAIN got' : x \in Queries /\ got'[x] \in Pairs(Labels)
  <2>1. Answer(Asking) \in Pairs(Labels)
    BY <1>1, Answered DEF ExporterInv
  <2>2. \A x \in DOMAIN got : x \in Queries /\ got[x] \in Pairs(Labels)
    BY DEF ExporterInv, TypeOK
  <2> QED BY <1>1, <1>5, <2>1, <2>2
<1>13. /\ conn' \in {"none", "open", "dropped"} /\ scraped' \subseteq Labels
       /\ at' \in 0..Len(Enabled)
  <2>1. /\ conn \in {"none", "open", "dropped"} /\ scraped \subseteq Labels
        /\ at \in 0..Len(Enabled)
    BY DEF ExporterInv, TypeOK
  <2> QED BY <1>1, <2>1
<1>14. step' \in Nat /\ pc' \in {"down", "next", "query", "fill"}
  BY <1>2, <1>3, <1>6
<1>15. UNCHANGED <<registry, source, rest, up, outages>>
  BY <1>1
<1> QED BY <1>7, <1>11, <1>12, <1>13, <1>14, <1>15, QuietStep

\* Both ways to leave a collector.
LEMMA LeaveInv ==
    ASSUME ExporterInv, rest = {}, step' = 0, got' = <<>>, pc' = "next",
           ~Filling \/ DOMAIN shown[Gauge] = filled[Gauge],
           UNCHANGED <<source, link, at, rest, registry, scraped>>
    PROVE  ExporterInv'
<1>1. UNCHANGED <<table, runs, lost, changes, up, conn, outages, shown, filled>>
  BY DEF source, link, registry
<1>2. TypeOK'
  <2>1. DOMAIN got' = {}
    BY NoPairs
  <2> QED BY <1>1, <2>1 DEF ExporterInv, TypeOK
<1>3. Position'
  BY DEF Position
<1>4. Refill'
  BY <1>1 DEF ExporterInv, Refill, Filling
<1> QED BY <1>2, <1>3, <1>4 DEF ExporterInv

LEMMA FailInv == ASSUME ExporterInv, Fail PROVE ExporterInv'
<1>1. /\ pc = "query" /\ step' = 0 /\ got' = <<>> /\ pc' = "next"
      /\ UNCHANGED <<source, link, at, rest, registry, scraped>>
  BY DEF Fail
<1>2. ~Filling /\ rest = {}
  BY <1>1 DEF Filling, ExporterInv, Position
<1> QED BY <1>1, <1>2, LeaveInv

LEMMA AppliedInv == ASSUME ExporterInv, Applied PROVE ExporterInv'
<1>1. /\ rest = {} /\ step' = 0 /\ got' = <<>> /\ pc' = "next"
      /\ UNCHANGED <<source, link, at, rest, registry, scraped>>
  BY DEF Applied
<1>2. ~Filling \/ DOMAIN shown[Gauge] = filled[Gauge]
  BY <1>1 DEF ExporterInv, Refill
<1> QED BY <1>1, <1>2, LeaveInv

\* The gauge the thread goes on to, and what it will show.
LEMMA ClearFacts ==
    ASSUME ExporterInv, Clear
    PROVE  /\ pc = "fill" /\ pc' = "fill" /\ rest = {}
           /\ at \in 1..Len(Enabled) /\ step' = step + 1
           /\ step' \in 1..Len(GaugesOf(Here))
           /\ DOMAIN GaugesOf(Here) = 1..Len(GaugesOf(Here))
           /\ Gauge' = GaugesOf(Here)[step'][1] /\ Gauge' \in Gauges
           /\ GaugesOf(Here)[step'][2] \in DOMAIN got
           /\ Series(step') \in Pairs(Labels)
           /\ rest' = DOMAIN Series(step')
           /\ shown' = [shown EXCEPT ![Gauge'] = <<>>]
           /\ filled' = [filled EXCEPT ![Gauge'] = DOMAIN Series(step')]
           /\ UNCHANGED <<source, link, pc, at, got, scraped>>
<1>1. /\ pc = "fill" /\ rest = {} /\ step < Len(GaugesOf(Here))
      /\ step' = step + 1
      /\ rest' = DOMAIN Series(step + 1)
      /\ shown' = [shown EXCEPT ![GaugesOf(Here)[step + 1][1]] = <<>>]
      /\ filled' = [filled EXCEPT ![GaugesOf(Here)[step + 1][1]] =
                                     DOMAIN Series(step + 1)]
      /\ UNCHANGED <<source, link, pc, at, got, scraped>>
  BY DEF Clear, Here
<1>2. /\ at \in 1..Len(Enabled) /\ step \in 0..Len(GaugesOf(Here))
      /\ DOMAIN got = {QueriesOf(Here)[i] : i \in DOMAIN QueriesOf(Here)}
  BY <1>1 DEF ExporterInv, Position
<1>3. /\ WellMade(QueriesOf(Here), GaugesOf(Here))
      /\ \A i \in DOMAIN GaugesOf(Here) : GaugesOf(Here)[i][1] \in Gauges
  BY <1>2, AtCollector DEF Here
<1>4. step + 1 \in 1..Len(GaugesOf(Here))
      /\ DOMAIN GaugesOf(Here) = 1..Len(GaugesOf(Here))
  BY <1>1, <1>2, <1>3 DEF WellMade
<1>5. GaugesOf(Here)[step + 1][2] \in DOMAIN got
  <2>1. PICK j \in DOMAIN QueriesOf(Here) :
           GaugesOf(Here)[step + 1][2] = QueriesOf(Here)[j]
    BY <1>3, <1>4 DEF WellMade
  <2> QED BY <1>2, <2>1
<1>6. Series(step + 1) \in Pairs(Labels)
  BY <1>5 DEF Series, Here, ExporterInv, TypeOK
<1>7. Gauge' = GaugesOf(Here)[step + 1][1]
  BY <1>1 DEF Gauge, Here
<1>8. Gauge' \in Gauges
  BY <1>3, <1>4, <1>7
<1> QED BY <1>1, <1>2, <1>4, <1>5, <1>6, <1>7, <1>8

LEMMA ClearInv == ASSUME ExporterInv, Clear PROVE ExporterInv'
<1> DEFINE g == Gauge'
           s == Series(step')
<1>1. /\ pc = "fill" /\ pc' = "fill" /\ rest = {}
      /\ at \in 1..Len(Enabled) /\ step' = step + 1
      /\ step' \in 1..Len(GaugesOf(Here))
      /\ g \in Gauges
      /\ s \in Pairs(Labels)
      /\ rest' = DOMAIN s
      /\ shown' = [shown EXCEPT ![g] = <<>>]
      /\ filled' = [filled EXCEPT ![g] = DOMAIN s]
      /\ UNCHANGED <<source, link, pc, at, got, scraped>>
  BY ClearFacts
<1>2. DOMAIN s \subseteq Labels /\ <<>> \in Pairs(Labels) /\ DOMAIN <<>> = {}
  BY <1>1, PairElim, NoPairs
<1>3. Series(step)' = s
  BY <1>1 DEF Series
<1>4. /\ shown \in [Gauges -> Pairs(Labels)] /\ filled \in [Gauges -> SUBSET Labels]
      /\ step \in Nat
  BY DEF ExporterInv, TypeOK
<1>5. Len(GaugesOf(Here)) \in Nat
  BY <1>1, AtCollector DEF WellMade, Here
<1> HIDE DEF g, s
<1>6. shown' \in [Gauges -> Pairs(Labels)] /\ filled' \in [Gauges -> SUBSET Labels]
      /\ rest' \subseteq Labels /\ step' \in Nat
  BY <1>1, <1>2, <1>4
<1>7. TypeOK'
  <2>1. UNCHANGED <<table, runs, lost, changes, up, conn, outages>>
    BY <1>1 DEF source, link
  <2> QED BY <1>1, <1>6, <2>1 DEF ExporterInv, TypeOK
<1>8. step' > 0 /\ step' \in 0..Len(GaugesOf(Here))
  BY <1>1, <1>5
<1>9. Filling'
  BY <1>1, <1>8 DEF Filling
<1>10. Position'
  BY <1>1, <1>8, <1>9 DEF ExporterInv, Position, Here
<1>11. \A h \in Gauges : DOMAIN shown[h] = filled[h]
  BY <1>1 DEF ExporterInv, Refill
<1>12. \A h \in Gauges : h # g => DOMAIN shown'[h] = filled'[h]
  BY <1>1, <1>4, <1>11
<1>13. filled'[g] = DOMAIN s /\ DOMAIN shown'[g] = {}
  BY <1>1, <1>2, <1>4
<1>14. Refill'
  <2>1. \A h \in Gauges : DOMAIN shown'[h] = filled'[h] \/ (Filling' /\ h = Gauge')
    BY <1>9, <1>12 DEF g
  <2>2. /\ filled'[Gauge'] = DOMAIN Series(step)'
        /\ rest' \subseteq filled'[Gauge']
        /\ filled'[Gauge'] \ rest' \subseteq DOMAIN shown'[Gauge']
        /\ DOMAIN shown'[Gauge'] \subseteq filled'[Gauge']
    BY <1>1, <1>3, <1>13 DEF g
  <2> QED BY <2>1, <2>2 DEF Refill
<1> QED BY <1>7, <1>10, <1>14 DEF ExporterInv

\* A series is made, or is given its value.
Fills(l) == Create(l) \/ Set(l)

LEMMA FillFacts ==
    ASSUME ExporterInv, NEW l \in Labels, Fills(l)
    PROVE  /\ Filling /\ l \in rest /\ rest' \subseteq rest
           /\ rest \ rest' \subseteq {l}
           /\ at \in 1..Len(Enabled)
           /\ step \in 1..Len(GaugesOf(Here))
           /\ DOMAIN GaugesOf(Here) = 1..Len(GaugesOf(Here))
           /\ Gauge \in Gauges
           /\ l \in DOMAIN Series(step)
           /\ DOMAIN shown'[Gauge] = DOMAIN shown[Gauge] \cup {l}
           /\ shown'[Gauge][l] \in {0, Series(step)[l]}
           /\ \A x \in DOMAIN shown[Gauge] : x # l => shown'[Gauge][x] = shown[Gauge][x]
           /\ shown' \in [Gauges -> Pairs(Labels)]
           /\ \A g \in Gauges : g # Gauge => shown'[g] = shown[g]
           /\ UNCHANGED <<source, link, pc, at, step, got, filled, scraped>>
<1>0. shown \in [Gauges -> Pairs(Labels)]
  BY DEF ExporterInv, TypeOK
<1>1. /\ pc = "fill" /\ l \in rest /\ rest' \subseteq rest /\ rest \ rest' \subseteq {l}
      /\ UNCHANGED <<source, link, pc, at, step, got, filled, scraped>>
  BY DEF Fills, Create, Set, thread
<1>2. Filling
  BY <1>1 DEF ExporterInv, Position
<1>3. /\ at \in 1..Len(Enabled) /\ step \in 0..Len(GaugesOf(Here))
      /\ DOMAIN got = {QueriesOf(Here)[i] : i \in DOMAIN QueriesOf(Here)}
  BY <1>1 DEF ExporterInv, Position
<1>4. /\ WellMade(QueriesOf(Here), GaugesOf(Here))
      /\ \A i \in DOMAIN GaugesOf(Here) : GaugesOf(Here)[i][1] \in Gauges
  BY <1>3, AtCollector DEF Here
<1>5. step \in 1..Len(GaugesOf(Here)) /\ DOMAIN GaugesOf(Here) = 1..Len(GaugesOf(Here))
  BY <1>2, <1>3, <1>4 DEF WellMade, Filling
<1>6. Gauge \in Gauges
  BY <1>4, <1>5 DEF Gauge, Here
<1>7. l \in DOMAIN Series(step)
  BY <1>1, <1>2 DEF ExporterInv, Refill
<1>8. Series(step) \in Pairs(Labels)
  <2>1. GaugesOf(Here)[step][2] \in DOMAIN got
    BY <1>3, <1>4, <1>5 DEF WellMade
  <2> QED BY <2>1 DEF Series, Here, ExporterInv, TypeOK
<1>9. Series(step)[l] \in {0, 1}
  BY <1>7, <1>8, PairElim
<1> DEFINE f == shown[Gauge]
<1>10. PICK v \in {0, Series(step)[l]} :
           shown' = [shown EXCEPT ![Gauge] =
                        [x \in DOMAIN f \cup {l} |-> IF x = l THEN v ELSE f[x]]]
  <2>1. CASE Create(l)
    BY <1>0, <1>6, <2>1 DEF Create
  <2>2. CASE Set(l)
    <3>1. f \in [DOMAIN f -> {0, 1}]
      BY <1>0, <1>6, PairElim
    <3>2. l \in DOMAIN f /\ shown' = [shown EXCEPT ![Gauge][l] = Series(step)[l]]
      BY <2>2 DEF Set
    <3>3. [f EXCEPT ![l] = Series(step)[l]] =
              [x \in DOMAIN f \cup {l} |-> IF x = l THEN Series(step)[l] ELSE f[x]]
      BY <3>1, <3>2
    <3>4. shown' = [shown EXCEPT ![Gauge] = [f EXCEPT ![l] = Series(step)[l]]]
      BY <1>0, <1>6, <3>2
    <3> QED BY <3>3, <3>4
  <2> QED BY <2>1, <2>2 DEF Fills
<1> DEFINE h == [x \in DOMAIN f \cup {l} |-> IF x = l THEN v ELSE f[x]]
<1>11. f \in Pairs(Labels) /\ v \in {0, 1}
  BY <1>0, <1>6, <1>9
<1>12. shown' = [shown EXCEPT ![Gauge] = h]
  BY <1>10
<1>13. shown'[Gauge] = h
  BY <1>0, <1>6, <1>12
<1>14. /\ h \in Pairs(Labels) /\ DOMAIN h = DOMAIN f \cup {l} /\ h[l] = v
       /\ \A x \in DOMAIN f : x # l => h[x] = f[x]
  <2>1. h = [x \in DOMAIN f \cup {l} |-> IF x = l THEN v ELSE f[x]]
    OBVIOUS
  <2> HIDE DEF f, h
  <2> QED BY <1>11, <2>1, SetPair
<1> HIDE DEF h
<1>15. shown' \in [Gauges -> Pairs(Labels)]
       /\ \A g \in Gauges : g # Gauge => shown'[g] = shown[g]
  BY <1>0, <1>12, <1>14
<1> QED BY <1>1, <1>2, <1>3, <1>5, <1>6, <1>7, <1>13, <1>14, <1>15

LEMMA FillInv == ASSUME ExporterInv, NEW l \in Labels, Fills(l) PROVE ExporterInv'
<1>1. /\ Filling /\ l \in rest /\ rest' \subseteq rest /\ rest \ rest' \subseteq {l}
      /\ Gauge \in Gauges
      /\ DOMAIN shown'[Gauge] = DOMAIN shown[Gauge] \cup {l}
      /\ shown' \in [Gauges -> Pairs(Labels)]
      /\ \A g \in Gauges : g # Gauge => shown'[g] = shown[g]
      /\ UNCHANGED <<source, link, pc, at, step, got, filled, scraped>>
  BY FillFacts
<1>2. Filling' /\ Gauge' = Gauge /\ Series(step)' = Series(step)
  BY <1>1 DEF Filling, Gauge, Series
<1>3. TypeOK'
  <2>1. UNCHANGED <<table, runs, lost, changes, up, conn, outages>>
    BY <1>1 DEF source, link
  <2>2. rest' \subseteq Labels
    BY <1>1 DEF ExporterInv, TypeOK
  <2> QED BY <1>1, <2>1, <2>2 DEF ExporterInv, TypeOK
<1>4. Position'
  BY <1>1, <1>2 DEF ExporterInv, Position, Here, Filling
<1>5. Refill'
  <2>1. /\ filled[Gauge] = DOMAIN Series(step) /\ rest \subseteq filled[Gauge]
        /\ filled[Gauge] \ rest \subseteq DOMAIN shown[Gauge]
        /\ DOMAIN shown[Gauge] \subseteq filled[Gauge]
        /\ \A g \in Gauges : g # Gauge => DOMAIN shown[g] = filled[g]
    BY <1>1 DEF ExporterInv, Refill
  <2>2. /\ filled[Gauge] \ rest' \subseteq DOMAIN shown'[Gauge]
        /\ DOMAIN shown'[Gauge] \subseteq filled[Gauge]
    BY <1>1, <2>1
  <2>3. \A g \in Gauges : DOMAIN shown'[g] = filled'[g] \/ (Filling' /\ g = Gauge')
    BY <1>1, <1>2, <2>1
  <2>4. /\ filled'[Gauge'] = DOMAIN Series(step)'
        /\ rest' \subseteq filled'[Gauge']
        /\ filled'[Gauge'] \ rest' \subseteq DOMAIN shown'[Gauge']
        /\ DOMAIN shown'[Gauge'] \subseteq filled'[Gauge']
    BY <1>1, <1>2, <2>1, <2>2
  <2> QED BY <2>3, <2>4 DEF Refill
<1> QED BY <1>3, <1>4, <1>5 DEF ExporterInv

LEMMA ScrapeInv == ASSUME ExporterInv, Scrape PROVE ExporterInv'
<1>1. /\ "run_status" \in Gauges
      /\ scraped' = {e \in DOMAIN shown["run_status"] : shown["run_status"][e] = 1}
      /\ UNCHANGED <<source, link, pc, at, step, got, rest, shown, filled>>
  BY DEF Scrape, thread, registry
<1>2. scraped' \subseteq Labels
  <2>1. DOMAIN shown["run_status"] \subseteq Labels
    BY <1>1, PairElim DEF ExporterInv, TypeOK
  <2> QED BY <1>1, <2>1
<1>3. TypeOK'
  BY <1>1, <1>2 DEF ExporterInv, TypeOK, source, link
<1>4. Position'
  BY <1>1 DEF ExporterInv, Position, Here, Filling
<1>5. Refill'
  BY <1>1 DEF ExporterInv, Refill, Filling, Gauge, Series
<1> QED BY <1>3, <1>4, <1>5 DEF ExporterInv

LEMMA InitExporter == Init => ExporterInv
<1> SUFFICES ASSUME Init PROVE ExporterInv
  OBVIOUS
<1>1. DOMAIN <<>> = {} /\ <<>> \in Pairs(Labels)
  BY NoPairs
<1>2. TypeOK
  <2>1. table \in [Queries \ {"latest", "last_success"} -> SUBSET Labels]
    BY DEF Init
  <2>2. runs \in [Labels -> Seq(Statuses)]
    BY DEF Init
  <2>3. up \in [{"postgres", "clickhouse"} -> BOOLEAN]
    BY DEF Init
  <2>4. shown \in [Gauges -> Pairs(Labels)] /\ filled \in [Gauges -> SUBSET Labels]
    BY <1>1 DEF Init
  <2>5. 0 \in 0..MaxChanges /\ 0 \in 0..MaxOutages /\ 0 \in 0..Len(Enabled)
    BY ExporterAssumption, Places
  <2> QED BY <1>1, <2>1, <2>2, <2>3, <2>4, <2>5 DEF Init, TypeOK
<1>3. Position
  BY DEF Init, Position, Filling
<1>4. Refill
  BY <1>1 DEF Init, Refill, Filling
<1> QED BY <1>2, <1>3, <1>4 DEF ExporterInv

LEMMA ExporterStep == ASSUME ExporterInv, [Next]_vars PROVE ExporterInv'
<1>1. CASE Start
  BY <1>1, StartInv
<1>2. CASE NextCollector
  BY <1>2, NextCollectorInv
<1>3. CASE Query
  BY <1>3, QueryInv
<1>4. CASE Fail
  BY <1>4, FailInv
<1>5. CASE Clear
  BY <1>5, ClearInv
<1>6. CASE Applied
  BY <1>6, AppliedInv
<1>7. CASE \E l \in Labels : Create(l) \/ Set(l)
  BY <1>7, FillInv DEF Fills
<1>8. CASE World
  BY <1>8, WorldInv
<1>9. CASE Scrape
  BY <1>9, ScrapeInv
<1>10. CASE UNCHANGED vars
  <2>1. UNCHANGED <<table, runs, lost, changes, up, conn, outages, pc, at,
                    step, got, rest, shown, filled, scraped>>
    BY <1>10 DEF vars, source, link, thread, registry
  <2>2. TypeOK'
    BY <2>1 DEF ExporterInv, TypeOK
  <2>3. Position'
    BY <2>1 DEF ExporterInv, Position, Here, Filling
  <2>4. Refill'
    BY <2>1 DEF ExporterInv, Refill, Filling, Gauge, Series
  <2> QED BY <2>2, <2>3, <2>4 DEF ExporterInv
<1> QED BY <1>1, <1>2, <1>3, <1>4, <1>5, <1>6, <1>7, <1>8, <1>9, <1>10
        DEF Next, Thread

(* Where the thread is, with what of the gauge it is at is still to be     *)
(* set: inductive beside every scrape, every change and every outage.      *)
THEOREM ExporterInvariant == Spec => []ExporterInv
<1>1. Init => ExporterInv
  BY InitExporter
<1>2. ExporterInv /\ [Next]_vars => ExporterInv'
  BY ExporterStep
<1> QED BY <1>1, <1>2, PTL DEF Spec

(* Every variable keeps its type: what a query answers is a value for each *)
(* label, and no gauge shows anything else.                                *)
THEOREM TypeCorrect == Spec => []TypeOK
<1>1. ExporterInv => TypeOK
  BY DEF ExporterInv
<1> QED BY <1>1, ExporterInvariant, PTL

(* A scrape misses a series of the last collection only from the gauge     *)
(* that _apply has cleared and not yet set again.                          *)
THEOREM GapsAreRefills == Spec => []GapsOnlyWhileRefilling
<1>1. ExporterInv => GapsOnlyWhileRefilling
  BY DEF ExporterInv, Refill, Filling, GapsOnlyWhileRefilling
<1> QED BY <1>1, ExporterInvariant, PTL

-----------------------------------------------------------------------------
(* The times of the last successes.                                        *)

SaysSuccess(f) == {e \in DOMAIN f : f[e] = 1}

\* What the alerts take to have succeeded: by the last scrape, or by the next.
Believed == scraped \cup SaysSuccess(shown["run_status"])

\* Whoever is said to have succeeded, and never lost its last success, still has
\* one, whichever of its copies says so: the last scrape, the gauge, or what
\* the thread has read and not yet shown.
Truthful ==
    /\ \A e \in Believed \ lost : Succeeded(e)
    /\ "latest" \in DOMAIN got =>
          \A e \in SaysSuccess(got["latest"]) \ lost : Succeeded(e)

\* The times that were asked for after it have it.
Asked ==
    "last_success" \in DOMAIN got =>
        /\ SaysSuccess(got["latest"]) \ lost \subseteq DOMAIN got["last_success"]
        /\ Believed \ lost \subseteq DOMAIN got["last_success"]

\* And so does the gauge of the times, when it is not being filled.
Timed ==
    Settled("ingestion_run") =>
        Believed \ lost \subseteq DOMAIN shown["last_success"]

TimestampInv ==
    /\ ExporterInv
    /\ "ingestion_run" \in Running => Truthful /\ Asked /\ Timed

LEMMA RunGauges ==
    ASSUME "ingestion_run" \in Running
    PROVE  /\ {"run_status", "rows_last_run", "last_success"} \subseteq Gauges
           /\ "latest" \in Queries /\ "last_success" \in Queries
<1>1. /\ QueriesOf("ingestion_run") = <<"latest", "last_success">>
      /\ GaugesOf("ingestion_run") =
            << <<"run_status", "latest">>, <<"rows_last_run", "latest">>,
               <<"last_success", "last_success">> >>
  BY RunCollector
<1>2. /\ \A i \in DOMAIN GaugesOf("ingestion_run") :
            GaugesOf("ingestion_run")[i][1] \in Gauges
      /\ \A i \in DOMAIN QueriesOf("ingestion_run") :
            QueriesOf("ingestion_run")[i] \in Queries
  BY DEF Gauges, Queries
<1>3. /\ 1 \in DOMAIN GaugesOf("ingestion_run") /\ 2 \in DOMAIN GaugesOf("ingestion_run")
      /\ 3 \in DOMAIN GaugesOf("ingestion_run")
      /\ 1 \in DOMAIN QueriesOf("ingestion_run") /\ 2 \in DOMAIN QueriesOf("ingestion_run")
  BY <1>1
<1>4. /\ GaugesOf("ingestion_run")[1][1] = "run_status"
      /\ GaugesOf("ingestion_run")[2][1] = "rows_last_run"
      /\ GaugesOf("ingestion_run")[3][1] = "last_success"
      /\ QueriesOf("ingestion_run")[1] = "latest"
      /\ QueriesOf("ingestion_run")[2] = "last_success"
  BY <1>1
<1> QED BY <1>2, <1>3, <1>4

\* An entity that has a success keeps one, unless it loses the last.
LEMMA SuccessStays ==
    ASSUME TypeOK, World
    PROVE  /\ lost \subseteq lost'
           /\ \A e \in Labels \ lost' : Succeeded(e) => Succeeded(e)'
<1>1. ASSUME NEW e \in Labels, StartRun(e)
      PROVE  /\ lost' = lost
             /\ \A x \in Labels : Succeeded(x) => Succeeded(x)'
  <2>1. lost' = lost /\ runs' = [runs EXCEPT ![e] = Append(@, "running")]
    BY <1>1 DEF StartRun
  <2>2. runs[e] \in Seq(Statuses) /\ "running" \in Statuses
    BY DEF TypeOK, Statuses
  <2>3. \A i \in DOMAIN runs[e] : /\ i \in DOMAIN Append(runs[e], "running")
                                  /\ Append(runs[e], "running")[i] = runs[e][i]
    BY <2>2
  <2>4. runs'[e] = Append(runs[e], "running") /\ \A x \in Labels : x # e => runs'[x] = runs[x]
    BY <2>1 DEF TypeOK
  <2>5. Succeeded(e) => Succeeded(e)'
    BY <2>3, <2>4 DEF Succeeded
  <2>6. \A x \in Labels : x # e => (Succeeded(x) => Succeeded(x)')
    BY <2>4 DEF Succeeded
  <2> QED BY <2>1, <2>5, <2>6
<1>2. ASSUME LoseSuccesses
      PROVE  /\ lost \subseteq lost'
             /\ \A x \in Labels \ lost' : Succeeded(x) => Succeeded(x)'
  BY <1>2 DEF LoseSuccesses
<1>3. ASSUME runs' = runs, lost' = lost
      PROVE  /\ lost \subseteq lost'
             /\ \A x \in Labels \ lost' : Succeeded(x) => Succeeded(x)'
  BY <1>3 DEF Succeeded
<1>4. CASE \E q \in DOMAIN table \ Fixed : Change(q)
  BY <1>3, <1>4 DEF Change
<1>5. CASE \E d \in DOMAIN up : Outage(d) \/ Recover(d)
  BY <1>3, <1>5 DEF Outage, Recover, source
<1>6. CASE \E e \in Labels : \/ ApplyRetention(e)
                            \/ \E s \in {"success", "failed"} : EndRun(e, s)
  BY <1>2, <1>6 DEF ApplyRetention, EndRun
<1> QED BY <1>1, <1>4, <1>5, <1>6 DEF World

\* What anything says of success it says of labels.
LEMMA BelievedLabels ==
    ASSUME ExporterInv, "ingestion_run" \in Running
    PROVE  /\ Believed \subseteq Labels
           /\ "latest" \in DOMAIN got => SaysSuccess(got["latest"]) \subseteq Labels
<1>1. shown["run_status"] \in Pairs(Labels) /\ scraped \subseteq Labels
  BY RunGauges DEF ExporterInv, TypeOK
<1>2. "latest" \in DOMAIN got => got["latest"] \in Pairs(Labels)
  BY DEF ExporterInv, TypeOK
<1> QED BY <1>1, <1>2, PairElim DEF Believed, SaysSuccess

\* Which queries the thread has an answer to.
LEMMA AskedOrder ==
    ASSUME ExporterInv
    PROVE  /\ "latest" \in DOMAIN got \/ "last_success" \in DOMAIN got =>
                 at \in 1..Len(Enabled) /\ Here = "ingestion_run"
           /\ "last_success" \in DOMAIN got => "latest" \in DOMAIN got
<1> DEFINE Q == QueriesOf(Here)
<1>1. CASE pc \in {"down", "next"}
  BY <1>1, NoPairs DEF ExporterInv, Position
<1>2. CASE pc \in {"query", "fill"}
  <2>1. at \in 1..Len(Enabled)
    BY <1>2 DEF ExporterInv, Position
  <2>2. /\ WellMade(Q, GaugesOf(Here))
        /\ Here # "ingestion_run" => Foreign(Q, GaugesOf(Here))
    BY <2>1, AtCollector DEF Here
  <2>3. Len(Q) \in {1, 2} /\ DOMAIN Q = 1..Len(Q)
    BY <2>2 DEF WellMade
  <2>4. \/ DOMAIN got = {Q[i] : i \in DOMAIN Q}
        \/ step \in 1..Len(Q) /\ DOMAIN got = {Q[i] : i \in 1..(step - 1)}
    BY <1>2 DEF ExporterInv, Position
  <2>5. \A x \in DOMAIN got : \E i \in DOMAIN Q : x = Q[i]
    BY <2>3, <2>4
  <2>6. CASE Here # "ingestion_run"
    BY <2>2, <2>5, <2>6 DEF Foreign
  <2>7. CASE Here = "ingestion_run"
    <3>1. Q = <<"latest", "last_success">>
      BY <2>7, RunCollector
    <3>2. Q[1] = "latest" /\ Q[2] = "last_success" /\ DOMAIN Q = 1..2 /\ Len(Q) = 2
      BY <3>1
    <3>3. "last_success" \in DOMAIN got => "latest" \in DOMAIN got
      <4>1. CASE DOMAIN got = {Q[i] : i \in DOMAIN Q}
        BY <3>2, <4>1
      <4>2. CASE step \in 1..Len(Q) /\ DOMAIN got = {Q[i] : i \in 1..(step - 1)}
        <5>1. step = 1 \/ step = 2
          BY <3>2, <4>2
        <5>2. DOMAIN got = {} \/ DOMAIN got = {Q[1]}
          BY <4>2, <5>1
        <5> QED BY <3>2, <5>2
      <4> QED BY <2>4, <4>1, <4>2
    <3> QED BY <2>1, <2>7, <3>3
  <2> QED BY <2>6, <2>7
<1> QED BY <1>1, <1>2 DEF ExporterInv, TypeOK

\* A step of the thread or a scrape that makes nobody believed but those who
\* were, or those of whom the thread has read it.
LEMMA NothingNew ==
    ASSUME Truthful, Asked, UNCHANGED <<runs, lost>>,
           got' = got \/ got' = <<>>,
           \A e \in Believed' : \/ e \in Believed
                                \/ /\ got' = got
                                   /\ "latest" \in DOMAIN got
                                   /\ e \in SaysSuccess(got["latest"])
    PROVE  Truthful' /\ Asked'
<1>1. DOMAIN <<>> = {}
  BY NoPairs
<1>2. \A e : Succeeded(e)' <=> Succeeded(e)
  BY DEF Succeeded
<1>3. Truthful'
  BY <1>1, <1>2 DEF Truthful, SaysSuccess
<1>4. Asked'
  <2>1. CASE got' = <<>>
    BY <1>1, <2>1 DEF Asked
  <2>2. CASE got' = got /\ "last_success" \in DOMAIN got
    BY <2>2 DEF Asked, SaysSuccess
  <2>3. CASE got' = got /\ "last_success" \notin DOMAIN got
    BY <2>3 DEF Asked
  <2> QED BY <2>1, <2>2, <2>3
<1> QED BY <1>3, <1>4

\* Where the gauges of the runs are not touched.
LEMMA NothingShown ==
    ASSUME Timed, UNCHANGED <<lost, scraped>>,
           shown'["run_status"] = shown["run_status"],
           shown'["last_success"] = shown["last_success"],
           Settled("ingestion_run")
    PROVE  Believed' = Believed /\ Timed'
<1>1. Believed' = Believed
  BY DEF Believed, SaysSuccess
<1> QED BY <1>1 DEF Timed

LEMMA TimesWorld ==
    ASSUME ExporterInv, "ingestion_run" \in Running, Truthful, Asked, Timed, World
    PROVE  Truthful' /\ Asked' /\ Timed'
<1>1. UNCHANGED <<pc, at, step, got, rest, shown, filled, scraped>>
  BY WorldKeeps DEF thread, registry
<1>2. /\ lost \subseteq lost'
      /\ \A e \in Labels \ lost' : Succeeded(e) => Succeeded(e)'
  BY SuccessStays DEF ExporterInv
<1>3. Believed' = Believed
  BY <1>1 DEF Believed, SaysSuccess
<1>4. /\ Believed \subseteq Labels
      /\ "latest" \in DOMAIN got => SaysSuccess(got["latest"]) \subseteq Labels
  BY BelievedLabels
<1>5. Truthful'
  <2>1. \A e \in Believed' \ lost' : Succeeded(e)'
    BY <1>2, <1>3, <1>4 DEF Truthful
  <2>2. "latest" \in DOMAIN got =>
           \A e \in SaysSuccess(got["latest"]) \ lost' : Succeeded(e)'
    BY <1>2, <1>4 DEF Truthful
  <2> QED BY <1>1, <2>1, <2>2 DEF Truthful, SaysSuccess
<1>6. Asked'
  BY <1>1, <1>2, <1>3 DEF Asked, SaysSuccess
<1>7. Timed'
  BY <1>1, <1>2, <1>3 DEF Timed, Settled
<1> QED BY <1>5, <1>6, <1>7

LEMMA TimesQuery ==
    ASSUME ExporterInv, "ingestion_run" \in Running, Truthful, Asked, Timed, Query
    PROVE  Truthful' /\ Asked' /\ Timed'
<1> DEFINE q == Asking
           n == Len(QueriesOf(Here))
<1>0. step \in 1..n
  BY QueryFacts, Zenon
<1>1. /\ at \in 1..Len(Enabled) /\ q \in Queries
      /\ DOMAIN got = {QueriesOf(Here)[i] : i \in 1..(step - 1)}
      /\ DOMAIN got' = DOMAIN got \cup {q}
      /\ got'[q] = Answer(q)
      /\ \A x \in DOMAIN got : x # q => got'[x] = got[x]
      /\ pc = "query"
      /\ UNCHANGED <<source, up, outages, at, rest, registry, scraped>>
  BY QueryFacts, Zenon
<1>2. UNCHANGED <<shown, scraped, lost, runs>>
  BY <1>1 DEF registry, source
<1>3. Settled("ingestion_run")
  BY <1>1 DEF Settled
<1>4. Believed' = Believed /\ Timed'
  BY <1>2, <1>3, NothingShown
<1>5. \A e : Succeeded(e)' <=> Succeeded(e)
  BY <1>2 DEF Succeeded
<1>6. CASE Here # "ingestion_run"
  <2>1. Foreign(QueriesOf(Here), GaugesOf(Here))
    BY <1>1, <1>6, AtCollector DEF Here
  <2>2. q \notin {"latest", "last_success"}
    <3>1. DOMAIN QueriesOf(Here) = 1..n
      BY <1>1, AtCollector DEF WellMade, Here
    <3> QED BY <1>0, <2>1, <3>1 DEF Foreign, Asking
  <2>3. "latest" \notin DOMAIN got /\ "last_success" \notin DOMAIN got
    BY <1>6, AskedOrder
  <2>4. "latest" \notin DOMAIN got' /\ "last_success" \notin DOMAIN got'
    BY <1>1, <2>2, <2>3
  <2> QED BY <1>2, <1>4, <1>5, <2>4 DEF Truthful, Asked
<1>7. CASE Here = "ingestion_run"
  <2>1. /\ QueriesOf(Here)[1] = "latest" /\ QueriesOf(Here)[2] = "last_success"
        /\ n = 2
    BY <1>7, RunCollector
  <2>2. step = 1 \/ step = 2
    BY <1>0, <2>1
  <2>3. CASE step = 1
    <3>1. DOMAIN got = {}
      BY <1>1, <2>3
    <3>2. q = "latest" /\ DOMAIN got' = {"latest"} /\ got'["latest"] = Latest
      BY <1>1, <2>1, <2>3, <3>1 DEF Answer, Asking
    <3>3. ASSUME NEW e \in SaysSuccess(Latest) PROVE Succeeded(e)
      <4>1. e \in Labels /\ runs[e] # <<>> /\ Last(runs[e]) = "success"
        BY <3>3 DEF SaysSuccess, Latest, WithRuns
      <4>2. runs[e] \in Seq(Statuses)
        BY <4>1 DEF ExporterInv, TypeOK
      <4>3. Len(runs[e]) \in DOMAIN runs[e]
        BY <4>1, <4>2
      <4> QED BY <4>1, <4>3 DEF Last, Succeeded
    <3>4. Truthful'
      <4>1. SaysSuccess(got["latest"])' = SaysSuccess(Latest)
        BY <3>2 DEF SaysSuccess
      <4> QED BY <1>2, <1>4, <1>5, <3>3, <4>1 DEF Truthful
    <3>5. Asked'
      BY <3>2 DEF Asked
    <3> QED BY <1>4, <3>4, <3>5
  <2>4. CASE step = 2
    <3>1. DOMAIN got = {"latest"}
      <4>1. 1..(step - 1) = {1}
        BY <2>4
      <4>2. DOMAIN got = {QueriesOf(Here)[i] : i \in 1..(step - 1)}
        BY <1>1
      <4> QED BY <2>1, <4>1, <4>2
    <3>2. /\ q = "last_success" /\ DOMAIN got' = {"latest", "last_success"}
          /\ got'["latest"] = got["latest"]
      BY <1>1, <2>1, <2>4, <3>1 DEF Asking
    <3>3. got'["last_success"] = LastSuccess
      BY <1>1, <3>2 DEF Answer
    <3>4. \A e \in Labels : Succeeded(e) => e \in DOMAIN LastSuccess
      BY DEF Succeeded, LastSuccess
    <3>5. /\ Believed \subseteq Labels
          /\ SaysSuccess(got["latest"]) \subseteq Labels
      BY <3>1, BelievedLabels
    <3>6. SaysSuccess(got["latest"])' = SaysSuccess(got["latest"])
      BY <3>2 DEF SaysSuccess
    <3>7. Truthful'
      BY <1>2, <1>4, <1>5, <3>1, <3>6 DEF Truthful
    <3>8. Asked'
      BY <1>2, <1>4, <3>1, <3>3, <3>4, <3>5, <3>6 DEF Truthful, Asked
    <3> QED BY <1>4, <3>7, <3>8
  <2> QED BY <2>2, <2>3, <2>4
<1> QED BY <1>6, <1>7

\* Where the collector of the runs is: its gauges, by number.
LEMMA RunPlaces ==
    ASSUME Here = "ingestion_run"
    PROVE  /\ GaugesOf(Here)[1] = <<"run_status", "latest">>
           /\ GaugesOf(Here)[2] = <<"rows_last_run", "latest">>
           /\ GaugesOf(Here)[3] = <<"last_success", "last_success">>
           /\ Len(GaugesOf(Here)) = 3
           /\ QueriesOf(Here)[1] = "latest" /\ QueriesOf(Here)[2] = "last_success"
           /\ DOMAIN QueriesOf(Here) = 1..2
BY RunCollector

LEMMA TimesClear ==
    ASSUME ExporterInv, "ingestion_run" \in Running, Truthful, Asked, Timed, Clear
    PROVE  Truthful' /\ Asked' /\ Timed'
<1>1. /\ pc = "fill" /\ pc' = "fill"
      /\ at \in 1..Len(Enabled)
      /\ step' \in 1..Len(GaugesOf(Here))
      /\ DOMAIN GaugesOf(Here) = 1..Len(GaugesOf(Here))
      /\ Gauge' = GaugesOf(Here)[step'][1] /\ Gauge' \in Gauges
      /\ shown' = [shown EXCEPT ![Gauge'] = <<>>]
      /\ UNCHANGED <<source, link, pc, at, got, scraped>>
  BY ClearFacts
<1>2. UNCHANGED <<runs, lost>>
  BY <1>1 DEF source
<1>3. "run_status" \in Gauges /\ "last_success" \in Gauges
      /\ shown \in [Gauges -> Pairs(Labels)]
  BY RunGauges DEF ExporterInv, TypeOK
<1>4. Believed' \subseteq Believed
  <2>1. shown'["run_status"] = shown["run_status"] \/ shown'["run_status"] = <<>>
    BY <1>1, <1>3
  <2>2. DOMAIN <<>> = {}
    BY NoPairs
  <2> QED BY <1>1, <2>1, <2>2 DEF Believed, SaysSuccess
<1>5. Truthful' /\ Asked'
  BY <1>1, <1>2, <1>4, NothingNew
<1>6. Timed'
  <2>1. CASE Here = "ingestion_run"
    BY <1>1, <2>1 DEF Timed, Settled, Here
  <2>2. CASE Here # "ingestion_run"
    <3>1. Foreign(QueriesOf(Here), GaugesOf(Here))
      BY <1>1, <2>2, AtCollector DEF Here
    <3>2. Gauge' # "run_status" /\ Gauge' # "last_success"
      BY <1>1, <3>1 DEF Foreign
    <3>3. /\ shown'["run_status"] = shown["run_status"]
          /\ shown'["last_success"] = shown["last_success"]
      BY <1>1, <1>3, <3>2
    <3>4. Settled("ingestion_run")
      BY <2>2 DEF Settled, Here
    <3> QED BY <1>1, <1>2, <3>3, <3>4, NothingShown
  <2> QED BY <2>1, <2>2
<1> QED BY <1>5, <1>6

LEMMA TimesFill ==
    ASSUME ExporterInv, "ingestion_run" \in Running, Truthful, Asked, Timed,
           NEW l \in Labels, Fills(l)
    PROVE  Truthful' /\ Asked' /\ Timed'
<1>1. /\ Filling /\ at \in 1..Len(Enabled)
      /\ step \in 1..Len(GaugesOf(Here))
      /\ DOMAIN GaugesOf(Here) = 1..Len(GaugesOf(Here))
      /\ Gauge \in Gauges
      /\ l \in DOMAIN Series(step)
      /\ DOMAIN shown'[Gauge] = DOMAIN shown[Gauge] \cup {l}
      /\ shown'[Gauge][l] \in {0, Series(step)[l]}
      /\ \A x \in DOMAIN shown[Gauge] : x # l => shown'[Gauge][x] = shown[Gauge][x]
      /\ \A g \in Gauges : g # Gauge => shown'[g] = shown[g]
      /\ UNCHANGED <<source, link, pc, at, step, got, filled, scraped>>
  BY FillFacts
<1>2. UNCHANGED <<runs, lost>>
  BY <1>1 DEF source
<1>3. "run_status" \in Gauges /\ "last_success" \in Gauges
  BY RunGauges
<1>4. CASE Here # "ingestion_run"
  <2>1. Foreign(QueriesOf(Here), GaugesOf(Here))
    BY <1>1, <1>4, AtCollector DEF Here
  <2>2. Gauge # "run_status" /\ Gauge # "last_success"
    BY <1>1, <2>1 DEF Foreign, Gauge, Here
  <2>3. /\ shown'["run_status"] = shown["run_status"]
        /\ shown'["last_success"] = shown["last_success"]
    BY <1>1, <1>3, <2>2
  <2>4. Settled("ingestion_run")
    BY <1>4 DEF Settled, Here
  <2>5. Believed' = Believed /\ Timed'
    BY <1>1, <1>2, <2>3, <2>4, NothingShown
  <2> QED BY <1>1, <1>2, <2>5, NothingNew
<1>5. CASE Here = "ingestion_run"
  <2>1. Timed'
    BY <1>1, <1>5 DEF Timed, Settled, Here, Filling
  <2>2. /\ GaugesOf(Here)[1] = <<"run_status", "latest">>
        /\ GaugesOf(Here)[2] = <<"rows_last_run", "latest">>
        /\ GaugesOf(Here)[3] = <<"last_success", "last_success">>
        /\ Len(GaugesOf(Here)) = 3
    BY <1>5, RunPlaces
  <2>3. step = 1 \/ step = 2 \/ step = 3
    BY <1>1, <2>2
  <2>4. CASE step = 1
    <3>1. Gauge = "run_status" /\ Series(step) = got["latest"]
      BY <2>2, <2>4 DEF Gauge, Series, Here
    <3>2. "latest" \in DOMAIN got
      <4>1. DOMAIN got = {QueriesOf(Here)[i] : i \in DOMAIN QueriesOf(Here)}
        BY <1>1 DEF Filling, ExporterInv, Position
      <4>2. QueriesOf(Here)[1] = "latest" /\ 1 \in DOMAIN QueriesOf(Here)
        BY <1>5, RunPlaces
      <4> QED BY <4>1, <4>2
    <3>3. ASSUME NEW e \in Believed'
          PROVE  e \in Believed \/ e \in SaysSuccess(got["latest"])
      <4>1. CASE e \in scraped'
        BY <1>1, <4>1 DEF Believed
      <4>2. CASE e \in SaysSuccess(shown'["run_status"])
        <5>1. CASE e = l
          BY <1>1, <3>1, <4>2, <5>1 DEF SaysSuccess
        <5>2. CASE e # l
          BY <1>1, <3>1, <4>2, <5>2 DEF SaysSuccess, Believed
        <5> QED BY <5>1, <5>2
      <4> QED BY <3>3, <4>1, <4>2 DEF Believed, SaysSuccess
    <3> QED BY <1>1, <1>2, <2>1, <3>2, <3>3, NothingNew
  <2>5. CASE step = 2 \/ step = 3
    <3>1. Gauge # "run_status"
      BY <2>2, <2>5 DEF Gauge, Here
    <3>2. shown'["run_status"] = shown["run_status"]
      BY <1>1, <1>3, <3>1
    <3>3. Believed' = Believed
      BY <1>1, <3>2 DEF Believed, SaysSuccess
    <3> QED BY <1>1, <1>2, <2>1, <3>3, NothingNew
  <2> QED BY <2>3, <2>4, <2>5
<1> QED BY <1>4, <1>5

LEMMA TimesApplied ==
    ASSUME ExporterInv, "ingestion_run" \in Running, Truthful, Asked, Timed, Applied
    PROVE  Truthful' /\ Asked' /\ Timed'
<1>1. /\ pc = "fill" /\ rest = {} /\ step = Len(GaugesOf(Here))
      /\ got' = <<>>
      /\ UNCHANGED <<source, registry, scraped>>
  BY DEF Applied, Here
<1>2. UNCHANGED <<runs, lost, shown, filled>>
  BY <1>1 DEF source, registry
<1>3. Believed' = Believed
  BY <1>1, <1>2 DEF Believed, SaysSuccess
<1>4. Truthful' /\ Asked'
  BY <1>1, <1>2, <1>3, NothingNew
<1>5. CASE Here # "ingestion_run"
  <2>1. Settled("ingestion_run")
    BY <1>5 DEF Settled, Here
  <2> QED BY <1>1, <1>2, <1>4, <2>1, NothingShown
<1>6. CASE Here = "ingestion_run"
  <2>1. /\ GaugesOf(Here)[3] = <<"last_success", "last_success">>
        /\ Len(GaugesOf(Here)) = 3
        /\ QueriesOf(Here)[2] = "last_success"
        /\ DOMAIN QueriesOf(Here) = 1..2
    BY <1>6, RunPlaces
  <2>2. Gauge = "last_success" /\ Series(step) = got["last_success"] /\ Filling
    BY <1>1, <2>1 DEF Gauge, Series, Here, Filling
  <2>3. DOMAIN shown["last_success"] = DOMAIN got["last_success"]
    BY <1>1, <2>2 DEF ExporterInv, Refill
  <2>4. "last_success" \in DOMAIN got
    <3>1. DOMAIN got = {QueriesOf(Here)[i] : i \in DOMAIN QueriesOf(Here)}
      BY <1>1 DEF ExporterInv, Position
    <3> QED BY <2>1, <3>1
  <2>5. Believed \ lost \subseteq DOMAIN shown["last_success"]
    BY <2>3, <2>4 DEF Asked
  <2> QED BY <1>2, <1>3, <1>4, <2>5 DEF Timed
<1> QED BY <1>5, <1>6

LEMMA TimestampStep ==
    ASSUME TimestampInv, [Next]_vars, "ingestion_run" \in Running
    PROVE  Truthful' /\ Asked' /\ Timed'
<1>0. ExporterInv /\ Truthful /\ Asked /\ Timed
  BY DEF TimestampInv
<1>1. ASSUME pc # "fill", got' = got \/ got' = <<>>,
             UNCHANGED <<runs, lost, shown, scraped>>
      PROVE  Truthful' /\ Asked' /\ Timed'
  <2>1. Settled("ingestion_run")
    BY <1>1 DEF Settled
  <2>2. Believed' = Believed /\ Timed'
    BY <1>0, <1>1, <2>1, NothingShown
  <2> QED BY <1>0, <1>1, <2>2, NothingNew
<1>2. CASE Start
  BY <1>1, <1>2 DEF Start, source, registry
<1>3. CASE NextCollector
  BY <1>1, <1>3 DEF NextCollector, source, registry
<1>4. CASE Query
  BY <1>0, <1>4, TimesQuery
<1>5. CASE Fail
  BY <1>1, <1>5 DEF Fail, source, registry
<1>6. CASE Clear
  BY <1>0, <1>6, TimesClear
<1>7. CASE Applied
  BY <1>0, <1>7, TimesApplied
<1>8. CASE \E l \in Labels : Create(l) \/ Set(l)
  BY <1>0, <1>8, TimesFill DEF Fills
<1>9. CASE World
  BY <1>0, <1>9, TimesWorld
<1>10. CASE Scrape
  <2>1. /\ scraped' = SaysSuccess(shown["run_status"])
        /\ UNCHANGED <<runs, lost, shown, got, pc, at>>
    BY <1>10 DEF Scrape, SaysSuccess, source, thread, registry
  <2>2. Believed' \subseteq Believed
    BY <2>1 DEF Believed, SaysSuccess
  <2>3. Truthful' /\ Asked'
    BY <1>0, <2>1, <2>2, NothingNew
  <2>4. Timed'
    BY <1>0, <2>1, <2>2 DEF Timed, Settled
  <2> QED BY <2>3, <2>4
<1>11. CASE UNCHANGED vars
  <2>1. UNCHANGED <<runs, lost, shown, got, pc, at, scraped>>
    BY <1>11 DEF vars, source, thread, registry
  <2>2. Believed' = Believed
    BY <2>1 DEF Believed, SaysSuccess
  <2>3. Truthful' /\ Asked'
    BY <1>0, <2>1, <2>2, NothingNew
  <2>4. Timed'
    BY <1>0, <2>1, <2>2 DEF Timed, Settled
  <2> QED BY <2>3, <2>4
<1> QED BY <1>2, <1>3, <1>4, <1>5, <1>6, <1>7, <1>8, <1>9, <1>10, <1>11
        DEF Next, Thread

LEMMA InitTimestamps == Init => TimestampInv
<1> SUFFICES ASSUME Init PROVE TimestampInv
  OBVIOUS
<1>1. ExporterInv
  BY InitExporter
<1>2. ASSUME "ingestion_run" \in Running PROVE Truthful /\ Asked /\ Timed
  <2>1. DOMAIN <<>> = {}
    BY NoPairs
  <2>2. shown["run_status"] = <<>> /\ scraped = {} /\ got = <<>>
    BY <1>2, RunGauges DEF Init
  <2>3. Believed = {}
    BY <2>1, <2>2 DEF Believed, SaysSuccess
  <2> QED BY <2>1, <2>2, <2>3 DEF Truthful, Asked, Timed
<1> QED BY <1>1, <1>2 DEF TimestampInv

(* Who is believed to have succeeded has succeeded, and has a time of it   *)
(* wherever the thread has already asked for the times.                    *)
THEOREM TimestampInvariant == Spec => []TimestampInv
<1>1. Init => TimestampInv
  BY InitTimestamps
<1>2. TimestampInv /\ [Next]_vars => TimestampInv'
  BY ExporterStep, TimestampStep DEF TimestampInv, Running
<1> QED BY <1>1, <1>2, PTL DEF Spec

(* The alerts that compare a status with the time of the last success      *)
(* find the time: the collector asks for the statuses first, and a success *)
(* that is not lost is still one when it asks for the times.               *)
THEOREM SuccessesAreTimed == Spec => []SuccessHasTimestamp
<1>1. TimestampInv => SuccessHasTimestamp
  BY DEF TimestampInv, Timed, Believed, SuccessHasTimestamp
<1> QED BY <1>1, TimestampInvariant, PTL
=============================================================================
