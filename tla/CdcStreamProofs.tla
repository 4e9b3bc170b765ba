-------------------------- MODULE CdcStreamProofs --------------------------
(***************************************************************************)
(* Three results, for any number of keys, tables, partitions, restarts and *)
(* flawed changes.  The counts the sensor compares are read at different   *)
(* moments, from two databases that both move meanwhile, yet counts that   *)
(* agree mean that no key is missing.  A replay never wins over something  *)
(* newer.  And once all is delivered, FINAL shows the last changes that    *)
(* the views let through, whatever was sent again, read again or merged,   *)
(* and though commits share a time.                                        *)
(***************************************************************************)
EXTENDS CdcStream, FiniteSetTheorems, SequenceTheorems, TLAPS

\* No row of the landing schema, and none of ClickHouse, comes from nowhere.
LogOK == \A l \in DOMAIN wal : rows[wal[l].key] # 0
RawOK == \A k \in Keys : raw[k] # <<>> => rows[k] # 0

\* The keys behind the count of ClickHouse are still there, and whatever
\* PostgreSQL has been asked since has them too.
Counting ==
    gate = "counting" => \A e \in Entities : \E S \in SUBSET Landed(e) :
        Cardinality(S) = target[e] /\ (e \in DOMAIN source => S \subseteq source[e])

Idle == gate # "counting" => DOMAIN source = {}

GateInv == TypeOK /\ LogOK /\ RawOK /\ Counting /\ Idle

-----------------------------------------------------------------------------
LEMMA FiniteKeys ==
    ASSUME NEW e \in Entities
    PROVE  IsFiniteSet(KeysOf(e)) /\ KeysOf(e) \subseteq Keys
<1>1. KeysOf(e) \in SUBSET Keys
  BY DEF KeysOf
<1>2. IsFiniteSet(Keys)
  BY CdcAssumption
<1> QED BY <1>1, <1>2, FS_Subset

LEMMA FiniteLanded ==
    ASSUME NEW e \in Entities
    PROVE  IsFiniteSet(Landed(e)) /\ Cardinality(Landed(e)) \in Nat
<1>1. Landed(e) \in SUBSET KeysOf(e)
  BY DEF Landed
<1>2. IsFiniteSet(Landed(e))
  BY <1>1, FiniteKeys, FS_Subset
<1> QED BY <1>2, FS_CardinalityType

\* An event of the log names a key, its table and its partition.
LEMMA EventOf ==
    ASSUME TypeOK, NEW l \in 1..Len(wal)
    PROVE  /\ l \in DOMAIN wal /\ l \in Nat
           /\ wal[l].key \in Keys /\ wal[l].ms \in Nat
           /\ EntityOf[wal[l].key] \in Entities
           /\ PartitionOf[wal[l].key] \in Partitions
<1>1. wal \in Seq(Change)
  BY DEF TypeOK
<1>2. l \in DOMAIN wal /\ l \in Nat /\ wal[l] \in Change
  BY <1>1
<1>3. wal[l].key \in Keys /\ wal[l].ms \in Nat
  BY <1>2 DEF Change
<1> QED BY <1>2, <1>3, CdcAssumption

LEMMA InitType == Init => TypeOK
<1> SUFFICES ASSUME Init PROVE TypeOK
  OBVIOUS
<1>1. wal = <<>> /\ Len(wal) = 0 /\ wal \in Seq(Change)
  BY DEF Init
<1>2. rows \in [Keys -> 0..Len(wal)] /\ staging \in [Keys -> 0..Len(wal)]
  BY <1>1 DEF Init
<1>3. clock \in Nat /\ sent \in 0..Len(wal) /\ restarts \in Nat
  BY <1>1 DEF Init
<1>4. topic \in [Partitions -> Seq(1..Len(wal))]
  <2>1. <<>> \in Seq(1..Len(wal))
    OBVIOUS
  <2> QED BY <2>1 DEF Init
<1>5. raw \in [Keys -> Seq(1..Len(wal))]
  <2>1. <<>> \in Seq(1..Len(wal))
    OBVIOUS
  <2> QED BY <2>1 DEF Init
<1>6. /\ read \in [Partitions -> Nat]
      /\ \A p \in Partitions : read[p] <= Len(topic[p])
  BY DEF Init
<1>7. audit \in [Entities -> Nat] /\ target \in [Entities -> Nat]
  BY DEF Init
<1>8. errors \subseteq 1..Len(wal)
  BY DEF Init
<1>9. gate \in {"idle", "counting", "passed"}
  BY DEF Init
<1>10. DOMAIN source \subseteq Entities
  BY DEF Init
<1>11. \A e \in DOMAIN source : source[e] \subseteq KeysOf(e)
  BY DEF Init
<1>12. built \in BOOLEAN
  BY DEF Init
<1> QED BY <1>1, <1>2, <1>3, <1>4, <1>5, <1>6, <1>7, <1>8, <1>9, <1>10,
           <1>11, <1>12 DEF TypeOK

\* A commit lengthens the log and changes nothing that is already in it.
LEMMA CommitFacts ==
    ASSUME TypeOK, NEW k \in Keys, Commit(k)
    PROVE  /\ wal' \in Seq(Change)
           /\ Len(wal') = Len(wal) + 1
           /\ \A l \in 1..Len(wal) : wal'[l] = wal[l]
           /\ wal'[Len(wal) + 1].key = k
           /\ wal'[Len(wal) + 1].ms = clock
<1>1. PICK flaw \in Flaws :
          wal' = Append(wal, [key |-> k, ms |-> clock, flaw |-> flaw])
  BY DEF Commit
<1> DEFINE c == [key |-> k, ms |-> clock, flaw |-> flaw]
<1>2. c \in Change
  BY DEF TypeOK, Change
<1>3. c.key = k /\ c.ms = clock
  OBVIOUS
<1>4. wal \in Seq(Change)
  BY DEF TypeOK
<1>5. wal' = Append(wal, c)
  BY <1>1
<1> HIDE DEF c
<1>6. wal' \in Seq(Change) /\ Len(wal') = Len(wal) + 1
  BY <1>2, <1>4, <1>5
<1>7. wal'[Len(wal) + 1] = c
  BY <1>4, <1>5
<1>8. \A l \in 1..Len(wal) : wal'[l] = wal[l]
  BY <1>4, <1>5
<1> QED BY <1>3, <1>6, <1>7, <1>8

LEMMA CommitType ==
    ASSUME TypeOK, NEW k \in Keys, Commit(k)
    PROVE  TypeOK'
<1>1. /\ wal' \in Seq(Change) /\ Len(wal') = Len(wal) + 1
      /\ Len(wal) \in Nat
  BY CommitFacts DEF TypeOK
<1>2. /\ rows' = [rows EXCEPT ![k] = Len(wal) + 1]
      /\ UNCHANGED <<clock, sent, topic, read, raw, audit, errors, gate, target,
                     source, staging, built, restarts>>
  BY DEF Commit, connector, clickhouse, sensor, dbt
<1>3. 0..Len(wal) \subseteq 0..Len(wal') /\ 1..Len(wal) \subseteq 1..Len(wal')
  BY <1>1
<1>4. rows' \in [Keys -> 0..Len(wal')]
  BY <1>1, <1>2, <1>3 DEF TypeOK
<1>5. staging' \in [Keys -> 0..Len(wal')] /\ sent' \in 0..Len(wal')
  BY <1>1, <1>2, <1>3 DEF TypeOK
<1>6. Seq(1..Len(wal)) \subseteq Seq(1..Len(wal'))
  BY <1>3, SeqMonotonic
<1>7. /\ topic' \in [Partitions -> Seq(1..Len(wal'))]
      /\ raw' \in [Keys -> Seq(1..Len(wal'))]
  BY <1>2, <1>6 DEF TypeOK
<1>8. errors' \subseteq 1..Len(wal')
  BY <1>2, <1>3 DEF TypeOK
<1> QED BY <1>1, <1>2, <1>4, <1>5, <1>7, <1>8 DEF TypeOK

LEMMA ConnectorType ==
    ASSUME TypeOK, Tick \/ Send \/ RestartConnector
    PROVE  TypeOK'
<1>1. CASE Tick
  <2>1. /\ clock' = clock + 1
        /\ UNCHANGED <<rows, wal, sent, topic, read, raw, audit, errors, gate,
                       target, source, staging, built, restarts>>
    BY <1>1 DEF Tick, connector, clickhouse, sensor, dbt
  <2> QED BY <2>1 DEF TypeOK
<1>2. CASE Send
  <2>1. /\ sent' = sent + 1 /\ sent < Len(wal)
        /\ topic' = [topic EXCEPT ![PartitionOf[wal[sent + 1].key]] =
                        Append(@, sent + 1)]
        /\ UNCHANGED <<rows, wal, clock, read, raw, audit, errors, gate,
                       target, source, staging, built, restarts>>
    BY <1>2 DEF Send, database, clickhouse, sensor, dbt
  <2>2. sent \in Nat /\ Len(wal) \in Nat
    BY DEF TypeOK
  <2>3. sent + 1 \in 1..Len(wal)
    BY <2>1, <2>2
  <2> DEFINE q == PartitionOf[wal[sent + 1].key]
  <2>4. q \in Partitions
    BY <2>3, EventOf
  <2> HIDE DEF q
  <2>5. topic' = [topic EXCEPT ![q] = Append(topic[q], sent + 1)]
    BY <2>1 DEF q
  <2>6. topic[q] \in Seq(1..Len(wal))
    BY <2>4 DEF TypeOK
  <2>7. /\ Append(topic[q], sent + 1) \in Seq(1..Len(wal))
        /\ Len(Append(topic[q], sent + 1)) = Len(topic[q]) + 1
        /\ Len(topic[q]) \in Nat
    BY <2>3, <2>6
  <2>8. topic' \in [Partitions -> Seq(1..Len(wal))]
    BY <2>5, <2>7 DEF TypeOK
  <2>9. \A p \in Partitions : read[p] <= Len(topic'[p])
    BY <2>4, <2>5, <2>7 DEF TypeOK
  <2>10. sent' \in 0..Len(wal)
    BY <2>1, <2>2, <2>3
  <2>11. wal' = wal
    BY <2>1
  <2> QED BY <2>1, <2>8, <2>9, <2>10, <2>11 DEF TypeOK
<1>3. CASE RestartConnector
  <2>1. /\ sent' \in 0..Len(wal) /\ restarts' = restarts + 1
        /\ UNCHANGED <<rows, wal, clock, topic, read, raw, audit, errors, gate,
                       target, source, staging, built>>
    BY <1>3 DEF RestartConnector, database, clickhouse, sensor, dbt
  <2> QED BY <2>1 DEF TypeOK
<1> QED BY <1>1, <1>2, <1>3

\* ClickHouse inserts an event of the log, or notes that it could not.
LEMMA ConsumeFacts ==
    ASSUME TypeOK, NEW p \in Partitions, Consume(p)
    PROVE  /\ \E l \in 1..Len(wal) :
                 LET k == wal[l].key
                 IN  \/ /\ errors' = errors \cup {l}
                        /\ UNCHANGED <<raw, audit>>
                     \/ /\ audit' \in [Entities -> Nat]
                        /\ UNCHANGED <<raw, errors>>
                     \/ /\ raw' = [raw EXCEPT ![k] = Append(raw[k], l)]
                        /\ audit' \in [Entities -> Nat]
                        /\ UNCHANGED errors
           /\ read' \in [Partitions -> Nat]
           /\ \A q \in Partitions : read'[q] <= Len(topic[q])
           /\ UNCHANGED <<rows, wal, clock, sent, topic, gate, target, source,
                          staging, built, restarts>>
<1> DEFINE l == topic[p][read[p] + 1]
           k == wal[l].key
<1>1. /\ read[p] < Len(topic[p])
      /\ read' = [read EXCEPT ![p] = read[p] + 1]
      /\ UNCHANGED <<rows, wal, clock, sent, topic, gate, target, source,
                     staging, built, restarts>>
  BY DEF Consume, database, connector, sensor, dbt
<1>2. topic[p] \in Seq(1..Len(wal)) /\ read[p] \in Nat /\ Len(topic[p]) \in Nat
  BY DEF TypeOK
<1>3. read[p] + 1 \in 1..Len(topic[p])
  BY <1>1, <1>2
<1>4. l \in 1..Len(wal)
  BY <1>2, <1>3, ElementOfSeq
<1>5. k \in Keys /\ wal[l].ms \in Nat /\ EntityOf[k] \in Entities
  BY <1>4, EventOf
<1>6. \/ /\ errors' = errors \cup {l}
         /\ UNCHANGED <<raw, audit>>
      \/ /\ UNCHANGED <<raw, errors>>
         /\ audit' = [audit EXCEPT ![EntityOf[k]] =
                         IF wal[l].ms > audit[EntityOf[k]] THEN wal[l].ms
                         ELSE audit[EntityOf[k]]]
      \/ /\ raw' = [raw EXCEPT ![k] = Append(raw[k], l)]
         /\ audit' = [audit EXCEPT ![EntityOf[k]] =
                         IF wal[l].ms > audit[EntityOf[k]] THEN wal[l].ms
                         ELSE audit[EntityOf[k]]]
         /\ UNCHANGED errors
  BY DEF Consume
<1> HIDE DEF l, k
<1>7. audit' = [audit EXCEPT ![EntityOf[k]] =
                   IF wal[l].ms > audit[EntityOf[k]] THEN wal[l].ms
                   ELSE audit[EntityOf[k]]] => audit' \in [Entities -> Nat]
  BY <1>5 DEF TypeOK
<1>8. read' \in [Partitions -> Nat]
  BY <1>1, <1>2 DEF TypeOK
<1>9. \A q \in Partitions : read'[q] <= Len(topic[q])
  BY <1>1, <1>2, <1>3 DEF TypeOK
<1>10. \/ /\ errors' = errors \cup {l}
          /\ UNCHANGED <<raw, audit>>
       \/ /\ audit' \in [Entities -> Nat]
          /\ UNCHANGED <<raw, errors>>
       \/ /\ raw' = [raw EXCEPT ![k] = Append(raw[k], l)]
          /\ audit' \in [Entities -> Nat]
          /\ UNCHANGED errors
  BY <1>6, <1>7
<1>11. \E x \in 1..Len(wal) :
          LET y == wal[x].key
          IN  \/ /\ errors' = errors \cup {x}
                 /\ UNCHANGED <<raw, audit>>
              \/ /\ audit' \in [Entities -> Nat]
                 /\ UNCHANGED <<raw, errors>>
              \/ /\ raw' = [raw EXCEPT ![y] = Append(raw[y], x)]
                 /\ audit' \in [Entities -> Nat]
                 /\ UNCHANGED errors
  BY <1>4, <1>10 DEF k
<1> QED BY <1>1, <1>8, <1>9, <1>11

LEMMA ConsumeType ==
    ASSUME TypeOK, NEW p \in Partitions, Consume(p)
    PROVE  TypeOK'
<1>1. PICK l \in 1..Len(wal) :
          \/ /\ errors' = errors \cup {l}
             /\ UNCHANGED <<raw, audit>>
          \/ /\ audit' \in [Entities -> Nat]
             /\ UNCHANGED <<raw, errors>>
          \/ /\ raw' = [raw EXCEPT ![wal[l].key] = Append(raw[wal[l].key], l)]
             /\ audit' \in [Entities -> Nat]
             /\ UNCHANGED errors
  BY ConsumeFacts
<1>2. /\ read' \in [Partitions -> Nat]
      /\ \A q \in Partitions : read'[q] <= Len(topic[q])
      /\ UNCHANGED <<rows, wal, clock, sent, topic, gate, target, source,
                     staging, built, restarts>>
  BY ConsumeFacts
<1>3. errors' \subseteq 1..Len(wal)
  BY <1>1 DEF TypeOK
<1>4. audit' \in [Entities -> Nat]
  BY <1>1 DEF TypeOK
<1>5. raw' \in [Keys -> Seq(1..Len(wal))]
  <2> DEFINE k == wal[l].key
  <2>1. k \in Keys
    BY EventOf
  <2>2. raw' = raw \/ raw' = [raw EXCEPT ![k] = Append(raw[k], l)]
    BY <1>1
  <2> HIDE DEF k
  <2>3. raw[k] \in Seq(1..Len(wal))
    BY <2>1 DEF TypeOK
  <2>4. Append(raw[k], l) \in Seq(1..Len(wal))
    BY <2>3
  <2> QED BY <2>1, <2>2, <2>4 DEF TypeOK
<1>6. wal' = wal
  BY <1>2
<1> QED BY <1>2, <1>3, <1>4, <1>5, <1>6 DEF TypeOK

\* The event that ClickHouse reads next from partition p.
Taken(p) == topic[p][read[p] + 1]

\* It is noted in the error table, or dropped, or becomes the last row of its
\* key.
LEMMA ReadFacts ==
    ASSUME TypeOK, NEW p \in Partitions, Consume(p)
    PROVE  /\ Taken(p) \in 1..Len(wal) /\ read[p] + 1 \in DOMAIN topic[p]
           /\ read' = [read EXCEPT ![p] = read[p] + 1]
           /\ \/ /\ Taken(p) \in Poisoned
                 /\ errors' = errors \cup {Taken(p)} /\ UNCHANGED raw
              \/ Taken(p) \in Dropped /\ UNCHANGED <<raw, errors>>
              \/ /\ Taken(p) \in Kept /\ UNCHANGED errors
                 /\ raw' = [raw EXCEPT ![wal[Taken(p)].key] =
                               Append(raw[wal[Taken(p)].key], Taken(p))]
<1>1. /\ read[p] < Len(topic[p])
      /\ read' = [read EXCEPT ![p] = read[p] + 1]
  BY DEF Consume
<1>2. topic[p] \in Seq(1..Len(wal)) /\ read[p] \in Nat /\ Len(topic[p]) \in Nat
  BY DEF TypeOK
<1>3. read[p] + 1 \in 1..Len(topic[p])
  BY <1>1, <1>2
<1>4. Taken(p) \in 1..Len(wal) /\ read[p] + 1 \in DOMAIN topic[p]
  BY <1>2, <1>3, ElementOfSeq DEF Taken
<1>5. \/ /\ Taken(p) \in Poisoned
         /\ errors' = errors \cup {Taken(p)} /\ UNCHANGED raw
      \/ Taken(p) \in Dropped /\ UNCHANGED <<raw, errors>>
      \/ /\ Taken(p) \in Kept /\ UNCHANGED errors
         /\ raw' = [raw EXCEPT ![wal[Taken(p)].key] =
                       Append(raw[wal[Taken(p)].key], Taken(p))]
  BY DEF Consume, Taken
<1> QED BY <1>1, <1>4, <1>5

\* A merge keeps rows that were there, and a key that has any keeps one.
LEMMA MergeFacts ==
    ASSUME TypeOK, NEW k \in Keys, NEW i \in DOMAIN raw[k], Merge(k, i)
    PROVE  /\ raw' \in [Keys -> Seq(1..Len(wal))]
           /\ \A x \in Keys : raw'[x] = <<>> <=> raw[x] = <<>>
           /\ UNCHANGED <<rows, wal, clock, sent, topic, read, audit, errors,
                          gate, target, source, staging, built, restarts>>
<1> DEFINE s == raw[k]
           m == Newer(s, i, i + 1)
           t == SubSeq(s, 1, i - 1) \o <<m>> \o SubSeq(s, i + 2, Len(s))
<1>1. /\ i + 1 \in DOMAIN s
      /\ raw' = [raw EXCEPT ![k] = t]
      /\ UNCHANGED <<rows, wal, clock, sent, topic, read, audit, errors,
                     gate, target, source, staging, built, restarts>>
  BY DEF Merge, database, connector, sensor, dbt
<1>2. s \in Seq(1..Len(wal))
  BY DEF TypeOK
<1>3. /\ i \in 1..Len(s) /\ i + 1 \in 1..Len(s)
      /\ i \in Nat /\ Len(s) \in Nat
  BY <1>1, <1>2
<1>4. m \in 1..Len(wal)
  <2>1. s[i] \in 1..Len(wal) /\ s[i + 1] \in 1..Len(wal)
    BY <1>2, <1>3, ElementOfSeq
  <2> QED BY <2>1 DEF Newer
<1> HIDE DEF m
<1>5. SubSeq(s, 1, i - 1) \in Seq(1..Len(wal))
  <2>1. \A j \in 1..(i - 1) : s[j] \in 1..Len(wal)
    BY <1>2, <1>3, ElementOfSeq
  <2> QED BY <2>1, <1>3, SubSeqProperties
<1>6. SubSeq(s, i + 2, Len(s)) \in Seq(1..Len(wal))
  <2>1. \A j \in (i + 2)..Len(s) : s[j] \in 1..Len(wal)
    BY <1>2, <1>3, ElementOfSeq
  <2> QED BY <2>1, <1>3, SubSeqProperties
<1>7. <<m>> \in Seq(1..Len(wal)) /\ Len(<<m>>) = 1
  BY <1>4
<1>8. t \in Seq(1..Len(wal)) /\ Len(t) # 0
  BY <1>5, <1>6, <1>7, ConcatProperties
<1>9. s # <<>> /\ t # <<>>
  BY <1>2, <1>3, <1>8
<1> HIDE DEF t
<1>10. raw' \in [Keys -> Seq(1..Len(wal))]
  BY <1>1, <1>8 DEF TypeOK
<1>11. \A x \in Keys : raw'[x] = <<>> <=> raw[x] = <<>>
  BY <1>1, <1>9 DEF TypeOK
<1> QED BY <1>1, <1>10, <1>11

LEMMA RedeliverType ==
    ASSUME TypeOK, NEW p \in Partitions, Redeliver(p)
    PROVE  TypeOK'
<1>1. /\ restarts' = restarts + 1
      /\ UNCHANGED <<rows, wal, clock, sent, topic, raw, audit, errors, gate,
                     target, source, staging, built>>
  BY DEF Redeliver, database, connector, sensor, dbt
<1>2. PICK offset \in 0..Len(topic[p]) :
          offset < read[p] /\ read' = [read EXCEPT ![p] = offset]
  BY DEF Redeliver
<1>3. Len(topic[p]) \in Nat
  BY DEF TypeOK
<1>4. /\ read' \in [Partitions -> Nat]
      /\ \A q \in Partitions : read'[q] <= Len(topic[q])
  BY <1>2, <1>3 DEF TypeOK
<1>5. wal' = wal
  BY <1>1
<1> QED BY <1>1, <1>4, <1>5 DEF TypeOK

\* The sensor only ever changes what it has read, and dbt its table.
LEMMA PokeType ==
    ASSUME TypeOK, Poke
    PROVE  TypeOK'
<1>1. UNCHANGED <<rows, wal, clock, sent, topic, read, raw, audit, errors,
                  restarts>>
  BY DEF Poke, ReadClickHouse, ReadPostgres, ReadFreshness, BuildStaging,
         database, connector, clickhouse
<1>2. gate' \in {"idle", "counting", "passed"}
  BY DEF TypeOK, Poke, ReadClickHouse, ReadPostgres, ReadFreshness, BuildStaging
<1>3. target' \in [Entities -> Nat]
  <2>1. [e \in Entities |-> Cardinality(Landed(e))] \in [Entities -> Nat]
    BY FiniteLanded
  <2>2. [e \in Entities |-> 0] \in [Entities -> Nat]
    OBVIOUS
  <2> QED BY <2>1, <2>2 DEF TypeOK, Poke, ReadClickHouse, ReadPostgres,
                            ReadFreshness, BuildStaging, Forget
<1>4. /\ DOMAIN source' \subseteq Entities
      /\ \A e \in DOMAIN source' : source'[e] \subseteq KeysOf(e)
  <2>1. CASE source' = source
    BY <2>1 DEF TypeOK
  <2>2. CASE source' = <<>>
    BY <2>2
  <2>3. CASE \E e \in Entities : ReadPostgres(e)
    <3>1. PICK e \in Entities : source' = [x \in DOMAIN source \cup {e} |->
                                    IF x = e THEN Live(e) ELSE source[x]]
      BY <2>3 DEF ReadPostgres
    <3>2. Live(e) \subseteq KeysOf(e)
      BY DEF Live
    <3> QED BY <3>1, <3>2 DEF TypeOK
  <2> QED BY <2>1, <2>2, <2>3 DEF Poke, ReadClickHouse, ReadFreshness,
                                  BuildStaging, Forget
<1>5. staging' \in [Keys -> 0..Len(wal)] /\ built' \in BOOLEAN
  BY DEF TypeOK, Poke, ReadClickHouse, ReadPostgres, ReadFreshness,
         BuildStaging, dbt
<1>6. wal' = wal
  BY <1>1
<1> QED BY <1>1, <1>2, <1>3, <1>4, <1>5, <1>6 DEF TypeOK

-----------------------------------------------------------------------------
LEMMA NextType == ASSUME TypeOK, [Next]_vars PROVE TypeOK'
<1>1. ASSUME NEW k \in Keys, Commit(k) PROVE TypeOK'
  BY <1>1, CommitType
<1>2. ASSUME NEW k \in Keys, NEW i \in DOMAIN raw[k], Merge(k, i) PROVE TypeOK'
  <2>1. /\ raw' \in [Keys -> Seq(1..Len(wal))]
        /\ UNCHANGED <<rows, wal, clock, sent, topic, read, audit, errors,
                       gate, target, source, staging, built, restarts>>
    BY <1>2, MergeFacts
  <2>2. wal' = wal
    BY <2>1
  <2> QED BY <2>1, <2>2 DEF TypeOK
<1>3. CASE Tick \/ Send \/ RestartConnector
  BY <1>3, ConnectorType
<1>4. ASSUME NEW p \in Partitions, Consume(p) \/ Redeliver(p) PROVE TypeOK'
  BY <1>4, ConsumeType, RedeliverType
<1>5. CASE Poke
  BY <1>5, PokeType
<1>6. CASE UNCHANGED vars
  <2>1. UNCHANGED <<rows, wal, clock, sent, topic, read, raw, audit, errors,
                    gate, target, source, staging, built, restarts>>
    BY <1>6 DEF vars, database, connector, clickhouse, sensor, dbt
  <2>2. wal' = wal
    BY <2>1
  <2> QED BY <2>1, <2>2 DEF TypeOK
<1> QED BY <1>1, <1>2, <1>3, <1>4, <1>5, <1>6 DEF Next, Stream

\* Rows are never deleted, and every row of ClickHouse is of an event.
LEMMA NextRows ==
    ASSUME TypeOK, LogOK, RawOK, [Next]_vars
    PROVE  LogOK' /\ RawOK'
<1>1. ASSUME NEW k \in Keys, Commit(k) PROVE LogOK' /\ RawOK'
  <2>1. /\ wal' \in Seq(Change) /\ Len(wal') = Len(wal) + 1
        /\ \A l \in 1..Len(wal) : wal'[l] = wal[l]
        /\ wal'[Len(wal) + 1].key = k
    BY <1>1, CommitFacts
  <2>2. rows' = [rows EXCEPT ![k] = Len(wal) + 1] /\ raw' = raw
    BY <1>1 DEF Commit, clickhouse
  <2>3. Len(wal) \in Nat /\ DOMAIN wal = 1..Len(wal)
        /\ DOMAIN wal' = 1..(Len(wal) + 1)
    BY <2>1 DEF TypeOK
  <2>4. \A x \in Keys : rows[x] # 0 => rows'[x] # 0
    BY <2>2, <2>3 DEF TypeOK
  <2>5. rows'[k] # 0
    BY <2>2, <2>3 DEF TypeOK
  <2>6. ASSUME NEW l \in DOMAIN wal' PROVE rows'[wal'[l].key] # 0
    <3>1. CASE l = Len(wal) + 1
      BY <3>1, <2>1, <2>5
    <3>2. CASE l \in 1..Len(wal)
      BY <3>2, <2>1, <2>3, <2>4, EventOf DEF LogOK
    <3> QED BY <3>1, <3>2, <2>3
  <2> QED BY <2>2, <2>4, <2>6 DEF LogOK, RawOK
<1>2. ASSUME NEW k \in Keys, NEW i \in DOMAIN raw[k], Merge(k, i)
      PROVE LogOK' /\ RawOK'
  BY <1>2, MergeFacts DEF LogOK, RawOK
<1>3. ASSUME NEW p \in Partitions, Consume(p) PROVE LogOK' /\ RawOK'
  <2>1. PICK l \in 1..Len(wal) :
            \/ UNCHANGED raw
            \/ raw' = [raw EXCEPT ![wal[l].key] = Append(raw[wal[l].key], l)]
    BY <1>3, ConsumeFacts
  <2>2. UNCHANGED <<rows, wal>>
    BY <1>3, ConsumeFacts
  <2>3. rows[wal[l].key] # 0
    BY EventOf DEF LogOK
  <2> QED BY <2>1, <2>2, <2>3 DEF LogOK, RawOK, TypeOK
<1>4. CASE \/ Tick \/ Send \/ RestartConnector \/ Poke \/ UNCHANGED vars
           \/ \E p \in Partitions : Redeliver(p)
  <2>1. UNCHANGED <<rows, wal, raw>>
    BY <1>4 DEF Tick, Send, RestartConnector, Redeliver, Poke, ReadClickHouse,
        ReadPostgres, ReadFreshness, BuildStaging, database, clickhouse, vars
  <2> QED BY <2>1 DEF LogOK, RawOK
<1> QED BY <1>1, <1>2, <1>3, <1>4 DEF Next, Stream

\* Neither side ever loses a key, whatever happens between two queries.
LEMMA NeverFewer ==
    ASSUME TypeOK, LogOK, RawOK, [Next]_vars, NEW e \in Entities
    PROVE  Landed(e) \subseteq Landed(e)'
<1> SUFFICES ASSUME NEW k \in Keys, raw[k] # <<>> PROVE raw'[k] # <<>>
  BY DEF Landed, KeysOf
<1>1. ASSUME NEW x \in Keys, NEW i \in DOMAIN raw[x], Merge(x, i)
      PROVE raw'[k] # <<>>
  BY <1>1, MergeFacts
<1>2. ASSUME NEW p \in Partitions, Consume(p) PROVE raw'[k] # <<>>
  <2>1. PICK l \in 1..Len(wal) :
            \/ UNCHANGED raw
            \/ raw' = [raw EXCEPT ![wal[l].key] = Append(raw[wal[l].key], l)]
    BY <1>2, ConsumeFacts
  <2>2. raw[k] \in Seq(1..Len(wal))
    BY DEF TypeOK
  <2>3. Append(raw[k], l) # <<>>
    BY <2>2
  <2> QED BY <2>1, <2>3 DEF TypeOK
<1>3. CASE \/ Tick \/ Send \/ RestartConnector \/ Poke \/ UNCHANGED vars
           \/ \E p \in Partitions : Redeliver(p)
           \/ \E x \in Keys : Commit(x)
  <2>1. UNCHANGED raw
    BY <1>3 DEF Tick, Send, RestartConnector, Redeliver, Poke, ReadClickHouse,
        ReadPostgres, ReadFreshness, BuildStaging, Commit, clickhouse, vars
  <2> QED BY <2>1
<1> QED BY <1>1, <1>2, <1>3 DEF Next, Stream

\* The keys that were counted stay among those PostgreSQL is asked for.
LEMMA NextCounting ==
    ASSUME GateInv, [Next]_vars
    PROVE  Counting' /\ Idle'
<1> USE DEF GateInv
<1>1. CASE ReadClickHouse
  <2>1. /\ gate' = "counting" /\ source' = <<>> /\ UNCHANGED raw
        /\ target' = [e \in Entities |-> Cardinality(Landed(e))]
    BY <1>1 DEF ReadClickHouse, clickhouse
  <2>2. DOMAIN source' = {}
    BY <2>1
  <2>3. \A e \in Entities : Landed(e)' = Landed(e) /\ Landed(e) \in SUBSET Landed(e)'
    BY <2>1 DEF Landed, KeysOf
  <2> QED BY <2>1, <2>2, <2>3 DEF Counting, Idle
<1>2. ASSUME NEW d \in Entities, ReadPostgres(d) PROVE Counting' /\ Idle'
  <2>1. /\ gate = "counting" /\ gate' = gate /\ target' = target
        /\ d \notin DOMAIN source
        /\ source' = [x \in DOMAIN source \cup {d} |->
                         IF x = d THEN Live(d) ELSE source[x]]
        /\ raw' = raw
    BY <1>2 DEF ReadPostgres, clickhouse
  <2>2. Landed(d) \subseteq Live(d)
    BY DEF Landed, Live, KeysOf, RawOK
  <2>3. ASSUME NEW e \in Entities
        PROVE  \E S \in SUBSET Landed(e)' : Cardinality(S) = target'[e]
                  /\ (e \in DOMAIN source' => S \subseteq source'[e])
    <3>1. Landed(e)' = Landed(e)
      BY <2>1 DEF Landed, KeysOf
    <3>2. PICK S \in SUBSET Landed(e) : Cardinality(S) = target[e]
                  /\ (e \in DOMAIN source => S \subseteq source[e])
      BY <2>1 DEF Counting
    <3>3. e \in DOMAIN source' => S \subseteq source'[e]
      BY <2>1, <2>2, <3>2
    <3> QED BY <2>1, <3>1, <3>2, <3>3
  <2> QED BY <2>1, <2>3 DEF Counting, Idle
<1>3. CASE ReadFreshness
  <2>1. gate' # "counting" /\ DOMAIN source' = {}
    BY <1>3 DEF ReadFreshness, Forget
  <2> QED BY <2>1 DEF Counting, Idle
<1>4. CASE BuildStaging
  <2>1. gate # "counting" /\ gate' # "counting" /\ source' = source
    BY <1>4 DEF BuildStaging
  <2> QED BY <2>1 DEF Counting, Idle
<1>5. CASE UNCHANGED <<gate, target, source>>
  <2>1. ASSUME gate' = "counting", NEW e \in Entities
        PROVE  \E S \in SUBSET Landed(e)' : Cardinality(S) = target'[e]
                  /\ (e \in DOMAIN source' => S \subseteq source'[e])
    <3>1. PICK S \in SUBSET Landed(e) : Cardinality(S) = target[e]
                  /\ (e \in DOMAIN source => S \subseteq source[e])
      BY <1>5, <2>1 DEF Counting
    <3>2. S \in SUBSET Landed(e)'
      BY <3>1, NeverFewer
    <3> QED BY <1>5, <3>1, <3>2
  <2> QED BY <1>5, <2>1 DEF Counting, Idle
<1>6. \/ UNCHANGED <<gate, target, source>>
      \/ ReadClickHouse \/ ReadFreshness \/ BuildStaging
      \/ \E e \in Entities : ReadPostgres(e)
  BY DEF Next, Stream, Poke, Tick, Send, RestartConnector, Redeliver, Consume,
         Merge, Commit, sensor, vars
<1> QED BY <1>1, <1>2, <1>3, <1>4, <1>5, <1>6

-----------------------------------------------------------------------------
\* Logs, topics, offsets and tables keep their types, whatever is replayed,
\* redelivered or merged: every event read is one that was sent.
THEOREM TypeCorrect == Spec => []TypeOK
<1>1. TypeOK /\ [Next]_vars => TypeOK'
  BY NextType
<1> QED BY <1>1, InitType, PTL DEF Spec

\* What the sensor holds between its queries.
THEOREM GateInvariant == Spec => []GateInv
<1>1. Init => GateInv
  <2> SUFFICES ASSUME Init PROVE GateInv
    OBVIOUS
  <2>1. gate = "idle" /\ DOMAIN source = {} /\ DOMAIN wal = {}
        /\ raw = [k \in Keys |-> <<>>]
    BY DEF Init
  <2> QED BY <2>1, InitType DEF GateInv, LogOK, RawOK, Counting, Idle
<1>2. GateInv /\ [Next]_vars => GateInv'
  BY NextType, NextRows, NextCounting DEF GateInv
<1> QED BY <1>1, <1>2, PTL DEF Spec

\* CDCCaughtUpSensor.poke: when the counts of a table agree, every row that
\* PostgreSQL counted has arrived in ClickHouse.
THEOREM CountsThatAgree == Spec => []ParityMeansArrival
<1>1. GateInv => ParityMeansArrival
  <2> SUFFICES ASSUME GateInv, NEW e \in DOMAIN source, Parity(e)
               PROVE  source[e] \subseteq Landed(e)
    BY DEF ParityMeansArrival
  <2>1. e \in Entities /\ source[e] \subseteq KeysOf(e)
    BY DEF GateInv, TypeOK
  <2>2. gate = "counting"
    BY DEF GateInv, Idle
  <2>3. PICK S \in SUBSET Landed(e) :
            Cardinality(S) = target[e] /\ S \subseteq source[e]
    BY <2>1, <2>2 DEF GateInv, Counting
  <2>4. IsFiniteSet(source[e])
    BY <2>1, FiniteKeys, FS_Subset
  <2>5. Cardinality(source[e]) = Cardinality(S)
    BY <2>3 DEF Parity, TargetCount
  <2>6. source[e] = S
    BY <2>3, <2>4, <2>5, FS_Subset
  <2> QED BY <2>3, <2>6
<1> QED BY <1>1, GateInvariant, PTL
-----------------------------------------------------------------------------
(* What FINAL shows.                                                       *)

\* In the log w, row n of s is the one that FINAL keeps: none is newer, and
\* none that was inserted later is as new.
Wins(w, s, n) ==
    /\ n \in DOMAIN s
    /\ \A j \in DOMAIN s : /\ w[s[j]].ms <= w[s[n]].ms
                           /\ j > n => w[s[j]].ms < w[s[n]].ms

Timed(w, s) ==
    s \in Seq(DOMAIN w) /\ \A l \in DOMAIN w : w[l].ms \in Nat

\* A row that is inserted wins if nothing is newer, and else changes nothing.
LEMMA AppendWins ==
    ASSUME NEW w, NEW s, NEW l \in DOMAIN w, Timed(w, s)
    PROVE  /\ (\A j \in DOMAIN s : w[s[j]].ms <= w[l].ms)
                => Wins(w, Append(s, l), Len(s) + 1)
           /\ \A n \in DOMAIN s : Wins(w, s, n) /\ w[l].ms < w[s[n]].ms
                => Wins(w, Append(s, l), n)
<1> DEFINE t == Append(s, l)
           N == Len(s)
<1>1. s \in Seq(DOMAIN w) /\ \A x \in DOMAIN w : w[x].ms \in Nat
  BY DEF Timed
<1>2. /\ N \in Nat /\ DOMAIN s = 1..N /\ DOMAIN t = 1..(N + 1)
      /\ t[N + 1] = l /\ \A j \in 1..N : t[j] = s[j]
  BY <1>1
<1>3. \A j \in 1..N : s[j] \in DOMAIN w /\ w[s[j]].ms \in Nat
  BY <1>1, ElementOfSeq
<1>4. w[l].ms \in Nat
  BY <1>1
<1> HIDE DEF t, N
<1>5. ASSUME \A j \in DOMAIN s : w[s[j]].ms <= w[l].ms
      PROVE  Wins(w, t, N + 1)
  <2>1. N + 1 \in DOMAIN t
    BY <1>2
  <2>2. ASSUME NEW j \in DOMAIN t
        PROVE  w[t[j]].ms <= w[t[N + 1]].ms /\ ~(j > N + 1)
    BY <1>2, <1>4, <1>5
  <2> QED BY <2>1, <2>2 DEF Wins
<1>6. ASSUME NEW n \in DOMAIN s, Wins(w, s, n), w[l].ms < w[s[n]].ms
      PROVE  Wins(w, t, n)
  <2>1. n \in DOMAIN t /\ t[n] = s[n] /\ w[s[n]].ms \in Nat
    BY <1>2, <1>3
  <2>2. ASSUME NEW j \in DOMAIN t
        PROVE  /\ w[t[j]].ms <= w[t[n]].ms
               /\ j > n => w[t[j]].ms < w[t[n]].ms
    <3>1. CASE j = N + 1
      BY <3>1, <1>2, <1>4, <1>6, <2>1
    <3>2. CASE j \in 1..N
      BY <3>2, <1>2, <1>6, <2>1 DEF Wins
    <3> QED BY <3>1, <3>2, <1>2
  <2> QED BY <2>1, <2>2 DEF Wins
<1> QED BY <1>5, <1>6 DEF t, N

\* Only one row wins.
LEMMA OneWinner ==
    ASSUME NEW w, NEW s, Timed(w, s), NEW m, NEW n, Wins(w, s, m), Wins(w, s, n)
    PROVE  m = n
<1>1. m \in DOMAIN s /\ n \in DOMAIN s /\ DOMAIN s \subseteq Nat
  BY DEF Wins, Timed
<1>2. s[m] \in DOMAIN w /\ s[n] \in DOMAIN w
  BY <1>1, ElementOfSeq DEF Timed
<1>3. w[s[m]].ms \in Nat /\ w[s[n]].ms \in Nat
  BY <1>2 DEF Timed
<1>4. w[s[n]].ms <= w[s[m]].ms /\ (n > m => w[s[n]].ms < w[s[m]].ms)
  BY <1>1 DEF Wins
<1>5. w[s[m]].ms <= w[s[n]].ms /\ (m > n => w[s[m]].ms < w[s[n]].ms)
  BY <1>1 DEF Wins
<1> QED BY <1>1, <1>3, <1>4, <1>5

\* What a merge makes of the neighbours i and i + 1 if it keeps m.
Merged(s, i, m) == SubSeq(s, 1, i - 1) \o <<m>> \o SubSeq(s, i + 2, Len(s))

\* It is one row shorter, and has no row that was not there.
LEMMA MergedRows ==
    ASSUME NEW D, NEW s \in Seq(D), NEW i, i \in DOMAIN s, i + 1 \in DOMAIN s,
           NEW m, m \in {s[i], s[i + 1]}
    PROVE  /\ Merged(s, i, m) \in Seq(D)
           /\ DOMAIN Merged(s, i, m) = 1..(Len(s) - 1)
           /\ \A j \in 1..(Len(s) - 1) :
                 Merged(s, i, m)[j] = IF j = i THEN m ELSE s[IF j < i THEN j ELSE j + 1]
           /\ Range(Merged(s, i, m)) \subseteq Range(s)
<1> DEFINE t == SubSeq(s, 1, i - 1) \o <<m>> \o SubSeq(s, i + 2, Len(s))
           N == Len(s)
           old(j) == IF j < i THEN j ELSE j + 1
<1>2. N \in Nat /\ DOMAIN s = 1..N /\ i \in 1..N /\ i + 1 \in 1..N /\ i \in Nat
  OBVIOUS
<1>3. \A j \in 1..N : s[j] \in D
  BY <1>2, ElementOfSeq
<1>4. m \in D
  BY <1>2, <1>3
<1>5. /\ SubSeq(s, 1, i - 1) \in Seq(D)
      /\ Len(SubSeq(s, 1, i - 1)) = i - 1
      /\ \A j \in 1..(i - 1) : SubSeq(s, 1, i - 1)[j] = s[j]
  <2>1. \A j \in 1..(i - 1) : s[j] \in D
    BY <1>2, <1>3
  <2>2. i - 1 \in Int /\ 1 \in Int
    BY <1>2
  <2> QED BY <2>1, <2>2, <1>2, SubSeqProperties
<1>6. /\ SubSeq(s, i + 2, N) \in Seq(D)
      /\ Len(SubSeq(s, i + 2, N)) = N - i - 1
      /\ \A j \in 1..(N - i - 1) : SubSeq(s, i + 2, N)[j] = s[i + 1 + j]
  <2>1. \A j \in (i + 2)..N : s[j] \in D
    BY <1>2, <1>3
  <2> QED BY <2>1, <1>2, SubSeqProperties
<1>7. /\ t \in Seq(D) /\ Len(t) = N - 1 /\ DOMAIN t = 1..(N - 1)
      /\ \A j \in 1..(N - 1) : t[j] = IF j = i THEN m ELSE s[old(j)]
  <2> DEFINE a == SubSeq(s, 1, i - 1)
             b == SubSeq(s, i + 2, N)
  <2>1. a \in Seq(D) /\ Len(a) = i - 1 /\ \A j \in 1..(i - 1) : a[j] = s[j]
    BY <1>5
  <2>2. b \in Seq(D) /\ Len(b) = N - i - 1
        /\ \A j \in 1..(N - i - 1) : b[j] = s[i + 1 + j]
    BY <1>6
  <2>3. t = a \o <<m>> \o b
    OBVIOUS
  <2> HIDE DEF a, b, t
  <2>4. <<m>> \in Seq(D) /\ Len(<<m>>) = 1 /\ <<m>>[1] = m
    BY <1>4
  <2>5. /\ a \o <<m>> \in Seq(D) /\ Len(a \o <<m>>) = i
        /\ \A j \in 1..i : (a \o <<m>>)[j] = IF j = i THEN m ELSE s[j]
    <3>1. a \o <<m>> \in Seq(D) /\ Len(a \o <<m>>) = i
      BY <2>1, <2>4, <1>2
    <3>2. ASSUME NEW j \in 1..i
          PROVE  (a \o <<m>>)[j] = IF j = i THEN m ELSE s[j]
      BY <2>1, <2>4, <1>2
    <3> QED BY <3>1, <3>2
  <2> DEFINE c == a \o <<m>>
  <2>6. c \in Seq(D) /\ Len(c) = i
        /\ \A j \in 1..i : c[j] = IF j = i THEN m ELSE s[j]
    BY <2>5
  <2>7. t = c \o b
    BY <2>3
  <2> HIDE DEF c
  <2>8. t \in Seq(D) /\ Len(t) = N - 1
    <3>1. t \in Seq(D) /\ Len(t) = Len(c) + Len(b)
      BY <2>2, <2>6, <2>7, ConcatProperties
    <3>2. i \in Nat /\ N \in Nat
      BY <1>2
    <3>3. i + (N - i - 1) = N - 1
      BY <3>2
    <3>4. Len(t) = i + (N - i - 1)
      BY <3>1, <2>2, <2>6
    <3> QED BY <3>1, <3>3, <3>4
  <2>9. ASSUME NEW j \in 1..(N - 1)
        PROVE  t[j] = IF j = i THEN m ELSE s[old(j)]
    <3>1. CASE j <= i
      <4>1. t[j] = c[j]
        BY <3>1, <2>2, <2>6, <2>7, <1>2
      <4> QED BY <4>1, <3>1, <2>6, <1>2
    <3>2. CASE j > i
      <4>1. t[j] = b[j - i]
        BY <3>2, <2>2, <2>6, <2>7, <1>2
      <4>2. j \in Nat /\ i \in Nat /\ N \in Nat /\ j > i /\ j <= N - 1
        BY <3>2, <1>2
      <4>3. j - i \in 1..(N - i - 1) /\ i + 1 + (j - i) = j + 1
        BY <4>2
      <4>4. b[j - i] = s[i + 1 + (j - i)]
        BY <4>3, <2>2
      <4>5. t[j] = s[j + 1]
        BY <4>1, <4>3, <4>4
      <4>6. j # i /\ ~(j < i)
        BY <4>2
      <4> QED BY <4>5, <4>6
    <3> QED BY <3>1, <3>2, <1>2
  <2>10. DOMAIN t = 1..(N - 1)
    BY <2>8, <1>2
  <2> QED BY <2>8, <2>9, <2>10
<1> HIDE DEF t
<1>8. Range(t) \subseteq Range(s)
  <2>1. ASSUME NEW j \in 1..(N - 1) PROVE \E y \in 1..N : t[j] = s[y]
    <3>1. CASE j = i
      BY <3>1, <1>2, <1>7
    <3>2. CASE j # i
      <4>1. old(j) \in 1..N
        BY <1>2
      <4> QED BY <4>1, <3>2, <1>7
    <3> QED BY <3>1, <3>2
  <2>2. DOMAIN s = 1..N /\ DOMAIN t = 1..(N - 1)
    BY <1>2, <1>7
  <2> QED BY <2>1, <2>2 DEF Range
<1> QED BY <1>7, <1>8 DEF t, Merged

\* A merge of two neighbours leaves the winner where it was or one further
\* to the front.
LEMMA MergeWins ==
    ASSUME NEW w, NEW s, Timed(w, s), NEW n, Wins(w, s, n),
           NEW i, i \in DOMAIN s, i + 1 \in DOMAIN s,
           NEW m, m = (IF w[s[i]].ms > w[s[i + 1]].ms THEN s[i] ELSE s[i + 1])
    PROVE  \E x \in DOMAIN Merged(s, i, m) :
              Wins(w, Merged(s, i, m), x) /\ Merged(s, i, m)[x] = s[n]
<1> DEFINE t == Merged(s, i, m)
           N == Len(s)
           old(j) == IF j < i THEN j ELSE j + 1
<1>1. s \in Seq(DOMAIN w) /\ \A x \in DOMAIN w : w[x].ms \in Nat
  BY DEF Timed
<1>2. N \in Nat /\ DOMAIN s = 1..N /\ i \in 1..N /\ i + 1 \in 1..N /\ i \in Nat
      /\ n \in 1..N
  BY <1>1 DEF Wins
<1>3. \A j \in 1..N : s[j] \in DOMAIN w /\ w[s[j]].ms \in Nat
  BY <1>1, <1>2, ElementOfSeq
<1>7. /\ DOMAIN t = 1..(N - 1)
      /\ \A j \in 1..(N - 1) : t[j] = IF j = i THEN m ELSE s[old(j)]
  <2>1. s \in Seq(DOMAIN w) /\ i \in DOMAIN s /\ i + 1 \in DOMAIN s
        /\ m \in {s[i], s[i + 1]}
    BY <1>1
  <2> QED BY <2>1, MergedRows
<1> HIDE DEF t
<1> DEFINE x == IF n <= i THEN n ELSE n - 1
<1>9. x \in 1..(N - 1) /\ t[x] = s[n]
  <2>1. \A j \in 1..N : w[s[j]].ms <= w[s[n]].ms
                        /\ (j > n => w[s[j]].ms < w[s[n]].ms)
    BY <1>2 DEF Wins
  <2>2. CASE n = i
    <3>1. m = s[n]
      BY <2>1, <2>2, <1>2, <1>3
    <3> QED BY <3>1, <2>2, <1>2, <1>7
  <2>3. CASE n = i + 1
    <3>1. ~(w[s[i]].ms > w[s[n]].ms)
      BY <2>1, <2>3, <1>2, <1>3
    <3>2. m = s[n]
      BY <3>1, <2>3
    <3> QED BY <3>2, <2>3, <1>2, <1>7
  <2>4. CASE n < i
    BY <2>4, <1>2, <1>7
  <2>5. CASE n > i + 1
    <3>1. x = n - 1 /\ x > i /\ x \in 1..(N - 1)
      BY <2>5, <1>2
    <3>2. old(x) = n
      BY <3>1, <1>2
    <3> QED BY <3>1, <3>2, <1>2, <1>7
  <2> QED BY <2>2, <2>3, <2>4, <2>5, <1>2
<1> HIDE DEF x
<1>10. Wins(w, t, x)
  <2>1. \A j \in 1..N : w[s[j]].ms <= w[s[n]].ms
                        /\ (j > n => w[s[j]].ms < w[s[n]].ms)
    BY <1>2 DEF Wins
  <2>2. ASSUME NEW j \in 1..(N - 1)
        PROVE  /\ w[t[j]].ms <= w[s[n]].ms
               /\ j > x => w[t[j]].ms < w[s[n]].ms
    <3>1. CASE j # i
      <4>1. old(j) \in 1..N /\ t[j] = s[old(j)]
        BY <3>1, <1>2, <1>7
      <4>2. j > x => old(j) > n
        BY <3>1, <1>2 DEF x
      <4> QED BY <4>1, <4>2, <2>1
    <3>2. CASE j = i
      <4>1. t[j] = m
        BY <3>2, <1>7
      <4>2. j > x => n < i
        BY <3>2, <1>2 DEF x
      <4>3. m = s[i] \/ m = s[i + 1]
        OBVIOUS
      <4> QED BY <4>1, <4>2, <4>3, <2>1, <1>2
    <3> QED BY <3>1, <3>2
  <2> QED BY <2>2, <1>7, <1>9 DEF Wins
<1> QED BY <1>7, <1>9, <1>10 DEF t

\* What FINAL chooses is the winner.
LEMMA FinalWins ==
    ASSUME NEW w, NEW s, Timed(w, s), NEW n, Wins(w, s, n)
    PROVE  LET newest == {l \in Range(s) : \A m \in Range(s) : w[m].ms <= w[l].ms}
           IN  (CHOOSE l \in newest : \E i \in DOMAIN s :
                   s[i] = l /\ \A j \in DOMAIN s : j > i => w[s[j]].ms < w[l].ms)
               = s[n]
<1> DEFINE newest == {l \in Range(s) : \A m \in Range(s) : w[m].ms <= w[l].ms}
           Latest(l) == \E i \in DOMAIN s :
               s[i] = l /\ \A j \in DOMAIN s : j > i => w[s[j]].ms < w[l].ms
<1>1. s[n] \in newest /\ Latest(s[n])
  BY DEF Wins, Range
<1>2. ASSUME NEW l \in newest, Latest(l) PROVE l = s[n]
  <2>1. PICK i \in DOMAIN s :
            s[i] = l /\ \A j \in DOMAIN s : j > i => w[s[j]].ms < w[l].ms
    BY <1>2
  <2>2. \A j \in DOMAIN s : w[s[j]].ms <= w[l].ms
    BY DEF Range
  <2>3. Wins(w, s, i)
    BY <2>1, <2>2 DEF Wins
  <2> QED BY <2>1, <2>3, OneWinner
<1> HIDE DEF newest, Latest
<1>3. (CHOOSE l \in newest : Latest(l)) = s[n]
  BY <1>1, <1>2
<1> QED BY <1>3 DEF newest, Latest

\* The log is only ever appended to.
LEMMA LogGrows ==
    ASSUME TypeOK, [Next]_vars
    PROVE  /\ DOMAIN wal \subseteq DOMAIN wal'
           /\ \A l \in DOMAIN wal : wal'[l] = wal[l]
<1>1. ASSUME NEW k \in Keys, Commit(k)
      PROVE  /\ DOMAIN wal \subseteq DOMAIN wal'
             /\ \A l \in DOMAIN wal : wal'[l] = wal[l]
  <2>1. wal' \in Seq(Change) /\ Len(wal') = Len(wal) + 1
        /\ \A l \in 1..Len(wal) : wal'[l] = wal[l]
    BY <1>1, CommitFacts
  <2>2. wal \in Seq(Change) /\ Len(wal) \in Nat
    BY DEF TypeOK
  <2>3. DOMAIN wal = 1..Len(wal) /\ DOMAIN wal' = 1..(Len(wal) + 1)
    BY <2>1, <2>2
  <2> QED BY <2>1, <2>2, <2>3
<1>2. ASSUME NEW k \in Keys, NEW i \in DOMAIN raw[k], Merge(k, i)
      PROVE  UNCHANGED wal
  BY <1>2, MergeFacts
<1>3. CASE Tick \/ Send \/ RestartConnector \/ Poke \/ UNCHANGED vars
  BY <1>3 DEF Tick, Send, RestartConnector, Poke, ReadClickHouse, ReadPostgres,
     ReadFreshness, BuildStaging, database, vars
<1>4. ASSUME NEW p \in Partitions, Consume(p) \/ Redeliver(p)
      PROVE  UNCHANGED wal
  BY <1>4 DEF Consume, Redeliver, database
<1> QED BY <1>1, <1>2, <1>3, <1>4 DEF Next, Stream

\* The times of the log are those of the rows of every key.
LEMMA RowsTimed ==
    ASSUME TypeOK, NEW k \in Keys
    PROVE  Timed(wal, raw[k]) /\ raw[k] \in Seq(1..Len(wal)) /\ DOMAIN wal = 1..Len(wal)
<1>1. wal \in Seq(Change) /\ raw[k] \in Seq(1..Len(wal))
  BY DEF TypeOK
<1>2. DOMAIN wal = 1..Len(wal)
  BY <1>1
<1> QED BY <1>1, <1>2, EventOf DEF Timed

\* Every key that has rows has one that FINAL shows.
HasWinner ==
    \A k \in Keys : raw[k] # <<>> => \E n \in DOMAIN raw[k] : Wins(wal, raw[k], n)

\* Row n of a key is no older than what won before, and is that or was just read.
Succeeds(k, n) ==
    \A m \in DOMAIN raw[k] : Wins(wal, raw[k], m) =>
        /\ wal[raw[k][m]].ms <= wal[raw'[k][n]].ms
        /\ \/ raw'[k][n] = raw[k][m]
           \/ \E p \in Partitions : /\ Consume(p) /\ raw'[k][n] = Taken(p)
                                   /\ wal[Taken(p)].key = k

\* An insert and a merge leave a winner, and it is never an older one.
LEMMA WinnerStays ==
    ASSUME TypeOK, HasWinner, [Next]_vars, NEW k \in Keys
    PROVE  \/ raw[k] = <<>> /\ raw'[k] = <<>>
           \/ \E n \in DOMAIN raw'[k] : Wins(wal, raw'[k], n) /\ Succeeds(k, n)
<1> DEFINE Goal == \/ raw[k] = <<>> /\ raw'[k] = <<>>
                   \/ \E n \in DOMAIN raw'[k] :
                         Wins(wal, raw'[k], n) /\ Succeeds(k, n)
<1>1. ASSUME NEW s, s = raw[k]
      PROVE  /\ Timed(wal, s) /\ s \in Seq(1..Len(wal))
             /\ \A m \in DOMAIN s : wal[s[m]].ms \in Nat
  BY <1>1, RowsTimed, EventOf, ElementOfSeq
<1>2. CASE raw'[k] = raw[k]
  <2>1. ASSUME raw[k] # <<>> PROVE Goal
    <3>1. PICK n \in DOMAIN raw[k] : Wins(wal, raw[k], n)
      BY <2>1 DEF HasWinner
    <3>2. ASSUME NEW m \in DOMAIN raw[k], Wins(wal, raw[k], m)
          PROVE  wal[raw[k][m]].ms <= wal[raw[k][n]].ms /\ m = n
      <4>1. Timed(wal, raw[k])
        BY <1>1
      <4> QED BY <3>1, <3>2, <4>1, OneWinner DEF Wins
    <3>3. Succeeds(k, n)
      BY <1>2, <3>2 DEF Succeeds
    <3> QED BY <1>2, <3>1, <3>3
  <2> QED BY <1>2, <2>1
<1>3. ASSUME NEW l \in 1..Len(wal), raw'[k] = Append(raw[k], l),
             \E p \in Partitions : Consume(p) /\ l = Taken(p) /\ wal[Taken(p)].key = k
      PROVE  Goal
  <2> DEFINE s == raw[k]
  <2>1. /\ Timed(wal, s) /\ s \in Seq(1..Len(wal)) /\ l \in DOMAIN wal
        /\ \A m \in DOMAIN s : wal[s[m]].ms \in Nat
        /\ wal[l].ms \in Nat
    BY <1>1, EventOf
  <2>2. CASE \A j \in DOMAIN s : wal[s[j]].ms <= wal[l].ms
    <3>1. Wins(wal, Append(s, l), Len(s) + 1)
      BY <2>1, <2>2, AppendWins
    <3>2. Len(s) + 1 \in DOMAIN Append(s, l) /\ Append(s, l)[Len(s) + 1] = l
      BY <2>1
    <3>3. Succeeds(k, Len(s) + 1)
      BY <1>3, <2>2, <3>2 DEF Succeeds
    <3> QED BY <1>3, <3>1, <3>2, <3>3
  <2>3. CASE \E j \in DOMAIN s : ~(wal[s[j]].ms <= wal[l].ms)
    <3>1. PICK j \in DOMAIN s : ~(wal[s[j]].ms <= wal[l].ms)
      BY <2>3
    <3>2. s # <<>>
      BY <3>1
    <3>3. PICK n \in DOMAIN s : Wins(wal, s, n)
      BY <3>2 DEF HasWinner
    <3>4. wal[l].ms < wal[s[n]].ms
      BY <2>1, <3>1, <3>3 DEF Wins
    <3>5. Wins(wal, Append(s, l), n)
      BY <2>1, <3>3, <3>4, AppendWins
    <3>6. n \in DOMAIN Append(s, l) /\ Append(s, l)[n] = s[n]
      BY <2>1, <3>3
    <3>7. \A m \in DOMAIN s : wal[s[m]].ms <= wal[s[n]].ms
      BY <3>3 DEF Wins
    <3>8. \A m \in DOMAIN s : Wins(wal, s, m) => m = n
      BY <2>1, <3>3, OneWinner
    <3>9. Succeeds(k, n)
      BY <1>3, <3>6, <3>7, <3>8 DEF Succeeds
    <3> QED BY <1>3, <3>5, <3>6, <3>9
  <2> QED BY <2>2, <2>3
<1>4. ASSUME NEW x \in Keys, NEW i \in DOMAIN raw[x], Merge(x, i)
      PROVE  Goal
  <2>1. /\ i + 1 \in DOMAIN raw[x]
        /\ raw' = [raw EXCEPT ![x] = SubSeq(raw[x], 1, i - 1)
                      \o <<Newer(raw[x], i, i + 1)>>
                      \o SubSeq(raw[x], i + 2, Len(raw[x]))]
    BY <1>4 DEF Merge
  <2>2. CASE x # k
    BY <1>2, <2>1, <2>2
  <2>3. CASE x = k
    <3> DEFINE s == raw[k]
               m == Newer(s, i, i + 1)
               t == Merged(s, i, m)
    <3>1. raw'[k] = t
      BY <2>1, <2>3 DEF TypeOK, Merged
    <3>2. s # <<>>
      BY <1>4, <2>3
    <3>3. PICK n \in DOMAIN s : Wins(wal, s, n)
      BY <3>2 DEF HasWinner
    <3>4. i \in DOMAIN s /\ i + 1 \in DOMAIN s /\ Timed(wal, s)
      BY <2>1, <2>3, <1>1
    <3>5. m = IF wal[s[i]].ms > wal[s[i + 1]].ms THEN s[i] ELSE s[i + 1]
      BY DEF Newer
    <3> HIDE DEF m
    <3>6. PICK y \in DOMAIN t : Wins(wal, t, y) /\ t[y] = s[n]
      BY <3>3, <3>4, <3>5, MergeWins
    <3>7. \A o \in DOMAIN s : wal[s[o]].ms <= wal[t[y]].ms
      BY <3>3, <3>6 DEF Wins
    <3>8. \A o \in DOMAIN s : Wins(wal, s, o) => o = n
      BY <3>3, <3>4, OneWinner
    <3> HIDE DEF t
    <3>9. Succeeds(k, y)
      BY <3>1, <3>6, <3>7, <3>8 DEF Succeeds
    <3> QED BY <3>1, <3>6, <3>9
  <2> QED BY <2>2, <2>3
<1>5. ASSUME NEW p \in Partitions, Consume(p) PROVE Goal
  <2>1. /\ Taken(p) \in 1..Len(wal)
        /\ \/ UNCHANGED raw
           \/ raw' = [raw EXCEPT ![wal[Taken(p)].key] =
                         Append(raw[wal[Taken(p)].key], Taken(p))]
    BY <1>5, ReadFacts
  <2>2. \/ raw'[k] = raw[k]
        \/ raw'[k] = Append(raw[k], Taken(p)) /\ wal[Taken(p)].key = k
    BY <2>1 DEF TypeOK
  <2>3. ASSUME NEW l, l = Taken(p), raw'[k] = Append(raw[k], l), wal[l].key = k
        PROVE  Goal
    BY <1>3, <1>5, <2>1, <2>3
  <2> QED BY <1>2, <2>2, <2>3
<1>6. CASE \/ Tick \/ Send \/ RestartConnector \/ Poke \/ UNCHANGED vars
           \/ \E p \in Partitions : Redeliver(p)
           \/ \E x \in Keys : Commit(x)
  <2>1. UNCHANGED raw
    BY <1>6 DEF Tick, Send, RestartConnector, Redeliver, Poke, ReadClickHouse,
        ReadPostgres, ReadFreshness, BuildStaging, Commit, clickhouse, vars
  <2> QED BY <2>1, <1>2
<1>7. Goal
  BY <1>4, <1>5, <1>6 DEF Next, Stream
<1> QED BY <1>7

\* What is appended to the log changes no winner.
LEMMA WinsForGood ==
    ASSUME NEW w, NEW v, NEW s \in Seq(DOMAIN w), \A l \in DOMAIN w : v[l] = w[l],
           NEW n, Wins(w, s, n)
    PROVE  Wins(v, s, n)
<1>1. \A j \in DOMAIN s : v[s[j]] = w[s[j]]
  BY ElementOfSeq
<1> QED BY <1>1 DEF Wins

\* ClickHouse only ever stores what the log has.
LEMMA RowsOfTheLog ==
    ASSUME TypeOK, [Next]_vars, NEW k \in Keys
    PROVE  raw'[k] \in Seq(DOMAIN wal)
<1>1. raw[k] \in Seq(1..Len(wal)) /\ DOMAIN wal = 1..Len(wal)
  BY RowsTimed
<1>2. ASSUME NEW p \in Partitions, Consume(p) PROVE raw'[k] \in Seq(DOMAIN wal)
  <2>1. PICK l \in 1..Len(wal) :
            \/ UNCHANGED raw
            \/ raw' = [raw EXCEPT ![wal[l].key] = Append(raw[wal[l].key], l)]
    BY <1>2, ConsumeFacts
  <2>2. raw'[k] = raw[k] \/ raw'[k] = Append(raw[k], l)
    BY <2>1 DEF TypeOK
  <2>3. Append(raw[k], l) \in Seq(1..Len(wal))
    BY <1>1
  <2> QED BY <1>1, <2>2, <2>3
<1>3. ASSUME NEW x \in Keys, NEW i \in DOMAIN raw[x], Merge(x, i)
      PROVE  raw'[k] \in Seq(DOMAIN wal)
  BY <1>1, <1>3, MergeFacts
<1>4. CASE \/ Tick \/ Send \/ RestartConnector \/ Poke \/ UNCHANGED vars
           \/ \E p \in Partitions : Redeliver(p)
           \/ \E x \in Keys : Commit(x)
  <2>1. UNCHANGED raw
    BY <1>4 DEF Tick, Send, RestartConnector, Redeliver, Poke, ReadClickHouse,
        ReadPostgres, ReadFreshness, BuildStaging, Commit, clickhouse, vars
  <2> QED BY <2>1, <1>1
<1> QED BY <1>2, <1>3, <1>4 DEF Next, Stream

\* A step leaves a key a winner that is no older than the one it had.
LEMMA WinnerStep ==
    ASSUME TypeOK, HasWinner, [Next]_vars, NEW k \in Keys
    PROVE  \/ raw[k] = <<>> /\ raw'[k] = <<>>
           \/ \E n \in DOMAIN raw'[k] :
                 /\ Wins(wal', raw'[k], n) /\ Succeeds(k, n)
                 /\ wal'[raw'[k][n]] = wal[raw'[k][n]]
<1>1. CASE raw[k] = <<>> /\ raw'[k] = <<>>
  BY <1>1
<1>2. CASE ~(raw[k] = <<>> /\ raw'[k] = <<>>)
  <2>1. PICK n \in DOMAIN raw'[k] :
            Wins(wal, raw'[k], n) /\ Succeeds(k, n)
    BY <1>2, WinnerStays
  <2>2. raw'[k] \in Seq(DOMAIN wal) /\ \A l \in DOMAIN wal : wal'[l] = wal[l]
    BY RowsOfTheLog, LogGrows
  <2>3. ASSUME NEW w, NEW v, NEW s, w = wal, v = wal', s = raw'[k]
        PROVE  Wins(v, s, n)
    BY <2>1, <2>2, <2>3, WinsForGood
  <2>4. raw'[k][n] \in DOMAIN wal
    BY <2>1, <2>2, ElementOfSeq
  <2> QED BY <2>1, <2>2, <2>3, <2>4
<1> QED BY <1>1, <1>2

LEMMA WinnerRemains ==
    ASSUME TypeOK, HasWinner, [Next]_vars
    PROVE  HasWinner'
BY WinnerStep DEF HasWinner

-----------------------------------------------------------------------------
(* Once all is delivered.                                                  *)

\* The landing row is the last commit of its key.
LastCommits ==
    \A k \in Keys : rows[k] # 0 =>
        /\ wal[rows[k]].key = k
        /\ \A l \in DOMAIN wal : wal[l].key = k => l <= rows[k]

\* The log is in the order of its times.
Ordered ==
    \A l \in DOMAIN wal :
        /\ wal[l].ms <= clock
        /\ \A m \in DOMAIN wal : l <= m => wal[l].ms <= wal[m].ms

\* The topic that an event is sent to.
TopicOf(l) == topic[PartitionOf[wal[l].key]]

\* The events of a key are in one partition only.
Routed ==
    \A p \in Partitions : \A i \in DOMAIN topic[p] :
        PartitionOf[wal[topic[p][i]].key] = p

\* Whatever is sent again, all that follows it is sent again too: behind the
\* last copy of an event that was sent there is nothing older.
SentInOrder ==
    \A l \in 1..sent : \E j \in DOMAIN TopicOf(l) :
        /\ TopicOf(l)[j] = l
        /\ \A i \in DOMAIN TopicOf(l) : i > j => TopicOf(l)[i] >= l

\* The rows of a key are its own, and of changes that the views keep.
OwnRows ==
    \A k \in Keys : \A i \in DOMAIN raw[k] :
        wal[raw[k][i]].key = k /\ raw[k][i] \in Kept

\* Nothing is refused that could have been parsed.
ErrorsOK == errors \subseteq Poisoned

\* The winner of a key is newer than the event at position j of partition p,
\* or as new and has a copy at that position or behind it.
Outdone(p, j, k) ==
    \E n \in DOMAIN raw[k] :
        /\ Wins(wal, raw[k], n)
        /\ \/ wal[topic[p][j]].ms < wal[raw[k][n]].ms
           \/ /\ wal[topic[p][j]].ms = wal[raw[k][n]].ms
              /\ \E i \in DOMAIN topic[p] : i >= j /\ topic[p][i] = raw[k][n]

\* What ClickHouse has read it has refused, dropped or kept.
ReadIsKept ==
    \A p \in Partitions : \A j \in 1..read[p] :
        \/ topic[p][j] \in Poisoned \cap errors
        \/ topic[p][j] \in Dropped
        \/ topic[p][j] \in Kept /\ Outdone(p, j, wal[topic[p][j]].key)

FinalInv ==
    /\ TypeOK /\ HasWinner
    /\ LastCommits /\ Ordered /\ Routed /\ SentInOrder
    /\ OwnRows /\ ErrorsOK /\ ReadIsKept

\* What becomes of a change is settled when it is committed.
LEMMA FlawsStay ==
    ASSUME TypeOK, [Next]_vars, NEW l \in 1..Len(wal)
    PROVE  /\ l \in Poisoned' <=> l \in Poisoned
           /\ l \in Dropped' <=> l \in Dropped
           /\ l \in Kept' <=> l \in Kept
<1>1. l \in DOMAIN wal /\ l \in DOMAIN wal' /\ wal'[l] = wal[l]
  BY LogGrows DEF TypeOK
<1> QED BY <1>1 DEF Poisoned, Dropped, Kept

\* A commit is later than all before it, and becomes the landing row.
LEMMA LogStep ==
    ASSUME TypeOK, LastCommits, Ordered, [Next]_vars
    PROVE  LastCommits' /\ Ordered'
<1>1. ASSUME NEW k \in Keys, Commit(k) PROVE LastCommits' /\ Ordered'
  <2> DEFINE N == Len(wal)
  <2>1. /\ \A l \in 1..N : wal'[l] = wal[l]
        /\ wal'[N + 1].key = k /\ wal'[N + 1].ms = clock
        /\ wal' \in Seq(Change) /\ Len(wal') = N + 1
    BY <1>1, CommitFacts
  <2>2. rows' = [rows EXCEPT ![k] = N + 1] /\ clock' = clock
    BY <1>1 DEF Commit
  <2>3. N \in Nat /\ DOMAIN wal = 1..N /\ DOMAIN wal' = 1..(N + 1) /\ clock \in Nat
        /\ rows \in [Keys -> 0..N]
    BY <2>1 DEF TypeOK
  <2>4. \A l \in 1..N : wal[l].ms \in Nat
    BY EventOf
  <2> HIDE DEF N
  <2>5. ASSUME NEW x \in Keys, rows'[x] # 0
        PROVE  /\ wal'[rows'[x]].key = x
               /\ \A l \in DOMAIN wal' : wal'[l].key = x => l <= rows'[x]
    <3>1. CASE x = k
      BY <3>1, <2>1, <2>2, <2>3
    <3>2. CASE x # k
      <4>1. rows'[x] = rows[x] /\ rows[x] \in 1..N
        BY <3>2, <2>2, <2>3, <2>5
      <4>2. wal[rows[x]].key = x /\ \A l \in 1..N : wal[l].key = x => l <= rows[x]
        BY <4>1, <2>3 DEF LastCommits
      <4> QED BY <4>1, <4>2, <3>2, <2>1, <2>3
    <3> QED BY <3>1, <3>2
  <2>6. ASSUME NEW l \in DOMAIN wal'
        PROVE  /\ wal'[l].ms <= clock
               /\ \A m \in DOMAIN wal' : l <= m => wal'[l].ms <= wal'[m].ms
    <3>1. wal'[l].ms <= clock
      BY <2>1, <2>3, <2>4 DEF Ordered
    <3>2. ASSUME NEW m \in DOMAIN wal', l <= m PROVE wal'[l].ms <= wal'[m].ms
      <4>1. CASE m = N + 1
        BY <4>1, <3>1, <2>1
      <4>2. CASE m \in 1..N
        <5>1. l \in 1..N
          BY <4>2, <3>2, <2>3
        <5> QED BY <5>1, <4>2, <3>2, <2>1, <2>3 DEF Ordered
      <4> QED BY <4>1, <4>2, <2>3
    <3> QED BY <3>1, <3>2
  <2> QED BY <2>2, <2>5, <2>6 DEF LastCommits, Ordered
<1>2. CASE Tick
  <2>1. UNCHANGED <<rows, wal>> /\ clock' = clock + 1 /\ clock \in Nat
    BY <1>2 DEF Tick, TypeOK
  <2>2. \A l \in DOMAIN wal : wal[l].ms \in Nat
    BY EventOf DEF TypeOK
  <2> QED BY <2>1, <2>2 DEF LastCommits, Ordered
<1>3. CASE UNCHANGED database
  BY <1>3 DEF LastCommits, Ordered, database
<1>4. \/ \E k \in Keys : Commit(k)
      \/ Tick
      \/ UNCHANGED database
  <2>1. ASSUME NEW k \in Keys, NEW i \in DOMAIN raw[k], Merge(k, i)
        PROVE  UNCHANGED database
    BY <2>1 DEF Merge
  <2>2. ASSUME NEW p \in Partitions, Consume(p) \/ Redeliver(p)
        PROVE  UNCHANGED database
    BY <2>2 DEF Consume, Redeliver
  <2>3. CASE Send \/ RestartConnector \/ Poke \/ UNCHANGED vars
    BY <2>3 DEF Send, RestartConnector, Poke, ReadClickHouse, ReadPostgres,
       ReadFreshness, BuildStaging, vars
  <2> QED BY <2>1, <2>2, <2>3 DEF Next, Stream
<1> QED BY <1>1, <1>2, <1>3, <1>4

\* Topics only ever grow, by the event behind the last one sent.
LEMMA TopicGrows ==
    ASSUME TypeOK, [Next]_vars, NEW p \in Partitions
    PROVE  /\ DOMAIN topic[p] \subseteq DOMAIN topic'[p]
           /\ \A i \in DOMAIN topic[p] : topic'[p][i] = topic[p][i]
           /\ \/ topic'[p] = topic[p]
              \/ /\ Send /\ sent + 1 \in 1..Len(wal)
                 /\ p = PartitionOf[wal[sent + 1].key]
                 /\ topic'[p] = Append(topic[p], sent + 1)
<1>1. CASE Send
  <2>1. /\ sent < Len(wal)
        /\ topic' = [topic EXCEPT ![PartitionOf[wal[sent + 1].key]] =
                        Append(@, sent + 1)]
    BY <1>1 DEF Send
  <2>2. sent + 1 \in 1..Len(wal)
    BY <2>1 DEF TypeOK
  <2>3. topic[p] \in Seq(1..Len(wal)) /\ topic \in [Partitions -> Seq(1..Len(wal))]
    BY DEF TypeOK
  <2>4. \/ topic'[p] = topic[p]
        \/ p = PartitionOf[wal[sent + 1].key] /\ topic'[p] = Append(topic[p], sent + 1)
    BY <2>1, <2>3
  <2>5. /\ DOMAIN topic[p] \subseteq DOMAIN Append(topic[p], sent + 1)
        /\ \A i \in DOMAIN topic[p] : Append(topic[p], sent + 1)[i] = topic[p][i]
    BY <2>3
  <2> QED BY <1>1, <2>2, <2>4, <2>5
<1>2. CASE ~Send
  <2>1. ASSUME NEW k \in Keys, NEW i \in DOMAIN raw[k], Merge(k, i)
        PROVE  UNCHANGED topic
    BY <2>1, MergeFacts
  <2>2. ASSUME NEW q \in Partitions, Consume(q) \/ Redeliver(q)
        PROVE  UNCHANGED topic
    BY <2>2 DEF Consume, Redeliver, connector
  <2>3. CASE \/ Tick \/ RestartConnector \/ Poke \/ UNCHANGED vars
             \/ \E k \in Keys : Commit(k)
    BY <2>3 DEF Tick, RestartConnector, Poke, ReadClickHouse, ReadPostgres, Commit,
       ReadFreshness, BuildStaging, connector, vars
  <2> QED BY <1>2, <2>1, <2>2, <2>3 DEF Next, Stream
<1> QED BY <1>1, <1>2

\* A connector that resumes early sends the rest again.
LEMMA TopicStep ==
    ASSUME TypeOK, Routed, SentInOrder, [Next]_vars
    PROVE  Routed' /\ SentInOrder'
<1>1. /\ DOMAIN wal = 1..Len(wal) /\ sent \in 0..Len(wal) /\ Len(wal) \in Nat
      /\ \A l \in DOMAIN wal : wal'[l] = wal[l]
      /\ DOMAIN wal \subseteq DOMAIN wal'
  BY LogGrows DEF TypeOK
<1>2. ASSUME NEW p \in Partitions, NEW i \in DOMAIN topic'[p]
      PROVE  PartitionOf[wal'[topic'[p][i]].key] = p
  <2>1. topic[p] \in Seq(1..Len(wal))
    BY DEF TypeOK
  <2>2. CASE i \in DOMAIN topic[p]
    <3>1. topic'[p][i] = topic[p][i]
      BY <2>2, TopicGrows
    <3>2. topic[p][i] \in DOMAIN wal
      BY <2>1, <2>2, <1>1, ElementOfSeq
    <3> QED BY <2>2, <3>1, <3>2, <1>1 DEF Routed
  <2>3. CASE i \notin DOMAIN topic[p]
    <3>1. /\ sent + 1 \in 1..Len(wal) /\ p = PartitionOf[wal[sent + 1].key]
          /\ topic'[p] = Append(topic[p], sent + 1)
      BY <2>3, TopicGrows
    <3>2. i = Len(topic[p]) + 1
      BY <2>1, <2>3, <3>1
    <3>3. topic'[p][i] = sent + 1
      BY <2>1, <3>1, <3>2
    <3> QED BY <3>1, <3>3, <1>1
  <2> QED BY <2>2, <2>3
<1>3. ASSUME NEW l \in 1..sent'
      PROVE  \E j \in DOMAIN TopicOf(l)' :
                /\ TopicOf(l)'[j] = l
                /\ \A i \in DOMAIN TopicOf(l)' : i > j => TopicOf(l)'[i] >= l
  <2>1. sent' \in 0..sent \/ (Send /\ sent' = sent + 1)
    <3>1. ASSUME NEW k \in Keys, NEW i \in DOMAIN raw[k], Merge(k, i)
          PROVE  UNCHANGED sent
      BY <3>1, MergeFacts
    <3>2. ASSUME NEW q \in Partitions, Consume(q) \/ Redeliver(q)
          PROVE  UNCHANGED sent
      BY <3>2 DEF Consume, Redeliver, connector
    <3>3. ASSUME RestartConnector PROVE sent' \in 0..sent
      BY <3>3, <1>1 DEF RestartConnector
    <3>4. ASSUME Send PROVE sent' = sent + 1
      BY <3>4 DEF Send
    <3>5. ASSUME \/ Tick \/ Poke \/ UNCHANGED vars \/ \E k \in Keys : Commit(k)
          PROVE  UNCHANGED sent
      BY <3>5 DEF Tick, Poke, ReadClickHouse, ReadPostgres, Commit,
         ReadFreshness, BuildStaging, connector, vars
    <3>6. sent' = sent \/ RestartConnector \/ Send
      BY <3>1, <3>2, <3>5 DEF Next, Stream
    <3>7. sent \in 0..sent
      BY <1>1
    <3> QED BY <3>3, <3>4, <3>6, <3>7
  <2>2. CASE l \in 1..sent
    <3>1. l \in DOMAIN wal /\ wal'[l] = wal[l]
      BY <2>2, <1>1
    <3> DEFINE p == PartitionOf[wal[l].key]
    <3>2. p \in Partitions /\ p = PartitionOf[wal'[l].key]
      BY <3>1, <1>1, EventOf
    <3>3. TopicOf(l) = topic[p] /\ TopicOf(l)' = topic'[p]
      BY <3>1 DEF TopicOf
    <3> HIDE DEF p
    <3>4. PICK j \in DOMAIN topic[p] :
              topic[p][j] = l /\ \A i \in DOMAIN topic[p] : i > j => topic[p][i] >= l
      BY <2>2, <3>3 DEF SentInOrder
    <3>5. j \in DOMAIN topic'[p] /\ topic'[p][j] = l
      BY <3>2, <3>4, TopicGrows
    <3>6. ASSUME NEW i \in DOMAIN topic'[p], i > j PROVE topic'[p][i] >= l
      <4>1. topic[p] \in Seq(1..Len(wal))
        BY <3>2 DEF TypeOK
      <4>2. CASE i \in DOMAIN topic[p]
        BY <4>2, <3>2, <3>4, <3>6, TopicGrows
      <4>3. CASE i \notin DOMAIN topic[p]
        <5>1. topic'[p] = Append(topic[p], sent + 1)
          BY <4>3, <3>2, TopicGrows
        <5>2. i = Len(topic[p]) + 1
          BY <4>1, <4>3, <5>1
        <5>3. topic'[p][i] = sent + 1
          BY <4>1, <5>1, <5>2
        <5> QED BY <5>3, <2>2, <1>1
      <4> QED BY <4>2, <4>3
    <3> QED BY <3>3, <3>5, <3>6
  <2>3. CASE l \notin 1..sent
    <3>1. Send /\ l = sent + 1
      BY <2>1, <2>3, <1>1
    <3>2. sent < Len(wal)
          /\ topic' = [topic EXCEPT ![PartitionOf[wal[sent + 1].key]] =
                          Append(@, sent + 1)]
      BY <3>1 DEF Send
    <3>3. l \in DOMAIN wal /\ wal'[l] = wal[l]
      BY <3>1, <3>2, <1>1
    <3> DEFINE p == PartitionOf[wal[l].key]
    <3>4. p \in Partitions /\ topic[p] \in Seq(1..Len(wal))
          /\ topic \in [Partitions -> Seq(1..Len(wal))]
      BY <3>3, <1>1, EventOf DEF TypeOK
    <3>5. TopicOf(l)' = Append(topic[p], l)
      BY <3>1, <3>2, <3>3, <3>4 DEF TopicOf
    <3>6. l \in 1..Len(wal)
      BY <3>3, <1>1
    <3> HIDE DEF p
    <3> DEFINE t == topic[p]
    <3>7. /\ Len(t) + 1 \in DOMAIN Append(t, l) /\ Append(t, l)[Len(t) + 1] = l
          /\ \A i \in DOMAIN Append(t, l) : ~(i > Len(t) + 1)
      BY <3>4, <3>6
    <3> QED BY <3>5, <3>7
  <2> QED BY <2>2, <2>3
<1> QED BY <1>2, <1>3 DEF Routed, SentInOrder

\* Errors are never forgotten, and only reading brings ClickHouse further.
LEMMA ReadMoves ==
    ASSUME TypeOK, [Next]_vars, NEW p \in Partitions
    PROVE  /\ errors \subseteq errors'
           /\ read[p] \in Nat /\ 1..read[p] \subseteq DOMAIN topic[p]
           /\ read'[p] \in 0..read[p] \/ (Consume(p) /\ read'[p] = read[p] + 1)
<1>1. /\ read \in [Partitions -> Nat] /\ topic[p] \in Seq(1..Len(wal))
      /\ read[p] <= Len(topic[p]) /\ Len(topic[p]) \in Nat
  BY DEF TypeOK
<1>2. read[p] \in Nat /\ 1..read[p] \subseteq DOMAIN topic[p] /\ read[p] \in 0..read[p]
  BY <1>1
<1> DEFINE Goal == /\ errors \subseteq errors'
                   /\ read'[p] \in 0..read[p] \/ (Consume(p) /\ read'[p] = read[p] + 1)
<1>3. ASSUME NEW q \in Partitions, Consume(q) PROVE Goal
  <2>1. /\ read' = [read EXCEPT ![q] = read[q] + 1] /\ errors \subseteq errors'
    BY <1>3, ReadFacts
  <2>2. CASE p = q
    BY <1>1, <1>3, <2>1, <2>2
  <2>3. CASE p # q
    BY <1>1, <1>2, <2>1, <2>3
  <2> QED BY <2>2, <2>3
<1>4. ASSUME NEW q \in Partitions, Redeliver(q) PROVE Goal
  <2>1. errors' = errors /\ \E o \in 0..Len(topic[q]) :
            o < read[q] /\ read' = [read EXCEPT ![q] = o]
    BY <1>4 DEF Redeliver
  <2>2. PICK o \in 0..Len(topic[q]) : o < read[q] /\ read' = [read EXCEPT ![q] = o]
    BY <2>1
  <2>3. o \in Nat /\ read[q] \in Nat
    BY <1>1
  <2>4. read'[p] \in 0..read[p]
    BY <1>1, <1>2, <2>2, <2>3
  <2> QED BY <2>1, <2>4
<1>5. ASSUME UNCHANGED <<read, errors>> PROVE Goal
  BY <1>2, <1>5
<1>6. \/ \E q \in Partitions : Consume(q) \/ Redeliver(q)
      \/ UNCHANGED <<read, errors>>
  <2>1. ASSUME NEW k \in Keys, NEW i \in DOMAIN raw[k], Merge(k, i)
        PROVE  UNCHANGED <<read, errors>>
    BY <2>1, MergeFacts
  <2>2. ASSUME \/ Tick \/ Send \/ RestartConnector \/ Poke \/ UNCHANGED vars
               \/ \E k \in Keys : Commit(k)
        PROVE  UNCHANGED <<read, errors>>
    BY <2>2 DEF Tick, Send, RestartConnector, Poke, ReadClickHouse, ReadPostgres,
       ReadFreshness, BuildStaging, Commit, clickhouse, vars
  <2> QED BY <2>1, <2>2 DEF Next, Stream
<1>7. Goal
  BY <1>3, <1>4, <1>5, <1>6
<1> QED BY <1>2, <1>7

\* A row goes to the table of its own key, and only if the view keeps it.
LEMMA OwnStep ==
    ASSUME TypeOK, OwnRows, [Next]_vars
    PROVE  OwnRows'
<1> SUFFICES ASSUME NEW k \in Keys, NEW n \in DOMAIN raw'[k]
             PROVE  wal'[raw'[k][n]].key = k /\ raw'[k][n] \in Kept'
  BY DEF OwnRows
<1>1. raw[k] \in Seq(1..Len(wal)) /\ DOMAIN wal = 1..Len(wal) /\ raw'[k] \in Seq(DOMAIN wal)
  BY RowsTimed, RowsOfTheLog
<1>2. /\ wal'[raw'[k][n]] = wal[raw'[k][n]]
      /\ raw'[k][n] \in Kept => raw'[k][n] \in Kept'
  <2>1. raw'[k][n] \in 1..Len(wal)
    BY <1>1, ElementOfSeq
  <2> QED BY <1>1, <2>1, LogGrows, FlawsStay
<1>3. ASSUME NEW p \in Partitions, Consume(p) PROVE wal[raw'[k][n]].key = k /\ raw'[k][n] \in Kept
  <2>1. /\ Taken(p) \in 1..Len(wal)
        /\ \/ UNCHANGED raw
           \/ /\ Taken(p) \in Kept
              /\ raw' = [raw EXCEPT ![wal[Taken(p)].key] =
                            Append(raw[wal[Taken(p)].key], Taken(p))]
    BY <1>3, ReadFacts
  <2>2. \/ raw'[k] = raw[k]
        \/ /\ raw'[k] = Append(raw[k], Taken(p)) /\ wal[Taken(p)].key = k
           /\ Taken(p) \in Kept
    BY <2>1 DEF TypeOK
  <2>3. ASSUME NEW l \in 1..Len(wal), raw'[k] = Append(raw[k], l)
        PROVE  raw'[k][n] = l \/ (n \in DOMAIN raw[k] /\ raw'[k][n] = raw[k][n])
    BY <1>1, <2>3
  <2> QED BY <2>1, <2>2, <2>3 DEF OwnRows
<1>4. ASSUME NEW x \in Keys, NEW i \in DOMAIN raw[x], Merge(x, i)
      PROVE  wal[raw'[k][n]].key = k /\ raw'[k][n] \in Kept
  <2>1. /\ i + 1 \in DOMAIN raw[x]
        /\ raw' = [raw EXCEPT ![x] = Merged(raw[x], i, Newer(raw[x], i, i + 1))]
    BY <1>4 DEF Merge, Merged
  <2>2. CASE x # k
    BY <2>1, <2>2 DEF OwnRows, TypeOK
  <2>3. CASE x = k
    <3>1. raw'[k] = Merged(raw[k], i, Newer(raw[k], i, i + 1))
      BY <2>1, <2>3 DEF TypeOK
    <3>2. Range(raw'[k]) \subseteq Range(raw[k])
      <4> DEFINE m == Newer(raw[k], i, i + 1)
      <4>1. /\ raw[k] \in Seq(DOMAIN wal) /\ i \in DOMAIN raw[k]
            /\ i + 1 \in DOMAIN raw[k]
        BY <1>1, <2>1, <2>3
      <4>2. m \in {raw[k][i], raw[k][i + 1]}
        BY DEF Newer
      <4> HIDE DEF m
      <4> QED BY <3>1, <4>1, <4>2, MergedRows DEF m
    <3>3. raw'[k][n] \in Range(raw'[k])
      BY DEF Range
    <3>4. PICK m \in DOMAIN raw[k] : raw'[k][n] = raw[k][m]
      BY <3>2, <3>3 DEF Range
    <3> QED BY <3>4 DEF OwnRows
  <2> QED BY <2>2, <2>3
<1>5. ASSUME \/ Tick \/ Send \/ RestartConnector \/ Poke \/ UNCHANGED vars
             \/ \E p \in Partitions : Redeliver(p)
             \/ \E x \in Keys : Commit(x)
      PROVE  wal[raw'[k][n]].key = k /\ raw'[k][n] \in Kept
  <2>1. UNCHANGED raw
    BY <1>5 DEF Tick, Send, RestartConnector, Redeliver, Poke, ReadClickHouse,
        ReadPostgres, ReadFreshness, BuildStaging, Commit, clickhouse, vars
  <2> QED BY <2>1 DEF OwnRows
<1>6. wal[raw'[k][n]].key = k /\ raw'[k][n] \in Kept
  BY <1>3, <1>4, <1>5 DEF Next, Stream
<1> QED BY <1>2, <1>6

\* Only what cannot be parsed goes to the error table.
LEMMA ErrorsStep ==
    ASSUME TypeOK, ErrorsOK, [Next]_vars
    PROVE  ErrorsOK'
<1>1. Poisoned \subseteq Poisoned'
  <2>1. \A l \in DOMAIN wal : l \in DOMAIN wal' /\ wal'[l] = wal[l]
    BY LogGrows
  <2> QED BY <2>1 DEF Poisoned
<1>2. ASSUME NEW p \in Partitions, Consume(p) PROVE errors' \subseteq Poisoned
  BY <1>2, ReadFacts DEF ErrorsOK
<1>3. ASSUME \/ Tick \/ Send \/ RestartConnector \/ Poke \/ UNCHANGED vars
             \/ \E p \in Partitions : Redeliver(p)
             \/ \E x \in Keys : Commit(x) \/ \E i \in DOMAIN raw[x] : Merge(x, i)
      PROVE  UNCHANGED errors
  BY <1>3 DEF Tick, Send, RestartConnector, Redeliver, Poke, ReadClickHouse, Merge,
     ReadPostgres, ReadFreshness, BuildStaging, Commit, clickhouse, vars
<1>4. errors' \subseteq Poisoned
  BY <1>2, <1>3 DEF ErrorsOK, Next, Stream
<1> QED BY <1>1, <1>4 DEF ErrorsOK

\* A row that has just been read is outdone by a newer one, or it wins.
LEMMA TakenIsKept ==
    ASSUME TypeOK, HasWinner, [Next]_vars, NEW p \in Partitions, Consume(p),
           Taken(p) \in Kept,
           NEW k, k = wal[Taken(p)].key
    PROVE  \E n \in DOMAIN raw'[k] :
              /\ Wins(wal', raw'[k], n)
              /\ wal'[raw'[k][n]] = wal[raw'[k][n]]
              /\ \/ wal[Taken(p)].ms < wal[raw'[k][n]].ms
                 \/ raw'[k][n] = Taken(p)
<1>1. Taken(p) \in 1..Len(wal) /\ k \in Keys /\ wal[Taken(p)].ms \in Nat
  BY ReadFacts, EventOf
<1>2. raw'[k] = Append(raw[k], Taken(p))
  BY <1>1, ReadFacts DEF TypeOK, Kept
<1>3. raw[k] \in Seq(1..Len(wal)) /\ DOMAIN wal = 1..Len(wal)
  BY <1>1, RowsTimed
<1> DEFINE N == Len(raw[k]) + 1
<1>4. N \in DOMAIN raw'[k] /\ raw'[k][N] = Taken(p) /\ DOMAIN raw'[k] = 1..N
  BY <1>1, <1>2, <1>3
<1> HIDE DEF N
<1>5. PICK n \in DOMAIN raw'[k] :
          Wins(wal', raw'[k], n) /\ wal'[raw'[k][n]] = wal[raw'[k][n]]
  BY <1>1, <1>4, WinnerStep
<1>6. wal'[Taken(p)] = wal[Taken(p)]
  BY <1>1, <1>3, LogGrows
<1>7. /\ wal[Taken(p)].ms <= wal[raw'[k][n]].ms
      /\ N > n => wal[Taken(p)].ms < wal[raw'[k][n]].ms
  BY <1>4, <1>5, <1>6 DEF Wins
<1>8. N > n \/ N = n
  BY <1>4, <1>5 DEF N
<1> QED BY <1>4, <1>5, <1>7, <1>8

\* What was read once stays refused, dropped or kept, whatever is read again.
LEMMA KeptStep ==
    ASSUME TypeOK, HasWinner, Routed, ReadIsKept, [Next]_vars,
           NEW p \in Partitions, NEW j \in 1..read'[p],
           NEW l, topic[p][j] = l, NEW k, wal[l].key = k
    PROVE  /\ j \in DOMAIN topic[p]
           /\ \/ l \in Poisoned /\ l \in errors'
              \/ l \in Dropped
              \/ /\ l \in Kept
                 /\ \E n \in DOMAIN raw'[k] :
                       /\ Wins(wal', raw'[k], n)
                       /\ wal'[raw'[k][n]] = wal[raw'[k][n]]
                       /\ \/ wal[l].ms < wal[raw'[k][n]].ms
                          \/ /\ wal[l].ms = wal[raw'[k][n]].ms
                             /\ \E i \in DOMAIN topic[p] :
                                   i >= j /\ topic[p][i] = raw'[k][n]
<1>1. /\ errors \subseteq errors'
      /\ read[p] \in Nat /\ 1..read[p] \subseteq DOMAIN topic[p]
      /\ read'[p] \in 0..read[p] \/ (Consume(p) /\ read'[p] = read[p] + 1)
      /\ topic[p] \in Seq(1..Len(wal))
  BY ReadMoves DEF TypeOK
<1>2. j \in 1..read[p] \/ (Consume(p) /\ j = read[p] + 1)
  BY <1>1
<1>3. CASE j \in 1..read[p]
  <2>1. j \in DOMAIN topic[p] /\ l \in 1..Len(wal)
    BY <1>1, <1>3, ElementOfSeq
  <2>2. k \in Keys /\ wal[l].ms \in Nat
    BY <2>1, EventOf
  <2>3. CASE l \in Poisoned \cap errors \/ l \in Dropped
    BY <1>1, <2>1, <2>3
  <2>4. CASE ~(l \in Poisoned \cap errors \/ l \in Dropped)
    <3>1. l \in Kept /\ Outdone(p, j, k)
      BY <1>3, <2>4 DEF ReadIsKept
    <3>2. PICK m \in DOMAIN raw[k] :
              /\ Wins(wal, raw[k], m)
              /\ \/ wal[l].ms < wal[raw[k][m]].ms
                 \/ /\ wal[l].ms = wal[raw[k][m]].ms
                    /\ \E i \in DOMAIN topic[p] : i >= j /\ topic[p][i] = raw[k][m]
      BY <3>1 DEF Outdone
    <3>3. PICK n \in DOMAIN raw'[k] :
              /\ Wins(wal', raw'[k], n) /\ Succeeds(k, n)
              /\ wal'[raw'[k][n]] = wal[raw'[k][n]]
      <4>1. m \in DOMAIN raw[k]
        OBVIOUS
      <4>2. raw[k] # <<>>
        BY <4>1
      <4> QED BY <2>2, <4>2, WinnerStep
    <3>4. /\ wal[raw[k][m]].ms <= wal[raw'[k][n]].ms
          /\ \/ raw'[k][n] = raw[k][m]
             \/ \E q \in Partitions : /\ Consume(q) /\ raw'[k][n] = Taken(q)
                                      /\ wal[Taken(q)].key = k
      BY <3>2, <3>3 DEF Succeeds
    <3>5. CASE raw'[k][n] = raw[k][m]
      BY <2>1, <3>1, <3>2, <3>3, <3>5
    <3>6. CASE \E q \in Partitions : /\ Consume(q) /\ raw'[k][n] = Taken(q)
                                     /\ wal[Taken(q)].key = k
      <4>1. PICK q \in Partitions : /\ Consume(q) /\ raw'[k][n] = Taken(q)
                                    /\ wal[Taken(q)].key = k
        BY <3>6
      <4>2. /\ read[q] + 1 \in DOMAIN topic[q] /\ Taken(q) = topic[q][read[q] + 1]
            /\ Taken(q) \in 1..Len(wal)
        BY <4>1, ReadFacts DEF Taken
      <4>3. PartitionOf[k] = q /\ PartitionOf[k] = p
        BY <2>1, <4>1, <4>2 DEF Routed
      <4>4. read[p] + 1 \in DOMAIN topic[p] /\ topic[p][read[p] + 1] = raw'[k][n]
        BY <4>1, <4>2, <4>3
      <4>5. read[p] + 1 >= j
        BY <1>1, <1>3
      <4>6. wal[raw[k][m]].ms \in Nat /\ wal[raw'[k][n]].ms \in Nat
        <5>1. raw[k][m] \in 1..Len(wal)
          <6>1. raw[k] \in Seq(1..Len(wal)) /\ m \in DOMAIN raw[k]
            BY <2>2, <3>2 DEF TypeOK
          <6> QED BY <6>1, ElementOfSeq
        <5> QED BY <4>1, <4>2, <5>1, EventOf
      <4>7. wal[l].ms < wal[raw'[k][n]].ms \/ wal[l].ms = wal[raw'[k][n]].ms
        <5>1. wal[l].ms <= wal[raw[k][m]].ms
          <6>1. wal[l].ms < wal[raw[k][m]].ms \/ wal[l].ms = wal[raw[k][m]].ms
            BY <3>2
          <6> QED BY <2>2, <4>6, <6>1
        <5>2. wal[raw[k][m]].ms <= wal[raw'[k][n]].ms
          BY <3>4
        <5> HIDE <3>2
        <5> QED BY <2>2, <4>6, <5>1, <5>2
      <4> QED BY <2>1, <3>1, <3>3, <4>4, <4>5, <4>7
    <3> QED BY <3>4, <3>5, <3>6
  <2> QED BY <2>3, <2>4
<1>4. CASE Consume(p) /\ j = read[p] + 1
  <2>1. j \in DOMAIN topic[p] /\ l = Taken(p)
    BY <1>4, ReadFacts DEF Taken
  <2>2. CASE l \notin Kept
    BY <1>4, <2>1, <2>2, ReadFacts
  <2>3. CASE l \in Kept
    <3>1. PICK n \in DOMAIN raw'[k] :
              /\ Wins(wal', raw'[k], n)
              /\ wal'[raw'[k][n]] = wal[raw'[k][n]]
              /\ wal[l].ms < wal[raw'[k][n]].ms \/ raw'[k][n] = l
      BY <1>4, <2>1, <2>3, TakenIsKept
    <3>2. j >= j
      BY <1>1, <1>4
    <3> QED BY <2>1, <2>3, <3>1, <3>2
  <2> QED BY <2>2, <2>3
<1> QED BY <1>2, <1>3, <1>4

LEMMA ReadStep ==
    ASSUME TypeOK, HasWinner, Routed, ReadIsKept, [Next]_vars
    PROVE  ReadIsKept'
<1> SUFFICES ASSUME NEW p \in Partitions, NEW j \in 1..read'[p],
                    NEW x, x = topic'[p][j]
             PROVE  \/ x \in Poisoned' /\ x \in errors'
                    \/ x \in Dropped'
                    \/ /\ x \in Kept'
                       /\ \E n \in DOMAIN raw'[wal'[x].key] :
                             /\ Wins(wal', raw'[wal'[x].key], n)
                             /\ \/ wal'[x].ms < wal'[raw'[wal'[x].key][n]].ms
                                \/ /\ wal'[x].ms = wal'[raw'[wal'[x].key][n]].ms
                                   /\ \E i \in DOMAIN topic'[p] : i >= j
                                         /\ topic'[p][i] = raw'[wal'[x].key][n]
  BY DEF ReadIsKept, Outdone
<1> DEFINE l == topic[p][j]
           k == wal[l].key
<1>1. /\ j \in DOMAIN topic[p]
      /\ \/ l \in Poisoned /\ l \in errors'
         \/ l \in Dropped
         \/ /\ l \in Kept
            /\ \E n \in DOMAIN raw'[k] :
                  /\ Wins(wal', raw'[k], n)
                  /\ wal'[raw'[k][n]] = wal[raw'[k][n]]
                  /\ \/ wal[l].ms < wal[raw'[k][n]].ms
                     \/ /\ wal[l].ms = wal[raw'[k][n]].ms
                        /\ \E i \in DOMAIN topic[p] :
                              i >= j /\ topic[p][i] = raw'[k][n]
  BY KeptStep
<1>2. /\ DOMAIN topic[p] \subseteq DOMAIN topic'[p]
      /\ \A i \in DOMAIN topic[p] : topic'[p][i] = topic[p][i]
  BY TopicGrows
<1>3. /\ x = l /\ wal'[l] = wal[l]
      /\ l \in Poisoned' <=> l \in Poisoned
      /\ l \in Dropped' <=> l \in Dropped
      /\ l \in Kept' <=> l \in Kept
  <2>1. topic[p] \in Seq(1..Len(wal)) /\ DOMAIN wal = 1..Len(wal)
    BY DEF TypeOK
  <2>2. j \in DOMAIN topic[p]
    BY <1>1
  <2>3. l \in DOMAIN wal
    BY <2>1, <2>2, ElementOfSeq
  <2>4. l \in 1..Len(wal)
    BY <2>1, <2>3
  <2>5. x = l
    BY <1>2, <2>2
  <2> HIDE DEF l
  <2> QED BY <2>3, <2>4, <2>5, LogGrows, FlawsStay
<1>4. wal'[x].key = k /\ wal'[x].ms = wal[l].ms
  BY <1>3
<1> HIDE DEF l, k
<1>5. CASE (l \in Poisoned /\ l \in errors') \/ l \in Dropped
  BY <1>3, <1>5
<1>6. CASE /\ l \in Kept
           /\ ~((l \in Poisoned /\ l \in errors') \/ l \in Dropped)
  <2>1. PICK n \in DOMAIN raw'[k] :
            /\ Wins(wal', raw'[k], n)
            /\ wal'[raw'[k][n]] = wal[raw'[k][n]]
            /\ \/ wal[l].ms < wal[raw'[k][n]].ms
               \/ /\ wal[l].ms = wal[raw'[k][n]].ms
                  /\ \E i \in DOMAIN topic[p] :
                        i >= j /\ topic[p][i] = raw'[k][n]
    BY <1>1, <1>6
  <2>2. (\E i \in DOMAIN topic[p] : i >= j /\ topic[p][i] = raw'[k][n]) =>
         \E i \in DOMAIN topic'[p] : i >= j /\ topic'[p][i] = raw'[k][n]
    BY <1>2
  <2> QED BY <1>3, <1>4, <1>6, <2>1, <2>2
<1> QED BY <1>1, <1>5, <1>6

-----------------------------------------------------------------------------
\* The _version of raw is the commit time: whatever is replayed, redelivered or
\* merged, what FINAL shows of a key is never replaced by something older.
THEOREM ReplaysLose == Spec => ReplaysNeverWin
<1>1. Init => TypeOK /\ HasWinner
  BY InitType DEF Init, HasWinner
<1>2. TypeOK /\ HasWinner /\ [Next]_vars => (TypeOK /\ HasWinner)'
  BY NextType, WinnerRemains
<1>3. TypeOK /\ HasWinner /\ [Next]_vars =>
        [\A k \in Keys : raw[k] # <<>> =>
            raw'[k] # <<>> /\ wal[Final(k)].ms <= wal'[Final(k)'].ms]_vars
  <2> SUFFICES ASSUME TypeOK, HasWinner, [Next]_vars, NEW k \in Keys, raw[k] # <<>>
               PROVE  raw'[k] # <<>> /\ wal[Final(k)].ms <= wal'[Final(k)'].ms
    OBVIOUS
  <2>1. PICK m \in DOMAIN raw[k] : Wins(wal, raw[k], m)
    BY DEF HasWinner
  <2>2. PICK n \in DOMAIN raw'[k] :
            /\ Wins(wal', raw'[k], n)
            /\ wal[raw[k][m]].ms <= wal'[raw'[k][n]].ms
    BY <2>1, WinnerStep DEF Succeeds
  <2>3. Final(k) = raw[k][m]
    <3>1. Timed(wal, raw[k])
      BY RowsTimed
    <3> QED BY <2>1, <3>1, FinalWins DEF Final, ArgMax
  <2>4. Final(k)' = raw'[k][n]
    <3>1. /\ wal' \in Seq(Change) /\ DOMAIN wal' = 1..Len(wal')
          /\ raw' \in [Keys -> Seq(1..Len(wal'))]
      BY NextType DEF TypeOK
    <3>2. \A l \in DOMAIN wal' : wal'[l].ms \in Nat
      <4>1. \A l \in DOMAIN wal' : wal'[l] \in Change
        BY <3>1, ElementOfSeq
      <4> QED BY <4>1 DEF Change
    <3>3. Timed(wal', raw'[k])
      BY <3>1, <3>2 DEF Timed
    <3> QED BY <2>2, <3>3, FinalWins DEF Final, ArgMax
  <2> QED BY <2>2, <2>3, <2>4
<1> QED BY <1>1, <1>2, <1>3, PTL DEF Spec, ReplaysNeverWin

\* Log, topics and tables hold together, whatever is sent or read again.
THEOREM FinalInvariant == Spec => []FinalInv
<1>1. Init => FinalInv
  <2> SUFFICES ASSUME Init PROVE FinalInv
    OBVIOUS
  <2>1. /\ rows = [k \in Keys |-> 0] /\ DOMAIN wal = {} /\ 1..sent = {}
        /\ topic = [p \in Partitions |-> <<>>]
        /\ \A p \in Partitions : 1..read[p] = {}
        /\ raw = [k \in Keys |-> <<>>]
    BY DEF Init
  <2>2. LastCommits /\ Ordered /\ Routed /\ SentInOrder
    BY <2>1 DEF LastCommits, Ordered, Routed, SentInOrder
  <2>3. HasWinner /\ OwnRows /\ ReadIsKept
    BY <2>1 DEF HasWinner, OwnRows, ReadIsKept
  <2>4. ErrorsOK
    BY DEF Init, ErrorsOK
  <2> QED BY <2>2, <2>3, <2>4, InitType DEF FinalInv
<1>2. FinalInv /\ [Next]_vars => FinalInv'
  <2> SUFFICES ASSUME FinalInv, [Next]_vars PROVE FinalInv'
    OBVIOUS
  <2>1. TypeOK /\ HasWinner /\ LastCommits /\ Ordered /\ Routed /\ SentInOrder
        /\ OwnRows /\ ErrorsOK /\ ReadIsKept
    BY DEF FinalInv
  <2>2. TypeOK' /\ HasWinner'
    BY <2>1, NextType, WinnerRemains
  <2>3. LastCommits' /\ Ordered'
    BY <2>1, LogStep
  <2>4. Routed' /\ SentInOrder'
    BY <2>1, TopicStep
  <2>5. OwnRows' /\ ErrorsOK' /\ ReadIsKept'
    BY <2>1, OwnStep, ErrorsStep, ReadStep
  <2> QED BY <2>2, <2>3, <2>4, <2>5 DEF FinalInv
<1> QED BY <1>1, <1>2, PTL DEF Spec

\* Once all is delivered, what FINAL shows of a key is a change of it that the
\* views keep, and no such change is newer.
LEMMA FinalIsLast ==
    ASSUME FinalInv, Delivered, NEW k \in Keys, NEW l \in Kept, wal[l].key = k
    PROVE  /\ raw[k] # <<>> /\ Final(k) \in Kept /\ wal[Final(k)].key = k
           /\ l <= Final(k)
<1>1. /\ TypeOK /\ HasWinner /\ Ordered /\ Routed /\ SentInOrder
      /\ OwnRows /\ ReadIsKept
  BY DEF FinalInv
<1> DEFINE p == PartitionOf[k]
           t == topic[p]
<1>2. /\ l \in 1..Len(wal) /\ Len(wal) \in Nat /\ DOMAIN wal = 1..Len(wal)
      /\ p \in Partitions
  <2>1. Len(wal) \in Nat /\ DOMAIN wal = 1..Len(wal)
    BY <1>1 DEF TypeOK
  <2> QED BY <2>1, CdcAssumption DEF Kept
<1>3. sent = Len(wal) /\ read[p] = Len(t) /\ t \in Seq(1..Len(wal)) /\ Len(t) \in Nat
  BY <1>1, <1>2 DEF Delivered, TypeOK
<1>4. PICK j \in DOMAIN t : t[j] = l /\ \A i \in DOMAIN t : i > j => t[i] >= l
  BY <1>1, <1>2, <1>3 DEF SentInOrder, TopicOf
<1>5. j \in 1..read[p]
  BY <1>3, <1>4
<1> HIDE DEF p, t
<1>6. Outdone(p, j, k)
  <2>1. l \notin Poisoned /\ l \notin Dropped
    BY DEF Kept
  <2> QED BY <1>1, <1>2, <1>4, <1>5, <2>1 DEF ReadIsKept, t
<1>7. PICK n \in DOMAIN raw[k] :
          /\ Wins(wal, raw[k], n)
          /\ \/ wal[l].ms < wal[raw[k][n]].ms
             \/ \E i \in DOMAIN t : i >= j /\ t[i] = raw[k][n]
  BY <1>4, <1>6 DEF Outdone, t
<1> DEFINE f == raw[k][n]
<1>8. f \in 1..Len(wal) /\ wal[f].key = k /\ f \in Kept
  <2>1. raw[k] \in Seq(1..Len(wal)) /\ n \in DOMAIN raw[k]
    BY <1>1, <1>7, RowsTimed
  <2> QED BY <1>1, <2>1, ElementOfSeq DEF OwnRows
<1> HIDE DEF f
<1>9. l <= f
  <2>1. CASE wal[l].ms < wal[f].ms
    <3>1. wal[f].ms \in Nat /\ wal[l].ms \in Nat
      BY <1>1, <1>2, <1>8, EventOf
    <3>2. f <= l => wal[f].ms <= wal[l].ms
      BY <1>1, <1>2, <1>8 DEF Ordered
    <3> QED BY <1>2, <1>8, <2>1, <3>1, <3>2
  <2>2. CASE \E i \in DOMAIN t : i >= j /\ t[i] = f
    <3>1. PICK i \in DOMAIN t : i >= j /\ t[i] = f
      BY <2>2
    <3>2. CASE i = j
      BY <3>1, <3>2, <1>2, <1>4
    <3>3. CASE i > j
      BY <3>1, <3>3, <1>4, <1>2, <1>8
    <3>4. i > j \/ i = j
      BY <1>3, <1>4, <3>1
    <3> QED BY <3>2, <3>3, <3>4
  <2> QED BY <1>7, <2>1, <2>2 DEF f
<1>10. raw[k] # <<>>
  <2>1. n \in DOMAIN raw[k]
    OBVIOUS
  <2> QED BY <2>1
<1>11. Final(k) = f
  <2>1. Timed(wal, raw[k])
    BY <1>1, RowsTimed
  <2> QED BY <1>7, <2>1, FinalWins DEF Final, ArgMax, f
<1> QED BY <1>8, <1>9, <1>10, <1>11

\* What cannot be parsed is in the error table once all is delivered.
LEMMA ErrorsAreNoted ==
    ASSUME FinalInv, Delivered
    PROVE  errors = Poisoned
<1>1. TypeOK /\ Routed /\ SentInOrder /\ ErrorsOK /\ ReadIsKept
  BY DEF FinalInv
<1>2. ASSUME NEW l \in Poisoned PROVE l \in errors
  <2>1. l \in 1..sent /\ l \in 1..Len(wal) /\ l \notin Dropped /\ l \notin Kept
    <3>1. DOMAIN wal = 1..Len(wal) /\ sent = Len(wal)
      BY <1>1 DEF TypeOK, Delivered
    <3> QED BY <3>1 DEF Poisoned, Dropped, Kept
  <2> DEFINE p == PartitionOf[wal[l].key]
             t == topic[p]
  <2>2. p \in Partitions
    BY <1>1, <2>1, EventOf
  <2>3. read[p] = Len(t) /\ DOMAIN t = 1..Len(t)
    BY <1>1, <2>2 DEF Delivered, TypeOK
  <2>4. PICK j \in DOMAIN t : t[j] = l
    BY <1>1, <2>1 DEF SentInOrder, TopicOf
  <2> QED BY <1>1, <2>1, <2>2, <2>3, <2>4 DEF ReadIsKept
<1> QED BY <1>1, <1>2 DEF ErrorsOK

\* The pipeline of a table, from the slot to FINAL: once the connector has sent
\* all and ClickHouse has read all, FINAL shows of every key the last change
\* that its view keeps, the landing row if it was kept, and cdc_errors has what
\* could not be parsed and nothing else.  A key all of whose changes were
\* refused or dropped has no row at all.
THEOREM DeliveredIsCurrent == Spec => []DeliveredMeansCurrent
<1>1. FinalInv => DeliveredMeansCurrent
  <2> SUFFICES ASSUME FinalInv, Delivered PROVE DeliveredMeansCurrent
    BY DEF DeliveredMeansCurrent
  <2>1. TypeOK /\ LastCommits /\ OwnRows
    BY DEF FinalInv
  <2>2. Kept \subseteq Nat /\ \A l \in Kept : l # 0
    <3>1. Len(wal) \in Nat /\ DOMAIN wal = 1..Len(wal)
      BY <2>1 DEF TypeOK
    <3> QED BY <3>1 DEF Kept
  <2>3. ASSUME NEW k \in Keys
        PROVE  /\ Shown(k) = LastKept(k)
               /\ rows[k] \in Kept => Shown(k) = rows[k]
    <3> DEFINE kept == {l \in Kept : wal[l].key = k}
    <3>1. rows[k] \in Kept => rows[k] \in kept /\ \A m \in kept : m <= rows[k]
      <4>1. rows[k] \in Kept => rows[k] # 0
        BY <2>2
      <4> QED BY <4>1, <2>1 DEF LastCommits, Kept
    <3>2. CASE kept = {}
      <4>1. raw[k] = <<>>
        <5>1. raw[k] \in Seq(1..Len(wal))
          BY <2>1 DEF TypeOK
        <5>2. raw[k] # <<>> => 1 \in DOMAIN raw[k]
          BY <5>1
        <5> QED BY <2>1, <3>2, <5>2 DEF OwnRows
      <4> QED BY <3>1, <3>2, <4>1 DEF Shown, LastKept
    <3>3. CASE kept # {}
      <4> DEFINE f == Final(k)
      <4>1. raw[k] # <<>> /\ f \in kept /\ \A m \in kept : m <= f
        BY <3>3, FinalIsLast
      <4> HIDE DEF f
      <4>2. \A x \in kept : (\A m \in kept : m <= x) => x = f
        BY <2>2, <4>1
      <4>3. (CHOOSE x \in kept : \A m \in kept : m <= x) = f
        BY <4>1, <4>2
      <4>4. Shown(k) = f
        BY <4>1 DEF Shown, f
      <4>5. LastKept(k) = f
        BY <3>3, <4>3 DEF LastKept
      <4>6. rows[k] \in Kept => rows[k] = f
        BY <3>1, <4>2
      <4> QED BY <4>4, <4>5, <4>6
    <3> QED BY <3>2, <3>3
  <2> QED BY <2>3, ErrorsAreNoted DEF DeliveredMeansCurrent
<1> QED BY <1>1, FinalInvariant, PTL
=============================================================================
