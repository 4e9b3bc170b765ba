------------------------ MODULE FineractClientProofs ------------------------
(***************************************************************************)
(* No crawl loses a record to insertions or repeats one for deletions, for *)
(* collections, pages, limits and retries of any size.  The invariant says *)
(* on which side of the offset the records are: what the crawl has yielded *)
(* is behind it and what it has not is ahead.  An insertion only moves     *)
(* records away from the start of the collection, a deletion towards it.   *)
(***************************************************************************)
EXTENDS FineractClient, SequenceTheorems, TLAPS

-----------------------------------------------------------------------------
(* What inserting and deleting does to positions.                          *)

\* A record at or after the place of the insertion moves one place on.
LEMMA InsertAtPositions ==
    ASSUME NEW s \in Seq(Ids), NEW i \in 1..(Len(s) + 1), NEW x \in Ids
    PROVE  /\ InsertAt(s, i, x) \in Seq(Ids)
           /\ Len(InsertAt(s, i, x)) = Len(s) + 1
           /\ \A j \in 1..(i - 1) : InsertAt(s, i, x)[j] = s[j]
           /\ InsertAt(s, i, x)[i] = x
           /\ \A j \in i..Len(s) : InsertAt(s, i, x)[j + 1] = s[j]
<1> DEFINE a == SubSeq(s, 1, i - 1)
           b == SubSeq(s, i, Len(s))
           c == <<x>>
<1>0. Len(s) \in Nat /\ i \in Nat /\ i >= 1 /\ i <= Len(s) + 1
  OBVIOUS
<1>1. /\ a \in Seq(Ids)
      /\ Len(a) = i - 1
      /\ \A j \in 1..(i - 1) : a[j] = s[j]
  <2>1. \A j \in 1..(i - 1) : s[j] \in Ids
    OBVIOUS
  <2> QED BY <2>1, SubSeqProperties
<1>2. /\ b \in Seq(Ids)
      /\ Len(b) = Len(s) - i + 1
      /\ \A j \in 1..(Len(s) - i + 1) : b[j] = s[i + j - 1]
  <2>1. \A j \in i..Len(s) : s[j] \in Ids
    OBVIOUS
  <2> QED BY <2>1, SubSeqProperties
<1>3. c \in Seq(Ids) /\ Len(c) = 1 /\ c[1] = x
  OBVIOUS
<1>4. InsertAt(s, i, x) = (a \o c) \o b
  BY DEF InsertAt
<1> HIDE DEF a, b, c
<1>5. /\ a \o c \in Seq(Ids)
      /\ Len(a \o c) = i
      /\ \A j \in 1..(i - 1) : (a \o c)[j] = a[j]
      /\ (a \o c)[i] = x
  <2>1. /\ a \o c \in Seq(Ids)
        /\ Len(a \o c) = Len(a) + Len(c)
        /\ \A j \in 1..(Len(a) + Len(c)) :
              (a \o c)[j] = IF j <= Len(a) THEN a[j] ELSE c[j - Len(a)]
    BY <1>1, <1>3, ConcatProperties
  <2>2. Len(a) + Len(c) = i
    BY <1>0, <1>1, <1>3
  <2>3. i \in 1..(Len(a) + Len(c)) /\ ~ (i <= Len(a)) /\ i - Len(a) = 1
    BY <1>0, <1>1, <2>2
  <2>4. (a \o c)[i] = c[1]
    BY <2>1, <2>3
  <2>5. \A j \in 1..(i - 1) : (a \o c)[j] = a[j]
    BY <1>0, <1>1, <2>1, <2>2
  <2> QED BY <1>3, <2>1, <2>2, <2>4, <2>5
<1> DEFINE d == a \o c
<1> HIDE DEF d
<1>6. /\ d \in Seq(Ids)
      /\ Len(d) = i
      /\ \A j \in 1..(i - 1) : d[j] = s[j]
      /\ d[i] = x
  BY <1>1, <1>5 DEF d
<1>7. /\ d \o b \in Seq(Ids)
      /\ Len(d \o b) = Len(d) + Len(b)
      /\ \A j \in 1..(Len(d) + Len(b)) :
            (d \o b)[j] = IF j <= Len(d) THEN d[j] ELSE b[j - Len(d)]
  BY <1>2, <1>6, ConcatProperties
<1>8. Len(d) + Len(b) = Len(s) + 1
  BY <1>0, <1>2, <1>6
<1>9. \A j \in 1..i : (d \o b)[j] = d[j]
  BY <1>0, <1>6, <1>7, <1>8
<1>10. ASSUME NEW j \in i..Len(s)
       PROVE  (d \o b)[j + 1] = s[j]
  <2>1. /\ j + 1 \in 1..(Len(d) + Len(b))
        /\ ~ (j + 1 <= Len(d))
        /\ (j + 1) - Len(d) = j - i + 1
    BY <1>0, <1>6, <1>8
  <2>2. (d \o b)[j + 1] = b[j - i + 1]
    BY <1>7, <2>1
  <2>3. j - i + 1 \in 1..(Len(s) - i + 1) /\ i + (j - i + 1) - 1 = j
    BY <1>0
  <2> QED BY <1>2, <2>2, <2>3
<1>11. InsertAt(s, i, x) = d \o b
  BY <1>4 DEF d
<1> QED BY <1>0, <1>6, <1>7, <1>8, <1>9, <1>10, <1>11

\* A record after the deleted one moves one place back.
LEMMA RemoveAtPositions ==
    ASSUME NEW s \in Seq(Ids), NEW i \in 1..Len(s)
    PROVE  /\ RemoveAt(s, i) \in Seq(Ids)
           /\ Len(RemoveAt(s, i)) = Len(s) - 1
           /\ \A j \in 1..(i - 1) : RemoveAt(s, i)[j] = s[j]
           /\ \A j \in i..(Len(s) - 1) : RemoveAt(s, i)[j] = s[j + 1]
<1> DEFINE a == SubSeq(s, 1, i - 1)
           b == SubSeq(s, i + 1, Len(s))
<1>0. Len(s) \in Nat /\ i \in Nat /\ i >= 1 /\ i <= Len(s)
  OBVIOUS
<1>1. /\ a \in Seq(Ids)
      /\ Len(a) = i - 1
      /\ \A j \in 1..(i - 1) : a[j] = s[j]
  <2>1. \A j \in 1..(i - 1) : s[j] \in Ids
    OBVIOUS
  <2> QED BY <2>1, SubSeqProperties
<1>2. /\ b \in Seq(Ids)
      /\ Len(b) = Len(s) - i
      /\ \A j \in 1..(Len(s) - i) : b[j] = s[i + j]
  <2>1. \A j \in (i + 1)..Len(s) : s[j] \in Ids
    OBVIOUS
  <2> QED BY <2>1, SubSeqProperties
<1>3. RemoveAt(s, i) = a \o b
  BY DEF RemoveAt
<1> HIDE DEF a, b
<1>4. /\ a \o b \in Seq(Ids)
      /\ Len(a \o b) = Len(a) + Len(b)
      /\ \A j \in 1..(Len(a) + Len(b)) :
            (a \o b)[j] = IF j <= Len(a) THEN a[j] ELSE b[j - Len(a)]
  BY <1>1, <1>2, ConcatProperties
<1>5. Len(a) + Len(b) = Len(s) - 1
  BY <1>0, <1>1, <1>2
<1>6. \A j \in 1..(i - 1) : (a \o b)[j] = a[j]
  BY <1>0, <1>1, <1>4, <1>5
<1>7. ASSUME NEW j \in i..(Len(s) - 1)
      PROVE  (a \o b)[j] = s[j + 1]
  <2>1. /\ j \in 1..(Len(a) + Len(b))
        /\ ~ (j <= Len(a))
        /\ j - Len(a) = j - i + 1
    BY <1>0, <1>1, <1>5
  <2>2. (a \o b)[j] = b[j - i + 1]
    BY <1>4, <2>1
  <2>3. j - i + 1 \in 1..(Len(s) - i) /\ i + (j - i + 1) = j + 1
    BY <1>0
  <2> QED BY <1>2, <2>2, <2>3
<1> QED BY <1>1, <1>3, <1>4, <1>5, <1>6, <1>7

-----------------------------------------------------------------------------
(* Pages.                                                                  *)

\* The client counts the records of a page as what the page has.
LEMMA PageFacts ==
    ASSUME TypeOK, kind = "paged"
    PROVE  /\ Size \in Nat
           /\ offset + Size \in Nat
           /\ \A i \in DOMAIN collection :
                 (offset < i /\ i <= offset + PageSize) <=>
                 (offset < i /\ i <= offset + Size)
           /\ Size < PageSize => Len(collection) <= offset + Size
<1>1. /\ Len(collection) \in Nat
      /\ DOMAIN collection = 1..Len(collection)
      /\ offset \in Nat
      /\ PageSize \in Nat
  BY ClientAssumption DEF TypeOK
<1>2. CASE Len(collection) <= offset
  <2>1. Size = 0
    BY <1>2, <1>1 DEF Size
  <2> QED BY <1>1, <1>2, <2>1
<1>3. CASE ~ (Len(collection) <= offset)
            /\ Len(collection) <= offset + PageSize
  <2>1. Size = Len(collection) - offset
    BY <1>3, <1>1 DEF Size
  <2> QED BY <1>1, <1>3, <2>1
<1>4. CASE ~ (Len(collection) <= offset)
            /\ ~ (Len(collection) <= offset + PageSize)
  <2>1. Size = PageSize
    BY <1>4, <1>1 DEF Size
  <2> QED BY <1>1, <1>4, <2>1
<1> QED BY <1>2, <1>3, <1>4

\* A reply of any kind has a number of records.
LEMMA SizeType ==
    ASSUME TypeOK
    PROVE  Size \in Nat
<1>1. CASE kind = "paged"
  BY <1>1, PageFacts
<1>2. CASE kind # "paged"
  BY <1>2 DEF Size, TypeOK
<1> QED BY <1>1, <1>2

\* A total is a number of records.
LEMMA TotalType ==
    ASSUME TypeOK, NEW total \in Totals, total # None
    PROVE  total \in Nat
<1>1. CASE kind = "paged"
  <2>1. PICK u \in UnderReports : /\ u <= Len(collection)
                                  /\ total = Len(collection) - u
    BY <1>1 DEF Totals
  <2>2. u \in Nat /\ Len(collection) \in Nat
    BY ClientAssumption DEF TypeOK
  <2> QED BY <2>1, <2>2
<1>2. CASE kind # "paged"
  BY <1>2 DEF Totals, TypeOK
<1> QED BY <1>1, <1>2

-----------------------------------------------------------------------------
(* The steps.                                                              *)

\* An insertion keeps the invariant: it moves no record to the other side of
\* the offset against the direction of the crawl.
LEMMA InsertStep ==
    ASSUME CrawlInv, NEW i \in 1..(Len(collection) + 1), NEW x \in Ids,
           Insert(i, x)
    PROVE  CrawlInv'
<1> USE DEF CrawlInv
<1>1. /\ collection \in Seq(Ids)
      /\ Len(collection) \in Nat
      /\ DOMAIN collection = 1..Len(collection)
  BY DEF TypeOK
<1>2. /\ collection' \in Seq(Ids)
      /\ Len(collection') = Len(collection) + 1
      /\ \A j \in 1..(i - 1) : collection'[j] = collection[j]
      /\ collection'[i] = x
      /\ \A j \in i..Len(collection) : collection'[j + 1] = collection[j]
  BY <1>1, InsertAtPositions DEF Insert
<1>3. DOMAIN collection' = 1..(Len(collection) + 1)
  BY <1>2
<1>4. TypeOK'
  BY <1>2 DEF TypeOK, Insert, client
<1>5. NoDuplicates'
  <2> SUFFICES ASSUME NEW j \in DOMAIN collection', NEW k \in DOMAIN collection',
                      collection'[j] = collection'[k], j < k
               PROVE  FALSE
    BY <1>1, <1>3 DEF NoDuplicates
  <2>1. \A m \in DOMAIN collection : collection[m] # x
    BY DEF Insert, Records
  <2>2. ASSUME NEW m \in DOMAIN collection', m > i
        PROVE  m - 1 \in DOMAIN collection /\ collection'[m] = collection[m - 1]
    <3>1. m - 1 \in i..Len(collection) /\ (m - 1) + 1 = m
      BY <1>1, <1>3, <2>2
    <3> QED BY <1>1, <1>2, <3>1
  <2>3. ASSUME NEW m \in DOMAIN collection', m < i
        PROVE  m \in DOMAIN collection /\ collection'[m] = collection[m]
    BY <1>1, <1>2, <1>3, <2>3
  <2>4. CASE j = i
    BY <2>4, <2>1, <2>2, <1>2, <1>3
  <2>5. CASE k = i
    BY <2>5, <2>1, <2>3, <1>2, <1>3
  <2>6. CASE j < i /\ k < i
    BY <2>6, <2>3 DEF NoDuplicates
  <2>7. CASE j < i /\ k > i
    <3>1. j = k - 1
      BY <2>7, <2>2, <2>3 DEF NoDuplicates
    <3> QED BY <3>1, <2>7, <1>1, <1>3
  <2>8. CASE j > i /\ k > i
    <3>1. j - 1 = k - 1
      BY <2>8, <2>2 DEF NoDuplicates
    <3> QED BY <3>1, <2>8, <1>1, <1>3
  <2> QED BY <1>1, <1>3, <2>4, <2>5, <2>6, <2>7, <2>8
<1>6. CrawlOK'
  BY DEF CrawlOK, Insert, client
<1>7. StillAhead'
  <2> SUFFICES ASSUME pc = "request", removed = {}, NEW y \in start
               PROVE  \E j \in DOMAIN collection' :
                         collection'[j] = y /\ (yielded[y] > 0 \/ j > offset)
    BY DEF StillAhead, Insert, client
  <2>1. PICK j \in DOMAIN collection :
               collection[j] = y /\ (yielded[y] > 0 \/ j > offset)
    BY DEF StillAhead
  <2>2. CASE j < i
    BY <2>1, <2>2, <1>1, <1>2, <1>3
  <2>3. CASE j >= i
    <3>1. /\ j + 1 \in DOMAIN collection'
          /\ collection'[j + 1] = y
          /\ j > offset => j + 1 > offset
      BY <2>1, <2>3, <1>1, <1>2, <1>3 DEF TypeOK
    <3> QED BY <3>1, <2>1
  <2> QED BY <1>1, <2>2, <2>3
<1>8. AlreadyBehind'
  BY DEF AlreadyBehind, Insert
<1>9. NothingIsLost'
  BY DEF NothingIsLost, Insert, client
<1>10. NothingTwice'
  BY DEF NothingTwice, Insert
<1> QED BY <1>4, <1>5, <1>6, <1>7, <1>8, <1>9, <1>10

\* So does a deletion.
LEMMA DeleteStep ==
    ASSUME CrawlInv, NEW i \in DOMAIN collection, Delete(i)
    PROVE  CrawlInv'
<1> USE DEF CrawlInv
<1>1. /\ collection \in Seq(Ids)
      /\ Len(collection) \in Nat
      /\ DOMAIN collection = 1..Len(collection)
      /\ collection[i] \in Ids
  BY DEF TypeOK
<1>2. /\ collection' \in Seq(Ids)
      /\ Len(collection') = Len(collection) - 1
      /\ \A j \in 1..(i - 1) : collection'[j] = collection[j]
      /\ \A j \in i..(Len(collection) - 1) : collection'[j] = collection[j + 1]
  BY <1>1, RemoveAtPositions DEF Delete
<1>3. DOMAIN collection' = 1..(Len(collection) - 1)
  BY <1>2
<1>4. TypeOK'
  BY <1>1, <1>2 DEF TypeOK, Delete, client
<1>5. ASSUME NEW m \in DOMAIN collection'
      PROVE  /\ m < i => m \in DOMAIN collection /\ collection'[m] = collection[m]
             /\ m >= i => /\ m + 1 \in DOMAIN collection
                          /\ collection'[m] = collection[m + 1]
  BY <1>1, <1>2, <1>3
<1>6. NoDuplicates'
  <2> SUFFICES ASSUME NEW j \in DOMAIN collection', NEW k \in DOMAIN collection',
                      collection'[j] = collection'[k], j < k
               PROVE  FALSE
    BY <1>1, <1>3 DEF NoDuplicates
  <2>0. j \in Nat /\ k \in Nat /\ i \in Nat
    BY <1>1, <1>3
  <2>1. CASE k < i
    <3>1. j < i
      BY <2>0, <2>1
    <3>2. j = k
      BY <2>1, <3>1, <1>5 DEF NoDuplicates
    <3> QED BY <2>0, <3>2
  <2>2. CASE j < i /\ k >= i
    <3>1. j = k + 1
      BY <2>2, <1>5 DEF NoDuplicates
    <3> QED BY <3>1, <2>0
  <2>3. CASE j >= i
    <3>1. k >= i
      BY <2>0, <2>3
    <3>2. j + 1 = k + 1
      BY <2>3, <3>1, <1>5 DEF NoDuplicates
    <3> QED BY <3>2, <2>0
  <2> QED BY <2>0, <2>1, <2>2, <2>3
<1>7. CrawlOK'
  BY DEF CrawlOK, Delete, client
<1>8. removed' # {}
  BY DEF Delete
<1>9. StillAhead' /\ NothingIsLost'
  BY <1>8 DEF StillAhead, NothingIsLost
<1>10. AlreadyBehind'
  <2> SUFFICES ASSUME pc = "request", added = {},
                      NEW m \in DOMAIN collection', yielded[collection'[m]] > 0
               PROVE  m <= offset
    BY DEF AlreadyBehind, Delete, client
  <2>0. m \in Nat /\ i \in Nat /\ offset \in Nat
    BY <1>1, <1>3 DEF TypeOK
  <2>1. CASE m < i
    BY <2>1, <1>5 DEF AlreadyBehind
  <2>2. CASE m >= i
    <3>1. m + 1 <= offset
      BY <2>2, <1>5 DEF AlreadyBehind
    <3> QED BY <3>1, <2>0
  <2> QED BY <2>0, <2>1, <2>2
<1>11. NothingTwice'
  BY DEF NothingTwice, Delete, client
<1> QED BY <1>4, <1>6, <1>7, <1>9, <1>10, <1>11

\* A page keeps the invariant: it moves the offset over exactly the records
\* it yields, and after the last page nothing is ahead.
LEMMA AnswerStep ==
    ASSUME CrawlInv, NEW total \in Totals, Answer(total)
    PROVE  CrawlInv'
<1> USE DEF CrawlInv
<1>1. /\ pc = "request"
      /\ collection' = collection /\ kind' = kind
      /\ start' = start /\ added' = added /\ removed' = removed
      /\ offset' = offset + Size
      /\ attempt' = 0
  BY DEF Answer
<1>2. /\ Len(collection) \in Nat
      /\ DOMAIN collection = 1..Len(collection)
      /\ offset \in Nat /\ Size \in Nat /\ offset' \in Nat
      /\ page_no \in 0..MaxPages /\ page_no < MaxPages /\ MaxPages \in Nat
      /\ MaxRetries \in Nat
      /\ \A i \in DOMAIN collection : collection[i] \in Ids
  BY <1>1, SizeType, ClientAssumption DEF TypeOK, CrawlOK
<1>3. /\ yielded' \in [Ids -> Nat]
      /\ \A x \in Ids :
            yielded'[x] = IF \E i \in Window : collection[i] = x
                            THEN yielded[x] + 1 ELSE yielded[x]
  BY DEF Answer, TypeOK
<1>4. /\ pc' \in {"request", "done"}
      /\ page_no' \in 0..MaxPages
      /\ pc' = "request" => page_no' < MaxPages /\ ~LastPage(total)
      /\ pc' = "done" /\ page_no' < MaxPages => LastPage(total)
  <2>1. CASE LastPage(total)
    BY <2>1, <1>2 DEF Answer
  <2>2. CASE ~LastPage(total)
    <3>1. /\ page_no' = page_no + 1
          /\ pc' = IF page_no + 1 = MaxPages THEN "done" ELSE "request"
      BY <2>2 DEF Answer
    <3> QED BY <3>1, <2>2, <1>2
  <2> QED BY <2>1, <2>2
<1>5. misled' \in BOOLEAN
  BY DEF Answer, TypeOK
<1>6. TypeOK'
  BY <1>1, <1>2, <1>3, <1>4, <1>5 DEF TypeOK
<1>7. NoDuplicates'
  BY <1>1 DEF NoDuplicates
<1>8. kind # "paged" => LastPage(total)
  <2> SUFFICES ASSUME kind = "list" PROVE LastPage(total)
    BY DEF LastPage, TypeOK, Kind
  <2>1. total = Len(collection) /\ Size = Len(collection) /\ offset = 0
    BY <1>1 DEF Totals, Size, CrawlOK
  <2>2. total # None
    BY <2>1, <1>2, ClientAssumption
  <2> QED BY <2>1, <2>2, <1>2 DEF LastPage
<1>9. CrawlOK'
  BY <1>1, <1>4, <1>8 DEF CrawlOK
<1>10. \A i \in DOMAIN collection :
          i \in Window => yielded'[collection[i]] > 0
  <2> SUFFICES ASSUME NEW i \in DOMAIN collection, i \in Window
               PROVE  yielded'[collection[i]] > 0
    OBVIOUS
  <2>1. collection[i] \in Ids /\ yielded[collection[i]] \in Nat
    BY <1>2 DEF TypeOK
  <2>2. yielded'[collection[i]] = yielded[collection[i]] + 1
    BY <2>1, <1>3
  <2> QED BY <2>1, <2>2
<1>11. \A x \in Ids : yielded[x] > 0 => yielded'[x] > 0
  BY <1>3 DEF TypeOK
\* What is ahead of the crawl is in the page or ahead of the next one.
<1>12. \A i \in DOMAIN collection :
          i > offset => i \in Window \/ (kind = "paged" /\ i > offset')
  <2>1. CASE kind = "paged"
    <3> SUFFICES ASSUME NEW i \in DOMAIN collection, i > offset, i \notin Window
                 PROVE  i > offset'
      BY <2>1
    <3>1. ~ (offset < i /\ i <= offset + PageSize)
      BY <2>1 DEF Window
    <3>2. ~ (offset < i /\ i <= offset + Size)
      BY <2>1, <3>1, PageFacts
    <3> QED BY <3>2, <1>1, <1>2
  <2>2. CASE kind # "paged"
    BY <2>2 DEF Window
  <2> QED BY <2>1, <2>2
<1>13. start \subseteq Ids
  BY DEF TypeOK
<1>14. ASSUME removed = {}, NEW x \in start
       PROVE  \E i \in DOMAIN collection :
                 /\ collection[i] = x
                 /\ yielded'[x] > 0 \/ (kind = "paged" /\ i > offset')
  <2>1. PICK i \in DOMAIN collection :
               collection[i] = x /\ (yielded[x] > 0 \/ i > offset)
    BY <1>1, <1>14 DEF StillAhead
  <2>2. CASE yielded[x] > 0
    BY <2>1, <2>2, <1>11, <1>13
  <2>3. CASE i > offset
    BY <2>1, <2>3, <1>10, <1>12
  <2> QED BY <2>1, <2>2, <2>3
<1>15. StillAhead'
  BY <1>1, <1>14 DEF StillAhead
\* After the last page nothing is ahead.
<1>16. kind = "paged" /\ LastPage(total) /\ ~misled' =>
          Len(collection) <= offset'
  <2> SUFFICES ASSUME kind = "paged", LastPage(total), ~misled'
               PROVE  Len(collection) <= offset'
    OBVIOUS
  <2>1. CASE Size < PageSize
    BY <2>1, <1>1, PageFacts
  <2>2. CASE total # None /\ offset + Size >= total
    <3>1. total \in Nat /\ ~ (total < Len(collection))
      BY <2>2, TotalType DEF Answer
    <3> QED BY <2>2, <3>1, <1>1, <1>2
  <2> QED BY <2>1, <2>2 DEF LastPage
<1>17. NothingIsLost'
  <2> SUFFICES ASSUME pc' = "done", removed = {}, ~misled',
                      page_no' < MaxPages, NEW x \in start
               PROVE  yielded'[x] > 0
    BY <1>1 DEF NothingIsLost
  <2>1. PICK i \in DOMAIN collection :
               /\ collection[i] = x
               /\ yielded'[x] > 0 \/ (kind = "paged" /\ i > offset')
    BY <1>14
  <2>2. kind = "paged" => ~ (i > offset')
    BY <1>2, <1>4, <1>16
  <2> QED BY <2>1, <2>2
\* A record of the page was not yielded before.
<1>18. ASSUME added = {}, NEW i \in Window
       PROVE  i \in DOMAIN collection /\ yielded[collection[i]] = 0
  <2>1. i \in DOMAIN collection
    BY DEF Window
  <2>2. i > offset
    <3>1. CASE kind = "paged"
      BY <3>1 DEF Window
    <3>2. CASE kind # "paged"
      BY <3>2, <2>1, <1>1, <1>2 DEF CrawlOK
    <3> QED BY <3>1, <3>2
  <2>3. ~ (yielded[collection[i]] > 0)
    BY <2>1, <2>2, <1>1, <1>2, <1>18 DEF AlreadyBehind
  <2>4. yielded[collection[i]] \in Nat
    BY <2>1, <1>2 DEF TypeOK
  <2> QED BY <2>1, <2>3, <2>4
<1>19. NothingTwice'
  <2> SUFFICES ASSUME added = {}, NEW x \in Ids
               PROVE  yielded'[x] <= 1
    BY <1>1 DEF NothingTwice
  <2>1. yielded[x] \in Nat /\ yielded[x] <= 1
    BY DEF NothingTwice, TypeOK
  <2>2. CASE \E i \in Window : collection[i] = x
    <3>1. yielded[x] = 0
      BY <2>2, <1>18
    <3> QED BY <3>1, <2>2, <1>3
  <2>3. CASE ~ \E i \in Window : collection[i] = x
    BY <2>1, <2>3, <1>3
  <2> QED BY <2>2, <2>3
<1>20. AlreadyBehind'
  <2> SUFFICES ASSUME pc' = "request", added = {}, NEW i \in DOMAIN collection,
                      yielded'[collection[i]] > 0
               PROVE  i <= offset'
    BY <1>1 DEF AlreadyBehind
  <2>1. kind = "paged"
    BY <1>4, <1>8
  <2>2. CASE yielded[collection[i]] > 0
    <3>1. i <= offset
      BY <2>2, <1>1 DEF AlreadyBehind
    <3> QED BY <3>1, <1>1, <1>2
  <2>3. CASE ~ (yielded[collection[i]] > 0)
    <3>1. PICK j \in Window : collection[j] = collection[i]
      BY <2>3, <1>2, <1>3
    <3>2. j = i
      BY <3>1, <1>18 DEF NoDuplicates
    <3> QED BY <3>1, <3>2, <2>1, <1>1, PageFacts DEF Window
  <2> QED BY <2>2, <2>3
<1> QED BY <1>6, <1>7, <1>9, <1>15, <1>17, <1>19, <1>20

\* Every other step keeps the invariant, since it touches neither the
\* collection nor what was yielded.
LEMMA OtherSteps ==
    ASSUME CrawlInv, Begin \/ Retry \/ Refuse \/ UNCHANGED vars
    PROVE  CrawlInv'
<1> USE DEF CrawlInv
<1>1. CASE Begin
  <2>1. /\ pc = "idle" /\ pc' = "request" /\ start' = Records
        /\ added' = {} /\ removed' = {}
        /\ UNCHANGED <<collection, kind, page_no, offset, attempt, yielded,
                       misled>>
    BY <1>1 DEF Begin
  <2>2. offset = 0 /\ page_no = 0 /\ \A x \in Ids : yielded[x] = 0
    BY <2>1 DEF CrawlOK
  <2>3. \A i \in DOMAIN collection :
           i \in Nat /\ i > 0 /\ collection[i] \in Ids
    BY DEF TypeOK
  <2>4. TypeOK'
    BY <2>1, <2>3 DEF TypeOK, Records
  <2>5. NoDuplicates'
    BY <2>1 DEF NoDuplicates
  <2>6. CrawlOK'
    BY <2>1, <2>2, ClientAssumption DEF CrawlOK
  <2>7. StillAhead'
    BY <2>1, <2>2, <2>3 DEF StillAhead, Records
  <2>8. AlreadyBehind'
    BY <2>1, <2>2, <2>3 DEF AlreadyBehind
  <2>9. NothingIsLost' /\ NothingTwice'
    BY <2>1, <2>2 DEF NothingIsLost, NothingTwice
  <2> QED BY <2>4, <2>5, <2>6, <2>7, <2>8, <2>9
<1>2. CASE Retry \/ Refuse
  <2>1. /\ pc = "request" /\ pc' \in {"request", "failed"}
        /\ UNCHANGED <<collection, kind, page_no, offset, yielded, start,
                       added, removed, misled>>
    BY <1>2 DEF Retry, Refuse, history
  <2>2. attempt' \in 0..MaxRetries
    BY <1>2, ClientAssumption DEF Retry, Refuse, TypeOK
  <2>3. TypeOK'
    BY <2>1, <2>2 DEF TypeOK
  <2>4. NoDuplicates' /\ CrawlOK' /\ StillAhead' /\ AlreadyBehind'
    BY <2>1 DEF NoDuplicates, CrawlOK, StillAhead, AlreadyBehind
  <2>5. NothingIsLost' /\ NothingTwice'
    BY <2>1 DEF NothingIsLost, NothingTwice
  <2> QED BY <2>3, <2>4, <2>5
<1>3. CASE UNCHANGED vars
  BY <1>3 DEF vars, client, history, TypeOK, NoDuplicates, CrawlOK, StillAhead,
              AlreadyBehind, NothingIsLost, NothingTwice
<1> QED BY <1>1, <1>2, <1>3

\* The invariant holds before the crawl.
LEMMA InitCrawl == Init => CrawlInv
<1> SUFFICES ASSUME Init PROVE CrawlInv
  OBVIOUS
<1>1. PICK n \in 0..MaxLength : collection \in [1..n -> Ids]
  <2>1. collection \in UNION {[1..n -> Ids] : n \in 0..MaxLength}
    BY DEF Init
  <2> QED BY <2>1
<1>2. n \in Nat
  BY ClientAssumption
<1>3. collection \in Seq(Ids)
  BY <1>1, <1>2, SeqDef
<1>4. TypeOK
  <2>1. /\ 0 \in 0..MaxPages /\ 0 \in 0..MaxRetries /\ 0 \in Nat
        /\ yielded \in [Ids -> Nat]
    BY ClientAssumption DEF Init
  <2>2. /\ kind \in Kind /\ pc = "idle"
        /\ page_no = 0 /\ offset = 0 /\ attempt = 0
        /\ start = {} /\ added = {} /\ removed = {} /\ misled = FALSE
    BY DEF Init
  <2> QED BY <1>3, <2>1, <2>2 DEF TypeOK
<1>5. NoDuplicates
  BY <1>1 DEF Init, NoDuplicates, IsInjective
<1>6. CrawlOK /\ StillAhead /\ AlreadyBehind /\ NothingIsLost /\ NothingTwice
  BY DEF Init, CrawlOK, StillAhead, AlreadyBehind, NothingIsLost, NothingTwice
<1> QED BY <1>4, <1>5, <1>6 DEF CrawlInv

-----------------------------------------------------------------------------
(* The theorems.                                                           *)

\* What is yielded is behind the offset and what is not is ahead of it.
THEOREM CrawlInvariant == Spec => []CrawlInv
<1>1. CrawlInv /\ [Next]_vars => CrawlInv'
  BY InsertStep, DeleteStep, AnswerStep, OtherSteps DEF Next, Request
<1> QED BY <1>1, InitCrawl, PTL DEF Spec

\* No request, page or record is ever out of its range: the loops of get and
\* iter_pages never pass max_retries and max_pages.
THEOREM TypeCorrect == Spec => []TypeOK
<1>1. CrawlInv => TypeOK
  BY DEF CrawlInv
<1> QED BY <1>1, CrawlInvariant, PTL

\* iter_pages loses no record to what is inserted during the crawl, whatever
\* the page size, the number of pages and the requests tried again.
THEOREM InsertsLoseNothing == Spec => []NothingIsLost
<1>1. CrawlInv => NothingIsLost
  BY DEF CrawlInv
<1> QED BY <1>1, CrawlInvariant, PTL

\* And repeats none for what is deleted during the crawl.
THEOREM DeletesRepeatNothing == Spec => []NothingTwice
<1>1. CrawlInv => NothingTwice
  BY DEF CrawlInv
<1> QED BY <1>1, CrawlInvariant, PTL
=============================================================================
