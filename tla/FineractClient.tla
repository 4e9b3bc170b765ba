--------------------------- MODULE FineractClient ---------------------------
(***************************************************************************)
(* FineractClient crawling one collection of the Fineract API: the paging  *)
(* loop of iter_pages over the retry loop of get (client.py).              *)
(*                                                                         *)
(* The collection is a list that other users of the core-banking system    *)
(* insert into and delete from between any two requests.  A page is a      *)
(* window of it at the moment the server answers; the client only knows    *)
(* how many records it has been given, which it uses as the next offset.   *)
(*                                                                         *)
(* Requests fail in the two ways that get tells apart: those it tries      *)
(* again (RETRYABLE_STATUS, connection errors and timeouts) and those it   *)
(* does not (other 4xx, 5xx, a body that is not JSON).                     *)
(*                                                                         *)
(* IngestionRun takes from this module that a crawl yields records of the  *)
(* collection and then ends or fails, and may miss or repeat some.         *)
(***************************************************************************)
EXTENDS Naturals, Sequences, SequencesExt

CONSTANTS
    Ids,            \* records
    PageSize,       \* config.page_size
    MaxPages,       \* config.max_pages
    MaxRetries,     \* config.max_retries
    UnderReports,   \* by how much a reported total may fall short
    MaxLength,      \* bound on the length of the collection
    None            \* no totalFilteredRecords in the reply

ASSUME ClientAssumption ==
    /\ PageSize \in Nat \ {0}
    /\ MaxPages \in Nat \ {0}
    /\ MaxRetries \in Nat
    /\ UnderReports \subseteq Nat
    /\ MaxLength \in Nat
    /\ None \notin Nat

(***************************************************************************)
(* An operator whose comment begins with "Mutant" is a plausible mistake   *)
(* in the definition after it, which nothing uses.                         *)
(***************************************************************************)
VARIABLES
    collection,     \* the records at the server, in its order
    kind,           \* what the endpoint is: see Kind
    pc,             \* where the crawl is
    page_no,        \* pages read by a crawl that goes on
    offset,         \* records yielded so far
    attempt,        \* of the current request
    yielded,        \* how often each record was yielded
    start,          \* history: the records when the crawl began
    added,          \* history: records inserted during the crawl
    removed,        \* history: records deleted during the crawl
    misled          \* history: a total fell short

client == <<kind, pc, page_no, offset, attempt, yielded>>
history == <<start, added, removed, misled>>
vars == <<collection, client, history>>

-----------------------------------------------------------------------------
\* An endpoint is asked for everything (EntitySpec.paged is false), or for
\* pages, which it serves or ignores, answering with a bare list.
Kind == {"unpaged", "paged", "list"}

TypeOK ==
    /\ collection \in Seq(Ids)
    /\ kind \in Kind
    /\ pc \in {"idle", "request", "done", "failed"}
    /\ page_no \in 0..MaxPages
    /\ offset \in Nat
    /\ attempt \in 0..MaxRetries
    /\ yielded \in [Ids -> Nat]
    /\ start \subseteq Ids
    /\ added \subseteq Ids
    /\ removed \subseteq Ids
    /\ misled \in BOOLEAN

Records == {collection[i] : i \in DOMAIN collection}

Init ==
    /\ collection \in {s \in UNION {[1..n -> Ids] : n \in 0..MaxLength} :
                           IsInjective(s)}
    /\ kind \in Kind
    /\ pc = "idle"
    /\ page_no = 0
    /\ offset = 0
    /\ attempt = 0
    /\ yielded = [x \in Ids |-> 0]
    /\ start = {}
    /\ added = {}
    /\ removed = {}
    /\ misled = FALSE

-----------------------------------------------------------------------------
(* Other users of the core-banking system.  What they do while no crawl is *)
(* under way is in Init.                                                   *)

Insert(i, x) ==
    /\ pc = "request"
    /\ Len(collection) < MaxLength
    /\ x \notin Records
    /\ collection' = InsertAt(collection, i, x)
    /\ added' = added \cup {x}
    /\ UNCHANGED <<client, start, removed, misled>>

Delete(i) ==
    /\ pc = "request"
    /\ collection' = RemoveAt(collection, i)
    /\ removed' = removed \cup {collection[i]}
    /\ UNCHANGED <<client, start, added, misled>>

-----------------------------------------------------------------------------
(* iter_pages is called.                                                   *)
Begin ==
    /\ pc = "idle"
    /\ pc' = "request"
    /\ start' = Records
    /\ added' = {}
    /\ removed' = {}
    /\ UNCHANGED <<collection, kind, page_no, offset, attempt, yielded,
                   misled>>

\* The positions of the collection that the server puts into its reply.
Window ==
    IF kind = "paged"
      THEN {i \in DOMAIN collection : offset < i /\ i <= offset + PageSize}
      ELSE DOMAIN collection

\* How many records that is: len(items).
Size ==
    IF kind = "paged"
      THEN IF Len(collection) <= offset THEN 0
           ELSE IF Len(collection) <= offset + PageSize
                THEN Len(collection) - offset
                ELSE PageSize
      ELSE Len(collection)

\* The total of the reply: what the server reports, if it does, or the length
\* of a bare list (_items_of).
Totals ==
    IF kind = "paged"
      THEN {None} \cup {Len(collection) - u :
                          u \in {v \in UnderReports : v <= Len(collection)}}
      ELSE {Len(collection)}

\* Mutant: the next offset is compared as if another page had been read.
LastPageEarly(total) ==
    \/ kind = "unpaged"
    \/ Size < PageSize
    \/ total # None /\ offset + Size + PageSize >= total

\* Mutant: only a short page ends the loop.
ShortPage(total) ==
    \/ kind = "unpaged"
    \/ Size < PageSize

\* iter_pages returns after this page.
LastPage(total) ==
    \/ kind = "unpaged"
    \/ Size < PageSize
    \/ total # None /\ offset + Size >= total

(* The request succeeds: the page is yielded, and the loop goes on to the  *)
(* next one unless this was the last or the max_pages-th.  An empty page   *)
(* is short, too.                                                          *)
Answer(total) ==
    /\ pc = "request"
    /\ yielded' = [x \in Ids |->
          IF \E i \in Window : collection[i] = x THEN yielded[x] + 1
                                                 ELSE yielded[x]]
    /\ offset' = offset + Size
    /\ attempt' = 0
    /\ IF LastPage(total)
         THEN pc' = "done" /\ page_no' = page_no
         ELSE /\ page_no' = page_no + 1
              /\ pc' = IF page_no + 1 = MaxPages THEN "done" ELSE "request"
    /\ misled' = (misled \/ (total # None /\ total < Len(collection)))
    /\ UNCHANGED <<collection, kind, start, added, removed>>

\* Mutant: one attempt too many.
RetryOnceMore ==
    /\ pc = "request"
    /\ IF attempt <= MaxRetries
         THEN attempt' = attempt + 1 /\ pc' = pc
         ELSE attempt' = attempt /\ pc' = "failed"
    /\ UNCHANGED <<collection, kind, page_no, offset, yielded, history>>

\* Mutant: the attempts are counted from zero again.
RetryForever ==
    /\ pc = "request"
    /\ attempt' = IF attempt < MaxRetries THEN attempt + 1 ELSE 0
    /\ UNCHANGED <<collection, kind, pc, page_no, offset, yielded, history>>

(* A retryable status, a lost connection or a timeout: get backs off and   *)
(* asks for the same page again, or gives up after max_retries.            *)
Retry ==
    /\ pc = "request"
    /\ IF attempt < MaxRetries
         THEN attempt' = attempt + 1 /\ pc' = pc
         ELSE attempt' = attempt /\ pc' = "failed"
    /\ UNCHANGED <<collection, kind, page_no, offset, yielded, history>>

(* A status or a body that get does not retry on.                          *)
Refuse ==
    /\ pc = "request"
    /\ pc' = "failed"
    /\ UNCHANGED <<collection, kind, page_no, offset, attempt, yielded,
                   history>>

Request ==
    \/ \E total \in Totals : Answer(total)
    \/ Retry
    \/ Refuse

Next ==
    \/ \E i \in 1..(Len(collection) + 1), x \in Ids : Insert(i, x)
    \/ \E i \in DOMAIN collection : Delete(i)
    \/ Begin
    \/ Request

Spec == Init /\ [][Next]_vars

(* Every request comes to an end, by its answer or by its timeout.         *)
FairSpec == Spec /\ WF_vars(Request)

-----------------------------------------------------------------------------
(* Properties.                                                             *)

\* Whatever is inserted while the crawl goes on, a crawl that comes to its
\* end yields every record that was there when it began, if none was deleted,
\* no total fell short and it did not run into max_pages.
NothingIsLost ==
    pc = "done" /\ removed = {} /\ ~misled /\ page_no < MaxPages =>
        \A x \in start : yielded[x] > 0

\* Whatever is deleted while the crawl goes on, and however often requests
\* are tried again, no record is yielded twice if none was inserted.
NothingTwice ==
    added = {} => \A x \in Ids : yielded[x] <= 1

\* A crawl ends in spite of a collection that keeps growing and a server that
\* keeps failing (get's max_retries, iter_pages' max_pages).
EveryCrawlEnds == pc = "request" ~> pc \in {"done", "failed"}

-----------------------------------------------------------------------------
(* The inductive invariant behind the two safety properties.               *)

NoDuplicates ==
    \A i, j \in DOMAIN collection : collection[i] = collection[j] => i = j

\* Where the crawl is.
CrawlOK ==
    /\ pc = "idle" => offset = 0 /\ page_no = 0 /\ \A x \in Ids : yielded[x] = 0
    /\ pc = "request" => page_no < MaxPages
    /\ pc = "request" /\ kind # "paged" => offset = 0

\* While the crawl goes on, what it has not yielded is still ahead of it.
StillAhead ==
    pc = "request" /\ removed = {} =>
        \A x \in start : \E i \in DOMAIN collection :
            collection[i] = x /\ (yielded[x] > 0 \/ i > offset)

\* And what it has yielded is behind it.
AlreadyBehind ==
    pc = "request" /\ added = {} =>
        \A i \in DOMAIN collection : yielded[collection[i]] > 0 => i <= offset

CrawlInv ==
    /\ TypeOK
    /\ NoDuplicates
    /\ CrawlOK
    /\ StillAhead
    /\ AlreadyBehind
    /\ NothingIsLost
    /\ NothingTwice
=============================================================================
