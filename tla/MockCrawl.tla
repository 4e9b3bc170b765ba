----------------------------- MODULE MockCrawl -----------------------------
(***************************************************************************)
(* Ingestion processes crawl the mock Fineract server: a generated book of *)
(* offices, staff, products, clients, loans, savings and transactions,     *)
(* served by one thread per request, with failures injected on demand.     *)
(*                                                                         *)
(* Every random choice of the generator is any choice; of what it writes,  *)
(* only what the mappers keep is here.  A date is a number of days.        *)
(***************************************************************************)
EXTENDS EntityMapping, SequencesExt

CONSTANTS
    Crawlers,       \* the processes
    Plan,           \* the entities each of them was asked to ingest
    Offices, Officers, Products, Clients, Loans,            \* how many
    SavingsProducts, Accounts,                              \* how many
    Statuses,       \* of loans
    Principals,     \* of loans
    Rates,          \* annual_interest_rate of a loan product
    Whole, Parts,   \* a loan is repaid to Parts of Whole
    Term,           \* number of repayments
    PageSize, MaxPages, MaxRetries,
    MaxRejectPct,     \* max_reject_ratio, in percent
    FailNext,       \* what a test sets fail_next_n to
    MaxTransients   \* bound on the failures that failure_rate makes

ASSUME CrawlAssumption ==
    /\ IsFiniteSet(Crawlers)
    /\ FailNext \in Nat /\ MaxRetries \in Nat
    /\ MaxRejectPct \in Nat /\ MaxTransients \in Nat
    /\ Plan \in [Crawlers -> Seq(Entities)]
    /\ PageSize \in Nat \ {0} /\ MaxPages \in Nat \ {0}
    /\ NULL \notin Int \cup {"active"} /\ NULL \notin Seq(Int)

\* The generator lists its offices, staff and products, and draws rates of at
\* most 3.8 percent a month.
ASSUME BookAssumption ==
    /\ {Offices, Officers, Products, SavingsProducts, Term, Whole}
          \subseteq Nat \ {0}
    /\ {Clients, Loans, Accounts} \subseteq Nat
    /\ Statuses \subseteq Nat /\ Principals \subseteq Nat
    /\ Rates \subseteq 0..46 /\ Parts \subseteq 0..Whole

\* No collection has more than the pages a crawl may take of it.
ASSUME PagesSuffice ==
    \A n \in {Clients, Loans, Accounts} : n <= MaxPages * PageSize

VARIABLES
    book,           \* the dataset of the server
    asked,          \* how many requests a test asked to fail so far
    fail,           \* fail_next_n, shared by the threads of the server
    injected,       \* how many requests fail_next_n has made to fail
    transients,     \* how many failure_rate has made to fail
    overlapped,     \* history: two requests were in work at once
    todo,           \* per process, the entities it has left
    parents,        \* per process, the loans it still asks for, or NULL
    got,            \* per process, the records of the current crawl
    done,           \* per process, whether that crawl is complete
    request,        \* per process, the thread that serves it
    held,           \* per process, what that thread has read of fail
    tries,          \* per process, failed attempts of the current request
    landed,         \* per entity, the rows of the landing table
    loaded,         \* entities that some process has landed
    skipped,        \* loans whose transactions were given up
    complaints      \* checks that have failed, and rejections

server == <<asked, fail, injected, transients, overlapped, request, held>>
crawl == <<todo, parents, got, done, tries, skipped>>
store == <<landed, loaded, complaints>>
vars == <<book, server, crawl, store>>

-----------------------------------------------------------------------------
(* FineractDataset: what depends on what, whatever the dice say.           *)

BuildOffices ==
    [i \in 1..Offices |->
        [id |-> i, name |-> i, parentId |-> IF i = 1 THEN NULL ELSE 1]]

BuildStaff(office) ==
    [i \in 1..Officers |-> [id |-> i, officeId |-> office[i]]]

BuildLoanProducts(rate) ==
    [i \in 1..Products |->
        [id |-> i, principal |-> 50 * i, annualInterestRate |-> rate[i]]]

BuildSavingsProducts ==
    [i \in 1..SavingsProducts |-> [id |-> i, status |-> "active"]]

BuildClients(office, officer) ==
    [i \in 1..Clients |->
        [id |-> i, officeId |-> office[i], staffId |-> officer[i]]]

\* What a loan costs over its term, at a rate in percent a year.
Interest(principal, rate) == (principal * rate * Term) \div 1200

\* Closed and overpaid loans are repaid in full.
BuildLoans(clients, products, die) ==
    [i \in 1..Loans |->
        LET c == clients[die[i].client]
            p == products[die[i].product]
            s == die[i].status
            progress == IF s \in {600, 700} THEN Whole ELSE die[i].part
            paid == (die[i].principal * progress) \div Whole
            interest == Interest(die[i].principal, p.annualInterestRate)
            owed == interest - (interest * progress) \div Whole
        IN  [id |-> i, clientId |-> c.id, officeId |-> c.officeId,
             loanProductId |-> p.id, loanOfficerId |-> die[i].officer,
             status |-> s, principal |-> die[i].principal,
             annualInterestRate |-> p.annualInterestRate,
             expectedDisbursement |-> 100 + i,
             actualDisbursement |-> IF s >= 300 THEN 100 + i ELSE NULL,
             principalOutstanding |-> die[i].principal - paid,
             totalOutstanding |-> die[i].principal - paid + owed,
             interest |-> interest, progress |-> progress]]

BuildSavings(clients, client, product) ==
    [i \in 1..Accounts |->
        LET c == clients[client[i]]
        IN  [id |-> i, clientId |-> c.id, savingsProductId |-> product[i],
             officeId |-> c.officeId, fieldOfficerId |-> c.staffId,
             balance |-> 10 * i]]

\* The disbursement and at least one repayment of every loan paid out.
Installments(loan) ==
    LET n == (Term * loan.progress) \div Whole IN IF n < 1 THEN 1 ELSE n

TxCount(loan) == IF loan.status < 300 THEN 0 ELSE 1 + Installments(loan)

\* How many transactions the loans up to i have.
CountUpTo(loans) ==
    LET count[i \in 0..Loans] ==
            IF i = 0 THEN 0 ELSE count[i - 1] + TxCount(loans[i])
    IN  count

BuildTransactions(loans) ==
    [i \in 1..Loans |->
        [n \in 1..TxCount(loans[i]) |->
            [id |-> CountUpTo(loans)[i - 1] + n, loanId |-> loans[i].id,
             type |-> IF n = 1 THEN 1 ELSE 2,
             amount |-> IF n = 1 THEN loans[i].principal
                        ELSE (loans[i].principal + loans[i].interest)
                                \div Term]]]

Dice ==
    [client : 1..Clients, product : 1..Products, officer : 1..Officers,
     status : Statuses, principal : Principals, part : Parts]

Book(staff, products, clients, die, savings) ==
    LET loans == BuildLoans(clients, products, die)
    IN  [offices |-> BuildOffices, staff |-> staff,
         loan_products |-> products,
         savings_products |-> BuildSavingsProducts,
         clients |-> clients, loans |-> loans, savings_accounts |-> savings,
         loan_transactions |-> BuildTransactions(loans)]

Init ==
    /\ \E o \in [1..Officers -> 1..Offices], r \in [1..Products -> Rates],
          co \in [1..Clients -> 1..Offices],
          cs \in [1..Clients -> 1..Officers],
          die \in [1..Loans -> Dice], sc \in [1..Accounts -> 1..Clients],
          sp \in [1..Accounts -> 1..SavingsProducts] :
          LET clients == BuildClients(co, cs)
          IN  book = Book(BuildStaff(o), BuildLoanProducts(r), clients, die,
                          BuildSavings(clients, sc, sp))
    /\ asked = 0
    /\ fail = 0
    /\ injected = 0
    /\ transients = 0
    /\ overlapped = FALSE
    /\ todo = Plan
    /\ parents = [c \in Crawlers |-> NULL]
    /\ got = [c \in Crawlers |-> <<>>]
    /\ done = [c \in Crawlers |-> FALSE]
    /\ request = [c \in Crawlers |-> "none"]
    /\ held = [c \in Crawlers |-> 0]
    /\ tries = [c \in Crawlers |-> 0]
    /\ landed = [e \in Entities |-> {}]
    /\ loaded = {}
    /\ skipped = {}
    /\ complaints = {}

-----------------------------------------------------------------------------
(* The client.                                                             *)

Busy(c) == todo[c] # <<>> /\ ~done[c]
Entity(c) == Head(todo[c])
IsChild(e) == e = "loan_transactions"

\* The loans as landed when the crawl of their transactions begins.
ListParents(c) ==
    /\ Busy(c) /\ IsChild(Entity(c))
    /\ parents[c] = NULL
    /\ parents' = [parents EXCEPT ![c] = SetToSeq(ParentIds(landed["loans"]))]
    /\ done' = [done EXCEPT ![c] = (ParentIds(landed["loans"]) = {})]
    /\ UNCHANGED <<book, server, store, todo, got, tries, skipped>>

Send(c) ==
    /\ Busy(c) /\ (IsChild(Entity(c)) => parents[c] # NULL)
    /\ request[c] = "none"
    /\ request' = [request EXCEPT ![c] = "sent"]
    /\ overlapped' = (overlapped \/ \E d \in Crawlers : request[d] # "none")
    /\ UNCHANGED <<book, asked, fail, injected, transients, held, crawl, store>>

-----------------------------------------------------------------------------
(* The server.                                                             *)

\* A test sets fail_next_n, once.
Arm ==
    /\ asked = 0
    /\ asked' = FailNext
    /\ fail' = FailNext
    /\ UNCHANGED <<book, injected, transients, overlapped, request, held, crawl,
                   store>>

\* Mutant: one request more than asked for is made to fail.
FailsOneMore == fail >= 0

Fails == fail > 0

\* do_GET looks at fail_next_n, ...
Choose(c) ==
    /\ request[c] = "sent"
    /\ Fails
    /\ request' = [request EXCEPT ![c] = "failing"]
    /\ UNCHANGED <<book, asked, fail, injected, transients, overlapped, held,
                   crawl, store>>

\* ... reads it again to take one away, ...
Read(c) ==
    /\ request[c] = "failing"
    /\ request' = [request EXCEPT ![c] = "counting"]
    /\ held' = [held EXCEPT ![c] = fail]
    /\ UNCHANGED <<book, asked, fail, injected, transients, overlapped, crawl,
                   store>>

\* The client tries again, or gives up: one loan, or a whole entity.
Failed(c) ==
    \/ /\ tries[c] < MaxRetries
       /\ tries' = [tries EXCEPT ![c] = @ + 1]
       /\ UNCHANGED <<todo, parents, got, done, skipped>>
    \/ /\ tries[c] >= MaxRetries
       /\ IsChild(Entity(c))
       /\ tries' = [tries EXCEPT ![c] = 0]
       /\ skipped' = skipped \cup {Head(parents[c])}
       /\ parents' = [parents EXCEPT ![c] = Tail(@)]
       /\ done' = [done EXCEPT ![c] = (Len(parents[c]) = 1)]
       /\ UNCHANGED <<todo, got>>
    \/ /\ tries[c] >= MaxRetries
       /\ ~IsChild(Entity(c))
       /\ tries' = [tries EXCEPT ![c] = 0]
       /\ todo' = [todo EXCEPT ![c] = Tail(@)]
       /\ got' = [got EXCEPT ![c] = <<>>]
       /\ UNCHANGED <<parents, done, skipped>>

\* ... writes it, and answers 503.
Write(c) ==
    /\ request[c] = "counting"
    /\ request' = [request EXCEPT ![c] = "none"]
    /\ fail' = held[c] - 1
    /\ held' = [held EXCEPT ![c] = 0]
    /\ injected' = injected + 1
    /\ Failed(c)
    /\ UNCHANGED <<book, asked, transients, overlapped, store>>

\* Whatever was asked for, any other request may fail while failure_rate is set.
Transient(c) ==
    /\ request[c] = "sent"
    /\ ~Fails
    /\ transients < MaxTransients
    /\ transients' = transients + 1
    /\ request' = [request EXCEPT ![c] = "none"]
    /\ Failed(c)
    /\ UNCHANGED <<book, asked, fail, injected, overlapped, held, store>>

\* Mutant: the offset is ignored.
FirstPage(rows, offset) ==
    SubSeq(rows, 1, IF PageSize < Len(rows) THEN PageSize ELSE Len(rows))

\* pageItems of the rows from an offset on.
Page(rows, offset) ==
    SubSeq(rows, offset + 1,
           IF offset + PageSize < Len(rows) THEN offset + PageSize ELSE Len(rows))

\* A page, or the whole of a collection that is asked for without paging.
Served(e, c) ==
    IF IsChild(e) THEN book[e][Head(parents[c])]
    ELSE IF Registry[e].paged THEN Page(book[e], Len(got[c]))
    ELSE book[e]

\* iter_pages: a short page is the last, and so is one that ends at the total,
\* or that ends max_pages pages.
LastPage(e, c) ==
    IF IsChild(e) THEN Len(parents[c]) = 1
    ELSE Registry[e].paged =>
            \/ Len(Served(e, c)) < PageSize
            \/ Len(got[c]) + Len(Served(e, c)) >= Len(book[e])
            \/ Len(got[c]) + PageSize >= MaxPages * PageSize

Answer(c) ==
    /\ request[c] = "sent"
    /\ ~Fails
    /\ request' = [request EXCEPT ![c] = "none"]
    /\ LET e == Entity(c)
       IN  /\ got' = [got EXCEPT ![c] = @ \o Served(e, c)]
           /\ done' = [done EXCEPT ![c] = LastPage(e, c)]
           /\ parents' = [parents EXCEPT ![c] = IF IsChild(e) THEN Tail(@) ELSE @]
    /\ tries' = [tries EXCEPT ![c] = 0]
    /\ UNCHANGED <<book, asked, fail, injected, transients, overlapped, held,
                   todo, skipped, store>>

-----------------------------------------------------------------------------
(* The pipeline: map, validate, check, land.                               *)

Mapped(c) == [i \in DOMAIN got[c] |-> Map(Entity(c), got[c][i])]

\* Valid records; of several with one key the last.
Batch(c) ==
    LET rows == Mapped(c)
        key == Registry[Entity(c)].key
        valid == {i \in DOMAIN rows : ValidateRecord(Entity(c), rows[i]) = ""}
    IN  {rows[i] : i \in {j \in valid :
            \A k \in valid : k > j => rows[k][key] # rows[j][key]}}

Rejected(c) ==
    {i \in DOMAIN got[c] : ValidateRecord(Entity(c), Mapped(c)[i]) # ""}

Rejections(c) ==
    {<<Entity(c), ValidateRecord(Entity(c), Mapped(c)[i])>> : i \in Rejected(c)}

TooManyRejects(c) ==
    100 * Cardinality(Rejected(c)) > MaxRejectPct * Len(got[c])

Land(c) ==
    /\ todo[c] # <<>> /\ done[c]
    /\ LET e == Entity(c)
           batch == Batch(c)
           bad == FailedChecks(e, SetToSeq(batch))
           key == Registry[e].key
           keys == {r[key] : r \in batch}
       IN  /\ complaints' = complaints \cup Rejections(c)
                                \cup {<<e, x.kind>> : x \in bad}
           /\ IF ~TooManyRejects(c) /\ Blocking(bad) = {}
                THEN /\ landed' = [landed EXCEPT ![e] =
                           {r \in @ : r[key] \notin keys} \cup batch]
                     /\ loaded' = loaded \cup {e}
                ELSE UNCHANGED <<landed, loaded>>
    /\ todo' = [todo EXCEPT ![c] = Tail(@)]
    /\ got' = [got EXCEPT ![c] = <<>>]
    /\ done' = [done EXCEPT ![c] = FALSE]
    /\ parents' = [parents EXCEPT ![c] = NULL]
    /\ UNCHANGED <<book, server, tries, skipped>>

Step(c) ==
    \/ ListParents(c) \/ Send(c)
    \/ Choose(c) \/ Read(c) \/ Write(c) \/ Transient(c) \/ Answer(c)
    \/ Land(c)

Next == Arm \/ \E c \in Crawlers : Step(c)

Spec == Init /\ [][Next]_vars

-----------------------------------------------------------------------------
AllTransactions == UNION {Range(book.loan_transactions[l]) : l \in 1..Loans}

Published(e) ==
    IF IsChild(e) THEN {t \in AllTransactions : t.loanId \notin skipped}
    ELSE Range(book[e])

\* Loans are asked for before all transactions, and by one process.
LoansFirst ==
    \A c, d \in Crawlers : \A i \in DOMAIN Plan[c], j \in DOMAIN Plan[d] :
        Plan[c][i] = "loans" /\ Plan[d][j] = "loan_transactions"
            => c = d /\ i < j

(* What is landed is the book: no page is lost, taken twice or mixed up on *)
(* its way, for every entity that was landed.  Transactions of loans that  *)
(* were given up may lack, and all of them where the loans themselves were *)
(* not there yet; but never the transactions of some other loans.          *)
LandedIsTheBook ==
    \A e \in loaded :
        LET rows == {Map(e, r) : r \in Published(e)}
        IN  IF IsChild(e)
              THEN /\ landed[e] \subseteq {Map(e, r) : r \in AllTransactions}
                   /\ landed[e] # {} \/ (LoansFirst /\ "loans" \in loaded)
                        => rows \subseteq landed[e]
              ELSE landed[e] = rows

(* The server never lets a failure it was asked for get lost, however its  *)
(* threads interleave; and to one client at a time it fails exactly so     *)
(* many requests.                                                          *)
InjectsWhatWasAsked ==
    /\ injected >= asked - fail
    /\ ~overlapped => fail >= 0 /\ injected = asked - fail

References ==
    [staff |-> {<<"office_id", "offices">>},
     clients |-> {<<"office_id", "offices">>, <<"staff_id", "staff">>},
     loans |-> {<<"client_id", "clients">>, <<"office_id", "offices">>,
                <<"product_id", "loan_products">>,
                <<"loan_officer_id", "staff">>},
     savings_accounts |-> {<<"client_id", "clients">>,
                           <<"product_id", "savings_products">>,
                           <<"office_id", "offices">>},
     loan_transactions |-> {<<"loan_id", "loans">>}]

(* No record of the generated book is rejected and no check fails on it,   *)
(* warnings included; every reference resolves among the landed rows; and  *)
(* an account is at the office of its client.                              *)
DemoBookIsClean ==
    /\ complaints = {}
    /\ \A e \in loaded \cap {"loans", "savings_accounts"} :
          "clients" \in loaded =>
              \A r \in landed[e], p \in landed["clients"] :
                  p.client_id = r.client_id => p.office_id = r.office_id
    /\ \A e \in loaded \cap DOMAIN References : \A f \in References[e] :
          f[2] \in loaded =>
              \A r \in landed[e] : \E p \in landed[f[2]] :
                  p[Registry[f[2]].key] = r[f[1]]
=============================================================================
