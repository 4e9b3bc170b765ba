-------------------------- MODULE MockCrawlProofs --------------------------
(***************************************************************************)
(* First, the injected failures of the mock server: do_GET looks at        *)
(* fail_next_n, reads it again and writes it back in three steps, on a     *)
(* thread for each request.                                                *)
(*                                                                         *)
(* Then the book: what the generator writes whatever the dice say, what    *)
(* the mappers, the validator and the checks make of it, and how a crawl   *)
(* brings it into the landing tables, page by page and loan by loan.       *)
(***************************************************************************)
EXTENDS MockCrawl, FiniteSetTheorems, SequenceTheorems, WellFoundedInduction,
        TLAPS

Requests == {"none", "sent", "failing", "counting"}

RequestsOK ==
    /\ asked \in Int /\ fail \in Int /\ injected \in Int
    /\ overlapped \in BOOLEAN
    /\ request \in [Crawlers -> Requests]
    /\ held \in [Crawlers -> Int]

\* Before a test asks for failures nothing fails.
QuietBefore ==
    asked = 0 =>
        /\ fail = 0 /\ injected = 0
        /\ \A c \in Crawlers : request[c] \in {"none", "sent"}

\* What is asked for and not yet injected is still to come, in fail_next_n
\* and in every thread that is about to write it back.
NothingForgotten ==
    /\ injected >= asked - fail
    /\ \A c \in Crawlers :
          request[c] = "counting" => injected >= asked - held[c]

\* As long as requests come one at a time, the one that fails knows how many
\* are left.
OneAtATime ==
    ~overlapped =>
        /\ fail >= 0 /\ injected = asked - fail
        /\ \A c, d \in Crawlers :
              request[c] # "none" /\ request[d] # "none" => c = d
        /\ \A c \in Crawlers :
              /\ request[c] = "failing" => fail > 0
              /\ request[c] = "counting" => fail > 0 /\ held[c] = fail

InjectInv == RequestsOK /\ QuietBefore /\ NothingForgotten /\ OneAtATime

-----------------------------------------------------------------------------
LEMMA InitInject == Init => InjectInv
<1> SUFFICES ASSUME Init PROVE InjectInv
  OBVIOUS
<1>1. /\ asked = 0 /\ fail = 0 /\ injected = 0 /\ overlapped = FALSE
      /\ request = [c \in Crawlers |-> "none"]
      /\ held = [c \in Crawlers |-> 0]
  BY DEF Init
<1>2. RequestsOK
  <2>1. asked \in Int /\ fail \in Int /\ injected \in Int
    BY <1>1
  <2>2. overlapped \in BOOLEAN
    BY <1>1
  <2>3. request \in [Crawlers -> Requests]
    BY <1>1 DEF Requests
  <2>4. held \in [Crawlers -> Int]
    BY <1>1
  <2> QED BY <2>1, <2>2, <2>3, <2>4 DEF RequestsOK
<1>3. QuietBefore /\ NothingForgotten /\ OneAtATime
  BY <1>1 DEF QuietBefore, NothingForgotten, OneAtATime
<1> QED BY <1>2, <1>3 DEF InjectInv

\* Setting fail_next_n.
LEMMA ArmStep == ASSUME InjectInv, Arm PROVE InjectInv'
<1>1. /\ asked = 0 /\ asked' = FailNext /\ fail' = FailNext
      /\ UNCHANGED <<injected, overlapped, request, held>>
  BY DEF Arm
<1>2. FailNext \in Nat
  BY CrawlAssumption
<1>3. /\ fail = 0 /\ injected = 0
      /\ \A c \in Crawlers : request[c] \in {"none", "sent"}
  BY <1>1 DEF InjectInv, QuietBefore
<1>4. RequestsOK'
  BY <1>1, <1>2 DEF InjectInv, RequestsOK
<1>5. QuietBefore' /\ NothingForgotten' /\ OneAtATime'
  BY <1>1, <1>2, <1>3
  DEF InjectInv, RequestsOK, QuietBefore, NothingForgotten, OneAtATime
<1> QED BY <1>4, <1>5 DEF InjectInv

\* A request arrives.
LEMMA SendStep ==
    ASSUME InjectInv, NEW c \in Crawlers, Send(c)
    PROVE  InjectInv'
<1>1. /\ request[c] = "none"
      /\ request' = [request EXCEPT ![c] = "sent"]
      /\ overlapped' = (overlapped \/ \E d \in Crawlers : request[d] # "none")
      /\ UNCHANGED <<asked, fail, injected, held>>
  BY DEF Send
<1>2. RequestsOK'
  <2>1. overlapped' \in BOOLEAN
    BY <1>1 DEF InjectInv, RequestsOK
  <2>2. request' \in [Crawlers -> Requests]
    BY <1>1 DEF InjectInv, RequestsOK, Requests
  <2> QED BY <1>1, <2>1, <2>2 DEF InjectInv, RequestsOK
<1>3. \A d \in Crawlers : d # c => request'[d] = request[d]
  BY <1>1 DEF InjectInv, RequestsOK
<1>4. request'[c] = "sent"
  BY <1>1 DEF InjectInv, RequestsOK
<1>5. QuietBefore' /\ NothingForgotten'
  BY <1>1, <1>3, <1>4 DEF InjectInv, RequestsOK, QuietBefore, NothingForgotten
<1>6. OneAtATime'
  BY <1>1, <1>3, <1>4 DEF InjectInv, RequestsOK, OneAtATime
<1> QED BY <1>2, <1>5, <1>6 DEF InjectInv

\* The thread looks at fail_next_n.
LEMMA ChooseStep ==
    ASSUME InjectInv, NEW c \in Crawlers, Choose(c)
    PROVE  InjectInv'
<1>1. /\ request[c] = "sent" /\ fail > 0
      /\ request' = [request EXCEPT ![c] = "failing"]
      /\ UNCHANGED <<asked, fail, injected, overlapped, held>>
  BY DEF Choose, Fails
<1>2. RequestsOK'
  BY <1>1 DEF InjectInv, RequestsOK, Requests
<1>3. \A d \in Crawlers : d # c => request'[d] = request[d]
  BY <1>1 DEF InjectInv, RequestsOK
<1>4. request'[c] = "failing"
  BY <1>1 DEF InjectInv, RequestsOK
<1>5. QuietBefore' /\ NothingForgotten'
  BY <1>1, <1>3, <1>4 DEF InjectInv, RequestsOK, QuietBefore, NothingForgotten
<1>6. OneAtATime'
  BY <1>1, <1>3, <1>4 DEF InjectInv, RequestsOK, OneAtATime
<1> QED BY <1>2, <1>5, <1>6 DEF InjectInv

\* It reads it again.
LEMMA ReadStep ==
    ASSUME InjectInv, NEW c \in Crawlers, Read(c)
    PROVE  InjectInv'
<1>1. /\ request[c] = "failing"
      /\ request' = [request EXCEPT ![c] = "counting"]
      /\ held' = [held EXCEPT ![c] = fail]
      /\ UNCHANGED <<asked, fail, injected, overlapped>>
  BY DEF Read
<1>2. RequestsOK'
  BY <1>1 DEF InjectInv, RequestsOK, Requests
<1>3. \A d \in Crawlers : d # c => request'[d] = request[d] /\ held'[d] = held[d]
  BY <1>1 DEF InjectInv, RequestsOK
<1>4. request'[c] = "counting" /\ held'[c] = fail
  BY <1>1 DEF InjectInv, RequestsOK
<1>5. QuietBefore'
  BY <1>1 DEF InjectInv, RequestsOK, QuietBefore
<1>6. NothingForgotten'
  BY <1>1, <1>3, <1>4 DEF InjectInv, RequestsOK, NothingForgotten
<1>7. OneAtATime'
  BY <1>1, <1>3, <1>4 DEF InjectInv, RequestsOK, OneAtATime
<1> QED BY <1>2, <1>5, <1>6, <1>7 DEF InjectInv

\* It writes back what it has read, less one: what other threads have taken
\* away meanwhile is undone, never doubled.
LEMMA WriteStep ==
    ASSUME InjectInv, NEW c \in Crawlers, Write(c)
    PROVE  InjectInv'
<1>1. /\ request[c] = "counting"
      /\ request' = [request EXCEPT ![c] = "none"]
      /\ fail' = held[c] - 1
      /\ held' = [held EXCEPT ![c] = 0]
      /\ injected' = injected + 1
      /\ UNCHANGED <<asked, overlapped>>
  BY DEF Write
<1>2. held[c] \in Int /\ injected \in Int /\ asked \in Int /\ fail \in Int
  BY DEF InjectInv, RequestsOK
<1>3. RequestsOK'
  BY <1>1, <1>2 DEF InjectInv, RequestsOK, Requests
<1>4. \A d \in Crawlers : d # c => request'[d] = request[d] /\ held'[d] = held[d]
  BY <1>1 DEF InjectInv, RequestsOK
<1>5. request'[c] = "none"
  BY <1>1 DEF InjectInv, RequestsOK
<1>6. QuietBefore'
  BY <1>1 DEF InjectInv, RequestsOK, QuietBefore
<1>7. NothingForgotten'
  <2>1. injected >= asked - held[c]
    BY <1>1 DEF InjectInv, NothingForgotten
  <2>2. injected' >= asked' - fail'
    BY <1>1, <1>2, <2>1
  <2>3. ASSUME NEW d \in Crawlers, request'[d] = "counting"
        PROVE  injected' >= asked' - held'[d]
    <3>1. d # c /\ request[d] = "counting" /\ held'[d] = held[d]
      BY <1>4, <1>5, <2>3
    <3>2. injected >= asked - held[d] /\ held[d] \in Int
      BY <3>1 DEF InjectInv, NothingForgotten, RequestsOK
    <3> QED BY <1>1, <1>2, <3>1, <3>2
  <2> QED BY <2>2, <2>3 DEF NothingForgotten
<1>8. OneAtATime'
  BY <1>1, <1>2, <1>4, <1>5 DEF InjectInv, OneAtATime
<1> QED BY <1>3, <1>6, <1>7, <1>8 DEF InjectInv

\* Everything else leaves the counter alone, and the answer ends a request.
LEMMA RestStep ==
    ASSUME InjectInv, NEW c \in Crawlers,
           ListParents(c) \/ Transient(c) \/ Answer(c) \/ Land(c)
    PROVE  InjectInv'
<1>1. CASE Transient(c) \/ Answer(c)
  <2>1. /\ request[c] = "sent"
        /\ request' = [request EXCEPT ![c] = "none"]
        /\ UNCHANGED <<asked, fail, injected, overlapped, held>>
    BY <1>1 DEF Transient, Answer
  <2>2. RequestsOK'
    BY <2>1 DEF InjectInv, RequestsOK, Requests
  <2>3. \A d \in Crawlers : d # c => request'[d] = request[d]
    BY <2>1 DEF InjectInv, RequestsOK
  <2>4. request'[c] = "none"
    BY <2>1 DEF InjectInv, RequestsOK
  <2> QED BY <2>1, <2>2, <2>3, <2>4
          DEF InjectInv, RequestsOK, QuietBefore, NothingForgotten, OneAtATime
<1>2. CASE ListParents(c) \/ Land(c)
  <2>1. UNCHANGED <<asked, fail, injected, overlapped, request, held>>
    BY <1>2 DEF ListParents, Land, server
  <2> QED BY <2>1
          DEF InjectInv, RequestsOK, QuietBefore, NothingForgotten, OneAtATime
<1> QED BY <1>1, <1>2

-----------------------------------------------------------------------------
\* The counter of the server under any number of processes, threads and
\* failures asked for.
THEOREM InjectInvariant == Spec => []InjectInv
<1>1. InjectInv /\ [Next]_vars => InjectInv'
  <2> SUFFICES ASSUME InjectInv, [Next]_vars PROVE InjectInv'
    OBVIOUS
  <2>1. CASE Arm
    BY <2>1, ArmStep
  <2>2. CASE \E c \in Crawlers : Step(c)
    BY <2>2, SendStep, ChooseStep, ReadStep, WriteStep, RestStep DEF Step
  <2>3. CASE UNCHANGED vars
    <3>1. UNCHANGED <<asked, fail, injected, overlapped, request, held>>
      BY <2>3 DEF vars, server
    <3> QED BY <3>1 DEF InjectInv, RequestsOK, QuietBefore, NothingForgotten,
                        OneAtATime
  <2> QED BY <2>1, <2>2, <2>3 DEF Next
<1> QED BY <1>1, InitInject, PTL DEF Spec

\* No failure that a test asks for is lost, and a single client sees exactly
\* as many as were asked for.
THEOREM NoFailureIsLost == Spec => []InjectsWhatWasAsked
<1>1. InjectInv => InjectsWhatWasAsked
  BY DEF InjectInv, NothingForgotten, OneAtATime, InjectsWhatWasAsked
<1> QED BY <1>1, InjectInvariant, PTL

-----------------------------------------------------------------------------
(* The book.                                                               *)

\* A set of naturals that is not empty has a least element.
LEMMA LeastNatural ==
    \A T \in SUBSET Nat : T # {} => \E i \in T : \A j \in T : i <= j
<1> SUFFICES ASSUME NEW T \in SUBSET Nat, T # {}
             PROVE  \E i \in T : \A j \in T : i <= j
  OBVIOUS
<1>1. \E i \in T : \A j \in T : ~ (<<j, i>> \in OpToRel(<, Nat))
  BY NatLessThanWellFounded, WFMin
<1>2. PICK i \in T : \A j \in T : ~ (<<j, i>> \in OpToRel(<, Nat))
  BY <1>1
<1>3. ASSUME NEW j \in T PROVE i <= j
  <2>1. ~ (j < i)
    BY <1>2 DEF OpToRel
  <2> QED BY <2>1
<1> QED BY <1>3

\* There is a function that counts the transactions, ...
LEMMA CountExists ==
    ASSUME NEW loans, \A i \in 1..Loans : TxCount(loans[i]) \in Nat
    PROVE  LET count == CountUpTo(loans)
           IN  count = [i \in 0..Loans |-> IF i = 0 THEN 0
                            ELSE count[i - 1] + TxCount(loans[i])]
<1> DEFINE Counts(n, f) == f = [i \in 0..n |-> IF i = 0 THEN 0
                                    ELSE f[i - 1] + TxCount(loans[i])]
           T == {n \in 0..Loans : ~ \E f : Counts(n, f)}
<1>1. Loans \in Nat
  BY BookAssumption
<1>2. T = {}
  <2>1. SUFFICES ASSUME T # {} PROVE FALSE
    OBVIOUS
  <2>0. T \in SUBSET Nat
    BY <1>1
  <2> HIDE DEF T
  <2>2. PICK n \in T : \A m \in T : n <= m
    BY <2>0, <2>1, LeastNatural
  <2>3. n \in 0..Loans /\ ~ \E f : Counts(n, f)
    BY <2>2 DEF T
  <2>4. CASE n = 0
    <3>1. Counts(0, [i \in 0..0 |-> 0])
      OBVIOUS
    <3> QED BY <2>3, <2>4, <3>1
  <2>5. CASE n # 0
    <3>1. n - 1 \in 0..Loans /\ n - 1 \notin T
      BY <1>1, <2>0, <2>2, <2>3, <2>5
    <3>2. PICK f : Counts(n - 1, f)
      BY <3>1 DEF T
    <3> DEFINE g == [i \in 0..n |-> IF i = n THEN f[n - 1] + TxCount(loans[n])
                                    ELSE f[i]]
    <3>3. \A i \in 0..(n - 1) : g[i] = f[i]
      BY <1>1, <2>3
    <3>4. ASSUME NEW i \in 0..n
          PROVE  g[i] = IF i = 0 THEN 0 ELSE g[i - 1] + TxCount(loans[i])
      <4>1. CASE i = n
        BY <2>3, <2>5, <3>3, <4>1
      <4>2. CASE i # n
        <5>1. i \in 0..(n - 1) /\ (i # 0 => i - 1 \in 0..(n - 1))
          BY <2>3, <4>2
        <5>2. f[i] = IF i = 0 THEN 0 ELSE f[i - 1] + TxCount(loans[i])
          BY <3>2, <5>1
        <5> QED BY <3>3, <5>1, <5>2
      <4> QED BY <4>1, <4>2
    <3>5. Counts(n, g)
      BY <3>4
    <3> QED BY <2>3, <3>5
  <2> QED BY <2>4, <2>5
<1>3. \E f : Counts(Loans, f)
  BY <1>1, <1>2
<1> QED BY <1>3 DEF CountUpTo

\* ... which grows from loan to loan by the transactions of each.
LEMMA CountGrows ==
    ASSUME NEW loans, \A i \in 1..Loans : TxCount(loans[i]) \in Nat,
           NEW count, count = CountUpTo(loans)
    PROVE  /\ \A i \in 0..Loans : count[i] \in Nat
           /\ \A i \in 1..Loans : count[i] = count[i - 1] + TxCount(loans[i])
           /\ \A i, j \in 0..Loans : i <= j => count[i] <= count[j]
<1>1. Loans \in Nat
  BY BookAssumption
<1>2. count = [i \in 0..Loans |-> IF i = 0 THEN 0
                    ELSE count[i - 1] + TxCount(loans[i])]
  BY CountExists
<1>3. count[0] = 0
  BY <1>1, <1>2
<1>4. ASSUME NEW i \in 1..Loans
      PROVE  count[i] = count[i - 1] + TxCount(loans[i])
  BY <1>1, <1>2, <1>4
<1>5. \A i \in 0..Loans : count[i] \in Nat
  <2> DEFINE T == {i \in 0..Loans : count[i] \notin Nat}
  <2>1. SUFFICES ASSUME T # {} PROVE FALSE
    OBVIOUS
  <2>0. T \in SUBSET Nat
    BY <1>1
  <2> HIDE DEF T
  <2>2. PICK i \in T : \A j \in T : i <= j
    BY <2>0, <2>1, LeastNatural
  <2> USE DEF T
  <2>3. i \in 1..Loans /\ i - 1 \notin T /\ i - 1 \in 0..Loans
    BY <1>1, <1>3, <2>2
  <2> QED BY <1>4, <2>2, <2>3
<1>6. \A i, j \in 0..Loans : i <= j => count[i] <= count[j]
  <2>1. TAKE i \in 0..Loans
  <2> DEFINE T == {j \in i..Loans : ~ (count[i] <= count[j])}
  <2>2. SUFFICES ASSUME T # {} PROVE FALSE
    OBVIOUS
  <2>0. T \in SUBSET Nat
    BY <1>1
  <2> HIDE DEF T
  <2>3. PICK j \in T : \A m \in T : j <= m
    BY <2>0, <2>2, LeastNatural
  <2> USE DEF T
  <2>4. j # i
    BY <1>5, <2>3
  <2>5. j \in 1..Loans /\ j - 1 \in i..Loans /\ j - 1 \notin T
    BY <1>1, <2>3, <2>4
  <2>6. count[i] <= count[j - 1] /\ count[j] = count[j - 1] + TxCount(loans[j])
    BY <1>4, <2>5
  <2>7. count[i] \in Nat /\ count[j - 1] \in Nat
    BY <1>1, <1>5, <2>5
  <2> QED BY <2>3, <2>5, <2>6, <2>7
<1> QED BY <1>4, <1>5, <1>6

-----------------------------------------------------------------------------
(* What the generator writes, and that every reference in it resolves.     *)

OfficeItem ==
    [id : 1..Offices, name : 1..Offices, parentId : {NULL, 1}]
StaffItem == [id : 1..Officers, officeId : 1..Offices]
LoanProductItem ==
    [id : 1..Products, principal : Nat, annualInterestRate : 0..46]
SavingsProductItem == [id : 1..SavingsProducts, status : {"active"}]
ClientItem ==
    [id : 1..Clients, officeId : 1..Offices, staffId : 1..Officers]
LoanItem ==
    [id : 1..Loans, clientId : 1..Clients, officeId : 1..Offices,
     loanProductId : 1..Products, loanOfficerId : 1..Officers,
     status : Nat, principal : Nat, annualInterestRate : 0..46,
     expectedDisbursement : Nat \ {0},
     actualDisbursement : (Nat \ {0}) \cup {NULL},
     principalOutstanding : Nat, totalOutstanding : Nat,
     interest : Nat, progress : 0..Whole]
SavingsItem ==
    [id : 1..Accounts, clientId : 1..Clients,
     savingsProductId : 1..SavingsProducts, officeId : 1..Offices,
     fieldOfficerId : 1..Officers, balance : Nat]
TransactionItem ==
    [id : Nat \ {0}, loanId : 1..Loans, type : {1, 2}, amount : Nat]

\* What a collection of the book holds, one item for every identifier.
Holds(items, set, n) ==
    /\ items \in [1..n -> set]
    /\ \A i \in 1..n : items[i].id = i

TransactionsOK(lists) ==
    /\ lists \in [1..Loans -> Seq(TransactionItem)]
    /\ \A l \in 1..Loans : \A i \in DOMAIN lists[l] : lists[l][i].loanId = l
    /\ \A l, m \in 1..Loans :
          \A i \in DOMAIN lists[l], j \in DOMAIN lists[m] :
              lists[l][i].id = lists[m][j].id => l = m /\ i = j

\* Loans and savings accounts are at the office of their client.
AtOfficeOfClient(items, clients) ==
    \A i \in DOMAIN items : items[i].officeId = clients[items[i].clientId].officeId

BookOK ==
    /\ Holds(book["offices"], OfficeItem, Offices)
    /\ Holds(book["staff"], StaffItem, Officers)
    /\ Holds(book["loan_products"], LoanProductItem, Products)
    /\ Holds(book["savings_products"], SavingsProductItem, SavingsProducts)
    /\ Holds(book["clients"], ClientItem, Clients)
    /\ Holds(book["loans"], LoanItem, Loans)
    /\ Holds(book["savings_accounts"], SavingsItem, Accounts)
    /\ TransactionsOK(book["loan_transactions"])
    /\ AtOfficeOfClient(book["loans"], book["clients"])
    /\ AtOfficeOfClient(book["savings_accounts"], book["clients"])

\* A part of an amount is at most the amount.
LEMMA PartOf ==
    ASSUME NEW p \in Nat, NEW q \in 0..Whole
    PROVE  (p * q) \div Whole \in 0..p
<1>1. Whole \in Nat \ {0}
  BY BookAssumption
<1>2. p * q <= p * Whole /\ p * q \in Nat
  BY <1>1
<1>3. (p * q) \div Whole \in Nat
  BY <1>1, <1>2
<1>4. (p * q) \div Whole <= p
  BY <1>1, <1>2
<1> QED BY <1>3, <1>4

LEMMA InterestType ==
    ASSUME NEW a \in Nat, NEW rate \in 0..46
    PROVE  Interest(a, rate) \in Nat
<1>1. Term \in Nat /\ rate \in Nat
  BY BookAssumption
<1>2. a * rate \in Nat
  BY <1>1
<1>3. a * rate * Term \in Nat
  BY <1>1, <1>2
<1> QED BY <1>3 DEF Interest

LEMMA OfficesHold == Holds(BuildOffices, OfficeItem, Offices)
BY DEF BuildOffices, OfficeItem, Holds

LEMMA StaffHold ==
    ASSUME NEW office \in [1..Officers -> 1..Offices]
    PROVE  Holds(BuildStaff(office), StaffItem, Officers)
BY DEF BuildStaff, StaffItem, Holds

LEMMA LoanProductsHold ==
    ASSUME NEW rate \in [1..Products -> Rates]
    PROVE  Holds(BuildLoanProducts(rate), LoanProductItem, Products)
<1>1. ASSUME NEW i \in 1..Products
      PROVE  [id |-> i, principal |-> 50 * i, annualInterestRate |-> rate[i]]
                 \in LoanProductItem
  <2>1. rate[i] \in 0..46
    BY BookAssumption
  <2>2. 50 * i \in Nat
    OBVIOUS
  <2> QED BY <2>1, <2>2 DEF LoanProductItem
<1> QED BY <1>1 DEF BuildLoanProducts, Holds

LEMMA SavingsProductsHold ==
    Holds(BuildSavingsProducts, SavingsProductItem, SavingsProducts)
BY DEF BuildSavingsProducts, SavingsProductItem, Holds

LEMMA ClientsHold ==
    ASSUME NEW office \in [1..Clients -> 1..Offices],
           NEW officer \in [1..Clients -> 1..Officers]
    PROVE  Holds(BuildClients(office, officer), ClientItem, Clients)
BY DEF BuildClients, ClientItem, Holds

LEMMA SavingsHold ==
    ASSUME NEW clients, Holds(clients, ClientItem, Clients),
           NEW client \in [1..Accounts -> 1..Clients],
           NEW product \in [1..Accounts -> 1..SavingsProducts]
    PROVE  Holds(BuildSavings(clients, client, product), SavingsItem, Accounts)
<1>1. ASSUME NEW i \in 1..Accounts, NEW c, c = clients[client[i]]
      PROVE  [id |-> i, clientId |-> c.id, savingsProductId |-> product[i],
              officeId |-> c.officeId, fieldOfficerId |-> c.staffId,
              balance |-> 10 * i] \in SavingsItem
  <2>1. c \in ClientItem
    BY <1>1 DEF Holds
  <2>2. 10 * i \in Nat
    OBVIOUS
  <2> QED BY <2>1, <2>2 DEF ClientItem, SavingsItem
<1> QED BY <1>1 DEF BuildSavings, Holds

LEMMA LoansHold ==
    ASSUME NEW clients, Holds(clients, ClientItem, Clients),
           NEW products, Holds(products, LoanProductItem, Products),
           NEW die \in [1..Loans -> Dice]
    PROVE  Holds(BuildLoans(clients, products, die), LoanItem, Loans)
<1> DEFINE loans == BuildLoans(clients, products, die)
<1>1. ASSUME NEW i \in 1..Loans PROVE loans[i] \in LoanItem /\ loans[i].id = i
  <2> DEFINE d == die[i]
             c == clients[d.client]
             p == products[d.product]
             progress == IF d.status \in {600, 700} THEN Whole ELSE d.part
             principal == d.principal
             rate == p.annualInterestRate
             paid == (principal * progress) \div Whole
             interest == Interest(principal, rate)
             forgiven == (interest * progress) \div Whole
             due == IF d.status >= 300 THEN 100 + i ELSE NULL
             item == [id |-> i, clientId |-> c.id, officeId |-> c.officeId,
                      loanProductId |-> p.id, loanOfficerId |-> d.officer,
                      status |-> d.status, principal |-> principal,
                      annualInterestRate |-> rate,
                      expectedDisbursement |-> 100 + i,
                      actualDisbursement |-> due,
                      principalOutstanding |-> principal - paid,
                      totalOutstanding |->
                          principal - paid + (interest - forgiven),
                      interest |-> interest, progress |-> progress]
  <2>1. loans[i] = item
    BY DEF BuildLoans
  <2>2. /\ d.client \in 1..Clients /\ d.product \in 1..Products
        /\ d.officer \in 1..Officers /\ d.status \in Nat /\ principal \in Nat
        /\ d.part \in 0..Whole
    BY BookAssumption DEF Dice
  <2>3. c \in ClientItem /\ p \in LoanProductItem
    BY <2>2 DEF Holds
  <2>4. /\ c.id \in 1..Clients /\ c.officeId \in 1..Offices
        /\ p.id \in 1..Products /\ rate \in 0..46
    BY <2>3 DEF ClientItem, LoanProductItem
  <2>5. progress \in 0..Whole
    BY <2>2, BookAssumption
  <2> HIDE DEF d, c, p, progress, principal, rate
  <2>6. paid \in 0..principal
    BY <2>2, <2>5, PartOf
  <2>7. interest \in Nat
    BY <2>2, <2>4, InterestType
  <2> HIDE DEF interest, paid
  <2>8. forgiven \in 0..interest
    BY <2>5, <2>7, PartOf
  <2> HIDE DEF forgiven
  <2>9. due \in (Nat \ {0}) \cup {NULL} /\ 100 + i \in Nat \ {0}
    BY <2>2
  <2> HIDE DEF due
  <2>10. /\ principal - paid \in Nat
         /\ principal - paid + (interest - forgiven) \in Nat
    BY <2>2, <2>6, <2>7, <2>8
  <2>11. item \in LoanItem
    BY <2>2, <2>4, <2>5, <2>7, <2>9, <2>10 DEF LoanItem
  <2> QED BY <2>1, <2>11
<1>2. DOMAIN loans = 1..Loans /\ loans = [i \in 1..Loans |-> loans[i]]
  BY DEF BuildLoans
<1> HIDE DEF loans
<1>3. loans \in [1..Loans -> LoanItem]
  BY <1>1, <1>2
<1> QED BY <1>1, <1>3 DEF Holds, loans

\* A loan has a first transaction and at least one repayment, or none.
LEMMA TxCountType ==
    ASSUME NEW loan \in LoanItem
    PROVE  TxCount(loan) \in Nat
<1>1. loan.status \in Nat /\ loan.progress \in 0..Whole
  BY DEF LoanItem
<1>2. Term * loan.progress \in Nat
  <2>1. Term \in Nat /\ loan.progress \in Nat
    BY <1>1, BookAssumption
  <2>2. \A a, b \in Nat : a * b \in Nat
    OBVIOUS
  <2> QED BY <2>1, <2>2
<1>3. (Term * loan.progress) \div Whole \in Nat
  BY <1>2, BookAssumption
<1>4. Installments(loan) \in Nat
  BY <1>3 DEF Installments
<1> QED BY <1>1, <1>4 DEF TxCount

LEMMA TransactionsHold ==
    ASSUME NEW loans, Holds(loans, LoanItem, Loans)
    PROVE  TransactionsOK(BuildTransactions(loans))
<1> DEFINE count == CountUpTo(loans)
           lists == BuildTransactions(loans)
           item(l, n) ==
               [id |-> count[l - 1] + n, loanId |-> loans[l].id,
                type |-> IF n = 1 THEN 1 ELSE 2,
                amount |-> IF n = 1 THEN loans[l].principal
                           ELSE (loans[l].principal + loans[l].interest)
                                   \div Term]
<1>1. Loans \in Nat
  BY BookAssumption
<1>2. \A l \in 1..Loans : TxCount(loans[l]) \in Nat
  BY TxCountType DEF Holds
<1>3. /\ \A i \in 0..Loans : count[i] \in Nat
      /\ \A i \in 1..Loans : count[i] = count[i - 1] + TxCount(loans[i])
      /\ \A i, j \in 0..Loans : i <= j => count[i] <= count[j]
  BY <1>2, CountGrows
<1>4. lists = [l \in 1..Loans |-> [n \in 1..TxCount(loans[l]) |-> item(l, n)]]
  BY DEF BuildTransactions
<1> HIDE DEF count, lists
<1>5. ASSUME NEW l \in 1..Loans, NEW n \in 1..TxCount(loans[l])
      PROVE  item(l, n) \in TransactionItem /\ item(l, n).loanId = l
  <2>1. l - 1 \in 0..Loans
    BY <1>1
  <2>2. count[l - 1] + n \in Nat \ {0}
    BY <1>2, <1>3, <2>1
  <2>3. /\ loans[l].id = l
        /\ loans[l].principal \in Nat /\ loans[l].interest \in Nat
    BY DEF Holds, LoanItem
  <2>4. (loans[l].principal + loans[l].interest) \div Term \in Nat
    <3>1. loans[l].principal + loans[l].interest \in Nat
      BY <2>3
    <3>2. Term \in Nat \ {0}
      BY BookAssumption
    <3> QED BY <3>1, <3>2
  <2> QED BY <2>2, <2>3, <2>4 DEF TransactionItem
<1> HIDE DEF item
<1>6. ASSUME NEW l \in 1..Loans
      PROVE  /\ DOMAIN lists[l] = 1..TxCount(loans[l])
             /\ \A n \in 1..TxCount(loans[l]) : lists[l][n] = item(l, n)
  BY <1>4
<1>7. lists \in [1..Loans -> Seq(TransactionItem)]
  <2>1. ASSUME NEW l \in 1..Loans
        PROVE  [n \in 1..TxCount(loans[l]) |-> item(l, n)] \in Seq(TransactionItem)
    BY <1>2, <1>5
  <2> QED BY <1>4, <2>1
<1>8. \A l \in 1..Loans : \A i \in DOMAIN lists[l] : lists[l][i].loanId = l
  BY <1>5, <1>6
<1>9. ASSUME NEW l \in 1..Loans, NEW m \in 1..Loans,
             NEW i \in DOMAIN lists[l], NEW j \in DOMAIN lists[m],
             lists[l][i].id = lists[m][j].id
      PROVE  l = m /\ i = j
  <2>1. /\ i \in 1..TxCount(loans[l]) /\ j \in 1..TxCount(loans[m])
        /\ TxCount(loans[l]) \in Nat /\ TxCount(loans[m]) \in Nat
    BY <1>2, <1>6, <1>9
  <2>2. count[l - 1] + i = count[m - 1] + j
    <3>1. item(l, i).id = item(m, j).id
      BY <1>6, <1>9, <2>1
    <3> QED BY <3>1 DEF item
  <2>3. /\ l - 1 \in 0..Loans /\ m - 1 \in 0..Loans /\ l \in 0..Loans
        /\ m \in 0..Loans
    BY <1>1
  <2>4. /\ count[l - 1] \in Nat /\ count[m - 1] \in Nat
        /\ count[l] = count[l - 1] + TxCount(loans[l])
        /\ count[m] = count[m - 1] + TxCount(loans[m])
    BY <1>3, <2>3
  <2>5. ~ (l < m)
    <3>1. l < m => count[l] <= count[m - 1]
      BY <1>3, <2>3
    <3> QED BY <2>1, <2>2, <2>4, <3>1
  <2>6. ~ (m < l)
    <3>1. m < l => count[m] <= count[l - 1]
      BY <1>3, <2>3
    <3> QED BY <2>1, <2>2, <2>4, <3>1
  <2>7. l = m
    BY <2>3, <2>5, <2>6
  <2> QED BY <2>1, <2>2, <2>4, <2>7
<1> QED BY <1>7, <1>8, <1>9 DEF TransactionsOK, lists

LEMMA LoansAtOffice ==
    ASSUME NEW clients, Holds(clients, ClientItem, Clients),
           NEW products, NEW die \in [1..Loans -> Dice]
    PROVE  AtOfficeOfClient(BuildLoans(clients, products, die), clients)
<1>1. DOMAIN BuildLoans(clients, products, die) = 1..Loans
  BY DEF BuildLoans
<1>2. ASSUME NEW i \in 1..Loans
      PROVE  LET loan == BuildLoans(clients, products, die)[i]
             IN  loan.officeId = clients[loan.clientId].officeId
  <2>1. die[i].client \in 1..Clients
    BY DEF Dice
  <2>2. clients[die[i].client].id = die[i].client
    BY <2>1 DEF Holds
  <2>3. LET loan == BuildLoans(clients, products, die)[i]
        IN  /\ loan.clientId = clients[die[i].client].id
            /\ loan.officeId = clients[die[i].client].officeId
    BY DEF BuildLoans
  <2> QED BY <2>2, <2>3
<1> QED BY <1>1, <1>2 DEF AtOfficeOfClient

LEMMA SavingsAtOffice ==
    ASSUME NEW clients, Holds(clients, ClientItem, Clients),
           NEW client \in [1..Accounts -> 1..Clients], NEW product
    PROVE  AtOfficeOfClient(BuildSavings(clients, client, product), clients)
<1>1. DOMAIN BuildSavings(clients, client, product) = 1..Accounts
  BY DEF BuildSavings
<1>2. ASSUME NEW i \in 1..Accounts
      PROVE  LET account == BuildSavings(clients, client, product)[i]
             IN  account.officeId = clients[account.clientId].officeId
  <2>1. clients[client[i]].id = client[i]
    BY DEF Holds
  <2>2. LET account == BuildSavings(clients, client, product)[i]
        IN  /\ account.clientId = clients[client[i]].id
            /\ account.officeId = clients[client[i]].officeId
    BY DEF BuildSavings
  <2> QED BY <2>1, <2>2
<1> QED BY <1>1, <1>2 DEF AtOfficeOfClient

LEMMA InitBook == Init => BookOK
<1> SUFFICES ASSUME Init PROVE BookOK
  OBVIOUS
<1>1. PICK o \in [1..Officers -> 1..Offices], r \in [1..Products -> Rates],
           co \in [1..Clients -> 1..Offices],
           cs \in [1..Clients -> 1..Officers],
           die \in [1..Loans -> Dice], sc \in [1..Accounts -> 1..Clients],
           sp \in [1..Accounts -> 1..SavingsProducts] :
          book = Book(BuildStaff(o), BuildLoanProducts(r),
                      BuildClients(co, cs), die,
                      BuildSavings(BuildClients(co, cs), sc, sp))
  BY DEF Init
<1> DEFINE clients == BuildClients(co, cs)
           loans == BuildLoans(clients, BuildLoanProducts(r), die)
<1>2. /\ book["offices"] = BuildOffices
      /\ book["staff"] = BuildStaff(o)
      /\ book["loan_products"] = BuildLoanProducts(r)
      /\ book["savings_products"] = BuildSavingsProducts
      /\ book["clients"] = clients
      /\ book["loans"] = loans
      /\ book["savings_accounts"] = BuildSavings(clients, sc, sp)
      /\ book["loan_transactions"] = BuildTransactions(loans)
  BY <1>1 DEF Book
<1>3. Holds(clients, ClientItem, Clients)
  BY ClientsHold
<1>4. Holds(BuildLoanProducts(r), LoanProductItem, Products)
  BY LoanProductsHold
<1> HIDE DEF clients
<1>5. Holds(loans, LoanItem, Loans)
  BY <1>3, <1>4, LoansHold
<1>6. AtOfficeOfClient(loans, clients)
  BY <1>3, LoansAtOffice
<1> HIDE DEF loans
<1>7. TransactionsOK(BuildTransactions(loans))
  BY <1>5, TransactionsHold
<1>8. /\ Holds(BuildSavings(clients, sc, sp), SavingsItem, Accounts)
      /\ AtOfficeOfClient(BuildSavings(clients, sc, sp), clients)
  BY <1>3, SavingsHold, SavingsAtOffice
<1> QED BY <1>2, <1>3, <1>4, <1>5, <1>6, <1>7, <1>8, OfficesHold, StaffHold,
           SavingsProductsHold
    DEF BookOK

-----------------------------------------------------------------------------
(* From a record to its row.                                               *)

Child == "loan_transactions"
Collections ==
    {"offices", "staff", "loan_products", "savings_products", "clients",
     "loans", "savings_accounts"}

Item == [offices |-> OfficeItem, staff |-> StaffItem,
         loan_products |-> LoanProductItem,
         savings_products |-> SavingsProductItem, clients |-> ClientItem,
         loans |-> LoanItem, savings_accounts |-> SavingsItem,
         loan_transactions |-> TransactionItem]

LEMMA EntityNames ==
    /\ Entities = Collections \cup {Child} /\ Child \notin Collections
    /\ \A e : IsChild(e) <=> e = Child
BY DEF Entities, Registry, Collections, Child, IsChild

LEMMA RegistryKeys ==
    /\ Registry["offices"].key = "office_id"
    /\ Registry["staff"].key = "staff_id"
    /\ Registry["loan_products"].key = "product_id"
    /\ Registry["savings_products"].key = "product_id"
    /\ Registry["clients"].key = "client_id"
    /\ Registry["loans"].key = "loan_id"
    /\ Registry["savings_accounts"].key = "savings_id"
    /\ Registry["loan_transactions"].key = "transaction_id"
<1>1. Registry["offices"].key = "office_id"
  BY DEF Registry
<1>2. Registry["staff"].key = "staff_id"
  BY DEF Registry
<1>3. Registry["loan_products"].key = "product_id"
  BY DEF Registry
<1>4. Registry["savings_products"].key = "product_id"
  BY DEF Registry
<1>5. Registry["clients"].key = "client_id"
  BY DEF Registry
<1>6. Registry["loans"].key = "loan_id"
  BY DEF Registry
<1>7. Registry["savings_accounts"].key = "savings_id"
  BY DEF Registry
<1>8. Registry["loan_transactions"].key = "transaction_id"
  BY DEF Registry
<1> QED BY <1>1, <1>2, <1>3, <1>4, <1>5, <1>6, <1>7, <1>8

LEMMA RegistryPaged ==
    \A e \in Entities :
        IF e \in {"clients", "loans", "savings_accounts"}
          THEN Registry[e].paged ELSE ~Registry[e].paged
<1>1. ~Registry["offices"].paged
  BY DEF Registry
<1>2. ~Registry["staff"].paged
  BY DEF Registry
<1>3. ~Registry["loan_products"].paged
  BY DEF Registry
<1>4. ~Registry["savings_products"].paged
  BY DEF Registry
<1>5. Registry["clients"].paged
  BY DEF Registry
<1>6. Registry["loans"].paged
  BY DEF Registry
<1>7. Registry["savings_accounts"].paged
  BY DEF Registry
<1>8. ~Registry["loan_transactions"].paged
  BY DEF Registry
<1> QED BY <1>1, <1>2, <1>3, <1>4, <1>5, <1>6, <1>7, <1>8, EntityNames
    DEF Collections, Child

\* A row has the identifier of its record under the key of its entity.
LEMMA MapKeepsKey ==
    ASSUME NEW e \in Entities, NEW r \in Item[e]
    PROVE  /\ Map(e, r)[Registry[e].key] = r.id
           /\ r.id \in Nat \ {0}
<1>1. CASE e = "offices"
  BY <1>1, RegistryKeys, BookAssumption DEF Item, OfficeItem, Map, MapOffice
<1>2. CASE e = "staff"
  BY <1>2, RegistryKeys, BookAssumption DEF Item, StaffItem, Map, MapStaff
<1>3. CASE e = "loan_products"
  BY <1>3, RegistryKeys, BookAssumption
  DEF Item, LoanProductItem, Map, MapLoanProduct
<1>4. CASE e = "savings_products"
  BY <1>4, RegistryKeys, BookAssumption
  DEF Item, SavingsProductItem, Map, MapSavingsProduct
<1>5. CASE e = "clients"
  BY <1>5, RegistryKeys, BookAssumption DEF Item, ClientItem, Map, MapClient
<1>6. CASE e = "loans"
  BY <1>6, RegistryKeys, BookAssumption DEF Item, LoanItem, Map, MapLoan
<1>7. CASE e = "savings_accounts"
  BY <1>7, RegistryKeys, BookAssumption
  DEF Item, SavingsItem, Map, MapSavingsAccount
<1>8. CASE e = Child
  BY <1>8, RegistryKeys, BookAssumption
  DEF Item, TransactionItem, Map, MapLoanTransaction, Child
<1> QED BY <1>1, <1>2, <1>3, <1>4, <1>5, <1>6, <1>7, <1>8, EntityNames
    DEF Collections

\* No row consists of its key alone.
LEMMA RowHasMore ==
    ASSUME NEW e \in Entities, NEW r \in Item[e]
    PROVE  \E f \in DOMAIN Map(e, r) \ {Registry[e].key} : Map(e, r)[f] # NULL
<1>0. NULL \notin Int /\ Offices \in Nat /\ Products \in Nat
  BY CrawlAssumption, BookAssumption
<1>1. CASE e = "offices"
  <2>1. r.name # NULL
    BY <1>0, <1>1 DEF Item, OfficeItem
  <2> QED BY <1>1, <2>1, RegistryKeys DEF Map, MapOffice
<1>2. CASE e = "staff"
  <2>1. r.officeId # NULL
    BY <1>0, <1>2 DEF Item, StaffItem
  <2> QED BY <1>2, <2>1, RegistryKeys DEF Map, MapStaff
<1>3. CASE e = "loan_products"
  <2>1. r.principal # NULL
    BY <1>0, <1>3 DEF Item, LoanProductItem
  <2> QED BY <1>3, <2>1, RegistryKeys DEF Map, MapLoanProduct
<1>4. CASE e = "savings_products"
  <2>1. r.status # NULL
    BY <1>4, CrawlAssumption DEF Item, SavingsProductItem
  <2> QED BY <1>4, <2>1, RegistryKeys DEF Map, MapSavingsProduct
<1>5. CASE e = "clients"
  <2>1. r.officeId # NULL
    BY <1>0, <1>5 DEF Item, ClientItem
  <2> QED BY <1>5, <2>1, RegistryKeys DEF Map, MapClient
<1>6. CASE e = "loans"
  <2>1. r.principal # NULL
    BY <1>0, <1>6 DEF Item, LoanItem
  <2> QED BY <1>6, <2>1, RegistryKeys DEF Map, MapLoan
<1>7. CASE e = "savings_accounts"
  <2>1. r.balance # NULL
    BY <1>0, <1>7 DEF Item, SavingsItem
  <2> QED BY <1>7, <2>1, RegistryKeys DEF Map, MapSavingsAccount
<1>8. CASE e = Child
  <2>1. r.amount # NULL
    BY <1>0, <1>8 DEF Item, TransactionItem, Child
  <2> QED BY <1>8, <2>1, RegistryKeys DEF Map, MapLoanTransaction, Child
<1> QED BY <1>1, <1>2, <1>3, <1>4, <1>5, <1>6, <1>7, <1>8, EntityNames
    DEF Collections

\* So no record of the book is rejected.
LEMMA RowIsValid ==
    ASSUME NEW e \in Entities, NEW r \in Item[e]
    PROVE  ValidateRecord(e, Map(e, r)) = ""
<1> DEFINE row == Map(e, r)
           key == Registry[e].key
<1>1. row[key] \in Nat \ {0}
  BY MapKeepsKey
<1>2. \E f \in DOMAIN row \ {key} : row[f] # NULL
  BY RowHasMore
<1> HIDE DEF row
<1>3. row[key] # NULL /\ ~ (row[key] < 0)
  BY <1>1, CrawlAssumption
<1> QED BY <1>2, <1>3 DEF ValidateRecord, row

-----------------------------------------------------------------------------
(* From the records of a crawl to the batch that lands.                    *)

\* All there is of an entity, and the rows it makes.
Things(e) == IF IsChild(e) THEN AllTransactions ELSE Range(book[e])
Rows(e, things) == {Map(e, r) : r \in things}

\* No two of some records have one identifier.
Distinguished(things) == \A r, s \in things : r.id = s.id => r = s

LEMMA ThingsAreItems ==
    ASSUME BookOK, NEW e \in Entities
    PROVE  Things(e) \subseteq Item[e] /\ Distinguished(Things(e))
<1>1. CASE e = Child
  <2>1. Things(e) = AllTransactions /\ Item[e] = TransactionItem
    BY <1>1, EntityNames DEF Things, Item, Child
  <2>2. TransactionsOK(book["loan_transactions"])
    BY DEF BookOK
  <2>3. \A r \in AllTransactions : \E l \in 1..Loans :
            \E i \in DOMAIN book["loan_transactions"][l] :
                r = book["loan_transactions"][l][i]
    BY DEF AllTransactions, Range
  <2>4. \A l \in 1..Loans : \A i \in DOMAIN book["loan_transactions"][l] :
            book["loan_transactions"][l][i] \in TransactionItem
    <3>1. ASSUME NEW l \in 1..Loans
          PROVE  book["loan_transactions"][l] \in Seq(TransactionItem)
      BY <2>2 DEF TransactionsOK
    <3> QED BY <3>1, ElementOfSeq
  <2>5. Distinguished(AllTransactions)
    BY <2>2, <2>3 DEF TransactionsOK, Distinguished
  <2> QED BY <2>1, <2>3, <2>4, <2>5
<1>2. ASSUME NEW set, NEW n, Holds(book[e], set, n), Item[e] = set, e # Child
      PROVE  Things(e) \subseteq Item[e] /\ Distinguished(Things(e))
  <2>1. Things(e) = Range(book[e])
    BY <1>2, EntityNames DEF Things
  <2>2. DOMAIN book[e] = 1..n /\ \A i \in 1..n : book[e][i] \in set
    BY <1>2 DEF Holds
  <2>3. \A i \in 1..n : book[e][i].id = i
    BY <1>2 DEF Holds
  <2>4. \A r \in Range(book[e]) : \E i \in 1..n : r = book[e][i]
    BY <2>2 DEF Range
  <2>5. \A r \in Range(book[e]) : r \in set /\ r = book[e][r.id]
    BY <2>2, <2>3, <2>4
  <2> QED BY <1>2, <2>1, <2>5 DEF Distinguished
<1>3. CASE e \in Collections
  <2>1. \E set, n : Holds(book[e], set, n) /\ Item[e] = set
    BY <1>3 DEF Collections, BookOK, Item
  <2> QED BY <1>2, <1>3, <2>1, EntityNames
<1> QED BY <1>1, <1>3, EntityNames

\* Of several positions of one record the last one counts, and there is one.
LEMMA LastOfMany ==
    ASSUME NEW n \in Nat, NEW T \in SUBSET (1..n), T # {}
    PROVE  \E k \in T : \A j \in T : ~ (j > k)
<1> DEFINE Bounds == {b \in Nat : \A j \in T : j <= b}
<1>1. n \in Bounds /\ Bounds \in SUBSET Nat
  OBVIOUS
<1> HIDE DEF Bounds
<1>2. PICK b \in Bounds : \A a \in Bounds : b <= a
  BY <1>1, LeastNatural
<1> USE DEF Bounds
<1>3. b \in T
  <2>1. SUFFICES ASSUME b \notin T PROVE FALSE
    OBVIOUS
  <2>2. \A j \in T : j <= b - 1
    BY <1>2, <2>1
  <2>3. b - 1 \in Nat
    <3>1. PICK j \in T : TRUE
      OBVIOUS
    <3>2. j \in Nat /\ j >= 1 /\ j <= b - 1 /\ b \in Nat
      BY <1>2, <2>2
    <3> QED BY <3>2
  <2> QED BY <1>2, <2>2, <2>3
<1> QED BY <1>2, <1>3

LEMMA MappedIs ==
    ASSUME NEW c \in Crawlers, NEW e \in Entities, e = Entity(c),
           got[c] \in Seq(Item[e])
    PROVE  /\ DOMAIN Mapped(c) = DOMAIN got[c]
           /\ \A i \in DOMAIN got[c] :
                 /\ Mapped(c)[i] = Map(e, got[c][i])
                 /\ Mapped(c)[i][Registry[e].key] = got[c][i].id
                 /\ ValidateRecord(e, Mapped(c)[i]) = ""
<1>1. \A i \in DOMAIN got[c] : got[c][i] \in Item[e]
  BY ElementOfSeq
<1> QED BY <1>1, MapKeepsKey, RowIsValid DEF Mapped

LEMMA BatchIs ==
    ASSUME NEW c \in Crawlers, NEW e \in Entities, e = Entity(c),
           got[c] \in Seq(Item[e]), Distinguished(Range(got[c]))
    PROVE  /\ Batch(c) = Rows(e, Range(got[c]))
           /\ Rejections(c) = {} /\ ~TooManyRejects(c)
           /\ IsFiniteSet(Batch(c))
<1> DEFINE rows == Mapped(c)
           key == Registry[e].key
           last(j) == \A k \in DOMAIN rows : k > j => rows[k][key] # rows[j][key]
<1>1. /\ DOMAIN rows = DOMAIN got[c]
      /\ \A i \in DOMAIN got[c] :
            /\ rows[i] = Map(e, got[c][i])
            /\ rows[i][key] = got[c][i].id
            /\ ValidateRecord(e, rows[i]) = ""
  BY MappedIs
<1>2. DOMAIN got[c] = 1..Len(got[c]) /\ Len(got[c]) \in Nat
  BY LenProperties
<1>3. Batch(c) = {rows[i] : i \in {j \in DOMAIN rows : last(j)}}
  BY <1>1 DEF Batch
<1> HIDE DEF rows, key
<1>4. ASSUME NEW i \in DOMAIN got[c]
      PROVE  \E k \in DOMAIN rows : last(k) /\ rows[k] = rows[i]
  <2> DEFINE T == {k \in DOMAIN got[c] : got[c][k].id = got[c][i].id}
  <2>1. T \in SUBSET (1..Len(got[c])) /\ T # {}
    BY <1>2, <1>4
  <2> HIDE DEF T
  <2>2. PICK k \in T : \A j \in T : ~ (j > k)
    BY <1>2, <2>1, LastOfMany
  <2> USE DEF T
  <2>3. k \in DOMAIN got[c] /\ got[c][k].id = got[c][i].id
    BY <2>2
  <2>4. last(k)
    BY <1>1, <2>2, <2>3
  <2>5. got[c][k] = got[c][i]
    BY <1>4, <2>3 DEF Distinguished, Range
  <2> QED BY <1>1, <1>4, <2>3, <2>4, <2>5
<1> HIDE DEF last
<1>5. Batch(c) = {rows[i] : i \in DOMAIN rows}
  <2>1. \A x : x \in Batch(c) => x \in {rows[i] : i \in DOMAIN rows}
    BY <1>3
  <2>2. ASSUME NEW i \in DOMAIN rows PROVE rows[i] \in Batch(c)
    BY <1>1, <1>3, <1>4
  <2> QED BY <2>1, <2>2
<1>6. Batch(c) = Rows(e, Range(got[c]))
  BY <1>1, <1>5 DEF Rows, Range
<1>7. Rejections(c) = {} /\ ~TooManyRejects(c)
  <2>1. Rejected(c) = {}
    BY <1>1 DEF Rejected, rows
  <2>2. Cardinality(Rejected(c)) = 0
    BY <2>1, FS_EmptySet
  <2> DEFINE most == MaxRejectPct * Len(got[c])
  <2>3. most \in Nat
    <3>1. \A a, b \in Nat : a * b \in Nat
      OBVIOUS
    <3> QED BY <1>2, <3>1, CrawlAssumption
  <2> HIDE DEF most
  <2>4. ~(100 * 0 > most)
    BY <2>3
  <2>5. TooManyRejects(c) <=> 100 * Cardinality(Rejected(c)) > most
    BY DEF TooManyRejects, most
  <2> QED BY <2>1, <2>2, <2>4, <2>5 DEF Rejections
<1>8. IsFiniteSet(Batch(c))
  <2>1. DOMAIN rows = 1..Len(got[c])
    BY <1>1, <1>2
  <2>2. IsFiniteSet(1..Len(got[c]))
    BY <1>2, FS_Interval
  <2> DEFINE f == [i \in 1..Len(got[c]) |-> rows[i]]
  <2> HIDE DEF rows
  <2>3. f \in Surjection(1..Len(got[c]), Batch(c))
    BY <1>5, <2>1 DEF Surjection
  <2> HIDE DEF f
  <2> QED BY <2>2, <2>3, FS_Surjection
<1> QED BY <1>6, <1>7, <1>8

\* SetToSeq lists every element once.
LEMMA SetToSeqLists ==
    ASSUME NEW S, IsFiniteSet(S)
    PROVE  LET s == SetToSeq(S)
           IN  /\ s \in [1..Cardinality(S) -> S] /\ Cardinality(S) \in Nat
               /\ \A i, j \in 1..Cardinality(S) : s[i] = s[j] => i = j
               /\ Range(s) = S
<1> DEFINE n == Cardinality(S)
           s == SetToSeq(S)
<1>1. n \in Nat /\ ExistsBijection(1..n, S)
  BY FS_CardinalityType
<1>2. \E f \in [1..n -> S] : IsInjective(f)
  BY <1>1 DEF ExistsBijection, Bijection, Injection
<1>3. s \in [1..n -> S] /\ IsInjective(s)
  BY <1>2 DEF SetToSeq
<1> HIDE DEF n, s
<1>4. \A i, j \in 1..n : s[i] = s[j] => i = j
  BY <1>3 DEF IsInjective
<1>5. Range(s) \in SUBSET S
  BY <1>3 DEF Range
<1>6. s \in Bijection(1..n, Range(s))
  BY <1>3 DEF Bijection, Injection, Surjection, Range
<1>7. Cardinality(Range(s)) = Cardinality(1..n)
  <2>1. ExistsBijection(1..n, Range(s))
    BY <1>6 DEF ExistsBijection
  <2>2. IsFiniteSet(1..n)
    BY <1>1, FS_Interval
  <2> QED BY <2>1, <2>2, FS_Bijection
<1>8. Cardinality(1..n) = n
  BY <1>1, FS_Interval
<1>9. Range(s) = S
  BY <1>5, <1>7, <1>8, FS_Subset DEF n
<1> QED BY <1>1, <1>3, <1>4, <1>9 DEF n, s

-----------------------------------------------------------------------------
(* The checks of a batch.                                                  *)

LEMMA PassesNotNull ==
    ASSUME NEW check, NEW rows, check.kind = "not_null",
           \A i \in DOMAIN rows : \A f \in check.columns : rows[i][f] # NULL
    PROVE  Passes(check, rows)
BY DEF Passes, Nulls, Cells

LEMMA PassesUnique ==
    ASSUME NEW check, NEW n \in Nat, NEW rows, DOMAIN rows = 1..n,
           check.kind = "unique",
           \A i, j \in DOMAIN rows : \A f \in check.columns :
               rows[i][f] = rows[j][f] => i = j
    PROVE  Passes(check, rows)
<1>1. ASSUME NEW x \in Duplicates(rows, check.columns) PROVE FALSE
  <2>1. x[1] \in DOMAIN rows /\ x[2] \in check.columns
    BY <1>1 DEF Duplicates, Cells
  <2>2. PICK i \in DOMAIN rows : i < x[1] /\ rows[i][x[2]] = rows[x[1]][x[2]]
    BY <1>1 DEF Duplicates
  <2> QED BY <2>1, <2>2
<1> QED BY <1>1 DEF Passes

LEMMA PassesNonNegative ==
    ASSUME NEW check, NEW rows, check.kind = "non_negative",
           \A i \in DOMAIN rows : \A f \in check.columns : rows[i][f] \in Nat
    PROVE  Passes(check, rows)
<1>1. ASSUME NEW x \in Outside(rows, check.columns, 0, NULL) PROVE FALSE
  <2>1. x[1] \in DOMAIN rows /\ x[2] \in check.columns
    BY <1>1 DEF Outside, Cells
  <2>2. rows[x[1]][x[2]] < 0
    BY <1>1 DEF Outside
  <2> QED BY <2>1, <2>2
<1> QED BY <1>1 DEF Passes

LEMMA PassesRange ==
    ASSUME NEW check, NEW rows, check.kind = "range",
           check.min = 0, check.max = 200,
           \A i \in DOMAIN rows : \A f \in check.columns :
               rows[i][f] \in 0..200
    PROVE  Passes(check, rows)
<1>1. ASSUME NEW x \in Outside(rows, check.columns, 0, 200) PROVE FALSE
  <2>1. x[1] \in DOMAIN rows /\ x[2] \in check.columns
    BY <1>1 DEF Outside, Cells
  <2>2. rows[x[1]][x[2]] < 0 \/ rows[x[1]][x[2]] > 200
    BY <1>1 DEF Outside
  <2> QED BY <2>1, <2>2
<1> QED BY <1>1 DEF Passes

LEMMA RegistryChecks ==
    /\ Registry["offices"].checks = KeyChecks("office_id")
          \cup {[Check("row_count_min", {}, "error") EXCEPT !.min = 1]}
    /\ Registry["staff"].checks = KeyChecks("staff_id")
    /\ Registry["loan_products"].checks = KeyChecks("product_id")
          \cup {Warning("non_negative", {"principal"})}
    /\ Registry["savings_products"].checks = KeyChecks("product_id")
    /\ Registry["clients"].checks = KeyChecks("client_id")
          \cup {Warning("not_null", {"office_id"})}
    /\ Registry["loans"].checks = KeyChecks("loan_id")
          \cup {Warning("not_null", {"client_id"}),
                Check("non_negative", {"principal"}, "error"),
                Warning("non_negative",
                        {"principal_outstanding", "total_outstanding"}),
                [Warning("range", {"annual_interest_rate"})
                    EXCEPT !.min = 0, !.max = 200]}
    /\ Registry["savings_accounts"].checks = KeyChecks("savings_id")
    /\ Registry["loan_transactions"].checks = KeyChecks("transaction_id")
          \cup {NotNull("loan_id"), Warning("non_negative", {"amount"})}
<1>1. Registry["offices"].checks = KeyChecks("office_id")
          \cup {[Check("row_count_min", {}, "error") EXCEPT !.min = 1]}
  BY DEF Registry
<1>2. Registry["staff"].checks = KeyChecks("staff_id")
  BY DEF Registry
<1>3. Registry["loan_products"].checks = KeyChecks("product_id")
          \cup {Warning("non_negative", {"principal"})}
  BY DEF Registry
<1>4. Registry["savings_products"].checks = KeyChecks("product_id")
  BY DEF Registry
<1>5. Registry["clients"].checks = KeyChecks("client_id")
          \cup {Warning("not_null", {"office_id"})}
  BY DEF Registry
<1>6. Registry["loans"].checks = KeyChecks("loan_id")
          \cup {Warning("not_null", {"client_id"}),
                Check("non_negative", {"principal"}, "error"),
                Warning("non_negative",
                        {"principal_outstanding", "total_outstanding"}),
                [Warning("range", {"annual_interest_rate"})
                    EXCEPT !.min = 0, !.max = 200]}
  BY DEF Registry
<1>7. Registry["savings_accounts"].checks = KeyChecks("savings_id")
  BY DEF Registry
<1>8. Registry["loan_transactions"].checks = KeyChecks("transaction_id")
          \cup {NotNull("loan_id"), Warning("non_negative", {"amount"})}
  BY DEF Registry
<1> QED BY <1>1, <1>2, <1>3, <1>4, <1>5, <1>6, <1>7, <1>8

LEMMA KindsOfChecks ==
    ASSUME NEW columns, NEW severity, NEW f
    PROVE  /\ \A kind : LET k == Check(kind, columns, severity)
                        IN  k.kind = kind /\ k.columns = columns
           /\ \A kind : Warning(kind, columns).kind = kind
           /\ \A kind : Warning(kind, columns).columns = columns
           /\ NotNull(f).kind = "not_null" /\ NotNull(f).columns = {f}
           /\ Unique(f).kind = "unique" /\ Unique(f).columns = {f}
BY DEF Check, Warning, NotNull, Unique

\* No check fails on the rows of records of the book, not even a warning.
LEMMA ChecksPass ==
    ASSUME NEW e \in Entities, NEW things, things \subseteq Item[e],
           Distinguished(things), IsFiniteSet(Rows(e, things)),
           e = "offices" => things # {}
    PROVE  FailedChecks(e, SetToSeq(Rows(e, things))) = {}
<1> DEFINE S == Rows(e, things)
           rows == SetToSeq(S)
           n == Cardinality(S)
           key == Registry[e].key
<1>1. /\ rows \in [1..n -> S] /\ n \in Nat /\ Range(rows) = S
      /\ \A i, j \in 1..n : rows[i] = rows[j] => i = j
  BY SetToSeqLists
<1> HIDE DEF rows, n, S
<1>2. DOMAIN rows = 1..n
  BY <1>1
<1>3. \A i \in DOMAIN rows : \E r \in things : r \in Item[e] /\ rows[i] = Map(e, r)
  BY <1>1, <1>2 DEF S, Rows
<1>4. NULL \notin Int
  BY CrawlAssumption
<1>5. \A i \in DOMAIN rows : rows[i][key] # NULL
  BY <1>3, <1>4, MapKeepsKey
<1>6. \A i, j \in DOMAIN rows : rows[i][key] = rows[j][key] => i = j
  <2>1. TAKE i, j \in DOMAIN rows
  <2>2. HAVE rows[i][key] = rows[j][key]
  <2>3. PICK r \in things : r \in Item[e] /\ rows[i] = Map(e, r)
    BY <1>3
  <2>4. PICK s \in things : s \in Item[e] /\ rows[j] = Map(e, s)
    BY <1>3
  <2>5. r.id = s.id
    BY <2>2, <2>3, <2>4, MapKeepsKey
  <2>6. r = s
    BY <2>5 DEF Distinguished
  <2> QED BY <1>1, <1>2, <2>3, <2>4, <2>6
<1> HIDE DEF key
<1>7. \A check \in KeyChecks(key) : Passes(check, rows)
  <2>1. Passes(NotNull(key), rows)
    <3>1. NotNull(key).kind = "not_null" /\ NotNull(key).columns = {key}
      BY KindsOfChecks
    <3>2. \A i \in DOMAIN rows : \A f \in NotNull(key).columns :
              rows[i][f] # NULL
      BY <1>5, <3>1
    <3> QED BY <3>1, <3>2, PassesNotNull
  <2>2. Passes(Unique(key), rows)
    <3>1. Unique(key).kind = "unique" /\ Unique(key).columns = {key}
      BY KindsOfChecks
    <3>2. \A i, j \in DOMAIN rows : \A f \in Unique(key).columns :
              rows[i][f] = rows[j][f] => i = j
      BY <1>6, <3>1
    <3> QED BY <1>1, <1>2, <3>1, <3>2, PassesUnique
  <2> QED BY <2>1, <2>2 DEF KeyChecks
<1> SUFFICES \A check \in Registry[e].checks : Passes(check, rows)
  BY DEF FailedChecks, rows, S
<1>8. CASE e = "offices"
  <2> DEFINE check == [Check("row_count_min", {}, "error") EXCEPT !.min = 1]
  <2>1. check.kind = "row_count_min" /\ check.min = 1
    BY DEF Check
  <2>2. Len(rows) >= 1
    <3>1. S # {}
      BY <1>8 DEF S, Rows
    <3>2. n # 0
      BY <1>1, <3>1 DEF Range
    <3> QED BY <1>1, <3>2
  <2> HIDE DEF check
  <2>3. Passes(check, rows)
    BY <1>4, <2>1, <2>2 DEF Passes, Or
  <2> QED BY <1>7, <1>8, <2>3, RegistryChecks, RegistryKeys DEF check, key
<1>9. CASE e \in {"staff", "savings_products", "savings_accounts"}
  BY <1>7, <1>9, RegistryChecks, RegistryKeys DEF key
<1>10. CASE e = "loan_products"
  <2>1. \A i \in DOMAIN rows : rows[i].principal \in Nat
    BY <1>3, <1>10 DEF Item, LoanProductItem, Map, MapLoanProduct
  <2>2. Passes(Warning("non_negative", {"principal"}), rows)
    BY <2>1, KindsOfChecks, PassesNonNegative
  <2> QED BY <1>7, <1>10, <2>2, RegistryChecks, RegistryKeys DEF key
<1>11. CASE e = "clients"
  <2>1. \A i \in DOMAIN rows : rows[i].office_id \in 1..Offices
    BY <1>3, <1>11 DEF Item, ClientItem, Map, MapClient
  <2>2. \A i \in DOMAIN rows : rows[i].office_id # NULL
    BY <1>4, <2>1, BookAssumption
  <2>3. Passes(Warning("not_null", {"office_id"}), rows)
    BY <2>2, KindsOfChecks, PassesNotNull
  <2> QED BY <1>7, <1>11, <2>3, RegistryChecks, RegistryKeys DEF key
<1>12. CASE e = "loans"
  <2>1. \A i \in DOMAIN rows :
            /\ rows[i].client_id \in 1..Clients
            /\ rows[i].principal \in Nat
            /\ rows[i].principal_outstanding \in Nat
            /\ rows[i].total_outstanding \in Nat
            /\ rows[i].annual_interest_rate \in 0..46
    BY <1>3, <1>12 DEF Item, LoanItem, Map, MapLoan
  <2>2. \A i \in DOMAIN rows : rows[i].client_id # NULL
    BY <1>4, <2>1, BookAssumption
  <2>3. Passes(Warning("not_null", {"client_id"}), rows)
    BY <2>2, KindsOfChecks, PassesNotNull
  <2>4. Passes(Check("non_negative", {"principal"}, "error"), rows)
    BY <2>1, KindsOfChecks, PassesNonNegative
  <2>5. Passes(Warning("non_negative",
                       {"principal_outstanding", "total_outstanding"}), rows)
    BY <2>1, KindsOfChecks, PassesNonNegative
  <2> DEFINE check == [Warning("range", {"annual_interest_rate"})
                          EXCEPT !.min = 0, !.max = 200]
  <2>6. /\ check.kind = "range" /\ check.columns = {"annual_interest_rate"}
        /\ check.min = 0 /\ check.max = 200
    BY DEF Warning, Check
  <2> HIDE DEF check
  <2>7. \A i \in DOMAIN rows : rows[i].annual_interest_rate \in 0..200
    BY <2>1
  <2>8. Passes(check, rows)
    <3>1. \A i \in DOMAIN rows : \A f \in check.columns :
              rows[i][f] \in 0..200
      BY <2>6, <2>7
    <3> QED BY <2>6, <3>1, PassesRange
  <2> QED BY <1>7, <1>12, <2>3, <2>4, <2>5, <2>8, RegistryChecks, RegistryKeys
          DEF check, key
<1>13. CASE e = Child
  <2>1. \A i \in DOMAIN rows :
            rows[i].loan_id \in 1..Loans /\ rows[i].amount \in Nat
    BY <1>3, <1>13 DEF Item, TransactionItem, Map, MapLoanTransaction, Child
  <2>2. \A i \in DOMAIN rows : rows[i].loan_id # NULL
    BY <1>4, <2>1, BookAssumption
  <2>3. Passes(NotNull("loan_id"), rows)
    <3>1. /\ NotNull("loan_id").kind = "not_null"
          /\ NotNull("loan_id").columns = {"loan_id"}
      BY KindsOfChecks
    <3>2. \A i \in DOMAIN rows : \A f \in NotNull("loan_id").columns :
              rows[i][f] # NULL
      BY <2>2, <3>1
    <3> QED BY <3>1, <3>2, PassesNotNull
  <2>4. Passes(Warning("non_negative", {"amount"}), rows)
    BY <2>1, KindsOfChecks, PassesNonNegative
  <2> QED BY <1>7, <1>13, <2>3, <2>4, RegistryChecks, RegistryKeys DEF key, Child
<1> QED BY <1>8, <1>9, <1>10, <1>11, <1>12, <1>13, EntityNames DEF Collections

-----------------------------------------------------------------------------
(* The crawl of a process.                                                 *)

Transactions(l) == Range(book["loan_transactions"][l])

\* Every loan is still to be asked for, or given up, or its transactions are
\* here.
AllLoans(c) ==
    \A l \in 1..Loans :
        l \in Range(parents[c]) \/ l \in skipped \/ Transactions(l) \subseteq Range(got[c])

CrawlTypes ==
    /\ todo \in [Crawlers -> Seq(Entities)]
    /\ parents \in [Crawlers -> Seq(1..Loans) \cup {NULL}]
    /\ got \in [Crawlers -> UNION {Seq(Item[e]) : e \in Entities}]
    /\ done \in [Crawlers -> BOOLEAN]
    /\ request \in [Crawlers -> Requests]
    /\ DOMAIN landed = Entities /\ loaded \subseteq Entities

\* A request is one of the crawl that goes on.
RequestOK(c) ==
    request[c] # "none" => Busy(c) /\ (IsChild(Entity(c)) => parents[c] # NULL)

\* Of a collection its first records are here, and at the end all.
CollectionOK(c) ==
    LET e == Entity(c)
    IN  /\ parents[c] = NULL
        /\ Len(got[c]) <= Len(book[e])
        /\ \A i \in 1..Len(got[c]) : got[c][i] = book[e][i]
        /\ done[c] => Len(got[c]) = Len(book[e])
        /\ ~Registry[e].paged /\ ~done[c] => got[c] = <<>>

\* Of the transactions those of all loans are, or will be, or of none.
ChildrenOK(c) ==
    /\ got[c] \in Seq(TransactionItem) /\ Range(got[c]) \subseteq AllTransactions
    /\ parents[c] = NULL => got[c] = <<>> /\ ~done[c]
    /\ parents[c] # NULL =>
          /\ done[c] <=> parents[c] = <<>>
          /\ AllLoans(c) \/ (parents[c] = <<>> /\ got[c] = <<>>)

ProcessOK(c) ==
    /\ RequestOK(c)
    /\ todo[c] # <<>> =>
          IF IsChild(Entity(c)) THEN ChildrenOK(c) ELSE CollectionOK(c)

LEMMA ItemsOfCollection ==
    ASSUME BookOK, NEW e \in Collections
    PROVE  /\ book[e] \in Seq(Item[e])
           /\ e # Child /\ e \in Entities
<1>1. ASSUME NEW n \in Nat, Holds(book[e], Item[e], n)
      PROVE  book[e] \in Seq(Item[e])
  BY <1>1 DEF Holds
<1>2. \E n \in Nat : Holds(book[e], Item[e], n)
  BY BookAssumption DEF BookOK, Item, Collections
<1> QED BY <1>1, <1>2, EntityNames

\* A crawl may take all pages of a collection.
LEMMA PagedFit ==
    ASSUME BookOK, NEW e \in Entities, Registry[e].paged
    PROVE  Len(book[e]) <= MaxPages * PageSize
<1>1. e \in {"clients", "loans", "savings_accounts"}
  BY RegistryPaged
<1>2. \E n \in {Clients, Loans, Accounts} : Holds(book[e], Item[e], n)
  BY <1>1 DEF BookOK, Item
<1>3. ASSUME NEW n \in Nat, NEW items, NEW set, Holds(items, set, n)
      PROVE  Len(items) = n
  BY <1>3 DEF Holds
<1>4. {Clients, Loans, Accounts} \subseteq Nat
  BY BookAssumption
<1> QED BY <1>2, <1>3, <1>4, PagesSuffice

\* What another process does is no concern of this one, except that loans may
\* be given up.
LEMMA ProcessKept ==
    ASSUME NEW d \in Crawlers, ProcessOK(d),
           book' = book, todo'[d] = todo[d], parents'[d] = parents[d],
           got'[d] = got[d], done'[d] = done[d], request'[d] = request[d],
           skipped \subseteq skipped'
    PROVE  ProcessOK(d)' /\ (AllLoans(d) => AllLoans(d)')
<1>1. AllLoans(d) => AllLoans(d)'
  BY DEF AllLoans, Transactions
<1>2. RequestOK(d)'
  BY DEF ProcessOK, RequestOK, Busy, Entity
<1>3. ASSUME todo'[d] # <<>>, IsChild(Entity(d)') PROVE ChildrenOK(d)'
  BY <1>1, <1>3 DEF ProcessOK, ChildrenOK, Entity, AllTransactions
<1>4. ASSUME todo'[d] # <<>>, ~IsChild(Entity(d)') PROVE CollectionOK(d)'
  BY <1>4 DEF ProcessOK, CollectionOK, Entity
<1> QED BY <1>1, <1>2, <1>3, <1>4 DEF ProcessOK, IsChild

\* Before its first request a crawl is in order.
LEMMA NewCrawl ==
    ASSUME BookOK, NEW d \in Crawlers, book' = book,
           todo'[d] \in Seq(Entities), parents'[d] = NULL, got'[d] = <<>>,
           done'[d] = FALSE, request'[d] = "none"
    PROVE  ProcessOK(d)'
<1>1. RequestOK(d)'
  BY DEF RequestOK
<1>2. ASSUME todo'[d] # <<>>, IsChild(Entity(d)') PROVE ChildrenOK(d)'
  BY DEF ChildrenOK, Range
<1>3. ASSUME todo'[d] # <<>>, ~IsChild(Entity(d)') PROVE CollectionOK(d)'
  <2>1. Entity(d)' \in Collections
    BY <1>3, EntityNames, HeadTailProperties DEF Entity
  <2>2. book[Entity(d)'] \in Seq(Item[Entity(d)'])
    BY <2>1, ItemsOfCollection
  <2>3. Len(book[Entity(d)']) \in Nat
    BY <2>2, LenProperties
  <2> QED BY <2>3 DEF CollectionOK, Entity
<1> QED BY <1>1, <1>2, <1>3 DEF ProcessOK, IsChild

-----------------------------------------------------------------------------
(* What is landed.                                                         *)

ChildrenLanded == Rows(Child, Published(Child)) \subseteq landed[Child]

StoreOK ==
    /\ \A e \in Entities \ loaded : landed[e] = {}
    /\ \A e \in loaded \ {Child} : landed[e] = Rows(e, Things(e))
    /\ landed[Child] \subseteq Rows(Child, AllTransactions)
    /\ landed[Child] # {} => ChildrenLanded
    /\ complaints = {}

\* A process works through its plan.
PlanOK(c) ==
    /\ Len(todo[c]) <= Len(Plan[c])
    /\ \A i \in 1..Len(todo[c]) :
          todo[c][i] = Plan[c][Len(Plan[c]) - Len(todo[c]) + i]

\* Whoever has landed transactions is past them in its plan.
PastChildren ==
    Child \in loaded => \E d \in Crawlers : \E j \in DOMAIN Plan[d] :
        Plan[d][j] = Child /\ Len(todo[d]) <= Len(Plan[d]) - j

\* With the loans landed first, nothing asks for transactions of none.
OrderOK ==
    LoansFirst /\ "loans" \in loaded =>
        /\ Child \in loaded => ChildrenLanded
        /\ \A c \in Crawlers :
              todo[c] # <<>> /\ IsChild(Entity(c)) /\ parents[c] # NULL =>
                  AllLoans(c)

CrawlInv ==
    /\ BookOK /\ CrawlTypes /\ StoreOK /\ PastChildren /\ OrderOK
    /\ \A c \in Crawlers : ProcessOK(c) /\ PlanOK(c)

LEMMA InitCrawl == Init => CrawlInv
<1> SUFFICES ASSUME Init PROVE CrawlInv
  OBVIOUS
<1>1. BookOK
  BY InitBook
<1>2. /\ todo = Plan
      /\ parents = [c \in Crawlers |-> NULL]
      /\ got = [c \in Crawlers |-> <<>>]
      /\ done = [c \in Crawlers |-> FALSE]
      /\ request = [c \in Crawlers |-> "none"]
      /\ landed = [e \in Entities |-> {}]
      /\ loaded = {} /\ skipped = {} /\ complaints = {}
  BY DEF Init
<1>3. Child \in Entities /\ "loans" \notin {}
  BY EntityNames
<1>4. Plan \in [Crawlers -> Seq(Entities)]
  BY CrawlAssumption
<1>5. CrawlTypes
  <2>1. <<>> \in UNION {Seq(Item[e]) : e \in Entities}
    BY <1>3
  <2> QED BY <1>2, <1>4, <2>1 DEF CrawlTypes, Requests
<1>6. StoreOK
  BY <1>2, <1>3 DEF StoreOK
<1>7. PastChildren /\ OrderOK
  BY <1>2 DEF PastChildren, OrderOK
<1>8. ASSUME NEW c \in Crawlers PROVE ProcessOK(c) /\ PlanOK(c)
  <2>1. todo[c] \in Seq(Entities) /\ Len(todo[c]) \in Nat
    BY <1>2, <1>4, LenProperties
  <2>2. PlanOK(c)
    BY <1>2, <2>1 DEF PlanOK
  <2>3. RequestOK(c)
    BY <1>2 DEF RequestOK
  <2>4. ASSUME todo[c] # <<>>, IsChild(Entity(c)) PROVE ChildrenOK(c)
    BY <1>2 DEF ChildrenOK, Range
  <2>5. ASSUME todo[c] # <<>>, ~IsChild(Entity(c)) PROVE CollectionOK(c)
    <3>1. Entity(c) \in Collections
      BY <2>1, <2>5, EntityNames, HeadTailProperties DEF Entity
    <3>2. Len(book[Entity(c)]) \in Nat
      BY <1>1, <3>1, ItemsOfCollection, LenProperties
    <3> QED BY <1>2, <3>2 DEF CollectionOK
  <2> QED BY <2>2, <2>3, <2>4, <2>5 DEF ProcessOK
<1> QED BY <1>1, <1>5, <1>6, <1>7, <1>8 DEF CrawlInv

\* Requests come and go, and are tried again, with the crawl where it was.
LEMMA OnlyRequests ==
    ASSUME CrawlInv,
           UNCHANGED <<book, todo, parents, got, done, skipped, landed, loaded,
                       complaints>>,
           request' \in [Crawlers -> Requests],
           \A d \in Crawlers : request'[d] # "none" =>
               Busy(d) /\ (IsChild(Entity(d)) => parents[d] # NULL)
    PROVE  CrawlInv'
<1>1. BookOK' /\ StoreOK' /\ PastChildren' /\ OrderOK'
  <2>1. BookOK'
    BY DEF CrawlInv, BookOK
  <2>2. ChildrenLanded' = ChildrenLanded
    BY DEF ChildrenLanded, Rows, Published, AllTransactions
  <2>3. StoreOK'
    BY <2>2 DEF CrawlInv, StoreOK, Things, AllTransactions, Rows
  <2>4. PastChildren'
    BY DEF CrawlInv, PastChildren
  <2>5. \A d \in Crawlers : AllLoans(d)' = AllLoans(d)
    BY DEF AllLoans, Transactions
  <2>6. OrderOK'
    BY <2>2, <2>5 DEF CrawlInv, OrderOK, Entity, LoansFirst, IsChild
  <2> QED BY <2>1, <2>3, <2>4, <2>6
<1>2. CrawlTypes'
  BY DEF CrawlInv, CrawlTypes
<1>3. ASSUME NEW d \in Crawlers PROVE ProcessOK(d)' /\ PlanOK(d)'
  <2>1. ProcessOK(d) /\ PlanOK(d)
    BY DEF CrawlInv
  <2>2. RequestOK(d)'
    BY DEF RequestOK, Busy, Entity
  <2> QED BY <2>1, <2>2
          DEF ProcessOK, PlanOK, ChildrenOK, CollectionOK, AllLoans,
              Transactions, AllTransactions, Entity
<1> QED BY <1>1, <1>2, <1>3 DEF CrawlInv

\* A process goes on with its crawl, or gives up some of it, and lands
\* nothing.
LEMMA OneProcess ==
    ASSUME CrawlInv, NEW c \in Crawlers,
           UNCHANGED <<book, landed, loaded, complaints>>,
           skipped \subseteq skipped', CrawlTypes', ProcessOK(c)', PlanOK(c)',
           Len(todo'[c]) <= Len(todo[c]),
           \A d \in Crawlers \ {c} :
               /\ todo'[d] = todo[d] /\ parents'[d] = parents[d]
               /\ got'[d] = got[d] /\ done'[d] = done[d]
               /\ request'[d] = request[d],
           (LoansFirst /\ "loans" \in loaded /\ todo'[c] # <<>>
                /\ IsChild(Entity(c)') /\ parents'[c] # NULL)
               => AllLoans(c)'
    PROVE  CrawlInv'
<1>1. BookOK'
  BY DEF CrawlInv, BookOK
<1>2. ChildrenLanded => ChildrenLanded'
  <2>1. Published(Child)' \subseteq Published(Child)
    BY DEF Published, AllTransactions, IsChild, Child
  <2> QED BY <2>1 DEF ChildrenLanded, Rows
<1>3. StoreOK'
  <2>1. \A e : Things(e)' = Things(e)
    BY DEF Things, AllTransactions, IsChild
  <2>2. AllTransactions' = AllTransactions
    BY DEF AllTransactions
  <2> QED BY <1>2, <2>1, <2>2 DEF CrawlInv, StoreOK, Rows
<1>4. ASSUME NEW d \in Crawlers
      PROVE  ProcessOK(d)' /\ PlanOK(d)' /\ (d # c /\ AllLoans(d) => AllLoans(d)')
  <2>1. CASE d = c
    BY <2>1
  <2>2. CASE d # c
    <3>1. ProcessOK(d)' /\ (AllLoans(d) => AllLoans(d)')
      BY <2>2, ProcessKept DEF CrawlInv
    <3>2. PlanOK(d)'
      <4>1. todo'[d] = todo[d] /\ PlanOK(d)
        BY <2>2 DEF CrawlInv
      <4> QED BY <4>1 DEF PlanOK
    <3> QED BY <3>1, <3>2
  <2> QED BY <2>1, <2>2
<1>5. PastChildren'
  <2>1. SUFFICES ASSUME Child \in loaded
                 PROVE  \E d \in Crawlers : \E j \in DOMAIN Plan[d] :
                            Plan[d][j] = Child
                            /\ Len(todo'[d]) <= Len(Plan[d]) - j
    BY DEF PastChildren
  <2>a. PICK d \in Crawlers : \E j \in DOMAIN Plan[d] :
            Plan[d][j] = Child /\ Len(todo[d]) <= Len(Plan[d]) - j
    BY <2>1 DEF CrawlInv, PastChildren
  <2>2. PICK j \in DOMAIN Plan[d] :
            Plan[d][j] = Child /\ Len(todo[d]) <= Len(Plan[d]) - j
    BY <2>a
  <2>3. todo[d] \in Seq(Entities) /\ todo'[d] \in Seq(Entities)
    BY DEF CrawlInv, CrawlTypes
  <2>4. Plan[d] \in Seq(Entities)
    BY CrawlAssumption
  <2>5. /\ Len(todo[d]) \in Nat /\ Len(todo'[d]) \in Nat
        /\ Len(Plan[d]) \in Nat /\ j \in Nat
    BY <2>3, <2>4, LenProperties
  <2>6. Len(todo'[d]) <= Len(todo[d])
    BY <2>5
  <2> QED BY <2>2, <2>5, <2>6
<1>6. OrderOK'
  <2>1. SUFFICES ASSUME LoansFirst, "loans" \in loaded
                 PROVE  /\ Child \in loaded => ChildrenLanded'
                        /\ \A d \in Crawlers :
                              todo'[d] # <<>> /\ IsChild(Entity(d)')
                                  /\ parents'[d] # NULL => AllLoans(d)'
    BY DEF OrderOK, LoansFirst, IsChild
  <2>2. Child \in loaded => ChildrenLanded'
    BY <1>2, <2>1 DEF CrawlInv, OrderOK
  <2>3. ASSUME NEW d \in Crawlers, todo'[d] # <<>>, IsChild(Entity(d)'),
               parents'[d] # NULL
        PROVE  AllLoans(d)'
    <3>1. CASE d = c
      BY <2>1, <2>3, <3>1
    <3>2. CASE d # c
      BY <1>4, <2>1, <2>3, <3>2 DEF CrawlInv, OrderOK, Entity
    <3> QED BY <3>1, <3>2
  <2> QED BY <2>2, <2>3
<1> QED BY <1>1, <1>3, <1>4, <1>5, <1>6 DEF CrawlInv

LEMMA RequestStep ==
    ASSUME CrawlInv, Arm \/ \E c \in Crawlers : Send(c) \/ Choose(c) \/ Read(c)
    PROVE  CrawlInv'
<1>1. /\ request \in [Crawlers -> Requests]
      /\ \A d \in Crawlers : request[d] # "none" =>
             Busy(d) /\ (IsChild(Entity(d)) => parents[d] # NULL)
  BY DEF CrawlInv, CrawlTypes, ProcessOK, RequestOK
<1>2. CASE Arm
  <2>1. UNCHANGED <<book, crawl, store>> /\ request' = request
    BY <1>2 DEF Arm
  <2>2. UNCHANGED <<book, todo, parents, got, done, skipped, landed, loaded,
                    complaints>>
    BY <2>1 DEF crawl, store
  <2> QED BY <1>1, <2>1, <2>2, OnlyRequests
<1>3. ASSUME NEW c \in Crawlers, Send(c) \/ Choose(c) \/ Read(c)
      PROVE  CrawlInv'
  <2>1. UNCHANGED <<book, crawl, store>>
    BY <1>3 DEF Send, Choose, Read
  <2>2. UNCHANGED <<book, todo, parents, got, done, skipped, landed, loaded,
                    complaints>>
    BY <2>1 DEF crawl, store
  <2>3. \E v \in Requests : request' = [request EXCEPT ![c] = v]
    BY <1>3 DEF Send, Choose, Read, Requests
  <2>4. Busy(c) /\ (IsChild(Entity(c)) => parents[c] # NULL)
    BY <1>1, <1>3 DEF Send, Choose, Read
  <2>5. request' \in [Crawlers -> Requests]
    BY <1>1, <2>3
  <2>6. \A d \in Crawlers : request'[d] # "none" =>
             Busy(d) /\ (IsChild(Entity(d)) => parents[d] # NULL)
    BY <1>1, <2>3, <2>4
  <2> QED BY <2>2, <2>5, <2>6, OnlyRequests
<1> QED BY <1>2, <1>3

\* The loans that are landed have been paid out, or will be.
LEMMA LoansToAsk ==
    ASSUME BookOK, StoreOK
    PROVE  LET ids == ParentIds(landed["loans"])
           IN  /\ "loans" \in loaded => ids = 1..Loans
               /\ "loans" \notin loaded => ids = {}
<1>1. "loans" \in Entities /\ "loans" # Child
  BY EntityNames DEF Collections, Child
<1>2. CASE "loans" \notin loaded
  <2>1. landed["loans"] = {}
    BY <1>1, <1>2 DEF StoreOK
  <2> QED BY <1>2, <2>1 DEF ParentIds
<1>3. CASE "loans" \in loaded
  <2>1. landed["loans"] = {MapLoan(r) : r \in Range(book["loans"])}
    <3>1. landed["loans"] = Rows("loans", Things("loans"))
      BY <1>1, <1>3 DEF StoreOK
    <3>2. Things("loans") = Range(book["loans"])
      BY <1>1, EntityNames DEF Things
    <3> QED BY <3>1, <3>2 DEF Rows, Map
  <2>2. Holds(book["loans"], LoanItem, Loans)
    BY DEF BookOK
  <2>3. Range(book["loans"]) = {book["loans"][i] : i \in 1..Loans}
    BY <2>2 DEF Holds, Range
  <2>4. ASSUME NEW i \in 1..Loans
        PROVE  LET row == MapLoan(book["loans"][i])
               IN  row.loan_id = i /\ row.disbursed_on_date # NULL
    <3>1. book["loans"][i] \in LoanItem /\ book["loans"][i].id = i
      BY <2>2 DEF Holds
    <3> DEFINE r == book["loans"][i]
    <3>2. /\ r.actualDisbursement \in (Nat \ {0}) \cup {NULL}
          /\ r.expectedDisbursement \in Nat \ {0}
      BY <3>1 DEF LoanItem
    <3>3. Or(r.actualDisbursement, r.expectedDisbursement) # NULL
      BY <3>2, CrawlAssumption DEF Or
    <3> QED BY <3>1, <3>3 DEF MapLoan
  <2>5. landed["loans"] = {MapLoan(book["loans"][i]) : i \in 1..Loans}
    BY <2>1, <2>3
  <2>6. ASSUME NEW i \in 1..Loans PROVE i \in ParentIds(landed["loans"])
    BY <2>4, <2>5 DEF ParentIds
  <2>7. ASSUME NEW l \in ParentIds(landed["loans"]) PROVE l \in 1..Loans
    <3>1. PICK row \in landed["loans"] : l = row.loan_id
      BY DEF ParentIds
    <3>2. PICK i \in 1..Loans : row = MapLoan(book["loans"][i])
      BY <2>5
    <3> QED BY <2>4, <3>1, <3>2
  <2> QED BY <1>3, <2>6, <2>7
<1> QED BY <1>2, <1>3

LEMMA ListParentsStep ==
    ASSUME CrawlInv, NEW c \in Crawlers, ListParents(c)
    PROVE  CrawlInv'
<1> DEFINE ids == ParentIds(landed["loans"])
           s == SetToSeq(ids)
<1>1. /\ Busy(c) /\ IsChild(Entity(c)) /\ parents[c] = NULL
      /\ parents' = [parents EXCEPT ![c] = s]
      /\ done' = [done EXCEPT ![c] = (ids = {})]
      /\ UNCHANGED <<book, request, landed, loaded, complaints, todo, got,
                     skipped>>
  BY DEF ListParents, server, store
<1>2. /\ "loans" \in loaded => ids = 1..Loans
      /\ "loans" \notin loaded => ids = {}
  BY LoansToAsk DEF CrawlInv
<1> HIDE DEF ids
<1>3. ids \subseteq 1..Loans /\ IsFiniteSet(ids)
  <2>1. Loans \in Int /\ 1 \in Int
    BY BookAssumption
  <2>2. IsFiniteSet(1..Loans)
    BY <2>1, FS_Interval
  <2> QED BY <1>2, <2>2, FS_EmptySet
<1>4. /\ s \in [1..Cardinality(ids) -> ids] /\ Cardinality(ids) \in Nat
      /\ Range(s) = ids
  BY <1>3, SetToSeqLists
<1> HIDE DEF s
<1>5. s \in Seq(1..Loans)
  <2> DEFINE n == Cardinality(ids)
  <2>1. n \in Nat /\ s \in [1..n -> 1..Loans]
    BY <1>3, <1>4
  <2> HIDE DEF n
  <2> QED BY <2>1, SeqDef
<1>6. s = <<>> <=> ids = {}
  BY <1>4 DEF Range
<1>7. NULL \notin Seq(1..Loans)
  <2>1. Seq(1..Loans) \subseteq Seq(Int)
    BY BookAssumption
  <2> QED BY <2>1, CrawlAssumption
<1>8. CrawlTypes'
  BY <1>1, <1>5 DEF CrawlInv, CrawlTypes
<1>9. parents'[c] = s /\ done'[c] = (ids = {})
  BY <1>1 DEF CrawlInv, CrawlTypes
<1>10. \A d \in Crawlers \ {c} : parents'[d] = parents[d] /\ done'[d] = done[d]
  BY <1>1 DEF CrawlInv, CrawlTypes
<1>11. request[c] = "none"
  BY <1>1 DEF CrawlInv, ProcessOK, RequestOK
<1>12. "loans" \in loaded => AllLoans(c)'
  BY <1>2, <1>4, <1>9 DEF AllLoans
<1>13. ChildrenOK(c)'
  <2>1. ChildrenOK(c)
    BY <1>1 DEF CrawlInv, ProcessOK, Busy
  <2>2. got[c] = <<>>
    BY <1>1, <2>1 DEF ChildrenOK
  <2>3. parents'[c] # NULL
    BY <1>5, <1>7, <1>9
  <2>4. AllLoans(c)' \/ (parents'[c] = <<>> /\ got'[c] = <<>>)
    BY <1>1, <1>2, <1>6, <1>9, <1>12, <2>2
  <2>5. done'[c] <=> parents'[c] = <<>>
    BY <1>6, <1>9
  <2>6. AllTransactions' = AllTransactions
    BY <1>1 DEF AllTransactions
  <2>7. /\ got'[c] \in Seq(TransactionItem)
        /\ Range(got'[c]) \subseteq AllTransactions'
    BY <1>1, <2>1, <2>6 DEF ChildrenOK
  <2> QED BY <2>3, <2>4, <2>5, <2>7 DEF ChildrenOK
<1>14. ProcessOK(c)' /\ PlanOK(c)'
  <2>1. RequestOK(c)'
    BY <1>1, <1>11 DEF RequestOK
  <2>2. IsChild(Entity(c)')
    BY <1>1 DEF Entity
  <2>3. PlanOK(c)'
    BY <1>1 DEF CrawlInv, PlanOK
  <2> QED BY <1>13, <2>1, <2>2, <2>3 DEF ProcessOK, IsChild
<1>15. Len(todo'[c]) <= Len(todo[c])
  <2>1. todo[c] \in Seq(Entities)
    BY DEF CrawlInv, CrawlTypes
  <2> QED BY <1>1, <2>1, LenProperties
<1> QED BY <1>1, <1>8, <1>10, <1>12, <1>14, <1>15, OneProcess

LEMMA HeadOrTail ==
    ASSUME NEW S, NEW s \in Seq(S), s # <<>>
    PROVE  /\ Head(s) \in S /\ Tail(s) \in Seq(S)
           /\ Len(Tail(s)) = Len(s) - 1 /\ Len(s) \in Nat \ {0}
           /\ \A i \in 1..Len(Tail(s)) : Tail(s)[i] = s[i + 1]
           /\ Head(s) = s[1]
           /\ Range(s) = {Head(s)} \cup Range(Tail(s))
           /\ Tail(s) = <<>> <=> Len(s) = 1
<1>1. /\ Head(s) \in S /\ Tail(s) \in Seq(S)
      /\ Len(Tail(s)) = Len(s) - 1 /\ Len(s) \in Nat \ {0}
      /\ \A i \in 1..Len(Tail(s)) : Tail(s)[i] = s[i + 1]
  BY HeadTailProperties, EmptySeq, LenProperties
<1>2. DOMAIN s = 1..Len(s) /\ DOMAIN Tail(s) = 1..Len(Tail(s)) /\ Head(s) = s[1]
  BY <1>1, LenProperties
<1>3. \A x : x \in Range(s) => x \in {Head(s)} \cup Range(Tail(s))
  <2>1. ASSUME NEW i \in DOMAIN s PROVE s[i] \in {Head(s)} \cup Range(Tail(s))
    <3>1. CASE i = 1
      BY <1>2, <3>1
    <3>2. CASE i # 1
      <4>1. i - 1 \in DOMAIN Tail(s)
        BY <1>1, <1>2, <3>2
      <4>2. Tail(s)[i - 1] = s[i]
        BY <1>1, <1>2, <4>1
      <4> QED BY <4>1, <4>2 DEF Range
    <3> QED BY <3>1, <3>2
  <2> QED BY <2>1 DEF Range
<1>4. \A x : x \in {Head(s)} \cup Range(Tail(s)) => x \in Range(s)
  <2>1. Head(s) \in Range(s)
    BY <1>1, <1>2 DEF Range
  <2>2. ASSUME NEW i \in DOMAIN Tail(s) PROVE Tail(s)[i] \in Range(s)
    <3>1. i + 1 \in DOMAIN s /\ Tail(s)[i] = s[i + 1]
      BY <1>1, <1>2
    <3> QED BY <3>1 DEF Range
  <2> QED BY <2>1, <2>2 DEF Range
<1>5. Tail(s) = <<>> <=> Len(s) = 1
  <2>1. Tail(s) = <<>> <=> Len(Tail(s)) = 0
    BY <1>1, EmptySeq
  <2> QED BY <1>1, <2>1
<1> QED BY <1>1, <1>2, <1>3, <1>4, <1>5

\* The next entity of the plan.
LEMMA PlanGoesOn ==
    ASSUME NEW c \in Crawlers, todo[c] \in Seq(Entities), todo[c] # <<>>,
           PlanOK(c), todo'[c] = Tail(todo[c])
    PROVE  /\ PlanOK(c)' /\ todo'[c] \in Seq(Entities)
           /\ Len(todo'[c]) = Len(todo[c]) - 1 /\ Len(todo[c]) \in Nat \ {0}
           /\ LET j == Len(Plan[c]) - Len(todo[c]) + 1
              IN  j \in DOMAIN Plan[c] /\ Plan[c][j] = Entity(c)
<1>1. /\ Tail(todo[c]) \in Seq(Entities)
      /\ Len(Tail(todo[c])) = Len(todo[c]) - 1 /\ Len(todo[c]) \in Nat \ {0}
      /\ \A i \in 1..Len(Tail(todo[c])) : Tail(todo[c])[i] = todo[c][i + 1]
      /\ Head(todo[c]) = todo[c][1]
  BY HeadOrTail
<1>2. Plan[c] \in Seq(Entities)
  BY CrawlAssumption
<1>3. Len(Plan[c]) \in Nat /\ DOMAIN Plan[c] = 1..Len(Plan[c])
  BY <1>2, LenProperties
<1>4. /\ Len(todo[c]) <= Len(Plan[c])
      /\ \A i \in 1..Len(todo[c]) :
            todo[c][i] = Plan[c][Len(Plan[c]) - Len(todo[c]) + i]
  BY DEF PlanOK
<1>5. PlanOK(c)'
  <2>1. Len(todo'[c]) <= Len(Plan[c])
    BY <1>1, <1>3, <1>4
  <2>2. ASSUME NEW i \in 1..Len(todo'[c])
        PROVE  todo'[c][i] = Plan[c][Len(Plan[c]) - Len(todo'[c]) + i]
    <3>1. i + 1 \in 1..Len(todo[c]) /\ todo'[c][i] = todo[c][i + 1]
      BY <1>1, <2>2
    <3>2. Len(Plan[c]) - Len(todo'[c]) + i
              = Len(Plan[c]) - Len(todo[c]) + (i + 1)
      <4>1. Len(todo'[c]) = Len(todo[c]) - 1
        BY <1>1
      <4>2. Len(todo[c]) \in Int /\ Len(Plan[c]) \in Int /\ i \in Int
        BY <1>1, <1>3, <2>2
      <4>3. \A a, b, k \in Int : a - (b - 1) + k = a - b + (k + 1)
        OBVIOUS
      <4> DEFINE a == Len(Plan[c])
                 b == Len(todo[c])
      <4> HIDE DEF a, b
      <4>4. a - (b - 1) + i = a - b + (i + 1)
        BY <4>2, <4>3 DEF a, b
      <4> QED BY <4>1, <4>4, Zenon DEF a, b
    <3> QED BY <1>4, <3>1, <3>2
  <2> QED BY <2>1, <2>2 DEF PlanOK
<1>6. LET j == Len(Plan[c]) - Len(todo[c]) + 1
      IN  j \in DOMAIN Plan[c] /\ Plan[c][j] = Entity(c)
  <2>1. 1 \in 1..Len(todo[c])
    BY <1>1
  <2>2. todo[c][1] = Plan[c][Len(Plan[c]) - Len(todo[c]) + 1]
    BY <1>4, <2>1
  <2>3. Len(Plan[c]) - Len(todo[c]) + 1 \in 1..Len(Plan[c])
    <3>1. \A a, b \in Nat : b # 0 /\ b <= a => a - b + 1 \in 1..a
      OBVIOUS
    <3> QED BY <1>1, <1>3, <1>4, <3>1
  <2> QED BY <1>1, <1>3, <2>2, <2>3 DEF Entity
<1> QED BY <1>1, <1>5, <1>6

\* A request is made to fail: it is tried again, or the loan it was about is
\* given up, or the whole collection.
LEMMA FailedStep ==
    ASSUME CrawlInv, NEW c \in Crawlers, Write(c) \/ Transient(c)
    PROVE  CrawlInv'
<1>1. /\ request[c] \in {"counting", "sent"}
      /\ request' = [request EXCEPT ![c] = "none"]
      /\ UNCHANGED <<book, landed, loaded, complaints>>
      /\ Failed(c)
  BY DEF Write, Transient, store
<1>2. CrawlTypes /\ BookOK /\ PlanOK(c) /\ ProcessOK(c)
  BY DEF CrawlInv
<1>3. /\ todo[c] # <<>> /\ ~done[c]
      /\ IsChild(Entity(c)) => parents[c] # NULL
  BY <1>1, <1>2 DEF ProcessOK, RequestOK, Busy
<1>4. /\ request' \in [Crawlers -> Requests]
      /\ request'[c] = "none"
      /\ \A d \in Crawlers \ {c} : request'[d] = request[d]
  BY <1>1, <1>2 DEF CrawlTypes, Requests
<1>5. todo[c] \in Seq(Entities) /\ Len(todo[c]) \in Nat
  BY <1>2, LenProperties DEF CrawlTypes
<1>6. CASE UNCHANGED <<todo, parents, got, done, skipped>>
  <2>1. \A d \in Crawlers : request'[d] # "none" =>
            Busy(d) /\ (IsChild(Entity(d)) => parents[d] # NULL)
    BY <1>4 DEF CrawlInv, ProcessOK, RequestOK
  <2> QED BY <1>1, <1>4, <1>6, <2>1, OnlyRequests
<1>7. CASE /\ IsChild(Entity(c))
           /\ skipped' = skipped \cup {Head(parents[c])}
           /\ parents' = [parents EXCEPT ![c] = Tail(@)]
           /\ done' = [done EXCEPT ![c] = (Len(parents[c]) = 1)]
           /\ UNCHANGED <<todo, got>>
  <2>1. ChildrenOK(c)
    BY <1>2, <1>3, <1>7 DEF ProcessOK
  <2>2. parents[c] # NULL /\ parents[c] # <<>> /\ AllLoans(c)
    BY <1>3, <1>7, <2>1 DEF ChildrenOK
  <2>3. parents[c] \in Seq(1..Loans)
    BY <1>2, <2>2 DEF CrawlTypes
  <2>4. /\ Tail(parents[c]) \in Seq(1..Loans)
        /\ Range(parents[c]) = {Head(parents[c])} \cup Range(Tail(parents[c]))
        /\ Tail(parents[c]) = <<>> <=> Len(parents[c]) = 1
    BY <2>2, <2>3, HeadOrTail
  <2>5. parents'[c] = Tail(parents[c]) /\ done'[c] = (Len(parents[c]) = 1)
    BY <1>2, <1>7 DEF CrawlTypes
  <2>6. Tail(parents[c]) # NULL
    <3>1. Seq(1..Loans) \subseteq Seq(Int)
      BY BookAssumption
    <3> QED BY <2>4, <3>1, CrawlAssumption
  <2>7. CrawlTypes'
    BY <1>1, <1>2, <1>4, <1>7, <2>4 DEF CrawlTypes
  <2>8. AllLoans(c)'
    BY <1>1, <1>7, <2>2, <2>4, <2>5 DEF AllLoans, Transactions
  <2>9. ChildrenOK(c)'
    <3>1. /\ got'[c] \in Seq(TransactionItem)
          /\ Range(got'[c]) \subseteq AllTransactions'
      BY <1>1, <1>7, <2>1 DEF ChildrenOK, AllTransactions
    <3>2. done'[c] <=> parents'[c] = <<>>
      BY <2>4, <2>5
    <3> QED BY <2>5, <2>6, <2>8, <3>1, <3>2 DEF ChildrenOK
  <2>10. IsChild(Entity(c)')
    BY <1>7 DEF Entity
  <2>11. ProcessOK(c)'
    BY <1>4, <2>9, <2>10 DEF ProcessOK, RequestOK, IsChild
  <2>12. PlanOK(c)'
    BY <1>2, <1>7 DEF PlanOK
  <2>13. \A d \in Crawlers \ {c} :
             /\ todo'[d] = todo[d] /\ parents'[d] = parents[d]
             /\ got'[d] = got[d] /\ done'[d] = done[d]
             /\ request'[d] = request[d]
    BY <1>2, <1>4, <1>7 DEF CrawlTypes
  <2>14. skipped \subseteq skipped' /\ Len(todo'[c]) <= Len(todo[c])
    BY <1>5, <1>7
  <2> QED BY <1>1, <2>7, <2>8, <2>11, <2>12, <2>13, <2>14, OneProcess
<1>8. CASE /\ ~IsChild(Entity(c))
           /\ todo' = [todo EXCEPT ![c] = Tail(@)]
           /\ got' = [got EXCEPT ![c] = <<>>]
           /\ UNCHANGED <<parents, done, skipped>>
  <2>1. parents[c] = NULL
    BY <1>2, <1>3, <1>8 DEF ProcessOK, CollectionOK
  <2>2. todo'[c] = Tail(todo[c]) /\ got'[c] = <<>>
    BY <1>2, <1>8 DEF CrawlTypes
  <2>3. /\ PlanOK(c)' /\ todo'[c] \in Seq(Entities)
        /\ Len(todo'[c]) = Len(todo[c]) - 1
    BY <1>2, <1>3, <1>5, <2>2, PlanGoesOn
  <2>4. done[c] = FALSE
    BY <1>2, <1>3 DEF CrawlTypes
  <2>5. ProcessOK(c)'
    BY <1>1, <1>2, <1>4, <1>8, <2>1, <2>2, <2>3, <2>4, NewCrawl
  <2>6. CrawlTypes'
    <3>1. <<>> \in UNION {Seq(Item[e]) : e \in Entities}
      BY EntityNames
    <3>2. todo' \in [Crawlers -> Seq(Entities)]
      BY <1>2, <1>8, <2>2, <2>3 DEF CrawlTypes
    <3> QED BY <1>1, <1>2, <1>4, <1>8, <3>1, <3>2 DEF CrawlTypes
  <2>7. \A d \in Crawlers \ {c} :
            /\ todo'[d] = todo[d] /\ parents'[d] = parents[d]
            /\ got'[d] = got[d] /\ done'[d] = done[d]
            /\ request'[d] = request[d]
    BY <1>2, <1>4, <1>8 DEF CrawlTypes
  <2>8. Len(todo'[c]) <= Len(todo[c])
    BY <1>5, <2>3
  <2> QED BY <1>1, <1>8, <2>1, <2>3, <2>5, <2>6, <2>7, <2>8, OneProcess
<1> QED BY <1>1, <1>6, <1>7, <1>8 DEF Failed

LEMMA Joined ==
    ASSUME NEW S, NEW s \in Seq(S), NEW t \in Seq(S)
    PROVE  /\ s \o t \in Seq(S)
           /\ Len(s \o t) = Len(s) + Len(t)
           /\ \A i \in 1..(Len(s) + Len(t)) :
                 (s \o t)[i] = IF i <= Len(s) THEN s[i] ELSE t[i - Len(s)]
           /\ Range(s \o t) = Range(s) \cup Range(t)
<1>1. /\ s \o t \in Seq(S) /\ Len(s \o t) = Len(s) + Len(t)
      /\ \A i \in 1..(Len(s) + Len(t)) :
            (s \o t)[i] = IF i <= Len(s) THEN s[i] ELSE t[i - Len(s)]
  BY ConcatProperties
<1>2. /\ Len(s) \in Nat /\ Len(t) \in Nat
      /\ DOMAIN s = 1..Len(s) /\ DOMAIN t = 1..Len(t)
      /\ DOMAIN (s \o t) = 1..(Len(s) + Len(t))
  BY <1>1, LenProperties
<1> DEFINE u == s \o t
<1> HIDE DEF u
<1>3. /\ DOMAIN u = 1..(Len(s) + Len(t))
      /\ \A i \in 1..(Len(s) + Len(t)) :
            u[i] = IF i <= Len(s) THEN s[i] ELSE t[i - Len(s)]
  BY <1>1, <1>2 DEF u
<1>4. \A x : x \in Range(u) => x \in Range(s) \cup Range(t)
  <2>1. ASSUME NEW i \in DOMAIN u PROVE u[i] \in Range(s) \cup Range(t)
    <3>1. CASE i <= Len(s)
      <4>1. i \in DOMAIN s /\ u[i] = s[i]
        BY <1>2, <1>3, <3>1
      <4> QED BY <4>1 DEF Range
    <3>2. CASE ~ (i <= Len(s))
      <4>1. i - Len(s) \in DOMAIN t /\ u[i] = t[i - Len(s)]
        BY <1>2, <1>3, <3>2
      <4> QED BY <4>1 DEF Range
    <3> QED BY <3>1, <3>2
  <2> QED BY <2>1 DEF Range
<1>5. \A x : x \in Range(s) \cup Range(t) => x \in Range(u)
  <2>1. ASSUME NEW i \in DOMAIN s PROVE s[i] \in Range(u)
    <3>1. i \in DOMAIN u /\ u[i] = s[i]
      BY <1>2, <1>3
    <3> QED BY <3>1 DEF Range
  <2>2. ASSUME NEW i \in DOMAIN t PROVE t[i] \in Range(u)
    <3>1. i + Len(s) \in DOMAIN u /\ u[i + Len(s)] = t[i]
      BY <1>2, <1>3
    <3> QED BY <3>1 DEF Range
  <2> QED BY <2>1, <2>2 DEF Range
<1> QED BY <1>1, <1>4, <1>5 DEF u

\* A page goes on where the last one ended, and a short one is the last.
LEMMA PageIs ==
    ASSUME NEW S, NEW rows \in Seq(S), NEW k \in 0..Len(rows)
    PROVE  \E m \in k..Len(rows) :
               /\ Page(rows, k) \in Seq(S)
               /\ Len(Page(rows, k)) = m - k
               /\ \A i \in 1..(m - k) : Page(rows, k)[i] = rows[k + i]
               /\ m - k < PageSize => m = Len(rows)
<1> DEFINE n == Len(rows)
           m == IF k + PageSize < n THEN k + PageSize ELSE n
<1>1. n \in Nat /\ PageSize \in Nat \ {0}
  BY CrawlAssumption, LenProperties
<1> HIDE DEF n
<1>2. /\ m \in k..n /\ m \in 0..n /\ k + 1 \in 1..(n + 1)
      /\ m - k < PageSize => m = n
  BY <1>1 DEF n
<1>3. Page(rows, k) = SubSeq(rows, k + 1, m)
  BY DEF Page, n
<1> HIDE DEF m
<1>4. /\ SubSeq(rows, k + 1, m) \in Seq(S)
      /\ Len(SubSeq(rows, k + 1, m)) =
            IF k + 1 <= m THEN m - (k + 1) + 1 ELSE 0
      /\ \A i \in 1..(m - (k + 1) + 1) :
            SubSeq(rows, k + 1, m)[i] = rows[k + 1 + i - 1]
  BY <1>2, SubSeqProperties DEF n
<1>5. (IF k + 1 <= m THEN m - (k + 1) + 1 ELSE 0) = m - k
  BY <1>1, <1>2
<1>6. \A i \in 1..(m - k) : SubSeq(rows, k + 1, m)[i] = rows[k + i]
  <2>1. TAKE i \in 1..(m - k)
  <2>2. m - (k + 1) + 1 = m - k /\ k + 1 + i - 1 = k + i
    BY <1>1, <1>2
  <2> QED BY <1>4, <2>2
<1> QED BY <1>2, <1>3, <1>4, <1>5, <1>6 DEF n

\* A request is answered: with the next page of a collection, with all of it,
\* or with the transactions of the next loan.
LEMMA AnswerStep ==
    ASSUME CrawlInv, NEW c \in Crawlers, Answer(c)
    PROVE  CrawlInv'
<1> DEFINE e == Entity(c)
           served == Served(e, c)
<1>1. /\ request[c] = "sent"
      /\ request' = [request EXCEPT ![c] = "none"]
      /\ got' = [got EXCEPT ![c] = @ \o served]
      /\ done' = [done EXCEPT ![c] = LastPage(e, c)]
      /\ parents' = [parents EXCEPT ![c] = IF IsChild(e) THEN Tail(@) ELSE @]
      /\ UNCHANGED <<book, todo, skipped, landed, loaded, complaints>>
  BY DEF Answer, store
<1>2. CrawlTypes /\ BookOK /\ PlanOK(c) /\ ProcessOK(c)
  BY DEF CrawlInv
<1>3. /\ todo[c] # <<>> /\ ~done[c]
      /\ IsChild(e) => parents[c] # NULL
  BY <1>1, <1>2 DEF ProcessOK, RequestOK, Busy
<1>4. /\ request' \in [Crawlers -> Requests]
      /\ request'[c] = "none"
      /\ \A d \in Crawlers \ {c} : request'[d] = request[d]
  BY <1>1, <1>2 DEF CrawlTypes, Requests
<1>5. todo[c] \in Seq(Entities) /\ Len(todo[c]) \in Nat /\ e \in Entities
  BY <1>2, <1>3, HeadOrTail DEF CrawlTypes, Entity
<1>6. /\ got'[c] = got[c] \o served
      /\ done'[c] = LastPage(e, c)
      /\ parents'[c] = IF IsChild(e) THEN Tail(parents[c]) ELSE parents[c]
      /\ Entity(c)' = e
  BY <1>1, <1>2 DEF CrawlTypes, Entity
<1>7. \A d \in Crawlers \ {c} :
          /\ todo'[d] = todo[d] /\ parents'[d] = parents[d]
          /\ got'[d] = got[d] /\ done'[d] = done[d]
          /\ request'[d] = request[d]
  BY <1>1, <1>2, <1>4 DEF CrawlTypes
<1>8. PlanOK(c)' /\ RequestOK(c)' /\ Len(todo'[c]) <= Len(todo[c])
  <2>1. todo' = todo
    BY <1>1
  <2>2. PlanOK(c)'
    BY <1>2, <2>1 DEF PlanOK
  <2>3. RequestOK(c)'
    BY <1>4 DEF RequestOK
  <2> QED BY <1>5, <2>1, <2>2, <2>3
<1> HIDE DEF served
<1>9. ASSUME LastPage(e, c) \in BOOLEAN,
             \E x \in Entities : got'[c] \in Seq(Item[x]),
             parents'[c] \in Seq(1..Loans) \cup {NULL}
      PROVE  CrawlTypes'
  <2>1. got'[c] \in UNION {Seq(Item[x]) : x \in Entities}
    BY <1>9
  <2>2. got' \in [Crawlers -> UNION {Seq(Item[x]) : x \in Entities}]
    BY <1>1, <1>2, <1>6, <2>1 DEF CrawlTypes
  <2>3. done' \in [Crawlers -> BOOLEAN]
    BY <1>1, <1>2, <1>6, <1>9 DEF CrawlTypes
  <2>4. parents' \in [Crawlers -> Seq(1..Loans) \cup {NULL}]
    BY <1>1, <1>2, <1>6, <1>9 DEF CrawlTypes
  <2> QED BY <1>1, <1>2, <1>4, <2>2, <2>3, <2>4 DEF CrawlTypes
<1>10. CASE IsChild(e)
  <2>1. e = Child /\ Item[e] = TransactionItem
    BY <1>10, EntityNames DEF Item, Child
  <2>2. ChildrenOK(c)
    BY <1>2, <1>3, <1>10 DEF ProcessOK
  <2>3. /\ parents[c] # NULL /\ parents[c] # <<>> /\ AllLoans(c)
        /\ got[c] \in Seq(TransactionItem)
        /\ Range(got[c]) \subseteq AllTransactions
    BY <1>3, <1>10, <2>2 DEF ChildrenOK
  <2>4. parents[c] \in Seq(1..Loans)
    BY <1>2, <2>3 DEF CrawlTypes
  <2> DEFINE h == Head(parents[c])
  <2>5. /\ h \in 1..Loans /\ Tail(parents[c]) \in Seq(1..Loans)
        /\ Range(parents[c]) = {h} \cup Range(Tail(parents[c]))
        /\ Tail(parents[c]) = <<>> <=> Len(parents[c]) = 1
    BY <2>3, <2>4, HeadOrTail
  <2>6. served = book["loan_transactions"][h]
    BY <1>10, <2>1 DEF Served, served, Child
  <2>7. served \in Seq(TransactionItem) /\ Range(served) = Transactions(h)
    BY <1>2, <2>5, <2>6 DEF BookOK, TransactionsOK, Transactions
  <2> HIDE DEF h, e
  <2>8. /\ got'[c] \in Seq(TransactionItem)
        /\ Range(got'[c]) = Range(got[c]) \cup Transactions(h)
    BY <1>6, <2>3, <2>7, Joined
  <2>9. Tail(parents[c]) # NULL
    <3>1. Seq(1..Loans) \subseteq Seq(Int)
      BY BookAssumption
    <3> QED BY <2>5, <3>1, CrawlAssumption
  <2>10. parents'[c] = Tail(parents[c]) /\ done'[c] = (Len(parents[c]) = 1)
    BY <1>6, <1>10 DEF LastPage
  <2>11. CrawlTypes'
    <3>1. LastPage(e, c) \in BOOLEAN
      BY <1>10 DEF LastPage
    <3> QED BY <1>5, <1>9, <2>1, <2>5, <2>8, <2>10, <3>1
  <2>12. AllLoans(c)'
    <3>1. \A l \in 1..Loans : Transactions(l)' = Transactions(l)
      BY <1>1 DEF Transactions
    <3>2. ASSUME NEW l \in 1..Loans
          PROVE  \/ l \in Range(parents'[c]) \/ l \in skipped'
                 \/ Transactions(l) \subseteq Range(got'[c])
      BY <1>1, <2>3, <2>5, <2>8, <2>10 DEF AllLoans
    <3> QED BY <3>1, <3>2 DEF AllLoans
  <2>13. ChildrenOK(c)'
    <3>1. AllTransactions' = AllTransactions
      BY <1>1 DEF AllTransactions
    <3>2. Transactions(h) \subseteq AllTransactions
      BY <2>5 DEF Transactions, AllTransactions
    <3>3. done'[c] <=> parents'[c] = <<>>
      BY <2>5, <2>10
    <3> QED BY <2>3, <2>8, <2>9, <2>10, <2>12, <3>1, <3>2, <3>3 DEF ChildrenOK
  <2>14. ProcessOK(c)'
    BY <1>6, <1>8, <1>10, <2>13 DEF ProcessOK, IsChild
  <2> QED BY <1>1, <1>7, <1>8, <2>11, <2>12, <2>14, OneProcess
<1>11. CASE ~IsChild(e)
  <2>1. e \in Collections
    BY <1>5, <1>11, EntityNames
  <2>2. CollectionOK(c)
    BY <1>2, <1>3, <1>11 DEF ProcessOK
  <2> DEFINE rows == book[e]
             k == Len(got[c])
  <2>3. /\ parents[c] = NULL /\ k <= Len(rows)
        /\ \A i \in 1..k : got[c][i] = rows[i]
        /\ ~Registry[e].paged => got[c] = <<>>
    BY <1>3, <2>2 DEF CollectionOK
  <2>4. rows \in Seq(Item[e]) /\ Len(rows) \in Nat
    BY <1>2, <2>1, ItemsOfCollection, LenProperties
  <2>5. got[c] \in Seq(Item[e]) /\ k \in Nat
    <3>1. PICK x \in Entities : got[c] \in Seq(Item[x])
      BY <1>2 DEF CrawlTypes
    <3>2. k \in Nat /\ DOMAIN got[c] = 1..k /\ got[c] = [i \in 1..k |-> got[c][i]]
      BY <3>1, LenProperties
    <3>3. \A i \in 1..k : i \in 1..Len(rows)
      BY <2>3, <2>4, <3>2
    <3>4. \A i \in 1..k : got[c][i] \in Item[e]
      BY <2>3, <2>4, <3>3, ElementOfSeq
    <3> HIDE DEF k
    <3>5. got[c] \in [1..k -> Item[e]]
      BY <3>2, <3>4
    <3> QED BY <3>2, <3>5, SeqDef
  <2> HIDE DEF rows, k
  <2>6. PICK m \in k..Len(rows) :
            /\ served \in Seq(Item[e]) /\ Len(served) = m - k
            /\ \A i \in 1..(m - k) : served[i] = rows[k + i]
            /\ LastPage(e, c) => m = Len(rows)
            /\ ~Registry[e].paged => LastPage(e, c)
    <3>1. CASE Registry[e].paged
      <4>1. served = Page(rows, k)
        BY <1>11, <3>1 DEF Served, served, rows, k
      <4>2. k \in 0..Len(rows)
        BY <2>3, <2>4, <2>5
      <4>3. PICK m \in k..Len(rows) :
                /\ Page(rows, k) \in Seq(Item[e])
                /\ Len(Page(rows, k)) = m - k
                /\ \A i \in 1..(m - k) : Page(rows, k)[i] = rows[k + i]
                /\ m - k < PageSize => m = Len(rows)
        BY <2>4, <4>2, PageIs
      <4>4. LastPage(e, c) => \/ m - k < PageSize
                              \/ k + (m - k) >= Len(rows)
                              \/ k + PageSize >= MaxPages * PageSize
        BY <1>11, <3>1, <4>1, <4>3 DEF LastPage, served, rows, k
      <4> DEFINE most == MaxPages * PageSize
      <4>5. Len(rows) <= most
        BY <1>2, <1>5, <3>1, PagedFit DEF rows
      <4> HIDE DEF most
      <4>6. PageSize \in Nat \ {0} /\ most \in Nat
        <5>1. \A a, b \in Nat : a * b \in Nat
          OBVIOUS
        <5> QED BY <5>1, CrawlAssumption DEF most
      <4>7. LastPage(e, c) => m = Len(rows)
        <5>1. m \in Nat /\ k \in Nat /\ m <= Len(rows)
          BY <2>4, <2>5, <4>3
        <5>2. m - k < PageSize \/ m >= k + PageSize
          BY <4>6, <5>1
        <5>3. LastPage(e, c) => \/ m - k < PageSize
                                \/ k + (m - k) >= Len(rows)
                                \/ k + PageSize >= most
          BY <4>4 DEF most
        <5> QED BY <2>4, <4>3, <4>5, <4>6, <5>1, <5>2, <5>3
      <4> QED BY <3>1, <4>1, <4>3, <4>7
    <3>2. CASE ~Registry[e].paged
      <4>1. served = rows /\ LastPage(e, c)
        BY <1>11, <3>2 DEF Served, LastPage, served, rows
      <4>2. k = 0
        BY <2>3, <3>2, EmptySeq DEF k
      <4>3. Len(rows) \in k..Len(rows) /\ Len(served) = Len(rows) - k
        BY <2>4, <4>1, <4>2
      <4>4. \A i \in 1..(Len(rows) - k) : served[i] = rows[k + i]
        BY <2>4, <4>1, <4>2
      <4> QED BY <2>4, <4>1, <4>3, <4>4
    <3> QED BY <3>1, <3>2
  <2> HIDE DEF e
  <2>7. /\ got'[c] \in Seq(Item[e]) /\ Len(got'[c]) = k + (m - k)
        /\ \A i \in 1..(k + (m - k)) :
              got'[c][i] = IF i <= k THEN got[c][i] ELSE served[i - k]
    <3>1. /\ got[c] \o served \in Seq(Item[e])
          /\ Len(got[c] \o served) = k + Len(served)
          /\ \A i \in 1..(k + Len(served)) :
                (got[c] \o served)[i] =
                    IF i <= k THEN got[c][i] ELSE served[i - k]
      BY <2>5, <2>6, Joined DEF k
    <3>2. Len(served) = m - k /\ got'[c] = got[c] \o served
      BY <1>6, <2>6
    <3> QED BY <3>1, <3>2
  <2>8. k + (m - k) = m /\ m \in Nat /\ m <= Len(rows)
    BY <2>4, <2>5, <2>6
  <2>9. ASSUME NEW i \in 1..m PROVE got'[c][i] = rows[i]
    <3>1. CASE i <= k
      BY <2>3, <2>5, <2>7, <2>8, <3>1
    <3>2. CASE ~ (i <= k)
      <4>1. i - k \in 1..(m - k) /\ k + (i - k) = i
        BY <2>5, <2>8, <3>2
      <4>2. got'[c][i] = served[i - k]
        BY <2>7, <2>8, <3>2
      <4> QED BY <2>6, <4>1, <4>2
    <3> QED BY <3>1, <3>2
  <2>10. parents'[c] = NULL
    BY <1>6, <1>11, <2>3
  <2>11. LastPage(e, c) \in BOOLEAN
    BY <1>11 DEF LastPage
  <2>12. CrawlTypes'
    BY <1>5, <1>9, <2>7, <2>10, <2>11
  <2>13. CollectionOK(c)'
    <3>1. book'[e] = rows /\ Len(got'[c]) = m
      BY <1>1, <2>7, <2>8 DEF rows
    <3>2. done'[c] => Len(got'[c]) = Len(rows)
      BY <1>6, <2>6, <3>1
    <3>3. ~Registry[e].paged => done'[c]
      BY <1>6, <2>6
    <3> QED BY <1>6, <2>8, <2>9, <2>10, <3>1, <3>2, <3>3 DEF CollectionOK
  <2>14. ProcessOK(c)'
    BY <1>6, <1>8, <1>11, <2>13 DEF ProcessOK, IsChild
  <2> QED BY <1>1, <1>7, <1>8, <2>10, <2>12, <2>14, OneProcess
<1> QED BY <1>10, <1>11

\* What a crawl comes to when it is landed.
LEMMA LandedIs ==
    ASSUME CrawlInv, NEW c \in Crawlers, Land(c), NEW e, e = Entity(c)
    PROVE  /\ e \in Entities /\ complaints' = {}
           /\ loaded' = loaded \cup {e}
           /\ DOMAIN landed' = Entities
           /\ \A x \in Entities \ {e} : landed'[x] = landed[x]
           /\ e # Child => landed'[e] = Rows(e, Things(e))
           /\ e = Child =>
                 /\ ChildrenOK(c) /\ parents[c] = <<>>
                 /\ landed'[e] = landed[e] \cup Rows(Child, Range(got[c]))
<1> DEFINE batch == Batch(c)
           key == Registry[e].key
           keys == {r[key] : r \in batch}
           bad == FailedChecks(e, SetToSeq(batch))
<1>1. /\ todo[c] # <<>> /\ done[c]
      /\ complaints' = complaints \cup Rejections(c)
                           \cup {<<e, x.kind>> : x \in bad}
      /\ ~TooManyRejects(c) /\ Blocking(bad) = {} =>
             /\ landed' = [landed EXCEPT ![e] =
                               {r \in @ : r[key] \notin keys} \cup batch]
             /\ loaded' = loaded \cup {e}
  BY DEF Land
<1>2. /\ BookOK /\ CrawlTypes /\ StoreOK
      /\ IF IsChild(e) THEN ChildrenOK(c) ELSE CollectionOK(c)
  BY <1>1 DEF CrawlInv, ProcessOK
<1>3. e \in Entities
  BY <1>1, <1>2, HeadOrTail DEF CrawlTypes, Entity
<1>4. got[c] \in Seq(Item[e]) /\ Range(got[c]) \subseteq Things(e)
  <2>1. CASE e = Child
    <3>1. Item[e] = TransactionItem /\ Things(e) = AllTransactions
      BY <2>1, EntityNames DEF Item, Child, Things
    <3> QED BY <1>2, <2>1, <3>1, EntityNames DEF ChildrenOK
  <2>2. CASE e # Child
    <3>1. CollectionOK(c) /\ e \in Collections
      BY <1>2, <1>3, <2>2, EntityNames
    <3>2. book[e] \in Seq(Item[e])
      BY <1>2, <3>1, ItemsOfCollection
    <3>3. /\ Len(got[c]) = Len(book[e])
          /\ \A i \in 1..Len(got[c]) : got[c][i] = book[e][i]
      BY <1>1, <3>1 DEF CollectionOK
    <3>4. PICK x \in Entities : got[c] \in Seq(Item[x])
      BY <1>2 DEF CrawlTypes
    <3>5. got[c] = book[e]
      BY <3>2, <3>3, <3>4, SeqEqual
    <3> QED BY <2>2, <3>2, <3>5, EntityNames DEF Things
  <2> QED BY <2>1, <2>2
<1>5. e # Child => got[c] = book[e]
  <2>1. SUFFICES ASSUME e # Child PROVE got[c] = book[e]
    OBVIOUS
  <2>2. CollectionOK(c) /\ e \in Collections
    BY <1>2, <1>3, <2>1, EntityNames
  <2>3. book[e] \in Seq(Item[e])
    BY <1>2, <2>2, ItemsOfCollection
  <2>4. /\ Len(got[c]) = Len(book[e])
        /\ \A i \in 1..Len(got[c]) : got[c][i] = book[e][i]
    BY <1>1, <2>2 DEF CollectionOK
  <2> QED BY <1>4, <2>3, <2>4, SeqEqual
<1>6. Things(e) \subseteq Item[e] /\ Distinguished(Things(e))
  BY <1>2, <1>3, ThingsAreItems
<1>7. Distinguished(Range(got[c])) /\ Range(got[c]) \subseteq Item[e]
  BY <1>4, <1>6 DEF Distinguished
<1>8. /\ batch = Rows(e, Range(got[c])) /\ Rejections(c) = {}
      /\ ~TooManyRejects(c) /\ IsFiniteSet(batch)
  BY <1>3, <1>4, <1>7, BatchIs
<1>9. e = "offices" => Range(got[c]) # {}
  <2>1. SUFFICES ASSUME e = "offices" PROVE Range(got[c]) # {}
    OBVIOUS
  <2>2. got[c] = book["offices"]
    BY <1>5, <2>1 DEF Child
  <2>3. book["offices"] \in [1..Offices -> OfficeItem] /\ 1 \in 1..Offices
    BY <1>2, BookAssumption DEF BookOK, Holds
  <2> QED BY <2>2, <2>3 DEF Range
<1> HIDE DEF batch
<1>10. bad = {}
  BY <1>3, <1>7, <1>8, <1>9, ChecksPass
<1> HIDE DEF bad
<1>11. /\ complaints' = {} /\ loaded' = loaded \cup {e}
       /\ landed' = [landed EXCEPT ![e] =
                         {r \in @ : r[key] \notin keys} \cup batch]
  <2>1. Blocking(bad) = {}
    BY <1>10 DEF Blocking
  <2>2. complaints = {}
    BY <1>2 DEF StoreOK
  <2> QED BY <1>1, <1>8, <1>10, <2>1, <2>2
<1>12. /\ DOMAIN landed' = Entities
       /\ \A x \in Entities \ {e} : landed'[x] = landed[x]
       /\ landed'[e] = {r \in landed[e] : r[key] \notin keys} \cup batch
  BY <1>2, <1>3, <1>11 DEF CrawlTypes
<1>13. ASSUME NEW r \in landed[e], r[key] \in keys,
              landed[e] \subseteq Rows(e, Things(e))
       PROVE  r \in batch
  <2>1. PICK x \in Things(e) : r = Map(e, x)
    BY <1>13 DEF Rows
  <2>2. PICK b \in batch : r[key] = b[key]
    BY <1>13
  <2>3. PICK y \in Range(got[c]) : b = Map(e, y)
    BY <1>8 DEF Rows
  <2>4. x \in Item[e] /\ y \in Item[e] /\ y \in Things(e)
    BY <1>4, <1>6
  <2>5. x.id = y.id
    BY <1>3, <2>1, <2>2, <2>3, <2>4, MapKeepsKey
  <2>6. x = y
    BY <1>6, <2>4, <2>5 DEF Distinguished
  <2> QED BY <2>1, <2>3, <2>6
<1>14. CASE e # Child
  <2>1. batch = Rows(e, Things(e))
    BY <1>5, <1>8, <1>14, EntityNames DEF Things
  <2>2. landed[e] \subseteq batch
    BY <1>2, <1>3, <1>14, <2>1 DEF StoreOK
  <2>3. landed'[e] = Rows(e, Things(e))
    BY <1>12, <2>1, <2>2
  <2> QED BY <1>3, <1>11, <1>12, <1>14, <2>3
<1>15. CASE e = Child
  <2>1. Things(e) = AllTransactions /\ ChildrenOK(c)
    BY <1>2, <1>15, EntityNames DEF Things
  <2>2. landed[e] \subseteq Rows(e, Things(e))
    BY <1>2, <1>15, <2>1 DEF StoreOK
  <2>3. landed'[e] = landed[e] \cup batch
    BY <1>12, <1>13, <2>2
  <2>4. parents[c] = <<>>
    BY <1>1, <2>1 DEF ChildrenOK
  <2> QED BY <1>3, <1>8, <1>11, <1>12, <1>15, <2>1, <2>3, <2>4
<1> QED BY <1>14, <1>15

\* A batch is landed.
LEMMA LandStep ==
    ASSUME CrawlInv, NEW c \in Crawlers, Land(c)
    PROVE  CrawlInv'
<1> DEFINE e == Entity(c)
<1>1. /\ todo[c] # <<>> /\ done[c]
      /\ todo' = [todo EXCEPT ![c] = Tail(@)]
      /\ got' = [got EXCEPT ![c] = <<>>]
      /\ done' = [done EXCEPT ![c] = FALSE]
      /\ parents' = [parents EXCEPT ![c] = NULL]
      /\ book' = book /\ request' = request /\ skipped' = skipped
  BY DEF Land, server
<1>2. /\ BookOK /\ CrawlTypes /\ StoreOK /\ PastChildren /\ OrderOK
      /\ PlanOK(c) /\ ProcessOK(c)
  BY DEF CrawlInv
<1>3. /\ e \in Entities /\ complaints' = {}
      /\ loaded' = loaded \cup {e}
      /\ DOMAIN landed' = Entities
      /\ \A x \in Entities \ {e} : landed'[x] = landed[x]
      /\ e # Child => landed'[e] = Rows(e, Things(e))
      /\ e = Child =>
            /\ ChildrenOK(c) /\ parents[c] = <<>>
            /\ landed'[e] = landed[e] \cup Rows(Child, Range(got[c]))
  BY LandedIs
<1>4. todo[c] \in Seq(Entities) /\ todo'[c] = Tail(todo[c])
  BY <1>1, <1>2 DEF CrawlTypes
<1>5. /\ PlanOK(c)' /\ todo'[c] \in Seq(Entities)
      /\ Len(todo'[c]) = Len(todo[c]) - 1 /\ Len(todo[c]) \in Nat \ {0}
  BY <1>1, <1>2, <1>4, PlanGoesOn
<1> DEFINE at == Len(Plan[c]) - Len(todo[c]) + 1
<1>6. at \in DOMAIN Plan[c] /\ Plan[c][at] = e
  BY <1>1, <1>2, <1>4, PlanGoesOn
<1> HIDE DEF e
<1>7. /\ got'[c] = <<>> /\ done'[c] = FALSE /\ parents'[c] = NULL
      /\ request[c] = "none"
  BY <1>1, <1>2 DEF CrawlTypes, ProcessOK, RequestOK, Busy
<1>8. \A d \in Crawlers \ {c} :
          /\ todo'[d] = todo[d] /\ parents'[d] = parents[d]
          /\ got'[d] = got[d] /\ done'[d] = done[d]
          /\ request'[d] = request[d]
  BY <1>1, <1>2 DEF CrawlTypes
<1>9. BookOK'
  BY <1>1, <1>2 DEF BookOK
<1>10. CrawlTypes'
  <2>1. <<>> \in UNION {Seq(Item[x]) : x \in Entities}
    BY EntityNames
  <2>2. todo' \in [Crawlers -> Seq(Entities)]
    BY <1>1, <1>2, <1>4, <1>5 DEF CrawlTypes
  <2> QED BY <1>1, <1>2, <1>3, <2>1, <2>2 DEF CrawlTypes
<1>11. ASSUME NEW d \in Crawlers
       PROVE  /\ ProcessOK(d)' /\ PlanOK(d)'
              /\ d # c /\ AllLoans(d) => AllLoans(d)'
  <2>1. CASE d = c
    BY <1>1, <1>2, <1>5, <1>7, <2>1, NewCrawl
  <2>2. CASE d # c
    <3>1. ProcessOK(d)' /\ (AllLoans(d) => AllLoans(d)')
      BY <1>1, <1>8, <2>2, ProcessKept DEF CrawlInv
    <3>2. todo'[d] = todo[d] /\ PlanOK(d)
      BY <1>8, <2>2 DEF CrawlInv
    <3>3. PlanOK(d)'
      BY <3>2 DEF PlanOK
    <3> QED BY <3>1, <3>3
  <2> QED BY <2>1, <2>2
<1>12. /\ \A x : Things(x)' = Things(x)
       /\ AllTransactions' = AllTransactions
       /\ Published(Child)' = Published(Child)
  BY <1>1 DEF Things, AllTransactions, Published
<1>13. ChildrenLanded => ChildrenLanded'
  <2>1. landed[Child] \subseteq landed'[Child]
    BY <1>3, EntityNames
  <2> QED BY <1>12, <2>1 DEF ChildrenLanded, Rows
\* With the transactions of all loans at hand all is landed.
<1>14. e = Child /\ AllLoans(c) => ChildrenLanded'
  <2>1. SUFFICES ASSUME e = Child, AllLoans(c),
                        NEW t \in Published(Child)
                 PROVE  t \in Range(got[c])
    BY <1>3, <1>12 DEF ChildrenLanded, Rows
  <2>2. t \in AllTransactions /\ t.loanId \notin skipped
    BY EntityNames DEF Published
  <2>3. PICK l \in 1..Loans : t \in Transactions(l)
    BY <2>2 DEF AllTransactions, Transactions
  <2>4. t.loanId = l
    BY <1>2, <2>3 DEF BookOK, TransactionsOK, Transactions, Range
  <2>5. Range(parents[c]) = {}
    BY <1>3, <2>1 DEF Range
  <2> QED BY <2>1, <2>2, <2>3, <2>4, <2>5 DEF AllLoans
<1>15. landed'[Child] # {} => ChildrenLanded'
  <2>1. CASE e # Child
    BY <1>2, <1>3, <1>13, <2>1, EntityNames DEF StoreOK
  <2>2. CASE e = Child /\ AllLoans(c)
    BY <1>14, <2>2
  <2>3. CASE e = Child /\ ~AllLoans(c)
    <3>1. parents[c] # NULL
      BY <1>2, <1>3, <2>3, CrawlAssumption DEF ChildrenOK, CrawlTypes
    <3>2. got[c] = <<>>
      BY <1>3, <2>3, <3>1 DEF ChildrenOK
    <3>3. landed'[Child] = landed[Child]
      <4>1. Range(got[c]) = {}
        BY <3>2 DEF Range
      <4>2. Rows(Child, Range(got[c])) = {}
        BY <4>1 DEF Rows
      <4> QED BY <1>3, <2>3, <4>2
    <3> QED BY <1>2, <1>13, <3>3 DEF StoreOK
  <2> QED BY <2>1, <2>2, <2>3
<1>16. StoreOK'
  <2>1. \A x \in Entities \ loaded' : landed'[x] = {}
    BY <1>2, <1>3 DEF StoreOK
  <2>2. \A x \in loaded' \ {Child} : landed'[x] = Rows(x, Things(x)')
    BY <1>2, <1>3, <1>12 DEF StoreOK, CrawlTypes
  <2>3. landed'[Child] \subseteq Rows(Child, AllTransactions')
    <3>1. CASE e = Child
      <4>1. Range(got[c]) \subseteq AllTransactions
        BY <1>3, <3>1 DEF ChildrenOK
      <4> QED BY <1>2, <1>3, <1>12, <3>1, <4>1 DEF StoreOK, Rows
    <3>2. CASE e # Child
      BY <1>2, <1>3, <1>12, <3>2, EntityNames DEF StoreOK
    <3> QED BY <3>1, <3>2
  <2> QED BY <1>3, <1>15, <2>1, <2>2, <2>3 DEF StoreOK, Rows
<1>17. \A d \in Crawlers : Plan[d] \in Seq(Entities) /\ Len(Plan[d]) \in Nat
  BY CrawlAssumption, LenProperties
<1>18. PastChildren'
  <2>1. CASE e = Child
    <3>1. Len(todo'[c]) <= Len(Plan[c]) - at
      BY <1>5, <1>17
    <3> QED BY <1>6, <2>1, <3>1 DEF PastChildren
  <2>2. CASE e # Child
    <3>1. SUFFICES ASSUME Child \in loaded
                   PROVE  \E d \in Crawlers : \E j \in DOMAIN Plan[d] :
                              Plan[d][j] = Child
                              /\ Len(todo'[d]) <= Len(Plan[d]) - j
      BY <1>3, <2>2 DEF PastChildren
    <3>2. PICK d \in Crawlers : \E j \in DOMAIN Plan[d] :
              Plan[d][j] = Child /\ Len(todo[d]) <= Len(Plan[d]) - j
      BY <1>2, <3>1 DEF PastChildren
    <3>3. PICK j \in DOMAIN Plan[d] :
              Plan[d][j] = Child /\ Len(todo[d]) <= Len(Plan[d]) - j
      BY <3>2
    <3>4. j \in Nat /\ Len(Plan[d]) \in Nat
      BY <1>17, LenProperties
    <3>5. Len(todo'[d]) <= Len(Plan[d]) - j
      <4>1. CASE d = c
        BY <1>5, <3>3, <3>4, <4>1
      <4>2. CASE d # c
        BY <1>8, <3>3, <4>2
      <4> QED BY <4>1, <4>2
    <3> QED BY <3>3, <3>5
  <2> QED BY <2>1, <2>2
<1>19. OrderOK'
  <2>1. SUFFICES ASSUME LoansFirst, "loans" \in loaded'
                 PROVE  /\ Child \in loaded' => ChildrenLanded'
                        /\ \A d \in Crawlers :
                              todo'[d] # <<>> /\ IsChild(Entity(d)')
                                  /\ parents'[d] # NULL => AllLoans(d)'
    BY DEF OrderOK, LoansFirst, IsChild
  <2>2. CASE "loans" \in loaded
    <3>1. Child \in loaded' => ChildrenLanded'
      <4>1. CASE e = Child
        <5>1. parents[c] # NULL
          <6>1. <<>> \in Seq(Int)
            OBVIOUS
          <6> QED BY <1>3, <4>1, <6>1, CrawlAssumption
        <5>2. AllLoans(c)
          BY <1>1, <1>2, <2>1, <2>2, <4>1, <5>1, EntityNames DEF OrderOK, e
        <5> QED BY <1>14, <4>1, <5>2
      <4>2. CASE e # Child
        BY <1>2, <1>3, <1>13, <2>1, <2>2, <4>2 DEF OrderOK
      <4> QED BY <4>1, <4>2
    <3>2. ASSUME NEW d \in Crawlers, todo'[d] # <<>>, IsChild(Entity(d)'),
                 parents'[d] # NULL
          PROVE  AllLoans(d)'
      <4>1. d # c
        BY <1>7, <3>2
      <4>2. AllLoans(d)
        BY <1>2, <1>8, <2>1, <2>2, <3>2, <4>1 DEF OrderOK, Entity
      <4> QED BY <1>11, <4>1, <4>2
    <3> QED BY <3>1, <3>2
  \* The loans are landed now, and nothing was asked for before them.
  <2>3. CASE "loans" \notin loaded
    <3>1. e = "loans" /\ e # Child
      BY <1>3, <2>1, <2>3 DEF Child
    <3>2. Child \notin loaded
      <4>1. SUFFICES ASSUME Child \in loaded PROVE FALSE
        OBVIOUS
      <4>2. PICK d \in Crawlers : \E j \in DOMAIN Plan[d] :
                Plan[d][j] = Child /\ Len(todo[d]) <= Len(Plan[d]) - j
        BY <1>2, <4>1 DEF PastChildren
      <4>3. PICK j \in DOMAIN Plan[d] :
                Plan[d][j] = Child /\ Len(todo[d]) <= Len(Plan[d]) - j
        BY <4>2
      <4>4. c = d /\ at < j
        BY <1>6, <2>1, <3>1, <4>3 DEF LoansFirst, Child
      <4>5. j \in Nat /\ Len(Plan[c]) \in Nat
        BY <1>17, <4>4, LenProperties
      <4>6. \A a, b, k \in Nat : b <= a - k => ~ (a - b + 1 < k)
        OBVIOUS
      <4> QED BY <1>5, <4>3, <4>4, <4>5, <4>6
    <3>3. ASSUME NEW d \in Crawlers, todo'[d] # <<>>, IsChild(Entity(d)'),
                 parents'[d] # NULL
          PROVE  FALSE
      <4>1. d # c /\ todo'[d] = todo[d]
        BY <1>7, <1>8, <3>3
      <4>2. todo[d] \in Seq(Entities) /\ PlanOK(d) /\ todo[d] # <<>>
        BY <3>3, <4>1 DEF CrawlInv, CrawlTypes
      <4>3. Head(todo[d]) = todo[d][1] /\ Len(todo[d]) \in Nat \ {0}
        BY <4>2, HeadOrTail
      <4>4. todo[d][1] = Child
        BY <3>3, <4>1, <4>3, EntityNames DEF Entity
      <4> DEFINE k == Len(Plan[d]) - Len(todo[d]) + 1
      <4>5. Plan[d][k] = Child /\ Len(todo[d]) <= Len(Plan[d])
        <5>1. 1 \in 1..Len(todo[d])
          BY <4>3
        <5>2. /\ Len(todo[d]) <= Len(Plan[d])
              /\ todo[d][1] = Plan[d][Len(Plan[d]) - Len(todo[d]) + 1]
          BY <4>2, <5>1 DEF PlanOK
        <5> QED BY <4>4, <5>2
      <4>6. k \in DOMAIN Plan[d]
        <5>1. \A a, b \in Nat : b # 0 /\ b <= a => a - b + 1 \in 1..a
          OBVIOUS
        <5> QED BY <1>17, <4>3, <4>5, <5>1, LenProperties
      <4> QED BY <1>6, <2>1, <3>1, <4>1, <4>5, <4>6 DEF LoansFirst, Child
    <3> QED BY <1>3, <3>1, <3>2, <3>3
  <2> QED BY <2>2, <2>3
<1> QED BY <1>9, <1>10, <1>11, <1>16, <1>18, <1>19 DEF CrawlInv

-----------------------------------------------------------------------------
\* The crawls of any number of processes, whatever they were asked to ingest,
\* and whatever fails on the way.
THEOREM CrawlInvariant == Spec => []CrawlInv
<1>1. CrawlInv /\ [Next]_vars => CrawlInv'
  <2> SUFFICES ASSUME CrawlInv, [Next]_vars PROVE CrawlInv'
    OBVIOUS
  <2>1. CASE Arm
    BY <2>1, RequestStep
  <2>2. ASSUME NEW c \in Crawlers, Step(c) PROVE CrawlInv'
    <3>1. CASE ListParents(c)
      BY <3>1, ListParentsStep
    <3>2. CASE Send(c) \/ Choose(c) \/ Read(c)
      BY <3>2, RequestStep
    <3>3. CASE Write(c) \/ Transient(c)
      BY <3>3, FailedStep
    <3>4. CASE Answer(c)
      BY <3>4, AnswerStep
    <3>5. CASE Land(c)
      BY <3>5, LandStep
    <3> QED BY <2>2, <3>1, <3>2, <3>3, <3>4, <3>5 DEF Step
  <2>3. CASE UNCHANGED vars
    <3>1. UNCHANGED <<book, todo, parents, got, done, skipped, landed, loaded,
                      complaints>> /\ request' = request
      BY <2>3 DEF vars, server, crawl, store
    <3>2. /\ request \in [Crawlers -> Requests]
          /\ \A d \in Crawlers : request[d] # "none" =>
                 Busy(d) /\ (IsChild(Entity(d)) => parents[d] # NULL)
      BY DEF CrawlInv, CrawlTypes, ProcessOK, RequestOK
    <3> QED BY <3>1, <3>2, OnlyRequests
  <2> QED BY <2>1, <2>2, <2>3 DEF Next
<1> QED BY <1>1, InitCrawl, PTL DEF Spec

\* What is landed is the book, whatever fails, in whatever order processes ask
\* for entities.
THEOREM BookIsLanded == Spec => []LandedIsTheBook
<1>1. CrawlInv => LandedIsTheBook
  <2> SUFFICES ASSUME CrawlInv, NEW e \in loaded
               PROVE  LET rows == {Map(e, r) : r \in Published(e)}
                      IN  IF IsChild(e)
                            THEN /\ landed[e] \subseteq
                                        {Map(e, r) : r \in AllTransactions}
                                 /\ landed[e] # {}
                                      \/ (LoansFirst /\ "loans" \in loaded)
                                        => rows \subseteq landed[e]
                            ELSE landed[e] = rows
    BY DEF LandedIsTheBook
  <2>1. e \in Entities /\ StoreOK /\ OrderOK
    BY DEF CrawlInv, CrawlTypes
  <2>2. CASE IsChild(e)
    BY <2>1, <2>2, EntityNames DEF StoreOK, OrderOK, ChildrenLanded, Rows
  <2>3. CASE ~IsChild(e)
    <3>1. landed[e] = Rows(e, Things(e))
      BY <2>1, <2>3, EntityNames DEF StoreOK
    <3>2. Things(e) = Published(e)
      BY <2>3 DEF Things, Published
    <3> QED BY <2>3, <3>1, <3>2 DEF Rows
  <2> QED BY <2>2, <2>3
<1> QED BY <1>1, CrawlInvariant, PTL

\* How many there are in a collection, and that all of them are landed with it.
Size ==
    [offices |-> Offices, staff |-> Officers, loan_products |-> Products,
     savings_products |-> SavingsProducts, clients |-> Clients,
     loans |-> Loans, savings_accounts |-> Accounts]

LEMMA RowOfEach ==
    ASSUME CrawlInv, NEW e \in Collections, e \in loaded,
           NEW i \in 1..Size[e]
    PROVE  \E p \in landed[e] : p[Registry[e].key] = i
<1>1. Holds(book[e], Item[e], Size[e])
  BY DEF CrawlInv, BookOK, Collections, Item, Size
<1>2. book[e][i] \in Item[e] /\ book[e][i].id = i /\ book[e][i] \in Range(book[e])
  BY <1>1 DEF Holds, Range
<1>3. e \in Entities /\ e # Child
  BY EntityNames
<1>4. landed[e] = Rows(e, Range(book[e]))
  BY <1>3, EntityNames DEF CrawlInv, StoreOK, Things
<1>5. Map(e, book[e][i]) \in landed[e]
  BY <1>2, <1>4 DEF Rows
<1> QED BY <1>2, <1>3, <1>5, MapKeepsKey

\* What a row refers to is in the book.
LEMMA RowsRefer ==
    ASSUME NEW e \in DOMAIN References, NEW x \in Item[e],
           NEW f \in References[e]
    PROVE  f[2] \in Collections /\ Map(e, x)[f[1]] \in 1..Size[f[2]]
<1>1. CASE e = "staff"
  BY <1>1 DEF References, Collections, Item, StaffItem, Map, MapStaff, Size
<1>2. CASE e = "clients"
  BY <1>2 DEF References, Collections, Item, ClientItem, Map, MapClient, Size
<1>3. CASE e = "loans"
  BY <1>3 DEF References, Collections, Item, LoanItem, Map, MapLoan, Size
<1>4. CASE e = "savings_accounts"
  BY <1>4 DEF References, Collections, Item, SavingsItem, Map,
              MapSavingsAccount, Size
<1>5. CASE e = "loan_transactions"
  BY <1>5 DEF References, Collections, Item, TransactionItem, Map,
              MapLoanTransaction, Size
<1> QED BY <1>1, <1>2, <1>3, <1>4, <1>5 DEF References

\* A loan or a savings account is at the office of its client.
LEMMA RowsAtOffice ==
    ASSUME CrawlInv, NEW e \in loaded \cap {"loans", "savings_accounts"},
           "clients" \in loaded, NEW r \in landed[e],
           NEW p \in landed["clients"], p.client_id = r.client_id
    PROVE  p.office_id = r.office_id
<1>1. /\ e \in Collections /\ "clients" \in Collections
      /\ BookOK /\ StoreOK
  BY DEF CrawlInv, Collections
<1>2. /\ landed[e] = Rows(e, Range(book[e]))
      /\ landed["clients"] = Rows("clients", Range(book["clients"]))
  BY <1>1, EntityNames DEF StoreOK, Things
<1>3. PICK x \in Range(book[e]) : r = Map(e, x)
  BY <1>2 DEF Rows
<1>4. PICK y \in Range(book["clients"]) : p = Map("clients", y)
  BY <1>2 DEF Rows
<1>5. r.client_id = x.clientId /\ r.office_id = x.officeId
  <2>1. CASE e = "loans"
    BY <1>3, <2>1 DEF Map, MapLoan
  <2>2. CASE e = "savings_accounts"
    BY <1>3, <2>2 DEF Map, MapSavingsAccount
  <2> QED BY <2>1, <2>2
<1>6. p.client_id = y.id /\ p.office_id = y.officeId
  BY <1>4 DEF Map, MapClient
<1>7. y = book["clients"][y.id]
  <2>1. Holds(book["clients"], ClientItem, Clients)
    BY <1>1 DEF BookOK
  <2> QED BY <2>1 DEF Holds, Range
<1>8. x.officeId = book["clients"][x.clientId].officeId
  <2>1. AtOfficeOfClient(book[e], book["clients"])
    BY <1>1 DEF BookOK
  <2> QED BY <2>1 DEF AtOfficeOfClient, Range
<1> QED BY <1>5, <1>6, <1>7, <1>8

\* The generated book passes every check, every reference resolves, and an
\* account is at the office of its client.
THEOREM DemoIsClean == Spec => []DemoBookIsClean
<1>1. CrawlInv => DemoBookIsClean
  <2> SUFFICES ASSUME CrawlInv PROVE DemoBookIsClean
    OBVIOUS
  <2>1. complaints = {}
    BY DEF CrawlInv, StoreOK
  <2>2. ASSUME NEW e \in loaded \cap {"loans", "savings_accounts"},
               "clients" \in loaded, NEW r \in landed[e],
               NEW p \in landed["clients"], p.client_id = r.client_id
        PROVE  p.office_id = r.office_id
    BY <2>2, RowsAtOffice
  <2>3. ASSUME NEW e \in loaded \cap DOMAIN References,
               NEW f \in References[e], f[2] \in loaded,
               NEW r \in landed[e]
        PROVE  \E p \in landed[f[2]] : p[Registry[f[2]].key] = r[f[1]]
    <3>1. e \in Entities /\ BookOK /\ StoreOK
      BY DEF CrawlInv, CrawlTypes
    <3>2. landed[e] \subseteq Rows(e, Things(e))
      BY <3>1, EntityNames DEF StoreOK, Things
    <3>3. PICK x \in Item[e] : r = Map(e, x)
      BY <3>1, <3>2, ThingsAreItems DEF Rows
    <3>4. f[2] \in Collections /\ r[f[1]] \in 1..Size[f[2]]
      BY <3>3, RowsRefer
    <3> QED BY <2>3, <3>4, RowOfEach
  <2> QED BY <2>1, <2>2, <2>3 DEF DemoBookIsClean
<1> QED BY <1>1, CrawlInvariant, PTL
=============================================================================
