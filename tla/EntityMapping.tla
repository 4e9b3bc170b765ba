--------------------------- MODULE EntityMapping ---------------------------
(***************************************************************************)
(* What becomes of a record of the API on its way to a landing table: the  *)
(* mappers, the registry of entities with their expectations, and the      *)
(* checks on a record and on a batch.                                      *)
(*                                                                         *)
(* Kept are the columns that are keys, that refer to other tables, that a  *)
(* check or a query of the registry names.  Identifiers, amounts and dates *)
(* arrive as numbers and stay what they are; NULL is Python's None.        *)
(***************************************************************************)
EXTENDS Integers, Sequences, FiniteSets

CONSTANT NULL

\* Python's "a or b": an empty value is as good as none.
Or(a, b) == IF a \in {NULL, 0} THEN b ELSE a

-----------------------------------------------------------------------------
(* The mappers.                                                            *)

MapOffice(r) ==
    [office_id |-> r.id, name |-> r.name, parent_id |-> r.parentId]

MapStaff(r) == [staff_id |-> r.id, office_id |-> r.officeId]

MapLoanProduct(r) ==
    [product_id |-> r.id, principal |-> r.principal,
     annual_interest_rate |-> r.annualInterestRate]

MapSavingsProduct(r) == [product_id |-> r.id, status |-> r.status]

MapClient(r) ==
    [client_id |-> r.id, office_id |-> r.officeId, staff_id |-> r.staffId]

\* Mutant: the client of a loan is read from the field of its product.
MapLoanMixedUp(r) ==
    [loan_id |-> r.id, client_id |-> r.loanProductId,
     product_id |-> r.loanProductId, office_id |-> r.officeId,
     loan_officer_id |-> r.loanOfficerId, status_id |-> r.status,
     principal |-> r.principal,
     principal_outstanding |-> r.principalOutstanding,
     total_outstanding |-> r.totalOutstanding,
     annual_interest_rate |-> r.annualInterestRate,
     disbursed_on_date |-> Or(r.actualDisbursement, r.expectedDisbursement)]

\* A loan that was not disbursed has the date on which it is expected to be.
MapLoan(r) ==
    [loan_id |-> r.id, client_id |-> r.clientId,
     product_id |-> r.loanProductId, office_id |-> r.officeId,
     loan_officer_id |-> r.loanOfficerId, status_id |-> r.status,
     principal |-> r.principal,
     principal_outstanding |-> r.principalOutstanding,
     total_outstanding |-> r.totalOutstanding,
     annual_interest_rate |-> r.annualInterestRate,
     disbursed_on_date |-> Or(r.actualDisbursement, r.expectedDisbursement)]

MapLoanTransaction(r) ==
    [transaction_id |-> r.id, loan_id |-> r.loanId, type_id |-> r.type,
     amount |-> r.amount]

MapSavingsAccount(r) ==
    [savings_id |-> r.id, client_id |-> r.clientId,
     product_id |-> r.savingsProductId, office_id |-> r.officeId,
     field_officer_id |-> r.fieldOfficerId, account_balance |-> r.balance]

-----------------------------------------------------------------------------
(* The registry.                                                           *)

Check(kind, columns, severity) ==
    [kind |-> kind, columns |-> columns, severity |-> severity,
     min |-> NULL, max |-> NULL]

NotNull(c) == Check("not_null", {c}, "error")
Unique(c) == Check("unique", {c}, "error")
Warning(kind, columns) == Check(kind, columns, "warn")
KeyChecks(c) == {NotNull(c), Unique(c)}

Registry ==
  [offices |->
     [key |-> "office_id", paged |-> FALSE,
      checks |-> KeyChecks("office_id")
        \cup {[Check("row_count_min", {}, "error") EXCEPT !.min = 1]}],
   staff |->
     [key |-> "staff_id", paged |-> FALSE, checks |-> KeyChecks("staff_id")],
   loan_products |->
     [key |-> "product_id", paged |-> FALSE,
      checks |-> KeyChecks("product_id")
        \cup {Warning("non_negative", {"principal"})}],
   savings_products |->
     [key |-> "product_id", paged |-> FALSE,
      checks |-> KeyChecks("product_id")],
   clients |->
     [key |-> "client_id", paged |-> TRUE,
      checks |-> KeyChecks("client_id")
        \cup {Warning("not_null", {"office_id"})}],
   loans |->
     [key |-> "loan_id", paged |-> TRUE,
      checks |-> KeyChecks("loan_id")
        \cup {Warning("not_null", {"client_id"}),
              Check("non_negative", {"principal"}, "error"),
              Warning("non_negative",
                      {"principal_outstanding", "total_outstanding"}),
              [Warning("range", {"annual_interest_rate"})
                  EXCEPT !.min = 0, !.max = 200]}],
   savings_accounts |->
     [key |-> "savings_id", paged |-> TRUE,
      checks |-> KeyChecks("savings_id")],
   loan_transactions |->
     [key |-> "transaction_id", paged |-> FALSE,
      checks |-> KeyChecks("transaction_id")
        \cup {NotNull("loan_id"), Warning("non_negative", {"amount"})}]]

DefaultOrder ==
    <<"offices", "staff", "loan_products", "savings_products", "clients",
      "loans", "savings_accounts", "loan_transactions">>

Entities == DOMAIN Registry

Map(e, r) ==
    CASE e = "offices" -> MapOffice(r)
      [] e = "staff" -> MapStaff(r)
      [] e = "loan_products" -> MapLoanProduct(r)
      [] e = "savings_products" -> MapSavingsProduct(r)
      [] e = "clients" -> MapClient(r)
      [] e = "loans" -> MapLoan(r)
      [] e = "savings_accounts" -> MapSavingsAccount(r)
      [] e = "loan_transactions" -> MapLoanTransaction(r)

\* The loans whose transactions are asked for.
ParentIds(loans) ==
    {l.loan_id : l \in {x \in loans : x.disbursed_on_date # NULL}}

-----------------------------------------------------------------------------
(* Checks.                                                                 *)

\* Why a record is rejected, or "".
ValidateRecord(e, row) ==
    LET key == Registry[e].key
    IN  IF row[key] = NULL THEN "primary_key_not_null"
        ELSE IF row[key] < 0 THEN "primary_key_positive"
        ELSE IF \A c \in DOMAIN row \ {key} : row[c] = NULL
          THEN "record_not_empty"
        ELSE ""

Cells(rows, columns) == (DOMAIN rows) \X columns

Nulls(rows, columns) ==
    {x \in Cells(rows, columns) : rows[x[1]][x[2]] = NULL}

\* Every occurrence of a value but one is a duplicate.
Duplicates(rows, columns) ==
    {x \in Cells(rows, columns) \ Nulls(rows, columns) :
        \E i \in DOMAIN rows : i < x[1] /\ rows[i][x[2]] = rows[x[1]][x[2]]}

Outside(rows, columns, low, high) ==
    {x \in Cells(rows, columns) \ Nulls(rows, columns) :
        \/ low # NULL /\ rows[x[1]][x[2]] < low
        \/ high # NULL /\ rows[x[1]][x[2]] > high}

\* A kind that nobody implements passes.
Passes(check, rows) ==
    CASE check.kind = "row_count_min" -> Len(rows) >= Or(check.min, 1)
      [] check.kind = "not_null" -> Nulls(rows, check.columns) = {}
      [] check.kind = "unique" -> Duplicates(rows, check.columns) = {}
      [] check.kind = "non_negative" ->
            Outside(rows, check.columns, 0, NULL) = {}
      [] check.kind = "range" ->
            Outside(rows, check.columns, check.min, check.max) = {}
      [] OTHER -> TRUE

FailedChecks(e, rows) == {c \in Registry[e].checks : ~Passes(c, rows)}

Blocking(checks) == {c \in checks : c.severity = "error"}
=============================================================================
