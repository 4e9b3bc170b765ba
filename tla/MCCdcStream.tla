---------------------------- MODULE MCCdcStream ----------------------------
(***************************************************************************)
(* Two rows of one table on two partitions, so that one partition can lag, *)
(* two commits at different times or at the same one, one restart, one     *)
(* event that cannot be parsed or has no date: the table is                *)
(* loan_transactions.  The clock runs past the view's window.              *)
(***************************************************************************)
EXTENDS CdcStream

CONSTANTS k1, k2, loan_transactions, p1, p2

TwoKeys == {k1, k2}
OneEntity == {loan_transactions}
EntityOfKey == [k \in TwoKeys |-> loan_transactions]
TwoPartitions == {p1, p2}
PartitionOfKey == [k \in TwoKeys |-> IF k = k1 THEN p1 ELSE p2]
=============================================================================
