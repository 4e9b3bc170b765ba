--------------------------- MODULE MCIngestionRun ---------------------------
(***************************************************************************)
(* Small instances of IngestionRun.  Version 2 of a key is malformed and   *)
(* version 3 would fail a blocking expectation where the bound lets the    *)
(* source reach them.                                                      *)
(***************************************************************************)
EXTENDS IngestionRun, TLC

\* One flat entity with two keys, for processes that meet in its rows.
FlatKeys == {1, 2}
FlatEntities == {"loans"}
FlatEntityOf == [k \in FlatKeys |-> "loans"]
FlatArguments == [queue : {<<"loans">>}, dry_run : BOOLEAN,
                  fail_fast : {FALSE}]
PlainArguments == [queue : {<<"loans">>}, dry_run : {FALSE},
                   fail_fast : {FALSE}]
NoParents == [k \in {} |-> 1]
NoMinRows == [e \in {"loans"} |-> 0]

\* Loan 1 and transaction 3 of it, loaded in order or on their own.
FamilyKeys == {1, 3}
FamilyEntities == {"loans", "loan_transactions"}
FamilyEntityOf == [k \in FamilyKeys |->
                      IF k = 3 THEN "loan_transactions" ELSE "loans"]
FamilyParentOf == [k \in {3} |-> 1]
FamilyArguments == [queue : {<<"loans", "loan_transactions">>,
                             <<"loan_transactions">>},
                    dry_run : BOOLEAN, fail_fast : BOOLEAN]
FamilyMinRows == [e \in FamilyEntities |-> IF e = "loans" THEN 1 ELSE 0]

\* Processes and run ids are interchangeable.
Symmetry == Permutations(Loaders) \cup Permutations(Runs)
=============================================================================
