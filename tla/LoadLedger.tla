----------------------------- MODULE LoadLedger -----------------------------
(***************************************************************************)
(* What the landing schema promises its readers (loader.py, "Exactly-once  *)
(* with respect to Postgres"): a batch appears whole, in the same instant  *)
(* as the watermark that claims it and the run that is accountable for it, *)
(* and nothing else ever moves the rows or a watermark.                    *)
(*                                                                         *)
(* A run may be withdrawn after its batch landed: the landed rows stay.    *)
(***************************************************************************)
EXTENDS Naturals, FiniteSets

CONSTANTS Keys, Entities, EntityOf, Runs, Versions, Absent

VARIABLES
    rows,       \* the landed version of each key, or Absent
    mark,       \* per entity: the last key, the last count, the total
    status      \* of each run

vars == <<rows, mark, status>>

KeysIn(e) == {k \in Keys : EntityOf[k] = e}

Init ==
    /\ rows = [k \in Keys |-> Absent]
    /\ mark = [e \in Entities |-> [cursor |-> Absent, last |-> 0, total |-> 0]]
    /\ status = [r \in Runs |-> "none"]

Open(r) ==
    /\ status[r] = "none"
    /\ status' = [status EXCEPT ![r] = "running"]
    /\ UNCHANGED <<rows, mark>>

\* Run r lands, for the keys B of entity e, the versions batch.
Land(r, e, B, batch) ==
    /\ status[r] = "running"
    /\ status' = [status EXCEPT ![r] = "success"]
    /\ rows' = [k \in Keys |-> IF k \in B THEN batch[k] ELSE rows[k]]
    /\ mark' = [mark EXCEPT ![e] =
          [cursor |-> IF B = {} THEN @.cursor
                      ELSE CHOOSE k \in B : \A j \in B : j <= k,
           last |-> Cardinality(B),
           total |-> @.total + Cardinality(B)]]

\* A run ends with nothing landed, or is withdrawn later.
Close(r) ==
    /\ status[r] \in {"running", "success"}
    /\ \E s \in {"failed", "skipped"} :
          /\ status[r] = "success" => s = "failed"
          /\ status' = [status EXCEPT ![r] = s]
    /\ UNCHANGED <<rows, mark>>

Next ==
    \E r \in Runs :
        \/ Open(r)
        \/ Close(r)
        \/ \E e \in Entities : \E B \in SUBSET KeysIn(e) :
              \E batch \in [B -> Versions] : Land(r, e, B, batch)

Spec == Init /\ [][Next]_vars
=============================================================================
