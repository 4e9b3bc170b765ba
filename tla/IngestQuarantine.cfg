SPECIFICATION Spec
CONSTANTS
    Loaders = {p1}
    Runs = {r1, r2}
    Entities <- FamilyEntities
    Keys <- FamilyKeys
    EntityOf <- FamilyEntityOf
    ParentDriven = {"loan_transactions"}
    ParentOf <- FamilyParentOf
    MaxVersion = 3
    Malformed = {2}
    Blocking = {3}
    MinRows <- FamilyMinRows
    MaxRejectPct = 50
    MaxRecords = 2
    Arguments <- FamilyArguments
    Null = Null
SYMMETRY Symmetry
CHECK_DEADLOCK FALSE
INVARIANT NoRejectVanishes
