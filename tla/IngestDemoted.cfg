SPECIFICATION Spec
CONSTANTS
    Loaders = {p1}
    Runs = {r1, r2}
    Entities <- FlatEntities
    Keys <- FlatKeys
    EntityOf <- FlatEntityOf
    ParentDriven = {}
    ParentOf <- NoParents
    MaxVersion = 2
    Malformed = {}
    Blocking = {}
    MinRows <- NoMinRows
    MaxRejectPct = 50
    MaxRecords = 2
    Arguments <- FlatArguments
    Null = Null
SYMMETRY Symmetry
CHECK_DEADLOCK FALSE
INVARIANT FailedMeansNothingLanded
