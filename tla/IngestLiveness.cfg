SPECIFICATION FairSpec
CONSTANTS
    Loaders = {p1, p2}
    Runs = {r1, r2}
    Entities <- FlatEntities
    Keys <- FlatKeys
    EntityOf <- FlatEntityOf
    ParentDriven = {}
    ParentOf <- NoParents
    MaxVersion = 2
    Malformed = {2}
    Blocking = {}
    MinRows <- NoMinRows
    MaxRejectPct = 50
    MaxRecords = 2
    Arguments <- PlainArguments
    Null = Null
CHECK_DEADLOCK FALSE
INVARIANT WatermarkIsBacked
PROPERTIES EveryLoadEnds
