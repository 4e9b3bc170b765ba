SPECIFICATION FairSpec
CONSTANTS
    Ids <- FourIds
    PageSize = 2
    MaxPages = 2
    MaxRetries = 1
    UnderReports <- Shortfalls
    MaxLength = 4
    None = None
CHECK_DEADLOCK FALSE
INVARIANTS TypeOK NothingIsLost NothingTwice
PROPERTIES EveryCrawlEnds
