SPECIFICATION Spec
CONSTANTS
    NULL = NULL
    all = all
    some = some
    Crawlers <- Processes
    Plan <- Plans
    Offices = 2
    Officers = 1
    Products = 1
    SavingsProducts = 1
    Accounts = 1
    Clients = 2
    Loans = 2
    Statuses <- LoanStatuses
    Principals <- LoanPrincipals
    Rates <- ProductRates
    Whole = 2
    Parts <- PartSet
    Term = 2
    PageSize = 1
    MaxPages = 2
    MaxRetries = 1
    MaxRejectPct = 5
    FailNext = 1
    MaxTransients = 1
CHECK_DEADLOCK FALSE
INVARIANTS LandedIsTheBook InjectsWhatWasAsked DemoBookIsClean
