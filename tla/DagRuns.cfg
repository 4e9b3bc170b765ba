SPECIFICATION FairSpec
CONSTANTS
    Ingests <- TwoIngests
    MaxRetries = 1
    MaxFaults = 3
    MaxBreaks = 1
INVARIANTS TypeOK WorkNeedsACleanRun  UnconfirmedBackfillFails StaleResultsOnlyWithoutModels
PROPERTIES RunsEnd ConnectorHeals
