SPECIFICATION FairSpec
CONSTANTS
    Labels <- TwoLabels
    Enabled <- TwoCollectors
    MaxChanges = 2
    MaxOutages = 1
    MaxRuns <- TwoRuns
INVARIANTS TypeOK GapsOnlyWhileRefilling SuccessHasTimestamp
PROPERTIES GaugesCatchUp
