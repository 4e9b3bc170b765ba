SPECIFICATION FairSpec
CONSTANTS
    k1 = k1
    k2 = k2
    loan_transactions = loan_transactions
    p1 = p1
    p2 = p2
    Keys <- TwoKeys
    Entities <- OneEntity
    Dated <- OneEntity
    EntityOf <- EntityOfKey
    Partitions <- TwoPartitions
    PartitionOf <- PartitionOfKey
    MaxLag = 1
    Window = 3
    MaxCommits = 2
    MaxTime = 5
    MaxRestarts = 1
    MaxFlaws = 1
CHECK_DEADLOCK FALSE
INVARIANTS TypeOK DeliveredMeansCurrent ParityMeansArrival
PROPERTIES ReplaysNeverWin GateOpens StagingConverges
