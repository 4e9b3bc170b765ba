SPECIFICATION Spec
CONSTANTS
    Ingests <- TwoIngests
    MaxRetries = 1
    MaxFaults = 3
    MaxBreaks = 1
INVARIANTS FreshnessIsNotAGate
