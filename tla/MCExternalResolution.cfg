SPECIFICATION FairSpec
CONSTANTS
    Keys = {k1}
    Workers = {w1, w2}
    Nobody = Nobody
    MaxAttempts = 2
    MaxFaults = 3
INVARIANTS FailedMeansNoEffect
CHECK_DEADLOCK FALSE
