\* Three events of two subjects, one consumer that can be replayed.
CONSTANTS
    c1 = c1
    w1 = w1
    w2 = w2
    NoOne = NoOne
    MaxPosition = 3
    Subjects = {1, 2}
    SubjectOf <- TwoSubjects
    Consumers = {c1}
    Subscribed <- AllSubscribed
    ReplaySafe = {c1}
    Dropped = {}
    Workers = {w1, w2}
    MaxAttempts = 2
    MaxFaults = 1
    MaxActs = 2
    LatestPackage = 0
SPECIFICATION Spec
SYMMETRY Symmetry
INVARIANT AppliedExactlyOnce
INVARIANT OrderKept
INVARIANT NoOrphan
PROPERTY FailedWaitsForAPerson
PROPERTY ReplayIsWhole
CHECK_DEADLOCK FALSE
