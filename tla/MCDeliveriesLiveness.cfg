\* Two events of one subject, a consumer, and an upgrade, under fairness.
CONSTANTS
    c1 = c1
    w1 = w1
    w2 = w2
    NoOne = NoOne
    MaxPosition = 2
    Subjects = {1}
    SubjectOf <- OneSubject
    Consumers = {c1}
    Subscribed <- AllSubscribed
    ReplaySafe = {c1}
    Dropped = {c1}
    Workers = {w1, w2}
    MaxAttempts = 1
    MaxFaults = 1
    MaxActs = 1
    LatestPackage = 1
SPECIFICATION FairSpec
PROPERTY EveryDeliveryEnds
CHECK_DEADLOCK FALSE
