\* The contract and liveness of a recorded ordinary job and a
\* continuation, under fairness; no symmetry.
CONSTANTS
    dropped = dropped
    external = external
    w1 = w1
    w2 = w2
    NoOne = NoOne
    Jobs = {dropped, external}
    Workers = {w1, w2}
    Continuations = {external}
    Recorded = {dropped}
    RejectedByOld = {}
    RejectedByNew = {dropped}
    Rejected <- MCRejected
    MaxAttempts = 1
    MaxFaults = 1
    AnswersMayBeLost = FALSE
SPECIFICATION FairSpec
PROPERTY ImplementsContract
PROPERTY EveryJobEnds
CHECK_DEADLOCK FALSE
