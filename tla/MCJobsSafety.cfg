\* A continuation, and a recorded job that only the new package accepts.
CONSTANTS
    external = external
    recorded = recorded
    w1 = w1
    w2 = w2
    NoOne = NoOne
    Jobs = {external, recorded}
    Workers = {w1, w2}
    Continuations = {external}
    Recorded = {recorded}
    RejectedByOld = {recorded}
    RejectedByNew = {}
    Rejected <- MCRejected
    MaxAttempts = 2
    MaxFaults = 2
    AnswersMayBeLost = TRUE
SPECIFICATION Spec
SYMMETRY Symmetry
INVARIANT EffectsExactlyOnce
INVARIANT RunsWithinBudget
INVARIANT CancellationWins
PROPERTY FailedOnlyForCause
CHECK_DEADLOCK FALSE
