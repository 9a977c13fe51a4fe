\* One recorded job, one worker, a commit whose answer is lost.
CONSTANTS
    recorded = recorded
    w1 = w1
    NoOne = NoOne
    Jobs = {recorded}
    Workers = {w1}
    Continuations = {}
    Recorded = {recorded}
    RejectedByOld = {}
    RejectedByNew = {}
    Rejected <- MCRejected
    MaxAttempts = 1
    MaxFaults = 0
    AnswersMayBeLost = TRUE
SPECIFICATION Spec
INVARIANT RecordAgrees
CHECK_DEADLOCK FALSE
