\* One workspace, one worker, no fault and no lost mark.
CONSTANTS
    s1 = s1
    w1 = w1
    NoWorkspace = NoWorkspace
    Workspaces = {s1}
    Workers = {w1}
    Reconcile = 2
    Backoff = 1
    PassTicks = 1
    MaxPerVisit = 1
    CacheSize = 1
    Horizon = 7
    MaxEnqueues = 1
    MaxFaults = 0
    MarksMayBeLost = FALSE
SPECIFICATION Spec
INVARIANT MarkedWorkIsDue
CHECK_DEADLOCK FALSE
