\* One call on the record is held while another erases it.
INIT ErasureInit
NEXT ErasureNext
CONSTANTS
    Holds = {h1, h2}
    Approvers = {p1}
    Exports = {x1}
    NoProcess = NoProcess
    MaxRevision = 1
    ExportAttempts = 1
    SweepAttempts = 1
    MaxErasureFaults = 0
INVARIANT ErasedLeavesNoHold
CHECK_DEADLOCK FALSE
