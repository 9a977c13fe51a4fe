SPECIFICATION MemorySpec
CONSTANTS
    MaxLines = 2
    MaxInodes = 2
    LineKind <- MCLineKind
    Ageing <- MCAgeing
    BatchLimit = 2
    MaxBridgeFaults = 2
    Turns = {1, 2}
    Drainers = {d1, d2}
    NoDrainer = NoDrainer
    UnitsPerJob = 1
    ExtractionAttempts = 2
    MaxDrains = 1
    MaxEvidenceFaults = 2
    Tickers = {t1, t2}
    Sweepers = {w1, w2}
    NoHolder = NoHolder
    Memories = {1, 2, 3}
    Stuck = {1}
    SweepBatch = 2
    SweepAttempts = 2
    Slots = {s1, s2}
    MaxScheduleFaults = 2
INVARIANTS OneCatchUp OneMemoryPerTurn
PROPERTIES RemovalIsWhole NoTurnPassedOver NoMemoryAfterRevocation
           ExpiredAreRemoved TurnsAreAnswered RecordedTurnsSettle
CHECK_DEADLOCK FALSE
