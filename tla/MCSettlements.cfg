SPECIFICATION SettlementsSpec
\* One external action and two workers.
CONSTANTS
    Keys = {k1}
    Workers = {w1, w2}
    Nobody = Nobody
    MaxAttempts = 2
    MaxFaults = 3
\* Two holds on one record, two approvers, one export.
    Holds = {h1, h2}
    Approvers = {p1, p2}
    Exports = {x1}
    NoProcess = NoProcess
    MaxRevision = 2
    ExportAttempts = 2
    SweepAttempts = 3
    MaxErasureFaults = 2
\* One job and two sweeps.
    NewestJob = 1
    ScoringSweeps = {s1, s2}
    ScoreAttempts = 2
    MaxPerRun = 1
    MaxScoringActs = 1
    MaxScoringFaults = 1
\* One job to draft for and two sweeps.
    Openings = {g1}
    Drafters = {d1, d2}
    DraftAttempts = 2
    MaxDraftActs = 2
    MaxDraftFaults = 1
INVARIANTS EffectAtMostOnce SettledTruthfully ScoresAnswerInputs
PROPERTIES AnswersStand OwnersWorkStands ApprovedActionSettles ErasesWhatWasApproved ErasedFilesGo EveryJobIsJudged EveryRequestEnds
CHECK_DEADLOCK FALSE
