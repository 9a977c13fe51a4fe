----------------------------- MODULE JobScoring ------------------------------
(***************************************************************************)
(* Scoring the open jobs of a job search (modules/leads/src/rheo_leads/    *)
(* scoring: job.py, profile.py, review.py, view.py, prefilter.py).         *)
(*                                                                         *)
(* A sweep refreshes the score rows from the postings, then claims one job *)
(* at a time, newest first, asks the model with no transaction open, and   *)
(* records the outcome if the job is still the one it claimed.  Meanwhile  *)
(* postings move, other sweeps run, and the owner sets the profile,        *)
(* promotes a held job or retries the failed ones.                         *)
(*                                                                         *)
(* A posting is the number of times its scored inputs moved, which stands  *)
(* for its digest and for the revision that orders assessments; it does    *)
(* not return to an earlier value.  What a model or a filter says of a job *)
(* is any answer.  A sweep is triggered by the half-hour schedule at the   *)
(* latest; the triggers and follow-ups that make it sooner are left out.   *)
(* Job search stays enabled and the scoring account an owner: else a sweep *)
(* ends after its refresh.                                                 *)
(***************************************************************************)
EXTENDS Naturals, FiniteSets

CONSTANTS
    NewestJob,         \* the jobs are 1..NewestJob, in the order they were created
    ScoringSweeps,     \* worker processes that run leads.jobsearch_score
    ScoreAttempts,     \* the attempt that records a failed assessment
    MaxPerRun,         \* leads.scoring.max_per_run
    MaxScoringActs,    \* bound on what postings and the owner do, but for the first profile
                       \* and for promotions, of which a job has one
    MaxScoringFaults   \* bound on deaths, stalls and deferrals

ASSUME JobScoringAssumption ==
    /\ NewestJob \in Nat \ {0} /\ IsFiniteSet(ScoringSweeps)
    /\ {ScoreAttempts, MaxPerRun} \subseteq Nat \ {0}
    /\ {MaxScoringActs, MaxScoringFaults} \subseteq Nat

VARIABLES
    posting,        \* per job, how often its inputs moved, and whether its stage is open
    scoreRow,       \* job_score_state
    assessed,       \* the job's current qualification
    promotions,     \* job_promotion
    searchProfile,  \* jobsearch_profile's version, 0 while none is set
    filterOn,       \* the pre-filter's setting
    scoring,        \* where each sweep stands
    scoringActs,
    scoringFaults

scoringVars == <<posting, scoreRow, assessed, promotions, searchProfile, filterOn,
                 scoring, scoringActs, scoringFaults>>
-----------------------------------------------------------------------------
ScoredJobs == 1..NewestJob

\* waiting: retry_after is ahead.
PendingRow(digest) == [state |-> "pending", digest |-> digest, attempts |-> 0, waiting |-> FALSE]
NoScoreRow  == [PendingRow(0) EXCEPT !.state = "none"]
IdleSweep   == [at |-> "idle", left |-> 0, profile |-> 0, filter |-> FALSE,
                seen |-> [j \in ScoredJobs |-> 0], job |-> 0, digest |-> 0, judged |-> 0,
                attempts |-> 0, promoted |-> FALSE]

JobScoringTypeOK ==
    /\ posting \in [ScoredJobs -> [rev : Nat \ {0}, open : BOOLEAN]]
    /\ scoreRow \in [ScoredJobs -> [state : {"none", "pending", "scored", "failed"},
                                    digest : Nat, attempts : Nat, waiting : BOOLEAN]]
    /\ assessed \in [ScoredJobs -> [kind : {"none", "score", "held", "filtered",
                                            "undescribed", "failed"},
                                    judged : Nat, profile : Nat]]
    /\ promotions \subseteq ScoredJobs
    /\ searchProfile \in Nat /\ filterOn \in BOOLEAN
    /\ scoring \in [ScoringSweeps ->
         [at : {"idle", "refreshing", "ready", "judging"}, left : 0..MaxPerRun,
          profile : Nat, filter : BOOLEAN, seen : [ScoredJobs -> Nat],
          job : 0..NewestJob, digest : Nat, judged : Nat, attempts : Nat,
          promoted : BOOLEAN]]
    /\ scoringActs \in 0..MaxScoringActs /\ scoringFaults \in 0..MaxScoringFaults

JobScoringInit ==
    /\ posting = [j \in ScoredJobs |-> [rev |-> 1, open |-> TRUE]]
    /\ scoreRow = [j \in ScoredJobs |-> NoScoreRow]
    /\ assessed = [j \in ScoredJobs |-> [kind |-> "none", judged |-> 0, profile |-> 0]]
    /\ promotions = {} /\ searchProfile = 0 /\ filterOn = TRUE
    /\ scoring = [w \in ScoringSweeps |-> IdleSweep]
    /\ scoringActs = 0 /\ scoringFaults = 0

ScoringAct   == scoringActs < MaxScoringActs /\ scoringActs' = scoringActs + 1
                /\ UNCHANGED scoringFaults
ScoringFault == scoringFaults < MaxScoringFaults /\ scoringFaults' = scoringFaults + 1
                /\ UNCHANGED scoringActs
ScoringStep  == UNCHANGED <<scoringActs, scoringFaults>>
-----------------------------------------------------------------------------
(* The postings and the owner.                                               *)

\* A delivery, an edit: what a score of the job depends on moves.
PostingMoves(j) ==
    /\ ScoringAct /\ posting' = [posting EXCEPT ![j].rev = @ + 1]
    /\ UNCHANGED <<scoreRow, assessed, promotions, searchProfile, filterOn, scoring>>

JobCloses(j) ==
    /\ posting[j].open /\ ScoringAct /\ posting' = [posting EXCEPT ![j].open = FALSE]
    /\ UNCHANGED <<scoreRow, assessed, promotions, searchProfile, filterOn, scoring>>

SetFilter ==
    /\ ScoringAct /\ filterOn' = ~filterOn
    /\ UNCHANGED <<posting, scoreRow, assessed, promotions, searchProfile, scoring>>

\* These rows go back in line, their attempts forgotten.
Repended(S) == [j \in ScoredJobs |-> IF j \in S THEN PendingRow(scoreRow[j].digest)
                                     ELSE scoreRow[j]]

\* repend_unscored: what failed, and what has no model score as its latest assessment.
Unscored == {j \in ScoredJobs : scoreRow[j].state = "failed"
                               \/ (scoreRow[j].state # "none" /\ assessed[j].kind # "score")}

\* set_profile; it also enables the schedule.
SetProfile ==
    /\ IF searchProfile = 0 THEN ScoringStep ELSE ScoringAct
    /\ searchProfile' = searchProfile + 1
    /\ scoreRow' = Repended(Unscored)
    /\ UNCHANGED <<posting, assessed, promotions, filterOn, scoring>>

\* is_held.
HeldBack(j) == assessed[j].kind \in {"held", "filtered"}

\* promote: an open job whose current assessment is a hold.
Promote(j) ==
    /\ j \notin promotions /\ posting[j].open /\ HeldBack(j) /\ ScoringStep
    /\ promotions' = promotions \cup {j} /\ scoreRow' = Repended({j})
    /\ UNCHANGED <<posting, assessed, searchProfile, filterOn, scoring>>

RetryFailed ==
    LET failed == {j \in ScoredJobs : scoreRow[j].state = "failed" /\ posting[j].open} IN
    /\ failed # {} /\ ScoringAct /\ scoreRow' = Repended(failed)
    /\ UNCHANGED <<posting, assessed, promotions, searchProfile, filterOn, scoring>>
-----------------------------------------------------------------------------
(* A sweep.                                                                  *)

\* Between two jobs a sweep keeps the profile and the filter it began with.
SweepReady(w, left, profile, filter) ==
    scoring' = [scoring EXCEPT ![w] = [IdleSweep EXCEPT
        !.at = "ready", !.left = left, !.profile = profile, !.filter = filter]]
SweepEnds(w)     == scoring' = [scoring EXCEPT ![w] = IdleSweep]

\* refresh reads the open jobs, their inputs and the digests known, 0 for no change.
BeginSweep(w) ==
    /\ scoring[w].at = "idle" /\ searchProfile # 0 /\ ScoringStep
    /\ scoring' = [scoring EXCEPT ![w] = [IdleSweep EXCEPT
         !.at = "refreshing", !.profile = searchProfile,
         !.seen = [j \in ScoredJobs |->
           IF posting[j].open /\ scoreRow[j].digest # posting[j].rev THEN posting[j].rev ELSE 0]]]
    /\ UNCHANGED <<posting, scoreRow, assessed, promotions, searchProfile, filterOn>>

\* refresh_prefilter_holds: a pre-filter's hold that the setting or the profile outdates.
Outdated(w, j) ==
    /\ scoreRow[j].state = "scored" /\ posting[j].open /\ assessed[j].kind = "filtered"
    /\ ~filterOn \/ assessed[j].profile # scoring[w].profile

\* Whatever other sweeps committed since the read, the upserts and the released holds.
RefreshCommits(w) ==
    /\ scoring[w].at = "refreshing" /\ ScoringStep
    /\ scoreRow' = [j \in ScoredJobs |->
         IF scoring[w].seen[j] # 0 THEN PendingRow(scoring[w].seen[j])
         ELSE IF Outdated(w, j) THEN PendingRow(scoreRow[j].digest) ELSE scoreRow[j]]
    /\ SweepReady(w, MaxPerRun, scoring[w].profile, filterOn)
    /\ UNCHANGED <<posting, assessed, promotions, searchProfile, filterOn>>

\* Mutant of ScoreClaimable: a wait that has elapsed is not looked at.
ScoreClaimableUnwaited(j) == scoreRow[j].state = "pending" /\ scoreRow[j].attempts = 0

\* _claimable.
ScoreClaimable(j) == scoreRow[j].state = "pending" /\ ~scoreRow[j].waiting

Claimable(j) == ScoreClaimable(j) /\ posting[j].open

\* claim: the newest, counted and held for the window, with its inputs as they are now.
ClaimJob(w) ==
    /\ scoring[w].at = "ready" /\ scoring[w].left > 0 /\ ScoringStep
    /\ \E j \in ScoredJobs :
         /\ Claimable(j) /\ \A i \in ScoredJobs : i > j => ~Claimable(i)
         /\ scoreRow' = [scoreRow EXCEPT ![j].attempts = @ + 1, ![j].waiting = TRUE]
         /\ scoring' = [scoring EXCEPT ![w] = [scoring[w] EXCEPT
              !.at = "judging", !.left = scoring[w].left - 1, !.job = j, !.digest = scoreRow[j].digest,
              !.judged = posting[j].rev, !.attempts = scoreRow[j].attempts + 1,
              !.promoted = j \in promotions]]
    /\ UNCHANGED <<posting, assessed, promotions, searchProfile, filterOn>>

\* Nothing is claimable, or the run's budget of jobs or, after a first one, of time is
\* used up.
EndSweep(w) ==
    /\ scoring[w].at = "ready"
    /\ scoring[w].left < MaxPerRun \/ \A j \in ScoredJobs : ~Claimable(j)
    /\ SweepEnds(w) /\ ScoringStep
    /\ UNCHANGED <<posting, scoreRow, assessed, promotions, searchProfile, filterOn>>

\* Mutant of Overtaken: a promotion since the claim is not looked at.
OvertakenByInputs(w) == scoreRow[scoring[w].job].digest # scoring[w].digest

\* record's test: the inputs moved, or the owner promoted the job, since the claim.
Overtaken(w) ==
    \/ scoreRow[scoring[w].job].digest # scoring[w].digest
    \/ ~scoring[w].promoted /\ scoring[w].job \in promotions

\* assess: a promoted job passes the filters that hold others back.
Assessments(w) ==
    {"score", "undescribed"} \cup (IF scoring[w].promoted THEN {} ELSE {"held"})
    \cup (IF scoring[w].filter /\ ~scoring[w].promoted THEN {"filtered"} ELSE {})

\* A qualification becomes the current one unless a later revision was judged; the
\* profile's version matters on a pre-filter's hold only.
Assess(w, kind) ==
    assessed' = [assessed EXCEPT ![scoring[w].job] =
      IF @.judged > scoring[w].judged THEN @
      ELSE [kind |-> kind, judged |-> scoring[w].judged,
            profile |-> IF kind = "filtered" THEN scoring[w].profile ELSE 0]]

RecordAssessment(w) ==
    /\ \E kind \in Assessments(w) : Assess(w, kind)
    /\ scoreRow' = [scoreRow EXCEPT ![scoring[w].job].state = "scored",
                                    ![scoring[w].job].waiting = FALSE]

\* A failure that counts waits its backoff; at the last attempt it is an assessment.
RecordScoreFailure(w) ==
    LET j == scoring[w].job IN
    \/ /\ scoring[w].attempts < ScoreAttempts /\ UNCHANGED assessed
       /\ scoreRow' = [scoreRow EXCEPT ![j].waiting = TRUE]
    \/ /\ scoring[w].attempts >= ScoreAttempts /\ Assess(w, "failed")
       /\ scoreRow' = [scoreRow EXCEPT ![j].state = "failed", ![j].waiting = FALSE]

\* An account's failure gives the attempt back, and every claimable job waits.
RecordDeferral(w) ==
    /\ scoreRow' = [j \in ScoredJobs |->
         IF j = scoring[w].job
         THEN [scoreRow[j] EXCEPT !.attempts = IF @ = 0 THEN 0 ELSE @ - 1, !.waiting = TRUE]
         ELSE IF ScoreClaimable(j) THEN [scoreRow[j] EXCEPT !.waiting = TRUE]
         ELSE scoreRow[j]]
    /\ UNCHANGED assessed

\* record, after the model answered; a deferral ends the sweep.
RecordScore(w) ==
    /\ scoring[w].at = "judging"
    /\ \/ /\ SweepReady(w, scoring[w].left, scoring[w].profile, scoring[w].filter) /\ ScoringStep
          /\ IF Overtaken(w) THEN UNCHANGED <<scoreRow, assessed>>
             ELSE RecordAssessment(w) \/ RecordScoreFailure(w)
       \/ /\ SweepEnds(w) /\ ScoringFault
          /\ IF Overtaken(w) THEN UNCHANGED <<scoreRow, assessed>> ELSE RecordDeferral(w)
    /\ UNCHANGED <<posting, promotions, searchProfile, filterOn>>

SweepDies(w) ==
    /\ scoring[w].at # "idle" /\ SweepEnds(w) /\ ScoringFault
    /\ UNCHANGED <<posting, scoreRow, assessed, promotions, searchProfile, filterOn>>

\* A wait elapses; a claim's window outlasts any live call, so only a stall lets it.
WaitElapses(j) ==
    /\ scoreRow[j].waiting /\ scoreRow' = [scoreRow EXCEPT ![j].waiting = FALSE]
    /\ IF \E w \in ScoringSweeps : scoring[w].at = "judging" /\ scoring[w].job = j
       THEN ScoringFault ELSE ScoringStep
    /\ UNCHANGED <<posting, assessed, promotions, searchProfile, filterOn, scoring>>
-----------------------------------------------------------------------------
SweepStep(w) == BeginSweep(w) \/ RefreshCommits(w) \/ ClaimJob(w) \/ EndSweep(w) \/ RecordScore(w)

JobScoringNext ==
    \/ SetFilter \/ SetProfile \/ RetryFailed
    \/ \E j \in ScoredJobs : PostingMoves(j) \/ JobCloses(j) \/ Promote(j) \/ WaitElapses(j)
    \/ \E w \in ScoringSweeps : SweepStep(w) \/ SweepDies(w)

\* The schedule keeps starting sweeps, a live sweep goes on, and waits elapse.
JobScoringFairness ==
    /\ \A w \in ScoringSweeps : WF_scoringVars(SweepStep(w))
    /\ \A j \in ScoredJobs : WF_scoringVars(WaitElapses(j))

JobScoringSpec == JobScoringInit /\ [][JobScoringNext]_scoringVars /\ JobScoringFairness
-----------------------------------------------------------------------------
(* A job that counts as scored, with a row whose digest is its posting's, was *)
(* judged on that posting and, once the owner promoted it, is not held back:  *)
(* no late outcome of an overtaken sweep stands, and no refresh that read     *)
(* before another sweep's commit hides a change (refresh, claim, record,      *)
(* promote).  The digest is all the code compares: a posting that changes and *)
(* changes back within one sweep keeps a score of the value in between; a     *)
(* revision here never comes back.                                            *)
ScoresAnswerInputs ==
    \A j \in ScoredJobs :
      scoreRow[j].state = "scored" =>
        /\ scoreRow[j].digest = posting[j].rev => assessed[j].judged = posting[j].rev
        /\ j \in promotions => ~HeldBack(j)

(* "A job never simply disappears from the queue": an open job that waits for *)
(* a score gets an assessment or a failure, through deaths, deferrals and a   *)
(* profile set again (_claimable, follow_up_at, repend_unscored).             *)
EveryJobIsJudged ==
    \A j \in ScoredJobs :
      scoreRow[j].state = "pending" ~>
        scoreRow[j].state \in {"scored", "failed"} \/ ~posting[j].open
=============================================================================
