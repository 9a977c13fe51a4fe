--------------------------- MODULE ExternalActions ---------------------------
(***************************************************************************)
(* One external action per idempotency key, from the keyed request that    *)
(* stages it, over its approval, to the continuation job that calls the    *)
(* destination and settles five rows at once: the action, its approval,    *)
(* its operation record, its keyed envelope and the job                    *)
(* (packages/core/src/rheo_core/operations/{transaction,continuation,      *)
(* external_actions,idempotency,operation_ops}.py, approvals/operations.py *)
(* and the continuation arm of work/loop.py).                              *)
(*                                                                         *)
(* A continuation round locks all five rows before it asks or calls the    *)
(* destination and keeps them to its commit, so a round is one step: what  *)
(* it decided is committed, or rolled back.  A provider's effect is not    *)
(* rolled back with it.  What the destination answers is a choice over the *)
(* answers the code tells apart; a provider's typed no-effect errors and a *)
(* reconcile that answers are taken to be true, and a call is over before  *)
(* the lease of the worker that made it can be taken by another.           *)
(***************************************************************************)
EXTENDS Naturals

CONSTANTS
    Keys,         \* idempotency keys of one external operation
    Workers,      \* worker processes, by lease owner
    Nobody,       \* a null lease_owner
    MaxAttempts,  \* work.max_attempts
    MaxFaults     \* bound on crashes, stalls and raising continuations

ASSUME ExternalAssumption ==
    /\ Nobody \notin Workers /\ Nobody \notin Keys
    /\ MaxAttempts \in Nat \ {0} /\ MaxFaults \in Nat

VARIABLES
    action,       \* core.external_action, by key
    approval,     \* its approval
    operation,    \* its operation record
    envelope,     \* the keyed envelope (idempotency_result), until retention purges it
    job,          \* its continuation job
    worker,       \* each worker's place in _run_continuation
    destination,  \* the destination's mode and whether this build registers it
    requestId,    \* whether the action row holds the provider_request_id
    effects,      \* effects that landed at the destination
    byHand,       \* keys whose unresolved action a person resolved
    told,         \* what requests with this key were answered: the latest settled
                  \* outcome, whether one was "key_reused", and the latest answer
    faults

rows == <<action, approval, operation, envelope>>
vars == <<rows, job, worker, destination, requestId, effects, byHand, told, faults>>
-----------------------------------------------------------------------------
Open     == {"pending", "executing"}
Settled  == {"succeeded", "failed", "refused", "cancelled"}
Actions  == {"none", "unresolved"} \cup Open \cup Settled
Named    == {"approval_required", "unresolved"} \cup Settled  \* answers with an operation_id
Unnamed  == {"key_reused", "no_outcome"}                      \* refusals and errors without
JobStates == {"none", "queued", "leased", "succeeded", "failed", "cancelled"}

NoJob == [state |-> "none", owner |-> Nobody, live |-> FALSE, attempts |-> 0,
          cancel_requested |-> FALSE]

Idle == [at |-> "idle", key |-> Nobody, attempts |-> 0,
         cancel_requested |-> FALSE, round |-> 0]

ToldNothing == [outcome |-> "nothing", answer |-> "nothing", spent |-> FALSE]

TypeOK ==
    /\ action \in [Keys -> Actions]
    /\ approval \in [Keys -> {"none", "pending", "approved", "executed", "refused"}]
    /\ operation \in [Keys -> {"none", "approval_required", "running", "succeeded",
                               "failed", "cancelled", "unresolved"}]
    /\ envelope \in [Keys -> {"none", "pending", "unresolved"} \cup Settled]
    /\ job \in [Keys -> [state : JobStates, owner : Workers \cup {Nobody},
                         live : BOOLEAN, attempts : 0..(MaxAttempts + MaxFaults + 1),
                         cancel_requested : BOOLEAN]]
    /\ worker \in [Workers -> [at : {"idle", "round", "faulted", "recheck"},
                               key : Keys \cup {Nobody}, attempts : Nat,
                               cancel_requested : BOOLEAN, round : 0..2]]
    /\ destination \in [Keys -> [provider : BOOLEAN, registered : BOOLEAN]]
    /\ requestId \in [Keys -> BOOLEAN] /\ effects \in [Keys -> Nat]
    /\ byHand \subseteq Keys /\ faults \in 0..MaxFaults
    /\ told \in [Keys -> [outcome : {"nothing"} \cup Settled,
                          answer : {"nothing"} \cup Named \cup Unnamed, spent : BOOLEAN]]

Init ==
    /\ action = [k \in Keys |-> "none"] /\ approval = [k \in Keys |-> "none"]
    /\ operation = [k \in Keys |-> "none"] /\ envelope = [k \in Keys |-> "none"]
    /\ job = [k \in Keys |-> NoJob] /\ worker = [w \in Workers |-> Idle]
    /\ destination \in [Keys -> [provider : BOOLEAN, registered : {TRUE}]]
    /\ requestId = [k \in Keys |-> FALSE] /\ effects = [k \in Keys |-> 0]
    /\ byHand = {} /\ told = [k \in Keys |-> ToldNothing] /\ faults = 0
-----------------------------------------------------------------------------
(* Staging, the person's decision, retention.                                *)

\* Mutant of KeySpent: the check that follows the reservation is left out.
KeySpentNever(k) == FALSE

\* A key whose envelope has expired still names its action: it stages no other.
KeySpent(k) == action[k] # "none"

\* The destination is installed, enabled, ready and has its credentials.
Available(k) == destination[k].registered

\* What _stage_external answers its caller with; what it answers before an outcome or a
\* spent key binds nothing, and is not kept.
Answered(k, answer) ==
    LET outcome == IF answer \in Settled THEN answer ELSE told[k].outcome
        spent   == told[k].spent \/ answer = "key_reused"
    IN told' = [told EXCEPT ![k] =
         [outcome |-> outcome, spent |-> spent,
          answer |-> IF outcome = "nothing" /\ ~spent THEN "nothing" ELSE answer]]

\* The reservation, the operation record, the approval and the action, in one
\* transaction.  A commit that raises although it lands answers an error.
StageExternal(k) ==
    /\ envelope[k] = "none" /\ ~KeySpent(k) /\ Available(k)
    /\ envelope' = [envelope EXCEPT ![k] = "pending"]
    /\ operation' = [operation EXCEPT ![k] = "approval_required"]
    /\ approval' = [approval EXCEPT ![k] = "pending"]
    /\ action' = [action EXCEPT ![k] = "pending"]
    /\ \E answer \in {"approval_required", "no_outcome"} : Answered(k, answer)
    /\ UNCHANGED <<job, worker, destination, requestId, effects, byHand, faults>>

\* The answer the retained envelope gives.
Replay(k) == IF envelope[k] = "pending" THEN "approval_required" ELSE envelope[k]

\* A request with a key that is taken is answered from the retained envelope, and
\* after retention purged it from the action that spent the key.
ReplayStaged(k) ==
    /\ envelope[k] # "none" \/ KeySpent(k)
    /\ Answered(k, IF envelope[k] = "none" THEN "key_reused" ELSE Replay(k))
    /\ UNCHANGED <<rows, job, worker, destination, requestId, effects, byHand, faults>>

\* First or repeated, a request may be refused before the key is looked at (the input,
\* require_ready), after it (a retained envelope this build cannot read, no audit sink,
\* an unavailable destination), or fail and be rolled back with its commit.
RequestRefused(k) ==
    /\ Answered(k, "no_outcome")
    /\ UNCHANGED <<rows, job, worker, destination, requestId, effects, byHand, faults>>

\* core.approval.approve: every guard passes and exactly one continuation is queued.
QueueApprovedExternal(k) ==
    /\ approval[k] = "pending" /\ Available(k)
    /\ approval' = [approval EXCEPT ![k] = "approved"]
    /\ operation' = [operation EXCEPT ![k] = "running"]
    /\ job' = [job EXCEPT ![k] = [NoJob EXCEPT !.state = "queued"]]
    /\ UNCHANGED <<action, envelope, worker, destination, requestId, effects,
                   byHand, told, faults>>

\* A guard refuses at approval, whatever the person said.
GuardRefusesApproval(k) ==
    /\ approval[k] = "pending"
    /\ action' = [action EXCEPT ![k] = "refused"]
    /\ approval' = [approval EXCEPT ![k] = "refused"]
    /\ operation' = [operation EXCEPT ![k] = "failed"]
    /\ envelope' = [envelope EXCEPT ![k] = "refused"]
    /\ UNCHANGED <<job, worker, destination, requestId, effects, byHand, told, faults>>

\* core.approval.refuse.
RefuseStagedExternal(k) ==
    /\ approval[k] = "pending"
    /\ action' = [action EXCEPT ![k] = "refused"]
    /\ approval' = [approval EXCEPT ![k] = "refused"]
    /\ operation' = [operation EXCEPT ![k] = "cancelled"]
    /\ envelope' = [envelope EXCEPT ![k] = "refused"]
    /\ UNCHANGED <<job, worker, destination, requestId, effects, byHand, told, faults>>

Protected(k) == action[k] \in Open \cup {"unresolved"}

\* The retention purge, once retained_until is past.
PurgeExpired(k) ==
    /\ envelope[k] # "none" /\ ~Protected(k)
    /\ envelope' = [envelope EXCEPT ![k] = "none"]
    /\ UNCHANGED <<action, approval, operation, job, worker, destination, requestId,
                   effects, byHand, told, faults>>
-----------------------------------------------------------------------------
(* The lease, and what a round may decide under it.                          *)

RequestCancellation(k) ==
    /\ job[k].state \in {"queued", "leased"} /\ ~job[k].cancel_requested
    /\ job' = [job EXCEPT ![k].cancel_requested = TRUE]
    /\ UNCHANGED <<rows, worker, destination, requestId, effects, byHand, told, faults>>

\* Mutant of Candidate: the crash-recovery arm is left out.
CandidateQueuedOnly(k) == job[k].state = "queued"

Candidate(k) ==
    job[k].state = "queued" \/ (job[k].state = "leased" /\ ~job[k].live)

\* A lease counts itself, unless the row is flagged for cancellation.
Counted(k) == IF job[k].cancel_requested THEN job[k].attempts ELSE job[k].attempts + 1

AcquireLease(w, k) ==
    /\ worker[w].at = "idle" /\ Candidate(k)
    /\ job' = [job EXCEPT ![k].state = "leased", ![k].owner = w, ![k].live = TRUE,
                          ![k].attempts = Counted(k)]
    /\ worker' = [worker EXCEPT ![w] =
                    [at |-> "round", key |-> k, attempts |-> Counted(k),
                     cancel_requested |-> job[k].cancel_requested, round |-> 1]]
    /\ UNCHANGED <<rows, destination, requestId, effects, byHand, told, faults>>

Mode(lease) ==
    IF lease.cancel_requested \/ lease.round = 2 THEN "cancel_requested"
    ELSE IF lease.attempts > MaxAttempts THEN "budget_exhausted_recovery"
    ELSE "run"

Held(w) == LET k == worker[w].key IN job[k].state = "leased" /\ job[k].owner = w

\* _lock_and_bind: the five rows still belong together and to this lease.
Bound(w) ==
    LET k == worker[w].key IN
    /\ Held(w) /\ action[k] \in Open /\ approval[k] = "approved"
    /\ operation[k] = "running" /\ envelope[k] = "pending"

\* Mutant of PriorAnswers: a row that holds no request id is taken for absence.
PriorAnswersFromTheRow(k) ==
    IF ~requestId[k] THEN {"absent"} ELSE {"unresolved", "succeeded"}

\* What _prior_effect may find an earlier lease to have done.
PriorAnswers(k) ==
    IF ~destination[k].registered THEN {"unresolved"}
    ELSE IF ~destination[k].provider THEN {"absent"}
    ELSE {"unresolved"} \cup
         (IF effects[k] > 0 THEN {"succeeded"}
          ELSE {"absent", "refused", "cancelled", "retryable"})

Decided(settle, landed, asked) == [settle |-> settle, landed |-> landed, asked |-> asked]

\* Failure classes as settlements: a retryable error ends when the budget does.
Classified(lease, class) ==
    IF class # "retryable" THEN class
    ELSE IF lease.attempts >= MaxAttempts THEN "failed" ELSE "retry"

\* The one call of the destination: its answer, and whether an effect landed.
Executed(lease, k) ==
    {Decided("succeeded", TRUE, TRUE)}
    \cup {Decided(Classified(lease, c), FALSE, TRUE) :
            c \in {"refused", "cancelled", "retryable"}}
    \cup (IF destination[k].provider
          THEN {Decided("unresolved", landed, TRUE) : landed \in BOOLEAN} ELSE {})

\* Mutant of Retried: off by one, so the second lease is taken for a first.
RetriedLate(lease) == lease.attempts > 2

Retried(lease) == lease.attempts > 1

\* Run mode, after the question about earlier leases: the rechecks may refuse, a
\* typed answer is classified, and only then is the destination called.
AfterPrior(lease, k, answer) ==
    IF answer \in {"succeeded", "unresolved"} THEN {Decided(answer, FALSE, TRUE)}
    ELSE {Decided("refused", FALSE, TRUE)} \cup
         (IF answer = "absent" THEN Executed(lease, k)
          ELSE {Decided(Classified(lease, answer), FALSE, TRUE)})

RunDecisions(lease, k) ==
    IF ~Retried(lease) /\ ~destination[k].registered
    THEN {Decided("refused", FALSE, FALSE)}
    ELSE (IF Retried(lease) THEN {} ELSE {Decided("refused", FALSE, FALSE)}) \cup
         UNION {AfterPrior(lease, k, answer) : answer \in PriorAnswers(k)}

\* _recover: reconcile, never invoke.
RecoverDecisions(lease, k) ==
    LET absent == IF Mode(lease) = "cancel_requested" THEN "cancelled" ELSE "failed"
    IN  IF Mode(lease) = "cancel_requested" /\ lease.attempts = 0
        THEN {Decided("cancelled", FALSE, FALSE)}
        ELSE {Decided(IF a \in {"succeeded", "unresolved"} THEN a ELSE absent,
                      FALSE, TRUE) : a \in PriorAnswers(k)}

Decisions(lease, k) ==
    IF Mode(lease) = "run" THEN RunDecisions(lease, k) ELSE RecoverDecisions(lease, k)
-----------------------------------------------------------------------------
(* A round commits, or is rolled back.                                       *)

\* The job state each settlement's disposition maps to.
JobOutcome(settle) ==
    CASE settle \in {"succeeded", "refused", "unresolved"} -> "succeeded"
      [] settle = "failed"    -> "failed"
      [] settle = "cancelled" -> "cancelled"
      [] OTHER                -> "queued"

\* Outside cancellation mode every write but finish_cancelled loses to the flag.
FinishApplies(w, settle) ==
    /\ Held(w)
    /\ \/ ~job[worker[w].key].cancel_requested
       \/ Mode(worker[w]) = "cancel_requested" \/ settle = "cancelled"

JobWritten(k, settle) ==
    job' = [job EXCEPT ![k].state = JobOutcome(settle), ![k].owner = Nobody,
                       ![k].live = FALSE]

\* The five rows' terminal writes; a retry only leaves the action executing.
Settle(k, settle) ==
    /\ action' = [action EXCEPT ![k] = IF settle = "retry" THEN "executing" ELSE settle]
    /\ approval' = [approval EXCEPT ![k] =
                      CASE settle = "retry" -> @
                        [] settle \in {"refused", "cancelled"} -> "refused"
                        [] OTHER -> "executed"]
    /\ operation' = [operation EXCEPT ![k] =
                      CASE settle = "retry" -> @
                        [] settle = "refused" -> "failed"
                        [] OTHER -> settle]
    /\ envelope' = [envelope EXCEPT ![k] = IF settle = "retry" THEN @ ELSE settle]
    /\ JobWritten(k, settle)

Landed(k, landed) ==
    effects' = IF landed THEN [effects EXCEPT ![k] = @ + 1] ELSE effects

Leave(w) == worker' = [worker EXCEPT ![w] = Idle]
Goto(w, place) == worker' = [worker EXCEPT ![w].at = place]

\* A round that is committed with its job write.
CommitRound(w) ==
    LET k == worker[w].key IN
    /\ worker[w].at = "round" /\ Bound(w)
    /\ \E d \in Decisions(worker[w], k) :
         /\ FinishApplies(w, d.settle)
         /\ Settle(k, d.settle) /\ Landed(k, d.landed)
         /\ requestId' = [requestId EXCEPT ![k] = @ \/
              (d.asked /\ destination[k].provider /\ destination[k].registered)]
    /\ Leave(w)
    /\ UNCHANGED <<destination, byHand, told, faults>>

\* A round whose job write did not apply: all is rolled back but a provider's effect.
LoseRound(w) ==
    LET k == worker[w].key IN
    /\ worker[w].at = "round" /\ Bound(w)
    /\ \E d \in Decisions(worker[w], k) :
         /\ ~FinishApplies(w, d.settle)
         /\ Landed(k, d.landed /\ destination[k].provider)
    /\ Goto(w, "recheck")
    /\ UNCHANGED <<rows, job, destination, requestId, byHand, told, faults>>

\* The grant is refused: the lease was lost, so the failed finish does not apply.
GrantRefused(w) ==
    LET k == worker[w].key IN
    /\ worker[w].at = "round" /\ ~Bound(w)
    /\ IF FinishApplies(w, "failed")
       THEN JobWritten(k, "failed") /\ Leave(w)
       ELSE UNCHANGED job /\ Goto(w, "recheck")
    /\ UNCHANGED <<rows, destination, requestId, effects, byHand, told, faults>>

\* The continuation raises, before or after the destination was called.
RoundRaises(w) ==
    LET k == worker[w].key IN
    /\ worker[w].at = "round" /\ faults < MaxFaults /\ faults' = faults + 1
    /\ \/ UNCHANGED effects
       \/ /\ Bound(w) /\ \E d \in Decisions(worker[w], k) : d.landed
          /\ Landed(k, destination[k].provider)
    /\ Goto(w, "faulted")
    /\ UNCHANGED <<rows, job, destination, requestId, byHand, told>>

RequeueFaulted(w) ==
    LET k == worker[w].key IN
    /\ worker[w].at = "faulted"
    /\ IF FinishApplies(w, "retry") /\ ~job[k].cancel_requested
       THEN JobWritten(k, "retry") /\ Leave(w)
       ELSE UNCHANGED job /\ Goto(w, "recheck")
    /\ UNCHANGED <<rows, destination, requestId, effects, byHand, told, faults>>

\* A cancellation is why the round was lost: once more, in cancellation mode.
RecheckCancellation(w) ==
    LET k == worker[w].key IN
    /\ worker[w].at = "recheck"
    /\ IF Mode(worker[w]) # "cancel_requested" /\ Held(w) /\ job[k].cancel_requested
       THEN worker' = [worker EXCEPT ![w].at = "round", ![w].round = 2]
       ELSE Leave(w)
    /\ UNCHANGED <<rows, job, destination, requestId, effects, byHand, told, faults>>

\* The process dies, before or after it called the provider.
Crash(w) ==
    LET k == worker[w].key IN
    /\ worker[w].at # "idle" /\ faults < MaxFaults /\ faults' = faults + 1
    /\ \/ UNCHANGED effects
       \/ /\ worker[w].at = "round" /\ Bound(w)
          /\ \E d \in Decisions(worker[w], k) : d.landed
          /\ Landed(k, destination[k].provider)
    /\ Leave(w)
    /\ UNCHANGED <<rows, job, destination, requestId, byHand, told>>

\* A lease runs out under nobody, or under a worker that stalls between transactions.
LeaseLapses(k) ==
    /\ job[k].state = "leased" /\ job[k].live
    /\ IF worker[job[k].owner].key = k
       THEN faults < MaxFaults /\ faults' = faults + 1 ELSE UNCHANGED faults
    /\ job' = [job EXCEPT ![k].live = FALSE]
    /\ UNCHANGED <<rows, worker, destination, requestId, effects, byHand, told>>

\* A build that no longer registers the destination is deployed, or one that does.
Redeploy(k) ==
    /\ destination' = [destination EXCEPT ![k].registered = ~@]
    /\ UNCHANGED <<rows, job, worker, requestId, effects, byHand, told, faults>>
-----------------------------------------------------------------------------
(* core.operation.resolve.                                                   *)

\* What the destination's reconcile confirms, asked with the row's request id: an
\* effect it cannot be asked about by id is one it does not report.
Confirmed(k) == destination[k].provider /\ requestId[k] /\ effects[k] > 0

ResolveExternal(k) ==
    /\ action[k] = "unresolved" /\ envelope[k] = "unresolved"
    /\ operation[k] = "unresolved"
    /\ \E outcome \in {"succeeded", "failed", "cancelled"} :
         /\ outcome # "cancelled" =>
              destination[k].registered /\ destination[k].provider
         /\ outcome = "succeeded" => Confirmed(k)
         /\ outcome = "failed" => ~Confirmed(k)
         /\ action' = [action EXCEPT ![k] = outcome]
         /\ operation' = [operation EXCEPT ![k] = outcome]
         /\ envelope' = [envelope EXCEPT ![k] = outcome]
    /\ byHand' = byHand \cup {k}
    /\ UNCHANGED <<approval, job, worker, destination, requestId, effects, told, faults>>
-----------------------------------------------------------------------------
WorkerStep(w) ==
    \/ CommitRound(w) \/ LoseRound(w) \/ GrantRefused(w)
    \/ RequeueFaulted(w) \/ RecheckCancellation(w)

Next ==
    \/ \E k \in Keys :
         \/ StageExternal(k) \/ ReplayStaged(k) \/ RequestRefused(k)
         \/ QueueApprovedExternal(k) \/ GuardRefusesApproval(k)
         \/ RefuseStagedExternal(k) \/ PurgeExpired(k) \/ RequestCancellation(k) \/ LeaseLapses(k) \/ Redeploy(k)
         \/ ResolveExternal(k)
    \/ \E w \in Workers :
         \/ \E k \in Keys : AcquireLease(w, k)
         \/ WorkerStep(w) \/ RoundRaises(w) \/ Crash(w)

Spec == Init /\ [][Next]_vars

\* Workers keep working, a queued job becomes due and an abandoned lease runs out.
Fairness ==
    /\ \A w \in Workers : WF_vars(WorkerStep(w))
    /\ \A k \in Keys : /\ WF_vars(LeaseLapses(k))
                       /\ WF_vars(\E w \in Workers : AcquireLease(w, k))

FairSpec == Spec /\ Fairness
-----------------------------------------------------------------------------
(* The effect of an approved action lands at most once, whatever crashes,    *)
(* raises, loses its lease or is cancelled around the call, although a       *)
(* rollback erases every trace of the call from the rows (continuation.py    *)
(* _prior_effect, continue_approved_external_in_transaction).                *)
EffectAtMostOnce == \A k \in Keys : effects[k] <= 1

(* The five rows agree in every committed state: an open action has its      *)
(* pending envelope, and a running continuation if it is approved; a settled *)
(* or unresolved one has a consumed approval, a matching record and envelope *)
(* and no live job (the _settle_* functions, refuse_staged_external,         *)
(* resolve_external, purge_expired).                                         *)
RowsAgree ==
    \A k \in Keys :
        CASE action[k] = "none" ->
               approval[k] = "none" /\ operation[k] = "none" /\ job[k] = NoJob
          [] action[k] \in Open ->
               /\ envelope[k] = "pending"
               /\ \/ /\ approval[k] = "pending" /\ operation[k] = "approval_required"
                     /\ job[k].state = "none" /\ action[k] = "pending"
                  \/ /\ approval[k] = "approved" /\ operation[k] = "running"
                     /\ job[k].state \in {"queued", "leased"}
          [] OTHER ->
               /\ approval[k] \in {"executed", "refused"}
               /\ operation[k] \in (IF action[k] = "refused"
                                    THEN {"failed", "cancelled"} ELSE {action[k]})
               /\ job[k].state \notin {"queued", "leased"}
               /\ envelope[k] \in {action[k]} \cup
                    (IF action[k] = "unresolved" THEN {} ELSE {"none"})

(* What the program settles is true: a failed, refused or cancelled action   *)
(* had no effect and will have none, a succeeded one had it.  Only an action *)
(* a person resolved is exempt (continuation.py, "Nothing that cannot prove  *)
(* absence settles failed, cancelled or refused").  And the rows all say so.  *)
SettledTruthfully ==
    /\ \A k \in Keys \ byHand :
         /\ action[k] \in {"failed", "refused", "cancelled"} => effects[k] = 0
         /\ action[k] = "succeeded" => effects[k] = 1
    /\ RowsAgree

(* A caller that was told a settled outcome under its key is never told of    *)
(* another, nor of an approval that waits: a later request is answered that   *)
(* outcome, or a refusal or error that carries no operation_id and so names   *)
(* none (the key is spent, the retained envelope is unreadable, the module is *)
(* not ready, the commit raised).  And once it was told that the key is       *)
(* spent, no answer names an outcome again (transaction.py _replay_staged,    *)
(* dispatch.py _stage_external, idempotency.py replay and purge_expired).     *)
AnswersStand ==
    [][\A k \in Keys :
         /\ told[k].outcome \in Settled =>
              told'[k].answer \in {told[k].outcome} \cup Unnamed
         /\ told[k].spent => told'[k].answer \in Unnamed]_vars

(* Every action whose continuation was queued is settled or handed to a      *)
(* person as unresolved, through crashes, stalls, raising rounds,            *)
(* cancellations and redeployments (loop.py _run_continuation).              *)
ApprovedActionSettles ==
    \A k \in Keys : (job[k].state # "none") ~> (action[k] \notin Open)

(* "A failed action is always proven no-effect" (continuation.py, module     *)
(* docstring), for what a person resolved as well.                           *)
FailedMeansNoEffect == \A k \in Keys : action[k] = "failed" => effects[k] = 0
=============================================================================
