-------------------------------- MODULE Jobs --------------------------------
(***************************************************************************)
(* The durable job of one workspace: its core.job row, the lease a worker  *)
(* holds on it, the core.operation record it may carry, and the worker     *)
(* loop that takes a leased job from its gates to its terminal write       *)
(* (packages/core/src/rheo_core/work/{jobs,loop,cancellation,kinds}.py,    *)
(* operations/records.py and the long-running arm of operations/dispatch). *)
(*                                                                         *)
(* Each action is one database transaction, or one step of a worker        *)
(* between two of them.  Time is abstracted to the two comparisons the     *)
(* code makes with its clock: "due" is next_run_at <= now and "live" is    *)
(* lease_until >= now; the passage of time turns either over.              *)
(***************************************************************************)
EXTENDS Naturals

CONSTANTS
    Jobs,             \* the job rows that may be enqueued
    Workers,          \* worker processes, by lease owner
    NoOne,            \* a null lease_owner
    Continuations,    \* jobs of the kind core.external_action.execute
    Recorded,         \* jobs whose row carries an operation_id
    Rejected,         \* for a package version, the jobs it rejects: it does not register
                      \* their kind, or its model does not validate their stored input
    MaxAttempts,      \* max_attempts of every row
    MaxFaults,        \* bound on crashes, stalls and continuation faults
    AnswersMayBeLost  \* whether the answer to a dispatch's commit may be lost

ASSUME JobsAssumption ==
    /\ Continuations \subseteq Jobs
    /\ Recorded \subseteq Jobs \ Continuations
    /\ Rejected \in [{0, 1} -> SUBSET (Jobs \ Continuations)]
    /\ NoOne \notin Workers /\ NoOne \notin Jobs
    /\ MaxAttempts \in Nat \ {0} /\ MaxFaults \in Nat
    /\ AnswersMayBeLost \in BOOLEAN

VARIABLES
    job,       \* core.job
    record,    \* the state of the core.operation record a job carries
    dispatch,  \* how far the dispatcher of a recorded job has come
    worker,    \* each worker's place in the loop and the lease it was handed
    effects,   \* committed transactions that carried a job's effects or settlement
    runs,      \* how often a job's handler was entered
    package,   \* the module package version a worker process has loaded
    schema,    \* the module version the workspace database is upgraded to
    faults     \* crashes, stalls and continuation faults so far

vars == <<job, record, dispatch, worker, effects, runs, package, schema, faults>>
-----------------------------------------------------------------------------
Terminal == {"succeeded", "failed", "cancelled"}
States   == {"absent", "queued", "leased"} \cup Terminal
Versions == {0, 1}

Ordinary == Jobs \ Continuations

NoRow == [state |-> "absent", lease_owner |-> NoOne, live |-> FALSE,
          due |-> FALSE, attempts |-> 0, cancel_requested |-> FALSE]

Idle == [at |-> "idle", job |-> NoOne, attempts |-> 0,
         cancel_requested |-> FALSE, round |-> 0]

Rows == [state : States, lease_owner : Workers \cup {NoOne}, live : BOOLEAN,
         due : BOOLEAN, attempts : Nat, cancel_requested : BOOLEAN]

\* A worker's places in the loop, for an ordinary job and for a continuation.
OrdinaryPlaces == {"gates", "reject", "start", "handler", "raised", "unready", "resolve"}
ContinuationPlaces == {"continue", "faulted", "recheck"}

\* A worker's place and the lease it was handed (LeasedJob).
Leases == [at : {"idle"} \cup OrdinaryPlaces \cup ContinuationPlaces,
           job : Jobs \cup {NoOne}, attempts : Nat,
           cancel_requested : BOOLEAN, round : {0, 1, 2}]

TypeOK ==
    /\ job \in [Jobs -> Rows]
    /\ record \in [Jobs -> {"none", "pending"} \cup Terminal]
    /\ dispatch \in [Jobs -> {"none", "minted", "doubt", "done"}]
    /\ worker \in [Workers -> Leases]
    /\ effects \in [Jobs -> Nat] /\ runs \in [Jobs -> Nat]
    /\ package \in [Workers -> Versions] /\ schema \in Versions
    /\ faults \in 0..MaxFaults

Init ==
    /\ job = [j \in Jobs |-> NoRow]
    /\ record = [j \in Jobs |-> "none"]
    /\ dispatch = [j \in Jobs |-> "none"]
    /\ worker = [w \in Workers |-> Idle]
    /\ effects = [j \in Jobs |-> 0] /\ runs = [j \in Jobs |-> 0]
    /\ package = [w \in Workers |-> 0] /\ schema = 0
    /\ faults = 0
-----------------------------------------------------------------------------
(* The row: predicates and writes of work/jobs.py, operations/records.py.    *)

Held(w, j) == job[j].state = "leased" /\ job[j].lease_owner = w

\* Mutant of HeldUncancelled: AND cancel_requested = false is left out.
HeldEvenIfCancelled(w, j) == Held(w, j)

HeldUncancelled(w, j) == Held(w, j) /\ ~job[j].cancel_requested

\* Mutant of Candidate: the crash-recovery arm is left out.
CandidateQueuedOnly(j) == job[j].state = "queued" /\ job[j].due

Candidate(j) ==
    \/ job[j].state = "queued" /\ job[j].due
    \/ job[j].state = "leased" /\ ~job[j].live

CountedAttempts(row) ==
    IF row.cancel_requested THEN row.attempts ELSE row.attempts + 1

Queued(row, due) == [row EXCEPT !.state = "queued", !.due = due]

Acquired(row, w) ==
    [row EXCEPT !.state = "leased", !.lease_owner = w, !.live = TRUE,
                !.attempts = CountedAttempts(row)]

Extended(row) == [row EXCEPT !.live = TRUE]

Lapsed(row) == [row EXCEPT !.live = FALSE]

Due(row) == [row EXCEPT !.due = TRUE]

\* A queued ordinary row ends at once, a leased row is only flagged, and a queued
\* continuation is flagged and made due, so that a worker reconciles it.
CancelRequested(row, j) ==
    IF row.state = "queued" /\ j \in Ordinary
    THEN [row EXCEPT !.state = "cancelled", !.cancel_requested = TRUE]
    ELSE [row EXCEPT !.cancel_requested = TRUE,
                     !.due = IF row.state = "queued" THEN TRUE ELSE @]

Finished(row, outcome) ==
    [row EXCEPT !.state = outcome, !.lease_owner = NoOne, !.live = FALSE]

Requeued(row) ==
    [row EXCEPT !.state = "queued", !.lease_owner = NoOne, !.live = FALSE,
                !.due = FALSE]

Deferred(row) == [Requeued(row) EXCEPT !.attempts = @ - 1]

\* A record's terminal write matches only while the record is open.
CloseRecord(j, outcome) ==
    record' = [record EXCEPT ![j] = IF @ = "pending" THEN outcome ELSE @]

\* A job's terminal write and its record's, in one transaction.
FinishWithOperation(j, outcome) ==
    /\ job' = [job EXCEPT ![j] = Finished(@, outcome)]
    /\ CloseRecord(j, outcome)

\* Mutant of Exhausted: off by one on the crash side.
ExhaustedLate(lease) == lease.attempts > MaxAttempts + 1

\* The crash side of the budget, seen by the next lease ...
Exhausted(lease) == lease.attempts > MaxAttempts

\* Mutant of Spent: off by one on the exception side.
SpentEarly(lease) == lease.attempts + 1 >= MaxAttempts

\* ... and the exception side, seen by the worker whose handler raised.
Spent(lease) == lease.attempts >= MaxAttempts

Ready(w) == package[w] = schema

Goto(w, place) == worker' = [worker EXCEPT ![w].at = place]

Leave(w) == worker' = [worker EXCEPT ![w] = Idle]
-----------------------------------------------------------------------------
(* Enqueueing: a bare job, and a job queued by a long-running dispatch.      *)

Enqueue(j) ==
    /\ j \notin Recorded /\ job[j].state = "absent"
    /\ \E due \in BOOLEAN : job' = [job EXCEPT ![j] = Queued(@, due)]
    /\ UNCHANGED <<record, dispatch, worker, effects, runs, package, schema, faults>>

MintOperation(j) ==
    /\ j \in Recorded /\ dispatch[j] = "none"
    /\ dispatch' = [dispatch EXCEPT ![j] = "minted"]
    /\ record' = [record EXCEPT ![j] = "pending"]
    /\ UNCHANGED <<job, worker, effects, runs, package, schema, faults>>

\* The handler's transaction, with the job it queued, commits.
CommitDispatch(j) ==
    /\ dispatch[j] = "minted"
    /\ \E due \in BOOLEAN : job' = [job EXCEPT ![j] = Queued(@, due)]
    /\ \/ dispatch' = [dispatch EXCEPT ![j] = "done"]
       \/ /\ AnswersMayBeLost   \* committed, but commit() raised in the dispatcher
          /\ dispatch' = [dispatch EXCEPT ![j] = "doubt"]
    /\ UNCHANGED <<record, worker, effects, runs, package, schema, faults>>

\* The handler refused, raised or queued no job, or its commit raised.
FailOperation(j) ==
    /\ dispatch[j] \in {"minted", "doubt"}
    /\ dispatch' = [dispatch EXCEPT ![j] = "done"]
    /\ CloseRecord(j, "failed")
    /\ UNCHANGED <<job, worker, effects, runs, package, schema, faults>>

Cancellable(j) == job[j].state \in {"queued", "leased"}

\* Mutant of RequestCancellation: the queued branch leaves the record alone.
RequestCancellationJobOnly(j) ==
    /\ Cancellable(j)
    /\ job' = [job EXCEPT ![j] = CancelRequested(@, j)]
    /\ UNCHANGED <<record, dispatch, worker, effects, runs, package, schema, faults>>

RequestCancellation(j) ==
    /\ Cancellable(j)
    /\ job' = [job EXCEPT ![j] = CancelRequested(@, j)]
    /\ IF job[j].state = "queued" /\ j \in Ordinary
       THEN CloseRecord(j, "cancelled") ELSE UNCHANGED record
    /\ UNCHANGED <<dispatch, worker, effects, runs, package, schema, faults>>
-----------------------------------------------------------------------------
(* The worker loop, for an ordinary kind.                                    *)

\* What the acquire hands its worker, as it stood when the row was leased.
LeasedJob(j) ==
    [at |-> IF j \in Continuations THEN "continue" ELSE "gates", job |-> j,
     attempts |-> CountedAttempts(job[j]),
     cancel_requested |-> job[j].cancel_requested, round |-> 1]

AcquireLease(w, j) ==
    /\ worker[w].at = "idle" /\ Candidate(j)
    /\ job' = [job EXCEPT ![j] = Acquired(@, w)]
    /\ worker' = [worker EXCEPT ![w] = LeasedJob(j)]
    /\ UNCHANGED <<record, dispatch, effects, runs, package, schema, faults>>

\* Gate 1: cancellation wins over exhaustion.
CancelGate(w) ==
    /\ worker[w].at = "gates" /\ worker[w].cancel_requested
    /\ IF Held(w, worker[w].job)
       THEN FinishWithOperation(worker[w].job, "cancelled")
       ELSE UNCHANGED <<job, record>>
    /\ Leave(w)
    /\ UNCHANGED <<dispatch, effects, runs, package, schema, faults>>

\* Gate 2: the crash side of the retry budget; a zero rowcount is only logged.
BudgetGate(w) ==
    /\ worker[w].at = "gates" /\ ~worker[w].cancel_requested
    /\ Exhausted(worker[w])
    /\ IF HeldUncancelled(w, worker[w].job)
       THEN FinishWithOperation(worker[w].job, "failed")
       ELSE UNCHANGED <<job, record>>
    /\ Leave(w)
    /\ UNCHANGED <<dispatch, effects, runs, package, schema, faults>>

\* The kind is looked up in the package this process loaded, and the stored input
\* validated by its model: on any attempt either can turn the job down.
LookupKind(w) ==
    /\ worker[w].at = "gates" /\ ~worker[w].cancel_requested
    /\ ~Exhausted(worker[w])
    /\ Goto(w, IF worker[w].job \in Rejected[package[w]] THEN "reject" ELSE "start")
    /\ UNCHANGED <<job, record, dispatch, effects, runs, package, schema, faults>>

\* Terminal on first sight, unless the package is ahead of its schema upgrade.
FailTerminally(w) ==
    LET j == worker[w].job IN
    /\ worker[w].at = "reject"
    /\ IF HeldUncancelled(w, j)
       THEN /\ Leave(w)
            /\ \/ Ready(w)  /\ FinishWithOperation(j, "failed")
               \/ ~Ready(w) /\ job' = [job EXCEPT ![j] = Deferred(@)]
                            /\ UNCHANGED record
       ELSE Goto(w, "resolve") /\ UNCHANGED <<job, record>>
    /\ UNCHANGED <<dispatch, effects, runs, package, schema, faults>>

\* Transaction 2 opens: readiness first, then the handler.
EnterHandler(w) ==
    LET j == worker[w].job IN
    /\ worker[w].at = "start"
    /\ Goto(w, IF Ready(w) THEN "handler" ELSE "unready")
    /\ runs' = IF Ready(w) THEN [runs EXCEPT ![j] = @ + 1] ELSE runs
    /\ UNCHANGED <<job, record, dispatch, effects, package, schema, faults>>

\* The token extends the lease in a transaction of its own and reads the flag.
Checkpoint(w) ==
    LET j == worker[w].job IN
    /\ worker[w].at = "handler"
    /\ job' = IF Held(w, j) THEN [job EXCEPT ![j] = Extended(@)] ELSE job
    /\ IF HeldUncancelled(w, j) THEN UNCHANGED worker ELSE Goto(w, "resolve")
    /\ UNCHANGED <<record, dispatch, effects, runs, package, schema, faults>>

\* Mutant of HandlerReturns: commits first and looks at the rowcount afterwards.
HandlerReturnsCommitFirst(w) ==
    LET j == worker[w].job IN
    /\ worker[w].at = "handler"
    /\ effects' = [effects EXCEPT ![j] = @ + 1]
    /\ IF HeldUncancelled(w, j)
       THEN FinishWithOperation(j, "succeeded") /\ Leave(w)
       ELSE Goto(w, "resolve") /\ UNCHANGED <<job, record>>
    /\ UNCHANGED <<dispatch, runs, package, schema, faults>>

\* Effects, the row's success and the record's commit together, or not at all.
HandlerReturns(w) ==
    LET j == worker[w].job IN
    /\ worker[w].at = "handler"
    /\ IF HeldUncancelled(w, j)
       THEN /\ FinishWithOperation(j, "succeeded")
            /\ effects' = [effects EXCEPT ![j] = @ + 1]
            /\ Leave(w)
       ELSE Goto(w, "resolve") /\ UNCHANGED <<job, record, effects>>
    /\ UNCHANGED <<dispatch, runs, package, schema, faults>>

\* The work transaction is rolled back; the outcome is written in another.
HandlerRaises(w) ==
    /\ worker[w].at = "handler"
    /\ Goto(w, "raised")
    /\ UNCHANGED <<job, record, dispatch, effects, runs, package, schema, faults>>

WriteFailureOutcome(w) ==
    LET j == worker[w].job IN
    /\ worker[w].at = "raised"
    /\ IF HeldUncancelled(w, j)
       THEN /\ Leave(w)
            /\ IF Spent(worker[w])
               THEN FinishWithOperation(j, "failed")
               ELSE /\ job' = [job EXCEPT ![j] = Requeued(@)]
                    /\ UNCHANGED record
       ELSE Goto(w, "resolve") /\ UNCHANGED <<job, record>>
    /\ UNCHANGED <<dispatch, effects, runs, package, schema, faults>>

DeferUnready(w) ==
    LET j == worker[w].job IN
    /\ worker[w].at = "unready"
    /\ IF HeldUncancelled(w, j)
       THEN Leave(w) /\ job' = [job EXCEPT ![j] = Deferred(@)]
       ELSE Goto(w, "resolve") /\ UNCHANGED job
    /\ UNCHANGED <<record, dispatch, effects, runs, package, schema, faults>>

\* The one zero-rowcount branch: cancelled if the row is still ours and flagged.
ResolveZeroRowcount(w) ==
    LET j == worker[w].job IN
    /\ worker[w].at = "resolve"
    /\ IF Held(w, j) /\ job[j].cancel_requested
       THEN FinishWithOperation(j, "cancelled")
       ELSE UNCHANGED <<job, record>>
    /\ Leave(w)
    /\ UNCHANGED <<dispatch, effects, runs, package, schema, faults>>
-----------------------------------------------------------------------------
(* The worker loop, for the continuation kind.  The continuation locks the   *)
(* job row before it settles anything, so a round is one step; what it       *)
(* decides is one of the dispositions its mode admits.                       *)

Mode(lease) ==
    IF lease.cancel_requested \/ lease.round = 2 THEN "cancel_requested"
    ELSE IF Exhausted(lease) THEN "budget_exhausted_recovery"
    ELSE "run"

Dispositions(lease) ==
    CASE Mode(lease) = "cancel_requested" -> {"succeeded", "cancelled"}
      [] Mode(lease) = "budget_exhausted_recovery" -> {"succeeded", "failed"}
      [] OTHER -> Terminal \cup
                  (IF Spent(lease) THEN {} ELSE {"retry"})

\* Outside cancellation mode a flag that landed during the run loses the write.
FinishApplies(w) ==
    \/ HeldUncancelled(w, worker[w].job)
    \/ Mode(worker[w]) = "cancel_requested" /\ Held(w, worker[w].job)

RunContinuation(w) ==
    LET j == worker[w].job IN
    /\ worker[w].at = "continue"
    /\ \E d \in Dispositions(worker[w]) :
         IF FinishApplies(w) \/ (d = "cancelled" /\ Held(w, j))
         THEN /\ job' = [job EXCEPT ![j] = IF d = "retry" THEN Requeued(@)
                                                          ELSE Finished(@, d)]
              /\ effects' = IF d = "retry" THEN effects
                            ELSE [effects EXCEPT ![j] = @ + 1]
              /\ Leave(w)
         ELSE Goto(w, "recheck") /\ UNCHANGED <<job, effects>>
    /\ UNCHANGED <<record, dispatch, runs, package, schema, faults>>

ContinuationRaises(w) ==
    /\ worker[w].at = "continue" /\ faults < MaxFaults
    /\ faults' = faults + 1
    /\ Goto(w, "faulted")
    /\ UNCHANGED <<job, record, dispatch, effects, runs, package, schema>>

RequeueFaulted(w) ==
    LET j == worker[w].job IN
    /\ worker[w].at = "faulted"
    /\ IF HeldUncancelled(w, j)
       THEN Leave(w) /\ job' = [job EXCEPT ![j] = Requeued(@)]
       ELSE Goto(w, "recheck") /\ UNCHANGED job
    /\ UNCHANGED <<record, dispatch, effects, runs, package, schema, faults>>

SecondRound(w) == worker' = [worker EXCEPT ![w].at = "continue", ![w].round = 2]

\* A second round, in cancellation mode, if the flag is why the first was lost.
RecheckCancellation(w) ==
    LET j == worker[w].job IN
    /\ worker[w].at = "recheck"
    /\ IF /\ Mode(worker[w]) # "cancel_requested"
          /\ Held(w, j) /\ job[j].cancel_requested
       THEN SecondRound(w)
       ELSE Leave(w)
    /\ UNCHANGED <<job, record, dispatch, effects, runs, package, schema, faults>>
-----------------------------------------------------------------------------
(* Time, faults and the rollout of a module upgrade.                         *)

BecomesDue(j) ==
    /\ job[j].state = "queued" /\ ~job[j].due
    /\ job' = [job EXCEPT ![j] = Due(@)]
    /\ UNCHANGED <<record, dispatch, worker, effects, runs, package, schema, faults>>

\* A lease runs out because nobody works on it any more ...
LeaseLapses(j) ==
    /\ job[j].state = "leased" /\ job[j].live
    /\ worker[job[j].lease_owner].job # j
    /\ job' = [job EXCEPT ![j] = Lapsed(@)]
    /\ UNCHANGED <<record, dispatch, worker, effects, runs, package, schema, faults>>

\* ... or under a worker that is still at it.
WorkerStalls(j) ==
    /\ job[j].state = "leased" /\ job[j].live
    /\ worker[job[j].lease_owner].job = j
    /\ faults < MaxFaults /\ faults' = faults + 1
    /\ job' = [job EXCEPT ![j] = Lapsed(@)]
    /\ UNCHANGED <<record, dispatch, worker, effects, runs, package, schema>>

\* The process dies, or its transaction fails and the pass gives the job up.
Crash(w) ==
    /\ worker[w].at # "idle" /\ faults < MaxFaults
    /\ faults' = faults + 1
    /\ Leave(w)
    /\ UNCHANGED <<job, record, dispatch, effects, runs, package, schema>>

\* A worker process is replaced by one that loads the new module package.
Deploy(w) ==
    /\ package[w] = 0
    /\ package' = [package EXCEPT ![w] = 1]
    /\ Leave(w)
    /\ UNCHANGED <<job, record, dispatch, effects, runs, schema, faults>>

\* The upgrade needs the execution lock that every running handler shares.
UpgradeModule ==
    /\ schema = 0 /\ \A w \in Workers : worker[w].at # "handler"
    /\ schema' = 1
    /\ UNCHANGED <<job, record, dispatch, worker, effects, runs, package, faults>>
-----------------------------------------------------------------------------
WorkerStep(w) ==
    \/ CancelGate(w) \/ BudgetGate(w) \/ LookupKind(w) \/ FailTerminally(w)
    \/ EnterHandler(w) \/ HandlerReturns(w) \/ HandlerRaises(w)
    \/ WriteFailureOutcome(w) \/ DeferUnready(w) \/ ResolveZeroRowcount(w)
    \/ RunContinuation(w) \/ RequeueFaulted(w) \/ RecheckCancellation(w)

Next ==
    \/ \E j \in Jobs : \/ Enqueue(j) \/ MintOperation(j) \/ CommitDispatch(j)
                       \/ FailOperation(j) \/ RequestCancellation(j)
                       \/ BecomesDue(j) \/ LeaseLapses(j) \/ WorkerStalls(j)
    \/ \E w \in Workers : \/ \E j \in Jobs : AcquireLease(w, j)
                          \/ WorkerStep(w) \/ Checkpoint(w)
                          \/ ContinuationRaises(w) \/ Crash(w) \/ Deploy(w)
    \/ UpgradeModule

Spec == Init /\ [][Next]_vars

(* Workers keep stepping and handlers return; time passes; acquire_lease     *)
(* orders by next_run_at, so no due job is passed over for ever; the         *)
(* rollout of an upgrade is finished by its operator.                        *)
Fairness ==
    /\ \A w \in Workers : WF_vars(WorkerStep(w)) /\ WF_vars(Deploy(w))
    /\ \A j \in Jobs : /\ SF_vars(\E w \in Workers : AcquireLease(w, j))
                       /\ WF_vars(BecomesDue(j)) /\ WF_vars(LeaseLapses(j))
    /\ SF_vars(UpgradeModule)

FairSpec == Spec /\ Fairness
-----------------------------------------------------------------------------
(* Properties.                                                               *)

(* A job's effects are committed exactly once, by the transaction that ends  *)
(* it: an ordinary job's when it succeeds, a continuation's settlement when  *)
(* its job ends.  A worker that lost its lease, or was cancelled, commits    *)
(* nothing, however many workers ran the handler at once (_run_handler).     *)
EffectsExactlyOnce ==
    \A j \in Jobs :
        effects[j] = IF \/ job[j].state = "succeeded"
                        \/ j \in Continuations /\ job[j].state \in Terminal
                     THEN 1 ELSE 0

(* The crash arm (>) and the exception arm (>=) of the budget, deferrals     *)
(* that refund an attempt and leases lost under a running worker together    *)
(* never let a handler be entered more than max_attempts times.              *)
RunsWithinBudget == \A j \in Jobs : runs[j] <= MaxAttempts

(* Once cancellation of an ordinary job is requested it is cancelled or on   *)
(* its way there: it never ends otherwise and never waits for a retry        *)
(* (the cancel_requested predicate of the four finishes).                    *)
CancellationWins ==
    \A j \in Ordinary :
        job[j].cancel_requested => job[j].state \in {"leased", "cancelled"}

(* A job that ends as failed has its budget spent by the row's own count, or *)
(* is one that the package of the version the database is at right then does *)
(* not register or rejects the stored input of: such a job fails on its      *)
(* first attempt (_fail_terminally).  No worker with another package, ahead  *)
(* of the upgrade or behind it, fails a job for its kind or its input: it    *)
(* defers it (_unless_unready), also when the upgrade commits between its    *)
(* lookup and its write.                                                     *)
FailedOnlyForCause ==
    [][\A j \in Ordinary :
          job[j].state # "failed" /\ job'[j].state = "failed" =>
              job'[j].attempts >= MaxAttempts \/ j \in Rejected[schema]]_vars

(* The operation record of a job ends when the job ends, with the same       *)
(* outcome, and is open until then; a record whose job was never queued can  *)
(* only be pending or failed (_with_operation: "a record ends up disagreeing *)
(* with the job that owns it" only if two jobs share it).                    *)
RecordAgrees ==
    \A j \in Recorded :
        /\ job[j].state \in Terminal => record[j] = job[j].state
        /\ job[j].state \in {"queued", "leased"} => record[j] = "pending"
        /\ job[j].state = "absent" => record[j] \in {"none", "pending", "failed"}

(* A finished row never changes again: no stale worker, late cancellation or *)
(* retry moves it (_held and the state predicate of request_cancellation).   *)
TerminalForever ==
    [][\A j \in Jobs : job[j].state \in Terminal => job'[j] = job[j]]_vars

(* While a lease is live only its owner may end, requeue or hand over the    *)
(* row; a worker whose lease was taken writes nothing.                       *)
LeaseExclusive ==
    [][\A j \in Jobs, w \in Workers :
          /\ job[j].state = "leased" /\ job[j].lease_owner = w /\ job[j].live
          /\ worker'[w] = worker[w]
          => /\ job'[j].state = "leased" /\ job'[j].lease_owner = w
             /\ job'[j].attempts = job[j].attempts]_vars

(* A row flagged while leased is never put back on the queue, whatever its   *)
(* kind: "a cancelled running task requeued for a further retry".            *)
CancelledNeverRequeued ==
    [][\A j \in Jobs : job[j].state = "leased" /\ job[j].cancel_requested
                        => job'[j].state # "queued"]_vars

(* Every queued job reaches a terminal state, whatever crashes, stalls,      *)
(* cancellations and upgrades happen on the way.                             *)
EveryJobEnds ==
    \A j \in Jobs : job[j].state = "queued" ~> job[j].state \in Terminal
=============================================================================
