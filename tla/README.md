# Rheostream: a TLA+ verification of its durable work

Rheostream is a self-hosted, multi-workspace application: a Python core
(`src/packages/core`), product modules on top of it, a worker process, a bridge on the
user's laptop, and a web and an MCP surface. What it does asynchronously goes through
one mechanism: durable jobs and outbox events in each workspace's PostgreSQL database,
and a due-work index in the control database that tells worker processes where to look.
On top of it stand services whose steps cross a boundary no transaction covers: a
provider, a model, a file, another database, a browser. The mechanism and those
services carry the program's hard behaviour, and they are what this project models.
Paths below are under `src/packages/core/src/rheo_core/` unless they start with `src/`.

## 1. Inventory

### The parts that carry state and concurrency

| Part | State | Operations | Interacts with | Module |
|---|---|---|---|---|
| Jobs (`work/jobs.py`) | `core.job`: state, lease owner and expiry, attempts, cancel flag, next run | enqueue, acquire, extend, four finishes, requeue, defer, request cancellation | worker loop, dispatcher, operation records | `Jobs` |
| Worker loop (`work/loop.py`, `work/cancellation.py`) | a process's place between two transactions, the lease it was handed | pass, visit, gates, handler, failure outcome, zero-rowcount branch, continuation rounds | all below | `Jobs`, `Deliveries`, `WorkIndex` |
| Operation records (`operations/records.py`) | `core.operation`: pending or an outcome | mint, finish | dispatcher mints, worker and cancellation finish | `Jobs` |
| Dispatch (`operations/dispatch.py`, `transaction.py`) | none of its own; several transactions per call | authorise, idempotency, approval, mint, handler, fail, audit, mark | records, jobs, index | `Jobs`, `KeyedCalls`, `ExternalActions` |
| External actions (`operations/continuation.py`, `external_actions.py`) | action, approval, record, envelope and job rows; a provider's state outside | stage, approve, refuse, run, recover, settle, resolve | worker loop, approvals | `ExternalActions` |
| Idempotency (`operations/idempotency.py`) | keyed rows | reserve, replay, finish, release, expire | dispatch | `KeyedCalls` |
| Outbox events (`events/*.py`) | `core.outbox_event`, `core.event_delivery`, `core.consumer_processed`, `core.outbox_retention` | publish, lease, deliver, retry, skip, replay, sweep | module consumers, worker loop, a person | `Deliveries` |
| Due-work index (`storage/work_index.py`) | `control.workspace_work_due` | read due, mark, record visit | enqueue (another database), every worker | `WorkIndex` |
| Engine cache (`storage/pools.py`) | cached engines, pins, checked-out connections | hand out, expire, evict, dispose | units of work, visits | `EnginePool` |
| Module readiness (`modules/readiness.py`, `upgrade.py`) | module schema version, package version per process, an advisory lock | require ready, upgrade | every handler and consumer | `Jobs`, `Deliveries` |
| Schedules (`work/schedules.py`, `scheduled_authority.py`) | `core.schedule`, catch-up jobs | tick, claim, rearm, sweep in batches | visits, jobs, recallatron's retention | `Schedules` |
| Approvals, deletion, exports (`approvals/`, `deletion/`, `exports/`) | held calls, the record and its revision, export jobs, their files and index | hold, decide, erase with its dependents, export, sweep files | an approver, workers, participants | `Erasure` |
| Provisioning and restore (`storage/provisioning.py`, `exports/artifact.py`, `migrations/`) | `control.workspace` state and last step, the database | provision, repair, restore, migrate | processes that walk one workspace at once | `Workspaces` |
| OAuth server (`oauth/`, `storage/oauth_store.py`) | clients, authorizations, grants, refresh chains | register with cleanup, authorize, exchange, refresh, revoke | a connector's HTTP calls | `ConnectorGrants` |
| Evidence (`evidence/`, recallatron's `automatic.py`) | enrollment, pending and settled evidence, memories | record, claim, call the model, settle, age out, revoke | bridge, drain jobs, sweep | `EvidenceDrain` |
| Bridge (`src/apps/bridge`) | spool, session rows, cursors, a changing transcript | hook, drain, post, settle, close, reopen | evidence ingest | `Bridge` |
| Job feed (`src/modules/leads/.../jobfeed`, `connectors/oauth.py`) | connection row, secret files, tokens upstream, delivered numbers | connect, select, disconnect, refresh, deliver | the provider, a person, a run | `JobFeed` |
| Job scoring (`src/modules/leads/.../scoring`) | score rows, claim windows, profile | refresh, claim, assess, record, defer, promote | a model, postings, the owner | `JobScoring` |
| Proposals (`src/modules/leads/.../proposals`) | draft requests, pricing requests, sections, milestones | request, edit, delete, price, draft, record, renew | a model, members | `Proposals` |

The other components (sessions, settings, redaction, refs, routing, loader, secrets,
audit, runtimes, the modules current and relationships, the apps besides the bridge)
are listed in `PROJECT.json` with the reason they are left aside: they are pure data
transformations, I/O against third parties, or single-row writes with one writer.

### What is hard here

- **Leases without mutual exclusion.** A lease is a timestamp. When it runs out under
  a slow handler, a second worker enters the same handler, and both are alive. Only
  the predicates of the terminal writes (`_held`, and `cancel_requested = false`)
  and the order "write first, commit if it matched" keep effects single.
- **Cancellation against everything.** The flag may be set before the gates, inside
  the handler, after the last checkpoint, while the failure is being written, or in
  either round of a continuation.
- **Two-sided budgets.** `attempts > max` for a worker that died, `attempts >= max`
  for a handler that raised, refunds for deferrals, no charge for a cancelled row.
- **Two databases, no common transaction.** An enqueue commits in the workspace and
  marks the control plane afterwards; visits write back with a compare-and-set.
- **Two transactions per dispatch.** The record is minted before the job is queued.
- **Order under failure.** Per consumer and subject, deliveries are serial, and a
  failed one blocks its queue until a person retries, skips or replays, while the
  retention sweep deletes behind it.
- **Rolling upgrades.** A worker's package may be ahead of, or behind, a workspace's
  schema while jobs and deliveries of that module are due.

- **Effects no rollback takes back.** A provider is called, a token rotated upstream, a
  file written, a batch posted inside or before a transaction that may fail, or whose
  answer may be lost; the retry must find out, not repeat.
- **Models in the middle.** A drain, a scoring sweep or a drafting sweep claims a row,
  waits minutes for a model with no or few locks held, and records: meanwhile the row
  may be revoked, moved, promoted, deleted, or taken over.
- **Cleanups that must not forget.** Purged keys, deleted authorizations and forgotten
  postings must not make a spent key, code or number fresh again.

`PROJECT.json` lists these as hazards, each at the line where it bites, with the
properties that would catch it going wrong.

## 2. Modules

| Module | Models | Kind |
|---|---|---|
| `Jobs` | job rows, leases, records, worker loop | state machine |
| `JobContract` | what a caller may rely on | abstract specification |
| `JobsRefinement` | the mapping from `Jobs` to `JobContract` | refinement |
| `Deliveries` | outbox, deliveries, ledger, replay, retention | state machine |
| `WorkIndex` | due-work index, passes, visits, marks | state machine with a clock |
| `ExternalActions` | a keyed external action from its staging to its resolution | state machine |
| `KeyedCalls` | synchronous calls under one key | state machine |
| `ConnectorGrants` | clients, codes, grants and refresh values of the OAuth server | state machine |
| `Workspaces` | provisioning, repair, restore and migration of one workspace | state machine |
| `EnginePool` | the engine cache and its borrowers | state machine |
| `Erasure` | held calls, an approved erasure, exports and their files | state machine |
| `Schedules` | a catch-up schedule, its ticker and its sweep | state machine |
| `Bridge`, `EvidenceDrain` | automatic memory: on the laptop, on the server | state machines |
| `JobFeed`, `JobScoring`, `Proposals` | the job search of the leads module | state machines |
| `JobsProofs`, `JobsContractProof`, `DeliveriesProofs` | theorems about `Jobs`, its contract, `Deliveries` | proofs |
| `SettlementsProofs` | theorems about `ExternalActions`, `Erasure`, `JobScoring`, `Proposals` | proofs |
| `ServicesProofs`, `JobFeedProofs` | theorems about `KeyedCalls`, `Workspaces`, `ConnectorGrants`, `WorkIndex`, `EnginePool`; `JobFeed` | proofs |
| `AutomaticMemoryProofs` | theorems about `Schedules`, `EvidenceDrain`, `Bridge` | proofs |
| `LeastNumbers` | a set of numbers has a least, a bounded one a greatest | lemmas |
| `MCJobs`, `MCDeliveries`, `MCWorkIndex` | model values and symmetry | instances for TLC |
| `MCServices`, `MCSettlements`, `MCAutomaticMemory` | sums of several modules | instances for TLC |

A *sum* runs several modules that share no variable in one run: a variable `part`,
chosen in the initial state, says which of them moves, so the state space is the sum of
theirs and not the product. No fair action of a part is enabled in its initial states,
so the parts that stand still owe nothing.

### Jobs

One action is one database transaction, or one step of a worker between two. A row is
`[state, lease_owner, live, due, attempts, cancel_requested]`: the two comparisons the
code makes with its clock (`next_run_at <= now`, `lease_until < now`) are Booleans
that the passage of time (`BecomesDue`, `LeaseLapses`, `WorkerStalls`) turns over. A
worker carries the `LeasedJob` it was handed, with the attempts and the flag *as they
were at the acquire*, because the gates decide on that copy and not on the row.

`worker[w].at` is where the code stands between two transactions: `gates` (lines
427-483 of `loop.py`), `reject` (a kind not registered, or a stored input its model rejects), `start`, `handler`, `raised`,
`unready`, `resolve` (`_resolve_zero_rowcount`) and, for the continuation kind,
`continue`, `faulted` and `recheck`. `Held` and `HeldUncancelled` are the two
predicates of `jobs.py`; the row operators (`Acquired`, `Finished`, `Requeued`,
`Deferred`, `CancelRequested`) are its UPDATEs. `FinishWithOperation` is
`_with_operation`: a job's end and its record's in one transaction.

A *recorded* job is one a long-running dispatch queues: `MintOperation`,
`CommitDispatch` and `FailOperation` are the dispatcher's transactions. With
`AnswersMayBeLost`, the answer to a commit may be lost, as a connection cut between
the server's commit and the client's read of it does.

A *continuation* is a job of kind `core.external_action.execute`. Its round locks the
job row before it settles anything, so it is one step; what it decides is any
disposition its mode admits (`_continuation_mode`, `_recover`). `effects` counts its
settlements; the provider's side is `ExternalActions`.

A module upgrade is two versions: `package[w]`, what a process has loaded, and
`schema`, what the workspace is upgraded to. `require_ready` compares them; the
upgrade takes the lock every running handler shares. `Rejected[v]` are the jobs version
`v` of the package turns down at the lookup: it does not register their kind, or its
model does not validate their stored input. Such a job fails on its first attempt where
that version is the workspace's, and is deferred where it is not.

### Deliveries

An event is its outbox position. `Publish` takes a position from the sequence and
computes the fan-out; `CommitPublish` and `RollbackPublish` end the transaction, so
positions may commit out of order and leave holes. Assumption: publishes of one
subject do not overlap. The publishers in `src/modules` write and hold the row their
event is about before they publish (`SELECT ... FOR UPDATE` or a compare-and-set
update in `modules/current`, a freshly inserted row in `leads` and `evidence`), so the
guard in `Publish` is the row lock of the caller.

`EnterConsumer` is the reads that open the consumer's transaction: the ledger, the
envelope, readiness. `ConsumerReturns` is its end: effects, ledger row and the
delivered write commit together or not at all. `Blocked` is the `NOT EXISTS` of
`lease_delivery`. `Replay` is the operation with both locks it takes: the retention
row (a running sweep excludes it) and the table lock that makes it one step against
delivery writes. A sweep is two steps, the candidate read and the deletion, with
deliveries, retries and publishes in between.

`applied` is a ghost: committed handler effects since the last replay.

### WorkIndex

A workspace's jobs, deliveries and schedules are the set of instants at which one of
them needs a worker. Unlike the other modules this one has a clock, because what it
promises is a bound on delay. `Tick` carries two assumptions, both of the worker's
main loop: a tick is longer than the poll interval of an idle worker (so time does not
pass while a workspace is due and a worker is idle), and a pass lasts at most
`PassTicks`; a mark that is not lost follows its commit within as much. `index = 0`
stands for no row, which the read sorts first and treats as due. `lastFailed` is a ghost:
when a visit of the workspace last raised, from which its delay is counted.

### ExternalActions

One key of one external operation: the action, its approval, its operation record, its
envelope and its job, which the code locks together, so a continuation round is one
step (`CommitRound`, `LoseRound`, `GrantRefused`, `RoundRaises`). `effects` counts what
landed at the destination; a rollback leaves it. `PriorAnswers` is `_prior_effect`:
a destination with a reconcile is asked, one that is no longer registered cannot be.
`told[k]` is what a caller was answered: the settled outcome it last heard of, the last
answer since (an earlier one binds nothing), and whether it was told that the key is spent. `RequestRefused` is every answer
that names no outcome, to a first call or to a repeated one: an input the schema refuses,
a module that is not ready, a retained envelope of a schema this build cannot read, no
audit sink, a destination that is not available, a commit that raised.
Two idealisations: a reconcile that answers tells the truth, and a provider call is over
before the lease of the worker that made it is taken by another.

### KeyedCalls, ConnectorGrants, Workspaces, EnginePool

`KeyedCalls`: `Reservable` is the wait of `INSERT ... ON CONFLICT` for a reservation in
flight; the savepoint, the answer and the row commit together or not. A purge ends the
promise, so the ghosts `keyedEffects` and `answers` restart with it.
`ConnectorGrants`: a call to the token endpoint reads the clock when it arrives, locks
its row later and commits in one step; registration reads who is abandoned in one step
and deletes in another. `Workspaces`: each of the five steps does its work, then
records itself by compare-and-set; any number of processes walk at once. `restore` is
a history of the restore's hold on the workspace: begun, holding once the row is
restoring, overtaken when a migration that failed took the row away. `EnginePool`:
what the lock covers is one step, connections and disposal are outside it; the ordered
dictionary is the set `engines` with the order `older` on it, and the clock is the set of
databases past their idle window.

### Erasure

`hold[h]` is a call held for approval, bound to the revision it was held at. Approval
runs it in the approver's transaction: guard, second checkpoint, lock, third checkpoint
are steps between which the record may be written. An export's file is written before
the transaction that publishes it, in two steps (`ExportPacks`, `ExportWrites`): a plain
tar in a temporary file, then the archive compressed from it. `tars` says whether a
process still works on such a tar (`live`) or was killed over it (`left`). The sweep that
an erasure queues removes the archives it marked. A second attempt of an export whose first is still adrift waits.

### Schedules, EvidenceDrain, Bridge

`Schedules`: ticker and sweep lock the schedule row to their commit; the ticker skips a
locked row, the sweep waits for it. The sweep removes memories in batches, over several
dispatches, and re-arms the schedule when it leaves some. `EvidenceDrain`: a drain keeps
its rows' locks and a share of the enrollment's over the model call; `OnEvidenceRecorded`
and the follow-up bring drains back. `Bridge`: a transcript is a file that grows, is
replaced, vanishes or leaves the enrolled directory at any step of a drain; a posted
batch may be lost, or its answer. `answered` is what the server settled, a ghost.

### JobFeed, JobScoring, Proposals

`JobFeed` runs an owner's tabs and the scheduled run over one row: every short unit of
work and every call upstream is a step. `live` tokens upstream are what the provider
would still accept. In `JobScoring` a posting is the number of times its scored inputs
moved; a sweep's claim carries the number it saw. In `Proposals` times of requests and
claims are members of a small set, and `Mine` is the predicate a late record must pass.

## 3. What the runs check

| Run | Instance | Checks |
|---|---|---|
| `jobs_safety` | a continuation and a recorded job that only the new package accepts, 2 workers, budget 2, 2 faults, lost answers, an upgrade | `EffectsExactlyOnce`, `RunsWithinBudget`, `CancellationWins`, `FailedOnlyForCause` |
| `jobs_liveness` | the same jobs, budget 1, 1 fault, an upgrade, fairness | `Jobs` implements `JobContract`; `EveryJobEnds` |
| `jobs_lost_answer` | one recorded job, one worker | violation: finding 1 |
| `deliveries_safety` | 3 events of 2 subjects, 2 workers, budget 2, 1 fault, 2 acts of a person | `AppliedExactlyOnce`, `OrderKept`, `NoOrphan`, `FailedWaitsForAPerson`, `ReplayIsWhole` |
| `deliveries_liveness` | 2 events, 2 workers, 1 fault, 1 act, an upgrade, fairness | `EveryDeliveryEnds` |
| `services` | `WorkIndex`: 2 workspaces, 2 workers, a pass of 1, 1 enqueue, 1 fault, lost marks, reconcile 2, horizon 7. `KeyedCalls`: 2 callers, 2 requests, 3 faults. `ConnectorGrants`: 2 clients, 1 code, 2 calls, 2 grants. `Workspaces`: 2 walkers, 4 walks. `JobFeed`: 2 tabs, 1 run, 3 tokens. `EnginePool`: 3 databases, 2 borrowers, a cache of 1 | `BoundedDelay`, `NoStarvation`; `KeyedOnce`; `CodeSpentOnce`, `RevokedStaysDead`; `WalkersNeverUndo`; `CredentialsKept`, `RevokedStaysQuiet`, `NumbersNeverReused`; `EnginesStayCounted` |
| `settlements` | `ExternalActions`: 1 key, 2 workers, 3 faults. `Erasure`: 2 holds, 2 approvers, 1 export. `JobScoring`: 1 job, 2 sweeps. `Proposals`: 1 job, 2 sweeps. Fairness | `EffectAtMostOnce`, `SettledTruthfully`, `AnswersStand`, `ApprovedActionSettles`; `ErasesWhatWasApproved`, `ErasedFilesGo`; `ScoresAnswerInputs`, `EveryJobIsJudged`; `OwnersWorkStands`, `EveryRequestEnds` |
| `automatic_memory` | `Bridge`: 2 inodes of 2 lines, 2 faults. `EvidenceDrain`: 2 turns, 2 drainers, 2 faults. `Schedules`: 2 tickers, 2 sweepers, 3 memories of which one is stuck, batches of 2. Fairness | `NoTurnPassedOver`, `TurnsAreAnswered`; `OneMemoryPerTurn`, `NoMemoryAfterRevocation`, `RecordedTurnsSettle`; `OneCatchUp`, `RemovalIsWhole`, `ExpiredAreRemoved` |
| `work_index_mark` | 1 workspace, 1 worker, nothing lost | violation: finding 2 |
| `external_resolution` | 1 key, 2 workers, 3 faults, fairness | violation: finding 3 |
| `erased_hold` | 2 holds, 1 approver, no fault | violation: finding 4 |
| `restore_active` | 1 restore, 1 walker at a time | violation: finding 5 |

**Bounds.** Two workers are enough for a lease to be lost to another process and two
faults for it to be lost twice, or lost and then crashed over, so a row can come back
to a worker that lost it. A budget of two has a retried, a last and an exhausted
attempt. Two events of a subject have a head and a follower; the third event, of
another subject, makes positions commit out of order. Two acts let a person replay
what they have replayed, or retry and then replay. In `WorkIndex` a reconcile interval
of two ticks and a horizon of seven leave room for a lost mark, two full intervals and
the visits between them, one item that is retried keeps its workspace busy, and with two
workspaces and a pass of one somebody is always passed over.
Three faults of `ExternalActions` are a crash after the call, a lost lease and a raise.
Two holds are an erasure and a call it invalidates, or two erasures. Two calls, walkers,
tabs, sweeps or drains are the smallest race; a second refresh value, a second inode and
a second batch are the smallest repetition. Three databases over a cache of one, with
two borrowers, make the cache outgrow its cap and shrink again. Bounds that only limit
the exploration are named as such where the constants are declared. Symmetry is used
only in runs without liveness. Deadlock checking is off: when everything has ended and
every bound is used up, the system has nothing left to do. Larger instances, checked by
hand beyond the runs' time: `JobFeed` with two runs and two tabs (3.9 million states),
`JobScoring` with three acts of the owner and two jobs, `Proposals` with three acts.

**Fairness.** Weak fairness of a worker's step: a process that is alive keeps
executing, handlers return or raise (the `Checkpoint` of a long handler is not
needed), and a pass is followed by a pass. Weak fairness of time. Strong fairness of
the acquire, per row: `acquire_lease` orders by `next_run_at` and `lease_delivery` by
position, so a candidate is not passed over for ever by newer ones. Weak fairness of
`Deploy` and strong fairness of `UpgradeModule` say that an operator finishes a
rollout; without it jobs of the module are deferred for ever, which is what the code
intends. `ExternalActions`: workers step, leases lapse, candidates are acquired.
`Erasure`: the queued file sweep is run again until it ends. `Bridge`: every turn's end
runs the hook, later turns run the drain, holds elapse. `EvidenceDrain`: the daily sweep,
due jobs and deliveries run, model calls return. `Schedules`: visits tick, time falls
due; strong for a sweep, since who waits for a row lock is queued before later claims.
`JobScoring` and `Proposals`: the half-hour schedule starts sweeps, a live sweep goes
on, waits elapse. Nothing is assumed about crashes, stalls, cancellations,
redeployments or people.

Every property has a mutant of the model, kept beside the definition it changes, that
breaks it: a dropped predicate, an off-by-one, a commit before the rowcount is looked
at, a forgotten ledger or record, a missing floor, a value taken from the row where the
code takes it from the claim.

**A remark on exactly-once.** For deliveries the lease predicate and the ledger's
primary key are two guards of one property. With either removed alone, the effects
stay single in most interleavings: the mutants that break `AppliedExactlyOnce` either
commit before looking at the lease's rowcount or leave the ledger alone on replay.

## 4. What is proved

All constants are arbitrary (any number of jobs, workers, events, callers, tokens, any
budget, any number of faults), under the named assumption of each module, which asks no
more than finite sets and natural bounds, and that roles are distinct.

**Jobs** (`JobsProofs`). `TypeInv` adds to the types two facts: a worker away from
`idle` is on a job, of the kind its place belongs to (`BusyOnAJob`), and a leased row
that is not flagged has at least one attempt (`LeaseCounted`), without which the refund
of a deferral could leave the naturals. `SafetyInv` adds `EffectsExactlyOnce`,
`CancellationWins` and `DispatchInv` (a recorded job's row is absent until its
dispatch commits); together these are inductive. `RecordInv` adds the agreement of
record and job, under the assumption that no answer to a commit is lost, since
otherwise it is false (Findings). The action properties follow from one lemma about
what any step may do to a row (`StepsAreRowSafe`). `RunsWithinBudget` needs
`BudgetInv`, which counts leases: the attempts in the row cover every run so far and
every lease that may still run or give its attempt back (`Pending`), and the runs and the
leases still within the budget (`MayRun`) do not exceed it, also where a stale worker
holds a lease that was taken from it. `FailedOnlyForCause` follows from it and from
`LeaseKnows`: while a worker holds its lease its copy of the attempts is the row's, and
it rejects only what the package it loaded rejects. The write that fails a rejected job
compares that package with the schema, so the reason is the schema's too. It is an action
property because the reason is one at the time of the failure: the schema may move on.

**The contract** (`JobsContractProof`). Each step of `Jobs` is a step of `JobContract`
or leaves its variables alone. It needs one more invariant, `FlagRemembered`: the copy
of the flag a worker carries is never set unless the row's is, so that a job ends
cancelled only if somebody asked. It too assumes that no answer is lost.

**Deliveries** (`DeliveriesProofs`). On top of the types, the invariant relates the
row of every delivery to its neighbours, to the outbox, to the ledger and to the
sweep:
`OrderKept` itself is inductive together with `RowsHaveEvents` (a row has a retained
event), `FanoutSubscribes` and `SequenceGrows` (an open position has nothing of its
subject after it, so a commit never inserts behind a delivered event), `LedgerTrue`
and `AppliedTrue` (row, ledger and effects tell the same story), `SweepStable` (a
candidate of a running sweep has only settled rows, until the sweep ends:
nothing but a replay, which the retention row excludes, or a retry, which needs a
failed row, could reopen it), `SweptRemembered` (what is purged is at or below the
horizon) and `LostLease` (a worker that found its event processed before, or missing,
no longer holds the delivery: both branches of `_run_consumer` only ever serve a worker
that was overtaken).
A worker's ten steps all have one of a few shapes (`WorkerStepHasShape`), and each
shape is shown once to preserve the invariant.

**Settlements** (`SettlementsProofs`). *External actions*: `Inv` has, per key, that what
the six rows say of each other is one of three stories (`NoneAgrees`, `OpenAgrees`,
`SettledAgrees`), that what a caller was told is what the rows say or a key that is spent
(`ToldTrue`), that an effect which landed under an open action lies at a provider and
under a lease the row counts, and that settlements not made by hand are true; per worker
(`LeaseOK`), that one about to call a destination an earlier lease may have called knows
it is retried. Without the last, `_continuation_mode` could choose a first call.
*Erasure*: a transaction that approves holds its row's lock, so the call waits, and for it
alone, as it was approved (`ApproverOK`). *Scoring*: `SweepKnows` says what a sweep
carries through its model call is at most as new as the posting, and that of a promoted
job no hold is on a later revision; `JobKnown` says the same of rows and verdicts.
*Proposals*: while a draft is asked for, its edited sections may go only by force
(`ForcedOver`).

**Services** (`ServicesProofs`). *Keyed calls*: one reservation is in flight, and only
while no row is retained (`OneReservation`). *Workspaces*: every process, wherever it is
in whichever walk, and the registry row itself have behind them what the steps they passed
leave (`WalkedSoFar`, `RowSoFar`), and while a restore holds the row it is restoring or
everything is imported (`HeldSoFar`). *OAuth server*: grants are rows of a sequence; the row of a
code names the grant it bought and outlives every cleanup (`GrantOK`), a locked code is
unused, a locked refresh value is the live one (`CallOK`), and two calls never hold one
row (`LocksApart`). *Due-work index*: `PassInv` dates every pass and every mark within
`PassTicks`, and says that what a visit is about to record is no later than any item it
saw, unless it raised (`RunsWell`); an item it did not see is no older than the pass, so
the floor bounds its delay. For `NoStarvation` the invariant counts: a worker's pass is over
by the entry of a waiting workspace plus one pass for every workspace that is not before
it and for every fault, and one more while the pass it runs will push somebody behind
(`TurnComes`). A write of the index is recent, moves one workspace behind, or changes no
order (`EntryWritten`); a crash costs a pass and is counted. It assumes that there is a
worker. *Engine cache*: pins count borrowers (`PinsCount`), so neither sweep of the cache
takes a borrowed engine, and a cache over its cap holds borrowed engines only; an engine
that left never returns, because its number is spent (`LeftForGood`).

**Job feed** (`JobFeedProofs`). `FeedInv` says, token by token and client by client, what
each browser request and each run still has to do with it. Roles name it: a request
*offers* a token it will store and *drops* one it will discard; a run *found* the stored
token, *minted* its heir, *offers* that one while its switch may still win, and *drops*
one of the two. `TokenOK` keeps the roles apart: what is dropped is neither stored nor the
heir of what is stored nor offered by anyone, a minted token has one minter, and its one
predecessor is the token that run found. `Dated` ties a run to the generation it claimed:
if the token it found is stored, it is stored under the generation the run knows, so a
lost compare-and-set means that the token is gone. Each step is then one of two shapes
(`TabStep`, `RunStep`). `RevokedStaysQuiet` needs of it that a revoked connection has no
token and that a run's switch needs one; of a run left behind by a later generation
(`LeftBehind`) it needs only the claim and the generation its writes compare. `NumbersNeverReused` needs that a dedupe row
holds the greatest of its posting's receipts, and that a greatest exists (`LeastNumbers`).

**Automatic memory** (`AutomaticMemoryProofs`). *Schedules*: past its claim a visit holds
the row's lock, past its check it knows no job is unfinished, and a sweep inside the
capability holds the lock of a schedule that is on. *Evidence*: the receipt outlives the
row and counts the memory; a drain that verified a turn shares the row of a live
enrollment. *Bridge*: what the cursor passed is answered; the batch a drain carries goes
on from the row's cursor in the row's file, or starts another behind the gap that stands
for the rest, and holds every person's line in between (`BatchFits`, `Covers`).

**Only model-checked.** Everything under fairness (`EveryJobEnds`, `EveryDeliveryEnds`
and the liveness of the services), which is out of the prover's reach. Every invariant
and every action property a passing run checks has a theorem.
`LeaseExclusive`, `AttemptsWithinBudget`, `TerminalForever`, `CancelledNeverRequeued`,
`RecordAgrees` and the types of `Jobs` and `Deliveries` are proved and no run repeats
them.

## 5. Findings

1. **A dispatch whose commit is answered late fails the record of a job that runs**
   (`jobs_lost_answer`). `dispatch()` ends its record in `except Exception`, which also
   catches a `commit()` that raised although the server had committed. The record says
   `failed`, the job is queued, runs and succeeds, and its own terminal write finds the
   record closed. The comment in `_with_operation` calls two jobs on one record "the
   only way to reach that", and `_fail_operation` says every exit that reaches it "is
   one where no job does".
2. **A mark made during a visit can be discarded** (`work_index_mark`). `record_visit`
   promises that a `mark_work_due` since the read "survives untouched". A mark carries
   an instant later than the `due_at` the pass observed, so `LEAST` leaves the column
   unchanged and the compare-and-set succeeds. Work queued after the visit's last look
   waits for the reconcile interval. The third bullet of the same module's docstring
   concedes this, and `BoundedDelay` shows that the interval does bound it.
3. **A person can resolve as failed an action whose effect landed**
   (`external_resolution`). `resolve_external` asks the destination for the request id
   of the row; when the row became unresolved because its destination was not
   registered, after a rolled-back call, that id is NULL and the destination knows
   nothing of it. The module promises that a failed action is proven no-effect.
4. **A call held across an erasure stays pending** (`erased_hold`).
   `hold_for_approval` takes no lifecycle lock: one that read the record before its
   erasure and commits after it is not seen by `erase_dependents` and keeps its payload
   until somebody decides. The guards still refuse to run it.
5. **A restore activates before it marks restoring** (`restore_active`). A process that
   dies in between leaves an active, empty workspace whose restore every retry refuses.
   A second path leads to the same state: a migration that listed the workspace while it
   was active and fails under the restore sets it `unavailable` with no expected state
   (`src/packages/core/src/rheo_core/migrations/orchestrator.py:330`), and a repair walks
   on from there to `active` with nothing imported. `WalkersNeverUndo` therefore excepts a
   hold that such a migration ended (`restore = "overtaken"`).

Two more disagreements, which the models show and no run refutes:

- **A pending delivery with a ledger row.** `replay` explains its deletions with pending
  rows "which a requeue after a lost finish can leave with a ledger row"
  (`events/deliveries.py:569-573`), and `src/tests/postgres/test_work_recovery.py:898`
  writes such a row by hand as "the state a lost finish leaves". The code leaves none:
  the ledger row and the delivered write are one transaction, which commits only if the
  write matched, so a lost finish rolls the ledger row back. The third conjunct of
  `AppliedExactlyOnce`, that a pending delivery has no ledger row, holds in every
  reachable state and is proved. Since `Replay` deletes the ledger rows of pending
  deliveries too, as the code does, such a row would do no harm to a rebuild.
- **A killed export leaves the record in a temporary file.** `write_archive`
  (`exports/artifact.py:680-698`) packs everything into a plain tar made with
  `delete=False` outside the data root, and removes it in a `finally`. A worker killed in
  between leaves it, and the sweep (`exports/erasure.py:25-40`) looks for archives under
  the data root only, although `storage/data_root.py:1` calls that directory the one "for
  everything the deployment writes that is not in Postgres". `ErasedFilesGo` is therefore
  about archives and tars at which a process is still at work, and says nothing of a tar
  that was `left`.

Met while modelling and not shown by a run: a scoring sweep in flight under an old
profile records a hold or a failure after `repend_unscored` and undoes it for its job; a
posting that returns to an earlier value while a sweep runs leaves a score of the value
in between; a draft may quote milestone rows that a pricing replaced while it ran, and
`figures_stale` is set only when the draft wrote its own schedule; no enqueue sets
`depends_on_ref`, so the cancellation of dependent jobs in `erase_dependents` matches
nothing.

## 6. Not modelled

Everywhere: payloads, kinds' own handlers, backoff arithmetic and jitter (a requeued row
becomes due at some later time), formatting, wording, audit rows, roles and refusals
that write nothing. A worker that crashes between two transactions is covered, and a
transaction that fails is a crash that leaves the row leased.

- *Approvals*: standing grants, windows, previews, and approvals a restore brings back
  (`requires_reapproval`), which are row predicates over one decision.
- *Erasure*: transcripts of runtimes and the participants' own rows; a second export
  attempt's write while another worker is adrift.
- *OAuth*: the registration's rate limit and its cap, a count followed by an insert, are
  checked for one registration in flight.
- *Bridge*: a file truncated in place and grown past the cursor under the same inode,
  which the code cannot tell from growth; a path refused as outside the enrollment drops
  its row, so `NoTurnPassedOver` is about sessions whose row is present; a file replaced
  before its first read was never known to the row.
- *Job feed*: an unanswered commit of a stored token (as in finding 1), a switch that
  lands after the re-read, health codes and saved searches; tokens of a refused store
  stay live upstream.
- *Scoring and proposals*: what filters and models say is any answer; triggers that
  start a sweep before the schedule does; a claim that skips a row another holds; a first
  pricing request that commits between the read and the upsert of `_write_priced`, which
  has no row to lock then and overwrites it to ready.
- *Connectors*: discovery, the MCP client and egress rules are I/O.
- *The engine cache*: `dispose_all` at exit, hand-outs without a pin by the command line.
- *Sessions, settings, loader, manifests, runtimes, secrets, redaction, refs, routing,
  boundary contexts, web and CLI, the modules current and relationships, search and
  embedding of recallatron, migrations of leads*: pure data or I/O, or single rows with
  one writer.

## 7. Plan

1. `DeliveryContract`: each consumer's effects per subject as a sequence, implemented
   by `Deliveries`, with the proof of each step.
