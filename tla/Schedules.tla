------------------------------ MODULE Schedules ------------------------------
(***************************************************************************)
(* The catch-up schedule of one workspace, whose job removes memories past *)
(* their retention in bounded batches: the ticker every visit runs before  *)
(* it drains (packages/core/src/rheo_core/work/schedules.py), the verified *)
(* execution a worker mints for the job (work/scheduled_authority.py) and  *)
(* the sweep itself (modules/recallatron/src/rheo_recallatron/retention).  *)
(*                                                                         *)
(* Both sides lock the schedule row to their commit: the ticker skips a    *)
(* locked row, the sweep waits for it.  next_run_at is abstracted to due,  *)
(* soon (one second after a sweep that left work) and daily.               *)
(***************************************************************************)
EXTENDS Naturals, FiniteSets

CONSTANTS
    Tickers,        \* visits that tick the schedule
    Sweepers,       \* workers that run its job
    NoHolder,       \* a null owner, an unlocked row
    Memories,       \* memories past their retention, 1 the oldest
    Stuck,          \* the ones whose removal is refused
    SweepBatch,     \* SWEEP_BATCH_LIMIT
    SweepAttempts,  \* SWEEP_MAX_ATTEMPTS
    Slots,          \* names for the job rows that may be unfinished at once
    MaxScheduleFaults \* bound on crashes and stalls

ASSUME SchedulesAssumption ==
    /\ NoHolder \notin Tickers \cup Sweepers /\ Tickers \cap Sweepers = {}
    /\ Memories \subseteq Nat /\ IsFiniteSet(Memories) /\ Stuck \subseteq Memories
    /\ SweepBatch \in Nat /\ Cardinality(Stuck) < SweepBatch
    /\ SweepAttempts \in Nat \ {0} /\ MaxScheduleFaults \in Nat

VARIABLES
    schedule,       \* the row: enabled, next_run_at
    rowLock,        \* who holds the row's lock
    sweepJob,       \* the unfinished jobs of the catch-up kind, by slot
    ticker,         \* each visit's place in run_due_schedules
    sweeper,        \* each worker's place and the lease it was handed
    removed,        \* memories a committed sweep removed
    gate,           \* the workspace's expire-by-age setting
    scheduleFaults

schedulesVars == <<schedule, rowLock, sweepJob, ticker, sweeper, removed, gate,
                   scheduleFaults>>
-----------------------------------------------------------------------------
Unwritten == [enabled |-> FALSE, next |-> "never"]
NoSweep == [state |-> "none", owner |-> NoHolder, live |-> FALSE, attempts |-> 0]
Resting == [at |-> "idle", slot |-> NoHolder, attempts |-> 0]

SchedulesTypeOK ==
    /\ schedule \in [enabled : BOOLEAN, next : {"never", "due", "soon", "daily"}]
    /\ rowLock \in Tickers \cup Sweepers \cup {NoHolder}
    /\ sweepJob \in [Slots -> [state : {"none", "queued", "leased"},
                               owner : Sweepers \cup {NoHolder}, live : BOOLEAN,
                               attempts : 0..(SweepAttempts + MaxScheduleFaults)]]
    /\ ticker \in [Tickers -> {"idle", "read", "claimed", "checked"}]
    /\ sweeper \in [Sweepers -> [at : {"idle", "start", "holding", "raised"},
                                 slot : Slots \cup {NoHolder}, attempts : Nat]]
    /\ removed \subseteq Memories /\ gate \in BOOLEAN
    /\ scheduleFaults \in 0..MaxScheduleFaults

SchedulesInit ==
    /\ schedule = Unwritten /\ gate = TRUE
    /\ rowLock = NoHolder /\ removed = {} /\ scheduleFaults = 0
    /\ sweepJob = [s \in Slots |-> NoSweep]
    /\ ticker = [t \in Tickers |-> "idle"]
    /\ sweeper = [w \in Sweepers |-> Resting]
-----------------------------------------------------------------------------
(* The ticker: run_due_schedules in the visit's pre-drain transaction.       *)

DueRow == schedule.enabled /\ schedule.next = "due"

UnfinishedSweep == \E s \in Slots : sweepJob[s].state # "none"

TickRead(t) ==
    /\ ticker[t] = "idle" /\ DueRow
    /\ ticker' = [ticker EXCEPT ![t] = "read"]
    /\ UNCHANGED <<schedule, rowLock, sweepJob, sweeper, removed, gate, scheduleFaults>>

\* Mutant of ClaimCatchUpRow: the row is read again but not locked.
ClaimUnlocked(t) ==
    /\ ticker[t] = "read"
    /\ ticker' = [ticker EXCEPT ![t] = IF DueRow THEN "claimed" ELSE "idle"]
    /\ UNCHANGED rowLock

\* FOR UPDATE SKIP LOCKED, with the predicate of the first read.
ClaimCatchUpRow(t) ==
    /\ ticker[t] = "read"
    /\ IF rowLock = NoHolder /\ DueRow
       THEN ticker' = [ticker EXCEPT ![t] = "claimed"] /\ rowLock' = t
       ELSE ticker' = [ticker EXCEPT ![t] = "idle"] /\ UNCHANGED rowLock

TickClaim(t) ==
    /\ ClaimCatchUpRow(t)
    /\ UNCHANGED <<schedule, sweepJob, sweeper, removed, gate, scheduleFaults>>

UnlockRow(p) == rowLock' = IF rowLock = p THEN NoHolder ELSE rowLock

\* An unfinished job, queued or leased, takes this tick's place.
TickCheck(t) ==
    /\ ticker[t] = "claimed"
    /\ IF UnfinishedSweep
       THEN ticker' = [ticker EXCEPT ![t] = "idle"] /\ UnlockRow(t)
       ELSE ticker' = [ticker EXCEPT ![t] = "checked"] /\ UNCHANGED rowLock
    /\ UNCHANGED <<schedule, sweepJob, sweeper, removed, gate, scheduleFaults>>

\* The job and the row's next_run_at commit together.
TickCommit(t) ==
    /\ ticker[t] = "checked"
    /\ schedule' = [schedule EXCEPT !.next = "daily"]
    /\ \E s \in Slots : /\ sweepJob[s].state = "none"
                         /\ sweepJob' = [sweepJob EXCEPT ![s] =
                                           [NoSweep EXCEPT !.state = "queued"]]
    /\ ticker' = [ticker EXCEPT ![t] = "idle"] /\ UnlockRow(t)
    /\ UNCHANGED <<sweeper, removed, gate, scheduleFaults>>

TickFails(t) ==
    /\ ticker[t] # "idle" /\ scheduleFaults < MaxScheduleFaults
    /\ scheduleFaults' = scheduleFaults + 1
    /\ ticker' = [ticker EXCEPT ![t] = "idle"] /\ UnlockRow(t)
    /\ UNCHANGED <<schedule, sweepJob, sweeper, removed, gate>>
-----------------------------------------------------------------------------
(* The sweep: an ordinary job that must first hold its schedule's row.       *)

LeaseSweep(w, s) ==
    /\ sweeper[w].at = "idle"
    /\ \/ sweepJob[s].state = "queued"
       \/ sweepJob[s].state = "leased" /\ ~sweepJob[s].live
    /\ sweepJob' = [sweepJob EXCEPT ![s] = [state |-> "leased", owner |-> w,
                                            live |-> TRUE, attempts |-> @.attempts + 1]]
    /\ sweeper' = [sweeper EXCEPT ![w] = [at |-> "start", slot |-> s,
                                          attempts |-> sweepJob[s].attempts + 1]]
    /\ UNCHANGED <<schedule, rowLock, ticker, removed, gate, scheduleFaults>>

\* A lease past the budget ends the job before its handler is entered.
SweepExhausted(w) ==
    LET s == sweeper[w].slot IN
    /\ sweeper[w].at = "start" /\ sweeper[w].attempts > SweepAttempts
    /\ sweepJob' = IF sweepJob[s].state = "leased" /\ sweepJob[s].owner = w
                   THEN [sweepJob EXCEPT ![s] = NoSweep] ELSE sweepJob
    /\ sweeper' = [sweeper EXCEPT ![w] = Resting]
    /\ UNCHANGED <<schedule, rowLock, ticker, removed, gate, scheduleFaults>>

SweepHeld(w) ==
    LET s == sweeper[w].slot IN sweepJob[s].state = "leased" /\ sweepJob[s].owner = w

\* Mutant of VerifiedExecutionFor: the enabled row is read before it is locked only.
VerifiedWithoutHold(w) ==
    /\ IF schedule.enabled /\ SweepHeld(w)
       THEN sweeper' = [sweeper EXCEPT ![w].at = "holding"]
       ELSE sweeper' = [sweeper EXCEPT ![w].at = "raised"]
    /\ UNCHANGED rowLock

\* The capability: an enabled schedule, a lease still held, and the row's lock, for
\* which it waits.  Without it the handler raises.
VerifiedExecutionFor(w) ==
    IF ~schedule.enabled \/ ~SweepHeld(w)
    THEN sweeper' = [sweeper EXCEPT ![w].at = "raised"] /\ UNCHANGED rowLock
    ELSE /\ rowLock = NoHolder
         /\ sweeper' = [sweeper EXCEPT ![w].at = "holding"] /\ rowLock' = w

SweepStarts(w) ==
    /\ sweeper[w].at = "start" /\ sweeper[w].attempts <= SweepAttempts
    /\ VerifiedExecutionFor(w)
    /\ UNCHANGED <<schedule, sweepJob, ticker, removed, gate, scheduleFaults>>

Expired == Memories \ removed

\* The oldest expired memories, as many as one batch takes.
ExpiredRoots ==
    {m \in Expired : Cardinality({n \in Expired : n <= m}) <= SweepBatch}

\* Mutant of Removable: one refused removal gives the whole batch up.
RemovableAllOrNone == IF gate /\ ExpiredRoots \cap Stuck = {} THEN ExpiredRoots ELSE {}

\* The removals of one batch: a refused removal is skipped.
Removable == IF gate THEN ExpiredRoots \ Stuck ELSE {}

\* _finish: a batch that left something re-arms the schedule.
Rearmed(row, rest) == IF rest # {} THEN [row EXCEPT !.next = "soon"] ELSE row

\* A batch that removed nothing of what remains raises instead of re-arming.
NoProgress == gate /\ Expired # {} /\ Removable = {}

\* The removals, the re-armed row and the job's success, if the lease is still held.
FinishSweep(w) ==
    IF SweepHeld(w)
    THEN /\ removed' = removed \cup Removable
         /\ schedule' = Rearmed(schedule, IF gate THEN Expired \ Removable ELSE {})
         /\ sweepJob' = [sweepJob EXCEPT ![sweeper[w].slot] = NoSweep]
    ELSE UNCHANGED <<removed, schedule, sweepJob>>

RunSweep(w) ==
    /\ sweeper[w].at = "holding" /\ ~NoProgress
    /\ FinishSweep(w)
    /\ sweeper' = [sweeper EXCEPT ![w] = Resting] /\ UnlockRow(w)
    /\ UNCHANGED <<ticker, gate, scheduleFaults>>

SweepNoProgress(w) ==
    /\ sweeper[w].at = "holding" /\ NoProgress
    /\ sweeper' = [sweeper EXCEPT ![w].at = "raised"] /\ UnlockRow(w)
    /\ UNCHANGED <<schedule, sweepJob, ticker, removed, gate, scheduleFaults>>

\* The ordinary failure outcome: requeued, or failed when the budget is spent.
SweepFails(w) ==
    LET s == sweeper[w].slot IN
    /\ sweeper[w].at = "raised"
    /\ sweepJob' = IF ~SweepHeld(w) THEN sweepJob
                   ELSE IF sweeper[w].attempts >= SweepAttempts
                   THEN [sweepJob EXCEPT ![s] = NoSweep]
                   ELSE [sweepJob EXCEPT ![s].state = "queued", ![s].owner = NoHolder,
                                         ![s].live = FALSE]
    /\ sweeper' = [sweeper EXCEPT ![w] = Resting]
    /\ UNCHANGED <<schedule, rowLock, ticker, removed, gate, scheduleFaults>>

\* A worker dies (its transaction and its lock with it) or outlives its lease.
SweeperFault(w) ==
    /\ sweeper[w].at # "idle" /\ scheduleFaults < MaxScheduleFaults
    /\ scheduleFaults' = scheduleFaults + 1
    /\ \/ sweeper' = [sweeper EXCEPT ![w] = Resting] /\ UnlockRow(w)
          /\ UNCHANGED sweepJob
       \/ /\ SweepHeld(w)
          /\ sweepJob' = [sweepJob EXCEPT ![sweeper[w].slot].live = FALSE]
          /\ UNCHANGED <<sweeper, rowLock>>
    /\ UNCHANGED <<schedule, ticker, removed, gate>>

SweepLeaseLapses(s) ==
    /\ sweepJob[s].state = "leased" /\ sweepJob[s].live
    /\ sweeper[sweepJob[s].owner].slot # s
    /\ sweepJob' = [sweepJob EXCEPT ![s].live = FALSE]
    /\ UNCHANGED <<schedule, rowLock, ticker, sweeper, removed, gate, scheduleFaults>>

\* Time reaches next_run_at.
ScheduleFallsDue ==
    /\ schedule.next \in {"soon", "daily"}
    /\ schedule' = [schedule EXCEPT !.next = "due"]
    /\ UNCHANGED <<rowLock, sweepJob, ticker, sweeper, removed, gate, scheduleFaults>>

\* Enabling the module writes its schedule, due a day later.
EnableModule ==
    /\ schedule = Unwritten
    /\ schedule' = [enabled |-> TRUE, next |-> "daily"]
    /\ UNCHANGED <<rowLock, sweepJob, ticker, sweeper, removed, gate, scheduleFaults>>

\* An operator turns the row off or on, waiting for its lock.
SwitchSchedule ==
    /\ schedule # Unwritten /\ rowLock = NoHolder
    /\ schedule' = [schedule EXCEPT !.enabled = ~@]
    /\ UNCHANGED <<rowLock, sweepJob, ticker, sweeper, removed, gate, scheduleFaults>>

\* The workspace turns expiry by age on or off.
SetGate ==
    /\ gate' = ~gate
    /\ UNCHANGED <<schedule, rowLock, sweepJob, ticker, sweeper, removed, scheduleFaults>>
-----------------------------------------------------------------------------
TickStep(t) == TickRead(t) \/ TickClaim(t) \/ TickCheck(t) \/ TickCommit(t)

SweepStep(w) ==
    \/ SweepExhausted(w) \/ SweepStarts(w) \/ RunSweep(w) \/ SweepNoProgress(w)
    \/ SweepFails(w)

SchedulesNext ==
    \/ \E t \in Tickers : TickStep(t) \/ TickFails(t)
    \/ \E w \in Sweepers : \/ SweepStep(w) \/ SweeperFault(w)
                           \/ \E s \in Slots : LeaseSweep(w, s)
    \/ \E s \in Slots : SweepLeaseLapses(s)
    \/ ScheduleFallsDue \/ EnableModule \/ SwitchSchedule \/ SetGate

\* Strong for a sweep: who waits for a row lock is queued before later claims.
SchedulesFairness ==
    /\ \A t \in Tickers : WF_schedulesVars(TickStep(t))
    /\ SF_schedulesVars(\E w \in Sweepers : SweepStep(w))
    /\ \A s \in Slots : /\ WF_schedulesVars(SweepLeaseLapses(s))
                        /\ WF_schedulesVars(\E w \in Sweepers : LeaseSweep(w, s))
    /\ WF_schedulesVars(ScheduleFallsDue)

SchedulesSpec == SchedulesInit /\ [][SchedulesNext]_schedulesVars /\ SchedulesFairness
-----------------------------------------------------------------------------
(* However many visits tick it, and while its own sweep runs and re-arms it, *)
(* the catch-up schedule has at most one unfinished job (schedules.py        *)
(* _claim_catch_up_row, _unfinished_job_exists).                             *)
OneCatchUp ==
    \A s, r \in Slots : sweepJob[s].state # "none" /\ sweepJob[r].state # "none" => s = r

(* Memories are removed only while the schedule is on and the gate is open,  *)
(* in the transaction that finishes the sweep's job, and a sweep that leaves *)
(* expired memories re-arms its schedule in that transaction or has removed  *)
(* nothing: no work is lost, and none is repeated by a lease that was lost.  *)
(* And only such a sweep re-arms it, so the schedule never spins over what   *)
(* cannot be removed (scheduled_authority.py _hold_catch_up_row, schedules.py*)
(* rearm_catch_up_schedule, retention.py _finish).                           *)
RemovalIsWhole ==
    /\ [][removed' # removed =>
            /\ schedule.enabled /\ gate
            /\ \E s \in Slots : sweepJob[s].state = "leased" /\ sweepJob'[s] = NoSweep
            /\ Memories \ removed' # {} => schedule'.next = "soon"]_schedulesVars
    /\ [][schedule'.next = "soon" /\ schedule.next # "soon"
            => removed' # removed]_schedulesVars

(* While the schedule stays on and the gate open, every expired memory that  *)
(* can be removed is removed, through crashes, lost leases and batches that  *)
(* others stall (retention.py run_memory_retention_sweep).                   *)
ExpiredAreRemoved ==
    <>[](schedule.enabled /\ gate) => <>(Expired \subseteq Stuck)
=============================================================================
