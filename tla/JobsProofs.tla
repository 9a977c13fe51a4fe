----------------------------- MODULE JobsProofs -----------------------------
(***************************************************************************)
(* Proofs about Jobs, for any set of jobs and workers, any budget and any  *)
(* number of faults.                                                       *)
(***************************************************************************)
EXTENDS JobsRefinement, FiniteSetTheorems, TLAPS

(* A busy worker works on a job, of the kind its place in the loop is for.     *)
BusyOnAJob ==
    \A w \in Workers :
        /\ worker[w].at \in OrdinaryPlaces => worker[w].job \in Ordinary
        /\ worker[w].at \in ContinuationPlaces => worker[w].job \in Continuations

(* A lease that was not flagged when it was taken has been counted, so a       *)
(* deferral always has an attempt to refund.                                   *)
LeaseCounted ==
    \A j \in Jobs :
        job[j].state = "leased" /\ ~job[j].cancel_requested => job[j].attempts >= 1

TypeInv == TypeOK /\ BusyOnAJob /\ LeaseCounted

-----------------------------------------------------------------------------
(* What the row writes of work/jobs.py return.                                 *)

(* A terminal write keeps the count and the flag and gives the lease up.       *)
LEMMA FinishedRow ==
    ASSUME NEW r \in Rows, NEW o \in Terminal
    PROVE  /\ Finished(r, o) \in Rows /\ Finished(r, o).state = o
           /\ Finished(r, o).attempts = r.attempts
           /\ Finished(r, o).cancel_requested = r.cancel_requested
  BY DEF Rows, States, Finished

(* A requeue keeps the count and the flag and gives the lease up.              *)
LEMMA RequeuedRow ==
    ASSUME NEW r \in Rows
    PROVE  /\ Requeued(r) \in Rows /\ Requeued(r).state = "queued"
           /\ Requeued(r).attempts = r.attempts
           /\ Requeued(r).cancel_requested = r.cancel_requested
  BY DEF Rows, States, Requeued

(* A deferral refunds one attempt, which a counted lease has.                  *)
LEMMA DeferredRow ==
    ASSUME NEW r \in Rows, r.attempts >= 1
    PROVE  /\ Deferred(r) \in Rows /\ Deferred(r).state = "queued"
           /\ Deferred(r).cancel_requested = r.cancel_requested
           /\ Deferred(r).attempts = r.attempts - 1
<1>1. Requeued(r) \in Rows /\ Requeued(r).attempts = r.attempts
  BY RequeuedRow
<1>2. r.attempts - 1 \in Nat
  BY DEF Rows
<1> QED
  BY <1>1, <1>2, RequeuedRow DEF Rows, Deferred

(* Enqueueing a row, and the writes that only move its instants: the heartbeat *)
(* and the passage of time.                                                    *)
LEMMA QueuedRow ==
    ASSUME NEW r \in Rows, NEW due \in BOOLEAN
    PROVE  /\ Queued(r, due) \in Rows /\ Queued(r, due).state = "queued"
           /\ Queued(r, due).cancel_requested = r.cancel_requested
           /\ Queued(r, due).attempts = r.attempts
  BY DEF Rows, States, Queued

LEMMA TimedRows ==
    ASSUME NEW r \in Rows
    PROVE  \A t \in {Extended(r), Lapsed(r), Due(r)} :
              /\ t \in Rows /\ t.state = r.state /\ t.attempts = r.attempts
              /\ t.lease_owner = r.lease_owner
              /\ t.cancel_requested = r.cancel_requested
  BY DEF Rows, States, Extended, Lapsed, Due

(* A lease taken on an unflagged row is counted.                               *)
LEMMA AcquiredRow ==
    ASSUME NEW r \in Rows, NEW w \in Workers
    PROVE  /\ CountedAttempts(r) \in Nat
           /\ Acquired(r, w) \in Rows /\ Acquired(r, w).state = "leased"
           /\ Acquired(r, w).lease_owner = w
           /\ Acquired(r, w).cancel_requested = r.cancel_requested
           /\ Acquired(r, w).attempts = CountedAttempts(r)
           /\ ~r.cancel_requested => CountedAttempts(r) >= 1
<1>1. CountedAttempts(r) \in Nat /\ (~r.cancel_requested => CountedAttempts(r) >= 1)
  BY DEF Rows, CountedAttempts
<1> QED
  BY <1>1 DEF Rows, States, Acquired

(* A cancellation flags the row; it moves it only from queued to cancelled.    *)
LEMMA CancelledRow ==
    ASSUME NEW r \in Rows, NEW j \in Jobs
    PROVE  /\ CancelRequested(r, j) \in Rows
           /\ CancelRequested(r, j).cancel_requested
           /\ CancelRequested(r, j).attempts = r.attempts
           /\ CancelRequested(r, j).lease_owner = r.lease_owner
           /\ CancelRequested(r, j).state =
                IF r.state = "queued" /\ j \in Ordinary THEN "cancelled" ELSE r.state
<1>1. CASE r.state = "queued" /\ j \in Ordinary
  BY <1>1 DEF Rows, States, Terminal, CancelRequested
<1>2. CASE r.state = "queued" /\ j \notin Ordinary
  BY <1>2 DEF Rows, States, Terminal, CancelRequested, Ordinary
<1>3. CASE r.state # "queued"
  BY <1>3 DEF Rows, States, Terminal, CancelRequested
<1> QED
  BY <1>1, <1>2, <1>3

(* A worker that moves on keeps its lease; one that leaves has none.           *)
LEMMA WorkerMoves ==
    ASSUME worker \in [Workers -> Leases], NEW w \in Workers,
           NEW place \in OrdinaryPlaces \cup ContinuationPlaces,
           Goto(w, place)
    PROVE  /\ worker' \in [Workers -> Leases]
           /\ worker'[w].at = place /\ worker'[w].job = worker[w].job
           /\ worker'[w].attempts = worker[w].attempts
           /\ worker'[w].cancel_requested = worker[w].cancel_requested
           /\ \A v \in Workers : v # w => worker'[v] = worker[v]
  BY DEF Goto, Leases, OrdinaryPlaces, ContinuationPlaces

LEMMA WorkerTriesAgain ==
    ASSUME worker \in [Workers -> Leases], NEW w \in Workers, SecondRound(w)
    PROVE  /\ worker' \in [Workers -> Leases]
           /\ worker'[w].at = "continue" /\ worker'[w].job = worker[w].job
           /\ worker'[w].attempts = worker[w].attempts
           /\ worker'[w].cancel_requested = worker[w].cancel_requested
           /\ \A v \in Workers : v # w => worker'[v] = worker[v]
  BY DEF SecondRound, Leases, OrdinaryPlaces, ContinuationPlaces

LEMMA WorkerLeaves ==
    ASSUME worker \in [Workers -> Leases], NEW w \in Workers, Leave(w)
    PROVE  /\ worker' \in [Workers -> Leases] /\ worker'[w].at = "idle"
           /\ \A v \in Workers : v # w => worker'[v] = worker[v]
  BY DEF Leave, Idle, Leases, OrdinaryPlaces, ContinuationPlaces

(* What an acquire hands its worker.                                           *)
LEMMA LeaseHanded ==
    ASSUME TypeOK, NEW j \in Jobs
    PROVE  /\ LeasedJob(j) \in Leases /\ LeasedJob(j).job = j
           /\ LeasedJob(j).cancel_requested = job[j].cancel_requested
           /\ LeasedJob(j).attempts = CountedAttempts(job[j])
           /\ LeasedJob(j).at = IF j \in Continuations THEN "continue" ELSE "gates"
<1>1. CountedAttempts(job[j]) \in Nat
  BY DEF TypeOK, Rows, CountedAttempts
<1> QED
  BY <1>1 DEF TypeOK, Rows, LeasedJob, Leases, OrdinaryPlaces, ContinuationPlaces

(* A record's terminal write.                                                  *)
LEMMA RecordCloses ==
    ASSUME TypeOK, NEW j \in Jobs, NEW o \in Terminal, CloseRecord(j, o)
    PROVE  /\ record' \in [Jobs -> {"none", "pending"} \cup Terminal]
           /\ record'[j] = IF record[j] = "pending" THEN o ELSE record[j]
           /\ \A k \in Jobs : k # j => record'[k] = record[k]
  BY DEF TypeOK, CloseRecord

LEMMA TypeInvInit == Init => TypeInv
  BY JobsAssumption DEF Init, TypeInv, TypeOK, BusyOnAJob, LeaseCounted, NoRow, Idle,
     Rows, Leases, States, Terminal, Versions, OrdinaryPlaces, ContinuationPlaces

LEMMA TypeInvNext == TypeInv /\ [Next]_vars => TypeInv'
<1> SUFFICES ASSUME TypeInv, [Next]_vars PROVE TypeInv'
  OBVIOUS
<1> USE JobsAssumption DEF TypeInv, TypeOK, BusyOnAJob, LeaseCounted, Terminal,
     Versions, Ordinary, OrdinaryPlaces, ContinuationPlaces
<1>1. ASSUME NEW j \in Jobs, Enqueue(j) PROVE TypeInv'
  BY <1>1, QueuedRow DEF Enqueue
<1>2. ASSUME NEW j \in Jobs, MintOperation(j) PROVE TypeInv'
  BY <1>2 DEF MintOperation
<1>3. ASSUME NEW j \in Jobs, CommitDispatch(j) PROVE TypeInv'
  BY <1>3, QueuedRow DEF CommitDispatch
<1>4. ASSUME NEW j \in Jobs, FailOperation(j) PROVE TypeInv'
  BY <1>4, RecordCloses DEF FailOperation
<1>5. ASSUME NEW j \in Jobs, RequestCancellation(j) PROVE TypeInv'
  BY <1>5, CancelledRow, RecordCloses DEF RequestCancellation, Cancellable
<1>6. ASSUME NEW j \in Jobs, BecomesDue(j) PROVE TypeInv'
  BY <1>6, TimedRows DEF BecomesDue
<1>7. ASSUME NEW j \in Jobs, LeaseLapses(j) PROVE TypeInv'
  BY <1>7, TimedRows DEF LeaseLapses
<1>8. ASSUME NEW j \in Jobs, WorkerStalls(j) PROVE TypeInv'
  BY <1>8, TimedRows DEF WorkerStalls
<1>9. ASSUME NEW w \in Workers, NEW j \in Jobs, AcquireLease(w, j) PROVE TypeInv'
  BY <1>9, AcquiredRow, LeaseHanded DEF AcquireLease, Candidate
<1>10. ASSUME NEW w \in Workers, CancelGate(w) PROVE TypeInv'
  BY <1>10, FinishedRow, WorkerLeaves, RecordCloses DEF CancelGate,
     FinishWithOperation
<1>11. ASSUME NEW w \in Workers, BudgetGate(w) PROVE TypeInv'
  BY <1>11, FinishedRow, WorkerLeaves, RecordCloses DEF BudgetGate,
     FinishWithOperation
<1>12. ASSUME NEW w \in Workers, LookupKind(w) PROVE TypeInv'
  BY <1>12, WorkerMoves DEF LookupKind
<1>13. ASSUME NEW w \in Workers, FailTerminally(w) PROVE TypeInv'
  BY <1>13, FinishedRow, DeferredRow, WorkerLeaves, WorkerMoves, RecordCloses DEF
     FailTerminally, FinishWithOperation, Held, HeldUncancelled
<1>14. ASSUME NEW w \in Workers, EnterHandler(w) PROVE TypeInv'
  BY <1>14, WorkerMoves DEF EnterHandler
<1>15. ASSUME NEW w \in Workers, Checkpoint(w) PROVE TypeInv'
  BY <1>15, TimedRows, WorkerMoves DEF Checkpoint
<1>16. ASSUME NEW w \in Workers, HandlerReturns(w) PROVE TypeInv'
  BY <1>16, FinishedRow, WorkerLeaves, WorkerMoves, RecordCloses DEF HandlerReturns,
     FinishWithOperation, Held, HeldUncancelled
<1>17. ASSUME NEW w \in Workers, HandlerRaises(w) PROVE TypeInv'
  BY <1>17, WorkerMoves DEF HandlerRaises
<1>18. ASSUME NEW w \in Workers, WriteFailureOutcome(w) PROVE TypeInv'
  BY SMTT(30), <1>18, FinishedRow, RequeuedRow, WorkerLeaves, WorkerMoves, RecordCloses DEF
     WriteFailureOutcome, FinishWithOperation
<1>19. ASSUME NEW w \in Workers, DeferUnready(w) PROVE TypeInv'
  BY <1>19, DeferredRow, WorkerLeaves, WorkerMoves DEF DeferUnready, Held,
     HeldUncancelled
<1>20. ASSUME NEW w \in Workers, ResolveZeroRowcount(w) PROVE TypeInv'
  BY <1>20, FinishedRow, WorkerLeaves, RecordCloses DEF ResolveZeroRowcount,
     FinishWithOperation
<1>21. ASSUME NEW w \in Workers, RunContinuation(w) PROVE TypeInv'
  BY <1>21, FinishedRow, RequeuedRow, WorkerLeaves, WorkerMoves DEF RunContinuation,
     Dispositions
<1>22. ASSUME NEW w \in Workers, ContinuationRaises(w) PROVE TypeInv'
  BY <1>22, WorkerMoves DEF ContinuationRaises
<1>23. ASSUME NEW w \in Workers, RequeueFaulted(w) PROVE TypeInv'
  BY <1>23, RequeuedRow, WorkerLeaves, WorkerMoves DEF RequeueFaulted
<1>24. ASSUME NEW w \in Workers, RecheckCancellation(w) PROVE TypeInv'
  BY <1>24, WorkerLeaves, WorkerTriesAgain DEF RecheckCancellation
<1>25. ASSUME NEW w \in Workers, Crash(w) PROVE TypeInv'
  BY <1>25, WorkerLeaves DEF Crash
<1>26. ASSUME NEW w \in Workers, Deploy(w) PROVE TypeInv'
  BY <1>26, WorkerLeaves DEF Deploy
<1>27. ASSUME UpgradeModule PROVE TypeInv'
  BY <1>27 DEF UpgradeModule
<1>28. CASE UNCHANGED vars
  BY <1>28 DEF vars
<1> QED
  BY <1>1, <1>2, <1>3, <1>4, <1>5, <1>6, <1>7, <1>8, <1>9, <1>10, <1>11, <1>12,
     <1>13, <1>14, <1>15, <1>16, <1>17, <1>18, <1>19, <1>20, <1>21, <1>22, <1>23,
     <1>24, <1>25, <1>26, <1>27, <1>28 DEF Next, WorkerStep

(* Type correctness: every row, lease and record keeps its shape; in           *)
(* particular no deferral takes attempts below zero (defer_unready_job).       *)
THEOREM TypeCorrect == Spec => []TypeOK
<1>1. Init => TypeInv
  BY TypeInvInit
<1>2. TypeInv /\ [Next]_vars => TypeInv'
  BY TypeInvNext
<1>3. TypeInv => TypeOK
  BY DEF TypeInv
<1> QED
  BY <1>1, <1>2, <1>3, PTL DEF Spec
-----------------------------------------------------------------------------
(* The safety invariant: effects, cancellation and the dispatcher's progress.  *)

(* A job is queued for a record only after the record is minted, and only by   *)
(* the dispatch that minted it.                                                *)
DispatchInv ==
    \A j \in Jobs :
        /\ dispatch[j] # "none" => j \in Recorded
        /\ j \in Recorded /\ dispatch[j] \in {"none", "minted"} =>
               job[j].state = "absent"
        /\ dispatch[j] = "none" => record[j] = "none"
        /\ dispatch[j] = "minted" => record[j] = "pending"

SafetyInv == TypeInv /\ DispatchInv /\ EffectsExactlyOnce /\ CancellationWins

LEMMA SafetyInvInit == Init => SafetyInv
<1> SUFFICES ASSUME Init PROVE SafetyInv
  OBVIOUS
<1>1. DispatchInv /\ EffectsExactlyOnce /\ CancellationWins
  BY DEF Init, DispatchInv, EffectsExactlyOnce, CancellationWins, NoRow, Terminal,
     Ordinary
<1> QED
  BY <1>1, TypeInvInit DEF SafetyInv

LEMMA SafetyInvNext == SafetyInv /\ [Next]_vars => SafetyInv'
<1> SUFFICES ASSUME SafetyInv, [Next]_vars
             PROVE  (DispatchInv /\ EffectsExactlyOnce /\ CancellationWins)'
  BY TypeInvNext DEF SafetyInv
<1> DEFINE Goal == DispatchInv /\ EffectsExactlyOnce /\ CancellationWins
<1> USE JobsAssumption DEF SafetyInv, TypeInv, TypeOK, BusyOnAJob, LeaseCounted,
     Terminal, Ordinary, OrdinaryPlaces, ContinuationPlaces, DispatchInv,
     EffectsExactlyOnce, CancellationWins
<1>1. ASSUME NEW j \in Jobs, Enqueue(j) PROVE Goal'
  BY <1>1, QueuedRow DEF Enqueue
<1>2. ASSUME NEW j \in Jobs, MintOperation(j) PROVE Goal'
  BY <1>2 DEF MintOperation
<1>3. ASSUME NEW j \in Jobs, CommitDispatch(j) PROVE Goal'
  <2>1. j \in Recorded /\ job[j].state = "absent" /\ ~job[j].cancel_requested
    BY <1>3 DEF CommitDispatch, Rows
  <2>2. \A k \in Jobs : k # j => job'[k] = job[k]
    BY <1>3 DEF CommitDispatch
  <2>3. job'[j].state = "queued" /\ ~job'[j].cancel_requested
    BY <1>3, <2>1, QueuedRow DEF CommitDispatch
  <2>4. /\ dispatch'[j] \in {"done", "doubt"}
        /\ \A k \in Jobs : k # j => dispatch'[k] = dispatch[k]
    BY <1>3 DEF CommitDispatch
  <2>5. DispatchInv'
    BY <1>3, <2>1, <2>2, <2>3, <2>4 DEF CommitDispatch
  <2>6. EffectsExactlyOnce'
    BY <1>3, <2>1, <2>2, <2>3 DEF CommitDispatch
  <2>7. CancellationWins'
    BY <1>3, <2>1, <2>2, <2>3 DEF CommitDispatch
  <2> QED
    BY <2>5, <2>6, <2>7
<1>4. ASSUME NEW j \in Jobs, FailOperation(j) PROVE Goal'
  BY <1>4, RecordCloses DEF FailOperation
<1>5. ASSUME NEW j \in Jobs, RequestCancellation(j) PROVE Goal'
  <2>1. /\ job'[j].state = IF job[j].state = "queued" /\ j \in Ordinary
                          THEN "cancelled" ELSE job[j].state
        /\ \A k \in Jobs : k # j => job'[k] = job[k]
    BY <1>5, CancelledRow DEF RequestCancellation
  <2>2. /\ record'[j] = record[j] \/ (record[j] = "pending" /\ j \in Ordinary)
        /\ \A k \in Jobs : k # j => record'[k] = record[k]
    BY <1>5, RecordCloses DEF RequestCancellation
  <2> QED
    BY <1>5, <2>1, <2>2 DEF RequestCancellation, Cancellable
<1>6. ASSUME NEW j \in Jobs, BecomesDue(j) PROVE Goal'
  BY <1>6, TimedRows DEF BecomesDue
<1>7. ASSUME NEW j \in Jobs, LeaseLapses(j) PROVE Goal'
  BY <1>7, TimedRows DEF LeaseLapses
<1>8. ASSUME NEW j \in Jobs, WorkerStalls(j) PROVE Goal'
  BY <1>8, TimedRows DEF WorkerStalls
<1>9. ASSUME NEW w \in Workers, NEW j \in Jobs, AcquireLease(w, j) PROVE Goal'
  BY <1>9, AcquiredRow, LeaseHanded DEF AcquireLease, Candidate
<1>10. ASSUME NEW w \in Workers, CancelGate(w) PROVE Goal'
  BY <1>10, FinishedRow, WorkerLeaves, RecordCloses DEF CancelGate,
     FinishWithOperation, Held, HeldUncancelled
<1>11. ASSUME NEW w \in Workers, BudgetGate(w) PROVE Goal'
  BY <1>11, FinishedRow, WorkerLeaves, RecordCloses DEF BudgetGate,
     FinishWithOperation, Held, HeldUncancelled
<1>12. ASSUME NEW w \in Workers, LookupKind(w) PROVE Goal'
  BY <1>12, WorkerMoves DEF LookupKind
<1>13. ASSUME NEW w \in Workers, FailTerminally(w) PROVE Goal'
  BY SMTT(30), <1>13, FinishedRow, DeferredRow, WorkerLeaves, WorkerMoves, RecordCloses DEF
     FailTerminally, FinishWithOperation, Held, HeldUncancelled
<1>14. ASSUME NEW w \in Workers, EnterHandler(w) PROVE Goal'
  BY <1>14, WorkerMoves DEF EnterHandler
<1>15. ASSUME NEW w \in Workers, Checkpoint(w) PROVE Goal'
  BY <1>15, TimedRows, WorkerMoves DEF Checkpoint, Held, HeldUncancelled
<1>16. ASSUME NEW w \in Workers, HandlerReturns(w) PROVE Goal'
  BY <1>16, FinishedRow, WorkerLeaves, WorkerMoves, RecordCloses DEF HandlerReturns,
     FinishWithOperation, Held, HeldUncancelled
<1>17. ASSUME NEW w \in Workers, HandlerRaises(w) PROVE Goal'
  BY <1>17, WorkerMoves DEF HandlerRaises
<1>18. ASSUME NEW w \in Workers, WriteFailureOutcome(w) PROVE Goal'
  <2>1. CASE HeldUncancelled(w, worker[w].job) /\ Spent(worker[w])
    BY <1>18, <2>1, FinishedRow, RecordCloses
       DEF WriteFailureOutcome, FinishWithOperation, Held, HeldUncancelled
  <2>2. CASE HeldUncancelled(w, worker[w].job) /\ ~Spent(worker[w])
    BY <1>18, <2>2, RequeuedRow DEF WriteFailureOutcome, Held, HeldUncancelled
  <2>3. CASE ~HeldUncancelled(w, worker[w].job)
    BY <1>18, <2>3 DEF WriteFailureOutcome
  <2> QED
    BY <2>1, <2>2, <2>3
<1>19. ASSUME NEW w \in Workers, DeferUnready(w) PROVE Goal'
  BY <1>19, DeferredRow, WorkerLeaves, WorkerMoves DEF DeferUnready, Held,
     HeldUncancelled
<1>20. ASSUME NEW w \in Workers, ResolveZeroRowcount(w) PROVE Goal'
  BY <1>20, FinishedRow, WorkerLeaves, RecordCloses DEF ResolveZeroRowcount,
     FinishWithOperation, Held, HeldUncancelled
<1>21. ASSUME NEW w \in Workers, RunContinuation(w) PROVE Goal'
  BY <1>21, FinishedRow, RequeuedRow, WorkerLeaves, WorkerMoves DEF RunContinuation,
     Dispositions, FinishApplies, Held, HeldUncancelled
<1>22. ASSUME NEW w \in Workers, ContinuationRaises(w) PROVE Goal'
  BY <1>22, WorkerMoves DEF ContinuationRaises
<1>23. ASSUME NEW w \in Workers, RequeueFaulted(w) PROVE Goal'
  BY <1>23, RequeuedRow, WorkerLeaves, WorkerMoves DEF RequeueFaulted, Held,
     HeldUncancelled
<1>24. ASSUME NEW w \in Workers, RecheckCancellation(w) PROVE Goal'
  BY <1>24, WorkerLeaves, WorkerTriesAgain DEF RecheckCancellation
<1>25. ASSUME NEW w \in Workers, Crash(w) PROVE Goal'
  BY <1>25, WorkerLeaves DEF Crash
<1>26. ASSUME NEW w \in Workers, Deploy(w) PROVE Goal'
  BY <1>26, WorkerLeaves DEF Deploy
<1>27. ASSUME UpgradeModule PROVE Goal'
  BY <1>27 DEF UpgradeModule
<1>28. CASE UNCHANGED vars
  BY <1>28 DEF vars
<1> QED
  BY <1>1, <1>2, <1>3, <1>4, <1>5, <1>6, <1>7, <1>8, <1>9, <1>10, <1>11, <1>12,
     <1>13, <1>14, <1>15, <1>16, <1>17, <1>18, <1>19, <1>20, <1>21, <1>22, <1>23,
     <1>24, <1>25, <1>26, <1>27, <1>28 DEF Next, WorkerStep

(* Effects land exactly once, with the transaction that ends the job: no lost  *)
(* lease, cancellation or retry duplicates or drops them (_run_handler,        *)
(* _run_continuation).                                                         *)
THEOREM EffectsLandOnce == Spec => []EffectsExactlyOnce
<1>1. SafetyInv => EffectsExactlyOnce
  BY DEF SafetyInv
<1> QED
  BY <1>1, SafetyInvInit, SafetyInvNext, PTL DEF Spec

(* Cancellation wins over success, failure and retry in every interleaving of  *)
(* the request with the worker that holds the lease (request_cancellation and  *)
(* the finishes' cancel_requested predicate).                                  *)
THEOREM CancellationAlwaysWins == Spec => []CancellationWins
<1>1. SafetyInv => CancellationWins
  BY DEF SafetyInv
<1> QED
  BY <1>1, SafetyInvInit, SafetyInvNext, PTL DEF Spec
-----------------------------------------------------------------------------
(* The job and its operation record, when no dispatcher is misled about its    *)
(* own commit.                                                                 *)

RecordInv == SafetyInv /\ RecordAgrees /\ \A j \in Jobs : dispatch[j] # "doubt"

LEMMA RecordInvNext ==
    ASSUME ~AnswersMayBeLost
    PROVE  RecordInv /\ [Next]_vars => RecordInv'
<1> SUFFICES ASSUME RecordInv, [Next]_vars
             PROVE  (RecordAgrees /\ \A j \in Jobs : dispatch[j] # "doubt")'
  BY SafetyInvNext DEF RecordInv
<1> DEFINE Goal == RecordAgrees /\ \A j \in Jobs : dispatch[j] # "doubt"
<1> USE JobsAssumption DEF RecordInv, SafetyInv, TypeInv, TypeOK, BusyOnAJob,
     LeaseCounted, Terminal, Ordinary, OrdinaryPlaces, ContinuationPlaces, DispatchInv,
     RecordAgrees
<1>1. ASSUME NEW j \in Jobs, Enqueue(j) PROVE Goal'
  BY <1>1, QueuedRow DEF Enqueue
<1>2. ASSUME NEW j \in Jobs, MintOperation(j) PROVE Goal'
  BY <1>2 DEF MintOperation
<1>3. ASSUME NEW j \in Jobs, CommitDispatch(j) PROVE Goal'
  BY <1>3, QueuedRow DEF CommitDispatch
<1>4. ASSUME NEW j \in Jobs, FailOperation(j) PROVE Goal'
  BY <1>4, RecordCloses DEF FailOperation
<1>5. ASSUME NEW j \in Jobs, RequestCancellation(j) PROVE Goal'
  BY <1>5, CancelledRow, RecordCloses DEF RequestCancellation, Cancellable
<1>6. ASSUME NEW j \in Jobs, BecomesDue(j) PROVE Goal'
  BY <1>6, TimedRows DEF BecomesDue
<1>7. ASSUME NEW j \in Jobs, LeaseLapses(j) PROVE Goal'
  BY <1>7, TimedRows DEF LeaseLapses
<1>8. ASSUME NEW j \in Jobs, WorkerStalls(j) PROVE Goal'
  BY <1>8, TimedRows DEF WorkerStalls
<1>9. ASSUME NEW w \in Workers, NEW j \in Jobs, AcquireLease(w, j) PROVE Goal'
  BY <1>9, AcquiredRow, LeaseHanded DEF AcquireLease, Candidate
<1>10. ASSUME NEW w \in Workers, CancelGate(w) PROVE Goal'
  BY <1>10, FinishedRow, WorkerLeaves, RecordCloses DEF CancelGate,
     FinishWithOperation, Held, HeldUncancelled
<1>11. ASSUME NEW w \in Workers, BudgetGate(w) PROVE Goal'
  BY <1>11, FinishedRow, WorkerLeaves, RecordCloses DEF BudgetGate,
     FinishWithOperation, Held, HeldUncancelled
<1>12. ASSUME NEW w \in Workers, LookupKind(w) PROVE Goal'
  BY <1>12, WorkerMoves DEF LookupKind
<1>13. ASSUME NEW w \in Workers, FailTerminally(w) PROVE Goal'
  BY <1>13, FinishedRow, DeferredRow, WorkerLeaves, WorkerMoves, RecordCloses DEF
     FailTerminally, FinishWithOperation, Held, HeldUncancelled
<1>14. ASSUME NEW w \in Workers, EnterHandler(w) PROVE Goal'
  BY <1>14, WorkerMoves DEF EnterHandler
<1>15. ASSUME NEW w \in Workers, Checkpoint(w) PROVE Goal'
  BY <1>15, TimedRows, WorkerMoves DEF Checkpoint, Held, HeldUncancelled
<1>16. ASSUME NEW w \in Workers, HandlerReturns(w) PROVE Goal'
  BY <1>16, FinishedRow, WorkerLeaves, WorkerMoves, RecordCloses DEF HandlerReturns,
     FinishWithOperation, Held, HeldUncancelled
<1>17. ASSUME NEW w \in Workers, HandlerRaises(w) PROVE Goal'
  BY <1>17, WorkerMoves DEF HandlerRaises
<1>18. ASSUME NEW w \in Workers, WriteFailureOutcome(w) PROVE Goal'
  BY <1>18, FinishedRow, RequeuedRow, WorkerLeaves, WorkerMoves, RecordCloses DEF
     WriteFailureOutcome, FinishWithOperation, Held, HeldUncancelled
<1>19. ASSUME NEW w \in Workers, DeferUnready(w) PROVE Goal'
  BY <1>19, DeferredRow, WorkerLeaves, WorkerMoves DEF DeferUnready, Held,
     HeldUncancelled
<1>20. ASSUME NEW w \in Workers, ResolveZeroRowcount(w) PROVE Goal'
  BY <1>20, FinishedRow, WorkerLeaves, RecordCloses DEF ResolveZeroRowcount,
     FinishWithOperation, Held, HeldUncancelled
<1>21. ASSUME NEW w \in Workers, RunContinuation(w) PROVE Goal'
  BY <1>21, FinishedRow, RequeuedRow, WorkerLeaves, WorkerMoves DEF RunContinuation,
     Dispositions, FinishApplies, Held, HeldUncancelled
<1>22. ASSUME NEW w \in Workers, ContinuationRaises(w) PROVE Goal'
  BY <1>22, WorkerMoves DEF ContinuationRaises
<1>23. ASSUME NEW w \in Workers, RequeueFaulted(w) PROVE Goal'
  BY <1>23, RequeuedRow, WorkerLeaves, WorkerMoves DEF RequeueFaulted, Held,
     HeldUncancelled
<1>24. ASSUME NEW w \in Workers, RecheckCancellation(w) PROVE Goal'
  BY <1>24, WorkerLeaves, WorkerTriesAgain DEF RecheckCancellation
<1>25. ASSUME NEW w \in Workers, Crash(w) PROVE Goal'
  BY <1>25, WorkerLeaves DEF Crash
<1>26. ASSUME NEW w \in Workers, Deploy(w) PROVE Goal'
  BY <1>26, WorkerLeaves DEF Deploy
<1>27. ASSUME UpgradeModule PROVE Goal'
  BY <1>27 DEF UpgradeModule
<1>28. CASE UNCHANGED vars
  BY <1>28 DEF vars
<1> QED
  BY <1>1, <1>2, <1>3, <1>4, <1>5, <1>6, <1>7, <1>8, <1>9, <1>10, <1>11, <1>12,
     <1>13, <1>14, <1>15, <1>16, <1>17, <1>18, <1>19, <1>20, <1>21, <1>22, <1>23,
     <1>24, <1>25, <1>26, <1>27, <1>28 DEF Next, WorkerStep

(* A job and its record end in one step with one outcome (_with_operation,     *)
(* request_cancellation), for any number of jobs, workers and faults.          *)
THEOREM RecordFollowsJob ==
    ASSUME ~AnswersMayBeLost PROVE Spec => []RecordAgrees
<1>1. Init => RecordInv
  <2> SUFFICES ASSUME Init PROVE RecordInv
    OBVIOUS
  <2>1. RecordAgrees /\ \A j \in Jobs : dispatch[j] # "doubt"
    BY JobsAssumption DEF Init, RecordAgrees, NoRow, Terminal
  <2> QED
    BY <2>1, SafetyInvInit DEF RecordInv
<1>2. RecordInv => RecordAgrees
  BY DEF RecordInv
<1> QED
  BY <1>1, <1>2, RecordInvNext, PTL DEF Spec
-----------------------------------------------------------------------------
(* What no step may do to a row.                                               *)

RowSafe(j) ==
    /\ job[j].state \in Terminal => job'[j] = job[j]
    /\ job[j].cancel_requested => job'[j].cancel_requested
    /\ job[j].state = "leased" /\ job[j].cancel_requested => job'[j].state # "queued"
    /\ \A w \in Workers :
          /\ job[j].state = "leased" /\ job[j].lease_owner = w /\ job[j].live
          /\ worker'[w] = worker[w]
          => /\ job'[j].state = "leased" /\ job'[j].lease_owner = w
             /\ job'[j].attempts = job[j].attempts

LEMMA StepsAreRowSafe == SafetyInv /\ [Next]_vars => \A j \in Jobs : RowSafe(j)
<1> SUFFICES ASSUME SafetyInv, [Next]_vars PROVE \A j \in Jobs : RowSafe(j)
  OBVIOUS
<1> DEFINE Goal == \A k \in Jobs : RowSafe(k)
<1> USE JobsAssumption DEF SafetyInv, TypeInv, TypeOK, BusyOnAJob, LeaseCounted,
     Terminal, Ordinary, OrdinaryPlaces, ContinuationPlaces, DispatchInv, RowSafe
<1>1. ASSUME NEW j \in Jobs, Enqueue(j) PROVE Goal
  BY <1>1, QueuedRow DEF Enqueue
<1>2. ASSUME NEW j \in Jobs, MintOperation(j) PROVE Goal
  BY <1>2 DEF MintOperation
<1>3. ASSUME NEW j \in Jobs, CommitDispatch(j) PROVE Goal
  <2>1. job[j].state = "absent" /\ job[j] \in Rows
    BY <1>3 DEF CommitDispatch
  <2>2. PICK due \in BOOLEAN : job' = [job EXCEPT ![j] = Queued(@, due)]
    BY <1>3 DEF CommitDispatch
  <2>3. /\ job'[j].cancel_requested = job[j].cancel_requested
        /\ \A k \in Jobs : k # j => job'[k] = job[k]
    BY <2>1, <2>2, QueuedRow
  <2> QED
    BY <2>1, <2>3
<1>4. ASSUME NEW j \in Jobs, FailOperation(j) PROVE Goal
  BY <1>4, RecordCloses DEF FailOperation
<1>5. ASSUME NEW j \in Jobs, RequestCancellation(j) PROVE Goal
  BY <1>5, CancelledRow, RecordCloses DEF RequestCancellation, Cancellable
<1>6. ASSUME NEW j \in Jobs, BecomesDue(j) PROVE Goal
  BY <1>6, TimedRows DEF BecomesDue
<1>7. ASSUME NEW j \in Jobs, LeaseLapses(j) PROVE Goal
  BY <1>7, TimedRows DEF LeaseLapses
<1>8. ASSUME NEW j \in Jobs, WorkerStalls(j) PROVE Goal
  BY <1>8, TimedRows DEF WorkerStalls
<1>9. ASSUME NEW w \in Workers, NEW j \in Jobs, AcquireLease(w, j) PROVE Goal
  BY <1>9, AcquiredRow, LeaseHanded DEF AcquireLease, Candidate
<1>10. ASSUME NEW w \in Workers, CancelGate(w) PROVE Goal
  BY <1>10, FinishedRow, WorkerLeaves, RecordCloses DEF CancelGate,
     FinishWithOperation, Held, HeldUncancelled
<1>11. ASSUME NEW w \in Workers, BudgetGate(w) PROVE Goal
  BY <1>11, FinishedRow, WorkerLeaves, RecordCloses DEF BudgetGate,
     FinishWithOperation, Held, HeldUncancelled
<1>12. ASSUME NEW w \in Workers, LookupKind(w) PROVE Goal
  BY <1>12, WorkerMoves DEF LookupKind
<1>13. ASSUME NEW w \in Workers, FailTerminally(w) PROVE Goal
  BY <1>13, FinishedRow, DeferredRow, WorkerLeaves, WorkerMoves, RecordCloses DEF
     FailTerminally, FinishWithOperation, Held, HeldUncancelled
<1>14. ASSUME NEW w \in Workers, EnterHandler(w) PROVE Goal
  BY <1>14, WorkerMoves DEF EnterHandler
<1>15. ASSUME NEW w \in Workers, Checkpoint(w) PROVE Goal
  BY <1>15, TimedRows, WorkerMoves DEF Checkpoint, Held, HeldUncancelled
<1>16. ASSUME NEW w \in Workers, HandlerReturns(w) PROVE Goal
  BY <1>16, FinishedRow, WorkerLeaves, WorkerMoves, RecordCloses DEF HandlerReturns,
     FinishWithOperation, Held, HeldUncancelled
<1>17. ASSUME NEW w \in Workers, HandlerRaises(w) PROVE Goal
  BY <1>17, WorkerMoves DEF HandlerRaises
<1>18. ASSUME NEW w \in Workers, WriteFailureOutcome(w) PROVE Goal
  BY <1>18, FinishedRow, RequeuedRow, WorkerLeaves, WorkerMoves, RecordCloses DEF
     WriteFailureOutcome, FinishWithOperation, Held, HeldUncancelled
<1>19. ASSUME NEW w \in Workers, DeferUnready(w) PROVE Goal
  BY <1>19, DeferredRow, WorkerLeaves, WorkerMoves DEF DeferUnready, Held,
     HeldUncancelled
<1>20. ASSUME NEW w \in Workers, ResolveZeroRowcount(w) PROVE Goal
  BY <1>20, FinishedRow, WorkerLeaves, RecordCloses DEF ResolveZeroRowcount,
     FinishWithOperation, Held, HeldUncancelled
<1>21. ASSUME NEW w \in Workers, RunContinuation(w) PROVE Goal
  BY <1>21, FinishedRow, RequeuedRow, WorkerLeaves, WorkerMoves DEF RunContinuation,
     Dispositions, FinishApplies, Held, HeldUncancelled
<1>22. ASSUME NEW w \in Workers, ContinuationRaises(w) PROVE Goal
  BY <1>22, WorkerMoves DEF ContinuationRaises
<1>23. ASSUME NEW w \in Workers, RequeueFaulted(w) PROVE Goal
  BY <1>23, RequeuedRow, WorkerLeaves, WorkerMoves DEF RequeueFaulted, Held,
     HeldUncancelled
<1>24. ASSUME NEW w \in Workers, RecheckCancellation(w) PROVE Goal
  BY <1>24, WorkerLeaves, WorkerTriesAgain DEF RecheckCancellation
<1>25. ASSUME NEW w \in Workers, Crash(w) PROVE Goal
  BY <1>25, WorkerLeaves DEF Crash
<1>26. ASSUME NEW w \in Workers, Deploy(w) PROVE Goal
  BY <1>26, WorkerLeaves DEF Deploy
<1>27. ASSUME UpgradeModule PROVE Goal
  BY <1>27 DEF UpgradeModule
<1>28. CASE UNCHANGED vars
  BY <1>28 DEF vars
<1> QED
  BY <1>1, <1>2, <1>3, <1>4, <1>5, <1>6, <1>7, <1>8, <1>9, <1>10, <1>11, <1>12,
     <1>13, <1>14, <1>15, <1>16, <1>17, <1>18, <1>19, <1>20, <1>21, <1>22, <1>23,
     <1>24, <1>25, <1>26, <1>27, <1>28 DEF Next, WorkerStep

(* A finished row is never written again (_held, request_cancellation).        *)
THEOREM FinishedIsForever == Spec => TerminalForever
<1>1. SafetyInv /\ [Next]_vars =>
        [\A j \in Jobs : job[j].state \in Terminal => job'[j] = job[j]]_vars
  BY StepsAreRowSafe DEF RowSafe
<1> QED
  BY <1>1, SafetyInvInit, SafetyInvNext, PTL DEF Spec, TerminalForever

(* A worker whose lease was taken writes nothing: while a lease is live only   *)
(* its owner moves the row (_held, acquire_lease).                             *)
THEOREM LiveLeaseIsExclusive == Spec => LeaseExclusive
<1>1. SafetyInv /\ [Next]_vars =>
        [\A j \in Jobs, w \in Workers :
            /\ job[j].state = "leased" /\ job[j].lease_owner = w /\ job[j].live
            /\ worker'[w] = worker[w]
            => /\ job'[j].state = "leased" /\ job'[j].lease_owner = w
               /\ job'[j].attempts = job[j].attempts]_vars
  BY StepsAreRowSafe DEF RowSafe
<1> QED
  BY <1>1, SafetyInvInit, SafetyInvNext, PTL DEF Spec, LeaseExclusive

(* No flagged lease is put back on the queue, by any path of the loop          *)
(* (requeue_for_retry, defer_unready_job, _finish_continuation_job).           *)
THEOREM FlaggedIsNeverRequeued == Spec => CancelledNeverRequeued
<1>1. SafetyInv /\ [Next]_vars =>
        [\A j \in Jobs : job[j].state = "leased" /\ job[j].cancel_requested
                         => job'[j].state # "queued"]_vars
  BY StepsAreRowSafe DEF RowSafe
<1> QED
  BY <1>1, SafetyInvInit, SafetyInvNext, PTL DEF Spec, CancelledNeverRequeued
-----------------------------------------------------------------------------
(* The retry budget.                                                           *)

(* The places of the loop before the handler, where a lease taken unflagged    *)
(* may still enter it, or give its attempt back.                               *)
BudgetPlaces == {"gates", "start", "reject", "unready"}

Pending(j) == {w \in Workers : /\ worker[w].at \in BudgetPlaces /\ worker[w].job = j
                               /\ ~worker[w].cancel_requested}

MayRun(j) == {w \in Pending(j) : ~Exhausted(worker[w])}

(* The attempts counted in the row cover every run so far and every lease that *)
(* may still run or be refunded; and the runs and the leases still within the  *)
(* budget do not exceed it, also where a stale worker holds a lease that was   *)
(* taken from it and the count has moved on.                                   *)
WithinBudget(j) ==
    /\ IsFiniteSet(Pending(j))
    /\ runs[j] + Cardinality(Pending(j)) <= job[j].attempts
    /\ runs[j] + Cardinality(MayRun(j)) <= MaxAttempts

(* What a worker before, in or after the handler knows: its lease was not      *)
(* flagged when it was taken and is within the budget; the attempts it was     *)
(* handed are the row's while it holds it; and it rejects only what the        *)
(* package it loaded rejects.                                                  *)
LeaseKnows(w) ==
    /\ worker[w].at \in {"start", "reject", "unready", "handler", "raised"} =>
         ~worker[w].cancel_requested
    /\ worker[w].at = "start" => ~Exhausted(worker[w])
    /\ worker[w].at = "reject" => worker[w].job \in Rejected[package[w]]
    /\ worker[w].at \in OrdinaryPlaces /\ Held(w, worker[w].job) =>
         worker[w].attempts = job[worker[w].job].attempts

BudgetInv == TypeInv /\ (\A w \in Workers : LeaseKnows(w)) /\ (\A j \in Jobs : WithinBudget(j))

(* The sets of workers, counted.                                               *)
LEMMA PendingCounted ==
    ASSUME BudgetInv, NEW j \in Jobs
    PROVE  /\ IsFiniteSet(Pending(j)) /\ IsFiniteSet(MayRun(j))
           /\ Cardinality(Pending(j)) \in Nat /\ Cardinality(MayRun(j)) \in Nat
           /\ Cardinality(MayRun(j)) <= Cardinality(Pending(j))
           /\ runs[j] \in Nat /\ job[j].attempts \in Nat
<1>1. IsFiniteSet(Pending(j)) /\ MayRun(j) \in SUBSET Pending(j)
  BY DEF BudgetInv, WithinBudget, MayRun
<1>2. runs[j] \in Nat /\ job[j].attempts \in Nat
  BY DEF BudgetInv, TypeInv, TypeOK, Rows
<1> QED
  BY <1>1, <1>2, FS_Subset, FS_CardinalityType

(* A job that nobody new is pending on, and whose runs and attempts did not    *)
(* change, stays within its budget.                                            *)
LEMMA BudgetKept ==
    ASSUME BudgetInv, NEW j \in Jobs,
           Pending(j)' \subseteq Pending(j), MayRun(j)' \subseteq MayRun(j),
           runs'[j] = runs[j], job'[j].attempts = job[j].attempts
    PROVE  WithinBudget(j)'
<1>1. /\ IsFiniteSet(Pending(j)') /\ IsFiniteSet(MayRun(j)')
      /\ Cardinality(Pending(j)') <= Cardinality(Pending(j))
      /\ Cardinality(MayRun(j)') <= Cardinality(MayRun(j))
      /\ Cardinality(Pending(j)') \in Nat /\ Cardinality(MayRun(j)') \in Nat
  BY PendingCounted, FS_Subset, FS_CardinalityType
<1>2. /\ runs[j] + Cardinality(Pending(j)) <= job[j].attempts
      /\ runs[j] + Cardinality(MayRun(j)) <= MaxAttempts
  BY DEF BudgetInv, WithinBudget
<1> QED
  BY <1>1, <1>2, PendingCounted, JobsAssumption DEF WithinBudget

(* So does one that a pending worker leaves as it gives its attempt back ...   *)
LEMMA BudgetRefunded ==
    ASSUME BudgetInv, NEW j \in Jobs, NEW w \in Pending(j),
           Pending(j)' \subseteq Pending(j) \ {w}, MayRun(j)' \subseteq MayRun(j),
           runs'[j] = runs[j], job'[j].attempts = job[j].attempts - 1
    PROVE  WithinBudget(j)'
<1>1. /\ IsFiniteSet(Pending(j) \ {w})
      /\ Cardinality(Pending(j) \ {w}) = Cardinality(Pending(j)) - 1
  BY PendingCounted, FS_RemoveElement
<1>2. /\ IsFiniteSet(Pending(j)') /\ IsFiniteSet(MayRun(j)')
      /\ Cardinality(Pending(j)') <= Cardinality(Pending(j)) - 1
      /\ Cardinality(MayRun(j)') <= Cardinality(MayRun(j))
      /\ Cardinality(Pending(j)') \in Nat /\ Cardinality(MayRun(j)') \in Nat
  BY <1>1, PendingCounted, FS_Subset, FS_CardinalityType
<1>3. /\ runs[j] + Cardinality(Pending(j)) <= job[j].attempts
      /\ runs[j] + Cardinality(MayRun(j)) <= MaxAttempts
  BY DEF BudgetInv, WithinBudget
<1> QED
  BY <1>2, <1>3, PendingCounted, JobsAssumption DEF WithinBudget

(* ... or as it enters the handler ...                                         *)
LEMMA BudgetUsed ==
    ASSUME BudgetInv, NEW j \in Jobs, NEW w \in MayRun(j),
           Pending(j)' \subseteq Pending(j) \ {w}, MayRun(j)' \subseteq MayRun(j) \ {w},
           runs'[j] = runs[j] + 1, job'[j].attempts = job[j].attempts
    PROVE  WithinBudget(j)'
<1>0. w \in Pending(j)
  BY DEF MayRun
<1>1. /\ IsFiniteSet(Pending(j) \ {w}) /\ IsFiniteSet(MayRun(j) \ {w})
      /\ Cardinality(Pending(j) \ {w}) = Cardinality(Pending(j)) - 1
      /\ Cardinality(MayRun(j) \ {w}) = Cardinality(MayRun(j)) - 1
  BY <1>0, PendingCounted, FS_RemoveElement
<1>2. /\ IsFiniteSet(Pending(j)') /\ IsFiniteSet(MayRun(j)')
      /\ Cardinality(Pending(j)') <= Cardinality(Pending(j)) - 1
      /\ Cardinality(MayRun(j)') <= Cardinality(MayRun(j)) - 1
      /\ Cardinality(Pending(j)') \in Nat /\ Cardinality(MayRun(j)') \in Nat
  BY <1>1, PendingCounted, FS_Subset, FS_CardinalityType
<1>3. /\ runs[j] + Cardinality(Pending(j)) <= job[j].attempts
      /\ runs[j] + Cardinality(MayRun(j)) <= MaxAttempts
  BY DEF BudgetInv, WithinBudget
<1> QED
  BY <1>2, <1>3, PendingCounted, JobsAssumption DEF WithinBudget

(* ... and one that a lease is taken on, whose count it raises: while it is    *)
(* within the budget, so is everything counted before it.                      *)
LEMMA BudgetTaken ==
    ASSUME BudgetInv, NEW j \in Jobs, NEW w \in Workers,
           Pending(j)' \subseteq Pending(j) \cup {w},
           MayRun(j)' \subseteq MayRun(j) \cup {w},
           w \in MayRun(j)' => job'[j].attempts <= MaxAttempts,
           runs'[j] = runs[j], job'[j].attempts = job[j].attempts + 1
    PROVE  WithinBudget(j)'
<1>1. /\ IsFiniteSet(Pending(j) \cup {w}) /\ IsFiniteSet(MayRun(j) \cup {w})
      /\ Cardinality(Pending(j) \cup {w}) <= Cardinality(Pending(j)) + 1
      /\ Cardinality(MayRun(j) \cup {w}) <= Cardinality(MayRun(j)) + 1
  <2>1. /\ IsFiniteSet(Pending(j) \cup {w})
        /\ Cardinality(Pending(j) \cup {w}) =
             IF w \in Pending(j) THEN Cardinality(Pending(j)) ELSE Cardinality(Pending(j)) + 1
    BY PendingCounted, FS_AddElement
  <2>2. /\ IsFiniteSet(MayRun(j) \cup {w})
        /\ Cardinality(MayRun(j) \cup {w}) =
             IF w \in MayRun(j) THEN Cardinality(MayRun(j)) ELSE Cardinality(MayRun(j)) + 1
    BY PendingCounted, FS_AddElement
  <2> QED
    BY <2>1, <2>2, PendingCounted
<1>2. /\ IsFiniteSet(Pending(j)') /\ IsFiniteSet(MayRun(j)')
      /\ Cardinality(Pending(j)') <= Cardinality(Pending(j) \cup {w})
      /\ Cardinality(MayRun(j)') <= Cardinality(MayRun(j) \cup {w})
      /\ w \notin MayRun(j)' => Cardinality(MayRun(j)') <= Cardinality(MayRun(j))
      /\ Cardinality(Pending(j)') \in Nat /\ Cardinality(MayRun(j)') \in Nat
  <2>1. w \notin MayRun(j)' => MayRun(j)' \in SUBSET MayRun(j)
    OBVIOUS
  <2> QED
    BY <1>1, <2>1, PendingCounted, FS_Subset, FS_CardinalityType
<1>3. /\ Cardinality(Pending(j) \cup {w}) \in Nat /\ Cardinality(MayRun(j) \cup {w}) \in Nat
  BY <1>1, FS_CardinalityType
<1>4. /\ runs[j] + Cardinality(Pending(j)) <= job[j].attempts
      /\ runs[j] + Cardinality(MayRun(j)) <= MaxAttempts
  BY DEF BudgetInv, WithinBudget
<1>5. /\ IsFiniteSet(Pending(j)')
      /\ runs'[j] + Cardinality(Pending(j)') <= job'[j].attempts
  BY <1>1, <1>2, <1>3, <1>4, PendingCounted
<1>6. runs'[j] + Cardinality(MayRun(j)') <= MaxAttempts
  <2>1. CASE w \in MayRun(j)'
    BY <1>1, <1>2, <1>3, <1>4, <2>1, PendingCounted, JobsAssumption
  <2>2. CASE w \notin MayRun(j)'
    BY <1>2, <1>4, <2>2, PendingCounted, JobsAssumption
  <2> QED
    BY <2>1, <2>2
<1> QED
  BY <1>5, <1>6 DEF WithinBudget

(* Most steps put no worker before the handler that was not there, and keep    *)
(* every row's attempts.                                                       *)
Quiet(w) ==
    /\ \A v \in Workers : v # w => worker'[v] = worker[v]
    /\ \/ worker'[w].at \notin BudgetPlaces
       \/ /\ worker[w].at \in BudgetPlaces /\ worker'[w].job = worker[w].job
          /\ worker'[w].cancel_requested = worker[w].cancel_requested
          /\ worker'[w].attempts = worker[w].attempts

LEMMA QuietPlaces ==
    ASSUME NEW w \in Workers, Quiet(w), NEW j \in Jobs
    PROVE  /\ Pending(j)' \subseteq Pending(j) /\ MayRun(j)' \subseteq MayRun(j)
           /\ worker'[w].at \notin BudgetPlaces => w \notin Pending(j)' /\ w \notin MayRun(j)'
  BY DEF Quiet, Pending, MayRun, Exhausted

LEMMA QuietBudget ==
    ASSUME BudgetInv, NEW w \in Workers, Quiet(w), runs' = runs,
           \A j \in Jobs : job'[j].attempts = job[j].attempts
    PROVE  \A j \in Jobs : WithinBudget(j)'
  BY QuietPlaces, BudgetKept

LEMMA StillBudget ==
    ASSUME BudgetInv, worker' = worker, runs' = runs,
           \A j \in Jobs : job'[j].attempts = job[j].attempts
    PROVE  \A j \in Jobs : WithinBudget(j)'
<1>1. ASSUME NEW j \in Jobs
      PROVE  Pending(j)' \subseteq Pending(j) /\ MayRun(j)' \subseteq MayRun(j)
  BY DEF Pending, MayRun, Exhausted
<1> QED
  BY <1>1, BudgetKept

(* The steps that move no worker.                                              *)
LEMMA BudgetOfRows ==
    ASSUME BudgetInv, NEW j \in Jobs,
           \/ Enqueue(j) \/ MintOperation(j) \/ CommitDispatch(j) \/ FailOperation(j)
           \/ RequestCancellation(j) \/ BecomesDue(j) \/ LeaseLapses(j) \/ WorkerStalls(j)
    PROVE  /\ worker' = worker /\ runs' = runs /\ package' = package
           /\ \A k \in Jobs : /\ job'[k].attempts = job[k].attempts
                              /\ job'[k].state = "leased" =>
                                   job[k].state = "leased"
                                   /\ job'[k].lease_owner = job[k].lease_owner
<1> USE DEF BudgetInv, TypeInv, TypeOK
<1>1. CASE Enqueue(j)
  BY <1>1, QueuedRow DEF Enqueue
<1>2. CASE MintOperation(j) \/ FailOperation(j)
  BY <1>2 DEF MintOperation, FailOperation
<1>3. CASE CommitDispatch(j)
  BY <1>3, QueuedRow DEF CommitDispatch
<1>4. CASE RequestCancellation(j)
  BY <1>4, CancelledRow DEF RequestCancellation
<1>5. CASE BecomesDue(j) \/ LeaseLapses(j) \/ WorkerStalls(j)
  BY <1>5, TimedRows DEF BecomesDue, LeaseLapses, WorkerStalls
<1> QED
  BY <1>1, <1>2, <1>3, <1>4, <1>5

(* The steps of a worker that neither take a lease, enter the handler nor      *)
(* refund an attempt.                                                          *)
NeutralStep(w) ==
    \/ CancelGate(w) \/ BudgetGate(w) \/ LookupKind(w) \/ Checkpoint(w)
    \/ HandlerReturns(w) \/ HandlerRaises(w) \/ WriteFailureOutcome(w)
    \/ ResolveZeroRowcount(w) \/ RunContinuation(w) \/ RequeueFaulted(w)
    \/ RecheckCancellation(w) \/ ContinuationRaises(w) \/ Crash(w) \/ Deploy(w)

LEMMA BudgetOfQuiet ==
    ASSUME BudgetInv, NEW w \in Workers, NeutralStep(w)
    PROVE  /\ Quiet(w) /\ runs' = runs
           /\ \A k \in Jobs : /\ job'[k].attempts = job[k].attempts
                              /\ job'[k].state = "leased" =>
                                   job[k].state = "leased"
                                   /\ job'[k].lease_owner = job[k].lease_owner
<1> USE DEF BudgetInv, TypeInv, TypeOK, Quiet, BudgetPlaces, OrdinaryPlaces,
            ContinuationPlaces, BusyOnAJob, Terminal, Ordinary
<1>1. CASE CancelGate(w)
  <2>1. /\ worker[w].job \in Jobs /\ runs' = runs /\ Leave(w)
        /\ FinishWithOperation(worker[w].job, "cancelled") \/ job' = job
    BY <1>1 DEF CancelGate
  <2>2. Quiet(w)
    BY <2>1, WorkerLeaves
  <2>3. \A k \in Jobs : /\ job'[k].attempts = job[k].attempts
                        /\ job'[k].state = "leased" =>
                             job[k].state = "leased"
                             /\ job'[k].lease_owner = job[k].lease_owner
    BY <2>1, FinishedRow DEF FinishWithOperation
  <2> QED
    BY <2>1, <2>2, <2>3
<1>2. CASE BudgetGate(w)
  BY <1>2, FinishedRow, WorkerLeaves DEF BudgetGate, FinishWithOperation
<1>3. CASE LookupKind(w)
  BY <1>3, WorkerMoves DEF LookupKind
<1>4. CASE Checkpoint(w)
  BY <1>4, TimedRows, WorkerMoves DEF Checkpoint
<1>5. CASE HandlerReturns(w)
  BY <1>5, FinishedRow, WorkerLeaves, WorkerMoves DEF HandlerReturns, FinishWithOperation
<1>6. CASE HandlerRaises(w)
  BY <1>6, WorkerMoves DEF HandlerRaises
<1>7. CASE WriteFailureOutcome(w)
  BY <1>7, FinishedRow, RequeuedRow, WorkerLeaves, WorkerMoves DEF WriteFailureOutcome,
     FinishWithOperation
<1>8. CASE ResolveZeroRowcount(w)
  BY <1>8, FinishedRow, WorkerLeaves DEF ResolveZeroRowcount, FinishWithOperation
<1>9. CASE RunContinuation(w)
  <2>1. /\ worker[w].job \in Jobs /\ runs' = runs
        /\ \/ \E d \in Terminal \cup {"retry"} :
                job' = [job EXCEPT ![worker[w].job] =
                          IF d = "retry" THEN Requeued(@) ELSE Finished(@, d)]
           \/ job' = job
    BY <1>9, JobsAssumption DEF RunContinuation, Dispositions
  <2>2. Quiet(w)
    BY <1>9, WorkerLeaves, WorkerMoves DEF RunContinuation
  <2>3. \A k \in Jobs : /\ job'[k].attempts = job[k].attempts
                        /\ job'[k].state = "leased" =>
                             job[k].state = "leased"
                             /\ job'[k].lease_owner = job[k].lease_owner
    BY <2>1, FinishedRow, RequeuedRow
  <2> QED
    BY <2>1, <2>2, <2>3
<1>10. CASE RequeueFaulted(w)
  BY <1>10, RequeuedRow, WorkerLeaves, WorkerMoves DEF RequeueFaulted
<1>11. CASE RecheckCancellation(w)
  BY <1>11, WorkerLeaves, WorkerTriesAgain DEF RecheckCancellation
<1>12. CASE ContinuationRaises(w)
  BY <1>12, WorkerMoves DEF ContinuationRaises
<1>13. CASE Crash(w) \/ Deploy(w)
  BY <1>13, WorkerLeaves DEF Crash, Deploy
<1> QED
  BY <1>1, <1>2, <1>3, <1>4, <1>5, <1>6, <1>7, <1>8, <1>9, <1>10, <1>11, <1>12, <1>13
     DEF NeutralStep

(* The four steps that do move the budget.                                     *)
LEMMA BudgetOfLease ==
    ASSUME BudgetInv, NEW w \in Workers, NEW j \in Jobs, AcquireLease(w, j)
    PROVE  \A k \in Jobs : WithinBudget(k)'
<1>0. job \in [Jobs -> Rows] /\ worker \in [Workers -> Leases] /\ TypeOK
  BY DEF BudgetInv, TypeInv, TypeOK
<1>1. /\ worker[w].at = "idle" /\ runs' = runs
      /\ worker'[w] = LeasedJob(j) /\ job'[j] = Acquired(job[j], w)
      /\ \A v \in Workers : v # w => worker'[v] = worker[v]
      /\ \A k \in Jobs : k # j => job'[k] = job[k]
  BY <1>0 DEF AcquireLease
<1>2. /\ worker'[w].job = j /\ worker'[w].cancel_requested = job[j].cancel_requested
      /\ worker'[w].attempts = CountedAttempts(job[j])
      /\ job'[j].attempts = CountedAttempts(job[j])
  BY <1>0, <1>1, LeaseHanded, AcquiredRow
<1>3. ASSUME NEW k \in Jobs, k # j PROVE WithinBudget(k)'
  <2>1. Pending(k)' \subseteq Pending(k) /\ MayRun(k)' \subseteq MayRun(k)
    BY <1>1, <1>2, <1>3 DEF Pending, MayRun, Exhausted
  <2> QED
    BY <1>1, <1>3, <2>1, BudgetKept
<1>4. WithinBudget(j)'
  <2>1. CASE job[j].cancel_requested
    <3>1. Pending(j)' \subseteq Pending(j) /\ MayRun(j)' \subseteq MayRun(j)
      BY <1>1, <1>2, <2>1 DEF Pending, MayRun, Exhausted
    <3>2. job'[j].attempts = job[j].attempts
      BY <1>2, <2>1 DEF CountedAttempts
    <3> QED
      BY <1>1, <3>1, <3>2, BudgetKept
  <2>2. CASE ~job[j].cancel_requested
    <3>1. /\ Pending(j)' \subseteq Pending(j) \cup {w} /\ MayRun(j)' \subseteq MayRun(j) \cup {w}
          /\ w \in MayRun(j)' => ~Exhausted(worker[w])'
      BY <1>1, <1>2 DEF Pending, MayRun, Exhausted
    <3>2. job'[j].attempts = job[j].attempts + 1 /\ job[j].attempts \in Nat
      BY <1>0, <1>2, <2>2 DEF CountedAttempts, Rows
    <3>3. w \in MayRun(j)' => job'[j].attempts <= MaxAttempts
      BY <1>2, <3>1, <3>2, JobsAssumption DEF Exhausted
    <3> QED
      BY <1>1, <3>1, <3>2, <3>3, BudgetTaken
  <2> QED
    BY <2>1, <2>2
<1> QED
  BY <1>3, <1>4

LEMMA BudgetOfEntry ==
    ASSUME BudgetInv, NEW w \in Workers, EnterHandler(w)
    PROVE  \A k \in Jobs : WithinBudget(k)'
<1>0. /\ worker \in [Workers -> Leases] /\ runs \in [Jobs -> Nat] /\ worker[w].job \in Jobs
      /\ worker[w].at = "start" /\ job' = job
      /\ ~worker[w].cancel_requested /\ ~Exhausted(worker[w])
  BY DEF BudgetInv, TypeInv, TypeOK, LeaseKnows, EnterHandler, BusyOnAJob, OrdinaryPlaces,
         Ordinary
<1>1. CASE ~Ready(w)
  <2>1. Goto(w, "unready") /\ runs' = runs
    BY <1>1 DEF EnterHandler
  <2>2. Quiet(w)
    BY <1>0, <2>1, WorkerMoves DEF Quiet, BudgetPlaces, OrdinaryPlaces
  <2> QED
    BY <1>0, <2>1, <2>2, QuietBudget
<1>2. CASE Ready(w)
  <2>1. Goto(w, "handler") /\ runs' = [runs EXCEPT ![worker[w].job] = @ + 1]
    BY <1>2 DEF EnterHandler
  <2>2. Quiet(w) /\ worker'[w].at \notin BudgetPlaces
    BY <1>0, <2>1, WorkerMoves DEF Quiet, BudgetPlaces, OrdinaryPlaces
  <2>3. w \in MayRun(worker[w].job)
    BY <1>0 DEF MayRun, Pending, BudgetPlaces
  <2>4. ASSUME NEW k \in Jobs PROVE WithinBudget(k)'
    <3>1. CASE k = worker[w].job
      <4>1. w \in MayRun(k) /\ runs'[k] = runs[k] + 1
        BY <1>0, <2>1, <2>3, <3>1
      <4>2. Pending(k)' \subseteq Pending(k) \ {w} /\ MayRun(k)' \subseteq MayRun(k) \ {w}
        BY <2>2, QuietPlaces
      <4> QED
        BY <1>0, <4>1, <4>2, BudgetUsed
    <3>2. CASE k # worker[w].job
      <4>1. runs'[k] = runs[k] /\ job'[k].attempts = job[k].attempts
        BY <1>0, <2>1, <3>2
      <4>2. Pending(k)' \subseteq Pending(k) /\ MayRun(k)' \subseteq MayRun(k)
        BY <2>2, QuietPlaces
      <4> QED
        BY <4>1, <4>2, BudgetKept
    <3> QED
      BY <3>1, <3>2
  <2> QED
    BY <2>4
<1> QED
  BY <1>1, <1>2

LEMMA BudgetOfDeferral ==
    ASSUME BudgetInv, NEW w \in Workers, FailTerminally(w) \/ DeferUnready(w)
    PROVE  \A k \in Jobs : WithinBudget(k)'
<1>0. /\ worker \in [Workers -> Leases] /\ job \in [Jobs -> Rows] /\ worker[w].job \in Jobs
      /\ worker[w].at \in {"reject", "unready"} /\ ~worker[w].cancel_requested
      /\ runs' = runs
  BY DEF BudgetInv, TypeInv, TypeOK, LeaseKnows, FailTerminally, DeferUnready, BusyOnAJob,
         OrdinaryPlaces, Ordinary
<1>1. w \in Pending(worker[w].job)
  BY <1>0 DEF Pending, BudgetPlaces
<1>2. Quiet(w) /\ worker'[w].at \notin BudgetPlaces
  BY <1>0, WorkerMoves, WorkerLeaves DEF FailTerminally, DeferUnready, Quiet, BudgetPlaces,
     OrdinaryPlaces
<1>3. CASE /\ job' = [job EXCEPT ![worker[w].job] = Deferred(@)]
           /\ HeldUncancelled(w, worker[w].job)
  <2>1. job[worker[w].job].attempts >= 1
    BY <1>0, <1>3 DEF HeldUncancelled, Held, BudgetInv, TypeInv, LeaseCounted
  <2>2. ASSUME NEW k \in Jobs PROVE WithinBudget(k)'
    <3>1. CASE k = worker[w].job
      <4>1. w \in Pending(k) /\ job'[k].attempts = job[k].attempts - 1
        BY <1>0, <1>1, <1>3, <2>1, <3>1, DeferredRow
      <4>2. Pending(k)' \subseteq Pending(k) \ {w} /\ MayRun(k)' \subseteq MayRun(k)
        BY <1>2, QuietPlaces
      <4> QED
        BY <1>0, <4>1, <4>2, BudgetRefunded
    <3>2. CASE k # worker[w].job
      <4>1. job'[k].attempts = job[k].attempts
        BY <1>0, <1>3, <3>2
      <4>2. Pending(k)' \subseteq Pending(k) /\ MayRun(k)' \subseteq MayRun(k)
        BY <1>2, QuietPlaces
      <4> QED
        BY <1>0, <4>1, <4>2, BudgetKept
    <3> QED
      BY <3>1, <3>2
  <2> QED
    BY <2>2
<1>4. CASE \A k \in Jobs : job'[k].attempts = job[k].attempts
  BY <1>0, <1>2, <1>4, QuietBudget
<1> QED
  BY <1>0, <1>3, <1>4, FinishedRow
  DEF FailTerminally, DeferUnready, FinishWithOperation, Terminal
-----------------------------------------------------------------------------
(* What a worker knows stays true while it holds its lease.                    *)

(* Of a worker that a step does not move, and that is handed no row.           *)
LEMMA OthersKnow ==
    ASSUME BudgetInv, NEW v \in Workers, worker'[v] = worker[v], package'[v] = package[v],
           \A k \in Jobs : job'[k].state = "leased" /\ job'[k].lease_owner = v =>
                              /\ job[k].state = "leased" /\ job[k].lease_owner = v
                              /\ job'[k].attempts = job[k].attempts
    PROVE  LeaseKnows(v)'
<1>1. LeaseKnows(v) /\ (worker[v].at \in OrdinaryPlaces => worker[v].job \in Jobs)
  BY DEF BudgetInv, TypeInv, BusyOnAJob, Ordinary
<1> QED
  BY <1>1 DEF LeaseKnows, Held, Exhausted

(* Of a worker that moves on in the loop with the lease it has.                *)
LEMMA MoverKnows ==
    ASSUME BudgetInv, NEW w \in Workers, NEW place \in OrdinaryPlaces, Goto(w, place),
           worker[w].at \in OrdinaryPlaces, job' = job \/ place = "resolve",
           \A k \in Jobs : /\ job'[k].attempts = job[k].attempts
                           /\ job'[k].state = "leased" =>
                                job[k].state = "leased"
                                /\ job'[k].lease_owner = job[k].lease_owner,
           place \in {"start", "reject", "unready", "handler", "raised"} =>
             ~worker[w].cancel_requested,
           place = "start" => ~Exhausted(worker[w]),
           place = "reject" => worker[w].job \in Rejected[package'[w]]
    PROVE  LeaseKnows(w)'
<1>1. /\ LeaseKnows(w) /\ worker[w].job \in Jobs
      /\ worker'[w].at = place /\ worker'[w].job = worker[w].job
      /\ worker'[w].attempts = worker[w].attempts
      /\ worker'[w].cancel_requested = worker[w].cancel_requested
  BY WorkerMoves DEF BudgetInv, TypeInv, TypeOK, BusyOnAJob, Ordinary
<1> QED
  BY <1>1 DEF LeaseKnows, Held, Exhausted

(* Of one that leaves the part of the loop this is about.                      *)
LEMMA NobodyKnows ==
    ASSUME NEW w \in Workers, worker'[w].at \in {"idle"} \cup ContinuationPlaces
    PROVE  LeaseKnows(w)'
  BY DEF LeaseKnows, OrdinaryPlaces, ContinuationPlaces

LEMMA RowsKnow ==
    ASSUME BudgetInv, worker' = worker, package' = package,
           \A k \in Jobs : /\ job'[k].attempts = job[k].attempts
                           /\ job'[k].state = "leased" =>
                                job[k].state = "leased"
                                /\ job'[k].lease_owner = job[k].lease_owner
    PROVE  \A v \in Workers : LeaseKnows(v)'
  BY OthersKnow

LEMMA KnownByQuiet ==
    ASSUME BudgetInv, NEW w \in Workers, NeutralStep(w)
    PROVE  \A v \in Workers : LeaseKnows(v)'
<1>0. /\ Quiet(w)
      /\ \A k \in Jobs : /\ job'[k].attempts = job[k].attempts
                         /\ job'[k].state = "leased" =>
                              job[k].state = "leased"
                              /\ job'[k].lease_owner = job[k].lease_owner
  BY BudgetOfQuiet
<1>1. worker \in [Workers -> Leases] /\ package \in [Workers -> Versions]
      /\ LeaseKnows(w)
  BY DEF BudgetInv, TypeInv, TypeOK
<1>2. \A v \in Workers : v # w => package'[v] = package[v]
  BY <1>1 DEF NeutralStep, CancelGate, BudgetGate, LookupKind, Checkpoint, HandlerReturns,
     HandlerRaises, WriteFailureOutcome, ResolveZeroRowcount, RunContinuation,
     RequeueFaulted, RecheckCancellation, ContinuationRaises, Crash, Deploy
<1>3. ASSUME NEW v \in Workers, v # w PROVE LeaseKnows(v)'
  BY <1>0, <1>2, <1>3, OthersKnow DEF Quiet
<1>4. CASE worker'[w].at \in {"idle"} \cup ContinuationPlaces
  BY <1>3, <1>4, NobodyKnows
<1>5. CASE Goto(w, "resolve") /\ worker[w].at \in OrdinaryPlaces
  BY <1>0, <1>3, <1>5, MoverKnows DEF OrdinaryPlaces
<1>6. CASE LookupKind(w)
  <2>1. PICK place \in {"reject", "start"} :
          /\ Goto(w, place)
          /\ place = "reject" => worker[w].job \in Rejected[package[w]]
    BY <1>6 DEF LookupKind
  <2>2. /\ worker[w].at \in OrdinaryPlaces /\ place \in OrdinaryPlaces /\ job' = job
        /\ ~worker[w].cancel_requested /\ ~Exhausted(worker[w]) /\ package' = package
    BY <1>6 DEF LookupKind, OrdinaryPlaces
  <2>3. LeaseKnows(w)'
    BY <1>0, <2>1, <2>2, MoverKnows
  <2> QED
    BY <1>3, <2>3
<1>7. CASE HandlerRaises(w)
  <2>1. /\ Goto(w, "raised") /\ worker[w].at = "handler" /\ job' = job
        /\ ~worker[w].cancel_requested
    BY <1>1, <1>7 DEF HandlerRaises, LeaseKnows
  <2>2. LeaseKnows(w)'
    BY <1>0, <2>1, MoverKnows DEF OrdinaryPlaces
  <2> QED
    BY <1>3, <2>2
<1>8. CASE Checkpoint(w) /\ worker' = worker
  BY <1>0, <1>3, <1>8, OthersKnow DEF Checkpoint
<1>9. \/ worker'[w].at \in {"idle"} \cup ContinuationPlaces
      \/ Goto(w, "resolve") /\ worker[w].at \in OrdinaryPlaces
      \/ LookupKind(w) \/ HandlerRaises(w) \/ (Checkpoint(w) /\ worker' = worker)
  <2> USE <1>1 DEF OrdinaryPlaces
  <2>1. CASE CancelGate(w) \/ BudgetGate(w) \/ ResolveZeroRowcount(w) \/ Crash(w) \/ Deploy(w)
    BY <2>1, WorkerLeaves DEF CancelGate, BudgetGate, ResolveZeroRowcount, Crash, Deploy
  <2>2. CASE Checkpoint(w)
    BY <2>2 DEF Checkpoint
  <2>3. CASE HandlerReturns(w) \/ WriteFailureOutcome(w)
    BY <2>3, WorkerLeaves DEF HandlerReturns, WriteFailureOutcome
  <2>4. CASE RunContinuation(w) \/ RequeueFaulted(w) \/ ContinuationRaises(w)
    BY <2>4, WorkerLeaves, WorkerMoves DEF RunContinuation, RequeueFaulted,
       ContinuationRaises, ContinuationPlaces
  <2>5. CASE RecheckCancellation(w)
    BY <2>5, WorkerLeaves, WorkerTriesAgain DEF RecheckCancellation, ContinuationPlaces
  <2> QED
    BY <2>1, <2>2, <2>3, <2>4, <2>5 DEF NeutralStep
<1> QED
  BY <1>4, <1>5, <1>6, <1>7, <1>8, <1>9

LEMMA KnownByLease ==
    ASSUME BudgetInv, NEW w \in Workers, NEW j \in Jobs, AcquireLease(w, j)
    PROVE  \A v \in Workers : LeaseKnows(v)'
<1>1. /\ package' = package /\ worker'[w] = LeasedJob(j) /\ job'[j] = Acquired(job[j], w)
      /\ \A v \in Workers : v # w => worker'[v] = worker[v]
      /\ \A k \in Jobs : k # j => job'[k] = job[k]
      /\ TypeOK /\ job[j] \in Rows
  BY DEF AcquireLease, BudgetInv, TypeInv, TypeOK
<1>2. /\ worker'[w].job = j /\ worker'[w].attempts = job'[j].attempts
      /\ worker'[w].at \in {"continue", "gates"} /\ job'[j].lease_owner = w
  BY <1>1, LeaseHanded, AcquiredRow
<1>3. ASSUME NEW v \in Workers, v # w PROVE LeaseKnows(v)'
  BY <1>1, <1>2, <1>3, OthersKnow
<1>4. LeaseKnows(w)'
  BY <1>2 DEF LeaseKnows, OrdinaryPlaces
<1> QED
  BY <1>3, <1>4

LEMMA KnownByEntry ==
    ASSUME BudgetInv, NEW w \in Workers, EnterHandler(w)
    PROVE  \A v \in Workers : LeaseKnows(v)'
<1>1. PICK place \in {"handler", "unready"} : Goto(w, place)
  BY DEF EnterHandler
<1>2. /\ worker[w].at = "start" /\ job' = job /\ package' = package
      /\ ~worker[w].cancel_requested /\ worker \in [Workers -> Leases]
  BY DEF EnterHandler, BudgetInv, LeaseKnows, TypeInv, TypeOK
<1>3. \A v \in Workers : v # w => worker'[v] = worker[v]
  BY <1>1, <1>2, WorkerMoves DEF OrdinaryPlaces
<1>4. ASSUME NEW v \in Workers, v # w PROVE LeaseKnows(v)'
  BY <1>2, <1>3, <1>4, OthersKnow
<1>5. LeaseKnows(w)'
  BY <1>1, <1>2, MoverKnows DEF OrdinaryPlaces
<1> QED
  BY <1>4, <1>5

LEMMA KnownByDeferral ==
    ASSUME BudgetInv, NEW w \in Workers, FailTerminally(w) \/ DeferUnready(w)
    PROVE  \A v \in Workers : LeaseKnows(v)'
<1>0. /\ worker \in [Workers -> Leases] /\ job \in [Jobs -> Rows] /\ worker[w].job \in Jobs
      /\ worker[w].at \in {"reject", "unready"} /\ package' = package
  BY DEF BudgetInv, TypeInv, TypeOK, FailTerminally, DeferUnready, BusyOnAJob,
         OrdinaryPlaces, Ordinary
<1>1. CASE Goto(w, "resolve") /\ job' = job
  <2>1. \A v \in Workers : v # w => worker'[v] = worker[v]
    BY <1>0, <1>1, WorkerMoves DEF OrdinaryPlaces
  <2>2. ASSUME NEW v \in Workers, v # w PROVE LeaseKnows(v)'
    BY <1>0, <1>1, <2>1, <2>2, OthersKnow
  <2>3. LeaseKnows(w)'
    BY <1>0, <1>1, MoverKnows DEF OrdinaryPlaces
  <2> QED
    BY <2>2, <2>3
<1>2. CASE /\ Leave(w) /\ HeldUncancelled(w, worker[w].job)
           /\ \/ job' = [job EXCEPT ![worker[w].job] = Deferred(@)]
              \/ job' = [job EXCEPT ![worker[w].job] = Finished(@, "failed")]
  <2>1. job[worker[w].job].attempts >= 1
    BY <1>0, <1>2 DEF HeldUncancelled, Held, BudgetInv, TypeInv, LeaseCounted
  <2>2. /\ job'[worker[w].job].state # "leased"
        /\ \A k \in Jobs : k # worker[w].job => job'[k] = job[k]
    BY <1>0, <1>2, <2>1, DeferredRow, FinishedRow DEF Terminal
  <2>3. \A v \in Workers : v # w => worker'[v] = worker[v]
    BY <1>0, <1>2, WorkerLeaves
  <2>4. ASSUME NEW v \in Workers, v # w PROVE LeaseKnows(v)'
    BY <1>0, <2>2, <2>3, <2>4, OthersKnow
  <2>5. LeaseKnows(w)'
    BY <1>0, <1>2, WorkerLeaves, NobodyKnows
  <2> QED
    BY <2>4, <2>5
<1> QED
  BY <1>1, <1>2 DEF FailTerminally, DeferUnready, FinishWithOperation

(* The budget holds at first and is kept by every step.                        *)
LEMMA BudgetInvInit == Init => BudgetInv
<1> SUFFICES ASSUME Init PROVE BudgetInv
  OBVIOUS
<1>1. TypeInv /\ \A w \in Workers : worker[w].at = "idle"
  BY TypeInvInit DEF Init, Idle
<1>2. \A w \in Workers : LeaseKnows(w)
  BY <1>1 DEF LeaseKnows, OrdinaryPlaces
<1>3. ASSUME NEW j \in Jobs PROVE WithinBudget(j)
  <2>1. Pending(j) = {} /\ MayRun(j) = {}
    BY <1>1 DEF Pending, MayRun, BudgetPlaces
  <2>2. runs[j] = 0 /\ job[j].attempts = 0
    BY DEF Init, NoRow
  <2> QED
    BY <2>1, <2>2, FS_EmptySet, JobsAssumption DEF WithinBudget
<1> QED
  BY <1>1, <1>2, <1>3 DEF BudgetInv

LEMMA BudgetInvNext == BudgetInv /\ [Next]_vars => BudgetInv'
<1> SUFFICES ASSUME BudgetInv, [Next]_vars
             PROVE  /\ \A w \in Workers : LeaseKnows(w)'
                    /\ \A j \in Jobs : WithinBudget(j)'
  BY TypeInvNext DEF BudgetInv
<1>1. CASE \E j \in Jobs : \/ Enqueue(j) \/ MintOperation(j) \/ CommitDispatch(j)
                          \/ FailOperation(j) \/ RequestCancellation(j)
                          \/ BecomesDue(j) \/ LeaseLapses(j) \/ WorkerStalls(j)
  BY <1>1, BudgetOfRows, StillBudget, RowsKnow
<1>2. CASE \E w \in Workers : NeutralStep(w)
  BY <1>2, BudgetOfQuiet, QuietBudget, KnownByQuiet
<1>3. CASE \E w \in Workers, j \in Jobs : AcquireLease(w, j)
  BY <1>3, BudgetOfLease, KnownByLease
<1>4. CASE \E w \in Workers : EnterHandler(w)
  BY <1>4, BudgetOfEntry, KnownByEntry
<1>5. CASE \E w \in Workers : FailTerminally(w) \/ DeferUnready(w)
  BY <1>5, BudgetOfDeferral, KnownByDeferral
<1>6. CASE UpgradeModule \/ UNCHANGED vars
  BY <1>6, StillBudget, RowsKnow DEF UpgradeModule, vars
<1> QED
  BY <1>1, <1>2, <1>3, <1>4, <1>5, <1>6 DEF Next, WorkerStep, NeutralStep

(* The crash arm of the budget (attempts > max_attempts, seen by the next      *)
(* lease), its exception arm (>=, in the worker whose handler raised) and the  *)
(* attempts that deferrals refund together never let a handler be entered more *)
(* than max_attempts times, for any number of workers that hold stale leases   *)
(* at once (acquire_lease, _run_leased_job, defer_unready_job).                *)
THEOREM HandlersRunWithinBudget == Spec => []RunsWithinBudget
<1>1. BudgetInv => RunsWithinBudget
  <2> SUFFICES ASSUME BudgetInv, NEW j \in Jobs PROVE runs[j] <= MaxAttempts
    BY DEF RunsWithinBudget
  <2>1. runs[j] + Cardinality(MayRun(j)) <= MaxAttempts
    BY DEF BudgetInv, WithinBudget
  <2> QED
    BY <2>1, PendingCounted, JobsAssumption
<1> QED
  BY <1>1, BudgetInvInit, BudgetInvNext, PTL DEF Spec
-----------------------------------------------------------------------------
(* Why a job may fail.                                                         *)

ForCause(j) == job'[j].attempts >= MaxAttempts \/ j \in Rejected[schema]

(* The steps that can end a job as failed, each with its reason.               *)
LEMMA FailureIsEarned ==
    ASSUME BudgetInv, NEW w \in Workers, NEW j \in Ordinary,
           BudgetGate(w) \/ WriteFailureOutcome(w) \/ FailTerminally(w) \/ RunContinuation(w),
           job[j].state # "failed", job'[j].state = "failed"
    PROVE  ForCause(j)
<1>0. /\ job \in [Jobs -> Rows] /\ j \in Jobs /\ worker[w].job \in Jobs
      /\ worker[w].attempts \in Nat /\ LeaseKnows(w) /\ MaxAttempts \in Nat
  BY JobsAssumption DEF BudgetInv, TypeInv, TypeOK, Leases, BusyOnAJob, Ordinary, OrdinaryPlaces,
     ContinuationPlaces, BudgetGate, WriteFailureOutcome, FailTerminally, RunContinuation
<1>1. CASE BudgetGate(w)
  <2>1. /\ HeldUncancelled(w, worker[w].job)
        /\ job' = [job EXCEPT ![worker[w].job] = Finished(@, "failed")]
    BY <1>1 DEF BudgetGate, FinishWithOperation
  <2>2. j = worker[w].job /\ job'[j].attempts = job[j].attempts
    BY <1>0, <2>1, FinishedRow DEF Terminal
  <2>3. worker[w].attempts = job[j].attempts /\ worker[w].attempts > MaxAttempts
    BY <1>0, <1>1, <2>1, <2>2 DEF BudgetGate, Exhausted, LeaseKnows, HeldUncancelled, OrdinaryPlaces
  <2> QED
    BY <1>0, <2>2, <2>3 DEF ForCause
<1>2. CASE WriteFailureOutcome(w)
  <2>1. HeldUncancelled(w, worker[w].job) /\ worker[w].at = "raised"
    BY <1>2 DEF WriteFailureOutcome
  <2>2. j = worker[w].job
    BY <1>0, <1>2, <2>1 DEF WriteFailureOutcome, FinishWithOperation
  <2>3. Spent(worker[w]) /\ job' = [job EXCEPT ![worker[w].job] = Finished(@, "failed")]
    BY <1>0, <1>2, <2>1, <2>2, RequeuedRow DEF WriteFailureOutcome, FinishWithOperation
  <2>4. job'[j].attempts = job[j].attempts
    BY <1>0, <2>2, <2>3, FinishedRow DEF Terminal
  <2>5. worker[w].attempts = job[j].attempts
    BY <1>0, <2>1, <2>2 DEF LeaseKnows, HeldUncancelled, OrdinaryPlaces
  <2> QED
    BY <1>0, <2>3, <2>4, <2>5 DEF ForCause, Spent
<1>3. CASE FailTerminally(w)
  <2>1. HeldUncancelled(w, worker[w].job) /\ worker[w].at = "reject"
    BY <1>3 DEF FailTerminally
  <2>2. j = worker[w].job
    BY <1>0, <1>3, <2>1 DEF FailTerminally, FinishWithOperation
  <2>3. job[j].attempts >= 1
    BY <1>0, <2>1, <2>2 DEF HeldUncancelled, Held, BudgetInv, TypeInv, LeaseCounted
  <2>4. Ready(w)
    BY <1>0, <1>3, <2>1, <2>2, <2>3, DeferredRow DEF FailTerminally
  <2> QED
    BY <1>0, <1>3, <2>1, <2>2, <2>4 DEF ForCause, FailTerminally, LeaseKnows, Ready
<1>4. CASE RunContinuation(w)
  <2>1. worker[w].job \in Continuations
    BY <1>4 DEF RunContinuation, BudgetInv, TypeInv, BusyOnAJob, ContinuationPlaces
  <2>2. j # worker[w].job
    BY <2>1 DEF Ordinary
  <2> QED
    BY <1>0, <1>4, <2>2 DEF RunContinuation
<1> QED
  BY <1>1, <1>2, <1>3, <1>4

(* No other step fails a job.                                                  *)
LEMMA NothingElseFails ==
    ASSUME BudgetInv, [Next]_vars, NEW j \in Jobs,
           job[j].state # "failed", job'[j].state = "failed"
    PROVE  \E w \in Workers : BudgetGate(w) \/ WriteFailureOutcome(w)
                              \/ FailTerminally(w) \/ RunContinuation(w)
<1> DEFINE Fails == job'[j].state = "failed"
<1>0. /\ job \in [Jobs -> Rows] /\ worker \in [Workers -> Leases]
      /\ \A w \in Workers :
            worker[w].at \in OrdinaryPlaces \cup ContinuationPlaces => worker[w].job \in Jobs
  BY JobsAssumption DEF BudgetInv, TypeInv, TypeOK, BusyOnAJob, Ordinary
<1>1. ASSUME NEW k \in Jobs,
             \/ Enqueue(k) \/ MintOperation(k) \/ CommitDispatch(k) \/ FailOperation(k)
             \/ RequestCancellation(k) \/ BecomesDue(k) \/ LeaseLapses(k) \/ WorkerStalls(k)
      PROVE  ~Fails
  <2>1. CASE Enqueue(k) \/ CommitDispatch(k)
    BY <1>0, <2>1, QueuedRow DEF Enqueue, CommitDispatch
  <2>2. CASE MintOperation(k) \/ FailOperation(k)
    BY <2>2 DEF MintOperation, FailOperation
  <2>3. CASE RequestCancellation(k)
    BY <1>0, <2>3, CancelledRow DEF RequestCancellation
  <2>4. CASE BecomesDue(k) \/ LeaseLapses(k) \/ WorkerStalls(k)
    BY <1>0, <2>4, TimedRows DEF BecomesDue, LeaseLapses, WorkerStalls
  <2> QED
    BY <1>1, <2>1, <2>2, <2>3, <2>4
<1>2. ASSUME NEW w \in Workers, CancelGate(w) \/ ResolveZeroRowcount(w) PROVE ~Fails
  <2>1. /\ worker[w].job \in Jobs
        /\ FinishWithOperation(worker[w].job, "cancelled") \/ job' = job
    BY <1>0, <1>2 DEF CancelGate, ResolveZeroRowcount, OrdinaryPlaces
  <2> QED
    BY <1>0, <2>1, FinishedRow DEF FinishWithOperation, Terminal
<1>3. ASSUME NEW w \in Workers, HandlerReturns(w) PROVE ~Fails
  <2>1. /\ worker[w].job \in Jobs
        /\ FinishWithOperation(worker[w].job, "succeeded") \/ job' = job
    BY <1>0, <1>3 DEF HandlerReturns, OrdinaryPlaces
  <2> QED
    BY <1>0, <2>1, FinishedRow DEF FinishWithOperation, Terminal
<1>4. ASSUME NEW w \in Workers, Checkpoint(w) PROVE ~Fails
  BY <1>0, <1>4, TimedRows DEF Checkpoint, OrdinaryPlaces
<1>5. ASSUME NEW w \in Workers, DeferUnready(w) PROVE ~Fails
  <2>1. CASE HeldUncancelled(w, worker[w].job)
    <3>1. job[worker[w].job].attempts >= 1 /\ worker[w].job \in Jobs
      BY <1>0, <1>5, <2>1 DEF HeldUncancelled, Held, BudgetInv, TypeInv, LeaseCounted, DeferUnready,
         OrdinaryPlaces
    <3> QED
      BY <1>0, <1>5, <2>1, <3>1, DeferredRow DEF DeferUnready
  <2>2. CASE ~HeldUncancelled(w, worker[w].job)
    BY <1>5, <2>2 DEF DeferUnready
  <2> QED
    BY <2>1, <2>2
<1>6. ASSUME NEW w \in Workers, RequeueFaulted(w) PROVE ~Fails
  BY <1>0, <1>6, RequeuedRow DEF RequeueFaulted, ContinuationPlaces
<1>7. ASSUME NEW w \in Workers, NEW k \in Jobs, AcquireLease(w, k) PROVE ~Fails
  BY <1>0, <1>7, AcquiredRow DEF AcquireLease
<1>8. ASSUME NEW w \in Workers,
             \/ LookupKind(w) \/ EnterHandler(w) \/ HandlerRaises(w) \/ RecheckCancellation(w)
             \/ ContinuationRaises(w) \/ Crash(w) \/ Deploy(w)
      PROVE  ~Fails
  BY <1>8 DEF LookupKind, EnterHandler, HandlerRaises, RecheckCancellation, ContinuationRaises,
     Crash, Deploy
<1>9. CASE UpgradeModule \/ UNCHANGED vars
  BY <1>9 DEF UpgradeModule, vars
<1> QED
  BY <1>1, <1>2, <1>3, <1>4, <1>5, <1>6, <1>7, <1>8, <1>9 DEF Next, WorkerStep

(* An ordinary job ends as failed only with its budget spent, counted in its   *)
(* row and not only in the lease that ends it, or because the package of the   *)
(* version the database is at does not register its kind or rejects its stored *)
(* input; a worker with another package defers it, whatever its own lookup     *)
(* said (_run_leased_job, _fail_terminally, _unless_unready).                  *)
THEOREM FailuresAreEarned == Spec => FailedOnlyForCause
<1>1. BudgetInv /\ [Next]_vars =>
        [\A j \in Ordinary : job[j].state # "failed" /\ job'[j].state = "failed" =>
            job'[j].attempts >= MaxAttempts \/ j \in Rejected[schema]]_vars
  <2> SUFFICES ASSUME BudgetInv, [Next]_vars, NEW j \in Ordinary,
                      job[j].state # "failed", job'[j].state = "failed"
               PROVE  ForCause(j)
    BY DEF ForCause
  <2>1. j \in Jobs
    BY DEF Ordinary
  <2> QED
    BY <2>1, NothingElseFails, FailureIsEarned
<1> QED
  BY <1>1, BudgetInvInit, BudgetInvNext, PTL DEF Spec, FailedOnlyForCause
=============================================================================
