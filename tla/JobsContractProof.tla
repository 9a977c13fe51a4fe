------------------------- MODULE JobsContractProof -------------------------
(***************************************************************************)
(* The worker loop implements the contract of durable work, for any jobs,  *)
(* workers, budget and faults, as long as no dispatcher is misled about    *)
(* its own commit.                                                         *)
(***************************************************************************)
EXTENDS JobsProofs

(* One row's view changes as the contract allows, and nobody else's does.      *)
Others(j) ==
    \A k \in Jobs \ {j} :
        job'[k] = job[k] /\ record'[k] = record[k] /\ effects'[k] = effects[k]

LEMMA EndStep ==
    ASSUME RecordInv, TypeOK', NEW j \in Jobs, NEW o \in Terminal, Others(j),
           job[j].state \in {"queued", "leased"}, job'[j].state = o,
           j \in Ordinary => (job'[j].cancel_requested <=> o = "cancelled"),
           job[j].cancel_requested => job'[j].cancel_requested,
           effects' = IF j \in Continuations \/ o = "succeeded"
                      THEN [effects EXCEPT ![j] = @ + 1] ELSE effects,
           j \in Recorded => record'[j] = o,
           j \notin Recorded => record'[j] = record[j]
    PROVE  Contract!Next
<1> USE JobsAssumption DEF RecordInv, SafetyInv, TypeInv, TypeOK, Terminal, Ordinary,
     Others
<1>1. [k \in Jobs |-> Outcome(job[k])]' =
        [[k \in Jobs |-> Outcome(job[k])] EXCEPT ![j] = o]
  BY DEF Outcome
<1>2. [k \in Jobs |-> job[k].cancel_requested]' \in
        {[k \in Jobs |-> job[k].cancel_requested],
         [[k \in Jobs |-> job[k].cancel_requested] EXCEPT ![j] = TRUE]}
  <2>1. \A k \in Jobs : job[k].cancel_requested \in BOOLEAN
                        /\ job'[k].cancel_requested \in BOOLEAN
    BY DEF Rows
  <2>2. CASE job'[j].cancel_requested = job[j].cancel_requested
    <3>1. \A k \in Jobs : job'[k].cancel_requested = job[k].cancel_requested
      BY <2>2
    <3> QED
      BY <3>1
  <2>3. CASE job'[j].cancel_requested = TRUE
    <3>1. \A k \in Jobs : job'[k].cancel_requested =
                            IF k = j THEN TRUE ELSE job[k].cancel_requested
      BY <2>3
    <3> QED
      BY <3>1, Zenon
  <2> QED
    BY <2>1, <2>2, <2>3
<1>3. [k \in Jobs |-> Shown(record[k])]' =
        IF j \in Recorded THEN [[k \in Jobs |-> Shown(record[k])] EXCEPT ![j] = o]
        ELSE [k \in Jobs |-> Shown(record[k])]
  BY DEF Shown
<1>4. Outcome(job[j]) = "open" /\ Shown(record[j]) = "open"
  BY DEF Outcome, Shown, RecordAgrees, DispatchInv
<1>5. Contract!End(j, o)
  BY <1>1, <1>2, <1>3, <1>4 DEF Contract!End, Contract!Landed
<1> QED
  BY <1>5 DEF Contract!Next, Contract!Ends
-----------------------------------------------------------------------------
(* A flag is never taken back, so what an acquire handed its worker still      *)
(* holds when the worker acts on it.                                           *)
FlagRemembered ==
    \A w \in Workers :
        worker[w].at # "idle" /\ worker[w].cancel_requested =>
            job[worker[w].job].cancel_requested

(* How a step may change what a worker holds.                                  *)
HoldsOn(w) ==
    \/ worker'[w].at = "idle"
    \/ /\ worker[w].at # "idle" /\ worker'[w].job = worker[w].job
       /\ worker'[w].cancel_requested = worker[w].cancel_requested
    \/ /\ worker'[w].job \in Jobs
       /\ worker'[w].cancel_requested => job[worker'[w].job].cancel_requested

LEMMA StepsHoldOn == TypeInv /\ [Next]_vars => \A w \in Workers : HoldsOn(w)
<1> SUFFICES ASSUME TypeInv, [Next]_vars PROVE \A w \in Workers : HoldsOn(w)
  OBVIOUS
<1> DEFINE Goal == \A v \in Workers : HoldsOn(v)
<1> USE JobsAssumption DEF TypeInv, TypeOK, BusyOnAJob, OrdinaryPlaces,
     ContinuationPlaces, HoldsOn
<1>1. ASSUME NEW j \in Jobs, Enqueue(j) PROVE Goal
  BY <1>1 DEF Enqueue
<1>2. ASSUME NEW j \in Jobs, MintOperation(j) PROVE Goal
  BY <1>2 DEF MintOperation
<1>3. ASSUME NEW j \in Jobs, CommitDispatch(j) PROVE Goal
  BY <1>3 DEF CommitDispatch
<1>4. ASSUME NEW j \in Jobs, FailOperation(j) PROVE Goal
  BY <1>4 DEF FailOperation
<1>5. ASSUME NEW j \in Jobs, RequestCancellation(j) PROVE Goal
  BY <1>5 DEF RequestCancellation
<1>6. ASSUME NEW j \in Jobs, BecomesDue(j) PROVE Goal
  BY <1>6 DEF BecomesDue
<1>7. ASSUME NEW j \in Jobs, LeaseLapses(j) PROVE Goal
  BY <1>7 DEF LeaseLapses
<1>8. ASSUME NEW j \in Jobs, WorkerStalls(j) PROVE Goal
  BY <1>8 DEF WorkerStalls
<1>9. ASSUME NEW w \in Workers, NEW j \in Jobs, AcquireLease(w, j) PROVE Goal
  BY <1>9, LeaseHanded DEF AcquireLease
<1>10. ASSUME NEW w \in Workers, CancelGate(w) PROVE Goal
  BY <1>10, WorkerLeaves DEF CancelGate
<1>11. ASSUME NEW w \in Workers, BudgetGate(w) PROVE Goal
  BY <1>11, WorkerLeaves DEF BudgetGate
<1>12. ASSUME NEW w \in Workers, LookupKind(w) PROVE Goal
  BY <1>12, WorkerMoves DEF LookupKind
<1>13. ASSUME NEW w \in Workers, FailTerminally(w) PROVE Goal
  BY <1>13, WorkerLeaves, WorkerMoves DEF FailTerminally
<1>14. ASSUME NEW w \in Workers, EnterHandler(w) PROVE Goal
  BY <1>14, WorkerMoves DEF EnterHandler
<1>15. ASSUME NEW w \in Workers, Checkpoint(w) PROVE Goal
  BY <1>15, WorkerMoves DEF Checkpoint
<1>16. ASSUME NEW w \in Workers, HandlerReturns(w) PROVE Goal
  BY <1>16, WorkerLeaves, WorkerMoves DEF HandlerReturns
<1>17. ASSUME NEW w \in Workers, HandlerRaises(w) PROVE Goal
  BY <1>17, WorkerMoves DEF HandlerRaises
<1>18. ASSUME NEW w \in Workers, WriteFailureOutcome(w) PROVE Goal
  BY <1>18, WorkerLeaves, WorkerMoves DEF WriteFailureOutcome
<1>19. ASSUME NEW w \in Workers, DeferUnready(w) PROVE Goal
  BY <1>19, WorkerLeaves, WorkerMoves DEF DeferUnready
<1>20. ASSUME NEW w \in Workers, ResolveZeroRowcount(w) PROVE Goal
  BY <1>20, WorkerLeaves DEF ResolveZeroRowcount
<1>21. ASSUME NEW w \in Workers, RunContinuation(w) PROVE Goal
  BY <1>21, WorkerLeaves, WorkerMoves DEF RunContinuation
<1>22. ASSUME NEW w \in Workers, ContinuationRaises(w) PROVE Goal
  BY <1>22, WorkerMoves DEF ContinuationRaises
<1>23. ASSUME NEW w \in Workers, RequeueFaulted(w) PROVE Goal
  BY <1>23, WorkerLeaves, WorkerMoves DEF RequeueFaulted
<1>24. ASSUME NEW w \in Workers, RecheckCancellation(w) PROVE Goal
  BY <1>24, WorkerLeaves, WorkerTriesAgain DEF RecheckCancellation
<1>25. ASSUME NEW w \in Workers, Crash(w) PROVE Goal
  BY <1>25, WorkerLeaves DEF Crash
<1>26. ASSUME NEW w \in Workers, Deploy(w) PROVE Goal
  BY <1>26, WorkerLeaves DEF Deploy
<1>27. ASSUME UpgradeModule PROVE Goal
  BY <1>27 DEF UpgradeModule
<1>28. CASE UNCHANGED vars
  BY <1>28 DEF vars
<1> QED
  BY <1>1, <1>2, <1>3, <1>4, <1>5, <1>6, <1>7, <1>8, <1>9, <1>10, <1>11, <1>12,
     <1>13, <1>14, <1>15, <1>16, <1>17, <1>18, <1>19, <1>20, <1>21, <1>22, <1>23,
     <1>24, <1>25, <1>26, <1>27, <1>28 DEF Next, WorkerStep

LEMMA FlagNext == RecordInv /\ FlagRemembered /\ [Next]_vars => FlagRemembered'
<1> SUFFICES ASSUME RecordInv, FlagRemembered, [Next]_vars PROVE FlagRemembered'
  OBVIOUS
<1>1. /\ \A w \in Workers : HoldsOn(w)
      /\ \A j \in Jobs : job[j].cancel_requested => job'[j].cancel_requested
  BY StepsHoldOn, StepsAreRowSafe DEF RecordInv, SafetyInv, RowSafe
<1>2. \A w \in Workers : worker[w].at # "idle" => worker[w].job \in Jobs
  BY JobsAssumption DEF RecordInv, SafetyInv, TypeInv, TypeOK, BusyOnAJob, Leases,
     Ordinary
<1> QED
  BY <1>1, <1>2 DEF FlagRemembered, HoldsOn
-----------------------------------------------------------------------------
(* Every step is one of the contract's or none of its business.                *)

LEMMA QuietStep ==
    ASSUME effects' = effects,
           \A k \in Jobs : /\ Outcome(job'[k]) = Outcome(job[k])
                           /\ job'[k].cancel_requested = job[k].cancel_requested
                           /\ Shown(record'[k]) = Shown(record[k])
    PROVE  UNCHANGED Contract!vars
<1>1. [k \in Jobs |-> Outcome(job[k])]' = [k \in Jobs |-> Outcome(job[k])]
  OBVIOUS
<1>2. [k \in Jobs |-> job[k].cancel_requested]' = [k \in Jobs |-> job[k].cancel_requested]
  OBVIOUS
<1>3. [k \in Jobs |-> Shown(record[k])]' = [k \in Jobs |-> Shown(record[k])]
  OBVIOUS
<1> QED
  BY <1>1, <1>2, <1>3 DEF Contract!vars

(* An open row that stays open, or a row that only moved in time, is quiet.    *)
LEMMA StaysOpen ==
    ASSUME NEW j \in Jobs, effects' = effects, record' = record,
           \A k \in Jobs : k # j => job'[k] = job[k],
           job[j].state \in {"queued", "leased"}, job'[j].state \in {"queued", "leased"},
           job'[j].cancel_requested = job[j].cancel_requested
    PROVE  UNCHANGED Contract!vars
  BY QuietStep DEF Outcome

LEMMA NothingWritten ==
    ASSUME job' = job, effects' = effects, record' = record
    PROVE  UNCHANGED Contract!vars
  BY QuietStep

LEMMA AcceptStep ==
    ASSUME RecordInv, NEW j \in Jobs, effects' = effects, record' = record,
           \A k \in Jobs : k # j => job'[k] = job[k],
           job[j].state = "absent", job'[j].state = "queued",
           job'[j].cancel_requested = job[j].cancel_requested,
           record[j] \in {"none", "pending"}
    PROVE  Contract!Next
<1>1. [k \in Jobs |-> Outcome(job[k])]' =
        [[k \in Jobs |-> Outcome(job[k])] EXCEPT ![j] = "open"]
  BY DEF Outcome
<1>2. [k \in Jobs |-> job[k].cancel_requested]' = [k \in Jobs |-> job[k].cancel_requested]
  <2>1. \A k \in Jobs : job'[k].cancel_requested = job[k].cancel_requested
    OBVIOUS
  <2> QED
    BY <2>1
<1>3. Contract!Accept(j)
  BY <1>1, <1>2 DEF Contract!Accept, Outcome, Shown
<1> QED
  BY <1>3 DEF Contract!Next

LEMMA RefuseStep ==
    ASSUME RecordInv, NEW j \in Recorded, effects' = effects, job' = job,
           record' = [record EXCEPT ![j] = "failed"],
           job[j].state = "absent", record[j] = "pending"
    PROVE  Contract!Next
<1>1. j \in Jobs
  BY JobsAssumption
<1>2. [k \in Jobs |-> Shown(record[k])]' =
        [[k \in Jobs |-> Shown(record[k])] EXCEPT ![j] = "failed"]
  BY <1>1 DEF Shown, RecordInv, SafetyInv, TypeInv, TypeOK
<1>3. Contract!Refuse(j)
  BY <1>1, <1>2 DEF Contract!Refuse, Outcome, Shown
<1> QED
  BY <1>1, <1>3 DEF Contract!Next

LEMMA AskStep ==
    ASSUME TypeOK, TypeOK', NEW j \in Jobs, effects' = effects, record' = record,
           \A k \in Jobs : k # j => job'[k] = job[k],
           job[j].state \in {"queued", "leased"}, job'[j].state = job[j].state,
           job'[j].cancel_requested
    PROVE  Contract!Next
<1>1. [k \in Jobs |-> Outcome(job[k])]' = [k \in Jobs |-> Outcome(job[k])]
  BY DEF Outcome
<1>2. [k \in Jobs |-> job[k].cancel_requested]' =
        [[k \in Jobs |-> job[k].cancel_requested] EXCEPT ![j] = TRUE]
  <2>1. job'[j].cancel_requested = TRUE
    BY DEF TypeOK, Rows
  <2>2. \A k \in Jobs : job'[k].cancel_requested =
                          IF k = j THEN TRUE ELSE job[k].cancel_requested
    BY <2>1
  <2> QED
    BY <2>2, Zenon
<1>3. Contract!AskToCancel(j)
  BY <1>1, <1>2 DEF Contract!AskToCancel, Outcome
<1> QED
  BY <1>3 DEF Contract!Next

(* A terminal write of the row and of its record is the contract's end.        *)
LEMMA FinishStep ==
    ASSUME RecordInv, TypeOK', NEW j \in Jobs, NEW o \in Terminal,
           FinishWithOperation(j, o), job[j].state = "leased",
           job[j].cancel_requested <=> o = "cancelled", j \in Ordinary,
           effects' = IF o = "succeeded" THEN [effects EXCEPT ![j] = @ + 1] ELSE effects
    PROVE  Contract!Next
<1> USE DEF RecordInv, SafetyInv, TypeInv, TypeOK
<1>1. /\ job'[j].state = o /\ job'[j].cancel_requested = job[j].cancel_requested
      /\ \A k \in Jobs : k # j => job'[k] = job[k]
  BY FinishedRow DEF FinishWithOperation
<1>2. /\ record'[j] = IF record[j] = "pending" THEN o ELSE record[j]
      /\ \A k \in Jobs : k # j => record'[k] = record[k]
  BY RecordCloses DEF FinishWithOperation
<1>3. /\ j \in Recorded => record'[j] = o
      /\ j \notin Recorded => record'[j] = record[j]
  BY <1>2 DEF RecordAgrees, DispatchInv
<1>4. Others(j)
  BY <1>1, <1>2 DEF Others, Terminal
<1> QED
  BY <1>1, <1>3, <1>4, EndStep DEF Ordinary
(* The worker loop implements the contract.                                    *)
LEMMA StepSimulation ==
    ASSUME ~AnswersMayBeLost, RecordInv, RecordInv', FlagRemembered, [Next]_vars
    PROVE  Contract!Next \/ UNCHANGED Contract!vars
<1> DEFINE Simulated == Contract!Next \/ UNCHANGED Contract!vars
<1> USE JobsAssumption DEF RecordInv, SafetyInv, TypeInv, TypeOK, BusyOnAJob, Ordinary,
     OrdinaryPlaces, ContinuationPlaces
<1>1. ASSUME NEW j \in Jobs, Enqueue(j) PROVE Simulated
  <2>1. record[j] = "none" /\ job[j].state = "absent" /\ job[j] \in Rows
    BY <1>1 DEF Enqueue, DispatchInv
  <2>2. PICK due \in BOOLEAN : job' = [job EXCEPT ![j] = Queued(@, due)]
    BY <1>1 DEF Enqueue
  <2>3. /\ job'[j].state = "queued" /\ job'[j].cancel_requested = job[j].cancel_requested
        /\ \A k \in Jobs : k # j => job'[k] = job[k]
    BY <2>1, <2>2, QueuedRow
  <2> QED
    BY <1>1, <2>1, <2>3, AcceptStep DEF Enqueue
<1>2. ASSUME NEW j \in Jobs, MintOperation(j) PROVE Simulated
  <2>1. \A k \in Jobs : Shown(record'[k]) = Shown(record[k])
    BY <1>2 DEF MintOperation, DispatchInv, Shown
  <2> QED
    BY <1>2, <2>1, QuietStep DEF MintOperation
<1>3. ASSUME NEW j \in Jobs, CommitDispatch(j) PROVE Simulated
  <2>1. record[j] = "pending" /\ job[j].state = "absent" /\ job[j] \in Rows
    BY <1>3 DEF CommitDispatch, DispatchInv
  <2>2. PICK due \in BOOLEAN : job' = [job EXCEPT ![j] = Queued(@, due)]
    BY <1>3 DEF CommitDispatch
  <2>3. /\ job'[j].state = "queued" /\ job'[j].cancel_requested = job[j].cancel_requested
        /\ \A k \in Jobs : k # j => job'[k] = job[k]
    BY <2>1, <2>2, QueuedRow
  <2> QED
    BY <1>3, <2>1, <2>3, AcceptStep DEF CommitDispatch
<1>4. ASSUME NEW j \in Jobs, FailOperation(j) PROVE Simulated
  <2>1. j \in Recorded /\ record[j] = "pending" /\ job[j].state = "absent"
    BY <1>4 DEF FailOperation, RecordInv, DispatchInv
  <2>2. record' = [record EXCEPT ![j] = "failed"]
    BY <1>4, <2>1 DEF FailOperation, CloseRecord
  <2> QED
    BY <1>4, <2>1, <2>2, RefuseStep DEF FailOperation
<1>5. ASSUME NEW j \in Jobs, RequestCancellation(j) PROVE Simulated
  <2>1. /\ job'[j].state = IF job[j].state = "queued" /\ j \in Ordinary
                          THEN "cancelled" ELSE job[j].state
        /\ job'[j].cancel_requested
        /\ \A k \in Jobs : k # j => job'[k] = job[k]
    BY <1>5, CancelledRow DEF RequestCancellation
  <2>2. CASE job[j].state = "queued" /\ j \in Ordinary
    <3>1. /\ record'[j] = IF record[j] = "pending" THEN "cancelled" ELSE record[j]
          /\ \A k \in Jobs : k # j => record'[k] = record[k]
      BY <1>5, <2>2, RecordCloses DEF RequestCancellation, Terminal
    <3>2. /\ j \in Recorded => record'[j] = "cancelled"
          /\ j \notin Recorded => record'[j] = record[j]
      BY <2>2, <3>1 DEF RecordInv, RecordAgrees, DispatchInv
    <3>3. Others(j)
      BY <1>5, <2>1, <3>1 DEF Others, RequestCancellation
    <3> QED
      BY <1>5, <2>1, <2>2, <3>2, <3>3, EndStep DEF RequestCancellation, Ordinary, Terminal
  <2>3. CASE ~(job[j].state = "queued" /\ j \in Ordinary)
    BY <1>5, <2>1, <2>3, AskStep DEF RequestCancellation, Cancellable
  <2> QED
    BY <2>2, <2>3
<1>6. ASSUME NEW j \in Jobs, BecomesDue(j) PROVE Simulated
  BY <1>6, TimedRows, StaysOpen DEF BecomesDue
<1>7. ASSUME NEW j \in Jobs, LeaseLapses(j) PROVE Simulated
  BY <1>7, TimedRows, StaysOpen DEF LeaseLapses
<1>8. ASSUME NEW j \in Jobs, WorkerStalls(j) PROVE Simulated
  BY <1>8, TimedRows, StaysOpen DEF WorkerStalls
<1>9. ASSUME NEW w \in Workers, NEW j \in Jobs, AcquireLease(w, j) PROVE Simulated
  <2>1. /\ job'[j].state = "leased" /\ job'[j].cancel_requested = job[j].cancel_requested
        /\ \A k \in Jobs : k # j => job'[k] = job[k]
    BY <1>9, AcquiredRow DEF AcquireLease
  <2> QED
    BY <1>9, <2>1, StaysOpen DEF AcquireLease, Candidate
<1>10. ASSUME NEW w \in Workers, CancelGate(w) PROVE Simulated
  <2>1. CASE Held(w, worker[w].job)
    BY <1>10, <2>1, FinishStep DEF CancelGate, Held, HeldUncancelled, FlagRemembered, Terminal
  <2>2. CASE ~(Held(w, worker[w].job))
    BY <1>10, <2>2, NothingWritten DEF CancelGate
  <2> QED
    BY <2>1, <2>2
<1>11. ASSUME NEW w \in Workers, BudgetGate(w) PROVE Simulated
  <2>1. CASE HeldUncancelled(w, worker[w].job)
    BY <1>11, <2>1, FinishStep DEF BudgetGate, Held, HeldUncancelled, Terminal
  <2>2. CASE ~(HeldUncancelled(w, worker[w].job))
    BY <1>11, <2>2, NothingWritten DEF BudgetGate
  <2> QED
    BY <2>1, <2>2
<1>12. ASSUME NEW w \in Workers, LookupKind(w) PROVE Simulated
  BY <1>12, NothingWritten DEF LookupKind
<1>13. ASSUME NEW w \in Workers, FailTerminally(w) PROVE Simulated
  <2>1. CASE HeldUncancelled(w, worker[w].job) /\ Ready(w)
    BY <1>13, <2>1, FinishStep DEF FailTerminally, Held, HeldUncancelled, Terminal
  <2>2. CASE HeldUncancelled(w, worker[w].job) /\ ~Ready(w)
    <3> DEFINE j == worker[w].job
    <3>1. job' = [job EXCEPT ![j] = Deferred(@)] /\ job[j].attempts >= 1 /\ j \in Jobs
      BY <1>13, <2>2 DEF FailTerminally, Held, HeldUncancelled, LeaseCounted
    <3>2. /\ job'[j].state = "queued" /\ job'[j].cancel_requested = job[j].cancel_requested
          /\ \A k \in Jobs : k # j => job'[k] = job[k]
      BY <3>1, DeferredRow
    <3> QED
      BY <1>13, <2>2, <3>1, <3>2, StaysOpen DEF FailTerminally, Held, HeldUncancelled
  <2>3. CASE ~HeldUncancelled(w, worker[w].job)
    BY <1>13, <2>3, NothingWritten DEF FailTerminally
  <2> QED
    BY <2>1, <2>2, <2>3
<1>14. ASSUME NEW w \in Workers, EnterHandler(w) PROVE Simulated
  BY <1>14, NothingWritten DEF EnterHandler
<1>15. ASSUME NEW w \in Workers, Checkpoint(w) PROVE Simulated
  <2>1. CASE Held(w, worker[w].job)
    BY <1>15, <2>1, TimedRows, StaysOpen DEF Checkpoint, Held
  <2>2. CASE ~Held(w, worker[w].job)
    BY <1>15, <2>2, NothingWritten DEF Checkpoint
  <2> QED
    BY <2>1, <2>2
<1>16. ASSUME NEW w \in Workers, HandlerReturns(w) PROVE Simulated
  <2>1. CASE HeldUncancelled(w, worker[w].job)
    BY <1>16, <2>1, FinishStep DEF HandlerReturns, Held, HeldUncancelled, Terminal
  <2>2. CASE ~(HeldUncancelled(w, worker[w].job))
    BY <1>16, <2>2, NothingWritten DEF HandlerReturns
  <2> QED
    BY <2>1, <2>2
<1>17. ASSUME NEW w \in Workers, HandlerRaises(w) PROVE Simulated
  BY <1>17, NothingWritten DEF HandlerRaises
<1>18. ASSUME NEW w \in Workers, WriteFailureOutcome(w) PROVE Simulated
  <2>1. CASE HeldUncancelled(w, worker[w].job) /\ Spent(worker[w])
    BY <1>18, <2>1, FinishStep DEF WriteFailureOutcome, Held, HeldUncancelled, Terminal
  <2>2. CASE HeldUncancelled(w, worker[w].job) /\ ~Spent(worker[w])
    BY <1>18, <2>2, RequeuedRow, StaysOpen DEF WriteFailureOutcome, Held, HeldUncancelled
  <2>3. CASE ~HeldUncancelled(w, worker[w].job)
    BY <1>18, <2>3, NothingWritten DEF WriteFailureOutcome
  <2> QED
    BY <2>1, <2>2, <2>3
<1>19. ASSUME NEW w \in Workers, DeferUnready(w) PROVE Simulated
  <2>1. CASE HeldUncancelled(w, worker[w].job)
    <3> DEFINE j == worker[w].job
    <3>1. job' = [job EXCEPT ![j] = Deferred(@)] /\ job[j].attempts >= 1 /\ j \in Jobs
      BY <1>19, <2>1 DEF DeferUnready, Held, HeldUncancelled, LeaseCounted
    <3>2. /\ job'[j].state = "queued" /\ job'[j].cancel_requested = job[j].cancel_requested
          /\ \A k \in Jobs : k # j => job'[k] = job[k]
      BY <3>1, DeferredRow
    <3> QED
      BY <1>19, <2>1, <3>1, <3>2, StaysOpen DEF DeferUnready, Held, HeldUncancelled
  <2>2. CASE ~HeldUncancelled(w, worker[w].job)
    BY <1>19, <2>2, NothingWritten DEF DeferUnready
  <2> QED
    BY <2>1, <2>2
<1>20. ASSUME NEW w \in Workers, ResolveZeroRowcount(w) PROVE Simulated
  <2>1. CASE Held(w, worker[w].job) /\ job[worker[w].job].cancel_requested
    BY <1>20, <2>1, FinishStep DEF ResolveZeroRowcount, Held, HeldUncancelled, Terminal
  <2>2. CASE ~(Held(w, worker[w].job) /\ job[worker[w].job].cancel_requested)
    BY <1>20, <2>2, NothingWritten DEF ResolveZeroRowcount
  <2> QED
    BY <2>1, <2>2
<1>21. ASSUME NEW w \in Workers, RunContinuation(w) PROVE Simulated
  <2> DEFINE j == worker[w].job
  <2>1. j \in Continuations /\ record' = record
    BY <1>21 DEF RunContinuation
  <2>2. PICK d \in Dispositions(worker[w]) :
          IF FinishApplies(w) \/ (d = "cancelled" /\ Held(w, j))
          THEN /\ job' = [job EXCEPT ![j] = IF d = "retry" THEN Requeued(@)
                                                           ELSE Finished(@, d)]
               /\ effects' = IF d = "retry" THEN effects
                             ELSE [effects EXCEPT ![j] = @ + 1]
               /\ Leave(w)
          ELSE Goto(w, "recheck") /\ UNCHANGED <<job, effects>>
    BY <1>21 DEF RunContinuation
  <2>3. d \in Terminal \cup {"retry"}
    BY DEF Dispositions, Terminal
  <2>4. CASE ~(FinishApplies(w) \/ (d = "cancelled" /\ Held(w, j)))
    BY <2>1, <2>2, <2>4, NothingWritten
  <2>5. CASE (FinishApplies(w) \/ (d = "cancelled" /\ Held(w, j))) /\ d = "retry"
    BY <2>1, <2>2, <2>5, RequeuedRow, StaysOpen DEF FinishApplies, Held, HeldUncancelled
  <2>6. CASE (FinishApplies(w) \/ (d = "cancelled" /\ Held(w, j))) /\ d # "retry"
    <3>1. d \in Terminal /\ job[j].state = "leased" /\ j \notin Recorded
      BY <2>1, <2>3, <2>6 DEF FinishApplies, Held, HeldUncancelled
    <3>2. /\ job'[j].state = d /\ job'[j].cancel_requested = job[j].cancel_requested
          /\ \A k \in Jobs : k # j => job'[k] = job[k]
      BY <2>1, <2>2, <2>6, <3>1, FinishedRow
    <3>3. effects' = [effects EXCEPT ![j] = @ + 1]
      BY <2>2, <2>6
    <3>4. Others(j) /\ (job[j].cancel_requested => job'[j].cancel_requested)
      BY <2>1, <3>2, <3>3 DEF Others
    <3>5. effects' = IF j \in Continuations \/ d = "succeeded"
                     THEN [effects EXCEPT ![j] = @ + 1] ELSE effects
      BY <2>1, <3>3
    <3> QED
      BY <2>1, <3>1, <3>2, <3>4, <3>5, EndStep
  <2> QED
    BY <2>4, <2>5, <2>6
<1>22. ASSUME NEW w \in Workers, ContinuationRaises(w) PROVE Simulated
  BY <1>22, NothingWritten DEF ContinuationRaises
<1>23. ASSUME NEW w \in Workers, RequeueFaulted(w) PROVE Simulated
  <2>1. CASE HeldUncancelled(w, worker[w].job)
    BY <1>23, <2>1, RequeuedRow, StaysOpen DEF RequeueFaulted, Held, HeldUncancelled
  <2>2. CASE ~HeldUncancelled(w, worker[w].job)
    BY <1>23, <2>2, NothingWritten DEF RequeueFaulted
  <2> QED
    BY <2>1, <2>2
<1>24. ASSUME NEW w \in Workers, RecheckCancellation(w) PROVE Simulated
  BY <1>24, NothingWritten DEF RecheckCancellation
<1>25. ASSUME NEW w \in Workers, Crash(w) PROVE Simulated
  BY <1>25, NothingWritten DEF Crash
<1>26. ASSUME NEW w \in Workers, Deploy(w) PROVE Simulated
  BY <1>26, NothingWritten DEF Deploy
<1>27. ASSUME UpgradeModule PROVE Simulated
  BY <1>27, NothingWritten DEF UpgradeModule
<1>28. CASE UNCHANGED vars
  BY <1>28, NothingWritten DEF vars
<1> QED
  BY <1>1, <1>2, <1>3, <1>4, <1>5, <1>6, <1>7, <1>8, <1>9, <1>10, <1>11, <1>12,
     <1>13, <1>14, <1>15, <1>16, <1>17, <1>18, <1>19, <1>20, <1>21, <1>22, <1>23,
     <1>24, <1>25, <1>26, <1>27, <1>28 DEF Next, WorkerStep

(* Durable work keeps its contract (JobContract): effects with the end and     *)
(* only then, one outcome for the job and its record, and no end but           *)
(* cancelled for an ordinary job once cancellation is asked for.               *)
THEOREM JobsImplementContract ==
    ASSUME ~AnswersMayBeLost PROVE Spec => ImplementsContract
<1>1. Init => RecordInv /\ FlagRemembered /\ Contract!Init
  <2> SUFFICES ASSUME Init PROVE RecordInv /\ FlagRemembered /\ Contract!Init
    OBVIOUS
  <2>1. RecordAgrees /\ \A j \in Jobs : dispatch[j] # "doubt"
    BY JobsAssumption DEF Init, RecordAgrees, NoRow, Terminal
  <2>2. FlagRemembered
    BY DEF Init, FlagRemembered, Idle
  <2>3. Contract!Init
    BY DEF Init, Contract!Init, Outcome, Shown, NoRow
  <2> QED
    BY <2>1, <2>2, <2>3, SafetyInvInit DEF RecordInv
<1>2. RecordInv /\ FlagRemembered /\ [Next]_vars => RecordInv' /\ FlagRemembered'
  BY RecordInvNext, FlagNext
<1>3. RecordInv /\ RecordInv' /\ FlagRemembered /\ [Next]_vars
        => [Contract!Next]_(Contract!vars)
  BY StepSimulation
<1> QED
  BY <1>1, <1>2, <1>3, PTL DEF Spec, Contract!Spec, ImplementsContract
=============================================================================
