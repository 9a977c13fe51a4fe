------------------------------- MODULE Erasure -------------------------------
(***************************************************************************)
(* The approved erasure of one record and what it takes with it: the calls *)
(* held on the record for approval, and the workspace exports that may     *)
(* contain it (packages/core/src/rheo_core: approvals/gate.py,             *)
(* approvals/operations.py, deletion/operations.py,                        *)
(* deletion/dependents.py, exports/operations.py, exports/erasure.py).     *)
(*                                                                         *)
(* Approving runs the held call in the approver's transaction, under the   *)
(* approval's row lock; erasure and export publication also take the       *)
(* workspace lifecycle lock.  An export is packed into a plain tar in the  *)
(* system's temporary directory and from there compressed into its file    *)
(* under the data root, both outside the database and before the           *)
(* transaction that publishes it commits.                                  *)
(***************************************************************************)
EXTENDS Naturals, FiniteSets

CONSTANTS
    Holds,          \* calls held on the record
    Approvers,      \* transactions of core.approval.approve
    Exports,        \* export records, each with its job
    NoProcess,      \* nobody holds the lifecycle lock
    MaxRevision,    \* bound on the record's revision
    ExportAttempts, \* work.max_attempts
    SweepAttempts,  \* attempts of the erasure's sweep job
    MaxErasureFaults \* bound on lost transactions, exports and sweeps

ASSUME ErasureAssumption ==
    /\ Holds # {} /\ NoProcess \notin Approvers \cup Exports /\ MaxRevision \in Nat \ {0}
    /\ ExportAttempts \in Nat \ {0} /\ SweepAttempts \in Nat /\ MaxErasureFaults < SweepAttempts

VARIABLES
    record,         \* the record's revision, and whether it was erased
    hold,           \* core.approval: the held call, its state and subject_revision
    holding,        \* hold_for_approval's transactions in flight: the revision they read
    approver,       \* approve_handler's transactions
    lifecycle,      \* who holds the workspace lifecycle lock
    export,         \* export_record, its reference index, its file, its job, and the plain
                    \* tars that hold the record: a working process's, those of killed ones
    sweep,          \* core.exports.sweep: attempts left of the queued job, 0 for none
    severed,        \* an export job outlived the connection that held its locks
    erasureFaults

erasureVars == <<record, hold, holding, approver, lifecycle, export, sweep, severed,
                 erasureFaults>>
-----------------------------------------------------------------------------
Revisions == 1..MaxRevision

NoHold     == [call |-> "erase", state |-> "none", rev |-> 0]
NoApprover == [at |-> "idle", hold |-> CHOOSE h \in Holds : TRUE, rev |-> 0]
NoExport   == [state |-> "none", index |-> "none", file |-> "none", job |-> "none",
               tars |-> {}, attempts |-> 0, at |-> "idle", content |-> "none"]

\* An index or a file: none, or one that has or lacks the record.
Contents == {"none", "has", "lacks"}

ErasureTypeOK ==
    /\ record \in [rev : Revisions, gone : BOOLEAN]
    /\ hold \in [Holds -> [call : {"erase", "act"}, rev : 0..MaxRevision,
                           state : {"none", "pending", "executed", "refused", "invalidated"}]]
    /\ holding \in [Holds -> [call : {"none", "erase", "act"}, rev : 0..MaxRevision]]
    /\ approver \in [Approvers -> [at : {"idle", "guarded", "authorized", "locked"},
                                   hold : Holds, rev : 0..MaxRevision]]
    /\ lifecycle \in Approvers \cup Exports \cup {NoProcess}
    /\ export \in [Exports -> [state : {"none", "in_progress", "complete", "removed"},
                               index : Contents, file : Contents, content : Contents,
                               tars : SUBSET {"live", "left"},
                               job : {"none", "queued", "leased", "done", "failed"},
                               attempts : 0..ExportAttempts,
                               at : {"idle", "writing", "packed", "written", "adrift"}]]
    /\ sweep \in 0..SweepAttempts /\ severed \in BOOLEAN
    /\ erasureFaults \in 0..MaxErasureFaults

ErasureInit ==
    /\ record = [rev |-> 1, gone |-> FALSE] /\ hold = [h \in Holds |-> NoHold]
    /\ holding = [h \in Holds |-> [call |-> "none", rev |-> 0]]
    /\ approver = [p \in Approvers |-> NoApprover] /\ lifecycle = NoProcess
    /\ export = [x \in Exports |-> NoExport] /\ sweep = 0 /\ severed = FALSE
    /\ erasureFaults = 0

ErasureFault == erasureFaults < MaxErasureFaults /\ erasureFaults' = erasureFaults + 1

\* An ordinary write of the record; it takes no lifecycle lock.
WriteRecord ==
    /\ ~record.gone /\ record.rev < MaxRevision
    /\ record' = [record EXCEPT !.rev = @ + 1]
    /\ UNCHANGED <<hold, holding, approver, lifecycle, export, sweep, severed, erasureFaults>>
-----------------------------------------------------------------------------
(* Holding a call, and the person's decision.                                *)

\* hold_for_approval reads the subject's revision (0: it no longer resolves); an erasure
\* is refused before anything is minted when its target is gone.
HoldReads(h, call) ==
    /\ hold[h].state = "none" /\ holding[h].call = "none"
    /\ record.gone => call = "act"
    /\ holding' = [holding EXCEPT ![h] = [call |-> call, rev |-> IF record.gone THEN 0 ELSE record.rev]]
    /\ UNCHANGED <<record, hold, approver, lifecycle, export, sweep, severed, erasureFaults>>

\* Operation, approval and payload commit together, whatever happened since the read.
HoldCommits(h) ==
    /\ holding[h].call # "none"
    /\ hold' = [hold EXCEPT ![h] = [call |-> holding[h].call, state |-> "pending", rev |-> holding[h].rev]]
    /\ holding' = [holding EXCEPT ![h] = [call |-> "none", rev |-> 0]]
    /\ UNCHANGED <<record, approver, lifecycle, export, sweep, severed, erasureFaults>>

RowLocked(h) == \E p \in Approvers : approver[p].at # "idle" /\ approver[p].hold = h
Decidable(h) == hold[h].state = "pending" /\ ~RowLocked(h)

\* refuse_handler.
RefuseHold(h) ==
    /\ Decidable(h)
    /\ hold' = [hold EXCEPT ![h].state = "refused"]
    /\ UNCHANGED <<record, holding, approver, lifecycle, export, sweep, severed, erasureFaults>>

\* RecordStateGuard: the subject resolves, at the revision that was held.
GuardPasses(h) == ~record.gone /\ record.rev = hold[h].rev

\* approve_handler and execute_approved up to the held call: a guard's refusal commits.
ApproveHold(p, h) ==
    /\ approver[p].at = "idle" /\ Decidable(h)
    /\ \/ /\ ~GuardPasses(h)
          /\ hold' = [hold EXCEPT ![h].state = "refused"] /\ UNCHANGED approver
       \/ /\ GuardPasses(h) /\ hold[h].call = "act"
          /\ hold' = [hold EXCEPT ![h].state = "executed"] /\ UNCHANGED approver
       \/ /\ GuardPasses(h) /\ hold[h].call = "erase"
          /\ approver' = [approver EXCEPT ![p] = [at |-> "guarded", hold |-> h, rev |-> 0]]
          /\ UNCHANGED hold
    /\ UNCHANGED <<record, holding, lifecycle, export, sweep, severed, erasureFaults>>

\* Nothing of p's transaction stays; its approval is pending again.
Rollback(p) ==
    /\ approver' = [approver EXCEPT ![p] = NoApprover]
    /\ lifecycle' = IF lifecycle = p THEN NoProcess ELSE lifecycle

\* delete_owned's second checkpoint reads the revision it authorises.
Checkpoint(p) ==
    /\ approver[p].at = "guarded"
    /\ \/ record.gone /\ Rollback(p)
       \/ /\ ~record.gone /\ UNCHANGED lifecycle
          /\ approver' = [approver EXCEPT ![p].at = "authorized", ![p].rev = record.rev]
    /\ UNCHANGED <<record, hold, holding, export, sweep, severed, erasureFaults>>

\* lock_workspace_lifecycle.
TakeLifecycle(p) ==
    /\ approver[p].at = "authorized" /\ lifecycle = NoProcess
    /\ lifecycle' = p /\ approver' = [approver EXCEPT ![p].at = "locked"]
    /\ UNCHANGED <<record, hold, holding, export, sweep, severed, erasureFaults>>

\* Mutant of Erasable: the two checkpoints agree; what was approved is not compared.
ErasableAsChecked(p) == ~record.gone /\ record.rev = approver[p].rev

\* The third checkpoint, under the lock: the revision of the second, and the approved
\* one, which the owner's DELETE carries too.
Erasable(p) ==
    ~record.gone /\ record.rev = approver[p].rev /\ record.rev = hold[approver[p].hold].rev

EraseRefused(p) ==
    /\ approver[p].at = "locked" /\ ~Erasable(p) /\ Rollback(p)
    /\ UNCHANGED <<record, hold, holding, export, sweep, severed, erasureFaults>>

\* Mutant of Affected: an export without an index is taken not to contain the record.
AffectedIndexed(x) == export[x].state \in {"in_progress", "complete"} /\ export[x].index = "has"

\* An export that has the record, or has no index to tell.
Affected(x) ==
    export[x].state \in {"in_progress", "complete"} /\ export[x].index \in {"has", "none"}

\* Open holds on the record other than the one being executed.
OtherHolds(p) == {h \in Holds \ {approver[p].hold} : hold[h].state = "pending"}

\* delete_owned and erase_dependents: the record goes, other holds are invalidated with
\* their payload (read FOR UPDATE), exports are marked and their sweep queued.
Erase(p) ==
    /\ approver[p].at = "locked" /\ Erasable(p)
    /\ ~\E h \in OtherHolds(p) : RowLocked(h)
    /\ record' = [record EXCEPT !.gone = TRUE]
    /\ hold' = [h \in Holds |->
                  IF h = approver[p].hold THEN [hold[h] EXCEPT !.state = "executed"]
                  ELSE IF h \in OtherHolds(p) THEN [hold[h] EXCEPT !.state = "invalidated"]
                  ELSE hold[h]]
    /\ export' = [x \in Exports |-> IF Affected(x) THEN [export[x] EXCEPT !.state = "removed"]
                                    ELSE export[x]]
    /\ sweep' = IF \E x \in Exports : Affected(x) THEN SweepAttempts ELSE sweep
    /\ Rollback(p)
    /\ UNCHANGED <<holding, severed, erasureFaults>>

\* Two erasures of the record wait for each other's locks: the database ends one.
Deadlocked(p) ==
    \E q \in Approvers \ {p} :
      /\ approver[p].at = "authorized" /\ approver[q].at = "locked" /\ Erasable(q)
      /\ approver[p].hold \in OtherHolds(q)

ApproverEnds(p) ==
    /\ approver[p].at # "idle" /\ Rollback(p)
    /\ \/ Deadlocked(p) /\ UNCHANGED erasureFaults
       \/ (\E q \in Approvers : Deadlocked(q) /\ lifecycle = p) /\ UNCHANGED erasureFaults
       \/ ErasureFault
    /\ UNCHANGED <<record, hold, holding, export, sweep, severed>>
-----------------------------------------------------------------------------
(* Exports and the sweep of their files.                                     *)

\* export_handler: the record with its path, and the job that writes it.
RequestExport(x) ==
    /\ export[x].state = "none"
    /\ export' = [export EXCEPT ![x].state = "in_progress", ![x].job = "queued"]
    /\ UNCHANGED <<record, hold, holding, approver, lifecycle, sweep, severed, erasureFaults>>

ExportRetried(x) == IF export[x].attempts < ExportAttempts THEN "queued" ELSE "failed"

\* run_export_job: the lifecycle lock, the row's state, then the snapshot it archives.  While
\* a worker is adrift another may lease the job; its own archive waits for that write here.
ExportStarts(x) ==
    /\ export[x].job = "queued" /\ export[x].at \in {"idle", "adrift"} /\ lifecycle = NoProcess
    /\ \/ /\ export[x].state = "removed" /\ UNCHANGED lifecycle
          /\ export' = [export EXCEPT ![x].job = "done"]
       \/ /\ export[x].state # "removed" /\ export[x].at = "idle" /\ lifecycle' = x
          /\ export' = [export EXCEPT ![x].job = "leased", ![x].at = "writing", ![x].attempts = @ + 1,
                                      ![x].content = IF record.gone THEN "lacks" ELSE "has"]
    /\ UNCHANGED <<record, hold, holding, approver, sweep, severed, erasureFaults>>

\* write_archive, first half: every entry goes uncompressed into a temporary file that
\* closing does not delete.
ExportPacks(x) ==
    /\ export[x].at = "writing"
    /\ export' = [export EXCEPT ![x].at = "packed",
                    ![x].tars = IF export[x].content = "has" THEN @ \cup {"live"} ELSE @]
    /\ UNCHANGED <<record, hold, holding, approver, lifecycle, sweep, severed, erasureFaults>>

\* write_archive, second half: compressed into the destination, the temporary file unlinked,
\* with or without the connection.
ExportWrites(x) ==
    /\ export[x].at \in {"packed", "adrift"}
    /\ export' = [export EXCEPT ![x].file = export[x].content, ![x].tars = @ \ {"live"},
                    ![x].at = IF @ = "adrift" THEN "idle" ELSE "written"]
    /\ UNCHANGED <<record, hold, holding, approver, lifecycle, sweep, severed, erasureFaults>>

\* The index, the completed record and the job's end, in one commit.
ExportCommits(x) ==
    /\ export[x].at = "written"
    /\ export' = [export EXCEPT ![x].state = "complete", ![x].index = export[x].content,
                                ![x].job = "done", ![x].at = "idle"]
    /\ lifecycle' = NoProcess
    /\ UNCHANGED <<record, hold, holding, approver, sweep, severed, erasureFaults>>

\* A temporary file is unlinked by the finally of write_archive, which an exception runs
\* and a kill does not.
TarsAfter(x) ==
    {export[x].tars \ {"live"}} \cup (IF "live" \in export[x].tars THEN {{"left"}} ELSE {})

\* Compressing may have begun: the destination is opened first and holds what was copied.
FilesAfter(x) ==
    {export[x].file} \cup (IF export[x].at = "packed" THEN {export[x].content} ELSE {})

\* The worker is killed, the write or the commit raises, or the lease was lost: the rows
\* are rolled back, the files stay.
ExportFails(x) ==
    /\ export[x].at \in {"writing", "packed", "written"} /\ ErasureFault
    /\ \E tars \in TarsAfter(x), file \in FilesAfter(x) :
         export' = [export EXCEPT ![x].at = "idle", ![x].job = ExportRetried(x),
                                  ![x].tars = tars, ![x].file = file]
    /\ lifecycle' = NoProcess
    /\ UNCHANGED <<record, hold, holding, approver, sweep, severed>>

\* The connection is lost before the file is opened: the locks go, the worker goes on.
ExportSevered(x) ==
    /\ export[x].at \in {"writing", "packed"} /\ ErasureFault
    /\ export' = [export EXCEPT ![x].at = "adrift", ![x].job = ExportRetried(x)]
    /\ lifecycle' = NoProcess /\ severed' = TRUE
    /\ UNCHANGED <<record, hold, holding, approver, sweep>>

\* _sweep: unlink the file of every export marked removed.
Swept ==
    export' = [x \in Exports |-> IF export[x].state = "removed" THEN [export[x] EXCEPT !.file = "none"]
                                 ELSE export[x]]

\* run_sweep_job, or the approver's own sweep_after_commit, which leaves the job queued.
SweepRuns ==
    /\ sweep > 0 /\ Swept
    /\ sweep' \in {0, sweep}
    /\ UNCHANGED <<record, hold, holding, approver, lifecycle, severed, erasureFaults>>

SweepFails ==
    /\ sweep > 0 /\ ErasureFault /\ sweep' = sweep - 1
    /\ UNCHANGED <<record, hold, holding, approver, lifecycle, export, severed>>

ErasureNext ==
    \/ WriteRecord \/ SweepRuns \/ SweepFails
    \/ \E h \in Holds : \/ HoldCommits(h) \/ RefuseHold(h)
                        \/ \E k \in {"erase", "act"} : HoldReads(h, k)
                        \/ \E p \in Approvers : ApproveHold(p, h)
    \/ \E p \in Approvers : \/ Checkpoint(p) \/ TakeLifecycle(p) \/ EraseRefused(p)
                            \/ Erase(p) \/ ApproverEnds(p)
    \/ \E x \in Exports : \/ RequestExport(x) \/ ExportStarts(x) \/ ExportPacks(x)
                          \/ ExportWrites(x) \/ ExportCommits(x) \/ ExportFails(x) \/ ExportSevered(x)

\* The worker loop takes the queued sweep again until it succeeds or is spent.
ErasureFairness == WF_erasureVars(SweepRuns)

ErasureSpec == ErasureInit /\ [][ErasureNext]_erasureVars /\ ErasureFairness
-----------------------------------------------------------------------------
(* Erasure takes only what was approved: the record goes at the revision its held  *)
(* call named, whoever wrote it between the guard, the checkpoints and the lock.   *)
ErasesWhatWasApproved ==
    [][record'.gone /\ ~record.gone =>
         \E h \in Holds : /\ hold[h].state = "pending" /\ hold'[h].state = "executed"
                          /\ hold[h].call = "erase" /\ hold[h].rev = record.rev]_erasureVars

(* Once the record is erased no export's file under the data root keeps it for     *)
(* good, written by a finished, failed or crashed job, and none is packed with it   *)
(* again, unless a worker wrote on after its connection, and with it the lifecycle  *)
(* lock, was lost.  Only the plain tar a killed worker left in the temporary        *)
(* directory stays: nothing in the code looks for it (exports/erasure.py run_sweep, *)
(* exports/artifact.py write_archive).                                              *)
ErasedFilesGo ==
    record.gone ~> (severed \/ [](\A x \in Exports : /\ export[x].file # "has"
                                                     /\ "live" \notin export[x].tars))

(* Erasure leaves no call on the record waiting for a decision, with its payload.  *)
ErasedLeavesNoHold == record.gone => \A h \in Holds : hold[h].state # "pending"
=============================================================================
