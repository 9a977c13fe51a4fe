------------------------ MODULE AutomaticMemoryProofs ------------------------
(***************************************************************************)
(* Proofs about automatic memory: the retention schedule, the evidence     *)
(* drain and the bridge, for any number of visits, workers, memories,      *)
(* turns and lines.                                                        *)
(***************************************************************************)
EXTENDS Bridge, EvidenceDrain, Schedules, LeastNumbers, FiniteSetTheorems, TLAPS

-----------------------------------------------------------------------------
(* The retention schedule.                                                   *)

ScheduleRows == [enabled : BOOLEAN, next : {"never", "due", "soon", "daily"}]
SweepJobs == [state : {"none", "queued", "leased"}, owner : Sweepers \cup {NoHolder},
              live : BOOLEAN, attempts : Nat]
SweepPlaces == [at : {"idle", "start", "holding", "raised"},
                slot : Slots \cup {NoHolder}, attempts : Nat]

ScheduleShaped ==
    /\ schedule \in ScheduleRows
    /\ sweepJob \in [Slots -> SweepJobs]
    /\ ticker \in [Tickers -> {"idle", "read", "claimed", "checked"}]
    /\ sweeper \in [Sweepers -> SweepPlaces]
    /\ removed \subseteq Memories

(* Past its claim a visit holds the row's lock, and past its check it knows   *)
(* that no job is unfinished.                                                 *)
TickerOK(t) ==
    /\ ticker[t] \in {"claimed", "checked"} => rowLock = t
    /\ ticker[t] = "checked" => \A s \in Slots : sweepJob[s].state = "none"

(* A worker at its job was handed one of the rows, and inside the capability  *)
(* it holds the lock of a schedule that is on.                                *)
SweeperOK(w) ==
    /\ sweeper[w].at # "idle" => sweeper[w].slot \in Slots
    /\ sweeper[w].at = "holding" => rowLock = w /\ schedule.enabled

ScheduleInv ==
    /\ ScheduleShaped /\ OneCatchUp
    /\ \A t \in Tickers : TickerOK(t)
    /\ \A w \in Sweepers : SweeperOK(w)

LEMMA ScheduleInitially == SchedulesInit => ScheduleInv
  BY SchedulesAssumption
  DEF SchedulesInit, ScheduleInv, ScheduleShaped, ScheduleRows, SweepJobs, SweepPlaces,
      Unwritten, NoSweep, Resting, OneCatchUp, TickerOK, SweeperOK

(* No step but a tick's commit adds an unfinished job.                        *)
NoNewJob == \A s \in Slots : sweepJob'[s].state # "none" => sweepJob[s].state # "none"

(* A row written over, or put back in line, or whose lease is let lapse, is   *)
(* still a row, and the others are what they were.                            *)
LEMMA JobRewritten ==
    ASSUME sweepJob \in [Slots -> SweepJobs], NEW s \in Slots
    PROVE  /\ [sweepJob EXCEPT ![s] = NoSweep] \in [Slots -> SweepJobs]
           /\ [sweepJob EXCEPT ![s].live = FALSE] \in [Slots -> SweepJobs]
           /\ [sweepJob EXCEPT ![s].state = "queued", ![s].owner = NoHolder,
                               ![s].live = FALSE] \in [Slots -> SweepJobs]
           /\ \A r \in Slots : [sweepJob EXCEPT ![s].live = FALSE][r].state = sweepJob[r].state
           /\ \A r \in Slots \ {s} :
                [sweepJob EXCEPT ![s].state = "queued", ![s].owner = NoHolder,
                                 ![s].live = FALSE][r] = sweepJob[r]
           /\ \A r \in Slots : [sweepJob EXCEPT ![s] = NoSweep][r].state # "none"
                                   => sweepJob[r].state # "none"
<1>1. NoSweep \in SweepJobs /\ NoSweep.state = "none"
  BY DEF NoSweep, SweepJobs
<1>2. DEFINE row == sweepJob[s]
<1>3. row \in SweepJobs
  OBVIOUS
<1>4. [row EXCEPT !.live = FALSE] \in SweepJobs /\ [row EXCEPT !.live = FALSE].state = row.state
  BY <1>3 DEF SweepJobs
<1>5. [row EXCEPT !.state = "queued", !.owner = NoHolder, !.live = FALSE] \in SweepJobs
  BY <1>3 DEF SweepJobs
<1>6. [sweepJob EXCEPT ![s].live = FALSE] = [sweepJob EXCEPT ![s] = [row EXCEPT !.live = FALSE]]
  OBVIOUS
<1>7. [sweepJob EXCEPT ![s].state = "queued", ![s].owner = NoHolder, ![s].live = FALSE]
        = [sweepJob EXCEPT ![s] = [row EXCEPT !.state = "queued", !.owner = NoHolder,
                                              !.live = FALSE]]
  OBVIOUS
<1> HIDE DEF row
<1> QED
  BY <1>1, <1>4, <1>5, <1>6, <1>7 DEF row

(* Steps of the visits.                                                       *)
LEMMA TickerSteps ==
    ASSUME ScheduleInv, NEW t \in Tickers, TickStep(t) \/ TickFails(t)
    PROVE  ScheduleInv'
<1> USE SchedulesAssumption DEF ScheduleInv, ScheduleShaped, UnlockRow
<1>1. CASE TickRead(t)
  BY <1>1 DEF TickRead, OneCatchUp, TickerOK, SweeperOK
<1>2. CASE TickClaim(t)
  BY <1>2 DEF TickClaim, ClaimCatchUpRow, OneCatchUp, TickerOK, SweeperOK
<1>3. CASE TickCheck(t)
  BY <1>3 DEF TickCheck, UnfinishedSweep, OneCatchUp, TickerOK, SweeperOK
<1>4. CASE TickCommit(t)
  <2>1. PICK s \in Slots : /\ sweepJob[s].state = "none"
                           /\ sweepJob' = [sweepJob EXCEPT ![s] =
                                             [NoSweep EXCEPT !.state = "queued"]]
    BY <1>4 DEF TickCommit
  <2>2. \A r \in Slots : sweepJob[r].state = "none"
    BY <1>4 DEF TickCommit, TickerOK
  <2>3. ScheduleShaped'
    BY <1>4, <2>1 DEF TickCommit, NoSweep, ScheduleRows, SweepJobs
  <2>4. OneCatchUp'
    BY <2>1, <2>2 DEF OneCatchUp
  <2>5. \A x \in Tickers : TickerOK(x)'
    BY <1>4, <2>1 DEF TickCommit, TickerOK
  <2>6. \A w \in Sweepers : SweeperOK(w)'
    BY <1>4 DEF TickCommit, TickerOK, SweeperOK
  <2> QED
    BY <2>3, <2>4, <2>5, <2>6
<1>5. CASE TickFails(t)
  BY <1>5 DEF TickFails, OneCatchUp, TickerOK, SweeperOK
<1> QED
  BY <1>1, <1>2, <1>3, <1>4, <1>5 DEF TickStep

(* Steps of the workers.                                                      *)
LEMMA SweeperSteps ==
    ASSUME ScheduleInv, NEW w \in Sweepers,
           \/ SweepStep(w) \/ SweeperFault(w)
           \/ \E s \in Slots : LeaseSweep(w, s)
    PROVE  ScheduleInv'
<1> USE SchedulesAssumption DEF ScheduleInv, ScheduleShaped, UnlockRow
<1>1. ASSUME NEW s \in Slots, LeaseSweep(w, s) PROVE ScheduleInv'
  <2>1. ScheduleShaped'
    BY <1>1 DEF LeaseSweep, SweepJobs, SweepPlaces
  <2>2. sweepJob[s].state # "none" /\ NoNewJob
    BY <1>1 DEF LeaseSweep, NoNewJob
  <2> QED
    BY <1>1, <2>1, <2>2 DEF LeaseSweep, NoNewJob, OneCatchUp, TickerOK, SweeperOK
<1>2. CASE SweepExhausted(w)
  <2>1. ScheduleShaped'
    BY <1>2 DEF SweepExhausted, SweepJobs, SweepPlaces, NoSweep, Resting
  <2>2. NoNewJob
    BY <1>2 DEF SweepExhausted, NoNewJob, NoSweep
  <2> QED
    BY <1>2, <2>1, <2>2 DEF SweepExhausted, Resting, NoNewJob, OneCatchUp, TickerOK, SweeperOK
<1>3. CASE SweepStarts(w)
  <2>1. ScheduleShaped'
    BY <1>3 DEF SweepStarts, VerifiedExecutionFor, SweepPlaces
  <2> QED
    BY <1>3, <2>1 DEF SweepStarts, VerifiedExecutionFor, OneCatchUp, TickerOK, SweeperOK,
                      SweepPlaces
<1>4. CASE RunSweep(w)
  <2>1. sweeper[w].slot \in Slots /\ rowLock = w
    BY <1>4 DEF RunSweep, SweeperOK
  <2>2. Removable \subseteq Memories
    BY DEF Removable, ExpiredRoots, Expired
  <2>3. schedule' \in ScheduleRows /\ schedule'.enabled = schedule.enabled
    BY <1>4 DEF RunSweep, FinishSweep, Rearmed, ScheduleRows
  <2>4. sweepJob' \in [Slots -> SweepJobs] /\ NoNewJob /\ removed' \subseteq Memories
    <3>1. CASE SweepHeld(w)
      <4>1. /\ removed' = removed \cup Removable
            /\ sweepJob' = [sweepJob EXCEPT ![sweeper[w].slot] = NoSweep]
        BY <1>4, <3>1 DEF RunSweep, FinishSweep
      <4> QED
        BY <2>1, <2>2, <4>1, JobRewritten DEF NoNewJob
    <3>2. CASE ~SweepHeld(w)
      BY <1>4, <3>2 DEF RunSweep, FinishSweep, NoNewJob
    <3> QED
      BY <3>1, <3>2
  <2>5. sweeper' = [sweeper EXCEPT ![w] = Resting] /\ rowLock' = NoHolder /\ ticker' = ticker
    BY <1>4, <2>1 DEF RunSweep
  <2>6. ScheduleShaped'
    BY <2>3, <2>4, <2>5 DEF SweepPlaces, Resting
  <2> QED
    BY <2>1, <2>3, <2>4, <2>5, <2>6 DEF Resting, NoNewJob, OneCatchUp, TickerOK, SweeperOK
<1>5. CASE SweepNoProgress(w)
  <2>1. ScheduleShaped'
    BY <1>5 DEF SweepNoProgress, SweepPlaces
  <2> QED
    BY <1>5, <2>1 DEF SweepNoProgress, OneCatchUp, TickerOK, SweeperOK, SweepPlaces
<1>6. CASE SweepFails(w)
  <2>1. ScheduleShaped'
    <3>1. sweeper[w].slot \in Slots
      BY <1>6 DEF SweepFails, SweeperOK
    <3>2. sweepJob' \in [Slots -> SweepJobs]
      BY <1>6, <3>1, JobRewritten DEF SweepFails
    <3> QED
      BY <1>6, <3>2 DEF SweepFails, SweepPlaces, Resting
  <2>2. NoNewJob
    <3>1. sweeper[w].slot \in Slots
      BY <1>6 DEF SweepFails, SweeperOK
    <3>2. SweepHeld(w) => sweepJob[sweeper[w].slot].state # "none"
      BY DEF SweepHeld
    <3> QED
      BY <1>6, <3>1, <3>2, JobRewritten DEF SweepFails, NoNewJob
  <2> QED
    BY <1>6, <2>1, <2>2 DEF SweepFails, Resting, NoNewJob, OneCatchUp, TickerOK, SweeperOK
<1>7. CASE SweeperFault(w)
  <2>1. ScheduleShaped' /\ NoNewJob
    <3>1. sweeper[w].slot \in Slots
      BY <1>7 DEF SweeperFault, SweeperOK
    <3>2. sweepJob' \in [Slots -> SweepJobs] /\ NoNewJob
      <4>1. \/ sweepJob' = sweepJob
            \/ sweepJob' = [sweepJob EXCEPT ![sweeper[w].slot].live = FALSE]
        BY <1>7 DEF SweeperFault
      <4>2. CASE sweepJob' = sweepJob
        BY <4>2 DEF NoNewJob
      <4>3. CASE sweepJob' = [sweepJob EXCEPT ![sweeper[w].slot].live = FALSE]
        <5>1. sweepJob \in [Slots -> SweepJobs]
          OBVIOUS
        <5> HIDE DEF ScheduleInv, ScheduleShaped
        <5> QED
          BY <3>1, <4>3, <5>1, JobRewritten DEF NoNewJob
      <4> QED
        BY <4>1, <4>2, <4>3
    <3>3. Resting \in SweepPlaces
      BY DEF Resting, SweepPlaces
    <3>4. schedule' = schedule /\ ticker' = ticker /\ removed' = removed
          /\ sweeper' \in [Sweepers -> SweepPlaces]
      BY <1>7, <3>3 DEF SweeperFault
    <3> QED
      BY <3>2, <3>4
  <2>2. /\ UNCHANGED <<schedule, ticker>>
        /\ \/ sweeper' = sweeper /\ rowLock' = rowLock
           \/ /\ sweeper' = [sweeper EXCEPT ![w] = Resting]
              /\ rowLock' = IF rowLock = w THEN NoHolder ELSE rowLock
    BY <1>7 DEF SweeperFault
  <2>3. OneCatchUp' /\ \A t \in Tickers : TickerOK(t)'
    BY <2>1, <2>2 DEF NoNewJob, OneCatchUp, TickerOK
  <2>4. \A v \in Sweepers : SweeperOK(v)'
    BY <2>2 DEF Resting, SweeperOK
  <2> QED
    BY <2>1, <2>3, <2>4
<1> QED
  BY <1>1, <1>2, <1>3, <1>4, <1>5, <1>6, <1>7 DEF SweepStep

LEMMA ScheduleStep == ScheduleInv /\ [SchedulesNext]_schedulesVars => ScheduleInv'
<1> SUFFICES ASSUME ScheduleInv, [SchedulesNext]_schedulesVars PROVE ScheduleInv'
  OBVIOUS
<1> USE SchedulesAssumption
    DEF ScheduleInv, ScheduleShaped, OneCatchUp, TickerOK, SweeperOK
<1>1. ASSUME NEW s \in Slots, SweepLeaseLapses(s) PROVE ScheduleInv'
  <2>1. /\ sweepJob' = [sweepJob EXCEPT ![s].live = FALSE]
        /\ UNCHANGED <<schedule, rowLock, ticker, sweeper, removed>>
    BY <1>1 DEF SweepLeaseLapses
  <2>2. sweepJob' \in [Slots -> SweepJobs] /\ NoNewJob
    BY <2>1, JobRewritten DEF NoNewJob
  <2> QED
    BY <2>1, <2>2 DEF NoNewJob
<1>2. CASE ScheduleFallsDue
  BY <1>2 DEF ScheduleFallsDue, ScheduleRows
<1>3. CASE EnableModule
  BY <1>3 DEF EnableModule, Unwritten, ScheduleRows
<1>4. CASE SwitchSchedule
  BY <1>4 DEF SwitchSchedule, ScheduleRows
<1>5. CASE SetGate
  BY <1>5 DEF SetGate
<1>6. CASE UNCHANGED schedulesVars
  BY <1>6 DEF schedulesVars
<1> QED
  BY <1>1, <1>2, <1>3, <1>4, <1>5, <1>6, TickerSteps, SweeperSteps DEF SchedulesNext

(* However many visits tick the catch-up schedule, and while its own sweep    *)
(* runs, fails or re-arms it, at most one job of it is unfinished: the row's  *)
(* lock is held from the claim to the commit, so what a visit found when it   *)
(* looked for an unfinished job still holds when it queues one.               *)
THEOREM CatchUpRunsAlone == SchedulesSpec => []OneCatchUp
<1>1. ScheduleInv => OneCatchUp
  BY DEF ScheduleInv
<1> QED
  BY <1>1, ScheduleInitially, ScheduleStep, PTL DEF SchedulesSpec

(* Only a finishing sweep removes memories or brings the schedule forward.    *)
LEMMA OnlySweepsRemove ==
    ASSUME ScheduleInv, [SchedulesNext]_schedulesVars,
           removed' # removed \/ (schedule'.next = "soon" /\ schedule.next # "soon")
    PROVE  \E w \in Sweepers : RunSweep(w)
<1>1. ASSUME NEW t \in Tickers, TickStep(t) \/ TickFails(t) PROVE FALSE
  BY <1>1 DEF TickStep, TickRead, TickClaim, TickCheck, TickCommit, TickFails,
              ScheduleInv, ScheduleShaped, ScheduleRows
<1>2. ASSUME NEW w \in Sweepers, \/ SweepExhausted(w) \/ SweepStarts(w) \/ SweepNoProgress(w)
                                 \/ SweepFails(w) \/ SweeperFault(w)
                                 \/ \E s \in Slots : LeaseSweep(w, s)
      PROVE  FALSE
  BY <1>2 DEF SweepExhausted, SweepStarts, SweepNoProgress, SweepFails, SweeperFault, LeaseSweep
<1>3. ASSUME NEW s \in Slots, SweepLeaseLapses(s) PROVE FALSE
  BY <1>3 DEF SweepLeaseLapses
<1>4. CASE ScheduleFallsDue \/ EnableModule \/ SwitchSchedule \/ SetGate
  BY <1>4 DEF ScheduleFallsDue, EnableModule, SwitchSchedule, SetGate, ScheduleInv,
              ScheduleShaped, ScheduleRows
<1>5. CASE UNCHANGED schedulesVars
  BY <1>5 DEF schedulesVars
<1> QED
  BY <1>1, <1>2, <1>3, <1>4, <1>5 DEF SchedulesNext, SweepStep

(* A sweep that finishes: what it removes and when it re-arms.                *)
LEMMA SweepIsWhole ==
    ASSUME ScheduleInv, NEW w \in Sweepers, RunSweep(w)
    PROVE  /\ removed' # removed =>
                /\ schedule.enabled /\ gate
                /\ \E s \in Slots : sweepJob[s].state = "leased" /\ sweepJob'[s] = NoSweep
                /\ Memories \ removed' # {} => schedule'.next = "soon"
           /\ schedule'.next = "soon" /\ schedule.next # "soon" => removed' # removed
<1> USE DEF ScheduleInv, ScheduleShaped
<1>1. /\ sweeper[w].slot \in Slots /\ schedule.enabled
      /\ ~NoProgress /\ FinishSweep(w)
  BY DEF RunSweep, SweeperOK
<1>2. CASE ~SweepHeld(w)
  BY <1>1, <1>2 DEF FinishSweep
<1>3. CASE SweepHeld(w)
  <2>1. /\ removed' = removed \cup Removable
        /\ schedule' = Rearmed(schedule, IF gate THEN Expired \ Removable ELSE {})
        /\ sweepJob' = [sweepJob EXCEPT ![sweeper[w].slot] = NoSweep]
    BY <1>1, <1>3 DEF FinishSweep
  <2>2. sweepJob[sweeper[w].slot].state = "leased" /\ sweepJob'[sweeper[w].slot] = NoSweep
    BY <1>1, <1>3, <2>1 DEF SweepHeld
  <2>3. ~gate => Removable = {}
    BY DEF Removable
  <2>4. Removable \subseteq Expired /\ Expired = Memories \ removed
    BY DEF Removable, ExpiredRoots, Expired
  <2>5. Memories \ removed' = Expired \ Removable
    BY <2>1, <2>4
  <2>6. gate /\ Expired \ Removable # {} => schedule'.next = "soon"
    BY <2>1 DEF Rearmed, ScheduleRows
  <2>7. ~(gate /\ Expired \ Removable # {}) => schedule' = schedule
    BY <2>1 DEF Rearmed
  <2>8. gate /\ Expired # {} => Removable # {}
    BY <1>1 DEF NoProgress
  <2>9. removed' # removed => gate
    BY <2>1, <2>3
  <2>10. schedule'.next = "soon" /\ schedule.next # "soon" => removed' # removed
    BY <2>1, <2>4, <2>7, <2>8
  <2> QED
    BY <1>1, <2>2, <2>5, <2>6, <2>9, <2>10
<1> QED
  BY <1>2, <1>3

(* Memories go only while the schedule is on and its gate open, in the step   *)
(* that ends the sweep's job; what is left re-arms the schedule in that step, *)
(* and nothing else does.  The invariant supplies what the sweep was told     *)
(* when it took the row's lock and relies on at its commit.                   *)
THEOREM SweepsAreWhole == SchedulesSpec => RemovalIsWhole
<1>1. ScheduleInv /\ [SchedulesNext]_schedulesVars =>
        [removed' # removed =>
            /\ schedule.enabled /\ gate
            /\ \E s \in Slots : sweepJob[s].state = "leased" /\ sweepJob'[s] = NoSweep
            /\ Memories \ removed' # {} => schedule'.next = "soon"]_schedulesVars
  BY OnlySweepsRemove, SweepIsWhole
<1>2. ScheduleInv /\ [SchedulesNext]_schedulesVars =>
        [schedule'.next = "soon" /\ schedule.next # "soon" => removed' # removed]_schedulesVars
  BY OnlySweepsRemove, SweepIsWhole
<1> QED
  BY <1>1, <1>2, ScheduleInitially, ScheduleStep, PTL DEF SchedulesSpec, RemovalIsWhole
-----------------------------------------------------------------------------
(* The evidence drain.                                                       *)

UnitRows == [state : {"none", "purged", "pending", "active", "refused", "gap"},
             attempts : Nat, waiting : BOOLEAN, expired : BOOLEAN,
             lock : Drainers \cup {NoDrainer}]
DrainClaims == [rows : SUBSET Turns, verified : SUBSET Turns, more : BOOLEAN,
                shared : BOOLEAN, at : {"idle", "claimed"}]

EvidenceShaped ==
    /\ unit \in [Turns -> UnitRows]
    /\ receipt \in [Turns -> {"none", "active", "denied", "erased"}]
    /\ memories \in [Turns -> Nat]
    /\ drainer \in [Drainers -> DrainClaims]

(* The receipt outlives the row: it tells for ever whether the turn became a  *)
(* memory, and a row settled active is one that did.                          *)
TurnOK(u) ==
    /\ memories[u] = IF receipt[u] \in {"active", "erased"} THEN 1 ELSE 0
    /\ unit[u].state = "active" => memories[u] = 1

(* A drain that verified a turn shares the row of an enrollment still alive.  *)
DrainerOK(d) == drainer[d].verified # {} => drainer[d].shared /\ enrollment = "live"

EvidenceInv ==
    /\ EvidenceShaped
    /\ \A u \in Turns : TurnOK(u)
    /\ \A d \in Drainers : DrainerOK(d)

LEMMA EvidenceInitially == EvidenceDrainInit => EvidenceInv
  BY EvidenceDrainAssumption
  DEF EvidenceDrainInit, EvidenceInv, EvidenceShaped, UnitRows, DrainClaims, NoUnit, NoClaim,
      TurnOK, DrainerOK

(* A drain that lets go holds nothing, and the others hold what they held.    *)
LEMMA DrainerLetsGo ==
    ASSUME EvidenceInv, NEW d \in Drainers, Released(d), UNCHANGED enrollment
    PROVE  drainer' \in [Drainers -> DrainClaims] /\ \A e \in Drainers : DrainerOK(e)'
  BY DEF EvidenceInv, EvidenceShaped, Released, NoClaim, DrainClaims, DrainerOK

(* What a drain writes: rows, and active only where its outcome says so.      *)
LEMMA RowsWritten ==
    ASSUME EvidenceShaped, NEW d \in Drainers, NEW outcome, Written(d, outcome),
           \A u \in drainer[d].verified : outcome[u] \in UnitRows
    PROVE  /\ unit' \in [Turns -> UnitRows]
           /\ \A u \in Turns : unit'[u].state = "active" =>
                \/ unit[u].state = "active"
                \/ u \in drainer[d].verified /\ outcome[u].state = "active"
<1> DEFINE row(u) == IF u \in drainer[d].verified THEN outcome[u]
                     ELSE IF u \in drainer[d].rows THEN [unit[u] EXCEPT !.state = "refused"]
                     ELSE [unit[u] EXCEPT !.state = "gap"]
<1>1. \A u \in Turns :
        /\ row(u) \in UnitRows
        /\ row(u).state = "active" => u \in drainer[d].verified /\ outcome[u].state = "active"
  BY DEF EvidenceShaped, UnitRows
<1>2. unit' = [u \in Turns |-> IF u \notin Mine(d) THEN unit[u]
                               ELSE [row(u) EXCEPT !.lock = NoDrainer]]
  BY DEF Written
<1> HIDE DEF row
<1>3. \A r \in UnitRows : /\ [r EXCEPT !.lock = NoDrainer] \in UnitRows
                          /\ [r EXCEPT !.lock = NoDrainer].state = r.state
  BY DEF UnitRows
<1> QED
  BY <1>1, <1>2, <1>3 DEF EvidenceShaped

(* An attempt that came to nothing makes no row active.                       *)
LEMMA BackedOffRow ==
    ASSUME NEW r \in UnitRows
    PROVE  /\ BackedOff(r) \in UnitRows /\ [r EXCEPT !.waiting = TRUE] \in UnitRows
           /\ BackedOff(r).state = "active" => r.state = "active"
           /\ [r EXCEPT !.waiting = TRUE].state = r.state
<1>1. r.attempts + 1 \in Nat
  BY DEF UnitRows
<1>2. /\ [r EXCEPT !.attempts = @ + 1, !.waiting = TRUE] \in UnitRows
      /\ [r EXCEPT !.attempts = @ + 1, !.waiting = TRUE].state = r.state
  BY <1>1 DEF UnitRows
<1>3. /\ [r EXCEPT !.attempts = @ + 1, !.state = "gap"] \in UnitRows
      /\ [r EXCEPT !.attempts = @ + 1, !.state = "gap"].state = "gap"
  BY <1>1 DEF UnitRows
<1>4. [r EXCEPT !.waiting = TRUE] \in UnitRows /\ [r EXCEPT !.waiting = TRUE].state = r.state
  BY DEF UnitRows
<1> QED
  BY <1>2, <1>3, <1>4 DEF BackedOff

(* The step that settles a drain's turns: each new receipt comes with its     *)
(* memory, and no receipt that is held is written over by another.            *)
LEMMA CommitSettles ==
    ASSUME EvidenceInv, NEW d \in Drainers, DrainCommits(d)
    PROVE  EvidenceInv' /\ (memories' # memories => enrollment = "live")
<1> DEFINE mine == drainer[d].verified
<1>1. PICK outcome \in [mine -> UNION {Accepted(u) : u \in mine}] :
         /\ \A u \in mine : outcome[u] \in Accepted(u)
         /\ Written(d, [u \in mine |-> [unit[u] EXCEPT !.state = outcome[u].state]])
         /\ receipt' = [u \in Turns |-> IF u \in mine THEN outcome[u].receipt
                                        ELSE receipt[u]]
         /\ memories' = [u \in Turns |-> IF u \in mine THEN memories[u] + outcome[u].wrote
                                         ELSE memories[u]]
  BY DEF DrainCommits
<1>2. mine \subseteq Turns
  BY DEF EvidenceInv, EvidenceShaped, DrainClaims
<1>3. \A u \in mine :
        /\ outcome[u].receipt \in {"none", "active", "denied", "erased"}
        /\ outcome[u].state \in {"active", "refused"}
        /\ outcome[u].wrote \in {0, 1}
        /\ memories[u] + outcome[u].wrote =
             IF outcome[u].receipt \in {"active", "erased"} THEN 1 ELSE 0
        /\ outcome[u].state = "active" => outcome[u].receipt = "active"
  <2> TAKE u \in mine
  <2>1. u \in Turns /\ receipt[u] \in {"none", "active", "denied", "erased"}
    BY <1>2 DEF EvidenceInv, EvidenceShaped
  <2>2. TurnOK(u) /\ memories[u] \in Nat
    BY <2>1 DEF EvidenceInv, EvidenceShaped
  <2>3. outcome[u] \in Accepted(u)
    BY <1>1
  <2>4. CASE receipt[u] = "active"
    BY <2>2, <2>3, <2>4 DEF Accepted, TurnOK
  <2>5. CASE receipt[u] = "none"
    BY <2>2, <2>3, <2>5 DEF Accepted, TurnOK
  <2>6. CASE receipt[u] \in {"denied", "erased"}
    BY <2>2, <2>3, <2>6 DEF Accepted, TurnOK
  <2> QED
    BY <2>1, <2>4, <2>5, <2>6
<1> DEFINE settled == [u \in mine |-> [unit[u] EXCEPT !.state = outcome[u].state]]
<1>4. \A u \in mine : settled[u] \in UnitRows /\ settled[u].state = outcome[u].state
  <2> TAKE u \in mine
  <2>1. unit[u] \in UnitRows /\ outcome[u].state \in {"active", "refused"}
    BY <1>2, <1>3 DEF EvidenceInv, EvidenceShaped
  <2>2. [unit[u] EXCEPT !.state = outcome[u].state] \in UnitRows
    BY <2>1 DEF UnitRows
  <2> QED
    BY <2>1, <2>2 DEF UnitRows
<1>5. Written(d, settled)
  BY <1>1
<1> HIDE DEF settled
<1>6. /\ unit' \in [Turns -> UnitRows]
      /\ \A u \in Turns : unit'[u].state = "active" =>
           unit[u].state = "active" \/ (u \in mine /\ outcome[u].state = "active")
  BY <1>4, <1>5, RowsWritten DEF EvidenceInv
<1>7. drainer' \in [Drainers -> DrainClaims] /\ \A e \in Drainers : DrainerOK(e)'
  BY DrainerLetsGo DEF DrainCommits
<1> HIDE DEF mine
<1>8. \A u \in Turns : u \notin mine => receipt'[u] = receipt[u] /\ memories'[u] = memories[u]
  BY <1>1
<1>9. \A u \in Turns : u \in mine =>
        receipt'[u] = outcome[u].receipt /\ memories'[u] = memories[u] + outcome[u].wrote
  BY <1>1
<1>10. \A u \in Turns : TurnOK(u)' /\ memories'[u] \in Nat
                        /\ receipt'[u] \in {"none", "active", "denied", "erased"}
  <2> TAKE u \in Turns
  <2>1. TurnOK(u) /\ memories[u] \in Nat /\ receipt[u] \in {"none", "active", "denied", "erased"}
    BY DEF EvidenceInv, EvidenceShaped
  <2>2. CASE u \in mine
    BY <1>3, <1>6, <1>9, <2>1, <2>2 DEF TurnOK
  <2>3. CASE u \notin mine
    BY <1>6, <1>8, <2>1, <2>3 DEF TurnOK
  <2> QED
    BY <2>2, <2>3
<1>11. DOMAIN receipt' = Turns /\ receipt' = [u \in DOMAIN receipt' |-> receipt'[u]]
       /\ DOMAIN memories' = Turns /\ memories' = [u \in DOMAIN memories' |-> memories'[u]]
  BY <1>1
<1>12. EvidenceShaped'
  BY <1>6, <1>7, <1>10, <1>11 DEF EvidenceShaped
<1>13. memories' # memories => enrollment = "live"
  <2>1. CASE mine = {}
    BY <1>1, <2>1 DEF EvidenceInv, EvidenceShaped
  <2>2. CASE mine # {}
    BY <2>2 DEF EvidenceInv, DrainerOK, mine
  <2> QED
    BY <2>1, <2>2
<1> QED
  BY <1>7, <1>10, <1>12, <1>13 DEF EvidenceInv

(* Every other step writes no memory.                                         *)
LEMMA OtherDrainSteps ==
    ASSUME EvidenceInv, [EvidenceDrainNext]_evidenceVars,
           ~\E d \in Drainers : DrainCommits(d)
    PROVE  EvidenceInv' /\ memories' = memories
<1> USE EvidenceDrainAssumption DEF EvidenceInv
<1>1. ASSUME NEW u \in Turns, RecordEvidence(u) PROVE EvidenceInv' /\ memories' = memories
  <2>1. PICK s \in {"pending", "gap"} :
          unit' = [unit EXCEPT ![u] = [NoUnit EXCEPT !.state = s]]
    BY <1>1 DEF RecordEvidence
  <2>2. /\ [NoUnit EXCEPT !.state = s] \in UnitRows
        /\ [NoUnit EXCEPT !.state = s].state = s
    BY DEF NoUnit, UnitRows
  <2>3. UNCHANGED <<receipt, memories, enrollment, drainer>>
    BY <1>1 DEF RecordEvidence
  <2> QED
    BY <2>1, <2>2, <2>3 DEF EvidenceShaped, TurnOK, DrainerOK
<1>2. CASE OnEvidenceRecorded \/ FollowUpComesDue \/ SetEvidenceGate
  BY <1>2 DEF OnEvidenceRecorded, FollowUpComesDue, SetEvidenceGate, EvidenceShaped, TurnOK,
              DrainerOK
<1>3. CASE RevokeEnrollment \/ RotateEnrollment
  BY <1>3 DEF RevokeEnrollment, RotateEnrollment, Shared, EvidenceShaped, TurnOK, DrainerOK
<1>4. ASSUME NEW d \in Drainers, ClaimUnits(d) PROVE EvidenceInv' /\ memories' = memories
  <2>1. Claim \in SUBSET Turns
    BY DEF Claim, Claimable
  <2>2. Verified(d, Claim) /\ UNCHANGED <<receipt, memories, enrollment>>
    BY <1>4 DEF ClaimUnits
  <2>3. \A r \in UnitRows : /\ [r EXCEPT !.lock = d] \in UnitRows
                            /\ [r EXCEPT !.lock = d].state = r.state
    BY DEF UnitRows
  <2>4. unit' \in [Turns -> UnitRows] /\ \A u \in Turns : unit'[u].state = unit[u].state
    BY <1>4, <2>3 DEF ClaimUnits, EvidenceShaped
  <2>5. drainer' \in [Drainers -> DrainClaims] /\ \A e \in Drainers : DrainerOK(e)'
    <3> DEFINE rows == Claim
               more == (Claimable \cap Unlocked) \ rows # {}
               claim == [rows |-> rows, verified |-> IF enrollment = "live" THEN rows ELSE {},
                         more |-> more, shared |-> rows # {}, at |-> "claimed"]
    <3>1. drainer' = [drainer EXCEPT ![d] = claim]
      BY <2>2 DEF Verified
    <3>2. more \in BOOLEAN /\ (rows # {}) \in BOOLEAN
      OBVIOUS
    <3> HIDE DEF more, rows
    <3>3. claim \in DrainClaims
      BY <2>1, <3>2 DEF DrainClaims, rows
    <3>4. claim.verified # {} => claim.shared /\ enrollment = "live"
      OBVIOUS
    <3> HIDE DEF claim
    <3> QED
      BY <2>2, <3>1, <3>3, <3>4 DEF EvidenceShaped, DrainerOK
  <2> QED
    BY <2>2, <2>4, <2>5 DEF EvidenceShaped, TurnOK
<1>5. ASSUME NEW d \in Drainers, NEW outcome, Written(d, outcome), Released(d),
             \A u \in drainer[d].verified :
               outcome[u] \in UnitRows
               /\ (outcome[u].state = "active" => unit[u].state = "active"),
             UNCHANGED <<receipt, memories, enrollment>>
      PROVE  EvidenceInv' /\ memories' = memories
  <2>1. /\ unit' \in [Turns -> UnitRows]
        /\ \A u \in Turns : unit'[u].state = "active" => unit[u].state = "active"
    BY <1>5, RowsWritten
  <2> QED
    BY <1>5, <2>1, DrainerLetsGo DEF EvidenceShaped, TurnOK
<1>6. ASSUME NEW d \in Drainers, ExtractionFails(d) \/ AcceptanceRefused(d)
      PROVE  EvidenceInv' /\ memories' = memories
  <2>1. \A u \in Turns : unit[u] \in UnitRows
    BY DEF EvidenceShaped
  <2>2. drainer[d].verified \subseteq Turns
    BY DEF EvidenceShaped, DrainClaims
  <2>3. Released(d) /\ UNCHANGED <<receipt, memories, enrollment>>
    BY <1>6 DEF ExtractionFails, AcceptanceRefused
  <2>4. CASE Written(d, [u \in Turns |-> BackedOff(unit[u])])
    BY <1>5, <2>1, <2>2, <2>3, <2>4, BackedOffRow
  <2>5. CASE Written(d, [u \in Turns |-> [unit[u] EXCEPT !.waiting = TRUE]])
    BY <1>5, <2>1, <2>2, <2>3, <2>5, BackedOffRow
  <2> QED
    BY <1>6, <2>4, <2>5 DEF ExtractionFails, AcceptanceRefused
<1>7. ASSUME NEW d \in Drainers, DrainRollsBack(d) PROVE EvidenceInv' /\ memories' = memories
  <2>1. \A r \in UnitRows : /\ [r EXCEPT !.lock = NoDrainer] \in UnitRows
                            /\ [r EXCEPT !.lock = NoDrainer].state = r.state
    BY DEF UnitRows
  <2>2. unit' \in [Turns -> UnitRows] /\ \A u \in Turns : unit'[u].state = unit[u].state
    BY <1>7, <2>1 DEF DrainRollsBack, EvidenceShaped
  <2>3. Released(d) /\ UNCHANGED <<receipt, memories, enrollment>>
    BY <1>7 DEF DrainRollsBack
  <2> QED
    BY <2>2, <2>3, DrainerLetsGo DEF EvidenceShaped, TurnOK
<1>8. ASSUME NEW u \in Turns, RetryComesDue(u) \/ WindowCloses(u)
      PROVE  EvidenceInv' /\ memories' = memories
  <2>1. \A r \in UnitRows :
          /\ [r EXCEPT !.waiting = FALSE] \in UnitRows /\ [r EXCEPT !.expired = TRUE] \in UnitRows
          /\ [r EXCEPT !.waiting = FALSE].state = r.state
          /\ [r EXCEPT !.expired = TRUE].state = r.state
    BY DEF UnitRows
  <2>2. unit' \in [Turns -> UnitRows] /\ \A v \in Turns : unit'[v].state = unit[v].state
    <3>1. CASE unit' = [unit EXCEPT ![u].waiting = FALSE]
      BY <2>1, <3>1 DEF EvidenceShaped
    <3>2. CASE unit' = [unit EXCEPT ![u].expired = TRUE]
      BY <2>1, <3>2 DEF EvidenceShaped
    <3> QED
      BY <1>8, <3>1, <3>2 DEF RetryComesDue, WindowCloses
  <2>3. UNCHANGED <<receipt, memories, enrollment, drainer>>
    BY <1>8 DEF RetryComesDue, WindowCloses
  <2> QED
    BY <2>2, <2>3 DEF EvidenceShaped, TurnOK, DrainerOK
<1>9. CASE PurgeEvidence
  <2>1. PICK gone \in SUBSET Turns :
          unit' = [u \in Turns |->
            IF u \in gone THEN [NoUnit EXCEPT !.state = "purged"]
            ELSE IF u \in PastDue \cap Unlocked THEN [unit[u] EXCEPT !.state = "gap"]
            ELSE unit[u]]
    BY <1>9 DEF PurgeEvidence
  <2>2. [NoUnit EXCEPT !.state = "purged"] \in UnitRows
        /\ [NoUnit EXCEPT !.state = "purged"].state = "purged"
    BY DEF NoUnit, UnitRows
  <2>3. \A r \in UnitRows : [r EXCEPT !.state = "gap"] \in UnitRows
                            /\ [r EXCEPT !.state = "gap"].state = "gap"
    BY DEF UnitRows
  <2>4. unit' \in [Turns -> UnitRows]
        /\ \A u \in Turns : unit'[u].state = "active" => unit[u].state = "active"
    BY <2>1, <2>2, <2>3 DEF EvidenceShaped
  <2>5. UNCHANGED <<receipt, memories, enrollment, drainer>>
    BY <1>9 DEF PurgeEvidence
  <2> QED
    BY <2>4, <2>5 DEF EvidenceShaped, TurnOK, DrainerOK
<1>10. ASSUME NEW u \in Turns, EraseMemory(u) PROVE EvidenceInv' /\ memories' = memories
  BY <1>10 DEF EraseMemory, EvidenceShaped, TurnOK, DrainerOK
<1>11. CASE UNCHANGED evidenceVars
  BY <1>11 DEF evidenceVars, EvidenceShaped, TurnOK, DrainerOK
<1> QED
  BY <1>1, <1>2, <1>3, <1>4, <1>6, <1>7, <1>8, <1>9, <1>10, <1>11 DEF EvidenceDrainNext

LEMMA EvidenceStep == EvidenceInv /\ [EvidenceDrainNext]_evidenceVars => EvidenceInv'
  BY CommitSettles, OtherDrainSteps

(* A turn becomes at most one memory for ever, and a row settled active names *)
(* one that was written: whatever is rolled back, purged, recorded again or   *)
(* erased, the receipt says what became of the turn.                          *)
THEOREM TurnsAreRememberedOnce == EvidenceDrainSpec => []OneMemoryPerTurn
<1>1. EvidenceInv => OneMemoryPerTurn
  BY DEF EvidenceInv, EvidenceShaped, TurnOK, OneMemoryPerTurn
<1> QED
  BY <1>1, EvidenceInitially, EvidenceStep, PTL DEF EvidenceDrainSpec

(* No memory is written once the enrollment's revocation has committed, even  *)
(* by a drain that verified its turns before: the share of the enrollment's   *)
(* row it holds makes the revocation wait for its commit.                     *)
THEOREM RevocationStops == EvidenceDrainSpec => NoMemoryAfterRevocation
<1>1. EvidenceInv /\ [EvidenceDrainNext]_evidenceVars =>
        [enrollment = "revoked" => memories' = memories]_evidenceVars
  BY CommitSettles, OtherDrainSteps
<1> QED
  BY <1>1, EvidenceInitially, EvidenceStep, PTL DEF EvidenceDrainSpec, NoMemoryAfterRevocation
-----------------------------------------------------------------------------
(* The bridge: what a batch covers.                                          *)

(* The first of some items.                                                   *)
LEMMA FirstItem ==
    ASSUME NEW S \in SUBSET Items, S # {}
    PROVE  First(S) \in S /\ \A j \in S : First(S).place <= j.place
<1> DEFINE places == {i.place : i \in S}
<1>1. places \in SUBSET Nat /\ places # {}
  BY BridgeAssumption DEF Items
<1> HIDE DEF places
<1>2. PICK m \in places : \A n \in places : m <= n
  BY <1>1, LeastOne
<1>3. PICK i \in S : i.place = m
  BY DEF places
<1>4. \A j \in S : i.place <= j.place
  BY <1>2, <1>3 DEF places
<1> QED
  BY <1>4 DEF First

(* The person's lines of a range are finitely many.                           *)
LEMMA TurnsFinite ==
    ASSUME NEW from \in Nat, NEW to \in Nat
    PROVE  IsFiniteSet(TurnPlaces(from, to)) /\ TurnPlaces(from, to) \in SUBSET Nat
<1>1. IsFiniteSet((from + 1)..to)
  BY FS_Interval
<1>2. TurnPlaces(from, to) \subseteq (from + 1)..to
  BY DEF TurnPlaces
<1> QED
  BY <1>1, <1>2, FS_Subset

(* Reading stops where the last selected line is, so every person's line      *)
(* before that place is selected.                                             *)
LEMMA NoneSkipped ==
    ASSUME NEW from \in Nat, NEW to \in Nat, from <= to, NEW limit \in Nat
    PROVE  /\ Consumed(from, to, limit) \in from..to
           /\ \A i \in TurnPlaces(from, to) :
                i <= Consumed(from, to, limit) => i \in Selected(from, to, limit)
           /\ Selected(from, to, limit) \subseteq (from + 1)..Consumed(from, to, limit)
<1> DEFINE turns == TurnPlaces(from, to)
           chosen == Selected(from, to, limit)
           e == Consumed(from, to, limit)
<1>1. turns \subseteq (from + 1)..to /\ chosen \subseteq turns
  BY DEF TurnPlaces, Selected
<1>2. \A i, j \in Nat : i <= j => TurnPlaces(from, i) \subseteq TurnPlaces(from, j)
  BY DEF TurnPlaces
<1>3. \A i, j \in Nat : i <= j =>
        /\ Cardinality(TurnPlaces(from, i)) \in Nat /\ Cardinality(TurnPlaces(from, j)) \in Nat
        /\ Cardinality(TurnPlaces(from, i)) <= Cardinality(TurnPlaces(from, j))
  BY <1>2, TurnsFinite, FS_CardinalityType, FS_Subset
<1>4. \A i \in turns : i \in Nat /\ i <= to
  BY <1>1
<1>5. CASE limit = 0
  <2>1. e = from
    BY <1>5 DEF Consumed
  <2>2. \A i \in turns : Cardinality(TurnPlaces(from, i)) > 0
    <3> TAKE i \in turns
    <3>1. i \in TurnPlaces(from, i)
      BY <1>1 DEF TurnPlaces
    <3>2. IsFiniteSet(TurnPlaces(from, i))
      BY <1>4, TurnsFinite
    <3> QED
      BY <3>1, <3>2, FS_EmptySet, FS_CardinalityType
  <2>3. chosen = {}
    BY <1>1, <1>3, <1>4, <1>5, <2>2 DEF Selected
  <2> QED
    BY <1>1, <2>1, <2>3
<1>6. CASE limit # 0 /\ Cardinality(turns) < limit
  <2>1. e = to
    BY <1>3, <1>6 DEF Consumed
  <2>2. \A i \in turns : Cardinality(TurnPlaces(from, i)) <= limit
    BY <1>3, <1>4, <1>6
  <2> QED
    BY <1>1, <2>1, <2>2 DEF Selected
<1>7. CASE limit # 0 /\ Cardinality(turns) >= limit
  <2>1. chosen # {}
    <3>1. turns # {}
      BY <1>7, FS_EmptySet
    <3>2. PICK m \in turns : \A n \in turns : m <= n
      BY <3>1, TurnsFinite, LeastOne
    <3>3. TurnPlaces(from, m) = {m}
      BY <1>1, <1>2, <1>4, <3>2 DEF TurnPlaces
    <3>4. Cardinality(TurnPlaces(from, m)) <= limit
      <4>1. Cardinality(TurnPlaces(from, m)) = 1
        BY <3>3, FS_Singleton
      <4> QED
        BY <1>7, <4>1
    <3> QED
      BY <3>2, <3>4 DEF Selected
  <2>2. chosen \in SUBSET Nat /\ \A n \in chosen : n <= to
    BY <1>1, <1>4
  <2> HIDE DEF chosen
  <2>3. \E m \in chosen : \A n \in chosen : n <= m
    BY <2>1, <2>2, GreatestOne
  <2>4. e = CHOOSE i \in chosen : \A j \in chosen : j <= i
    BY <1>3, <1>7 DEF Consumed, chosen
  <2> HIDE DEF e
  <2>5. e \in chosen /\ \A n \in chosen : n <= e
    BY <2>3, <2>4
  <2>6. \A i \in turns : i <= e => Cardinality(TurnPlaces(from, i)) <= limit
    <3> TAKE i \in turns
    <3> HAVE i <= e
    <3>1. e \in Nat /\ i \in Nat /\ Cardinality(TurnPlaces(from, e)) <= limit
      BY <1>1, <1>4, <2>5 DEF chosen, Selected
    <3> QED
      BY <1>3, <3>1
  <2> QED
    BY <1>1, <2>5, <2>6 DEF chosen, e, Selected
<1> QED
  BY <1>3, <1>5, <1>6, <1>7

-----------------------------------------------------------------------------
(* The bridge: what its row and its batch say of the lines behind them.      *)

Batches == [gap : SUBSET Keys, gone : BOOLEAN, items : SUBSET Items, end : 0..MaxLines,
            inode : 0..MaxInodes]
SessionRows == [known : BOOLEAN, cursor : 0..MaxLines, inode : 0..MaxInodes,
                pendingGap : BOOLEAN, closed : BOOLEAN]
DrainPlaces == [at : {"idle", "collect", "post", "settle"}, probe : BOOLEAN,
                batch : Batches, answer : SUBSET Keys]

BridgeShaped ==
    /\ transcript \in [where : {"present", "gone", "refused"}, inode : 1..MaxInodes,
                       size : 0..MaxLines]
    /\ session \in SessionRows
    /\ drain \in DrainPlaces

(* A row without a file has passed nothing.                                   *)
RowOK ==
    /\ ~session.known => session.inode = 0
    /\ session.inode = 0 => session.cursor = 0

PassedAnswered ==
    session.inode # 0 =>
      \A i \in 1..session.cursor : LineKind[i] = "turn" => LineAnswered(<<session.inode, i>>)

(* Between start and its end a batch holds every person's line of its file.   *)
Covers(b, start) ==
    /\ start <= b.end
    /\ \A i \in (start + 1)..b.end :
         LineKind[i] = "turn" =>
           \E item \in b.items : item.place = i
    /\ \A item \in b.items :
         /\ item.place \in (start + 1)..b.end
         /\ item.key \in {RecordKey(<<b.inode, item.place>>),
                          ExpiredKey(<<b.inode, item.place>>)}

(* A batch goes on from the row's cursor in the row's file, or begins another *)
(* behind the gap that stands for what the cursor leaves.                     *)
BatchFits(b) ==
    /\ b.gap \subseteq {GapKey(session.cursor)}
    /\ b.gone => b.gap # {}
    /\ ~b.gone =>
         /\ b.inode # 0
         /\ b.gap = {} => session.inode \in {0, b.inode}
         /\ Covers(b, IF b.gap = {} THEN session.cursor ELSE 0)

BatchOK ==
    drain.at \in {"post", "settle"} => session.known /\ BatchFits(drain.batch)

AnswerOK ==
    drain.at = "settle" =>
      drain.batch.gap \subseteq drain.answer /\ drain.answer \subseteq answered

BridgeInv == BridgeShaped /\ RowOK /\ PassedAnswered /\ BatchOK /\ AnswerOK

LEMMA NothingYet ==
    /\ NoSession \in SessionRows /\ NoBatch \in Batches
    /\ NotDraining \in DrainPlaces
    /\ \A at \in {"idle", "collect"}, probe \in BOOLEAN :
         [NotDraining EXCEPT !.at = at, !.probe = probe] \in DrainPlaces
    /\ [NotDraining EXCEPT !.at = "collect"] \in DrainPlaces
<1>1. NoBatch \in Batches
  BY BridgeAssumption DEF NoBatch, Batches
<1>2. NoSession \in SessionRows
  BY BridgeAssumption DEF NoSession, SessionRows
<1>3. NotDraining \in DrainPlaces
  BY <1>1 DEF NotDraining, DrainPlaces
<1>4. \A at \in {"idle", "collect"}, probe \in BOOLEAN :
        [NotDraining EXCEPT !.at = at, !.probe = probe] \in DrainPlaces
  BY <1>3 DEF DrainPlaces
<1>5. [NotDraining EXCEPT !.at = "collect"] \in DrainPlaces
  BY <1>3 DEF DrainPlaces
<1> QED
  BY <1>1, <1>2, <1>3, <1>4, <1>5

LEMMA BridgeInitially == BridgeInit => BridgeInv
<1> SUFFICES ASSUME BridgeInit PROVE BridgeInv
  OBVIOUS
<1>1. BridgeShaped
  <2>1. 1 \in 1..MaxInodes /\ 0 \in 0..MaxLines
    BY BridgeAssumption
  <2>2. [where |-> "present", inode |-> 1, size |-> 0] \in
          [where : {"present", "gone", "refused"}, inode : 1..MaxInodes, size : 0..MaxLines]
    BY <2>1
  <2> QED
    BY <2>2, NothingYet DEF BridgeInit, BridgeShaped
<1>2. session.inode = 0 /\ session.cursor = 0 /\ drain.at = "idle"
  BY DEF BridgeInit, NoSession, NotDraining
<1> QED
  BY <1>1, <1>2 DEF BridgeInv, RowOK, PassedAnswered, BatchOK, AnswerOK

(* An item names its line.                                                    *)
LEMMA ItemNames ==
    ASSUME NEW n \in 1..MaxInodes, NEW i \in 1..MaxLines
    PROVE  /\ Item(n, i) \in Items /\ Item(n, i).place = i
           /\ Item(n, i).key \in {RecordKey(<<n, i>>), ExpiredKey(<<n, i>>)}
<1>1. <<n, i>> \in Lines
  BY DEF Lines
<1>2. RecordKey(<<n, i>>) \in Keys /\ ExpiredKey(<<n, i>>) \in Keys
  BY <1>1 DEF Keys
<1> QED
  BY <1>2 DEF Item, Items

(* What a pass reads fits the row, and so does what a probe keeps of it.      *)
LEMMA ReadFits ==
    ASSUME BridgeShaped, RowOK,
           NEW to \in Window(IF Replaced THEN 0 ELSE session.cursor)
    PROVE  /\ ReadBatch(to) \in Batches /\ ~ReadBatch(to).gone
           /\ BatchFits(ReadBatch(to))
<1> DEFINE start == IF Replaced THEN 0 ELSE session.cursor
           limit == IF Replaced THEN BatchLimit - 1 ELSE BatchLimit
           n == transcript.inode
           b == ReadBatch(to)
           chosen == Selected(start, to, limit)
           e == Consumed(start, to, limit)
<1>1. /\ session.cursor \in 0..MaxLines /\ transcript.size \in 0..MaxLines
      /\ n \in 1..MaxInodes /\ session.inode \in 0..MaxInodes
      /\ MaxLines \in Nat /\ MaxInodes \in Nat /\ BatchLimit \in Nat \ {0}
  BY BridgeAssumption DEF BridgeShaped, SessionRows
<1>2. start \in 0..transcript.size /\ limit \in Nat
  BY <1>1 DEF Replaced
<1>3. to \in start..transcript.size
  BY <1>1, <1>2 DEF Window
<1>4. start \in Nat /\ to \in Nat /\ start <= to /\ to <= MaxLines
  BY <1>1, <1>2, <1>3
<1>5. b = [gap   |-> IF Replaced THEN {GapKey(session.cursor)} ELSE {},
           gone  |-> FALSE,
           items |-> {Item(n, i) : i \in chosen},
           end   |-> e,
           inode |-> n]
  BY DEF ReadBatch
<1> HIDE DEF start, limit, n, b
<1>6. /\ e \in start..to
      /\ \A i \in TurnPlaces(start, to) : i <= e => i \in chosen
      /\ chosen \subseteq (start + 1)..e
  BY <1>2, <1>4, NoneSkipped
<1> HIDE DEF chosen, e
<1>7. \A i \in chosen : i \in 1..MaxLines
  BY <1>1, <1>4, <1>6
<1>8. \A i \in chosen : /\ Item(n, i) \in Items /\ Item(n, i).place = i
                        /\ Item(n, i).key \in {RecordKey(<<n, i>>), ExpiredKey(<<n, i>>)}
  BY <1>1, <1>7, ItemNames
<1>9. GapKey(session.cursor) \in Keys
  BY <1>1 DEF Keys
<1>10. b \in Batches
  <2>1. {Item(n, i) : i \in chosen} \in SUBSET Items
    BY <1>8
  <2>2. e \in 0..MaxLines /\ n \in 0..MaxInodes
    BY <1>1, <1>4, <1>6
  <2> QED
    BY <1>5, <1>9, <2>1, <2>2 DEF Batches
<1>11. Covers(b, start)
  <2>1. start <= b.end
    BY <1>4, <1>5, <1>6
  <2>2. ASSUME NEW i \in (start + 1)..b.end, LineKind[i] = "turn"
        PROVE  \E item \in b.items : item.place = i
    <3>1. i \in TurnPlaces(start, to) /\ i <= e
      BY <1>4, <1>5, <1>6, <2>2 DEF TurnPlaces
    <3>2. i \in chosen
      BY <1>6, <3>1
    <3> QED
      BY <1>5, <1>8, <3>2
  <2>3. ASSUME NEW item \in b.items
        PROVE  /\ item.place \in (start + 1)..b.end
               /\ item.key \in {RecordKey(<<b.inode, item.place>>),
                                ExpiredKey(<<b.inode, item.place>>)}
    <3>1. PICK i \in chosen : item = Item(n, i)
      BY <1>5
    <3> QED
      BY <1>5, <1>6, <1>8, <3>1
  <2> QED
    BY <2>1, <2>2, <2>3 DEF Covers
<1>12. b.gap = {} => ~Replaced /\ start = session.cursor /\ session.inode \in {0, n}
  BY <1>5 DEF Replaced, start, n
<1>13. b.gap # {} => b.gap = {GapKey(session.cursor)} /\ start = 0
  BY <1>5 DEF start
<1>14. b.inode = n /\ n # 0 /\ ~b.gone
  BY <1>1, <1>5
<1>15. BatchFits(b)
  BY <1>11, <1>12, <1>13, <1>14 DEF BatchFits
<1> QED
  BY <1>10, <1>14, <1>15 DEF b

LEMMA ProbeFits ==
    ASSUME BridgeShaped, NEW b \in Batches, BatchFits(b)
    PROVE  Probe(b) \in Batches /\ BatchFits(Probe(b)) /\ Probe(b).gone = b.gone
<1>1. /\ b.end \in 0..MaxLines /\ MaxLines \in Nat /\ b.items \in SUBSET Items
      /\ session.cursor \in 0..MaxLines
  BY BridgeAssumption DEF Batches, BridgeShaped, SessionRows
<1>2. CASE b.gap # {}
  <2> DEFINE p == [b EXCEPT !.items = {}, !.end = IF b.gone THEN @ ELSE 0]
  <2>1. Probe(b) = p
    BY <1>2 DEF Probe
  <2>2. /\ p \in Batches /\ p.gap = b.gap /\ p.gone = b.gone /\ p.inode = b.inode
        /\ p.items = {} /\ (~b.gone => p.end = 0)
    <3>1. (IF b.gone THEN b.end ELSE 0) \in 0..MaxLines
      BY <1>1
    <3>2. p \in Batches
      BY <3>1 DEF Batches
    <3>3. p.gap = b.gap /\ p.gone = b.gone /\ p.inode = b.inode
      BY DEF Batches
    <3>4. p.items = {} /\ p.end = IF b.gone THEN b.end ELSE 0
      BY DEF Batches
    <3> QED
      BY <3>2, <3>3, <3>4
  <2> HIDE DEF p
  <2>3. ~b.gone => Covers(p, 0)
    BY <2>2 DEF Covers
  <2> QED
    BY <1>2, <2>1, <2>2, <2>3 DEF BatchFits
<1>3. CASE b.gap = {} /\ b.items = {}
  BY <1>3 DEF Probe
<1>4. CASE b.gap = {} /\ b.items # {}
  <2> DEFINE f == First(b.items)
             p == [b EXCEPT !.items = {f}, !.end = f.place]
             start == session.cursor
  <2>1. Probe(b) = p
    BY <1>4 DEF Probe
  <2>2. f \in b.items /\ \A j \in b.items : f.place <= j.place
    BY <1>1, <1>4, FirstItem
  <2>3. f \in Items /\ f.place \in 1..MaxLines
    BY <1>1, <2>2 DEF Items
  <2> HIDE DEF f
  <2>4. /\ p \in Batches /\ p.gap = {} /\ p.gone = b.gone /\ p.inode = b.inode
        /\ p.items = {f} /\ p.end = f.place
    <3>1. f.place \in 0..MaxLines /\ {f} \in SUBSET Items
      BY <1>1, <2>3
    <3>2. p \in Batches
      BY <3>1 DEF Batches
    <3>3. p.gap = b.gap /\ p.gone = b.gone /\ p.inode = b.inode
      BY DEF Batches
    <3>4. p.items = {f} /\ p.end = f.place
      BY DEF Batches
    <3> QED
      BY <1>4, <3>2, <3>3, <3>4
  <2> HIDE DEF p
  <2>5. ~b.gone /\ b.inode # 0 /\ session.inode \in {0, b.inode} /\ Covers(b, start)
    BY <1>4 DEF BatchFits
  <2>6. Covers(p, start)
    <3>1. f.place \in (start + 1)..b.end
      BY <2>2, <2>5 DEF Covers
    <3>2. ASSUME NEW i \in (start + 1)..p.end, LineKind[i] = "turn"
          PROVE  f.place = i
      <4>1. i \in (start + 1)..b.end
        BY <1>1, <2>3, <2>4, <3>1, <3>2
      <4>2. PICK item \in b.items : item.place = i
        BY <2>5, <3>2, <4>1 DEF Covers
      <4>3. f.place <= i
        BY <2>2, <4>2
      <4> QED
        BY <1>1, <2>3, <2>4, <4>1, <4>3
    <3>3. f.key \in {RecordKey(<<b.inode, f.place>>), ExpiredKey(<<b.inode, f.place>>)}
      BY <2>2, <2>5 DEF Covers
    <3>4. start <= f.place /\ f.place \in (start + 1)..f.place
      BY <1>1, <2>3, <2>5, <3>1 DEF Covers
    <3> QED
      BY <2>4, <3>2, <3>3, <3>4 DEF Covers
  <2> QED
    BY <2>1, <2>4, <2>5, <2>6 DEF BatchFits
<1> QED
  BY <1>2, <1>3, <1>4

(* Where the cursor stops, every person's line before it was answered for.    *)
LEMMA PassedByAnswer ==
    ASSUME BridgeInv, drain.at = "settle", ~drain.batch.gone,
           drain.batch.gap \subseteq drain.answer
    PROVE  /\ Target \in 0..MaxLines
           /\ \A i \in 1..Target :
                LineKind[i] = "turn" => LineAnswered(<<drain.batch.inode, i>>)
<1> DEFINE b == drain.batch
           start == IF b.gap = {} THEN session.cursor ELSE 0
<1>1. /\ b \in Batches /\ BatchFits(b)
      /\ b.end \in 0..MaxLines /\ MaxLines \in Nat /\ b.items \in SUBSET Items
      /\ session.cursor \in 0..MaxLines
  BY BridgeAssumption
  DEF BridgeInv, BatchOK, BridgeShaped, DrainPlaces, SessionRows, Batches
<1>2. Covers(b, start)
  BY <1>1 DEF BatchFits
<1>3. start \in Nat /\ start <= b.end
  BY <1>1, <1>2 DEF Covers
<1>4. /\ Target \in 0..b.end
      /\ \A item \in b.items : item.place <= Target => item.key \in drain.answer
  <2>1. Unanswered \in SUBSET Items
    BY <1>1 DEF Unanswered
  <2>2. CASE Unanswered = {}
    BY <1>1, <2>2 DEF Target, Unanswered
  <2>3. CASE Unanswered # {}
    <3> DEFINE f == First(Unanswered)
    <3>1. f \in Unanswered /\ \A j \in Unanswered : f.place <= j.place
      BY <2>1, <2>3, FirstItem
    <3>2. f \in b.items
      BY <3>1 DEF Unanswered
    <3>3. f.place \in (start + 1)..b.end
      BY <1>2, <3>2 DEF Covers
    <3>4. Target = f.place - 1
      BY <2>3 DEF Target
    <3> HIDE DEF f
    <3>5. \A item \in b.items : item.key \notin drain.answer => f.place <= item.place
      BY <3>1 DEF Unanswered
    <3>6. \A item \in b.items : item.place \in Nat
      BY <1>1 DEF Items
    <3> QED
      BY <1>1, <1>3, <3>3, <3>4, <3>5, <3>6
  <2> QED
    BY <2>2, <2>3
<1>5. ASSUME NEW i \in 1..Target, LineKind[i] = "turn"
      PROVE  LineAnswered(<<b.inode, i>>)
  <2>1. CASE i > start
    <3>1. i \in (start + 1)..b.end
      BY <1>1, <1>3, <1>4, <2>1
    <3>2. PICK item \in b.items : item.place = i
      BY <1>2, <1>5, <3>1 DEF Covers
    <3>3. item.key \in {RecordKey(<<b.inode, i>>), ExpiredKey(<<b.inode, i>>)}
      BY <1>2, <3>2 DEF Covers
    <3>4. item.key \in answered
      BY <1>4, <3>2 DEF BridgeInv, AnswerOK
    <3> QED
      BY <3>3, <3>4 DEF LineAnswered
  <2>2. CASE i <= start
    <3>1. b.gap = {} /\ i \in 1..session.cursor /\ session.cursor # 0
      BY <1>1, <1>3, <1>4, <2>2
    <3>2. session.inode # 0 /\ session.inode = b.inode
      BY <1>1, <3>1 DEF BridgeInv, RowOK, BatchFits
    <3> QED
      BY <1>5, <3>1, <3>2 DEF BridgeInv, PassedAnswered
  <2> QED
    BY <1>3, <1>4, <2>1, <2>2
<1> QED
  BY <1>1, <1>4, <1>5

(* What a step may do to the row.                                             *)
RowMoves ==
    /\ session'.known /\ session.inode # 0 /\ session'.inode # session.inode
         => GapKey(session.cursor) \in answered
    /\ session'.closed /\ ~session.closed =>
         IF transcript.where = "present"
         THEN session'.cursor = transcript.size /\ session'.inode = transcript.inode
         ELSE GapKey(session.cursor) \in answered

(* A row that keeps its file and its cursor keeps what is said of them.       *)
LEMMA RowKept ==
    ASSUME BridgeInv, session' \in SessionRows,
           session.known => session'.known, session'.cursor = session.cursor,
           session'.inode = session.inode, answered \subseteq answered'
    PROVE  RowOK' /\ PassedAnswered'
  BY DEF BridgeInv, RowOK, PassedAnswered, LineAnswered

LEMMA RowEmptied ==
    ASSUME session'.inode = 0, session'.cursor = 0
    PROVE  RowOK' /\ PassedAnswered'
  BY DEF RowOK, PassedAnswered

(* The start of a drain folds the spool into the row.                         *)
LEMMA FoldedRow ==
    ASSUME BridgeInv, NEW sighting
    PROVE  /\ Folded(session, sighting) \in SessionRows
           /\ Folded(session, sighting).closed => session.closed
           /\ Folded(session, sighting).cursor = session.cursor
           /\ Folded(session, sighting).inode = session.inode
           /\ session.known => Folded(session, sighting).known
<1>1. session \in SessionRows
  BY DEF BridgeInv, BridgeShaped
<1>2. CASE sighting = "none"
  BY <1>1, <1>2 DEF Folded
<1>3. CASE sighting # "none" /\ ~session.known
  <2>1. session.inode = 0 /\ session.cursor = 0
    BY <1>3 DEF BridgeInv, RowOK
  <2>2. [NoSession EXCEPT !.known = TRUE] \in SessionRows
    BY NothingYet DEF SessionRows
  <2>3. Folded(session, sighting) = [NoSession EXCEPT !.known = TRUE]
    BY <1>3 DEF Folded
  <2>4. /\ ~[NoSession EXCEPT !.known = TRUE].closed
        /\ [NoSession EXCEPT !.known = TRUE].cursor = 0
        /\ [NoSession EXCEPT !.known = TRUE].inode = 0
    BY DEF NoSession
  <2> QED
    BY <1>3, <2>1, <2>2, <2>3, <2>4
<1>4. CASE sighting # "none" /\ session.known /\ ~session.closed
  BY <1>1, <1>4 DEF Folded
<1>5. CASE sighting # "none" /\ session.known /\ session.closed
  <2> DEFINE reopened == [session EXCEPT !.closed = FALSE]
  <2>1. /\ reopened \in SessionRows /\ reopened.cursor = session.cursor
        /\ reopened.inode = session.inode /\ reopened.known = session.known
    BY <1>1 DEF SessionRows
  <2>2. Folded(session, sighting) \in {session, reopened}
    BY <1>5 DEF Folded, Reopened
  <2> HIDE DEF reopened
  <2> QED
    BY <1>1, <1>5, <2>1, <2>2
<1> QED
  BY <1>2, <1>3, <1>4, <1>5

(* A drain that is not between its read and its commit has nothing to keep.   *)
LEMMA Between ==
    ASSUME NEW d \in DrainPlaces, drain' = d, d.at \in {"idle", "collect"}
    PROVE  BatchOK' /\ AnswerOK'
  BY DEF BatchOK, AnswerOK

(* What happens around the bridge does not touch its row or its batch.        *)
LEMMA WorldSteps ==
    ASSUME BridgeInv,
           \/ WriteLine \/ MoveSource \/ LineAges \/ SetRecording \/ HoldElapses \/ Hook
           \/ UNCHANGED bridgeVars
    PROVE  BridgeInv' /\ RowMoves
<1>1. UNCHANGED <<session, drain, answered>>
  BY DEF WriteLine, MoveSource, LineAges, SetRecording, HoldElapses, Hook, bridgeVars
<1>2. transcript' \in [where : {"present", "gone", "refused"}, inode : 1..MaxInodes,
                       size : 0..MaxLines]
  <2> DEFINE T == [where : {"present", "gone", "refused"}, inode : 1..MaxInodes,
                   size : 0..MaxLines]
  <2>1. transcript \in T /\ MaxInodes \in Nat /\ MaxLines \in Nat
    BY BridgeAssumption DEF BridgeInv, BridgeShaped
  <2>2. CASE WriteLine
    <3>1. transcript.size + 1 \in 0..MaxLines
      BY <2>1, <2>2 DEF WriteLine
    <3> QED
      BY <2>1, <2>2, <3>1 DEF WriteLine
  <2>3. CASE MoveSource
    <3>1. CASE /\ transcript.inode < MaxInodes
               /\ transcript' = [where |-> "present", inode |-> transcript.inode + 1, size |-> 0]
      <4>1. transcript.inode + 1 \in 1..MaxInodes /\ 0 \in 0..MaxLines
        BY <2>1, <3>1
      <4> QED
        BY <3>1, <4>1
    <3>2. CASE \E w \in {"present", "gone", "refused"} :
                 transcript' = [transcript EXCEPT !.where = w]
      BY <2>1, <3>2
    <3> QED
      BY <2>3, <3>1, <3>2 DEF MoveSource
  <2>4. CASE UNCHANGED transcript
    BY <2>1, <2>4
  <2> QED
    BY <2>2, <2>3, <2>4 DEF LineAges, SetRecording, HoldElapses, Hook, bridgeVars
<1> QED
  BY <1>1, <1>2 DEF BridgeInv, BridgeShaped, RowOK, PassedAnswered, LineAnswered, BatchOK,
                    BatchFits, Covers, AnswerOK, RowMoves

(* A drain begins.                                                            *)
LEMMA DrainBegins ==
    ASSUME BridgeInv, DrainStart \/ DrainStartUnread
    PROVE  BridgeInv' /\ RowMoves
<1>1. PICK sighting : Started(Folded(session, sighting))
  <2>1. CASE DrainStart
    BY <2>1 DEF DrainStart
  <2>2. CASE DrainStartUnread
    <3>1. Folded(session, "none") = session
      BY DEF Folded
    <3> QED
      BY <2>2, <3>1 DEF DrainStartUnread
  <2> QED
    BY <2>1, <2>2
<1> DEFINE row == Folded(session, sighting)
<1>2. /\ row \in SessionRows /\ (row.closed => session.closed)
      /\ row.cursor = session.cursor /\ row.inode = session.inode
      /\ session.known => row.known
  BY FoldedRow
<1> HIDE DEF row
<1>3. session' = row \/ session' = NoSession
  BY <1>1 DEF Started, row
<1>4. UNCHANGED <<transcript, answered>> /\ drain.at = "idle"
  BY DEF DrainStart, DrainStartUnread
<1>5. drain' \in DrainPlaces /\ drain'.at \in {"idle", "collect"}
  <2>1. drain \in DrainPlaces
    BY DEF BridgeInv, BridgeShaped
  <2>2. CASE drain' = drain
    BY <1>4, <2>1, <2>2
  <2>3. CASE drain' = [NotDraining EXCEPT !.at = "collect", !.probe = (hold = "due")]
    <3>1. (hold = "due") \in BOOLEAN
      OBVIOUS
    <3>2. PICK probe \in BOOLEAN :
            drain' = [NotDraining EXCEPT !.at = "collect", !.probe = probe]
      BY <2>3, <3>1
    <3>3. drain' \in DrainPlaces
      BY <3>2, NothingYet
    <3>4. drain'.at = "collect"
      BY <3>2 DEF NotDraining
    <3> QED
      BY <3>3, <3>4
  <2> QED
    BY <1>1, <2>2, <2>3 DEF Started
<1>6. session' \in SessionRows
  BY <1>2, <1>3, NothingYet
<1>7. RowOK' /\ PassedAnswered'
  <2>1. CASE session' = row
    BY <1>2, <1>4, <2>1, RowKept
  <2>2. CASE session' = NoSession
    BY <2>2, RowEmptied DEF NoSession
  <2> QED
    BY <1>3, <2>1, <2>2
<1>8. RowMoves
  BY <1>2, <1>3 DEF RowMoves, NoSession
<1>9. BridgeShaped'
  BY <1>4, <1>5, <1>6 DEF BridgeInv, BridgeShaped
<1> QED
  BY <1>5, <1>7, <1>8, <1>9, Between DEF BridgeInv

(* A pass that has its batch: sent, or settled when there is nothing to send. *)
LEMMA BatchTaken ==
    ASSUME BridgeInv, NEW b \in Batches, BatchFits(b), Batched(b),
           session'.known, session'.cursor = session.cursor, session'.inode = session.inode
    PROVE  drain' \in DrainPlaces /\ BatchOK' /\ AnswerOK'
<1> DEFINE p == IF drain.probe THEN Probe(b) ELSE b
           at == IF p.gap = {} /\ p.items = {} THEN "settle" ELSE "post"
<1>1. p \in Batches /\ BatchFits(p)
  BY ProbeFits DEF BridgeInv
<1>2. drain' = [drain EXCEPT !.at = at, !.batch = p, !.answer = {}]
  BY DEF Batched
<1>3. at \in {"post", "settle"} /\ (at = "settle" => p.gap = {})
  OBVIOUS
<1> HIDE DEF p, at
<1>4. drain \in DrainPlaces
  BY DEF BridgeInv, BridgeShaped
<1>5. /\ drain' \in DrainPlaces /\ drain'.at = at /\ drain'.batch = p /\ drain'.answer = {}
  BY <1>1, <1>2, <1>3, <1>4 DEF DrainPlaces
<1>6. BatchOK'
  BY <1>1, <1>5 DEF BatchOK, BatchFits, Covers
<1>7. AnswerOK'
  BY <1>3, <1>5 DEF AnswerOK
<1> QED
  BY <1>5, <1>6, <1>7

LEMMA CollectSteps ==
    ASSUME BridgeInv, CollectNothing \/ CollectGone \/ CollectLines
    PROVE  BridgeInv' /\ RowMoves
<1>1. UNCHANGED <<transcript, answered>> /\ session \in SessionRows
  BY DEF CollectNothing, CollectGone, CollectLines, BridgeInv, BridgeShaped
<1>2. CASE CollectNothing
  <2>1. drain' = NotDraining /\ (session' = session \/ session' = NoSession)
    BY <1>2 DEF CollectNothing
  <2>2. drain' \in DrainPlaces /\ NotDraining.at = "idle"
    BY <2>1, NothingYet DEF NotDraining
  <2>3. RowOK' /\ PassedAnswered' /\ session' \in SessionRows
    <3>1. CASE session' = session
      BY <1>1, <3>1, RowKept
    <3>2. CASE session' = NoSession
      <4>1. session'.inode = 0 /\ session'.cursor = 0
        BY <3>2 DEF NoSession
      <4> QED
        BY <3>2, <4>1, NothingYet, RowEmptied
    <3> QED
      BY <2>1, <3>1, <3>2
  <2>4. RowMoves
    BY <2>1 DEF RowMoves, NoSession
  <2>5. BatchOK' /\ AnswerOK'
    BY <2>1, <2>2, Between
  <2> QED
    BY <1>1, <2>2, <2>3, <2>4, <2>5 DEF BridgeInv, BridgeShaped
<1>3. ASSUME NEW pending \in BOOLEAN, session' = [session EXCEPT !.pendingGap = pending],
             session.known, NEW b \in Batches, BatchFits(b), Batched(b)
      PROVE  BridgeInv' /\ RowMoves
  <2>1. /\ session' \in SessionRows /\ session'.known = session.known
        /\ session'.cursor = session.cursor /\ session'.inode = session.inode
        /\ session'.closed = session.closed
    BY <1>1, <1>3 DEF SessionRows
  <2>2. drain' \in DrainPlaces /\ BatchOK' /\ AnswerOK'
    BY <1>3, <2>1, BatchTaken
  <2>3. RowOK' /\ PassedAnswered'
    BY <1>1, <2>1, RowKept
  <2>4. RowMoves
    BY <2>1 DEF RowMoves
  <2> QED
    BY <1>1, <2>1, <2>2, <2>3, <2>4 DEF BridgeInv, BridgeShaped
<1>4. CASE CollectGone
  <2>1. GoneBatch \in Batches /\ BatchFits(GoneBatch)
    <3>1. GapKey(session.cursor) \in Keys
      BY <1>1 DEF SessionRows, Keys
    <3> QED
      BY <1>1, <3>1 DEF GoneBatch, Batches, SessionRows, BatchFits
  <2> QED
    BY <1>3, <1>4, <2>1 DEF CollectGone, Listed
<1>5. CASE CollectLines
  <2>1. PICK to \in Window(IF Replaced THEN 0 ELSE session.cursor) : Batched(ReadBatch(to))
    BY <1>5 DEF CollectLines
  <2>2. ReadBatch(to) \in Batches /\ BatchFits(ReadBatch(to))
    BY ReadFits DEF BridgeInv
  <2> QED
    BY <1>3, <1>5, <2>1, <2>2 DEF CollectLines, Listed
<1> QED
  BY <1>2, <1>4, <1>5

(* Every answer covers the gaps it was sent.                                  *)
LEMMA GapsAnswered ==
    ASSUME BridgeInv, drain.at = "post", NEW keys \in Admitted
    PROVE  keys \subseteq Keys /\ drain.batch.gap \subseteq keys
<1>1. /\ drain.batch.gap \subseteq {GapKey(session.cursor)}
      /\ drain.batch.gap \subseteq Keys /\ drain.batch.items \subseteq Items
  BY DEF BridgeInv, BatchOK, BatchFits, BridgeShaped, DrainPlaces, Batches
<1>2. Sent \subseteq Keys
  BY <1>1 DEF Sent, Items
<1>3. Records \subseteq drain.batch.items /\ \A i \in Records : i.key[1] = "record"
  BY DEF Records
<1>4. GapKey(session.cursor)[1] # "record"
  BY DEF GapKey
<1>5. PICK p \in (IF Records = {} THEN {0} ELSE {r.place : r \in Records}) :
        keys = (Sent \ {i.key : i \in Records}) \cup {i.key : i \in {r \in Records : r.place <= p}}
  BY DEF Admitted
<1>6. \A i \in Records : i.key \in Keys
  BY <1>1, <1>3 DEF Items
<1>7. keys \subseteq Keys
  BY <1>2, <1>5, <1>6
<1>8. drain.batch.gap \subseteq Sent \ {i.key : i \in Records}
  BY <1>1, <1>3, <1>4 DEF Sent
<1> QED
  BY <1>5, <1>7, <1>8

LEMMA PostSteps ==
    ASSUME BridgeInv, PostAnswered \/ PostLost \/ DrainFails
    PROVE  BridgeInv' /\ RowMoves
<1>1. UNCHANGED <<transcript, session>> /\ answered \subseteq answered'
  BY DEF PostAnswered, PostLost, DrainFails, Ingest
<1>2. RowMoves /\ RowOK' /\ PassedAnswered'
  BY <1>1, RowKept DEF RowMoves, BridgeInv, BridgeShaped
<1>3. CASE drain' = NotDraining
  <2>1. drain' \in DrainPlaces /\ NotDraining.at = "idle"
    BY <1>3, NothingYet DEF NotDraining
  <2>2. BatchOK' /\ AnswerOK'
    BY <1>3, <2>1, Between
  <2> QED
    BY <1>1, <1>2, <2>1, <2>2 DEF BridgeInv, BridgeShaped
<1>4. ASSUME drain.at = "post", NEW keys \in Admitted, Ingest(keys),
             drain' = [drain EXCEPT !.at = "settle", !.answer = keys]
      PROVE  BridgeInv' /\ RowMoves
  <2>1. drain \in DrainPlaces /\ keys \subseteq Keys /\ drain.batch.gap \subseteq keys
    BY <1>4, GapsAnswered DEF BridgeInv, BridgeShaped
  <2>2. /\ drain' \in DrainPlaces /\ drain'.at = "settle" /\ drain'.answer = keys
        /\ drain'.batch = drain.batch
    BY <1>4, <2>1 DEF DrainPlaces
  <2>3. BatchOK'
    BY <1>1, <1>4, <2>2 DEF BridgeInv, BatchOK, BatchFits, Covers
  <2>4. AnswerOK'
    BY <1>4, <2>1, <2>2 DEF AnswerOK, Ingest
  <2> QED
    BY <1>1, <1>2, <2>2, <2>3, <2>4 DEF BridgeInv, BridgeShaped
<1> QED
  BY <1>3, <1>4 DEF PostAnswered, PostLost, DrainFails

(* The commit: the one step that moves the cursor, changes the file or closes *)
(* the session over one.                                                      *)
LEMMA SettleStep ==
    ASSUME BridgeInv, Settle
    PROVE  BridgeInv' /\ RowMoves
<1> DEFINE row == [session EXCEPT !.cursor = Target, !.inode = drain.batch.inode]
<1>1. /\ session \in SessionRows /\ drain \in DrainPlaces /\ drain.batch \in Batches
      /\ session.known /\ BatchFits(drain.batch) /\ drain.at = "settle"
      /\ drain.batch.gap \subseteq answered /\ drain.batch.gap \subseteq drain.answer
      /\ UNCHANGED <<transcript, answered>>
  BY DEF Settle, BridgeInv, BridgeShaped, BatchOK, AnswerOK, DrainPlaces
<1>2. drain' \in DrainPlaces /\ BatchOK' /\ AnswerOK'
  <2>1. drain' = NotDraining \/ drain' = [NotDraining EXCEPT !.at = "collect"]
    BY DEF Settle
  <2>2. NotDraining.at = "idle" /\ [NotDraining EXCEPT !.at = "collect"].at = "collect"
    BY DEF NotDraining
  <2> QED
    BY <2>1, <2>2, NothingYet, Between
<1>3. ASSUME session' \in SessionRows, RowOK', PassedAnswered', RowMoves
      PROVE  BridgeInv' /\ RowMoves
  BY <1>1, <1>2, <1>3 DEF BridgeInv, BridgeShaped
<1>4. ASSUME session' = NoSession PROVE BridgeInv' /\ RowMoves
  <2>1. session' \in SessionRows /\ ~session'.known /\ ~session'.closed
        /\ session'.inode = 0 /\ session'.cursor = 0
    BY <1>4, NothingYet DEF NoSession
  <2>2. RowMoves
    BY <2>1 DEF RowMoves
  <2> QED
    BY <1>3, <2>1, <2>2, RowEmptied
<1>5. CASE SettleLines
  <2>1. ~drain.batch.gone
    BY <1>5 DEF SettleLines
  <2>2. /\ Target \in 0..MaxLines
        /\ \A i \in 1..Target :
             LineKind[i] = "turn" => LineAnswered(<<drain.batch.inode, i>>)
    BY <1>1, <2>1, PassedByAnswer
  <2>3. drain.batch.inode \in 0..MaxInodes /\ drain.batch.inode # 0
    BY <1>1, <2>1 DEF BatchFits, Batches
  <2>4. session.inode # 0 /\ drain.batch.inode # session.inode =>
          GapKey(session.cursor) \in answered
    BY <1>1, <2>1 DEF BatchFits
  <2>5. ASSUME session' \in SessionRows, session'.known, session'.cursor = Target,
               session'.inode = drain.batch.inode
        PROVE  RowOK' /\ PassedAnswered'
    BY <1>1, <2>2, <2>3, <2>5 DEF RowOK, PassedAnswered, LineAnswered
  <2>6. CASE session' = row
    <3>1. /\ session' \in SessionRows /\ session'.known = session.known
          /\ session'.cursor = Target /\ session'.inode = drain.batch.inode
          /\ session'.closed = session.closed
      BY <1>1, <2>2, <2>3, <2>6 DEF SessionRows
    <3>2. RowMoves
      BY <2>4, <3>1 DEF RowMoves
    <3> QED
      BY <1>1, <1>3, <2>5, <3>1, <3>2
  <2>7. CASE AtEof /\ session' = [row EXCEPT !.closed = TRUE]
    <3>1. /\ session' \in SessionRows /\ session'.known = session.known
          /\ session'.cursor = Target /\ session'.inode = drain.batch.inode
      BY <1>1, <2>2, <2>3, <2>7 DEF SessionRows
    <3>2. RowMoves
      BY <2>4, <2>7, <3>1 DEF RowMoves, AtEof
    <3> QED
      BY <1>1, <1>3, <2>5, <3>1, <3>2
  <2>8. session' = row \/ (AtEof /\ session' = [row EXCEPT !.closed = TRUE])
        \/ session' = NoSession
    BY <1>1, <1>5 DEF SettleLines
  <2> QED
    BY <1>4, <2>6, <2>7, <2>8
<1>6. CASE SettleGone
  <2>1. GapKey(session.cursor) \in answered
    BY <1>1, <1>6 DEF SettleGone, BatchFits
  <2>2. transcript.where \in {"present", "gone", "refused"}
    BY DEF BridgeInv, BridgeShaped
  <2>3. CASE session' = [session EXCEPT !.closed = TRUE] /\ transcript.where = "gone"
    <3>1. /\ session' \in SessionRows /\ session'.known = session.known
          /\ session'.cursor = session.cursor /\ session'.inode = session.inode
      BY <1>1, <2>3 DEF SessionRows
    <3>2. RowMoves
      BY <2>1, <2>3, <3>1 DEF RowMoves
    <3> QED
      BY <1>1, <1>3, <3>1, <3>2, RowKept
  <2>4. CASE session' = [session EXCEPT !.pendingGap = FALSE]
    <3>1. /\ session' \in SessionRows /\ session'.known = session.known
          /\ session'.cursor = session.cursor /\ session'.inode = session.inode
          /\ session'.closed = session.closed
      BY <1>1, <2>4 DEF SessionRows
    <3>2. RowMoves
      BY <3>1 DEF RowMoves
    <3> QED
      BY <1>1, <1>3, <3>1, <3>2, RowKept
  <2>5. \/ session' = [session EXCEPT !.closed = TRUE] /\ transcript.where = "gone"
        \/ session' = [session EXCEPT !.pendingGap = FALSE]
        \/ session' = NoSession
    BY <1>6, <2>2 DEF SettleGone
  <2> QED
    BY <1>4, <2>3, <2>4, <2>5
<1> QED
  BY <1>5, <1>6 DEF Settle

LEMMA BridgeStep == BridgeInv /\ [BridgeNext]_bridgeVars => BridgeInv' /\ RowMoves
  BY WorldSteps, DrainBegins, CollectSteps, PostSteps, SettleStep DEF BridgeNext, DrainStep

(* The bridge's cursor passes a person's line only when the server answered   *)
(* for it, and the bridge leaves a file, or closes a session over one, only   *)
(* when all behind it is answered for or a gap stands for it: whatever dies,  *)
(* is lost or replaced between the read, the post and the commit, the batch a *)
(* drain carries still goes on from the row's cursor.                         *)
THEOREM NoTurnIsSkipped == BridgeSpec => NoTurnPassedOver
<1>1. BridgeInv => PassedAnswered
  BY DEF BridgeInv
<1>2. BridgeInv /\ [BridgeNext]_bridgeVars =>
        [session'.known /\ session.inode # 0 /\ session'.inode # session.inode
            => GapKey(session.cursor) \in answered]_bridgeVars
  BY BridgeStep DEF RowMoves
<1>3. BridgeInv /\ [BridgeNext]_bridgeVars =>
        [session'.closed /\ ~session.closed =>
            IF transcript.where = "present"
            THEN session'.cursor = transcript.size /\ session'.inode = transcript.inode
            ELSE GapKey(session.cursor) \in answered]_bridgeVars
  BY BridgeStep DEF RowMoves
<1>4. BridgeInv /\ [BridgeNext]_bridgeVars => BridgeInv'
  BY BridgeStep
<1> QED
  BY <1>1, <1>2, <1>3, <1>4, BridgeInitially, PTL
  DEF BridgeSpec, NoTurnPassedOver, PassedAnswered
=============================================================================
