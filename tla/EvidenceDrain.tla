---------------------------- MODULE EvidenceDrain ----------------------------
(***************************************************************************)
(* The server side of automatic memory for the turns of one enrollment:    *)
(* recorded evidence becomes a memory, a gap or a refusal.  The evidence   *)
(* rows and the service that claims and settles them                       *)
(* (packages/core/src/rheo_core/evidence: record.py, service.py,           *)
(* local_authority.py, enrollment.py, retention.py), the drain job that    *)
(* runs one transaction around the model call, and the seam it accepts     *)
(* through (modules/recallatron/src/rheo_recallatron: automatic.py,        *)
(* source_units.py).                                                       *)
(*                                                                         *)
(* A drain holds its rows' locks, and a share of the enrollment row's,     *)
(* from its claim to its commit; acceptance to commit is one step, since   *)
(* the workspace lifecycle lock serialises it with erasure.                *)
(***************************************************************************)
EXTENDS Naturals, FiniteSets

CONSTANTS
    Turns,          \* the enrollment's records, by native key, 1 the oldest
    Drainers,       \* workers that run drain jobs
    NoDrainer,      \* a row nobody locks
    UnitsPerJob,    \* evidence.max_units_per_job
    ExtractionAttempts, \* EXTRACTION_MAX_ATTEMPTS
    MaxDrains,      \* bound on drain jobs queued at once
    MaxEvidenceFaults \* bound on failed drains, extractions and acceptances, on
                    \* records sent again after their row was purged, and on changes of
                    \* the enrollment, the gate, a memory or a row's window

ASSUME EvidenceDrainAssumption ==
    /\ NoDrainer \notin Drainers /\ Turns \subseteq Nat /\ IsFiniteSet(Turns)
    /\ UnitsPerJob \in Nat \ {0} /\ ExtractionAttempts \in Nat \ {0}
    /\ MaxDrains \in Nat \ {0} /\ MaxEvidenceFaults \in Nat

VARIABLES
    unit,           \* the evidence_unit rows: state, attempts, waiting, expired, lock
    receipt,        \* the module's source receipts
    memories,       \* memories ever written from each turn
    enrollment,     \* live, dead (an active row whose token is revoked), revoked
    recorded,       \* a delivery of the evidence-recorded event is in flight
    drains,         \* drain jobs due now
    followUp,       \* a drain job due at a row's retry_after
    drainer,        \* the claim each worker's transaction holds
    evidenceGate,   \* opted in, a provider, an enabled subscriber
    evidenceFaults

evidenceVars == <<unit, receipt, memories, enrollment, recorded, drains, followUp,
                  drainer, evidenceGate, evidenceFaults>>
-----------------------------------------------------------------------------
NoUnit  == [state |-> "none", attempts |-> 0, waiting |-> FALSE, expired |-> FALSE,
            lock |-> NoDrainer]
NoClaim == [rows |-> {}, verified |-> {}, more |-> FALSE, shared |-> FALSE, at |-> "idle"]

EvidenceDrainTypeOK ==
    /\ unit \in [Turns -> [state : {"none", "purged", "pending", "active", "refused", "gap"},
                           attempts : 0..ExtractionAttempts, waiting : BOOLEAN,
                           expired : BOOLEAN, lock : Drainers \cup {NoDrainer}]]
    /\ receipt \in [Turns -> {"none", "active", "denied", "erased"}]
    /\ memories \in [Turns -> Nat] /\ enrollment \in {"live", "dead", "revoked"}
    /\ drains \in 0..MaxDrains
    /\ recorded \in BOOLEAN /\ followUp \in BOOLEAN /\ evidenceGate \in BOOLEAN
    /\ drainer \in [Drainers -> [rows : SUBSET Turns, verified : SUBSET Turns,
                                 more : BOOLEAN, shared : BOOLEAN,
                                 at : {"idle", "claimed"}]]
    /\ evidenceFaults \in 0..MaxEvidenceFaults

EvidenceDrainInit ==
    /\ unit = [u \in Turns |-> NoUnit] /\ receipt = [u \in Turns |-> "none"]
    /\ memories = [u \in Turns |-> 0] /\ enrollment = "live" /\ recorded = FALSE
    /\ drains = 0 /\ followUp = FALSE /\ drainer = [d \in Drainers |-> NoClaim]
    /\ evidenceGate = TRUE /\ evidenceFaults = 0

Faulty == evidenceFaults < MaxEvidenceFaults /\ evidenceFaults' = evidenceFaults + 1
-----------------------------------------------------------------------------
(* Recording, and the event that asks for a drain.                           *)

\* ingest_handler and record_evidence: an active enrollment, a live token, the gate
\* open.  A key that is held writes nothing; a record too large is held as a gap.
RecordEvidence(u) ==
    /\ enrollment = "live" /\ evidenceGate
    /\ \/ unit[u].state = "none" /\ UNCHANGED evidenceFaults
       \/ unit[u].state = "purged" /\ Faulty
    /\ \E s \in {"pending", "gap"} : unit' = [unit EXCEPT ![u] = [NoUnit EXCEPT !.state = s]]
    /\ recorded' = TRUE
    /\ UNCHANGED <<receipt, memories, enrollment, drains, followUp, drainer, evidenceGate>>

OnEvidenceRecorded ==
    /\ recorded /\ drains < MaxDrains
    /\ recorded' = FALSE /\ drains' = drains + 1
    /\ UNCHANGED <<unit, receipt, memories, enrollment, followUp, drainer, evidenceGate,
                   evidenceFaults>>

Shared == \E d \in Drainers : drainer[d].shared

\* revoke_handler and rotate_handler, waiting for the enrollment's row: the token goes
\* first and commits alone, so a failed commit leaves an active row and a dead token.
RevokeEnrollment ==
    /\ enrollment # "revoked" /\ ~Shared /\ Faulty
    /\ enrollment' \in {"revoked", "dead"} \ {enrollment}
    /\ UNCHANGED <<unit, receipt, memories, recorded, drains, followUp, drainer,
                   evidenceGate>>

RotateEnrollment ==
    /\ enrollment # "revoked" /\ ~Shared /\ Faulty
    /\ enrollment' \in {"live", "dead"} \ {enrollment}
    /\ UNCHANGED <<unit, receipt, memories, recorded, drains, followUp, drainer,
                   evidenceGate>>

SetEvidenceGate ==
    /\ evidenceGate' = ~evidenceGate /\ Faulty
    /\ UNCHANGED <<unit, receipt, memories, enrollment, recorded, drains, followUp,
                   drainer>>
-----------------------------------------------------------------------------
(* The drain: claim, extract, accept, settle and follow up in one transaction. *)

Claimable == {u \in Turns : unit[u].state = "pending" /\ ~unit[u].waiting}
Waiting   == {u \in Turns : unit[u].state = "pending" /\ unit[u].waiting}
Unlocked  == {u \in Turns : unit[u].lock = NoDrainer}
PastDue   == {u \in Turns : unit[u].state = "pending" /\ unit[u].expired}

\* Claim order: the least tried first, then the oldest.
Before(u, v) ==
    \/ unit[u].attempts < unit[v].attempts
    \/ unit[u].attempts = unit[v].attempts /\ u < v

Claim ==
    LET free == (Claimable \ PastDue) \cap Unlocked IN
    {u \in free : Cardinality({v \in free : Before(v, u)}) < UnitsPerJob}

\* Mutant of Verified: the enrollment's row is read and not locked.
VerifiedUnlocked(d, rows) ==
    /\ drainer' = [drainer EXCEPT ![d] =
         [rows |-> rows, verified |-> IF enrollment = "live" THEN rows ELSE {},
          more |-> (Claimable \cap Unlocked) \ rows # {}, shared |-> FALSE,
          at |-> "claimed"]]

\* Each row's authority, before the model sees it: FOR SHARE on the enrollment's row.
Verified(d, rows) ==
    /\ drainer' = [drainer EXCEPT ![d] =
         [rows |-> rows, verified |-> IF enrollment = "live" THEN rows ELSE {},
          more |-> (Claimable \cap Unlocked) \ rows # {}, shared |-> rows # {},
          at |-> "claimed"]]

\* Rows past their window are aged first; they too stay locked to the commit.
ClaimUnits(d) ==
    /\ drainer[d].at = "idle" /\ drains > 0 /\ drains' = drains - 1
    /\ Verified(d, Claim)
    /\ unit' = [u \in Turns |-> IF u \in Claim \cup (PastDue \cap Unlocked)
                                THEN [unit[u] EXCEPT !.lock = d] ELSE unit[u]]
    /\ UNCHANGED <<receipt, memories, enrollment, recorded, followUp, evidenceGate,
                   evidenceFaults>>

Mine(d) == {u \in Turns : unit[u].lock = d}

\* _back_off: an attempt more, or a gap at the limit.
BackedOff(row) ==
    IF row.attempts + 1 < ExtractionAttempts
    THEN [row EXCEPT !.attempts = @ + 1, !.waiting = TRUE]
    ELSE [row EXCEPT !.attempts = @ + 1, !.state = "gap"]

\* What the drain writes for its rows, given what became of the verified ones.
Written(d, outcome) ==
    unit' = [u \in Turns |->
      IF u \notin Mine(d) THEN unit[u]
      ELSE [(IF u \in drainer[d].verified THEN outcome[u]
             ELSE IF u \in drainer[d].rows THEN [unit[u] EXCEPT !.state = "refused"]
             ELSE [unit[u] EXCEPT !.state = "gap"]) EXCEPT !.lock = NoDrainer]]

\* Now while claimable work remains, else at the earliest retry; an empty claim only
\* follows up waiting rows that no other drain holds.
FollowUp(d, deferred) ==
    LET empty == drainer[d].rows = {}
        now   == ~empty /\ (deferred \/ drainer[d].more \/ (Claimable \ Mine(d)) # {})
        later == Waiting \cup (drainer[d].rows \cap {u \in Turns : unit'[u].waiting
                                                  /\ unit'[u].state = "pending"})
    IN /\ drains' = IF now /\ drains < MaxDrains THEN drains + 1 ELSE drains
       /\ followUp' = (followUp \/ (~now /\ (IF empty THEN later \cap Unlocked
                                              ELSE later) # {}))

Released(d) == drainer' = [drainer EXCEPT ![d] = NoClaim]

\* The call failed, or was deferred without counting an attempt.
ExtractionFails(d) ==
    /\ drainer[d].at = "claimed" /\ drainer[d].verified # {} /\ Faulty
    /\ \/ Written(d, [u \in Turns |-> BackedOff(unit[u])])
       \/ Written(d, [u \in Turns |-> [unit[u] EXCEPT !.waiting = TRUE]])
    /\ FollowUp(d, FALSE) /\ Released(d)
    /\ UNCHANGED <<receipt, memories, enrollment, recorded, evidenceGate>>

\* Mutant of Accepted: a held receipt is not looked up.
AcceptedAgain(u) == {[state |-> "active", receipt |-> "active", wrote |-> 1]}

\* accept_source_unit: an active receipt replays its memory while the payload's digest
\* and the memory's row still answer for it, any other is unavailable; a new unit is
\* written, or denied for what it is.
Accepted(u) ==
    CASE receipt[u] = "active" -> {[state |-> "active", receipt |-> "active", wrote |-> 0],
                                   [state |-> "refused", receipt |-> "active", wrote |-> 0]}
      [] receipt[u] = "none"   -> {[state |-> "active", receipt |-> "active", wrote |-> 1],
                                   [state |-> "refused", receipt |-> "denied", wrote |-> 0]}
      [] OTHER -> {[state |-> "refused", receipt |-> receipt[u], wrote |-> 0]}

\* Every verified unit is accepted or refused, and settled, with its receipt.
DrainCommits(d) ==
    LET mine == drainer[d].verified IN
    /\ drainer[d].at = "claimed"
    /\ \E outcome \in [mine -> UNION {Accepted(u) : u \in mine}] :
         /\ \A u \in mine : outcome[u] \in Accepted(u)
         /\ Written(d, [u \in mine |-> [unit[u] EXCEPT !.state = outcome[u].state]])
         /\ receipt' = [u \in Turns |-> IF u \in mine THEN outcome[u].receipt
                                        ELSE receipt[u]]
         /\ memories' = [u \in Turns |-> IF u \in mine THEN memories[u] + outcome[u].wrote
                                         ELSE memories[u]]
    /\ FollowUp(d, FALSE) /\ Released(d)
    /\ UNCHANGED <<enrollment, recorded, evidenceGate, evidenceFaults>>

\* The database refuses the verified units' writes: their savepoints roll back and each
\* is deferred; the drain goes on and commits.
AcceptanceRefused(d) ==
    /\ drainer[d].at = "claimed" /\ drainer[d].verified # {} /\ Faulty
    /\ Written(d, [u \in Turns |-> BackedOff(unit[u])]) /\ FollowUp(d, TRUE) /\ Released(d)
    /\ UNCHANGED <<receipt, memories, enrollment, recorded, evidenceGate>>

\* Any other raise, or a crash, rolls everything back: the job is retried or has failed
\* for good.
DrainRollsBack(d) ==
    /\ drainer[d].at = "claimed" /\ Faulty /\ Released(d)
    /\ unit' = [u \in Turns |-> IF u \in Mine(d) THEN [unit[u] EXCEPT !.lock = NoDrainer]
                                ELSE unit[u]]
    /\ drains' \in {drains, IF drains < MaxDrains THEN drains + 1 ELSE drains}
    /\ UNCHANGED <<receipt, memories, enrollment, recorded, followUp, evidenceGate>>
-----------------------------------------------------------------------------
(* Time, retention and erasure.                                              *)

RetryComesDue(u) ==
    /\ unit[u].waiting /\ unit[u].lock = NoDrainer
    /\ unit' = [unit EXCEPT ![u].waiting = FALSE]
    /\ UNCHANGED <<receipt, memories, enrollment, recorded, drains, followUp, drainer,
                   evidenceGate, evidenceFaults>>

FollowUpComesDue ==
    /\ followUp /\ followUp' = FALSE /\ drains' = IF drains < MaxDrains THEN drains + 1 ELSE drains
    /\ UNCHANGED <<unit, receipt, memories, enrollment, recorded, drainer, evidenceGate,
                   evidenceFaults>>

WindowCloses(u) ==
    /\ unit[u].state = "pending" /\ ~unit[u].expired /\ unit[u].lock = NoDrainer
    /\ Faulty
    /\ unit' = [unit EXCEPT ![u].expired = TRUE]
    /\ UNCHANGED <<receipt, memories, enrollment, recorded, drains, followUp, drainer,
                   evidenceGate>>

\* Mutant of Republish: the sweep leaves a stalled drain alone.
RepublishNever == UNCHANGED recorded

\* republish_for_stalled_drain: claimable rows, and no delivery on its way.
Republish == recorded' = (recorded \/ (evidenceGate /\ \E u \in Turns :
                                         unit'[u].state = "pending" /\ ~unit'[u].waiting))

\* The daily sweep: pending rows past their window become gaps, old settled rows go.
PurgeEvidence ==
    /\ \E gone \in SUBSET {u \in Turns : unit[u].state \in {"active", "refused", "gap"}} :
         unit' = [u \in Turns |->
           IF u \in gone THEN [NoUnit EXCEPT !.state = "purged"]
           ELSE IF u \in PastDue \cap Unlocked THEN [unit[u] EXCEPT !.state = "gap"]
           ELSE unit[u]]
    /\ Republish
    /\ UNCHANGED <<receipt, memories, enrollment, drains, followUp, drainer, evidenceGate,
                   evidenceFaults>>

\* A person erases the memory: its receipt keeps the identity.
EraseMemory(u) ==
    /\ receipt[u] = "active" /\ Faulty
    /\ receipt' = [receipt EXCEPT ![u] = "erased"]
    /\ UNCHANGED <<unit, memories, enrollment, recorded, drains, followUp, drainer,
                   evidenceGate>>
-----------------------------------------------------------------------------
EvidenceDrainNext ==
    \/ OnEvidenceRecorded \/ RevokeEnrollment \/ RotateEnrollment \/ SetEvidenceGate
    \/ FollowUpComesDue \/ PurgeEvidence
    \/ \E u \in Turns : \/ RecordEvidence(u) \/ RetryComesDue(u)
                        \/ WindowCloses(u) \/ EraseMemory(u)
    \/ \E d \in Drainers : \/ ClaimUnits(d) \/ DrainCommits(d) \/ ExtractionFails(d)
                           \/ AcceptanceRefused(d) \/ DrainRollsBack(d)

\* The sweep runs daily, due jobs and deliveries are run, and calls return.
EvidenceDrainFairness ==
    /\ WF_evidenceVars(OnEvidenceRecorded) /\ WF_evidenceVars(FollowUpComesDue)
    /\ WF_evidenceVars(PurgeEvidence)
    /\ WF_evidenceVars(\E d \in Drainers : ClaimUnits(d))
    /\ \A d \in Drainers : WF_evidenceVars(DrainCommits(d))
    /\ \A u \in Turns : WF_evidenceVars(RetryComesDue(u))

EvidenceDrainSpec ==
    EvidenceDrainInit /\ [][EvidenceDrainNext]_evidenceVars /\ EvidenceDrainFairness
-----------------------------------------------------------------------------
(* A turn becomes at most one memory, ever: not when its row is purged and   *)
(* recorded again, when a drain is rolled back after the model answered, or  *)
(* when the memory has been erased; and a row settled active names a memory  *)
(* that was written (source_units.py accept_source_unit, service.py          *)
(* settle_unit).                                                             *)
OneMemoryPerTurn ==
    \A u \in Turns : /\ memories[u] <= 1
                     /\ unit[u].state = "active" => memories[u] = 1

(* No memory is written once the enrollment's revocation has committed, even *)
(* by a drain that verified it before and is waiting for the model           *)
(* (local_authority.py LocalEvidenceAuthority.verify, enrollment.py          *)
(* revoke_handler).                                                          *)
NoMemoryAfterRevocation ==
    [][enrollment = "revoked" => memories' = memories]_evidenceVars

(* While recording stays on, every recorded turn is settled in the end, even *)
(* when its drain has failed for good and whether or not its window closes   *)
(* (record.py republish_for_stalled_drain, service.py claim_units).          *)
RecordedTurnsSettle ==
    <>[]evidenceGate => []<>(\A u \in Turns : unit[u].state # "pending")
=============================================================================
