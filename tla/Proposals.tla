------------------------------ MODULE Proposals ------------------------------
(***************************************************************************)
(* Drafting proposals and pricing them (modules/leads/src/rheo_leads/      *)
(* proposals: job.py, pricing_job.py, pricing_store.py, operations.py,     *)
(* pricing_operations.py).                                                 *)
(*                                                                         *)
(* Members request, edit and delete drafts and request and edit            *)
(* milestones.  A sweep takes the priced requests first and the drafts     *)
(* after, one at a time: it claims a row, asks the model with no           *)
(* transaction open, and records the outcome if the row is still its       *)
(* claim.  A draft waits behind its job's pricing, and may write a first   *)
(* schedule of its own.                                                    *)
(*                                                                         *)
(* What a model answers is any outcome; the profile, the questions and the *)
(* mode do not move a row.  A sweep is triggered by the half-hour schedule *)
(* at the latest; requests and follow-ups that make it sooner are left     *)
(* out.                                                                    *)
(***************************************************************************)
EXTENDS Naturals, FiniteSets

CONSTANTS
    Openings,        \* the jobs proposals are drafted for
    Drafters,        \* worker processes that run leads.jobsearch_propose
    DraftAttempts,   \* the attempt that marks a request failed
    MaxDraftActs,    \* bound on what members do
    MaxDraftFaults   \* bound on deaths, stalls and deferrals

ASSUME ProposalsAssumption ==
    /\ IsFiniteSet(Openings) /\ IsFiniteSet(Drafters)
    /\ DraftAttempts \in Nat \ {0} /\ {MaxDraftActs, MaxDraftFaults} \subseteq Nat

VARIABLES
    proposal,     \* job_proposal
    pricing,      \* job_pricing
    sections,     \* proposal_section: the request they answer, whether they were edited
    milestones,   \* proposal_milestone: who wrote the rows last, "none" without any
    drafter,      \* where each sweep stands
    draftActs,    \* what members did so far
    draftFaults

proposalVars == <<proposal, pricing, sections, milestones, drafter, draftActs, draftFaults>>
-----------------------------------------------------------------------------
\* "working" is a draft's drafting and a pricing's running; waiting, that retry_after
\* is ahead; forced is kept for OwnersWorkStands alone.
DraftStates == {"none", "idle", "queued", "working", "ready", "failed"}
BusyStates  == {"queued", "working"}

\* Requests are told apart by their time; 1 is that of a draft there from the start.
DraftTimes == 0..(MaxDraftActs + 1)
DraftTime  == draftActs + 2

NoRequestRow  == [state |-> "none", waiting |-> FALSE, attempts |-> 0, request |-> 0,
                  forced |-> FALSE]
RequestRow(time, forced) ==
    [state |-> "queued", waiting |-> FALSE, attempts |-> 0, request |-> time,
     forced |-> forced]
NoSections  == [answers |-> 0, edited |-> FALSE]
\* moved: the job's pricing changed since the claim; rows: it had milestones then.
IdleDrafter == [at |-> "idle", worked |-> FALSE, opening |-> "none", request |-> 0,
                attempts |-> 0, moved |-> FALSE, rows |-> FALSE]

ProposalsTypeOK ==
    /\ {proposal, pricing} \subseteq
         [Openings -> [state : DraftStates, waiting : BOOLEAN, attempts : 0..DraftAttempts,
                       request : DraftTimes, forced : BOOLEAN]]
    /\ sections \in [Openings -> [answers : DraftTimes, edited : BOOLEAN]]
    /\ milestones \in [Openings -> {"none", "pricing", "draft", "owner"}]
    /\ drafter \in [Drafters ->
         [at : {"idle", "pricing", "asking", "drafts", "writing"}, worked : BOOLEAN,
          opening : Openings \cup {"none"}, request : DraftTimes,
          attempts : 0..DraftAttempts, moved : BOOLEAN, rows : BOOLEAN]]
    /\ draftActs \in 0..MaxDraftActs /\ draftFaults \in 0..MaxDraftFaults

\* A job starts without a draft, or with one its owner edited.
ProposalsInit ==
    /\ \E drafted \in SUBSET Openings :
         /\ proposal = [j \in Openings |->
              IF j \in drafted
              THEN [RequestRow(1, FALSE) EXCEPT !.state = "ready", !.attempts = 1]
              ELSE NoRequestRow]
         /\ sections = [j \in Openings |->
              IF j \in drafted THEN [answers |-> 1, edited |-> TRUE] ELSE NoSections]
    /\ pricing = [j \in Openings |-> NoRequestRow]
    /\ milestones = [j \in Openings |-> "none"]
    /\ drafter = [w \in Drafters |-> IdleDrafter]
    /\ draftActs = 0 /\ draftFaults = 0

DraftAct   == draftActs < MaxDraftActs /\ draftActs' = draftActs + 1 /\ UNCHANGED draftFaults
DraftFault == draftFaults < MaxDraftFaults /\ draftFaults' = draftFaults + 1
              /\ UNCHANGED draftActs
DraftStep  == UNCHANGED <<draftActs, draftFaults>>
-----------------------------------------------------------------------------
(* Rows of either table.                                                     *)

Lapsed(row) == row.state = "working" /\ ~row.waiting

\* A lapsed claim that used its attempts is failed by whoever claims next.
WithoutSpent(table) ==
    [j \in Openings |-> IF Lapsed(table[j]) /\ table[j].attempts >= DraftAttempts
                        THEN [table[j] EXCEPT !.state = "failed"] ELSE table[j]]

\* Mutant of Due: a claim whose holder died is not taken again.
DueQueued(row) == row.state = "queued" /\ ~row.waiting

\* The part of _claimable that both tables share.
Due(row) == row.state \in BusyStates /\ ~row.waiting

\* The oldest request of a set that is claimed: counted, and held for the window.
Oldest(table, S) == CHOOSE j \in S : \A i \in S : table[j].request <= table[i].request
Claimed(row)     == [row EXCEPT !.state = "working", !.waiting = TRUE,
                                !.attempts = @ + 1]

\* Mutant of Mine: which request the claim answers is not looked at.
MineByAttempts(w, row) ==
    row.state = "working" /\ row.attempts = drafter[w].attempts

\* _mine.
Mine(w, row) ==
    /\ row.state = "working" /\ row.request = drafter[w].request
    /\ row.attempts = drafter[w].attempts

\* record_failure: a backoff, or the end.
Failed(row) ==
    IF row.attempts >= DraftAttempts THEN [row EXCEPT !.state = "failed", !.waiting = FALSE]
    ELSE [row EXCEPT !.state = "queued", !.waiting = TRUE]

\* record_wait: the attempt is given back, and every queued request waits with it.
DeferredRows(table, k) ==
    [j \in Openings |->
       IF j = k THEN [table[j] EXCEPT !.state = "queued", !.waiting = TRUE,
                                      !.attempts = IF @ = 0 THEN 0 ELSE @ - 1]
       ELSE IF table[j].state = "queued" THEN [table[j] EXCEPT !.waiting = TRUE]
       ELSE table[j]]

\* The sweep w moves on, and drafts in flight will find their pricing changed.
Goes(w, next, rows) ==
    LET d == [drafter EXCEPT ![w] = next] IN
    /\ pricing' = rows
    /\ drafter' = [v \in Drafters |->
         IF d[v].at = "writing" /\ rows[d[v].opening] # pricing[d[v].opening]
         THEN [d[v] EXCEPT !.moved = TRUE] ELSE d[v]]

Stands(at)  == [IdleDrafter EXCEPT !.at = at, !.worked = TRUE]
DraftEnds(w) == drafter' = [drafter EXCEPT ![w] = IdleDrafter]
-----------------------------------------------------------------------------
(* The members.                                                              *)

\* request: not while a draft is prepared, unless its holder's window lapsed, and only
\* by force over an edited draft.
RequestDraft(j, force) ==
    /\ proposal[j].state \notin BusyStates \/ Lapsed(proposal[j])
    /\ force \/ ~sections[j].edited
    /\ DraftAct /\ proposal' = [proposal EXCEPT ![j] = RequestRow(DraftTime, force)]
    /\ UNCHANGED <<pricing, sections, milestones, drafter>>

\* set_section, update_draft, use_library.
EditDraft(j) ==
    /\ sections[j].answers # 0 /\ proposal[j].state \notin BusyStates
    /\ DraftAct /\ sections' = [sections EXCEPT ![j].edited = TRUE]
    /\ UNCHANGED <<proposal, pricing, milestones, drafter>>

\* delete_draft.
DeleteDraft(j) ==
    /\ proposal[j].state # "none" /\ DraftAct
    /\ proposal' = [proposal EXCEPT ![j].state = "idle", ![j].waiting = FALSE,
                                    ![j].attempts = 0]
    /\ sections' = [sections EXCEPT ![j] = NoSections]
    /\ UNCHANGED <<pricing, milestones, drafter>>

\* The pricing request; a lapsed claim still refuses it.
RequestPricing(j) ==
    /\ pricing[j].state \notin BusyStates /\ DraftAct
    /\ LET rows == [pricing EXCEPT ![j] = RequestRow(DraftTime, FALSE)] IN
       /\ pricing' = rows
       /\ drafter' = [v \in Drafters |->
            IF drafter[v].at = "writing" /\ drafter[v].opening = j
            THEN [drafter[v] EXCEPT !.moved = TRUE] ELSE drafter[v]]
    /\ UNCHANGED <<proposal, sections, milestones>>

\* set_milestone.
EditMilestone(j) ==
    /\ milestones[j] # "none" /\ pricing[j].state \notin BusyStates
    /\ DraftAct /\ milestones' = [milestones EXCEPT ![j] = "owner"]
    /\ UNCHANGED <<proposal, pricing, sections, drafter>>
-----------------------------------------------------------------------------
(* A sweep: price_all, then the drafts; one with nothing to do is left out.  *)

BeginDrafting(w) ==
    /\ drafter[w].at = "idle" /\ DraftStep
    /\ \E j \in Openings : BusyStates \cap {proposal[j].state, pricing[j].state} # {}
    /\ drafter' = [drafter EXCEPT ![w].at = "pricing"]
    /\ UNCHANGED <<proposal, pricing, sections, milestones>>

\* pricing_job.claim; with nothing to price the drafts are next.
ClaimPricing(w) ==
    LET table == WithoutSpent(pricing)
        due   == {j \in Openings : Due(table[j])}
        j     == Oldest(table, due)
    IN
    /\ drafter[w].at = "pricing" /\ DraftStep
    /\ IF due = {} THEN Goes(w, [drafter[w] EXCEPT !.at = "drafts"], table)
       ELSE Goes(w, [IdleDrafter EXCEPT !.at = "asking", !.opening = j,
                       !.request = table[j].request, !.attempts = table[j].attempts + 1],
                 [table EXCEPT ![j] = Claimed(@)])
    /\ UNCHANGED <<proposal, sections, milestones>>

\* A schedule, or that the posting is too vague for one, which clears the rows.
RecordSchedule(w) ==
    LET j == drafter[w].opening IN
    /\ Goes(w, Stands("pricing"), [pricing EXCEPT ![j].state = "ready", ![j].waiting = FALSE])
    /\ \E rows \in {"pricing", "none"} : milestones' = [milestones EXCEPT ![j] = rows]

\* What price_one came back with; a deferral ends the pricing of this sweep.
RecordPricing(w) ==
    LET j == drafter[w].opening IN
    /\ drafter[w].at = "asking"
    /\ IF ~Mine(w, pricing[j])
       THEN /\ \E at \in {"pricing", "drafts"} : Goes(w, Stands(at), pricing)
            /\ DraftStep /\ UNCHANGED milestones
       ELSE \/ RecordSchedule(w) /\ DraftStep
            \/ Goes(w, Stands("pricing"), [pricing EXCEPT ![j] = Failed(@)])
               /\ DraftStep /\ UNCHANGED milestones
            \/ Goes(w, Stands("drafts"), DeferredRows(pricing, j))
               /\ DraftFault /\ UNCHANGED milestones
    /\ UNCHANGED <<proposal, sections>>

\* claim: the oldest draft whose job is not being priced.
ClaimDraft(w) ==
    LET table == WithoutSpent(proposal)
        due   == {j \in Openings : Due(table[j]) /\ pricing[j].state \notin BusyStates}
        j     == Oldest(table, due)
    IN
    /\ drafter[w].at = "drafts" /\ DraftStep
    /\ IF due = {} THEN DraftEnds(w) /\ proposal' = table
       ELSE /\ proposal' = [table EXCEPT ![j] = Claimed(@)]
            /\ drafter' = [drafter EXCEPT ![w] = [IdleDrafter EXCEPT !.at = "writing",
                 !.opening = j, !.request = table[j].request,
                 !.attempts = table[j].attempts + 1, !.rows = milestones[j] # "none"]]
    /\ UNCHANGED <<pricing, sections, milestones>>

\* _write_priced's test: the pricing is as the draft found it, without milestones.
StillUnpriced(w) == ~drafter[w].moved /\ milestones[drafter[w].opening] = "none"

\* The schedule of a draft that found no milestones: written, or lost to a newer one.
\* One step: with no job_pricing row there is nothing _write_priced locks, and a first
\* pricing request that commits between its read and its upsert is overwritten to
\* ready; that loss is left out.
WriteSchedule(w) ==
    LET j == drafter[w].opening IN
    /\ ~drafter[w].rows
    /\ IF StillUnpriced(w)
       THEN /\ Goes(w, Stands("drafts"),
                    [pricing EXCEPT ![j].state = "ready", ![j].waiting = FALSE])
            /\ \E rows \in {"draft", "none"} : milestones' = [milestones EXCEPT ![j] = rows]
       ELSE Goes(w, Stands("drafts"), pricing) /\ UNCHANGED milestones

RecordDraft(w) ==
    LET j == drafter[w].opening IN
    /\ proposal' = [proposal EXCEPT ![j].state = "ready", ![j].waiting = FALSE]
    /\ sections' = [sections EXCEPT ![j] = [answers |-> drafter[w].request, edited |-> FALSE]]
    /\ WriteSchedule(w) \/ (Goes(w, Stands("drafts"), pricing) /\ UNCHANGED milestones)

\* What _draft_one came back with; a deferral ends the sweep.
RecordOutcome(w) ==
    LET j == drafter[w].opening IN
    /\ drafter[w].at = "writing"
    /\ \/ /\ ~Mine(w, proposal[j]) /\ DraftStep
          /\ \E next \in {Stands("drafts"), IdleDrafter} : Goes(w, next, pricing)
          /\ UNCHANGED <<proposal, sections, milestones>>
       \/ Mine(w, proposal[j]) /\ RecordDraft(w) /\ DraftStep
       \/ /\ Mine(w, proposal[j]) /\ UNCHANGED <<pricing, sections, milestones>>
          /\ \/ /\ proposal' = [proposal EXCEPT ![j] = Failed(@)] /\ DraftStep
                /\ drafter' = [drafter EXCEPT ![w] = Stands("drafts")]
             \/ proposal' = DeferredRows(proposal, j) /\ DraftEnds(w) /\ DraftFault

\* RUN_BUDGET, which no sweep reaches before its first claim.
TimeIsUp(w) ==
    /\ drafter[w].at \in {"pricing", "drafts"} /\ drafter[w].worked
    /\ DraftEnds(w) /\ DraftStep
    /\ UNCHANGED <<proposal, pricing, sections, milestones>>

\* progress, renew and hold: another window, though the last may have lapsed.
Renew(w) ==
    LET j == drafter[w].opening IN
    /\ \/ /\ drafter[w].at = "writing" /\ Mine(w, proposal[j]) /\ Lapsed(proposal[j])
          /\ proposal' = [proposal EXCEPT ![j].waiting = TRUE] /\ UNCHANGED pricing
       \/ /\ drafter[w].at = "asking" /\ Mine(w, pricing[j]) /\ Lapsed(pricing[j])
          /\ pricing' = [pricing EXCEPT ![j].waiting = TRUE] /\ UNCHANGED proposal
    /\ DraftStep /\ UNCHANGED <<sections, milestones, drafter>>

DrafterDies(w) ==
    /\ drafter[w].at # "idle" /\ DraftEnds(w) /\ DraftFault
    /\ UNCHANGED <<proposal, pricing, sections, milestones>>

\* A wait is over; a claim's window outlasts a live call, so only a stall lets it lapse.
Elapses(at, row) ==
    /\ row.waiting
    /\ IF \E w \in Drafters : drafter[w].at = at /\ Mine(w, row) THEN DraftFault ELSE DraftStep

DraftWaitElapses(j) ==
    /\ Elapses("writing", proposal[j])
    /\ proposal' = [proposal EXCEPT ![j].waiting = FALSE]
    /\ UNCHANGED <<pricing, sections, milestones, drafter>>

PricingWaitElapses(j) ==
    /\ Elapses("asking", pricing[j])
    /\ pricing' = [pricing EXCEPT ![j].waiting = FALSE]
    /\ UNCHANGED <<proposal, sections, milestones, drafter>>
-----------------------------------------------------------------------------
DraftingStep(w) ==
    BeginDrafting(w) \/ ClaimPricing(w) \/ RecordPricing(w) \/ ClaimDraft(w)
    \/ RecordOutcome(w) \/ TimeIsUp(w)

ProposalsNext ==
    \/ \E j \in Openings :
         \/ \E force \in BOOLEAN : RequestDraft(j, force)
         \/ EditDraft(j) \/ DeleteDraft(j) \/ RequestPricing(j) \/ EditMilestone(j)
         \/ DraftWaitElapses(j) \/ PricingWaitElapses(j)
    \/ \E w \in Drafters : DraftingStep(w) \/ Renew(w) \/ DrafterDies(w)

\* The schedule keeps starting sweeps, a live sweep goes on, and waits elapse.
ProposalsFairness ==
    /\ \A w \in Drafters : WF_proposalVars(DraftingStep(w))
    /\ \A j \in Openings : /\ WF_proposalVars(DraftWaitElapses(j))
                           /\ WF_proposalVars(PricingWaitElapses(j))

ProposalsSpec == ProposalsInit /\ [][ProposalsNext]_proposalVars /\ ProposalsFairness
-----------------------------------------------------------------------------
(* "A record only lands on the request it answers": a sweep's sections answer *)
(* the request that stands, and replace edited ones only if that was forced;  *)
(* milestones that are there are replaced by a running pricing or edited, but *)
(* never by a draft (_mine, request, _write_priced).                          *)
OwnersWorkStands ==
    [][\A j \in Openings :
         /\ sections'[j] # sections[j] /\ ~sections'[j].edited /\ sections'[j].answers # 0
              => /\ sections'[j].answers = proposal[j].request
                 /\ sections[j].edited => proposal[j].forced
         /\ milestones[j] # "none" /\ milestones'[j] # milestones[j]
              => milestones'[j] = "owner" \/ pricing[j].state = "working"]_proposalVars

(* "A proposal never simply disappears": every request for a draft or for its *)
(* milestones ends ready, failed or deleted, through deaths, stalls, deferrals *)
(* and claims that lapse, although a draft waits behind a pricing (_claimable, *)
(* claim, follow_up_at).                                                      *)
EveryRequestEnds ==
    \A j \in Openings :
      /\ proposal[j].state \in BusyStates ~> proposal[j].state \notin BusyStates
      /\ pricing[j].state \in BusyStates ~> pricing[j].state \notin BusyStates
=============================================================================
