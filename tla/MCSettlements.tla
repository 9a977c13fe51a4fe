---------------------------- MODULE MCSettlements ---------------------------
(***************************************************************************)
(* Instances for TLC of parts in which something is held while work goes   *)
(* on outside the database: external actions and their continuations,      *)
(* approved erasure with its exports, the scoring of jobs and the drafting *)
(* of proposals, whose workers claim a row, act and settle it under        *)
(* fairness.  They share no variable, so a behaviour moves one of them,    *)
(* chosen at the start, and the state space is the sum of theirs.          *)
(***************************************************************************)
EXTENDS ExternalActions, Erasure, JobScoring, Proposals

VARIABLE part

settlementVars == <<vars, erasureVars, scoringVars, proposalVars, part>>

SettlementsInit ==
    /\ part \in {"external", "erasure", "scoring", "proposals"}
    /\ Init /\ ErasureInit /\ JobScoringInit /\ ProposalsInit
    /\ part # "external" => \A k \in Keys : destination[k].provider
    /\ part # "proposals" => \A j \in Openings : proposal[j] = NoRequestRow

SettlementsNext ==
    /\ part' = part
    /\ \/ /\ part = "external" /\ Next
          /\ UNCHANGED <<erasureVars, scoringVars, proposalVars>>
       \/ /\ part = "erasure" /\ ErasureNext
          /\ UNCHANGED <<vars, scoringVars, proposalVars>>
       \/ /\ part = "scoring" /\ JobScoringNext
          /\ UNCHANGED <<vars, erasureVars, proposalVars>>
       \/ /\ part = "proposals" /\ ProposalsNext
          /\ UNCHANGED <<vars, erasureVars, scoringVars>>

\* No fair action of a part is enabled in its initial states.
SettlementsSpec ==
    SettlementsInit /\ [][SettlementsNext]_settlementVars
    /\ Fairness /\ ErasureFairness /\ JobScoringFairness /\ ProposalsFairness
=============================================================================
