-------------------------- MODULE MCAutomaticMemory --------------------------
(***************************************************************************)
(* Instances of the three parts of automatic memory for TLC: the laptop's  *)
(* bridge, the server's evidence drain and the retention schedule.  They   *)
(* share no variable, so a behaviour moves one of them, chosen at the      *)
(* start, and the state space is the sum of theirs.                        *)
(***************************************************************************)
EXTENDS Bridge, EvidenceDrain, Schedules

VARIABLE part

memoryVars == <<bridgeVars, evidenceVars, schedulesVars, part>>

MemoryInit ==
    /\ part \in {"bridge", "evidence", "schedules"}
    /\ BridgeInit /\ EvidenceDrainInit /\ SchedulesInit

MemoryNext ==
    /\ part' = part
    /\ \/ part = "bridge" /\ BridgeNext /\ UNCHANGED <<evidenceVars, schedulesVars>>
       \/ part = "evidence" /\ EvidenceDrainNext /\ UNCHANGED <<bridgeVars, schedulesVars>>
       \/ part = "schedules" /\ SchedulesNext /\ UNCHANGED <<bridgeVars, evidenceVars>>

\* No fair action of a part is enabled in its initial states.
MemoryFairness == BridgeFairness /\ EvidenceDrainFairness /\ SchedulesFairness

MemorySpec == MemoryInit /\ [][MemoryNext]_memoryVars /\ MemoryFairness

MCLineKind == <<"turn", "turn">>
MCAgeing   == {<<1, 1>>}
=============================================================================
