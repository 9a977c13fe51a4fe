----------------------------- MODULE MCServices -----------------------------
(***************************************************************************)
(* Instances for TLC of parts that must keep something from ever           *)
(* happening: the due-work index, keyed calls, connector grants, the       *)
(* workspace lifecycle, the job feed's connection and the engine cache.    *)
(* They share no variable, so a behaviour moves one of them, chosen at the *)
(* start, and the state space is the sum of theirs.                        *)
(***************************************************************************)
EXTENDS MCWorkIndex, KeyedCalls, ConnectorGrants, Workspaces, JobFeed, EnginePool

VARIABLE part

servicesVars == <<vars, keyedVars, connectorVars, workspaceVars, feedVars, poolVars, part>>

ServicesInit ==
    /\ part \in {"index", "keyed", "connector", "workspaces", "feed", "engines"}
    /\ Init /\ KeyedInit /\ ConnectorInit /\ WorkspacesInit /\ JobFeedInit /\ EnginePoolInit

ServicesNext ==
    /\ part' = part
    /\ \/ /\ part = "index" /\ Next
          /\ UNCHANGED <<keyedVars, connectorVars, workspaceVars, feedVars, poolVars>>
       \/ /\ part = "keyed" /\ KeyedNext
          /\ UNCHANGED <<vars, connectorVars, workspaceVars, feedVars, poolVars>>
       \/ /\ part = "connector" /\ ConnectorNext
          /\ UNCHANGED <<vars, keyedVars, workspaceVars, feedVars, poolVars>>
       \/ /\ part = "workspaces" /\ WorkspacesNext
          /\ UNCHANGED <<vars, keyedVars, connectorVars, feedVars, poolVars>>
       \/ /\ part = "feed" /\ JobFeedNext
          /\ UNCHANGED <<vars, keyedVars, connectorVars, workspaceVars, poolVars>>
       \/ /\ part = "engines" /\ EnginePoolNext
          /\ UNCHANGED <<vars, keyedVars, connectorVars, workspaceVars, feedVars>>

ServicesSpec == ServicesInit /\ [][ServicesNext]_servicesVars
=============================================================================
