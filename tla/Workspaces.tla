----------------------------- MODULE Workspaces -----------------------------
(***************************************************************************)
(* The lifecycle of one workspace: the five committed steps that provision *)
(* it, their resumption by repair, a restore from an artifact, and the     *)
(* migration a new build runs (packages/core/src/rheo_core:                *)
(* storage/provisioning.py, storage/control_plane.py, exports/artifact.py  *)
(* restore_artifact, migrations/orchestrator.py).                          *)
(*                                                                         *)
(* Several processes may walk the same workspace: a create and its retry,  *)
(* an operator's repair, the attempts of a restore job.  Each step does    *)
(* its work, then records itself in the registry row, which is what the    *)
(* others read.                                                            *)
(***************************************************************************)
EXTENDS Naturals

CONSTANTS
    Walkers,        \* processes that walk the workspace
    MaxWalks        \* bound on walks ever begun, migrations included

ASSUME WorkspacesAssumption == MaxWalks \in Nat

VARIABLES
    workspace,      \* the control plane's row: state and state_detail (the last step)
    database,       \* what the workspace's database holds, by step
    imported,       \* the restore's export_record is complete, with everything imported
    restore,        \* history: what became of a restore's hold on the workspace
    walker,         \* each process and where it is
    walks

workspaceVars == <<workspace, database, imported, restore, walker, walks>>
-----------------------------------------------------------------------------
\* PROVISION_STEPS: 1 insert the row, 2 create the database, 3 migrate core, 4 write the
\* default settings, 5 activate.
Steps == 1..5

\* A restore inserted the row; it took the workspace from active to restoring; a
\* migration that failed under it took the workspace away again.
Holds == {"none", "begun", "holding", "overtaken"}

NoWalk == [as |-> "nobody", step |-> 0, at |-> "idle"]

WorkspacesTypeOK ==
    /\ workspace \in [state : {"none", "provisioning", "active", "restoring", "unavailable"},
                      detail : 0..5]
    /\ database \subseteq 2..4 /\ imported \in BOOLEAN /\ restore \in Holds
    /\ walker \in [Walkers -> [as : {"nobody", "create", "repair", "restore", "migrate"},
                               step : 0..5,
                               at : {"idle", "work", "record", "mark", "import", "finish", "chain"}]]
    /\ walks \in 0..MaxWalks

WorkspacesInit ==
    /\ workspace = [state |-> "none", detail |-> 0] /\ database = {} /\ imported = FALSE
    /\ restore = "none" /\ walker = [w \in Walkers |-> NoWalk] /\ walks = 0

Go(w, step, at)  == walker' = [walker EXCEPT ![w].step = step, ![w].at = at]
WalkEnds(w)      == walker' = [walker EXCEPT ![w] = NoWalk]
Begins(w, as, step, at) ==
    /\ walker[w].at = "idle" /\ walks < MaxWalks /\ walks' = walks + 1
    /\ walker' = [walker EXCEPT ![w] = [as |-> as, step |-> step, at |-> at]]
    /\ UNCHANGED <<workspace, database, imported, restore>>
-----------------------------------------------------------------------------
(* How a walk begins.                                                        *)

\* provision: all five steps.
Provision(w) == Begins(w, "create", 1, "work")

\* repair: after the recorded step, or from the migration for one that is unavailable;
\* restoring and migrating are refused, active is done.
Repair(w) ==
    \/ workspace.state = "provisioning" /\ Begins(w, "repair", workspace.detail + 1, "work")
    \/ workspace.state = "unavailable" /\ Begins(w, "repair", 3, "work")

\* restore_artifact reads the row: none, it provisions; imported, it only finishes;
\* restoring, it imports; in any other state the workspace already exists.
Restore(w) ==
    \/ workspace.state = "none" /\ Begins(w, "restore", 1, "work")
    \/ workspace.state = "restoring" /\ imported /\ Begins(w, "restore", 5, "finish")
    \/ workspace.state = "restoring" /\ ~imported /\ Begins(w, "restore", 5, "import")

\* migrate_active_workspaces lists the active ones.
Migrate(w) == workspace.state = "active" /\ Begins(w, "migrate", 5, "chain")
-----------------------------------------------------------------------------
(* The steps of a walk.                                                      *)

\* Step 1: the row, or one a crashed create left; past provisioning it is refused.
InsertRow(w) ==
    /\ walker[w].at = "work" /\ walker[w].step = 1
    /\ \/ /\ workspace.state = "none"
          /\ workspace' = [state |-> "provisioning", detail |-> 1]
          /\ restore' = (IF walker[w].as = "restore" THEN "begun" ELSE "none")
          /\ Go(w, 2, "work")
       \/ /\ workspace.state = "provisioning" /\ Go(w, 2, "work")
          /\ UNCHANGED <<workspace, restore>>
       \/ /\ workspace.state \notin {"none", "provisioning"} /\ WalkEnds(w)
          /\ UNCHANGED <<workspace, restore>>
    /\ UNCHANGED <<database, imported, walks>>

\* Steps 2 to 4, each idempotent; a database that exists is a retry only while provisioning.
DoStep(w) ==
    /\ walker[w].at = "work" /\ walker[w].step \in 2..4
    /\ IF walker[w].step = 2 /\ 2 \in database /\ workspace.state # "provisioning"
       THEN WalkEnds(w) /\ UNCHANGED database
       ELSE Go(w, walker[w].step, "record") /\ database' = database \cup {walker[w].step}
    /\ UNCHANGED <<workspace, imported, restore, walks>>

\* Mutant of RecordExpected: the row is stamped whatever its state.
RecordExpectedAny == TRUE

\* _RECORD_STEP_EXPECTED_STATES.
RecordExpected == workspace.state \in {"provisioning", "unavailable"}

\* _record_step, a compare-and-set: a walker that lags behind is refused.
RecordStep(w) ==
    /\ walker[w].at = "record"
    /\ \/ /\ RecordExpected /\ Go(w, walker[w].step + 1, "work")
          /\ workspace' = [state |-> "provisioning", detail |-> walker[w].step]
       \/ ~RecordExpected /\ WalkEnds(w) /\ UNCHANGED workspace
    /\ UNCHANGED <<database, imported, restore, walks>>

\* Step 5; a restore goes on to take the workspace back.
Activate(w) ==
    /\ walker[w].at = "work" /\ walker[w].step = 5
    /\ \/ /\ workspace.state = "provisioning"
          /\ workspace' = [state |-> "active", detail |-> 5]
          /\ IF walker[w].as = "restore" THEN Go(w, 5, "mark") ELSE WalkEnds(w)
       \/ workspace.state # "provisioning" /\ WalkEnds(w) /\ UNCHANGED workspace
    /\ UNCHANGED <<database, imported, restore, walks>>

\* restore_artifact: active to restoring, by compare-and-set.
MarkRestoring(w) ==
    /\ walker[w].at = "mark"
    /\ \/ /\ workspace.state = "active" /\ Go(w, 5, "import")
          /\ workspace' = [workspace EXCEPT !.state = "restoring"] /\ restore' = "holding"
       \/ workspace.state # "active" /\ WalkEnds(w) /\ UNCHANGED <<workspace, restore>>
    /\ UNCHANGED <<database, imported, walks>>

\* The import is one transaction that ends with the restore's record: the second of two
\* meets its key, and nothing of it stays.
Import(w) ==
    /\ walker[w].at = "import"
    /\ IF imported THEN WalkEnds(w) ELSE Go(w, 5, "finish")
    /\ imported' = TRUE /\ UNCHANGED <<workspace, database, restore, walks>>

FinishRestore(w) ==
    /\ walker[w].at = "finish" /\ WalkEnds(w)
    /\ workspace' = IF workspace.state = "restoring" THEN [state |-> "active", detail |-> 5]
                    ELSE workspace
    /\ UNCHANGED <<database, imported, restore, walks>>

\* migrate_workspace: a chain that fails marks the row, whatever it has become since.
RunChain(w) ==
    /\ walker[w].at = "chain" /\ WalkEnds(w)
    /\ \/ UNCHANGED <<workspace, restore>>
       \/ /\ workspace' = [workspace EXCEPT !.state = "unavailable"]
          /\ restore' = IF workspace.state = "restoring" THEN "overtaken" ELSE restore
    /\ UNCHANGED <<database, imported, walks>>

\* The process dies, or the step raises.
WalkerDies(w) ==
    /\ walker[w].at # "idle" /\ WalkEnds(w)
    /\ UNCHANGED <<workspace, database, imported, restore, walks>>

WorkspacesNext ==
    \E w \in Walkers :
      \/ Provision(w) \/ Repair(w) \/ Restore(w) \/ Migrate(w)
      \/ InsertRow(w) \/ DoStep(w) \/ RecordStep(w) \/ Activate(w) \/ MarkRestoring(w)
      \/ Import(w) \/ FinishRestore(w) \/ RunChain(w) \/ WalkerDies(w)

WorkspacesSpec == WorkspacesInit /\ [][WorkspacesNext]_workspaceVars
-----------------------------------------------------------------------------
(* A walk never undoes another's, whichever crashes, retries and repairs come        *)
(* between.  No walker that lags puts an active or restoring workspace back to       *)
(* provisioning; one becomes active only with its database, schema and settings in   *)
(* place; and one that a restore holds is nothing but restoring until everything is  *)
(* imported.  Only a migration that listed the workspace while it was active and     *)
(* fails while it is restored ends that hold: it marks the row unavailable whatever  *)
(* it has become (migrate_workspace), and a repair then activates it unimported.     *)
WalkersNeverUndo ==
    [][/\ workspace.state \in {"active", "restoring"} => workspace'.state # "provisioning"
       /\ workspace'.state = "active" /\ workspace.state # "active" => 2..4 \subseteq database
       /\ restore' = "holding" /\ ~imported' => workspace'.state = "restoring"]_workspaceVars

(* A workspace restored from an artifact is never left active, with no process at    *)
(* work on it, before everything is imported.                                        *)
ActiveOnlyWhenImported ==
    restore # "none" /\ workspace.state = "active" /\ (\A w \in Walkers : walker[w] = NoWalk) => imported
=============================================================================
