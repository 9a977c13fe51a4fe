--------------------------- MODULE ServicesProofs ---------------------------
(***************************************************************************)
(* Proofs about keyed calls, the workspace lifecycle, the OAuth server's   *)
(* grants, the due-work index and the engine cache, for any number of      *)
(* callers, requests, walkers, clients, codes, calls, workers, workspaces, *)
(* databases and borrowers, and any bounds.                                *)
(***************************************************************************)
EXTENDS KeyedCalls, Workspaces, ConnectorGrants, WorkIndex, EnginePool, FiniteSetTheorems,
        LeastNumbers

-----------------------------------------------------------------------------
(* Keyed calls.                                                              *)

(* A dispatch that is under way presents a request.                           *)
Presenting == \A c \in Callers : caller[c].at # "idle" => caller[c].request \in Requests

(* One reservation is in flight at a time, and only while no row is retained. *)
OneReservation ==
    \A c, d \in Callers :
        caller[c].at = "running" =>
            retained.state = "none" /\ (caller[d].at = "running" => c = d)

KeyedInv == KeyedTypeOK /\ Presenting /\ OneReservation /\ KeyedOnce

LEMMA KeyedInitially == KeyedInit => KeyedInv
  BY KeyedCallsAssumption
  DEF KeyedInit, KeyedInv, KeyedTypeOK, Presenting, OneReservation, KeyedOnce, NoRow, NoAsk

(* What a caller that is answered leaves behind.                              *)
LEMMA AnswerGiven ==
    ASSUME KeyedInv, NEW c \in Callers, NEW a \in Answers, Answer(c, a),
           caller[c].at # "idle"
    PROVE  /\ answers' \subseteq Requests \X Answers
           /\ answers' = answers \cup {<<caller[c].request, a>>}
           /\ caller' \in [Callers -> [at : {"idle", "asked", "conflicted", "running"},
                                       request : Requests \cup {NoRequest}]]
           /\ caller'[c].at = "idle"
           /\ \A d \in Callers : d # c => caller'[d] = caller[d]
  BY DEF KeyedInv, Presenting, KeyedTypeOK, Answer, NoAsk

(* A running caller is the only one, nothing is retained, and so no caller    *)
(* was told that the operation succeeded or was refused.                      *)
LEMMA NothingToldYet ==
    ASSUME KeyedInv, NEW c \in Callers, caller[c].at = "running"
    PROVE  /\ retained.state = "none" /\ keyedEffects = 0
           /\ \A d \in Callers : caller[d].at = "running" => d = c
           /\ \A r \in Requests : <<r, "succeeded">> \notin answers
                                  /\ <<r, "refused">> \notin answers
  BY DEF KeyedInv, OneReservation, KeyedOnce

(* A running caller that ends retains its outcome, or nothing; in both cases   *)
(* what it is told is true and no other caller was told otherwise.             *)
LEMMA RunningEnds ==
    ASSUME KeyedInv, NEW c \in Callers, caller[c].at = "running",
           NEW a \in Answers, Answer(c, a), keyedFaults' \in 0..MaxKeyedFaults,
           \/ retained' = retained /\ keyedEffects' = keyedEffects
              /\ a \in {"again", "failed"}
           \/ \E state \in {"succeeded", "refused", "failed"} :
                /\ retained' = [state |-> state, request |-> caller[c].request,
                                adapts |-> TRUE]
                /\ keyedEffects' = keyedEffects + (IF state = "succeeded" THEN 1 ELSE 0)
                /\ a \in {state, "failed"} /\ (state = "refused" => a = state)
    PROVE  KeyedInv'
<1>1. caller[c].request \in Requests /\ Answers = Answers'
  BY DEF KeyedInv, Presenting, Answers
<1>2. KeyedTypeOK'
  <2>1. /\ retained' \in [state : {"none", "succeeded", "refused", "failed"},
                          request : Requests \cup {NoRequest}, adapts : BOOLEAN]
        /\ keyedEffects' \in Nat
    <3>1. CASE retained' = retained /\ keyedEffects' = keyedEffects
      BY <3>1 DEF KeyedInv, KeyedTypeOK
    <3>2. CASE \E state \in {"succeeded", "refused", "failed"} :
                 /\ retained' = [state |-> state, request |-> caller[c].request,
                                 adapts |-> TRUE]
                 /\ keyedEffects' = keyedEffects + (IF state = "succeeded" THEN 1 ELSE 0)
      <4>1. PICK state \in {"succeeded", "refused", "failed"} :
                 /\ retained' = [state |-> state, request |-> caller[c].request,
                                 adapts |-> TRUE]
                 /\ keyedEffects' = keyedEffects + (IF state = "succeeded" THEN 1 ELSE 0)
        BY <3>2
      <4>2. retained' \in [state : {"none", "succeeded", "refused", "failed"},
                           request : Requests \cup {NoRequest}, adapts : BOOLEAN]
        BY <1>1, <4>1
      <4>3. keyedEffects' \in Nat
        BY <4>1 DEF KeyedInv, KeyedTypeOK
      <4> QED
        BY <4>2, <4>3
    <3> QED
      BY <3>1, <3>2
  <2>2. /\ caller' \in [Callers -> [at : {"idle", "asked", "conflicted", "running"},
                                    request : Requests \cup {NoRequest}]]
        /\ answers' \subseteq Requests \X Answers
    <3>1. caller[c].at # "idle"
      OBVIOUS
    <3> QED
      BY <3>1, AnswerGiven
  <2> QED
    BY <2>1, <2>2 DEF KeyedTypeOK
<1>3. Presenting' /\ OneReservation'
  BY AnswerGiven, NothingToldYet DEF KeyedInv, Presenting, OneReservation
<1>4. KeyedOnce'
  BY <1>1, AnswerGiven, NothingToldYet DEF KeyedInv, KeyedOnce
<1> QED
  BY <1>2, <1>3, <1>4 DEF KeyedInv

LEMMA KeyedStep == KeyedInv /\ [KeyedNext]_keyedVars => KeyedInv'
<1> SUFFICES ASSUME KeyedInv, [KeyedNext]_keyedVars PROVE KeyedInv'
  OBVIOUS
<1> USE DEF KeyedInv
<1>1. ASSUME NEW c \in Callers, NEW r \in Requests, Ask(c, r) PROVE KeyedInv'
  BY <1>1 DEF Ask, KeyedTypeOK, Presenting, OneReservation, KeyedOnce
<1>2. ASSUME NEW c \in Callers, Reserve(c) PROVE KeyedInv'
  BY <1>2 DEF Reserve, Reservable, KeyedTypeOK, Presenting, OneReservation, KeyedOnce
<1>3. ASSUME NEW c \in Callers, ReplayRow(c) PROVE KeyedInv'
  <2> DEFINE a == Replayed(c)
  <2>1. a \in Answers /\ caller[c].at # "idle" /\ caller[c].request \in Requests
    BY <1>3 DEF ReplayRow, Replayed, Answers, KeyedTypeOK, Presenting
  <2>2. /\ a = "succeeded" =>
             retained.state = "succeeded" /\ retained.request = caller[c].request
        /\ a = "refused" => retained.state = "refused"
    BY DEF Replayed
  <2>3. KeyedTypeOK' /\ Presenting' /\ OneReservation'
    BY <1>3, <2>1, AnswerGiven DEF ReplayRow, KeyedTypeOK, Presenting, OneReservation
  <2>4. KeyedOnce'
    BY <1>3, <2>1, <2>2, AnswerGiven DEF ReplayRow, KeyedOnce
  <2> QED
    BY <2>3, <2>4
<1>4. ASSUME NEW c \in Callers, Succeed(c) PROVE KeyedInv'
  <2>1. PICK a \in {"succeeded", "failed"} : Answer(c, a)
    BY <1>4 DEF Succeed
  <2>3. /\ caller[c].at = "running" /\ keyedEffects' = keyedEffects + 1
        /\ retained' = [state |-> "succeeded", request |-> caller[c].request, adapts |-> TRUE]
    BY <1>4 DEF Succeed, Retain
  <2>2. keyedFaults' \in 0..MaxKeyedFaults
    BY <1>4, KeyedCallsAssumption DEF Succeed, KeyedFault, KeyedTypeOK
  <2> QED
    BY <1>4, <2>1, <2>2, <2>3, RunningEnds DEF Answers
<1>5. ASSUME NEW c \in Callers, NEW state \in {"refused", "failed"}, Decline(c, state)
      PROVE  KeyedInv'
  BY <1>5, RunningEnds DEF Decline, Retain, Answers, KeyedTypeOK
<1>6. ASSUME NEW c \in Callers, Release(c) PROVE KeyedInv'
  <2>1. keyedFaults' \in 0..MaxKeyedFaults
    BY <1>6, KeyedCallsAssumption DEF Release, KeyedFault, KeyedTypeOK
  <2> QED
    BY <1>6, <2>1, RunningEnds DEF Release, Answers
<1>7. CASE PurgeKey
  BY <1>7, KeyedCallsAssumption DEF PurgeKey, NoRow, KeyedFault, KeyedTypeOK, Presenting, OneReservation, KeyedOnce
<1>8. CASE UpgradeSchema
  <2>1. /\ retained' \in [state : {"none", "succeeded", "refused", "failed"},
                          request : Requests \cup {NoRequest}, adapts : BOOLEAN]
        /\ retained'.state = retained.state /\ retained'.request = retained.request
        /\ retained.state # "none"
        /\ UNCHANGED <<caller, keyedEffects, answers>>
    BY <1>8 DEF UpgradeSchema, KeyedTypeOK
  <2>2. keyedFaults' \in 0..MaxKeyedFaults
    BY <1>8, KeyedCallsAssumption DEF UpgradeSchema, KeyedFault, KeyedTypeOK
  <2>3. KeyedTypeOK'
    BY <2>1, <2>2 DEF KeyedTypeOK, Answers
  <2> QED
    BY <2>1, <2>3 DEF Presenting, OneReservation, KeyedOnce
<1>9. CASE UNCHANGED keyedVars
  BY <1>9 DEF keyedVars, KeyedTypeOK, Presenting, OneReservation, KeyedOnce
<1> QED
  BY <1>1, <1>2, <1>3, <1>4, <1>5, <1>6, <1>7, <1>8, <1>9 DEF KeyedNext

(* However many callers present a key at once, are answered late or lose     *)
(* their answer, its operation takes effect at most once while the key is    *)
(* retained, and no two of them are told opposite things.                    *)
THEOREM KeyedCallsRunOnce == KeyedSpec => []KeyedOnce
<1>1. KeyedInv => KeyedOnce
  BY DEF KeyedInv
<1> QED
  BY <1>1, KeyedInitially, KeyedStep, PTL DEF KeyedSpec
-----------------------------------------------------------------------------
(* The workspace lifecycle.                                                  *)

(* The steps up to n have left what they leave in the database.               *)
DoneTo(n) == \A s \in 2..4 : s <= n => s \in database

(* A process has behind it what the steps it skips or passed leave, however   *)
(* it began, and finishes a restore only when everything is imported.         *)
WalkedSoFar ==
    \A w \in Walkers :
      /\ walker[w].at = "work" => walker[w].step \in 1..5 /\ DoneTo(walker[w].step - 1)
      /\ walker[w].at = "record" => walker[w].step \in 2..4 /\ DoneTo(walker[w].step)
      /\ walker[w].at \in {"mark", "import", "finish", "chain"} => DoneTo(4)
      /\ walker[w].at = "finish" => imported

(* So does the registry row, which a repair resumes from.                     *)
RowSoFar ==
    /\ workspace.state = "provisioning" => workspace.detail \in 1..4 /\ DoneTo(workspace.detail)
    /\ workspace.state \in {"active", "restoring", "unavailable"} => DoneTo(4)

(* While a restore holds the workspace it is restoring, until all is imported. *)
HeldSoFar == restore = "holding" /\ ~imported => workspace.state = "restoring"

WorkspaceInv == WorkspacesTypeOK /\ WalkedSoFar /\ RowSoFar /\ HeldSoFar

LEMMA WorkspaceInitially == WorkspacesInit => WorkspaceInv
<1> SUFFICES ASSUME WorkspacesInit PROVE WorkspaceInv
  OBVIOUS
<1> USE WorkspacesAssumption DEF WorkspacesInit, NoWalk
<1>1. workspace \in [state : {"none", "provisioning", "active", "restoring", "unavailable"},
                     detail : 0..5]
  OBVIOUS
<1>2. walker \in [Walkers -> [as : {"nobody", "create", "repair", "restore", "migrate"},
                              step : 0..5,
                              at : {"idle", "work", "record", "mark", "import", "finish", "chain"}]]
  OBVIOUS
<1>3. WorkspacesTypeOK
  <2>1. database \subseteq 2..4 /\ imported \in BOOLEAN /\ restore \in Holds
    BY DEF Holds
  <2>2. walks \in 0..MaxWalks
    OBVIOUS
  <2> HIDE DEF WorkspacesInit
  <2> QED
    BY <1>1, <1>2, <2>1, <2>2 DEF WorkspacesTypeOK
<1>4. WalkedSoFar /\ RowSoFar /\ HeldSoFar
  BY DEF WalkedSoFar, RowSoFar, HeldSoFar
<1> QED
  BY <1>3, <1>4 DEF WorkspaceInv

(* A process that begins does so behind what is already in place.             *)
LEMMA WalkBegins ==
    ASSUME WorkspaceInv, NEW w \in Walkers,
           Provision(w) \/ Repair(w) \/ Restore(w) \/ Migrate(w)
    PROVE  WorkspaceInv'
<1> USE WorkspacesAssumption DEF WorkspaceInv, WorkspacesTypeOK, WalkedSoFar, RowSoFar, HeldSoFar, Begins, DoneTo
<1>1. CASE Provision(w)
  BY <1>1 DEF Provision
<1>2. CASE Repair(w)
  <2>1. CASE workspace.state = "provisioning" /\ Begins(w, "repair", workspace.detail + 1, "work")
    <3>1. workspace.detail + 1 \in 2..5 /\ DoneTo(workspace.detail + 1 - 1)
      BY <2>1
    <3> QED
      BY <2>1, <3>1
  <2>2. CASE workspace.state = "unavailable" /\ Begins(w, "repair", 3, "work")
    BY <2>2
  <2> QED
    BY <1>2, <2>1, <2>2 DEF Repair
<1>3. CASE Restore(w)
  <2>1. CASE workspace.state = "none" /\ Begins(w, "restore", 1, "work")
    BY <2>1
  <2>2. CASE workspace.state = "restoring" /\ imported /\ Begins(w, "restore", 5, "finish")
    BY <2>2
  <2>3. CASE workspace.state = "restoring" /\ ~imported /\ Begins(w, "restore", 5, "import")
    BY <2>3
  <2> QED
    BY <1>3, <2>1, <2>2, <2>3 DEF Restore
<1>4. CASE Migrate(w)
  BY <1>4 DEF Migrate
<1> QED
  BY <1>1, <1>2, <1>3, <1>4

(* A process that goes on stays one, and leaves the others where they are.    *)
LEMMA Going ==
    ASSUME WorkspacesTypeOK, NEW w \in Walkers, NEW s \in 0..5,
           NEW at \in {"idle", "work", "record", "mark", "import", "finish", "chain"},
           Go(w, s, at)
    PROVE  /\ walker' \in [Walkers -> [as : {"nobody", "create", "repair", "restore", "migrate"},
                                       step : 0..5,
                                       at : {"idle", "work", "record", "mark", "import",
                                             "finish", "chain"}]]
           /\ walker'[w].at = at /\ walker'[w].step = s
           /\ \A v \in Walkers : v # w => walker'[v] = walker[v]
  BY DEF WorkspacesTypeOK, Go

LEMMA WorkspaceStep == WorkspaceInv /\ [WorkspacesNext]_workspaceVars => WorkspaceInv'
<1> SUFFICES ASSUME WorkspaceInv, [WorkspacesNext]_workspaceVars PROVE WorkspaceInv'
  OBVIOUS
<1> USE DEF WorkspaceInv, WorkspacesTypeOK, WalkedSoFar, RowSoFar, HeldSoFar, Holds, DoneTo, Go, WalkEnds, NoWalk
<1>1. ASSUME NEW w \in Walkers, InsertRow(w) PROVE WorkspaceInv'
  <2>1. CASE Go(w, 2, "work") /\ workspace.state = "none"
    <3>1. /\ workspace' \in [state : {"provisioning"}, detail : {1}] /\ restore' \in {"begun", "none"}
          /\ UNCHANGED <<database, imported, walks>>
      BY <1>1, <2>1 DEF InsertRow
    <3>2. DoneTo(1)
      OBVIOUS
    <3>3. WorkspacesTypeOK'
      <4> HIDE DEF Go
      <4> QED
        BY <2>1, <3>1, Going
    <3>4. WalkedSoFar'
      BY <2>1, <3>1, <3>2
    <3>5. RowSoFar' /\ HeldSoFar'
      BY <3>1, <3>2
    <3> QED
      BY <3>3, <3>4, <3>5
  <2>2. CASE Go(w, 2, "work") /\ workspace.state # "none"
    <3>1. UNCHANGED <<workspace, database, imported, restore, walks>>
      BY <1>1, <2>2 DEF InsertRow
    <3> HIDE DEF Go
    <3>2. WorkspacesTypeOK'
      BY <2>2, <3>1, Going
    <3>3. DoneTo(1)
      OBVIOUS
    <3>4. WalkedSoFar' /\ RowSoFar' /\ HeldSoFar'
      BY <2>2, <3>1, <3>3, Going
    <3> QED
      BY <3>2, <3>4
  <2>3. CASE WalkEnds(w) /\ ~Go(w, 2, "work")
    <3>1. UNCHANGED <<workspace, database, imported, restore, walks>>
      BY <1>1, <2>3 DEF InsertRow
    <3> QED
      BY <2>3, <3>1
  <2> QED
    BY <1>1, <2>1, <2>2, <2>3 DEF InsertRow
<1>2. ASSUME NEW w \in Walkers, DoStep(w) PROVE WorkspaceInv'
  <2>1. CASE WalkEnds(w) /\ UNCHANGED database
    <3>1. UNCHANGED <<workspace, database, imported, restore, walks>>
      BY <1>2, <2>1 DEF DoStep
    <3>2. /\ walker' \in [Walkers -> [as : {"nobody", "create", "repair", "restore", "migrate"},
                                      step : 0..5,
                                      at : {"idle", "work", "record", "mark", "import",
                                            "finish", "chain"}]]
          /\ walker'[w].at = "idle" /\ \A v \in Walkers : v # w => walker'[v] = walker[v]
      BY <2>1
    <3>3. WorkspacesTypeOK'
      BY <3>1, <3>2
    <3>4. WalkedSoFar' /\ RowSoFar' /\ HeldSoFar'
      BY <3>1, <3>2
    <3> QED
      BY <3>3, <3>4
  <2>2. CASE /\ Go(w, walker[w].step, "record")
             /\ database' = database \cup {walker[w].step}
    <3>1. walker[w].step \in 2..4 /\ DoneTo(walker[w].step - 1) /\ walker[w].at = "work"
      BY <1>2 DEF DoStep
    <3>2. DoneTo(walker[w].step)' /\ database' \subseteq 2..4
      BY <3>1, <2>2
    <3>3. UNCHANGED <<workspace, imported, restore, walks>>
      BY <1>2 DEF DoStep
    <3>4. /\ walker' \in [Walkers -> [as : {"nobody", "create", "repair", "restore", "migrate"},
                                      step : 0..5,
                                      at : {"idle", "work", "record", "mark", "import",
                                            "finish", "chain"}]]
          /\ walker'[w].at = "record" /\ walker'[w].step = walker[w].step
          /\ \A v \in Walkers : v # w => walker'[v] = walker[v]
      BY <2>2
    <3>5. database \subseteq database'
      BY <2>2
    <3>6. WalkedSoFar'
      BY <3>1, <3>2, <3>3, <3>4, <3>5
    <3>7. WorkspacesTypeOK'
      BY <3>2, <3>3, <3>4
    <3>8. RowSoFar' /\ HeldSoFar'
      BY <3>3, <3>5
    <3> QED
      BY <3>6, <3>7, <3>8
  <2> QED
    BY <1>2, <2>1, <2>2 DEF DoStep
<1>3. ASSUME NEW w \in Walkers, RecordStep(w) PROVE WorkspaceInv'
  BY <1>3 DEF RecordStep, RecordExpected
<1>4. ASSUME NEW w \in Walkers, Activate(w) PROVE WorkspaceInv'
  BY <1>4 DEF Activate
<1>5. ASSUME NEW w \in Walkers, MarkRestoring(w) PROVE WorkspaceInv'
  BY <1>5 DEF MarkRestoring
<1>6. ASSUME NEW w \in Walkers, Import(w) PROVE WorkspaceInv'
  BY <1>6 DEF Import
<1>7. ASSUME NEW w \in Walkers, FinishRestore(w) PROVE WorkspaceInv'
  BY <1>7 DEF FinishRestore
<1>8. ASSUME NEW w \in Walkers, RunChain(w) PROVE WorkspaceInv'
  BY <1>8 DEF RunChain
<1>9. ASSUME NEW w \in Walkers, WalkerDies(w) PROVE WorkspaceInv'
  BY <1>9 DEF WalkerDies
<1>10. CASE UNCHANGED workspaceVars
  BY <1>10 DEF workspaceVars
<1> QED
  BY <1>1, <1>2, <1>3, <1>4, <1>5, <1>6, <1>7, <1>8, <1>9, <1>10, WalkBegins DEF WorkspacesNext

(* What WalkersNeverUndo says of the row and its database, in one step.        *)
NothingUndone ==
    /\ workspace.state \in {"active", "restoring"} => workspace'.state # "provisioning"
    /\ workspace'.state = "active" /\ workspace.state # "active" => 2..4 \subseteq database

LEMMA StepUndoesNothing == WorkspaceInv /\ [WorkspacesNext]_workspaceVars => NothingUndone
<1> SUFFICES ASSUME WorkspaceInv, [WorkspacesNext]_workspaceVars PROVE NothingUndone
  OBVIOUS
<1>1. CASE UNCHANGED workspace
  BY <1>1 DEF NothingUndone
<1>2. ASSUME NEW w \in Walkers, InsertRow(w) PROVE NothingUndone
  BY <1>2 DEF InsertRow, NothingUndone
<1>3. ASSUME NEW w \in Walkers, RecordStep(w) PROVE NothingUndone
  BY <1>3 DEF RecordStep, RecordExpected, NothingUndone
<1>4. ASSUME NEW w \in Walkers, Activate(w) PROVE NothingUndone
  BY <1>4 DEF Activate, NothingUndone, WorkspaceInv, WalkedSoFar, DoneTo
<1>5. ASSUME NEW w \in Walkers, MarkRestoring(w) PROVE NothingUndone
  BY <1>5 DEF MarkRestoring, NothingUndone, WorkspaceInv, WorkspacesTypeOK
<1>6. ASSUME NEW w \in Walkers, FinishRestore(w) PROVE NothingUndone
  BY <1>6 DEF FinishRestore, NothingUndone, WorkspaceInv, WalkedSoFar, DoneTo
<1>7. ASSUME NEW w \in Walkers, RunChain(w) PROVE NothingUndone
  BY <1>7 DEF RunChain, NothingUndone, WorkspaceInv, WorkspacesTypeOK
<1>8. ASSUME NEW w \in Walkers,
             \/ Provision(w) \/ Repair(w) \/ Restore(w) \/ Migrate(w)
             \/ DoStep(w) \/ Import(w) \/ WalkerDies(w)
      PROVE  UNCHANGED workspace
  BY <1>8 DEF Provision, Repair, Restore, Migrate, Begins, DoStep, Import, WalkerDies
<1> QED
  BY <1>1, <1>2, <1>3, <1>4, <1>5, <1>6, <1>7, <1>8 DEF WorkspacesNext, workspaceVars

(* However many creates, retries, repairs, restores and migrations walk the  *)
(* workspace, and wherever they crash, none puts an active or restoring row  *)
(* back to provisioning, none activates it before what the five steps leave  *)
(* is in place, and one that a restore holds is restoring until everything   *)
(* is imported: only a migration that fails under the restore ends the hold  *)
(* before that, and what a repair then activates is outside this theorem.    *)
THEOREM NoWalkIsUndone == WorkspacesSpec => WalkersNeverUndo
<1>1. WorkspacesSpec => []WorkspaceInv
  BY WorkspaceInitially, WorkspaceStep, PTL DEF WorkspacesSpec
<1>2. WorkspaceInv /\ WorkspaceInv' /\ [WorkspacesNext]_workspaceVars =>
        [/\ NothingUndone
         /\ restore' = "holding" /\ ~imported' => workspace'.state = "restoring"]_workspaceVars
  BY StepUndoesNothing DEF WorkspaceInv, HeldSoFar
<1> QED
  BY <1>1, <1>2, PTL DEF WorkspacesSpec, WalkersNeverUndo, NothingUndone
-----------------------------------------------------------------------------
(* The OAuth server's grants: the rows.                                     *)

RefreshRows == {"live", "recent", "past"}

GrantRows ==
    [code : Codes, client : Clients, ended : BOOLEAN, expired : BOOLEAN,
     value : Nat, refresh : Seq(RefreshRows)]

AuthRows ==
    [row : {"none", "pending", "denied", "approved", "deleted"},
     client : Clients \cup {NoAuth.client}, age : Ages, used : BOOLEAN, token : Nat]

CallRows ==
    [at : {"idle", "arrived", "locked"}, kind : {"code", "refresh"},
     item : (Codes \X {0}) \cup (Nat \X Nat) \cup {<<0, 0>>}, ok : BOOLEAN]

Shaped ==
    /\ client \in [Clients -> {"none", "fresh", "old", "deleted"}]
    /\ auth \in [Codes -> AuthRows] /\ grants \in Seq(GrantRows)
    /\ registering.doomed \subseteq Clients
    /\ call \in [Calls -> CallRows]

OneLive(values) ==
    \E n \in DOMAIN values : \A m \in DOMAIN values : values[m] = "live" <=> m = n

(* The row of a code names the grant it was redeemed for, and outlives every   *)
(* cleanup, as does the grant's client.                                        *)
GrantOK(g) ==
    /\ Stored(grants[g].code) /\ auth[grants[g].code].used
    /\ auth[grants[g].code].token = g
    /\ auth[grants[g].code].client = grants[g].client
    /\ OneLive(grants[g].refresh)

(* A stored request is of a registered client.                                 *)
AuthOK(a) == Stored(a) => auth[a].client \in Clients /\ Registered(auth[a].client)

(* What a call has locked is as it read it: a code not yet used, a refresh     *)
(* value not yet rotated.                                                      *)
CallOK(c) ==
    /\ call[c].at # "idle" /\ call[c].kind = "code" =>
         \E a \in Codes : call[c].item = <<a, 0>>
    /\ call[c].at # "idle" /\ call[c].kind = "refresh" =>
         \E g \in DOMAIN grants : \E n \in DOMAIN grants[g].refresh : call[c].item = <<g, n>>
    /\ call[c].at = "locked" /\ call[c].kind = "code" =>
         Stored(call[c].item[1]) /\ ~auth[call[c].item[1]].used
    /\ call[c].at = "locked" /\ call[c].kind = "refresh" =>
         grants[call[c].item[1]].refresh[call[c].item[2]] = "live"

(* No two calls hold one row.                                                  *)
LocksApart ==
    \A c, d \in Calls :
        /\ call[c].at = "locked" /\ call[d].at = "locked"
        /\ call[c].kind = call[d].kind /\ call[c].item = call[d].item
        => c = d

ReplayedHaveEnded == replayed \subseteq DOMAIN grants /\ \A g \in replayed : grants[g].ended

GrantsInv ==
    /\ Shaped /\ LocksApart /\ ReplayedHaveEnded
    /\ \A g \in DOMAIN grants : GrantOK(g)
    /\ \A a \in Codes : AuthOK(a)
    /\ \A c \in Calls : CallOK(c)
-----------------------------------------------------------------------------
(* Sequences of grants.                                                        *)

LEMMA StillASequence ==
    ASSUME NEW S, NEW s \in Seq(S), NEW f \in [DOMAIN s -> S]
    PROVE  f \in Seq(S) /\ DOMAIN f = DOMAIN s /\ Len(f) = Len(s)
<1>1. Len(s) \in Nat /\ DOMAIN s = 1..Len(s)
  OBVIOUS
<1>2. f \in Seq(S)
  BY <1>1
<1> QED
  BY <1>1, <1>2

LEMMA OneMore ==
    ASSUME NEW S, NEW s \in Seq(S), NEW x \in S
    PROVE  /\ Append(s, x) \in Seq(S) /\ DOMAIN Append(s, x) = DOMAIN s \cup {Len(s) + 1}
           /\ Len(s) + 1 \notin DOMAIN s /\ Append(s, x)[Len(s) + 1] = x
           /\ \A i \in DOMAIN s : Append(s, x)[i] = s[i]
           /\ Len(s) \in Nat
  OBVIOUS

LEMMA GrantShape ==
    ASSUME Shaped, NEW g \in DOMAIN grants
    PROVE  /\ grants[g] \in GrantRows /\ grants[g].code \in Codes /\ grants[g].client \in Clients
           /\ grants[g].refresh \in Seq(RefreshRows) /\ g \in Nat /\ grants[g].value \in Nat
<1>1. grants \in Seq(GrantRows)
  BY DEF Shaped
<1>2. grants[g] \in GrantRows /\ g \in Nat
  BY <1>1
<1> QED
  BY <1>2 DEF GrantRows

(* A rotation: the value presented is the live one, and the new one is.        *)
LEMMA RotationKeepsOneLive ==
    ASSUME NEW values \in Seq(RefreshRows), OneLive(values), NEW n \in DOMAIN values,
           values[n] = "live"
    PROVE  /\ Append([values EXCEPT ![n] = "recent"], "live") \in Seq(RefreshRows)
           /\ OneLive(Append([values EXCEPT ![n] = "recent"], "live"))
           /\ DOMAIN values \subseteq DOMAIN Append([values EXCEPT ![n] = "recent"], "live")
           /\ \A m \in DOMAIN values :
                m # n => Append([values EXCEPT ![n] = "recent"], "live")[m] = values[m]
<1> DEFINE old == [values EXCEPT ![n] = "recent"]
           new == Append(old, "live")
<1>1. old \in Seq(RefreshRows) /\ DOMAIN old = DOMAIN values
  BY StillASequence DEF RefreshRows
<1>2. /\ new \in Seq(RefreshRows) /\ DOMAIN new = DOMAIN old \cup {Len(old) + 1}
      /\ Len(old) + 1 \notin DOMAIN old /\ new[Len(old) + 1] = "live"
      /\ \A i \in DOMAIN old : new[i] = old[i]
  BY <1>1, OneMore DEF RefreshRows
<1>3. \A m \in DOMAIN old : old[m] # "live"
  BY <1>1 DEF OneLive
<1>4. OneLive(new)
  <2>1. \A m \in DOMAIN new : new[m] = "live" <=> m = Len(old) + 1
    BY <1>2, <1>3
  <2> QED
    BY <1>2, <2>1 DEF OneLive
<1> QED
  BY <1>1, <1>2, <1>4
-----------------------------------------------------------------------------
(* The invariant, put together, and what it gives the properties.             *)

LEMMA GrantsInitially == ConnectorInit => GrantsInv
<1> SUFFICES ASSUME ConnectorInit PROVE GrantsInv
  OBVIOUS
<1>1. grants = <<>> /\ DOMAIN grants = {} /\ grants \in Seq(GrantRows)
  BY DEF ConnectorInit
<1>2. NoAuth \in AuthRows /\ NoCall \in CallRows
  BY DEF NoAuth, NoCall, AuthRows, CallRows, Ages
<1>3. Shaped
  BY <1>1, <1>2 DEF ConnectorInit, Shaped
<1>4. (\A a \in Codes : AuthOK(a)) /\ (\A c \in Calls : CallOK(c)) /\ LocksApart
  BY DEF ConnectorInit, AuthOK, CallOK, LocksApart, Stored, NoAuth, NoCall
<1> QED
  BY <1>1, <1>3, <1>4 DEF GrantsInv, ReplayedHaveEnded, ConnectorInit

(* What a step may do to the grants there are.                                 *)
Forward ==
    /\ DOMAIN grants \subseteq DOMAIN grants'
    /\ \A g \in DOMAIN grants :
         grants[g].ended => grants'[g].ended /\ grants'[g].value = grants[g].value

(* Steps that leave the grants and the calls alone keep the rows that name a   *)
(* grant or are locked.                                                        *)
LEMMA RowsChange ==
    ASSUME GrantsInv, UNCHANGED <<grants, call, replayed>>, Shaped',
           \A a \in Codes : AuthOK(a)',
           \A a \in Codes : Stored(a) /\ (auth[a].used \/ Locked("code", <<a, 0>>)) =>
               /\ Stored(a)' /\ auth'[a].used = auth[a].used /\ auth'[a].token = auth[a].token
               /\ auth'[a].client = auth[a].client
    PROVE  GrantsInv' /\ Forward
<1>1. ASSUME NEW g \in DOMAIN grants PROVE GrantOK(g)'
  <2>1. GrantOK(g) /\ grants[g].code \in Codes
    BY GrantShape DEF GrantsInv
  <2> QED
    BY <2>1 DEF GrantOK
<1>2. ASSUME NEW c \in Calls PROVE CallOK(c)'
  <2>1. CallOK(c)
    BY DEF GrantsInv
  <2>2. CASE call[c].at = "locked" /\ call[c].kind = "code"
    <3>1. PICK a \in Codes : call[c].item = <<a, 0>>
      BY <2>1, <2>2 DEF CallOK
    <3>2. Stored(a) /\ ~auth[a].used /\ Locked("code", <<a, 0>>)
      BY <2>1, <2>2, <3>1 DEF CallOK, Locked
    <3> QED
      BY <2>1, <2>2, <3>1, <3>2 DEF CallOK
  <2>3. CASE ~(call[c].at = "locked" /\ call[c].kind = "code")
    BY <2>1, <2>3 DEF CallOK
  <2> QED
    BY <2>2, <2>3
<1> QED
  BY <1>1, <1>2 DEF GrantsInv, LocksApart, ReplayedHaveEnded, Forward

(* A call that ends gives up its lock.                                         *)
LEMMA CallLeaves ==
    ASSUME GrantsInv, NEW c \in Calls, CallEnds(c)
    PROVE  /\ call' \in [Calls -> CallRows] /\ LocksApart' /\ call'[c].at = "idle"
           /\ \A d \in Calls : d # c => call'[d] = call[d]
<1>1. NoCall \in CallRows /\ NoCall.at = "idle" /\ call \in [Calls -> CallRows]
  BY DEF NoCall, CallRows, GrantsInv, Shaped
<1> QED
  BY <1>1 DEF CallEnds, GrantsInv, LocksApart

(* Steps that may end grants, expire them or age their values, and that end    *)
(* one call, or none.                                                          *)
LEMMA GrantsAge ==
    ASSUME GrantsInv, UNCHANGED <<client, auth, registering>>,
           grants' \in Seq(GrantRows), DOMAIN grants' = DOMAIN grants,
           \A g \in DOMAIN grants :
               /\ grants'[g].code = grants[g].code /\ grants'[g].client = grants[g].client
               /\ grants'[g].value = grants[g].value
               /\ DOMAIN grants'[g].refresh = DOMAIN grants[g].refresh
               /\ \A n \in DOMAIN grants[g].refresh :
                    grants'[g].refresh[n] = "live" <=> grants[g].refresh[n] = "live"
               /\ grants[g].ended => grants'[g].ended,
           call' = call \/ \E c \in Calls : CallEnds(c),
           ReplayedHaveEnded'
    PROVE  GrantsInv' /\ Forward
<1>1. ASSUME NEW g \in DOMAIN grants PROVE GrantOK(g)'
  <2>1. GrantOK(g)
    BY DEF GrantsInv
  <2> QED
    BY <2>1 DEF GrantOK, Stored, OneLive
<1>2. /\ call' \in [Calls -> CallRows] /\ LocksApart'
      /\ \A c \in Calls : call'[c] = call[c] \/ call'[c].at = "idle"
  BY CallLeaves DEF GrantsInv, Shaped, LocksApart
<1>3. ASSUME NEW c \in Calls PROVE CallOK(c)'
  <2>1. CallOK(c)
    BY DEF GrantsInv
  <2>2. CASE call'[c].at = "idle"
    BY <2>2 DEF CallOK
  <2>3. CASE call'[c] = call[c]
    BY <2>1, <2>3 DEF CallOK, Stored
  <2> QED
    BY <1>2, <2>2, <2>3
<1>4. \A a \in Codes : AuthOK(a)'
  BY DEF GrantsInv, AuthOK, Stored, Registered
<1>5. Shaped'
  BY <1>2 DEF GrantsInv, Shaped
<1> QED
  BY <1>1, <1>2, <1>3, <1>4, <1>5 DEF GrantsInv, Forward
-----------------------------------------------------------------------------
(* The steps.                                                                  *)

LEMMA NoAuthRow ==
    /\ [NoAuth EXCEPT !.row = "deleted"] \in AuthRows
    /\ [NoAuth EXCEPT !.row = "deleted"].row = "deleted"
    /\ \A k \in Clients : /\ [NoAuth EXCEPT !.row = "pending", !.client = k] \in AuthRows
                          /\ [NoAuth EXCEPT !.row = "pending", !.client = k].client = k
<1> DEFINE any == CHOOSE c \in Clients : TRUE
<1>1. NoAuth = [row |-> "none", client |-> any, age |-> 0, used |-> FALSE, token |-> 0]
  BY DEF NoAuth
<1> HIDE DEF any
<1>2. NoAuth \in AuthRows
  BY <1>1 DEF AuthRows, Ages
<1> QED
  BY <1>2 DEF AuthRows

(* The sweep removes no row that a grant came from: a doomed client with a     *)
(* grant makes the foreign key refuse the whole transaction, and a stale row   *)
(* has issued nothing; and it waits for the calls that hold a row.             *)
LEMMA SweepStep == ASSUME GrantsInv, RegisterCommits PROVE GrantsInv' /\ Forward
<1> DEFINE doomed  == registering.doomed
           removed == {a \in Codes : Stored(a) /\ auth[a].client \in doomed}
                        \cup {a \in Codes : Stale(a)}
           kept    == [k \in Clients |-> IF k \in doomed THEN "deleted" ELSE client[k]]
<1>1. /\ UNCHANGED <<grants, call, replayed>> /\ registering'.doomed = {}
      /\ auth \in [Codes -> AuthRows] /\ grants \in Seq(GrantRows)
      /\ call \in [Calls -> CallRows]
      /\ client \in [Clients -> {"none", "fresh", "old", "deleted"}]
  BY DEF RegisterCommits, GrantsInv, Shaped
<1>2. CASE UNCHANGED <<client, auth>>
  <2>1. Shaped'
    BY <1>1, <1>2 DEF GrantsInv, Shaped
  <2>2. \A a \in Codes : AuthOK(a)' /\ (Stored(a) => Stored(a)')
    BY <1>2 DEF GrantsInv, AuthOK, Stored, Registered
  <2> QED
    BY <1>1, <1>2, <2>1, <2>2, RowsChange
<1>3. CASE /\ ~\E k \in doomed : HasGrant(k)
           /\ ~\E a \in removed : Locked("code", <<a, 0>>)
           /\ auth' = [a \in Codes |-> IF a \in removed THEN [NoAuth EXCEPT !.row = "deleted"]
                                       ELSE auth[a]]
           /\ \/ client' = kept
              \/ \E k \in Clients : client[k] = "none" /\ client' = [kept EXCEPT ![k] = "fresh"]
  <2>1. [NoAuth EXCEPT !.row = "deleted"] \in AuthRows /\ [NoAuth EXCEPT !.row = "deleted"].row = "deleted"
    BY NoAuthRow
  <2>2. /\ client' \in [Clients -> {"none", "fresh", "old", "deleted"}]
        /\ \A k \in Clients : Registered(k) /\ k \notin doomed => Registered(k)'
    BY <1>1, <1>3 DEF Registered
  <2>3. auth' \in [Codes -> AuthRows]
    BY <1>1, <1>3, <2>1
  <2>4. Shaped'
    BY <1>1, <2>2, <2>3 DEF Shaped
  <2>5. ASSUME NEW a \in Codes
        PROVE  /\ a \in removed => ~Stored(a)'
               /\ a \notin removed => auth'[a] = auth[a] /\ (Stored(a)' <=> Stored(a))
    BY <1>3, <2>1 DEF Stored
  <2>6. ASSUME NEW a \in Codes PROVE AuthOK(a)'
    <3>1. AuthOK(a)
      BY DEF GrantsInv
    <3> QED
      BY <2>2, <2>5, <3>1 DEF AuthOK
  <2>7. ASSUME NEW a \in Codes, Stored(a), auth[a].used, auth[a].token # 0,
               auth[a].token \in DOMAIN grants, grants[auth[a].token].client = auth[a].client
        PROVE  a \notin removed
    BY <1>3, <2>7 DEF HasGrant, Stale
  <2>8. ASSUME NEW g \in DOMAIN grants PROVE grants[g].code \notin removed
    <3>1. GrantOK(g) /\ grants[g].code \in Codes /\ g # 0
      <4>1. g # 0
        BY <1>1
      <4> QED
        BY <4>1, GrantShape DEF GrantsInv
    <3> QED
      BY <2>7, <3>1 DEF GrantOK
  <2>9. ASSUME NEW g \in DOMAIN grants PROVE GrantOK(g)'
    <3>1. GrantOK(g) /\ grants[g].code \in Codes
      BY GrantShape DEF GrantsInv
    <3> QED
      BY <1>1, <2>5, <2>8, <3>1 DEF GrantOK
  <2>10. ASSUME NEW c \in Calls PROVE CallOK(c)'
    <3>1. CallOK(c)
      BY DEF GrantsInv
    <3>2. CASE call[c].at = "locked" /\ call[c].kind = "code"
      <4>1. PICK a \in Codes : call[c].item = <<a, 0>>
        BY <3>1, <3>2 DEF CallOK
      <4>2. a \notin removed /\ Stored(a) /\ ~auth[a].used
        BY <1>3, <3>1, <3>2, <4>1 DEF CallOK, Locked
      <4>3. Stored(a)' /\ auth'[a] = auth[a]
        BY <2>5, <4>2
      <4> QED
        BY <1>1, <3>1, <3>2, <4>1, <4>2, <4>3 DEF CallOK
    <3>3. CASE ~(call[c].at = "locked" /\ call[c].kind = "code")
      BY <1>1, <3>1, <3>3 DEF CallOK
    <3> QED
      BY <3>2, <3>3
  <2> QED
    BY <1>1, <2>4, <2>6, <2>9, <2>10 DEF GrantsInv, LocksApart, ReplayedHaveEnded, Forward
<1> QED
  BY <1>2, <1>3 DEF RegisterCommits

LEMMA RequestSteps ==
    ASSUME GrantsInv, NEW a \in Codes,
           ApproveRequest(a) \/ DenyRequest(a) \/ \E k \in Clients : BeginAuthorization(a, k)
    PROVE  GrantsInv' /\ Forward
<1>0. auth \in [Codes -> AuthRows]
  BY DEF GrantsInv, Shaped
<1>1. CASE ApproveRequest(a) \/ DenyRequest(a)
  <2>1. PICK row \in {"approved", "denied"} : Decide(a, row)
    BY <1>1 DEF ApproveRequest, DenyRequest
  <2>2. /\ auth' \in [Codes -> AuthRows] /\ Stored(a) /\ Stored(a)'
        /\ auth'[a].used = auth[a].used /\ auth'[a].token = auth[a].token
        /\ auth'[a].client = auth[a].client
        /\ \A b \in Codes : b # a => auth'[b] = auth[b]
    BY <1>0, <2>1 DEF Decide, Pending, AuthRows, Stored
  <2>3. UNCHANGED <<client, grants, registering, call, replayed>>
    BY <2>1 DEF Decide
  <2>4. Shaped'
    BY <2>2, <2>3 DEF GrantsInv, Shaped
  <2>5. \A b \in Codes : AuthOK(b)'
    BY <2>2, <2>3 DEF GrantsInv, AuthOK, Registered, Stored
  <2> QED
    BY <2>2, <2>3, <2>4, <2>5, RowsChange DEF Stored
<1>2. ASSUME NEW k \in Clients, BeginAuthorization(a, k) PROVE GrantsInv' /\ Forward
  <2>1. /\ [NoAuth EXCEPT !.row = "pending", !.client = k] \in AuthRows
        /\ [NoAuth EXCEPT !.row = "pending", !.client = k].client = k
    BY NoAuthRow
  <2>2. /\ auth' \in [Codes -> AuthRows] /\ ~Stored(a) /\ Registered(k)
        /\ auth'[a].client = k
        /\ \A b \in Codes : b # a => auth'[b] = auth[b]
    BY <1>0, <1>2, <2>1 DEF BeginAuthorization, Stored
  <2>3. UNCHANGED <<client, grants, registering, call, replayed>>
    BY <1>2 DEF BeginAuthorization
  <2>4. Shaped'
    BY <2>2, <2>3 DEF GrantsInv, Shaped
  <2>5. \A b \in Codes : AuthOK(b)'
    BY <2>2, <2>3 DEF GrantsInv, AuthOK, Registered, Stored
  <2> QED
    BY <2>2, <2>3, <2>4, <2>5, RowsChange DEF Stored
<1> QED
  BY <1>1, <1>2

(* A call that arrives locks nothing yet.                                      *)
LEMMA PresentSteps ==
    ASSUME GrantsInv, NEW c \in Calls,
           \/ \E a \in Codes : PresentCode(c, a)
           \/ \E g \in DOMAIN grants : \E n \in DOMAIN grants[g].refresh : PresentRefresh(c, g, n)
    PROVE  GrantsInv' /\ Forward
<1> DEFINE Arrives ==
      /\ call' \in [Calls -> CallRows] /\ call'[c].at = "arrived"
      /\ \A d \in Calls : d # c => call'[d] = call[d]
      /\ call'[c].kind = "code" => \E a \in Codes : call'[c].item = <<a, 0>>
      /\ call'[c].kind = "refresh" =>
           \E g \in DOMAIN grants : \E n \in DOMAIN grants[g].refresh : call'[c].item = <<g, n>>
<1>0. UNCHANGED <<client, auth, grants, registering, replayed>>
  BY DEF PresentCode, PresentRefresh
<1>1. Arrives
  <2>0. call \in [Calls -> CallRows]
    BY DEF GrantsInv, Shaped
  <2>1. ASSUME NEW a \in Codes, PresentCode(c, a) PROVE Arrives
    <3>1. [at |-> "arrived", kind |-> "code", item |-> <<a, 0>>, ok |-> auth[a].age = 0] \in CallRows
      BY DEF CallRows
    <3> QED
      BY <2>0, <2>1, <3>1 DEF PresentCode
  <2>2. ASSUME NEW g \in DOMAIN grants, NEW n \in DOMAIN grants[g].refresh, PresentRefresh(c, g, n)
        PROVE  Arrives
    <3>1. g \in Nat /\ n \in Nat
      <4>1. grants[g].refresh \in Seq(RefreshRows) /\ g \in Nat
        BY GrantShape DEF GrantsInv
      <4> QED
        BY <4>1
    <3>2. [at |-> "arrived", kind |-> "refresh", item |-> <<g, n>>,
           ok |-> grants[g].refresh[n] = "past"] \in CallRows
      BY <3>1 DEF CallRows
    <3> QED
      BY <2>0, <2>2, <3>2 DEF PresentRefresh
  <2> QED
    BY <2>1, <2>2
<1>2. \A g \in DOMAIN grants : GrantOK(g)'
  BY <1>0 DEF GrantsInv, GrantOK, Stored
<1>3. \A a \in Codes : AuthOK(a)'
  BY <1>0 DEF GrantsInv, AuthOK, Stored, Registered
<1>4. ASSUME NEW d \in Calls PROVE CallOK(d)'
  <2>1. CASE d = c
    BY <1>0, <1>1, <2>1 DEF CallOK
  <2>2. CASE d # c
    <3>1. CallOK(d) /\ call'[d] = call[d]
      BY <1>1, <2>2 DEF GrantsInv
    <3> QED
      BY <1>0, <3>1 DEF CallOK, Stored
  <2> QED
    BY <2>1, <2>2
<1>5. LocksApart'
  BY <1>1 DEF GrantsInv, LocksApart
<1> QED
  BY <1>0, <1>1, <1>2, <1>3, <1>4, <1>5 DEF GrantsInv, Shaped, ReplayedHaveEnded, Forward

(* A row is locked by one call at a time, as it is read under the lock.        *)
LEMMA LockTaken ==
    ASSUME GrantsInv, NEW c \in Calls, UNCHANGED <<client, auth, grants, registering, replayed>>,
           call' = [call EXCEPT ![c].at = "locked"], MayLock(c), call[c].at = "arrived",
           call[c].kind = "code" => Stored(call[c].item[1]) /\ ~auth[call[c].item[1]].used,
           call[c].kind = "refresh" =>
             grants[call[c].item[1]].refresh[call[c].item[2]] = "live"
    PROVE  GrantsInv' /\ Forward
<1>1. /\ call' \in [Calls -> CallRows] /\ call'[c].at = "locked"
      /\ call'[c].kind = call[c].kind /\ call'[c].item = call[c].item
      /\ \A d \in Calls : d # c => call'[d] = call[d]
  BY DEF GrantsInv, Shaped, CallRows
<1>2. \A g \in DOMAIN grants : GrantOK(g)'
  BY DEF GrantsInv, GrantOK, Stored
<1>3. \A a \in Codes : AuthOK(a)'
  BY DEF GrantsInv, AuthOK, Stored, Registered
<1>4. ASSUME NEW d \in Calls PROVE CallOK(d)'
  <2>1. CallOK(d)
    BY DEF GrantsInv
  <2>2. CASE d = c
    BY <1>1, <2>1, <2>2 DEF CallOK, Stored
  <2>3. CASE d # c
    BY <1>1, <2>1, <2>3 DEF CallOK, Stored
  <2> QED
    BY <2>2, <2>3
<1>5. LocksApart'
  BY <1>1 DEF GrantsInv, LocksApart, MayLock, Locked
<1> QED
  BY <1>1, <1>2, <1>3, <1>4, <1>5 DEF GrantsInv, Shaped, ReplayedHaveEnded, Forward

(* Nothing but one call's end.                                                 *)
LEMMA JustLeaves ==
    ASSUME GrantsInv, NEW c \in Calls, CallEnds(c),
           UNCHANGED <<client, auth, grants, registering, replayed>>
    PROVE  GrantsInv' /\ Forward
  BY GrantsAge DEF GrantsInv, Shaped, ReplayedHaveEnded

LEMMA EndedGrants ==
    ASSUME GrantsInv, NEW f, DOMAIN f = DOMAIN grants,
           \A g \in DOMAIN grants :
              f[g] = grants[g] \/ f[g] = [grants[g] EXCEPT !.ended = TRUE],
           f = [g \in DOMAIN grants |-> f[g]]
    PROVE  /\ f \in Seq(GrantRows)
           /\ \A g \in DOMAIN grants :
               /\ f[g].code = grants[g].code /\ f[g].client = grants[g].client
               /\ f[g].value = grants[g].value /\ f[g].refresh = grants[g].refresh
               /\ grants[g].ended => f[g].ended
<1>1. ASSUME NEW g \in DOMAIN grants
      PROVE  /\ f[g] \in GrantRows
             /\ f[g].code = grants[g].code /\ f[g].client = grants[g].client
             /\ f[g].value = grants[g].value /\ f[g].refresh = grants[g].refresh
             /\ grants[g].ended => f[g].ended
  <2>1. grants[g] \in GrantRows
    BY GrantShape DEF GrantsInv
  <2> QED
    BY <2>1 DEF GrantRows
<1>2. f \in [DOMAIN grants -> GrantRows] /\ grants \in Seq(GrantRows)
  BY <1>1 DEF GrantsInv, Shaped
<1> QED
  BY <1>1, <1>2, StillASequence

(* A code presented again ends the grant it was redeemed for: its row names it.*)
LEMMA LockCodeStep == ASSUME GrantsInv, NEW c \in Calls, LockCode(c) PROVE GrantsInv' /\ Forward
<1>0. /\ CallOK(c) /\ UNCHANGED <<client, auth, registering>> /\ call[c].at = "arrived"
      /\ call[c].kind = "code" /\ MayLock(c)
  BY DEF LockCode, GrantsInv
<1>1. PICK a \in Codes : call[c].item = <<a, 0>>
  BY <1>0 DEF CallOK
<1>2. call[c].item[1] = a
  BY <1>1
<1>3. ASSUME NEW g \in OfCode(a) PROVE g \in DOMAIN grants /\ Stored(a) /\ auth[a].token = g
  BY DEF OfCode, GrantsInv, GrantOK
<1>4. CASE /\ ~Stored(a) /\ replayed' = replayed \cup OfCode(a) /\ CallEnds(c) /\ UNCHANGED grants
  <2>1. replayed' = replayed
    BY <1>3, <1>4
  <2> QED
    BY <1>0, <1>4, <2>1, JustLeaves
<1>5. CASE /\ Stored(a) /\ auth[a].used
           /\ grants' = [g \in DOMAIN grants |->
                             IF g = auth[a].token THEN [grants[g] EXCEPT !.ended = TRUE]
                             ELSE grants[g]]
           /\ replayed' = replayed \cup OfCode(a) /\ CallEnds(c)
  <2>1. /\ grants' \in Seq(GrantRows) /\ DOMAIN grants' = DOMAIN grants
        /\ \A g \in DOMAIN grants :
               /\ grants'[g].code = grants[g].code /\ grants'[g].client = grants[g].client
               /\ grants'[g].value = grants[g].value /\ grants'[g].refresh = grants[g].refresh
               /\ grants[g].ended => grants'[g].ended
    <3>1. DOMAIN grants' = DOMAIN grants /\ grants' = [g \in DOMAIN grants |-> grants'[g]]
      BY <1>5
    <3>2. \A g \in DOMAIN grants :
            grants'[g] = grants[g] \/ grants'[g] = [grants[g] EXCEPT !.ended = TRUE]
      BY <1>5
    <3> DEFINE after == grants'
    <3>3. /\ DOMAIN after = DOMAIN grants /\ after = [g \in DOMAIN grants |-> after[g]]
          /\ \A g \in DOMAIN grants :
              after[g] = grants[g] \/ after[g] = [grants[g] EXCEPT !.ended = TRUE]
      BY <3>1, <3>2
    <3> HIDE DEF after
    <3>4. /\ after \in Seq(GrantRows)
          /\ \A g \in DOMAIN grants :
               /\ after[g].code = grants[g].code /\ after[g].client = grants[g].client
               /\ after[g].value = grants[g].value /\ after[g].refresh = grants[g].refresh
               /\ grants[g].ended => after[g].ended
      BY <3>3, EndedGrants
    <3> QED
      BY <3>1, <3>4 DEF after
  <2>2. ReplayedHaveEnded'
    <3>1. ASSUME NEW g \in OfCode(a) PROVE grants'[g].ended
      <4>1. g \in DOMAIN grants /\ grants[g] \in GrantRows /\ g = auth[a].token
        BY <1>3, GrantShape DEF GrantsInv
      <4> QED
        BY <1>5, <4>1 DEF GrantRows
    <3> QED
      BY <1>3, <1>5, <2>1, <3>1 DEF GrantsInv, ReplayedHaveEnded
  <2> QED
    BY <1>0, <1>5, <2>1, <2>2, GrantsAge
<1>6. CASE /\ Stored(a) /\ ~auth[a].used
           /\ call' = [call EXCEPT ![c].at = "locked"] /\ UNCHANGED <<grants, replayed>>
  BY <1>0, <1>2, <1>6, LockTaken
<1> QED
  BY <1>2, <1>4, <1>5, <1>6 DEF LockCode

(* So does a value presented long after its rotation.                          *)
LEMMA LockRefreshStep ==
    ASSUME GrantsInv, NEW c \in Calls, LockRefresh(c) PROVE GrantsInv' /\ Forward
<1>0. /\ CallOK(c) /\ UNCHANGED <<client, auth, registering>> /\ call[c].at = "arrived"
      /\ call[c].kind = "refresh" /\ MayLock(c)
  BY DEF LockRefresh, GrantsInv
<1>1. PICK g \in DOMAIN grants : \E n \in DOMAIN grants[g].refresh : call[c].item = <<g, n>>
  BY <1>0 DEF CallOK
<1>2. PICK n \in DOMAIN grants[g].refresh : call[c].item = <<g, n>>
  BY <1>1
<1>3. call[c].item[1] = g /\ call[c].item[2] = n
  BY <1>2
<1>4. CASE CallEnds(c) /\ UNCHANGED <<grants, replayed>>
  BY <1>0, <1>4, JustLeaves
<1>5. CASE /\ grants' = [grants EXCEPT ![g].ended = TRUE]
           /\ replayed' = replayed \cup {g} /\ CallEnds(c)
  <2>0. grants \in Seq(GrantRows) /\ grants[g] \in GrantRows
    BY GrantShape DEF GrantsInv, Shaped
  <2>1. /\ DOMAIN grants' = DOMAIN grants /\ grants' = [h \in DOMAIN grants |-> grants'[h]]
        /\ \A h \in DOMAIN grants : h # g => grants'[h] = grants[h]
        /\ grants'[g] = [grants[g] EXCEPT !.ended = TRUE]
    BY <1>5
  <2>2. grants'[g].ended
    BY <2>0, <2>1 DEF GrantRows
  <2>3. /\ grants' \in Seq(GrantRows)
        /\ \A h \in DOMAIN grants :
               /\ grants'[h].code = grants[h].code /\ grants'[h].client = grants[h].client
               /\ grants'[h].value = grants[h].value /\ grants'[h].refresh = grants[h].refresh
               /\ grants[h].ended => grants'[h].ended
    BY <2>1, EndedGrants
  <2>4. ReplayedHaveEnded'
    BY <1>5, <2>1, <2>2, <2>3 DEF GrantsInv, ReplayedHaveEnded
  <2> QED
    BY <1>0, <1>5, <2>1, <2>3, <2>4, GrantsAge
<1>6. CASE /\ grants[g].refresh[n] = "live" /\ call' = [call EXCEPT ![c].at = "locked"]
           /\ UNCHANGED <<grants, replayed>>
  BY <1>0, <1>3, <1>6, LockTaken
<1> QED
  BY <1>3, <1>4, <1>5, <1>6 DEF LockRefresh

(* A used code stays used, and only its holder had it locked.                  *)
LEMMA CodeBurned ==
    ASSUME GrantsInv, NEW c \in Calls, call[c].at = "locked", call[c].kind = "code"
    PROVE  \E a \in Codes :
             /\ call[c].item = <<a, 0>> /\ call[c].item[1] = a /\ Stored(a) /\ ~auth[a].used
             /\ auth[a] \in AuthRows /\ auth[a].client \in Clients /\ Registered(auth[a].client)
             /\ OfCode(a) = {}
             /\ \A d \in Calls : d # c /\ call[d].at = "locked" /\ call[d].kind = "code" =>
                                   \A b \in Codes : call[d].item = <<b, 0>> => b # a
<1>1. CallOK(c)
  BY DEF GrantsInv
<1>2. PICK a \in Codes : call[c].item = <<a, 0>>
  BY <1>1 DEF CallOK
<1>3. call[c].item[1] = a /\ Stored(a) /\ ~auth[a].used
  BY <1>1, <1>2 DEF CallOK
<1>4. /\ auth[a] \in AuthRows /\ auth[a].client \in Clients /\ Registered(auth[a].client)
  BY <1>3 DEF GrantsInv, Shaped, AuthOK
<1>5. OfCode(a) = {}
  BY <1>3 DEF OfCode, GrantsInv, GrantOK
<1>6. \A d \in Calls : d # c /\ call[d].at = "locked" /\ call[d].kind = "code" =>
                                   \A b \in Codes : call[d].item = <<b, 0>> => b # a
  BY <1>2 DEF GrantsInv, LocksApart
<1> QED
  BY <1>2, <1>3, <1>4, <1>5, <1>6

LEMMA RefuseCodeStep ==
    ASSUME GrantsInv, NEW c \in Calls, RefuseCode(c) PROVE GrantsInv' /\ Forward
<1>0. /\ call[c].at = "locked" /\ call[c].kind = "code" /\ CallEnds(c)
      /\ UNCHANGED <<client, grants, registering, replayed>>
      /\ auth' = [auth EXCEPT ![call[c].item[1]].used = TRUE]
  BY DEF RefuseCode
<1>1. PICK a \in Codes :
             /\ call[c].item[1] = a /\ Stored(a) /\ auth[a] \in AuthRows
             /\ \A d \in Calls : d # c /\ call[d].at = "locked" /\ call[d].kind = "code" =>
                                   \A b \in Codes : call[d].item = <<b, 0>> => b # a
  BY <1>0, CodeBurned
<1>2. /\ auth' \in [Codes -> AuthRows] /\ Stored(a)' /\ auth'[a].used
      /\ auth'[a].token = auth[a].token /\ auth'[a].client = auth[a].client
      /\ \A b \in Codes : b # a => auth'[b] = auth[b]
  BY <1>0, <1>1 DEF GrantsInv, Shaped, AuthRows, Stored
<1>3. /\ call' \in [Calls -> CallRows] /\ LocksApart' /\ call'[c].at = "idle"
      /\ \A d \in Calls : d # c => call'[d] = call[d]
  BY <1>0, CallLeaves
<1>4. ASSUME NEW g \in DOMAIN grants PROVE GrantOK(g)'
  <2>1. GrantOK(g) /\ grants[g].code \in Codes
    BY GrantShape DEF GrantsInv
  <2> QED
    BY <1>0, <1>2, <2>1 DEF GrantOK, Stored
<1>5. \A b \in Codes : AuthOK(b)'
  BY <1>0, <1>1, <1>2 DEF GrantsInv, AuthOK, Stored, Registered
<1>6. ASSUME NEW d \in Calls PROVE CallOK(d)'
  <2>1. CASE d = c
    BY <1>3, <2>1 DEF CallOK
  <2>2. CASE d # c
    <3>1. CallOK(d) /\ call'[d] = call[d]
      BY <1>3, <2>2 DEF GrantsInv
    <3>2. CASE call[d].at = "locked" /\ call[d].kind = "code"
      <4>1. PICK b \in Codes : call[d].item = <<b, 0>>
        BY <3>1, <3>2 DEF CallOK
      <4>2. call[d].item[1] = b /\ auth'[b] = auth[b]
        BY <1>1, <1>2, <2>2, <3>2, <4>1
      <4> QED
        BY <1>0, <3>1, <3>2, <4>1, <4>2 DEF CallOK, Stored
    <3>3. CASE ~(call[d].at = "locked" /\ call[d].kind = "code")
      BY <1>0, <3>1, <3>3 DEF CallOK
    <3> QED
      BY <3>2, <3>3
  <2> QED
    BY <2>1, <2>2
<1> QED
  BY <1>0, <1>2, <1>3, <1>4, <1>5, <1>6 DEF GrantsInv, Shaped, ReplayedHaveEnded, Forward

LEMMA RedeemCodeStep ==
    ASSUME GrantsInv, NEW c \in Calls, RedeemCode(c) PROVE GrantsInv' /\ Forward
<1> DEFINE grant(a) == [code |-> a, client |-> auth[a].client, ended |-> FALSE,
                        expired |-> FALSE, value |-> 1, refresh |-> <<"live">>]
<1>00. PICK new \in Nat : new = Len(grants) + 1
  <2>1. grants \in Seq(GrantRows)
    BY DEF GrantsInv, Shaped
  <2> QED
    BY <2>1
<1>0. /\ call[c].at = "locked" /\ call[c].kind = "code" /\ CallEnds(c)
      /\ UNCHANGED <<client, registering, replayed>>
  BY DEF RedeemCode
<1>1. PICK a \in Codes :
             /\ call[c].item[1] = a /\ Stored(a) /\ auth[a] \in AuthRows
             /\ auth[a].client \in Clients /\ Registered(auth[a].client) /\ OfCode(a) = {}
             /\ \A d \in Calls : d # c /\ call[d].at = "locked" /\ call[d].kind = "code" =>
                                   \A b \in Codes : call[d].item = <<b, 0>> => b # a
  BY <1>0, CodeBurned
<1>2. /\ grants' = Append(grants, grant(a))
      /\ auth' = [auth EXCEPT ![a].used = TRUE, ![a].token = new]
  BY <1>00, <1>1 DEF RedeemCode
<1>3. grants \in Seq(GrantRows) /\ grant(a) \in GrantRows
  BY <1>1 DEF GrantsInv, Shaped, GrantRows, RefreshRows
<1>4. /\ grants' \in Seq(GrantRows) /\ DOMAIN grants' = DOMAIN grants \cup {new}
      /\ new \notin DOMAIN grants /\ grants'[new] = grant(a) /\ new \in Nat
      /\ \A g \in DOMAIN grants : grants'[g] = grants[g]
  BY <1>00, <1>2, <1>3, OneMore
<1>5. /\ auth' \in [Codes -> AuthRows] /\ Stored(a)' /\ auth'[a].used
      /\ auth'[a].token = new /\ auth'[a].client = auth[a].client
      /\ \A b \in Codes : b # a => auth'[b] = auth[b]
  BY <1>1, <1>2, <1>4 DEF GrantsInv, Shaped, AuthRows, Stored
<1>6. /\ call' \in [Calls -> CallRows] /\ LocksApart' /\ call'[c].at = "idle"
      /\ \A d \in Calls : d # c => call'[d] = call[d]
  BY <1>0, CallLeaves
<1>7. ASSUME NEW g \in DOMAIN grants PROVE GrantOK(g)'
  <2>1. GrantOK(g) /\ grants[g].code \in Codes /\ grants[g].code # a
    BY <1>1, GrantShape DEF GrantsInv, OfCode
  <2> QED
    BY <1>4, <1>5, <2>1 DEF GrantOK, Stored
<1>8. GrantOK(new)'
  <2>1. DOMAIN <<"live">> = {1} /\ <<"live">>[1] = "live"
    OBVIOUS
  <2>2. OneLive(<<"live">>)
    BY <2>1 DEF OneLive
  <2>3. /\ grant(a).code = a /\ grant(a).client = auth[a].client
        /\ grant(a).refresh = <<"live">>
    OBVIOUS
  <2> HIDE DEF grant
  <2>4. /\ grants'[new].code = a /\ grants'[new].client = auth[a].client
        /\ grants'[new].refresh = <<"live">>
    BY <1>4, <2>3
  <2> QED
    BY <1>5, <2>2, <2>4 DEF GrantOK
<1>9. \A b \in Codes : AuthOK(b)'
  BY <1>0, <1>1, <1>5 DEF GrantsInv, AuthOK, Stored, Registered
<1>10. ASSUME NEW d \in Calls PROVE CallOK(d)'
  <2>1. CASE d = c
    BY <1>6, <2>1 DEF CallOK
  <2>2. CASE d # c
    <3>1. CallOK(d) /\ call'[d] = call[d]
      BY <1>6, <2>2 DEF GrantsInv
    <3>2. CASE call[d].at = "locked" /\ call[d].kind = "code"
      <4>1. PICK b \in Codes : call[d].item = <<b, 0>>
        BY <3>1, <3>2 DEF CallOK
      <4>2. call[d].item[1] = b /\ auth'[b] = auth[b]
        BY <1>1, <1>5, <2>2, <3>2, <4>1
      <4> QED
        BY <3>1, <3>2, <4>1, <4>2 DEF CallOK, Stored
    <3>3. CASE call[d].at # "idle" /\ call[d].kind = "refresh"
      <4>1. PICK g \in DOMAIN grants : \E n \in DOMAIN grants[g].refresh : call[d].item = <<g, n>>
        BY <3>1, <3>3 DEF CallOK
      <4>2. g \in DOMAIN grants' /\ grants'[g] = grants[g] /\ call[d].item[1] = g
        BY <1>4, <4>1
      <4> QED
        BY <3>1, <3>3, <4>1, <4>2 DEF CallOK
    <3>4. CASE call[d].at # "locked" /\ call[d].kind = "code"
      BY <3>1, <3>4 DEF CallOK
    <3>5. CASE call[d].at = "idle"
      BY <3>1, <3>5 DEF CallOK
    <3>6. call[d].kind \in {"code", "refresh"}
      BY DEF GrantsInv, Shaped, CallRows
    <3> QED
      BY <3>2, <3>3, <3>4, <3>5, <3>6
  <2> QED
    BY <2>1, <2>2
<1>11. ReplayedHaveEnded' /\ Forward
  BY <1>0, <1>4 DEF GrantsInv, ReplayedHaveEnded, Forward
<1>12. Shaped'
  BY <1>0, <1>4, <1>5, <1>6 DEF GrantsInv, Shaped
<1>13. \A g \in DOMAIN grants' : GrantOK(g)'
  BY <1>4, <1>7, <1>8
<1> QED
  BY <1>6, <1>9, <1>10, <1>11, <1>12, <1>13 DEF GrantsInv

(* The value rotated is the live one, so no other call holds a value of the    *)
(* grant; and a grant ended since it was read gets no other value.             *)
LEMMA RotateRefreshStep ==
    ASSUME GrantsInv, NEW c \in Calls, RotateRefresh(c) PROVE GrantsInv' /\ Forward
<1>0. /\ CallOK(c) /\ UNCHANGED <<client, auth, registering, replayed>>
      /\ call[c].at = "locked" /\ call[c].kind = "refresh" /\ CallEnds(c)
  BY DEF RotateRefresh, GrantsInv
<1>1. PICK g \in DOMAIN grants : \E n \in DOMAIN grants[g].refresh : call[c].item = <<g, n>>
  BY <1>0 DEF CallOK
<1>2. PICK n \in DOMAIN grants[g].refresh : call[c].item = <<g, n>>
  BY <1>1
<1>3. /\ call[c].item[1] = g /\ call[c].item[2] = n /\ grants[g].refresh[n] = "live"
      /\ grants[g] \in GrantRows /\ GrantOK(g) /\ grants[g].refresh \in Seq(RefreshRows)
      /\ grants \in Seq(GrantRows) /\ grants[g].value \in Nat
  BY <1>0, <1>2, GrantShape DEF CallOK, GrantsInv, Shaped
<1> DEFINE values == Append([grants[g].refresh EXCEPT ![n] = "recent"], "live")
<1>4. /\ values \in Seq(RefreshRows) /\ OneLive(values)
      /\ DOMAIN grants[g].refresh \subseteq DOMAIN values
      /\ \A m \in DOMAIN grants[g].refresh : m # n => values[m] = grants[g].refresh[m]
  BY <1>3, RotationKeepsOneLive DEF GrantOK
<1>5. /\ ~grants[g].ended
      /\ grants' = [grants EXCEPT ![g].value = @ + 1, ![g].refresh = values]
  BY <1>3 DEF RotateRefresh, Rotatable
<1> HIDE DEF values
<1>6. /\ DOMAIN grants' = DOMAIN grants
      /\ \A h \in DOMAIN grants : h # g => grants'[h] = grants[h]
      /\ grants'[g] \in GrantRows
      /\ grants'[g].code = grants[g].code /\ grants'[g].client = grants[g].client
      /\ grants'[g].ended = grants[g].ended /\ grants'[g].refresh = values
  <2>1. /\ DOMAIN grants' = DOMAIN grants
        /\ \A h \in DOMAIN grants : h # g => grants'[h] = grants[h]
        /\ grants'[g] = [grants[g] EXCEPT !.value = grants[g].value + 1, !.refresh = values]
    BY <1>5
  <2>2. grants[g].value + 1 \in Nat
    BY <1>3
  <2> QED
    BY <1>3, <1>4, <2>1, <2>2 DEF GrantRows
<1>7. grants' \in Seq(GrantRows)
  <2>1. grants' = [h \in DOMAIN grants |-> grants'[h]]
    BY <1>5
  <2>2. \A h \in DOMAIN grants : grants'[h] \in GrantRows
    BY <1>6, GrantShape DEF GrantsInv
  <2>3. grants' \in [DOMAIN grants -> GrantRows]
    BY <2>1, <2>2
  <2> QED
    BY <1>3, <2>3, StillASequence
<1>8. /\ call' \in [Calls -> CallRows] /\ LocksApart' /\ call'[c].at = "idle"
      /\ \A d \in Calls : d # c => call'[d] = call[d]
  BY <1>0, CallLeaves
<1>9. ASSUME NEW h \in DOMAIN grants PROVE GrantOK(h)'
  <2>1. GrantOK(h)
    BY DEF GrantsInv
  <2>2. CASE h = g
    BY <1>0, <1>4, <1>6, <2>1, <2>2 DEF GrantOK, Stored
  <2>3. CASE h # g
    BY <1>0, <1>6, <2>1, <2>3 DEF GrantOK, Stored
  <2> QED
    BY <2>2, <2>3
<1>10. \A a \in Codes : AuthOK(a)'
  BY <1>0 DEF GrantsInv, AuthOK, Stored, Registered
<1>11. ASSUME NEW d \in Calls PROVE CallOK(d)'
  <2>1. CASE d = c
    BY <1>8, <2>1 DEF CallOK
  <2>2. CASE d # c
    <3>1. CallOK(d) /\ call'[d] = call[d]
      BY <1>8, <2>2 DEF GrantsInv
    <3>2. CASE call[d].at # "idle" /\ call[d].kind = "refresh"
      <4>1. PICK h \in DOMAIN grants : \E m \in DOMAIN grants[h].refresh : call[d].item = <<h, m>>
        BY <3>1, <3>2 DEF CallOK
      <4>2. PICK m \in DOMAIN grants[h].refresh : call[d].item = <<h, m>>
        BY <4>1
      <4>3. call[d].item[1] = h /\ call[d].item[2] = m
        BY <4>2
      <4>4. h \in DOMAIN grants' /\ m \in DOMAIN grants'[h].refresh
        BY <1>4, <1>6
      <4>5. ASSUME call[d].at = "locked" PROVE grants'[h].refresh[m] = "live"
        <5>1. grants[h].refresh[m] = "live"
          BY <3>1, <3>2, <4>3, <4>5 DEF CallOK
        <5>2. h # g
          <6>1. SUFFICES ASSUME h = g PROVE FALSE
            OBVIOUS
          <6>2. m = n
            BY <1>3, <4>2, <5>1, <6>1 DEF GrantOK, OneLive
          <6>3. call[d].item = call[c].item
            BY <1>2, <4>2, <6>1, <6>2
          <6> QED
            BY <1>0, <2>2, <3>2, <4>5, <6>3 DEF GrantsInv, LocksApart
        <5> QED
          BY <1>6, <5>1, <5>2
      <4> QED
        BY <3>1, <3>2, <4>2, <4>3, <4>4, <4>5 DEF CallOK
    <3>3. CASE ~(call[d].at # "idle" /\ call[d].kind = "refresh")
      BY <1>0, <3>1, <3>3 DEF CallOK, Stored
    <3> QED
      BY <3>2, <3>3
  <2> QED
    BY <2>1, <2>2
<1>12. ReplayedHaveEnded' /\ Forward
  BY <1>0, <1>5, <1>6 DEF GrantsInv, ReplayedHaveEnded, Forward
<1> QED
  BY <1>0, <1>6, <1>7, <1>8, <1>9, <1>10, <1>11, <1>12 DEF GrantsInv, Shaped

LEMMA RevokeStep ==
    ASSUME GrantsInv, NEW g \in DOMAIN grants, RevokeGrant(g) PROVE GrantsInv' /\ Forward
<1>0. /\ UNCHANGED <<client, auth, registering, call, replayed>>
      /\ grants' = [grants EXCEPT ![g].ended = TRUE]
  BY DEF RevokeGrant
<1>1. /\ DOMAIN grants' = DOMAIN grants /\ grants' = [h \in DOMAIN grants |-> grants'[h]]
      /\ \A h \in DOMAIN grants :
           grants'[h] = grants[h] \/ grants'[h] = [grants[h] EXCEPT !.ended = TRUE]
  BY <1>0
<1>2. /\ grants' \in Seq(GrantRows)
      /\ \A h \in DOMAIN grants :
             /\ grants'[h].code = grants[h].code /\ grants'[h].client = grants[h].client
             /\ grants'[h].value = grants[h].value /\ grants'[h].refresh = grants[h].refresh
             /\ grants[h].ended => grants'[h].ended
  BY <1>1, EndedGrants
<1>3. ReplayedHaveEnded'
  BY <1>0, <1>1, <1>2 DEF GrantsInv, ReplayedHaveEnded
<1> QED
  BY <1>0, <1>1, <1>2, <1>3, GrantsAge

LEMMA TimeStep == ASSUME GrantsInv, TimePasses PROVE GrantsInv' /\ Forward
<1>0. UNCHANGED <<registering, call, replayed>>
  BY DEF TimePasses
<1>1. CASE \E k \in Clients : /\ client[k] = "fresh" /\ client' = [client EXCEPT ![k] = "old"]
                             /\ UNCHANGED <<auth, grants>>
  <2>1. /\ Shaped' /\ \A k \in Clients : Registered(k) => Registered(k)'
    BY <1>0, <1>1 DEF GrantsInv, Shaped, Registered
  <2>2. \A a \in Codes : AuthOK(a)'
    BY <1>1, <2>1 DEF GrantsInv, AuthOK, Stored
  <2> QED
    BY <1>0, <1>1, <2>1, <2>2, RowsChange DEF Stored
<1>2. ASSUME NEW a \in Codes, Stored(a), auth[a].age < 2, auth' = [auth EXCEPT ![a].age = @ + 1],
             UNCHANGED <<client, grants>>
      PROVE  GrantsInv' /\ Forward
  <2>0. auth \in [Codes -> AuthRows] /\ auth[a].age + 1 \in Ages
    BY <1>2 DEF GrantsInv, Shaped, AuthRows, Ages
  <2>1. /\ auth' \in [Codes -> AuthRows] /\ Stored(a)'
        /\ auth'[a].used = auth[a].used /\ auth'[a].token = auth[a].token
        /\ auth'[a].client = auth[a].client
        /\ \A b \in Codes : b # a => auth'[b] = auth[b]
    BY <1>2, <2>0 DEF AuthRows, Stored
  <2>2. Shaped'
    BY <1>0, <1>2, <2>1 DEF GrantsInv, Shaped
  <2>3. \A b \in Codes : AuthOK(b)'
    BY <1>2, <2>1 DEF GrantsInv, AuthOK, Registered, Stored
  <2> QED
    BY <1>0, <1>2, <2>1, <2>2, <2>3, RowsChange DEF Stored
<1>3. ASSUME NEW g \in DOMAIN grants, UNCHANGED <<client, auth>>,
             \/ \E n \in DOMAIN grants[g].refresh :
                    /\ grants[g].refresh[n] = "recent"
                    /\ grants' = [grants EXCEPT ![g].refresh[n] = "past"]
             \/ grants' = [grants EXCEPT ![g].expired = TRUE]
      PROVE  GrantsInv' /\ Forward
  <2>0. /\ grants[g] \in GrantRows /\ grants[g].refresh \in Seq(RefreshRows)
        /\ grants \in Seq(GrantRows)
    BY GrantShape DEF GrantsInv, Shaped
  <2>1. /\ DOMAIN grants' = DOMAIN grants /\ grants' = [h \in DOMAIN grants |-> grants'[h]]
        /\ \A h \in DOMAIN grants : h # g => grants'[h] = grants[h]
    BY <1>3
  <2>2. /\ grants'[g] \in GrantRows
        /\ grants'[g].code = grants[g].code /\ grants'[g].client = grants[g].client
        /\ grants'[g].value = grants[g].value /\ grants'[g].ended = grants[g].ended
        /\ DOMAIN grants'[g].refresh = DOMAIN grants[g].refresh
        /\ \A n \in DOMAIN grants[g].refresh :
             grants'[g].refresh[n] = "live" <=> grants[g].refresh[n] = "live"
    <3>1. CASE grants' = [grants EXCEPT ![g].expired = TRUE]
      <4>1. grants'[g] = [grants[g] EXCEPT !.expired = TRUE]
        BY <3>1
      <4> QED
        BY <2>0, <4>1 DEF GrantRows
    <3>2. CASE \E n \in DOMAIN grants[g].refresh :
                 /\ grants[g].refresh[n] = "recent"
                 /\ grants' = [grants EXCEPT ![g].refresh[n] = "past"]
      <4>1. PICK n \in DOMAIN grants[g].refresh :
                 /\ grants[g].refresh[n] = "recent"
                 /\ grants' = [grants EXCEPT ![g].refresh[n] = "past"]
        BY <3>2
      <4> DEFINE values == [grants[g].refresh EXCEPT ![n] = "past"]
      <4>2. /\ values \in Seq(RefreshRows) /\ DOMAIN values = DOMAIN grants[g].refresh
            /\ \A m \in DOMAIN grants[g].refresh :
                 values[m] = "live" <=> grants[g].refresh[m] = "live"
        <5>1. values \in [DOMAIN grants[g].refresh -> RefreshRows]
          BY <2>0 DEF RefreshRows
        <5> QED
          BY <2>0, <4>1, <5>1, StillASequence
      <4>3. grants'[g] = [grants[g] EXCEPT !.refresh = values]
        BY <4>1
      <4> HIDE DEF values
      <4> QED
        BY <2>0, <4>2, <4>3 DEF GrantRows
    <3> QED
      BY <1>3, <3>1, <3>2
  <2>3. grants' \in Seq(GrantRows)
    <3>1. \A h \in DOMAIN grants : grants'[h] \in GrantRows
      BY <2>1, <2>2, GrantShape DEF GrantsInv
    <3>2. grants' \in [DOMAIN grants -> GrantRows]
      BY <2>1, <3>1
    <3> QED
      BY <2>0, <3>2, StillASequence
  <2>4. ReplayedHaveEnded'
    BY <1>0, <2>1, <2>2 DEF GrantsInv, ReplayedHaveEnded
  <2> QED
    BY <1>0, <1>3, <2>1, <2>2, <2>3, <2>4, GrantsAge
<1> QED
  BY <1>1, <1>2, <1>3 DEF TimePasses

LEMMA GrantsNext == GrantsInv /\ [ConnectorNext]_connectorVars => GrantsInv' /\ Forward
<1> SUFFICES ASSUME GrantsInv, [ConnectorNext]_connectorVars PROVE GrantsInv' /\ Forward
  OBVIOUS
<1>1. CASE RegisterReads
  <2>1. /\ UNCHANGED <<client, auth, grants, call, replayed>>
        /\ registering'.doomed \subseteq Clients
    BY <1>1 DEF RegisterReads
  <2>2. Shaped' /\ \A a \in Codes : AuthOK(a)'
    BY <2>1 DEF GrantsInv, Shaped, AuthOK, Stored, Registered
  <2> QED
    BY <2>1, <2>2, RowsChange DEF Stored
<1>2. CASE RegisterCommits
  BY <1>2, SweepStep
<1>3. CASE TimePasses
  BY <1>3, TimeStep
<1>4. ASSUME NEW a \in Codes, ApproveRequest(a) \/ DenyRequest(a)
                               \/ \E k \in Clients : BeginAuthorization(a, k)
      PROVE  GrantsInv' /\ Forward
  BY <1>4, RequestSteps
<1>5. ASSUME NEW c \in Calls,
             \/ \E a \in Codes : PresentCode(c, a)
             \/ \E g \in DOMAIN grants : \E n \in DOMAIN grants[g].refresh : PresentRefresh(c, g, n)
      PROVE  GrantsInv' /\ Forward
  BY <1>5, PresentSteps
<1>6. ASSUME NEW c \in Calls, LockCode(c) \/ RefuseCode(c) \/ RedeemCode(c)
      PROVE  GrantsInv' /\ Forward
  BY <1>6, LockCodeStep, RefuseCodeStep, RedeemCodeStep
<1>7. ASSUME NEW c \in Calls, LockRefresh(c) \/ RotateRefresh(c) PROVE GrantsInv' /\ Forward
  BY <1>7, LockRefreshStep, RotateRefreshStep
<1>8. ASSUME NEW c \in Calls, RefuseRefresh(c) \/ LoseCall(c) PROVE GrantsInv' /\ Forward
  BY <1>8, JustLeaves DEF RefuseRefresh, LoseCall
<1>9. ASSUME NEW g \in DOMAIN grants, RevokeGrant(g) PROVE GrantsInv' /\ Forward
  BY <1>9, RevokeStep
<1>10. CASE UNCHANGED connectorVars
  <2>1. Shaped' /\ \A a \in Codes : AuthOK(a)'
    BY <1>10 DEF connectorVars, GrantsInv, Shaped, AuthOK, Stored, Registered
  <2> QED
    BY <1>10, <2>1, RowsChange DEF connectorVars, Stored
<1> QED
  BY <1>1, <1>2, <1>3, <1>4, <1>5, <1>6, <1>7, <1>8, <1>9, <1>10 DEF ConnectorNext
-----------------------------------------------------------------------------
(* A code is redeemed for one grant at most, the grant has one live refresh    *)
(* value, and a grant whose code or long rotated value was presented again has *)
(* ended, however late: the row that names the grant outlives every cleanup    *)
(* (exchange_code, refresh, delete_expired_authorizations, register_client).   *)
THEOREM CodesAreSpentOnce == ConnectorSpec => []CodeSpentOnce
<1>1. GrantsInv => CodeSpentOnce
  <2> SUFFICES ASSUME GrantsInv PROVE CodeSpentOnce
    OBVIOUS
  <2>1. ASSUME NEW a \in Codes PROVE Cardinality(OfCode(a)) <= 1
    <3>1. OfCode(a) \in SUBSET {auth[a].token}
      BY DEF OfCode, GrantsInv, GrantOK
    <3>2. IsFiniteSet({auth[a].token}) /\ Cardinality({auth[a].token}) = 1
      BY FS_Singleton
    <3>3. Cardinality(OfCode(a)) \in Nat /\ Cardinality(OfCode(a)) <= Cardinality({auth[a].token})
      BY <3>1, <3>2, FS_Subset, FS_CardinalityType
    <3> QED
      BY <3>2, <3>3
  <2>2. ASSUME NEW g \in DOMAIN grants
        PROVE  Cardinality({n \in DOMAIN grants[g].refresh : grants[g].refresh[n] = "live"}) = 1
    <3>1. PICK n \in DOMAIN grants[g].refresh :
            \A m \in DOMAIN grants[g].refresh : grants[g].refresh[m] = "live" <=> m = n
      BY DEF GrantsInv, GrantOK, OneLive
    <3>2. {m \in DOMAIN grants[g].refresh : grants[g].refresh[m] = "live"} = {n}
      BY <3>1
    <3> QED
      BY <3>2, FS_Singleton
  <2> QED
    BY <2>1, <2>2 DEF CodeSpentOnce, GrantsInv, ReplayedHaveEnded
<1> QED
  BY <1>1, GrantsInitially, GrantsNext, PTL DEF ConnectorSpec

(* A grant that has ended stays ended and no call gives it another value, not  *)
(* even one that read it as live before it ended; its client stays registered, *)
(* also where the cleanup read the client as abandoned before the grant was    *)
(* issued (rotate_access_token, revoke_handler, register_client).              *)
THEOREM RevokedGrantsStayDead == ConnectorSpec => RevokedStaysDead
<1> DEFINE Dead == \A g \in DOMAIN grants :
                     /\ g \in DOMAIN grants' /\ Registered(grants[g].client)'
                     /\ grants[g].ended =>
                          grants'[g].ended /\ grants'[g].value = grants[g].value
<1>1. GrantsInv /\ [ConnectorNext]_connectorVars => Dead
  <2> SUFFICES ASSUME GrantsInv, [ConnectorNext]_connectorVars, NEW g \in DOMAIN grants
               PROVE  /\ g \in DOMAIN grants' /\ Registered(grants[g].client)'
                      /\ grants[g].ended =>
                          grants'[g].ended /\ grants'[g].value = grants[g].value
    OBVIOUS
  <2>1. GrantsInv' /\ Forward
    BY GrantsNext
  <2>2. g \in DOMAIN grants'
    BY <2>1 DEF Forward
  <2>3. GrantOK(g)' /\ grants'[g].code \in Codes
    <3>1. GrantOK(g)' /\ Shaped'
      BY <2>1, <2>2 DEF GrantsInv
    <3>2. grants' \in Seq(GrantRows)
      BY <3>1 DEF Shaped
    <3>3. grants'[g] \in GrantRows
      BY <2>2, <3>2
    <3> QED
      BY <3>1, <3>3 DEF GrantRows
  <2>4. Registered(grants[g].client)'
    BY <2>1, <2>3 DEF GrantsInv, GrantOK, AuthOK
  <2> QED
    BY <2>1, <2>2, <2>4 DEF Forward
<1>2. GrantsInv /\ [ConnectorNext]_connectorVars => [Dead]_connectorVars
  BY <1>1
<1> QED
  BY <1>2, GrantsInitially, GrantsNext, PTL DEF ConnectorSpec, RevokedStaysDead

-----------------------------------------------------------------------------
(* The due-work index.                                                       *)

PassRows ==
    [at : {"idle", "pass", "drain", "record"}, todo : SUBSET Workspaces,
     workspace : Workspaces \cup {NoWorkspace}, started : Nat,
     observed : [Workspaces -> Nat], ran : 0..MaxPerVisit, next : Nat]

(* A pass starts before it is over and lasts PassTicks at most; a worker that  *)
(* drains or records a workspace has it to do, and what it is about to record  *)
(* is no later than what it knew of, unless the visit raised.                  *)
RunsWell(row, clock, items, fails) ==
    /\ row.at = "idle" => row.todo = {}
    /\ row.at # "idle" => row.started <= clock /\ clock <= row.started + PassTicks
    /\ row.at \in {"drain", "record"} => row.workspace \in row.todo
    /\ row.at = "record" =>
         /\ row.started <= row.next
         /\ \A t \in items[row.workspace] :
              \/ row.next <= t \/ row.next <= clock \/ row.started <= t
              \/ row.next <= fails[row.workspace] + Backoff

(* A mark is as late as a pass at most.                                        *)
MarksFollow == \A m \in marks : m[2] <= now /\ now <= m[2] + PassTicks

PassInv ==
    /\ TypeOK /\ MarksFollow
    /\ \A s \in Workspaces : index[s] <= now + Reconcile /\ lastFailed[s] <= now
    /\ \A w \in Workers : RunsWell(worker[w], now, work, lastFailed)

LEMMA IdlePass == Idle \in PassRows /\ Idle.at = "idle" /\ Idle.todo = {}
  BY WorkIndexAssumption DEF Idle, Absent, PassRows

LEMMA IndexInitially == Init => PassInv /\ BoundedDelay
<1> SUFFICES ASSUME Init PROVE PassInv /\ BoundedDelay
  OBVIOUS
<1>1. Idle \in [at : {"idle", "pass", "drain", "record"}, todo : SUBSET Workspaces,
                workspace : Workspaces \cup {NoWorkspace}, started : Nat,
                observed : [Workspaces -> Nat], ran : 0..MaxPerVisit, next : Nat]
  BY WorkIndexAssumption DEF Idle, Absent
<1>2. worker \in [Workers -> {Idle}] /\ \A w \in Workers : worker[w] = Idle
  BY DEF Init
<1>3. TypeOK
  BY <1>1, <1>2, WorkIndexAssumption DEF Init, TypeOK, Absent
<1>4. Idle.at = "idle" /\ Idle.todo = {}
  BY DEF Idle
<1> QED
  BY <1>2, <1>3, <1>4, WorkIndexAssumption
  DEF Init, PassInv, RunsWell, MarksFollow, BoundedDelay, Absent

(* The instant a visit records: once the next item is due, at once after a     *)
(* visit cut short, or not for a while when nothing is left.                   *)
LEMMA NextInstant ==
    ASSUME PassInv, NEW w \in Workers, EndVisit(w)
    PROVE  /\ NextDueAt(w) \in Nat /\ worker[w].started <= NextDueAt(w)
           /\ \A t \in work[worker[w].workspace] :
                NextDueAt(w) <= t \/ NextDueAt(w) <= now
<1> DEFINE S == work[worker[w].workspace]
<1>1. /\ worker[w].workspace \in Workspaces
      /\ worker[w].started \in Nat /\ worker[w].started <= now
      /\ worker[w].ran \in 0..MaxPerVisit /\ now \in 1..Horizon
  BY DEF PassInv, TypeOK, RunsWell, EndVisit
<1>2. S \in SUBSET Nat
  BY <1>1 DEF PassInv, TypeOK
<1>3. CASE S = {}
  BY <1>1, <1>3, WorkIndexAssumption DEF NextDueAt, Nothing
<1>4. CASE S # {} /\ worker[w].ran = MaxPerVisit
  BY <1>1, <1>4 DEF NextDueAt
<1>5. CASE S # {} /\ worker[w].ran # MaxPerVisit
  <2>1. NextDueAt(w) = Soonest(S)
    BY <1>5 DEF NextDueAt
  <2>2. Soonest(S) \in S /\ \A t \in S : Soonest(S) <= t
    BY <1>2, <1>5, LeastOne DEF Soonest
  <2>3. \A t \in S : t > now
    BY <1>1, <1>5, WorkIndexAssumption DEF EndVisit
  <2> QED
    BY <1>1, <1>2, <2>1, <2>2, <2>3
<1> QED
  BY <1>3, <1>4, <1>5

(* A step that writes one worker's row, and no item.                           *)
LEMMA OneWorkerMoves ==
    ASSUME PassInv, NEW w \in Workers, NEW row \in PassRows,
           worker' = [worker EXCEPT ![w] = row],
           RunsWell(row, now, work, lastFailed'),
           lastFailed' \in [Workspaces -> 0..Horizon],
           \A s \in Workspaces : lastFailed[s] <= lastFailed'[s] /\ lastFailed'[s] <= now,
           index' \in [Workspaces -> Nat],
           \A s \in Workspaces : index'[s] <= now + Reconcile,
           faults' \in 0..MaxFaults, UNCHANGED <<now, work, marks, enqueues>>
    PROVE  PassInv'
<1>1. worker' \in [Workers -> PassRows]
  BY DEF PassInv, TypeOK, PassRows
<1>2. TypeOK'
  BY <1>1 DEF PassInv, TypeOK, PassRows
<1>3. \A v \in Workers : RunsWell(worker'[v], now', work', lastFailed')
  <2> SUFFICES ASSUME NEW v \in Workers
               PROVE  RunsWell(worker'[v], now, work, lastFailed')
    OBVIOUS
  <2>1. CASE v = w
    BY <2>1 DEF PassInv, TypeOK
  <2>2. CASE v # w
    <3>1. worker'[v] = worker[v] /\ worker[v] \in PassRows
      BY <2>2 DEF PassInv, TypeOK, PassRows
    <3>2. RunsWell(worker[v], now, work, lastFailed)
      BY DEF PassInv
    <3>3. worker[v].todo \subseteq Workspaces
      BY <3>1 DEF PassRows
    <3>4. \A s \in Workspaces : lastFailed[s] \in Nat /\ lastFailed'[s] \in Nat
      BY DEF PassInv, TypeOK
    <3>5. CASE worker[v].at = "record"
      <4>1. worker[v].workspace \in Workspaces /\ worker[v].next \in Nat
        BY <3>1, <3>2, <3>3, <3>5 DEF RunsWell, PassRows
      <4> QED
        BY <3>1, <3>2, <3>4, <3>5, <4>1, WorkIndexAssumption DEF RunsWell
    <3> QED
      BY <3>1, <3>2, <3>5 DEF RunsWell
  <2> QED
    BY <2>1, <2>2
<1> QED
  BY <1>2, <1>3 DEF PassInv, MarksFollow

(* Items that come are no older than the passes under way.                     *)
LEMMA ItemsCome ==
    ASSUME PassInv, NEW s \in Workspaces, NEW items \in SUBSET Nat,
           \A t \in items : t \in work[s] \/ now <= t,
           work' = [work EXCEPT ![s] = items], UNCHANGED <<now, lastFailed>>,
           NEW w \in Workers
    PROVE  RunsWell(worker[w], now', work', lastFailed')
<1>1. RunsWell(worker[w], now, work, lastFailed) /\ worker[w] \in PassRows
  BY DEF PassInv, TypeOK, PassRows
<1>2. \A r \in Workspaces : \A t \in work'[r] : t \in Nat /\ (t \in work[r] \/ now <= t)
  BY DEF PassInv, TypeOK
<1>3. worker[w].started \in Nat /\ now \in Nat
  BY <1>1 DEF PassRows, PassInv, TypeOK
<1>4. worker[w].at = "record" => worker[w].workspace \in Workspaces
  BY <1>1 DEF RunsWell, PassRows
<1> QED
  BY <1>1, <1>2, <1>3, <1>4 DEF RunsWell

LEMMA PassInvKept == PassInv /\ [Next]_vars => PassInv'
<1> SUFFICES ASSUME PassInv, [Next]_vars PROVE PassInv'
  OBVIOUS
<1>1. /\ now \in 1..Horizon /\ index \in [Workspaces -> Nat] /\ work \in [Workspaces -> SUBSET Nat]
      /\ marks \subseteq Workspaces \X (1..Horizon) /\ worker \in [Workers -> PassRows]
      /\ faults \in 0..MaxFaults /\ enqueues \in 0..MaxEnqueues
      /\ lastFailed \in [Workspaces -> 0..Horizon]
      /\ \A s \in Workspaces : index[s] <= now + Reconcile /\ lastFailed[s] <= now
      /\ \A w \in Workers : RunsWell(worker[w], now, work, lastFailed)
  BY DEF PassInv, TypeOK, PassRows
<1>2. \A s \in Workspaces : lastFailed[s] <= lastFailed[s] /\ lastFailed[s] <= now
  BY <1>1
<1>3. ASSUME NEW s \in Workspaces, Enqueue(s) PROVE PassInv'
  <2> DEFINE items == work[s] \cup {now}
  <2>1. items \in SUBSET Nat /\ \A t \in items : t \in work[s] \/ now <= t
    BY <1>1
  <2>2. /\ work' = [work EXCEPT ![s] = items] /\ marks' = marks \cup {<<s, now>>}
        /\ enqueues' \in 0..MaxEnqueues
        /\ UNCHANGED <<now, index, worker, faults, lastFailed>>
    BY <1>1, <1>3, WorkIndexAssumption DEF Enqueue
  <2> HIDE DEF items
  <2>3. \A w \in Workers : RunsWell(worker[w], now', work', lastFailed')
    BY <2>1, <2>2, ItemsCome
  <2>4. MarksFollow'
    BY <1>1, <2>2, WorkIndexAssumption DEF PassInv, MarksFollow
  <2>5. TypeOK'
    BY <1>1, <2>1, <2>2 DEF TypeOK, PassRows
  <2> QED
    BY <1>1, <2>2, <2>3, <2>4, <2>5 DEF PassInv
<1>4. ASSUME NEW s \in Workspaces, NEW t \in 1..Horizon, MarkWorkDue(s, t) PROVE PassInv'
  <2>1. PICK at \in {t, now} :
          index' = [index EXCEPT ![s] = IF @ = Absent THEN at ELSE Least(@, at)]
    BY <1>4 DEF MarkWorkDue
  <2>2. /\ <<s, t>> \in marks /\ marks' = marks \ {<<s, t>>}
        /\ UNCHANGED <<now, work, worker, enqueues, faults, lastFailed>>
    BY <1>4 DEF MarkWorkDue
  <2>3. at \in Nat /\ at <= now
    BY <1>1, <2>2 DEF PassInv, MarksFollow
  <2>4. index' \in [Workspaces -> Nat] /\ \A r \in Workspaces : index'[r] <= now + Reconcile
    BY <1>1, <2>1, <2>3, WorkIndexAssumption DEF Least
  <2>5. TypeOK'
    BY <1>1, <2>2, <2>4 DEF TypeOK, PassRows
  <2>6. MarksFollow'
    BY <2>2 DEF PassInv, MarksFollow
  <2> QED
    BY <1>1, <2>2, <2>4, <2>5, <2>6 DEF PassInv
<1>5. ASSUME NEW s \in Workspaces, NEW t \in 1..Horizon, LoseMark(s, t) PROVE PassInv'
  <2>1. /\ marks' = marks \ {<<s, t>>}
        /\ UNCHANGED <<now, index, work, worker, enqueues, faults, lastFailed>>
    BY <1>5 DEF LoseMark
  <2>2. TypeOK' /\ MarksFollow'
    BY <1>1, <2>1 DEF PassInv, MarksFollow, TypeOK, PassRows
  <2> QED
    BY <1>1, <2>1, <2>2 DEF PassInv
<1>6. ASSUME NEW w \in Workers, WorkspacesWithDueWork(w) PROVE PassInv'
  <2>1. PICK S \in SUBSET Workspaces :
          worker' = [worker EXCEPT ![w] =
              [Idle EXCEPT !.at = "pass", !.todo = S, !.started = now,
                           !.observed = [s \in Workspaces |->
                                           IF s \in S THEN index[s] ELSE Absent]]]
    BY <1>6 DEF WorkspacesWithDueWork
  <2> DEFINE seen == [s \in Workspaces |-> IF s \in S THEN index[s] ELSE Absent]
             row  == [Idle EXCEPT !.at = "pass", !.todo = S, !.started = now,
                                  !.observed = seen]
  <2>2. row \in PassRows /\ row.at = "pass" /\ row.started = now
    <3>1. seen \in [Workspaces -> Nat] /\ now \in Nat
      BY <1>1 DEF Absent
    <3> HIDE DEF seen
    <3> QED
      BY <3>1, IdlePass DEF PassRows
  <2>3. RunsWell(row, now, work, lastFailed)
    <3> HIDE DEF row
    <3> QED
      BY <1>1, <2>2, WorkIndexAssumption DEF RunsWell
  <2> HIDE DEF row
  <2>4. worker' = [worker EXCEPT ![w] = row]
    BY <2>1 DEF row
  <2> QED
    BY <1>1, <1>2, <1>6, <2>2, <2>3, <2>4, OneWorkerMoves DEF WorkspacesWithDueWork
<1>7. ASSUME NEW w \in Workers, NEW s \in Workspaces, VisitWorkspace(w, s) PROVE PassInv'
  <2> DEFINE row == [worker[w] EXCEPT !.at = "drain", !.workspace = s, !.ran = 0]
  <2>1. row \in PassRows /\ RunsWell(row, now, work, lastFailed)
    <3>1. /\ worker[w] \in PassRows /\ RunsWell(worker[w], now, work, lastFailed)
          /\ worker[w].at = "pass" /\ s \in worker[w].todo
      BY <1>1, <1>7 DEF VisitWorkspace
    <3>2. row \in PassRows
      <4>1. 0 \in 0..MaxPerVisit
        BY WorkIndexAssumption
      <4> QED
        BY <3>1, <4>1 DEF PassRows
    <3> QED
      BY <3>1, <3>2 DEF RunsWell, PassRows
  <2>2. worker' = [worker EXCEPT ![w] = row]
    BY <1>1, <1>7 DEF VisitWorkspace, PassRows
  <2> HIDE DEF row
  <2> QED
    BY <1>1, <1>2, <1>7, <2>1, <2>2, OneWorkerMoves DEF VisitWorkspace, PassRows
<1>8. ASSUME NEW w \in Workers, RunItem(w) PROVE PassInv'
  <2> DEFINE s == worker[w].workspace
             row == [worker[w] EXCEPT !.ran = @ + 1]
  <2>1. s \in Workspaces /\ worker[w].at = "drain"
    BY <1>1, <1>8 DEF RunItem, RunsWell, PassRows
  <2>2. PICK items \in SUBSET Nat :
          /\ work' = [work EXCEPT ![s] = items]
          /\ \A t \in items : t \in work[s] \/ now <= t
    <3>1. PICK t \in work[s] :
            \/ work' = [work EXCEPT ![s] = @ \ {t}]
            \/ work' = [work EXCEPT ![s] = (@ \ {t}) \cup {now + Backoff}]
      BY <1>8 DEF RunItem, PassRows
    <3>2. CASE work' = [work EXCEPT ![s] = work[s] \ {t}]
      BY <1>1, <2>1, <3>2
    <3>3. CASE work' = [work EXCEPT ![s] = (work[s] \ {t}) \cup {now + Backoff}]
      <4>1. (work[s] \ {t}) \cup {now + Backoff} \in SUBSET Nat
        BY <1>1, <2>1, WorkIndexAssumption
      <4>2. now <= now + Backoff
        BY <1>1, WorkIndexAssumption
      <4> QED
        BY <3>3, <4>1, <4>2
    <3> QED
      BY <1>1, <2>1, <3>1, <3>2, <3>3
  <2>3. /\ row \in PassRows /\ row.at = "drain"
        /\ worker' = [worker EXCEPT ![w] = row]
        /\ UNCHANGED <<now, index, marks, enqueues, faults, lastFailed>>
    <3>1. worker[w] \in PassRows /\ worker[w].ran < MaxPerVisit
      BY <1>1, <1>8 DEF RunItem
    <3>2. worker[w].ran + 1 \in 0..MaxPerVisit
      BY <3>1, WorkIndexAssumption DEF PassRows
    <3>3. row \in PassRows
      BY <3>1, <3>2 DEF PassRows
    <3> QED
      BY <1>8, <2>1, <3>1, <3>3 DEF RunItem, PassRows
  <2>4. \A v \in Workers : RunsWell(worker[v], now', work', lastFailed')
    BY <2>1, <2>2, <2>3, ItemsCome
  <2>5. RunsWell(row, now', work', lastFailed')
    BY <1>1, <2>1, <2>4 DEF RunsWell
  <2> HIDE DEF row, s
  <2>6. \A v \in Workers : RunsWell(worker'[v], now', work', lastFailed')
    BY <1>1, <2>3, <2>4, <2>5
  <2>7. TypeOK' /\ MarksFollow'
    BY <1>1, <2>1, <2>2, <2>3 DEF PassInv, TypeOK, MarksFollow, PassRows
  <2> QED
    BY <1>1, <2>3, <2>6, <2>7 DEF PassInv
<1>9. ASSUME NEW w \in Workers, EndVisit(w) PROVE PassInv'
  <2> DEFINE row == [worker[w] EXCEPT !.at = "record", !.next = NextDueAt(w)]
  <2>1. /\ NextDueAt(w) \in Nat /\ worker[w].started <= NextDueAt(w)
        /\ \A t \in work[worker[w].workspace] : NextDueAt(w) <= t \/ NextDueAt(w) <= now
    BY <1>9, NextInstant
  <2>2. row \in PassRows /\ RunsWell(row, now, work, lastFailed)
    BY <1>1, <1>9, <2>1 DEF EndVisit, RunsWell, PassRows
  <2>3. worker' = [worker EXCEPT ![w] = row]
    BY <1>1, <1>9 DEF EndVisit, PassRows
  <2> HIDE DEF row
  <2> QED
    BY <1>1, <1>2, <1>9, <2>2, <2>3, OneWorkerMoves DEF EndVisit, PassRows
<1>10. ASSUME NEW w \in Workers, VisitFails(w) PROVE PassInv'
  <2> DEFINE row == [worker[w] EXCEPT !.at = "record", !.next = worker[w].started + Backoff]
  <2>1. /\ worker' = [worker EXCEPT ![w] = row] /\ faults' \in 0..MaxFaults
        /\ lastFailed' = [lastFailed EXCEPT ![worker[w].workspace] = now]
        /\ UNCHANGED <<now, index, work, marks, enqueues>>
    <3>1. faults' \in 0..MaxFaults
      BY <1>1, <1>10, WorkIndexAssumption DEF VisitFails
    <3> QED
      BY <1>1, <1>10, <3>1 DEF VisitFails
  <2>2. /\ worker[w].workspace \in Workspaces /\ worker[w].started \in Nat
        /\ worker[w].started <= now
    BY <1>1, <1>10 DEF VisitFails, RunsWell, PassRows
  <2>3. /\ lastFailed' \in [Workspaces -> 0..Horizon]
        /\ \A s \in Workspaces : lastFailed[s] <= lastFailed'[s] /\ lastFailed'[s] <= now
    BY <1>1, <2>1, <2>2
  <2>4. row \in PassRows
    <3>1. worker[w] \in PassRows /\ worker[w].started + Backoff \in Nat
      BY <1>1, <2>2, WorkIndexAssumption
    <3> QED
      BY <3>1 DEF PassRows
  <2>5. lastFailed'[worker[w].workspace] = now
    BY <1>1, <2>1, <2>2
  <2>6. RunsWell(row, now, work, lastFailed')
    BY <1>1, <1>10, <2>2, <2>5, WorkIndexAssumption DEF VisitFails, RunsWell, PassRows
  <2> HIDE DEF row
  <2> QED
    BY <1>1, <2>1, <2>3, <2>4, <2>6, OneWorkerMoves
<1>11. ASSUME NEW w \in Workers, RecordVisit(w) PROVE PassInv'
  <2> DEFINE s == worker[w].workspace
             todo == worker[w].todo \ {s}
             more == [worker[w] EXCEPT !.at = "pass", !.todo = todo,
                                       !.workspace = NoWorkspace,
                                       !.observed[s] = Absent, !.ran = 0, !.next = 0]
             row  == IF todo = {} THEN Idle ELSE more
  <2>1. worker' = [worker EXCEPT ![w] = row]
    BY <1>11 DEF RecordVisit
  <2>2. row \in PassRows /\ RunsWell(row, now, work, lastFailed)
    <3>1. CASE todo = {}
      BY <3>1, IdlePass DEF RunsWell
    <3>2. CASE todo # {}
      <4>1. /\ worker[w] \in PassRows /\ RunsWell(worker[w], now, work, lastFailed)
            /\ worker[w].at = "record"
        BY <1>1, <1>11 DEF RecordVisit
      <4>2. [worker[w].observed EXCEPT ![s] = Absent] \in [Workspaces -> Nat]
        BY <4>1 DEF PassRows, Absent
      <4>3. more \in PassRows
        <5> DEFINE seen == [worker[w].observed EXCEPT ![s] = Absent]
        <5>1. more = [worker[w] EXCEPT !.at = "pass", !.todo = todo,
                                       !.workspace = NoWorkspace,
                                       !.observed = seen, !.ran = 0, !.next = 0]
          BY <4>1 DEF PassRows
        <5>2. seen \in [Workspaces -> Nat] /\ todo \in SUBSET Workspaces
          BY <4>1, <4>2 DEF PassRows
        <5>3. 0 \in 0..MaxPerVisit /\ 0 \in Nat
          BY WorkIndexAssumption
        <5> HIDE DEF seen, todo, more
        <5> QED
          BY <4>1, <5>1, <5>2, <5>3 DEF PassRows
      <4>4. more.at = "pass" /\ more.started = worker[w].started
        BY <4>1 DEF PassRows
      <4> QED
        BY <3>2, <4>1, <4>3, <4>4 DEF RunsWell
    <3> QED
      BY <3>1, <3>2
  <2>3. s \in Workspaces /\ worker[w].next \in Nat
    BY <1>1, <1>11 DEF RecordVisit, RunsWell, PassRows
  <2>4. NewDueAt(worker[w].next) \in Nat /\ NewDueAt(worker[w].next) <= now + Reconcile
    BY <1>1, <2>3, WorkIndexAssumption DEF NewDueAt, Least
  <2>5. /\ index' \in [Workspaces -> Nat]
        /\ \A r \in Workspaces : index'[r] <= now + Reconcile
    BY <1>1, <1>11, <2>3, <2>4 DEF RecordVisit
  <2> HIDE DEF row
  <2> QED
    BY <1>1, <1>2, <1>11, <2>1, <2>2, <2>5, OneWorkerMoves DEF RecordVisit
<1>12. ASSUME NEW w \in Workers, Crash(w) PROVE PassInv'
  <2>1. Idle \in PassRows /\ RunsWell(Idle, now, work, lastFailed)
    BY IdlePass DEF RunsWell
  <2>2. faults' \in 0..MaxFaults
    BY <1>1, <1>12, WorkIndexAssumption DEF Crash
  <2> QED
    BY <1>1, <1>2, <1>12, <2>1, <2>2, OneWorkerMoves DEF Crash
<1>13. ASSUME Tick PROVE PassInv'
  <2>1. TypeOK' /\ MarksFollow'
    BY <1>1, <1>13, WorkIndexAssumption DEF PassInv, TypeOK, MarksFollow, Tick
  <2>2. \A s \in Workspaces : index'[s] <= now' + Reconcile /\ lastFailed'[s] <= now'
    BY <1>1, <1>13, WorkIndexAssumption DEF Tick
  <2>3. ASSUME NEW w \in Workers PROVE RunsWell(worker'[w], now', work', lastFailed')
    <3>1. /\ worker[w] \in PassRows /\ RunsWell(worker[w], now, work, lastFailed)
          /\ worker[w].started \in Nat /\ worker[w].next \in Nat
      BY <1>1 DEF PassRows
    <3>2. now' = now + 1 /\ UNCHANGED <<worker, work, lastFailed>>
      BY <1>13 DEF Tick
    <3>3. worker[w].at # "idle" => now < worker[w].started + PassTicks
      BY <1>13 DEF Tick
    <3> QED
      BY <1>1, <3>1, <3>2, <3>3, WorkIndexAssumption DEF RunsWell
  <2> QED
    BY <2>1, <2>2, <2>3 DEF PassInv
<1>14. CASE UNCHANGED vars
  BY <1>1, <1>14 DEF PassInv, TypeOK, MarksFollow, vars, PassRows
<1>15. \A m \in marks : m[1] \in Workspaces /\ m[2] \in 1..Horizon
  BY <1>1
<1> QED
  BY <1>3, <1>4, <1>5, <1>6, <1>7, <1>8, <1>9, <1>10, <1>11, <1>12, <1>13, <1>14, <1>15 DEF Next

(* What one item is owed.                                                      *)
OnTime(due, t, clock, raised) ==
    due <= clock \/ due <= t + Reconcile + PassTicks \/ due <= raised + Backoff

LEMMA DelayKept == PassInv /\ PassInv' /\ BoundedDelay /\ [Next]_vars => BoundedDelay'
<1> SUFFICES ASSUME PassInv, PassInv', BoundedDelay, [Next]_vars PROVE BoundedDelay'
  OBVIOUS
<1>1. /\ now \in Nat /\ index \in [Workspaces -> Nat] /\ work \in [Workspaces -> SUBSET Nat]
      /\ lastFailed \in [Workspaces -> Nat] /\ worker \in [Workers -> PassRows]
      /\ marks \subseteq Workspaces \X (1..Horizon)
      /\ \A s \in Workspaces : index[s] <= now + Reconcile
      /\ \A s \in Workspaces : \A t \in work[s] : OnTime(index[s], t, now, lastFailed[s])
  BY DEF PassInv, TypeOK, PassRows, BoundedDelay, OnTime, Due
<1>2. /\ now' \in Nat /\ work' \in [Workspaces -> SUBSET Nat]
      /\ lastFailed' \in [Workspaces -> Nat]
  BY DEF PassInv, TypeOK
<1>3. SUFFICES ASSUME NEW s \in Workspaces, NEW t \in work'[s]
               PROVE  OnTime(index'[s], t, now', lastFailed'[s])
  BY DEF BoundedDelay, OnTime, Due
<1>4. t \in Nat
  BY <1>2, <1>3
(* An item that was there, or comes now, while the index stands.               *)
<1>5. ASSUME now <= now', lastFailed[s] <= lastFailed'[s],
             index'[s] = index[s], t \in work[s] \/ now <= t
      PROVE  OnTime(index'[s], t, now', lastFailed'[s])
  <2>1. /\ lastFailed[s] \in Nat /\ lastFailed'[s] \in Nat /\ index[s] \in Nat
        /\ now <= t \/ OnTime(index[s], t, now, lastFailed[s])
        /\ index[s] <= now + Reconcile
    BY <1>1, <1>2, <1>5
  <2> QED
    BY <1>1, <1>2, <1>4, <1>5, <2>1, WorkIndexAssumption DEF OnTime
<1>6. ASSUME NEW r \in Workspaces, Enqueue(r) PROVE OnTime(index'[s], t, now', lastFailed'[s])
  <2>1. t \in work[s] \/ now <= t
    BY <1>1, <1>6 DEF Enqueue
  <2> QED
    BY <1>1, <1>5, <1>6, <2>1 DEF Enqueue
<1>7. ASSUME NEW r \in Workspaces, NEW u \in 1..Horizon, MarkWorkDue(r, u)
      PROVE  OnTime(index'[s], t, now', lastFailed'[s])
  <2>1. PICK at \in {u, now} :
          index' = [index EXCEPT ![r] = IF @ = Absent THEN at ELSE Least(@, at)]
    BY <1>7 DEF MarkWorkDue
  <2>2. /\ <<r, u>> \in marks /\ UNCHANGED <<now, work, lastFailed>>
    BY <1>7 DEF MarkWorkDue
  <2>3. at \in Nat /\ at <= now
    BY <1>1, <2>2 DEF PassInv, MarksFollow
  <2>4. index'[s] = index[s] \/ index'[s] <= now
    BY <1>1, <2>1, <2>3 DEF Least
  <2> QED
    BY <1>1, <1>3, <1>5, <2>2, <2>4 DEF OnTime
<1>8. ASSUME NEW w \in Workers, RunItem(w) PROVE OnTime(index'[s], t, now', lastFailed'[s])
  <2>1. t \in work[s] \/ now <= t
    <3>1. \/ \E u : work' = [work EXCEPT ![worker[w].workspace] = @ \ {u}]
          \/ \E u : work' = [work EXCEPT ![worker[w].workspace] = (@ \ {u}) \cup {now + Backoff}]
      BY <1>8 DEF RunItem
    <3>2. t \in work[s] \/ t = now + Backoff
      BY <1>1, <1>3, <3>1
    <3> QED
      BY <1>1, <3>2, WorkIndexAssumption
  <2> QED
    BY <1>1, <1>5, <1>8, <2>1 DEF RunItem
<1>9. ASSUME NEW w \in Workers, RecordVisit(w) PROVE OnTime(index'[s], t, now', lastFailed'[s])
  <2>1. UNCHANGED <<now, work, lastFailed>>
    BY <1>9 DEF RecordVisit
  <2>2. CASE index'[s] = index[s]
    BY <1>1, <1>3, <1>5, <2>1, <2>2
  <2>3. CASE index'[s] # index[s]
    <3>1. worker[w].workspace = s /\ index'[s] = NewDueAt(worker[w].next)
      BY <1>1, <1>9, <2>3 DEF RecordVisit
    <3>2. /\ worker[w].started \in Nat /\ worker[w].next \in Nat
          /\ RunsWell(worker[w], now, work, lastFailed) /\ worker[w].at = "record"
      BY <1>1, <1>9 DEF RecordVisit, PassInv, PassRows
    <3>3. /\ now <= worker[w].started + PassTicks
          /\ \/ worker[w].next <= t \/ worker[w].next <= now \/ worker[w].started <= t
             \/ worker[w].next <= lastFailed[s] + Backoff
      BY <1>3, <2>1, <3>1, <3>2 DEF RunsWell
    <3>4. /\ NewDueAt(worker[w].next) <= worker[w].next
          /\ NewDueAt(worker[w].next) <= now + Reconcile
          /\ NewDueAt(worker[w].next) \in Nat
      BY <1>1, <3>2, WorkIndexAssumption DEF NewDueAt, Least
    <3> HIDE DEF OnTime
    <3>5. lastFailed[s] \in Nat /\ now' = now /\ lastFailed'[s] = lastFailed[s]
      BY <1>1, <2>1
    <3> QED
      BY <1>1, <1>4, <3>1, <3>2, <3>3, <3>4, <3>5, WorkIndexAssumption DEF OnTime
  <2> QED
    BY <2>2, <2>3
<1>10. ASSUME NEW w \in Workers, VisitFails(w) PROVE OnTime(index'[s], t, now', lastFailed'[s])
  <2>1. lastFailed[s] <= lastFailed'[s]
    BY <1>1, <1>10 DEF VisitFails, PassInv
  <2> QED
    BY <1>1, <1>3, <1>5, <1>10, <2>1 DEF VisitFails
<1>11. ASSUME UNCHANGED <<index, work, lastFailed>>, now' \in {now, now + 1}
       PROVE  OnTime(index'[s], t, now', lastFailed'[s])
  <2>1. lastFailed[s] <= lastFailed'[s] /\ now <= now'
    BY <1>1, <1>11
  <2> QED
    BY <1>3, <1>5, <1>11, <2>1
<1>12. \A m \in marks : m[1] \in Workspaces /\ m[2] \in 1..Horizon
  BY <1>1
<1> QED
  BY <1>6, <1>7, <1>8, <1>9, <1>10, <1>11, <1>12
  DEF Next, LoseMark, WorkspacesWithDueWork, VisitWorkspace, EndVisit, Crash, Tick, vars

(* When the pass of a worker is over at the latest.                            *)
Reach(w) == IF worker[w].at = "idle" THEN now ELSE worker[w].started + PassTicks

Before(s) == {r \in Workspaces : index[r] <= index[s]}

(* Until when s may have to wait: one pass for each workspace that is not      *)
(* before it, and for each fault.                                              *)
Allowance(s) ==
    index[s] + PassTicks * (Cardinality(Workspaces) + 2 + faults - Cardinality(Before(s)))

(* A pass that will push a workspace behind s, or s itself.                    *)
Pushes(w, s) ==
    \E r \in worker[w].todo : worker[w].observed[r] = index[r] /\ r \in Before(s)

TurnComes(w, s) ==
    index[s] # Absent =>
        Reach(w) <= Allowance(s) + (IF Pushes(w, s) THEN PassTicks ELSE 0)

QueueInv == \A w \in Workers : \A s \in Workspaces : TurnComes(w, s)

LEMMA QueueTyped ==
    ASSUME PassInv, NEW s \in Workspaces
    PROVE  /\ Cardinality(Workspaces) \in Nat /\ IsFiniteSet(Before(s))
           /\ Cardinality(Before(s)) \in Nat
           /\ 1 <= Cardinality(Before(s)) /\ Cardinality(Before(s)) <= Cardinality(Workspaces)
           /\ faults \in Nat /\ index[s] \in Nat /\ now \in Nat /\ PassTicks \in Nat
<1>1. /\ index \in [Workspaces -> Nat] /\ faults \in Nat /\ now \in Nat
      /\ IsFiniteSet(Workspaces) /\ PassTicks \in Nat
  BY WorkIndexAssumption DEF PassInv, TypeOK
<1>2. Before(s) \in SUBSET Workspaces /\ s \in Before(s)
  BY <1>1 DEF Before
<1>3. /\ IsFiniteSet(Before(s)) /\ Cardinality(Before(s)) <= Cardinality(Workspaces)
  BY <1>1, <1>2, FS_Subset
<1>4. Cardinality(Workspaces) \in Nat /\ Cardinality(Before(s)) \in Nat
  BY <1>1, <1>3, FS_CardinalityType
<1>5. Cardinality(Before(s)) # 0
  BY <1>2, <1>3, FS_EmptySet
<1> QED
  BY <1>1, <1>3, <1>4, <1>5

(* Passes add up.                                                              *)
LEMMA MorePasses ==
    ASSUME NEW m \in Int, NEW n \in Int, m <= n, NEW p \in Nat
    PROVE  p * m \in Int /\ p * (m + 1) = p * m + p /\ p * m <= p * n
  BY SMTT(30)

(* There is time for two passes at least.                                      *)
LEMMA TwoPassesAtLeast ==
    ASSUME PassInv, NEW s \in Workspaces
    PROVE  Allowance(s) \in Int /\ index[s] + PassTicks + PassTicks <= Allowance(s)
<1> DEFINE k == Cardinality(Workspaces) + 2 + faults - Cardinality(Before(s))
<1>1. k \in Int /\ 2 <= k /\ index[s] \in Nat /\ PassTicks \in Nat
  BY QueueTyped
<1>2. Allowance(s) = index[s] + PassTicks * k
  BY DEF Allowance
<1> HIDE DEF k
<1>3. PassTicks * 2 <= PassTicks * k /\ PassTicks * k \in Int /\ PassTicks * 2 \in Int
  BY <1>1, MorePasses
<1>4. PassTicks * 2 = PassTicks + PassTicks
  BY <1>1
<1> QED
  BY <1>1, <1>2, <1>3, <1>4

(* Every pass is over one pass from now.                                       *)
LEMMA ReachBounded ==
    ASSUME PassInv, NEW w \in Workers
    PROVE  Reach(w) \in Nat /\ now <= Reach(w) /\ Reach(w) <= now + PassTicks
<1>1. worker[w] \in PassRows /\ RunsWell(worker[w], now, work, lastFailed)
  BY DEF PassInv, TypeOK, PassRows
<1> QED
  BY <1>1, WorkIndexAssumption DEF Reach, RunsWell, PassRows, PassInv, TypeOK

(* A workspace that was written now has time enough.                           *)
LEMMA Recent ==
    ASSUME PassInv, NEW s \in Workspaces, now <= index[s] + PassTicks, NEW w \in Workers
    PROVE  TurnComes(w, s)
<1>1. /\ Allowance(s) \in Int /\ index[s] + PassTicks + PassTicks <= Allowance(s)
      /\ Reach(w) \in Nat /\ Reach(w) <= now + PassTicks
      /\ index[s] \in Nat /\ now \in Nat /\ PassTicks \in Nat
  BY TwoPassesAtLeast, ReachBounded, QueueTyped
<1> QED
  BY <1>1 DEF TurnComes

TimeEnough ==
    \A w \in Workers : \A s \in Workspaces :
        /\ Allowance(s) \in Int /\ Reach(w) \in Nat /\ Reach(w) <= now + PassTicks
        /\ now <= index[s] + PassTicks => TurnComes(w, s)

LEMMA TimeIsEnough == (PassInv => TimeEnough) /\ (PassInv' => TimeEnough')
<1>1. PassInv => TimeEnough
  BY TwoPassesAtLeast, ReachBounded, Recent DEF TimeEnough
<1> QED
  BY <1>1, PTL

(* A step that pushes one workspace behind s, or leaves them in their order.   *)
LEMMA MovesUp ==
    ASSUME PassInv, PassInv', NEW s \in Workspaces, index'[s] = index[s],
           faults <= faults',
           \/ Before(s)' = Before(s)
           \/ \E r \in Before(s) : Before(s)' = Before(s) \ {r}
    PROVE  /\ Allowance(s) <= Allowance(s)'
           /\ (Before(s)' # Before(s) \/ faults < faults')
                => Allowance(s) + PassTicks <= Allowance(s)'
<1> DEFINE k == Cardinality(Workspaces) + 2 + faults - Cardinality(Before(s))
           l == Cardinality(Workspaces) + 2 + faults' - Cardinality(Before(s)')
<1>1. /\ Cardinality(Workspaces) \in Nat /\ Cardinality(Before(s)) \in Nat
      /\ IsFiniteSet(Before(s)) /\ index[s] \in Nat /\ PassTicks \in Nat /\ faults \in Nat
  BY QueueTyped
<1>2. Cardinality(Before(s)') \in Nat /\ faults' \in Nat
  <2>1. \A r \in Before(s) : Cardinality(Before(s) \ {r}) = Cardinality(Before(s)) - 1
                             /\ IsFiniteSet(Before(s) \ {r})
    BY <1>1, FS_RemoveElement
  <2>2. IsFiniteSet(Before(s)')
    BY <1>1, <2>1
  <2> QED
    BY <2>2, FS_CardinalityType DEF PassInv, TypeOK
<1>3. Before(s)' # Before(s) => Cardinality(Before(s)') = Cardinality(Before(s)) - 1
  BY <1>1, FS_RemoveElement
<1>4. /\ k \in Int /\ l \in Int /\ k <= l
      /\ (Before(s)' # Before(s) \/ faults < faults') => k + 1 <= l
  BY <1>1, <1>2, <1>3
<1>5. Allowance(s) = index[s] + PassTicks * k /\ Allowance(s)' = index[s] + PassTicks * l
  BY DEF Allowance
<1> HIDE DEF k, l
<1>6. PassTicks * k \in Int /\ PassTicks * l \in Int /\ PassTicks * k <= PassTicks * l
  BY <1>1, <1>4, MorePasses
<1>7. ASSUME k + 1 <= l PROVE PassTicks * k + PassTicks <= PassTicks * l
  BY <1>1, <1>4, <1>7, MorePasses
<1> QED
  BY <1>1, <1>4, <1>5, <1>6, <1>7

(* What a write of one index entry does to the turn of s: the entry is recent, *)
(* or it moves the workspace behind s, or it changes no order.                 *)
LEMMA EntryWritten ==
    ASSUME PassInv, PassInv', NEW s \in Workspaces, NEW r \in Workspaces, NEW n \in Nat,
           index' = [index EXCEPT ![r] = n], now <= n + PassTicks,
           UNCHANGED <<now, faults>>
    PROVE  \/ now' <= index'[s] + PassTicks
           \/ /\ index'[s] = index[s] /\ r # s
              /\ IF r \in Before(s) THEN Before(s)' = Before(s) \ {r}
                                    ELSE Before(s)' = Before(s)
<1>1. index \in [Workspaces -> Nat] /\ now \in Nat /\ PassTicks \in Nat
  BY WorkIndexAssumption DEF PassInv, TypeOK
<1>2. CASE r = s
  BY <1>1, <1>2
<1>3. CASE r # s
  <2>1. index'[s] = index[s]
    BY <1>1, <1>3
  <2>2. CASE n <= index[s]
    BY <1>1, <2>1, <2>2
  <2>3. CASE ~(n <= index[s])
    <3>1. r \notin Before(s)' /\ \A q \in Workspaces \ {r} : q \in Before(s)' <=> q \in Before(s)
      BY <1>1, <1>3, <2>1, <2>3 DEF Before
    <3>2. Before(s) \subseteq Workspaces /\ Before(s)' \subseteq Workspaces
      BY DEF Before
    <3> QED
      BY <1>3, <2>1, <3>1, <3>2
  <2> QED
    BY <2>2, <2>3
<1> QED
  BY <1>2, <1>3

(* The turn of s stays on time when no pass gets longer, and one that is no    *)
(* longer to push a workspace behind s has done so.                            *)
LEMMA StaysInTurn ==
    ASSUME PassInv, PassInv', NEW v \in Workers, NEW s \in Workspaces, TurnComes(v, s),
           index'[s] = index[s], faults <= faults', Reach(v)' <= Reach(v),
           \/ Before(s)' = Before(s)
           \/ \E r \in Before(s) : Before(s)' = Before(s) \ {r},
           \/ Pushes(v, s) => Pushes(v, s)'
           \/ Before(s)' # Before(s) \/ faults < faults'
    PROVE  TurnComes(v, s)'
<1>1. /\ Allowance(s) <= Allowance(s)'
      /\ (Before(s)' # Before(s) \/ faults < faults')
           => Allowance(s) + PassTicks <= Allowance(s)'
  BY MovesUp
<1>2. Allowance(s) \in Int /\ Reach(v) \in Nat /\ PassTicks \in Nat
  BY TwoPassesAtLeast, ReachBounded, WorkIndexAssumption
<1>3. Allowance(s)' \in Int /\ Reach(v)' \in Nat
  BY TimeIsEnough DEF TimeEnough
<1>4. CASE index'[s] = Absent
  BY <1>4 DEF TurnComes
<1>5. CASE index'[s] # Absent
  <2>1. Reach(v) <= Allowance(s) + (IF Pushes(v, s) THEN PassTicks ELSE 0)
    BY <1>5 DEF TurnComes
  <2>2. Reach(v)' <= Allowance(s)' + (IF Pushes(v, s)' THEN PassTicks ELSE 0)
    BY <1>1, <1>2, <1>3, <2>1
  <2> QED
    BY <2>2 DEF TurnComes
<1> QED
  BY <1>4, <1>5

(* A step that moves no index entry and leaves a worker its pass.              *)
LEMMA SamePass ==
    ASSUME PassInv, PassInv', QueueInv, NEW v \in Workers, NEW s \in Workspaces,
           UNCHANGED <<now, index>>, faults <= faults',
           worker'[v].at = "idle" <=> worker[v].at = "idle",
           worker'[v].started = worker[v].started, worker'[v].todo = worker[v].todo,
           worker'[v].observed = worker[v].observed
    PROVE  TurnComes(v, s)'
<1>1. Before(s)' = Before(s) /\ (Pushes(v, s) => Pushes(v, s)')
  BY DEF Before, Pushes
<1>2. Reach(v)' = Reach(v) /\ Reach(v) \in Nat
  BY ReachBounded DEF Reach
<1>3. Reach(v)' <= Reach(v) /\ TurnComes(v, s)
  BY <1>2 DEF QueueInv
<1> QED
  BY <1>1, <1>3, StaysInTurn

(* A worker that gives its pass up, or ends it.                                *)
LEMMA PassOver ==
    ASSUME PassInv, PassInv', NEW v \in Workers, worker[v].at # "idle",
           \/ worker'[v].at = "idle"
           \/ worker'[v].started = worker[v].started /\ worker'[v].at # "idle",
           now' = now
    PROVE  Reach(v)' <= Reach(v)
  BY ReachBounded DEF Reach

LEMMA QueueInitially == Init => QueueInv
  BY DEF Init, QueueInv, TurnComes, Absent

LEMMA QueueKept == PassInv /\ PassInv' /\ QueueInv /\ [Next]_vars => QueueInv'
<1> SUFFICES ASSUME PassInv, PassInv', QueueInv, [Next]_vars,
                    NEW v \in Workers, NEW s \in Workspaces
             PROVE  TurnComes(v, s)'
  BY DEF QueueInv
<1>1. /\ now \in Nat /\ index \in [Workspaces -> Nat] /\ worker \in [Workers -> PassRows]
      /\ marks \subseteq Workspaces \X (1..Horizon) /\ faults \in Nat /\ PassTicks \in Nat
      /\ \A w \in Workers : RunsWell(worker[w], now, work, lastFailed)
      /\ TurnComes(v, s) /\ TimeEnough /\ TimeEnough'
  BY TimeIsEnough, WorkIndexAssumption DEF PassInv, TypeOK, PassRows, QueueInv
<1>2. faults <= faults
  BY <1>1
<1>3. CASE UNCHANGED <<now, index, worker>> /\ UNCHANGED faults
  BY <1>2, <1>3, SamePass
<1>4. ASSUME NEW w \in Workers, NEW r \in Workspaces, VisitWorkspace(w, r)
      PROVE  TurnComes(v, s)'
  <2>1. /\ worker[w].at = "pass" /\ UNCHANGED <<now, index, faults>>
        /\ worker' = [worker EXCEPT ![w].at = "drain", ![w].workspace = r, ![w].ran = 0]
    BY <1>4 DEF VisitWorkspace
  <2>2. /\ worker'[v].at = "idle" <=> worker[v].at = "idle"
        /\ worker'[v].started = worker[v].started /\ worker'[v].todo = worker[v].todo
        /\ worker'[v].observed = worker[v].observed
    BY <1>1, <2>1 DEF PassRows
  <2> QED
    BY <1>2, <2>1, <2>2, SamePass
<1>5. ASSUME NEW w \in Workers, RunItem(w) \/ EndVisit(w) \/ VisitFails(w)
      PROVE  TurnComes(v, s)'
  <2>1. /\ worker[w].at = "drain" /\ UNCHANGED <<now, index>> /\ faults <= faults'
        /\ \/ worker' = [worker EXCEPT ![w].ran = @ + 1]
           \/ \E next : worker' = [worker EXCEPT ![w].at = "record", ![w].next = next]
    BY <1>1, <1>5 DEF RunItem, EndVisit, VisitFails
  <2>2. /\ worker'[v].at = "idle" <=> worker[v].at = "idle"
        /\ worker'[v].started = worker[v].started /\ worker'[v].todo = worker[v].todo
        /\ worker'[v].observed = worker[v].observed
    BY <1>1, <2>1 DEF PassRows
  <2> QED
    BY <2>1, <2>2, SamePass
<1>6. ASSUME NEW w \in Workers, WorkspacesWithDueWork(w) PROVE TurnComes(v, s)'
  <2>1. PICK S \in SUBSET Workspaces :
          /\ S # {} /\ Window(S)
          /\ worker' = [worker EXCEPT ![w] =
               [Idle EXCEPT !.at = "pass", !.todo = S, !.started = now,
                            !.observed = [r \in Workspaces |->
                                            IF r \in S THEN index[r] ELSE Absent]]]
    BY <1>6 DEF WorkspacesWithDueWork
  <2>2. UNCHANGED <<now, index, faults>> /\ worker[w].at = "idle"
    BY <1>6 DEF WorkspacesWithDueWork
  <2>3. CASE v # w
    BY <1>1, <1>2, <2>1, <2>2, <2>3, SamePass
  <2>4. CASE v = w /\ ~Due(s)
    <3>1. now' <= index'[s] + PassTicks
      BY <1>1, <2>2, <2>4 DEF Due
    <3> QED
      BY <1>1, <3>1 DEF TimeEnough
  <2>5. CASE v = w /\ Due(s)
    <3>1. PICK r \in S : index[r] <= index[s]
      BY <1>1, <2>1, <2>5 DEF Window
    <3>2. worker'[v].todo = S /\ worker'[v].observed[r] = index[r]
      BY <1>1, <2>1, <2>5, <3>1 DEF Idle
    <3>3. Pushes(v, s)' /\ Before(s)' = Before(s)
      BY <2>1, <2>2, <3>1, <3>2 DEF Pushes, Before
    <3>4. Reach(v) = now /\ ~Pushes(v, s)
      BY <1>1, <2>2, <2>5 DEF Reach, Pushes, RunsWell
    <3>5. Allowance(s)' = Allowance(s) /\ Reach(v)' <= now + PassTicks
      BY <1>1, <2>2, <3>3 DEF Allowance, TimeEnough
    <3> QED
      BY <1>1, <2>2, <3>3, <3>4, <3>5 DEF TurnComes, TimeEnough
  <2> QED
    BY <2>3, <2>4, <2>5
<1>7. ASSUME NEW w \in Workers, Crash(w) PROVE TurnComes(v, s)'
  <2>1. /\ worker[w].at # "idle" /\ faults < faults' /\ faults <= faults'
        /\ worker' = [worker EXCEPT ![w] = Idle] /\ UNCHANGED <<now, index>>
    BY <1>1, <1>7 DEF Crash
  <2>2. Before(s)' = Before(s) /\ index'[s] = index[s]
    BY <2>1 DEF Before
  <2>3. Reach(v)' <= Reach(v)
    <3>1. CASE v = w
      <4>1. worker'[v].at = "idle" /\ worker[v].at # "idle" /\ now' = now
        BY <1>1, <2>1, <3>1, IdlePass
      <4> QED
        BY <4>1, PassOver
    <3>2. CASE v # w
      BY <1>1, <2>1, <3>2 DEF Reach, TimeEnough
    <3> QED
      BY <3>1, <3>2
  <2> QED
    BY <1>1, <2>1, <2>2, <2>3, StaysInTurn
<1>8. ASSUME NEW r \in Workspaces, NEW t \in 1..Horizon, MarkWorkDue(r, t)
      PROVE  TurnComes(v, s)'
  <2>1. PICK at \in {t, now} :
          index' = [index EXCEPT ![r] = IF @ = Absent THEN at ELSE Least(@, at)]
    BY <1>8 DEF MarkWorkDue
  <2>2. <<r, t>> \in marks /\ UNCHANGED <<now, worker, faults>>
    BY <1>8 DEF MarkWorkDue
  <2>3. at \in Nat /\ now <= at + PassTicks
    BY <1>1, <2>2 DEF PassInv, MarksFollow
  <2>4. CASE index'[r] = index[r]
    <3>1. index' = index
      BY <1>1, <2>1, <2>4
    <3> QED
      BY <1>2, <2>2, <3>1, SamePass
  <2>5. CASE index'[r] # index[r]
    <3>1. index' = [index EXCEPT ![r] = at]
      BY <1>1, <2>1, <2>3, <2>5 DEF Least
    <3>2. CASE now' <= index'[s] + PassTicks
      BY <1>1, <3>2 DEF TimeEnough
    <3>3. CASE /\ index'[s] = index[s] /\ r # s
               /\ IF r \in Before(s) THEN Before(s)' = Before(s) \ {r}
                                     ELSE Before(s)' = Before(s)
      <4>1. Reach(v)' = Reach(v) /\ Reach(v)' <= Reach(v)
        BY <1>1, <2>2 DEF Reach, TimeEnough
      <4>2. \/ Pushes(v, s) => Pushes(v, s)'
            \/ Before(s)' # Before(s)
        <5>1. CASE r \notin Before(s)
          <6>1. \A q \in Before(s) : index'[q] = index[q]
            BY <1>1, <3>1, <5>1 DEF Before
          <6> QED
            BY <2>2, <3>3, <5>1, <6>1 DEF Pushes
        <5> QED
          BY <3>3, <5>1
      <4> QED
        BY <1>1, <1>2, <2>2, <3>3, <4>1, <4>2, StaysInTurn
    <3> QED
      BY <2>2, <2>3, <3>1, <3>2, <3>3, EntryWritten
  <2> QED
    BY <2>4, <2>5
<1>9. ASSUME NEW w \in Workers, RecordVisit(w) PROVE TurnComes(v, s)'
  <2> DEFINE r == worker[w].workspace
             rest == worker[w].todo \ {r}
  <2>1. /\ worker[w].at = "record" /\ UNCHANGED <<now, faults>>
        /\ r \in worker[w].todo /\ r \in Workspaces
        /\ worker[w].started \in Nat /\ worker[w].next \in Nat
        /\ worker[w].started <= worker[w].next /\ now <= worker[w].started + PassTicks
    BY <1>1, <1>9 DEF RecordVisit, RunsWell, PassRows
  <2>2. \/ v # w /\ worker'[v] = worker[v]
        \/ v = w /\ worker'[v] = Idle /\ rest = {}
        \/ /\ v = w /\ worker'[v].todo = rest /\ worker'[v].at = "pass"
           /\ worker'[v].started = worker[v].started
           /\ \A q \in rest : worker'[v].observed[q] = worker[v].observed[q]
    <3>1. CASE v # w
      BY <1>1, <1>9, <3>1 DEF RecordVisit
    <3>2. CASE v = w /\ rest = {}
      BY <1>1, <1>9, <3>2 DEF RecordVisit
    <3>3. CASE v = w /\ rest # {}
      <4>1. worker'[v] = [worker[w] EXCEPT !.at = "pass", !.todo = rest,
                                           !.workspace = NoWorkspace,
                                           !.observed[r] = Absent, !.ran = 0, !.next = 0]
        BY <1>1, <1>9, <3>3 DEF RecordVisit
      <4>2. worker[w] \in PassRows /\ worker[w].observed \in [Workspaces -> Nat]
            /\ rest \subseteq Workspaces
        BY <1>1 DEF PassRows
      <4> QED
        BY <3>3, <4>1, <4>2 DEF PassRows
    <3> QED
      BY <3>1, <3>2, <3>3
  <2>3. Reach(v)' <= Reach(v)
    <3>1. CASE v = w
      <4>1. /\ worker[v].at # "idle" /\ now' = now
            /\ \/ worker'[v].at = "idle"
               \/ worker'[v].started = worker[v].started /\ worker'[v].at # "idle"
        BY <2>1, <2>2, <3>1, IdlePass
      <4> QED
        BY <4>1, PassOver
    <3>2. CASE v # w
      BY <1>1, <2>1, <2>2, <3>2 DEF Reach, TimeEnough
    <3> QED
      BY <3>1, <3>2
  (* What v still has to do besides r it has observed as before.                *)
  <2>4. \A q \in worker[v].todo : \/ v = w /\ q = r
                                  \/ /\ q \in worker'[v].todo
                                     /\ worker'[v].observed[q] = worker[v].observed[q]
    BY <2>2
  <2> HIDE DEF rest
  <2>5. CASE index[r] # worker[w].observed[r]
    <3>1. index' = index
      BY <1>9, <2>5 DEF RecordVisit
    <3>2. Before(s)' = Before(s) /\ (Pushes(v, s) => Pushes(v, s)')
      BY <2>4, <2>5, <3>1 DEF Before, Pushes
    <3> QED
      BY <1>1, <1>2, <2>1, <2>3, <3>1, <3>2, StaysInTurn
  <2>6. CASE index[r] = worker[w].observed[r]
    <3> DEFINE n == NewDueAt(worker[w].next)
    <3>1. index' = [index EXCEPT ![r] = n]
      BY <1>9, <2>6 DEF RecordVisit
    <3>2. n \in Nat /\ now <= n + PassTicks
      BY <1>1, <2>1, WorkIndexAssumption DEF NewDueAt, Least
    <3> HIDE DEF n, r
    <3>3. CASE now' <= index'[s] + PassTicks
      BY <1>1, <3>3 DEF TimeEnough
    <3>4. CASE /\ index'[s] = index[s] /\ r # s
               /\ IF r \in Before(s) THEN Before(s)' = Before(s) \ {r}
                                     ELSE Before(s)' = Before(s)
      <4>1. \/ Pushes(v, s) => Pushes(v, s)'
            \/ Before(s)' # Before(s)
        <5>1. CASE r \notin Before(s)
          <6>1. \A q \in Before(s) : q # r /\ index'[q] = index[q]
            BY <1>1, <3>1, <5>1 DEF Before
          <6> QED
            BY <2>4, <3>4, <5>1, <6>1 DEF Pushes
        <5> QED
          BY <3>4, <5>1
      <4> QED
        BY <1>1, <1>2, <2>1, <2>3, <3>4, <4>1, StaysInTurn
    <3> QED
      BY <2>1, <3>1, <3>2, <3>3, <3>4, EntryWritten
  <2> QED
    BY <2>5, <2>6
<1>10. ASSUME Tick PROVE TurnComes(v, s)'
  <2>1. now' = now + 1 /\ UNCHANGED <<index, worker, faults>>
    BY <1>10 DEF Tick
  <2>2. CASE worker[v].at = "idle"
    <3>1. now < index[s]
      BY <1>1, <1>10, <2>2 DEF Tick, Due
    <3>2. now' <= index'[s] + PassTicks
      BY <1>1, <2>1, <3>1
    <3> QED
      BY <1>1, <3>2 DEF TimeEnough
  <2>3. CASE worker[v].at # "idle"
    <3>1. Reach(v)' = Reach(v) /\ Reach(v)' <= Reach(v)
      BY <1>1, <2>1, <2>3 DEF Reach, TimeEnough
    <3>2. Before(s)' = Before(s) /\ (Pushes(v, s) => Pushes(v, s)')
      BY <2>1 DEF Before, Pushes
    <3> QED
      BY <1>1, <1>2, <2>1, <3>1, <3>2, StaysInTurn
  <2> QED
    BY <2>2, <2>3
<1>11. \A m \in marks : m[1] \in Workspaces /\ m[2] \in 1..Horizon
  BY <1>1
<1> QED
  BY <1>3, <1>4, <1>5, <1>6, <1>7, <1>8, <1>9, <1>10, <1>11
  DEF Next, Enqueue, LoseMark, vars

(* Whoever waits is in some pass once the passes it may have to let by are     *)
(* over.                                                                       *)
LEMMA TurnsAreEnough == PassInv /\ QueueInv => NoStarvation
<1> SUFFICES ASSUME PassInv, QueueInv, NEW s \in Workspaces, index[s] # Absent,
                    \A w \in Workers : s \notin worker[w].todo
             PROVE  ~(index[s] + (Cardinality(Workspaces) + faults + 1) * PassTicks < now)
  BY DEF NoStarvation
<1>1. PICK w \in Workers : TRUE
  BY WorkIndexAssumption
<1> DEFINE k == Cardinality(Workspaces) + 2 + faults - Cardinality(Before(s))
           m == Cardinality(Workspaces) + faults + 1
<1>2. /\ k \in Int /\ m \in Int /\ k <= m /\ index[s] \in Nat /\ now \in Nat /\ PassTicks \in Nat
      /\ IsFiniteSet(Before(s))
  BY QueueTyped
<1>3. Reach(w) <= index[s] + PassTicks * k + (IF Pushes(w, s) THEN PassTicks ELSE 0)
  BY DEF QueueInv, TurnComes, Allowance
<1>4. Reach(w) \in Nat /\ now <= Reach(w)
  BY ReachBounded
<1>5. Pushes(w, s) => k + 1 <= m
  <2>1. SUFFICES ASSUME Pushes(w, s) PROVE k + 1 <= m
    OBVIOUS
  <2>2. PICK r \in Before(s) : r # s
    BY <2>1 DEF Pushes
  <2>3. s \in Before(s)
    BY <1>2 DEF Before
  <2>4. Cardinality(Before(s)) \in Nat /\ Cardinality(Before(s)) # 1 /\ 1 <= Cardinality(Before(s))
    BY <1>2, <2>2, <2>3, FS_Singleton, QueueTyped
  <2> QED
    BY <2>4, QueueTyped
<1>6. m * PassTicks = PassTicks * m
  BY <1>2
<1> HIDE DEF k, m
<1>7. PassTicks * k \in Int /\ PassTicks * m \in Int /\ PassTicks * k <= PassTicks * m
  BY <1>2, MorePasses
<1>8. Pushes(w, s) => PassTicks * k + PassTicks <= PassTicks * m
  BY <1>2, <1>5, MorePasses
<1>9. now <= index[s] + PassTicks * m
  BY <1>2, <1>3, <1>4, <1>7, <1>8
<1> QED
  BY <1>2, <1>6, <1>7, <1>9 DEF m

(* BoundedDelay holds of every behaviour: an item is due in the index within   *)
(* the reconcile interval and one pass of its instant, and only a visit that   *)
(* raised puts it off, by its delay (storage/work_index.py's floor).           *)
THEOREM WorkIsFoundInTime == Spec => []BoundedDelay
<1>1. Init => PassInv /\ BoundedDelay
  BY IndexInitially
<1>2. PassInv /\ BoundedDelay /\ [Next]_vars => (PassInv /\ BoundedDelay)'
  BY PassInvKept, DelayKept
<1> QED
  BY <1>1, <1>2, PTL DEF Spec

(* NoStarvation holds of every behaviour: with the oldest due workspaces read  *)
(* first, nobody is passed over for longer than one pass for each workspace    *)
(* and fault, and one for a late mark (workspaces_with_due_work).              *)
THEOREM TurnsCome == Spec => []NoStarvation
<1>1. Init => PassInv /\ QueueInv
  BY IndexInitially, QueueInitially
<1>2. PassInv /\ QueueInv /\ [Next]_vars => (PassInv /\ QueueInv)'
  BY PassInvKept, QueueKept
<1> QED
  BY <1>1, <1>2, TurnsAreEnough, PTL DEF Spec
-----------------------------------------------------------------------------
(* The engine cache.                                                         *)

Loans == [at : Places, engine : Engines \cup {<<>>}, discarded : SUBSET Engines]

Holders(e) == {b \in Borrowers : borrower[b].at # "none" /\ borrower[b].engine = e}

(* An engine that left the cache never comes back: its number is spent.        *)
LeftForGood ==
    /\ engines \cap disposed = {}
    /\ \A b \in Borrowers : engines \cap borrower[b].discarded = {}
    /\ \A e \in engines \cup disposed : e[2] <= created
    /\ \A b \in Borrowers : \A e \in borrower[b].discarded : e[2] <= created

(* Pins count the borrowers of an engine, which is cached as long.             *)
PinsCount ==
    /\ \A e \in Engines : pins[e] = Cardinality(Holders(e))
    /\ \A b \in Borrowers : borrower[b].at # "none" => borrower[b].engine \in engines

PoolInv == EnginePoolTypeOK /\ LeftForGood /\ PinsCount /\ EnginesStayCounted

LEMMA PoolTyped ==
    ASSUME PoolInv
    PROVE  /\ engines \subseteq Engines /\ IsFiniteSet(engines) /\ IsFiniteSet(Engines)
           /\ borrower \in [Borrowers -> Loans] /\ created \in 0..MaxEngines
           /\ pins \in [Engines -> 0..Cardinality(Borrowers)]
           /\ disposed \subseteq Engines /\ untouched \subseteq Databases
           /\ older \subseteq Engines \X Engines
           /\ IsFiniteSet(Borrowers) /\ Cardinality(Borrowers) \in Nat
           /\ CacheLimit \in Nat /\ MaxEngines \in Nat
           /\ \A e \in Engines : e = <<e[1], e[2]>> /\ e[1] \in Databases /\ e[2] \in 1..MaxEngines
<1>1. IsFiniteSet(Engines)
  <2>1. IsFiniteSet(1..MaxEngines)
    BY EnginePoolAssumption, FS_Interval
  <2> QED
    BY <2>1, EnginePoolAssumption, FS_Product DEF Engines
<1>2. IsFiniteSet(engines)
  BY <1>1, FS_Subset DEF PoolInv, EnginePoolTypeOK
<1>3. Cardinality(Borrowers) \in Nat
  BY EnginePoolAssumption, FS_CardinalityType
<1> QED
  BY <1>1, <1>2, <1>3, EnginePoolAssumption DEF PoolInv, EnginePoolTypeOK, Loans, Engines

LEMMA HoldersFinite ==
    ASSUME NEW e
    PROVE  IsFiniteSet(Holders(e)) /\ Cardinality(Holders(e)) \in 0..Cardinality(Borrowers)
<1>1. Holders(e) \in SUBSET Borrowers
  BY DEF Holders
<1>2. IsFiniteSet(Holders(e)) /\ Cardinality(Holders(e)) <= Cardinality(Borrowers)
  BY <1>1, FS_Subset, EnginePoolAssumption
<1> QED
  BY <1>2, FS_CardinalityType, EnginePoolAssumption

(* An engine is busy exactly while somebody holds it.                          *)
LEMMA BusyIsHeld ==
    ASSUME PoolInv, NEW e \in engines
    PROVE  Busy(e) <=> \E b \in Borrowers : borrower[b].at # "none" /\ borrower[b].engine = e
<1>1. pins[e] = Cardinality(Holders(e)) /\ Cardinality(Holders(e)) \in Nat /\ IsFiniteSet(Holders(e))
  BY PoolTyped, HoldersFinite DEF PoolInv, PinsCount
<1>2. Cardinality(Holders(e)) > 0 <=> Holders(e) # {}
  BY <1>1, FS_EmptySet
<1>3. CheckedOut(e) > 0 => Holders(e) # {}
  <2> DEFINE T == {b \in Borrowers : borrower[b].at = "open" /\ borrower[b].engine = e}
  <2>1. CheckedOut(e) > 0 => T # {}
    BY FS_EmptySet DEF CheckedOut
  <2> QED
    BY <2>1 DEF Holders
<1> QED
  BY <1>1, <1>2, <1>3 DEF Busy, Holders

LEMMA PoolInitially == EnginePoolInit => PoolInv
<1> SUFFICES ASSUME EnginePoolInit PROVE PoolInv
  OBVIOUS
<1>1. Cardinality(Borrowers) \in Nat
  BY EnginePoolAssumption, FS_CardinalityType
<1>2. NoLoan \in Loans /\ NoLoan.at = "none" /\ NoLoan.discarded = {}
  BY DEF NoLoan, Loans, Places
<1>3. \A b \in Borrowers : borrower[b] = NoLoan
  BY DEF EnginePoolInit
<1>4. EnginePoolTypeOK
  BY <1>1, <1>2, EnginePoolAssumption DEF EnginePoolInit, EnginePoolTypeOK, Loans
<1>5. \A e : Holders(e) = {}
  BY <1>2, <1>3 DEF Holders
<1>6. PinsCount
  BY <1>2, <1>3, <1>5, FS_EmptySet DEF PinsCount, EnginePoolInit
<1>7. EnginesStayCounted
  BY <1>2, <1>3, EnginePoolAssumption, FS_EmptySet DEF EnginesStayCounted, EnginePoolInit
<1> QED
  BY <1>2, <1>3, <1>4, <1>6, <1>7 DEF PoolInv, LeftForGood, EnginePoolInit

(* Engines that are all held are no more than there are borrowers.             *)
LEMMA HeldAreFew ==
    ASSUME NEW S, NEW rows \in [Borrowers -> Loans],
           \A e \in S : \E b \in Borrowers : rows[b].at # "none" /\ rows[b].engine = e
    PROVE  IsFiniteSet(S) /\ Cardinality(S) \in Nat /\ Cardinality(S) <= Cardinality(Borrowers)
<1> DEFINE A == {b \in Borrowers : rows[b].engine \in S}
           f == [b \in A |-> rows[b].engine]
<1>1. IsFiniteSet(A) /\ Cardinality(A) <= Cardinality(Borrowers)
  BY EnginePoolAssumption, FS_Subset
<1>2. f \in Surjection(A, S)
  BY DEF Surjection
<1>3. IsFiniteSet(S) /\ Cardinality(S) <= Cardinality(A)
  BY <1>1, <1>2, FS_Surjection
<1>4. Cardinality(S) \in Nat /\ Cardinality(A) \in Nat /\ Cardinality(Borrowers) \in Nat
  BY <1>1, <1>3, EnginePoolAssumption, FS_CardinalityType
<1> QED
  BY <1>1, <1>3, <1>4

(* Who changes place with an engine in hand counts as before.                  *)
LEMMA LoanMoves ==
    ASSUME PoolInv, NEW b \in Borrowers, borrower[b].at # "none",
           NEW at \in Places \ {"none"}, borrower' = [borrower EXCEPT ![b].at = at],
           UNCHANGED <<engines, older, untouched, pins, disposed, created>>
    PROVE  PoolInv'
<1>1. borrower \in [Borrowers -> Loans]
  BY PoolTyped
<1>2. /\ borrower' \in [Borrowers -> Loans]
      /\ \A c \in Borrowers : /\ borrower'[c].engine = borrower[c].engine
                              /\ borrower'[c].discarded = borrower[c].discarded
                              /\ borrower'[c].at # "none" <=> borrower[c].at # "none"
  BY <1>1 DEF Loans
<1>3. \A e : Holders(e)' = Holders(e)
  BY <1>2 DEF Holders
<1>4. EnginePoolTypeOK'
  BY <1>2 DEF PoolInv, EnginePoolTypeOK, Loans
<1>5. LeftForGood'
  BY <1>2 DEF PoolInv, LeftForGood
<1>6. PinsCount' /\ EnginesStayCounted'
  BY <1>2, <1>3 DEF PoolInv, PinsCount, EnginesStayCounted
<1> QED
  BY <1>4, <1>5, <1>6 DEF PoolInv

LEMMA UnpinKeeps == ASSUME PoolInv, NEW b \in Borrowers, Unpin(b) PROVE PoolInv'
<1>0. PICK e : e = borrower[b].engine
  OBVIOUS
<1>1. /\ borrower' = [borrower EXCEPT ![b] = NoLoan] /\ borrower[b].at # "none"
      /\ pins' = [pins EXCEPT ![e] = IF @ = 0 THEN 0 ELSE @ - 1]
      /\ UNCHANGED <<engines, older, untouched, disposed, created>>
  BY <1>0 DEF Unpin
<1>2. NoLoan \in Loans /\ NoLoan.at = "none" /\ NoLoan.discarded = {}
  BY DEF NoLoan, Loans, Places
<1>3. e \in engines /\ e \in Engines
  BY <1>0, <1>1, PoolTyped DEF PoolInv, PinsCount
<1>4. /\ borrower' \in [Borrowers -> Loans] /\ borrower'[b] = NoLoan
      /\ \A c \in Borrowers : c # b => borrower'[c] = borrower[c]
  BY <1>1, <1>2, PoolTyped
<1>5. Holders(e)' = Holders(e) \ {b} /\ b \in Holders(e)
  BY <1>0, <1>1, <1>2, <1>4 DEF Holders
<1>6. \A d : d # e => Holders(d)' = Holders(d)
  BY <1>0, <1>2, <1>4 DEF Holders
<1>7. Cardinality(Holders(e)') = Cardinality(Holders(e)) - 1
  BY <1>5, HoldersFinite, FS_RemoveElement
<1>8. Cardinality(Holders(e)) \in Nat /\ Cardinality(Holders(e)) # 0
  BY <1>5, HoldersFinite, FS_EmptySet
<1>9. \A d \in Engines : pins'[d] = Cardinality(Holders(d)')
  BY <1>1, <1>3, <1>6, <1>7, <1>8, PoolTyped DEF PoolInv, PinsCount
<1>10. pins' \in [Engines -> 0..Cardinality(Borrowers)]
  <2>1. pins'[e] \in 0..Cardinality(Borrowers)
    BY <1>1, <1>3, PoolTyped
  <2> QED
    BY <1>1, <1>3, <2>1, PoolTyped
<1>11. EnginePoolTypeOK'
  BY <1>1, <1>4, <1>10 DEF PoolInv, EnginePoolTypeOK, Loans
<1>12. LeftForGood'
  BY <1>1, <1>2, <1>4 DEF PoolInv, LeftForGood
<1>13. PinsCount'
  BY <1>1, <1>2, <1>4, <1>9 DEF PoolInv, PinsCount
<1>14. EnginesStayCounted'
  BY <1>1, <1>2, <1>4 DEF PoolInv, EnginesStayCounted
<1> QED
  BY <1>11, <1>12, <1>13, <1>14 DEF PoolInv

LEMMA DisposeKeeps == ASSUME PoolInv, NEW b \in Borrowers, Dispose(b) PROVE PoolInv'
<1>1. PICK e \in borrower[b].discarded :
        /\ borrower' = [borrower EXCEPT ![b].discarded = @ \ {e}]
        /\ disposed' = disposed \cup {e}
        /\ UNCHANGED <<engines, older, untouched, pins, created>>
  BY DEF Dispose
<1>2. borrower \in [Borrowers -> Loans] /\ e \in Engines /\ e \notin engines /\ e[2] <= created
  BY <1>1, PoolTyped DEF Loans, PoolInv, LeftForGood
<1>3. /\ borrower' \in [Borrowers -> Loans]
      /\ \A c \in Borrowers : /\ borrower'[c].engine = borrower[c].engine
                              /\ borrower'[c].discarded \subseteq borrower[c].discarded
                              /\ borrower'[c].at = borrower[c].at
  BY <1>1, <1>2 DEF Loans
<1>4. \A d : Holders(d)' = Holders(d)
  BY <1>3 DEF Holders
<1>5. EnginePoolTypeOK'
  BY <1>1, <1>2, <1>3 DEF PoolInv, EnginePoolTypeOK, Loans
<1>6. LeftForGood'
  BY <1>1, <1>2, <1>3 DEF PoolInv, LeftForGood
<1>7. PinsCount'
  BY <1>1, <1>3, <1>4 DEF PoolInv, PinsCount
<1>8. EnginesStayCounted'
  BY <1>1, <1>2, <1>3 DEF PoolInv, EnginesStayCounted, PinsCount
<1> QED
  BY <1>5, <1>6, <1>7, <1>8 DEF PoolInv

(* The cache without the engines that were idle: nobody held them.             *)
LEMMA HeldAreUnexpired ==
    ASSUME PoolInv
    PROVE  /\ Unexpired \subseteq engines
           /\ \A b \in Borrowers : borrower[b].at # "none" => borrower[b].engine \in Unexpired
  BY BusyIsHeld DEF Unexpired, PoolInv, PinsCount

LEMMA CloseIdleKeeps == ASSUME PoolInv, NEW b \in Borrowers, CloseIdle(b) PROVE PoolInv'
<1>1. /\ engines' = Unexpired /\ older' = older \cap (engines' \X engines')
      /\ untouched' = untouched \cap {c[1] : c \in engines'}
      /\ borrower' = [borrower EXCEPT ![b].discarded = engines \ engines']
      /\ borrower[b].at = "none" /\ UNCHANGED <<pins, disposed, created>>
  BY DEF CloseIdle
<1>2. borrower \in [Borrowers -> Loans] /\ engines \subseteq Engines
  BY PoolTyped
<1>3. /\ borrower' \in [Borrowers -> Loans]
      /\ \A c \in Borrowers : /\ borrower'[c].engine = borrower[c].engine
                              /\ borrower'[c].at = borrower[c].at
                              /\ IF c = b THEN borrower'[c].discarded = engines \ engines'
                                 ELSE borrower'[c].discarded = borrower[c].discarded
  BY <1>1, <1>2 DEF Loans
<1>4. \A d : Holders(d)' = Holders(d)
  BY <1>3 DEF Holders
<1>5. engines' \subseteq engines
  BY <1>1, HeldAreUnexpired
<1>6. EnginePoolTypeOK'
  BY <1>1, <1>2, <1>3, <1>5 DEF PoolInv, EnginePoolTypeOK, Loans
<1>7. LeftForGood'
  <2>1. \A c \in Borrowers : engines' \cap borrower'[c].discarded = {}
    BY <1>3, <1>5 DEF PoolInv, LeftForGood
  <2>2. \A c \in Borrowers : \A e \in borrower'[c].discarded : e[2] <= created
    BY <1>3 DEF PoolInv, LeftForGood
  <2> QED
    BY <1>1, <1>5, <2>1, <2>2 DEF PoolInv, LeftForGood
<1>8. PinsCount'
  BY <1>1, <1>3, <1>4, HeldAreUnexpired DEF PoolInv, PinsCount
<1>9. Cardinality(engines') <= Cardinality(engines)
  BY <1>5, PoolTyped, FS_Subset
<1>10. Cardinality(engines') \in Nat /\ Cardinality(engines) \in Nat
  BY <1>5, PoolTyped, FS_Subset, FS_CardinalityType
<1>11. EnginesStayCounted'
  <2>1. \A c \in Borrowers : borrower'[c].at # "none" =>
          borrower'[c].engine \in engines' /\ borrower'[c].engine \notin disposed'
    BY <1>1, <1>3, HeldAreUnexpired DEF PoolInv, EnginesStayCounted
  <2>2. \/ Cardinality(engines') <= CacheLimit
        \/ Cardinality(engines') <= Cardinality(Borrowers)
    BY <1>9, <1>10, PoolTyped DEF PoolInv, EnginesStayCounted
  <2> QED
    BY <1>5, <2>1, <2>2 DEF PoolInv, EnginesStayCounted
<1> QED
  BY <1>6, <1>7, <1>8, <1>11 DEF PoolInv

(* An engine that is handed out is the one of its database, and was never      *)
(* discarded.                                                                  *)
LEMMA HandedOutIsFresh ==
    ASSUME PoolInv, NEW db \in Databases, NEW e \in HandedOut(db),
           created < MaxEngines \/ e \in engines
    PROVE  /\ e \in Engines /\ e[1] = db /\ e \notin disposed
           /\ \A b \in Borrowers : e \notin borrower[b].discarded
           /\ \A c \in Unexpired : c[1] = db => c = e
           /\ e[2] <= created + 1 /\ (e \in engines => e[2] <= created)
<1>1. /\ created \in 0..MaxEngines /\ disposed \subseteq Engines /\ engines \subseteq Engines
      /\ borrower \in [Borrowers -> Loans] /\ MaxEngines \in Nat
      /\ \A c \in Engines : c[2] \in Nat
  BY PoolTyped
<1>2. CASE e \in Unexpired /\ e[1] = db
  <2>1. e \in engines
    BY <1>2, HeldAreUnexpired
  <2>2. e[2] <= created /\ e[2] \in Nat
    BY <1>1, <2>1 DEF PoolInv, LeftForGood
  <2>3. \A c \in Unexpired : c[1] = db => c = e
    BY <1>2, <2>1, HeldAreUnexpired DEF PoolInv, EnginesStayCounted
  <2> QED
    BY <1>1, <1>2, <2>1, <2>2, <2>3 DEF PoolInv, LeftForGood
<1>3. CASE e = <<db, created + 1>> /\ ~ \E c \in Unexpired : c[1] = db
  <2>1. e[2] = created + 1 /\ e[1] = db /\ ~(e[2] <= created)
    BY <1>1, <1>3
  <2>2. /\ e \notin engines /\ e \notin disposed
        /\ \A b \in Borrowers : e \notin borrower[b].discarded
    BY <2>1 DEF PoolInv, LeftForGood
  <2>3. e \in Engines
    BY <1>1, <1>3, <2>2 DEF Engines
  <2> QED
    BY <1>1, <1>3, <2>1, <2>2, <2>3
<1> QED
  BY <1>2, <1>3 DEF HandedOut

(* The cache stays within its cap, or only what somebody holds is left.        *)
LEMMA EvictionReachesTheCap ==
    ASSUME PoolInv, NEW all, IsFiniteSet(all), NEW unused \in SUBSET all, NEW gone,
           Evicted(gone, unused, Cardinality(all))
    PROVE  /\ gone \subseteq unused
           /\ Cardinality(all \ gone) <= CacheLimit \/ gone = unused
<1>1. /\ gone \subseteq unused /\ gone \subseteq all /\ IsFiniteSet(gone)
      /\ IsFiniteSet(all \ gone)
  BY FS_Subset, FS_Difference DEF Evicted
<1>2. Cardinality(all \ gone) = Cardinality(all) - Cardinality(gone)
  <2>1. all \cap gone = gone
    BY <1>1
  <2> QED
    BY <2>1, FS_Difference
<1>3. Cardinality(all) \in Nat /\ Cardinality(gone) \in Nat /\ CacheLimit \in Nat
  BY <1>1, FS_CardinalityType, PoolTyped
<1>4. CASE Cardinality(all) <= CacheLimit
  <2>1. all \ gone = all
    BY <1>4 DEF Evicted
  <2> QED
    BY <1>1, <1>4, <2>1
<1>5. CASE ~(Cardinality(all) <= CacheLimit)
  BY <1>1, <1>2, <1>3, <1>5 DEF Evicted
<1> QED
  BY <1>4, <1>5

LEMMA EngineForKeeps ==
    ASSUME PoolInv, NEW b \in Borrowers, NEW db \in Databases, EngineFor(b, db) PROVE PoolInv'
<1>0. PICK e \in HandedOut(db) :
        \E gone \in SUBSET (Unexpired \ {e}) :
          /\ Evicted(gone, {c \in Unexpired \ {e} : ~Busy(c)}, Cardinality(Unexpired \cup {e}))
          /\ engines' = (Unexpired \cup {e}) \ gone
          /\ older' = (older \cap ((engines' \ {e}) \X (engines' \ {e})))
                       \cup ((engines' \ {e}) \X {e})
          /\ created < MaxEngines \/ e \in engines
          /\ created' = IF e \in engines THEN created ELSE created + 1
          /\ untouched' = (untouched \cap {c[1] : c \in engines'}) \ {db}
          /\ pins' = [pins EXCEPT ![e] = @ + 1]
          /\ borrower' = [borrower EXCEPT ![b] =
               [at |-> "handed", engine |-> e, discarded |-> engines \ engines']]
  BY DEF EngineFor
<1>1. PICK gone \in SUBSET (Unexpired \ {e}) :
        /\ Evicted(gone, {c \in Unexpired \ {e} : ~Busy(c)}, Cardinality(Unexpired \cup {e}))
        /\ engines' = (Unexpired \cup {e}) \ gone
        /\ older' = (older \cap ((engines' \ {e}) \X (engines' \ {e})))
                     \cup ((engines' \ {e}) \X {e})
        /\ created < MaxEngines \/ e \in engines
        /\ created' = IF e \in engines THEN created ELSE created + 1
        /\ untouched' = (untouched \cap {c[1] : c \in engines'}) \ {db}
        /\ pins' = [pins EXCEPT ![e] = @ + 1]
        /\ borrower' = [borrower EXCEPT ![b] =
             [at |-> "handed", engine |-> e, discarded |-> engines \ engines']]
  BY <1>0
<1>2. borrower[b].at = "none" /\ borrower[b].discarded = {} /\ disposed' = disposed
  BY DEF EngineFor
<1> DEFINE unused == {c \in Unexpired \ {e} : ~Busy(c)}
<1>3. /\ e \in Engines /\ e[1] = db /\ e \notin disposed
      /\ \A c \in Borrowers : e \notin borrower[c].discarded
      /\ \A c \in Unexpired : c[1] = db => c = e
      /\ e[2] <= created + 1 /\ (e \in engines => e[2] <= created)
  BY <1>1, HandedOutIsFresh
<1>4. /\ borrower \in [Borrowers -> Loans] /\ engines \subseteq Engines
      /\ created \in 0..MaxEngines /\ MaxEngines \in Nat
      /\ \A c \in Engines : c[2] \in Nat
      /\ Unexpired \subseteq engines /\ IsFiniteSet(engines)
  BY PoolTyped, HeldAreUnexpired
<1>5. /\ e \in engines' /\ engines' \subseteq Unexpired \cup {e} /\ engines' \subseteq Engines
  BY <1>1, <1>3, <1>4
<1>6. /\ borrower' \in [Borrowers -> Loans]
      /\ borrower'[b].at = "handed" /\ borrower'[b].engine = e
      /\ borrower'[b].discarded = engines \ engines'
      /\ \A c \in Borrowers : c # b => borrower'[c] = borrower[c]
  <2> DEFINE row == [at |-> "handed", engine |-> e, discarded |-> engines \ engines']
  <2>1. row \in Loans
    BY <1>3, <1>4 DEF Loans, Places
  <2>2. borrower' = [borrower EXCEPT ![b] = row]
    BY <1>1
  <2> QED
    BY <1>4, <2>1, <2>2
<1>7. Holders(e)' = Holders(e) \cup {b} /\ b \notin Holders(e)
  BY <1>2, <1>6 DEF Holders
<1>8. \A d : d # e => Holders(d)' = Holders(d)
  BY <1>2, <1>6 DEF Holders
<1>9. Cardinality(Holders(e)') = Cardinality(Holders(e)) + 1
  BY <1>7, HoldersFinite, FS_AddElement
<1>10. /\ pins' \in [Engines -> 0..Cardinality(Borrowers)]
       /\ \A d \in Engines : pins'[d] = Cardinality(Holders(d)')
  <2>1. pins \in [Engines -> 0..Cardinality(Borrowers)] /\ Cardinality(Borrowers) \in Nat
        /\ \A d \in Engines : pins[d] = Cardinality(Holders(d))
    BY PoolTyped DEF PoolInv, PinsCount
  <2>2. Holders(e)' \in SUBSET Borrowers
    BY DEF Holders
  <2>3. Cardinality(Holders(e)') <= Cardinality(Borrowers)
    BY <2>2, EnginePoolAssumption, FS_Subset
  <2>4. pins'[e] = Cardinality(Holders(e)') /\ pins'[e] \in 0..Cardinality(Borrowers)
    BY <1>1, <1>3, <1>9, <2>1, <2>3
  <2>5. \A d \in Engines : d # e => pins'[d] = pins[d]
    BY <1>1, <2>1
  <2>6. pins' = [d \in Engines |-> pins'[d]]
    BY <1>1, <2>1
  <2>7. \A d \in Engines : pins'[d] \in 0..Cardinality(Borrowers)
    BY <2>1, <2>4, <2>5
  <2> QED
    BY <1>8, <2>1, <2>4, <2>5, <2>6, <2>7
(* What is held before the step is kept by it.                                *)
<1>11. \A c \in Borrowers : borrower'[c].at # "none" => borrower'[c].engine \in engines'
  <2> SUFFICES ASSUME NEW c \in Borrowers, borrower'[c].at # "none"
               PROVE  borrower'[c].engine \in engines'
    OBVIOUS
  <2>1. CASE c = b
    BY <1>5, <1>6, <2>1
  <2>2. CASE c # b
    <3>1. borrower[c].at # "none" /\ borrower'[c].engine = borrower[c].engine
      BY <1>6, <2>2
    <3>2. borrower[c].engine \in Unexpired
      BY <3>1, HeldAreUnexpired
    <3>3. Busy(borrower[c].engine)
      BY <1>4, <3>1, <3>2, BusyIsHeld
    <3>4. gone \subseteq unused
      BY <1>1 DEF Evicted
    <3> QED
      BY <1>1, <3>1, <3>2, <3>3, <3>4
  <2> QED
    BY <2>1, <2>2
<1>12. created' \in 0..MaxEngines /\ created <= created' /\ e[2] <= created'
  BY <1>1, <1>3, <1>4
<1>13. EnginePoolTypeOK'
  <2>1. older' \subseteq Engines \X Engines /\ untouched' \subseteq Databases
    BY <1>1, <1>3, <1>5, PoolTyped
  <2> QED
    BY <1>2, <1>5, <1>6, <1>10, <1>12, <2>1 DEF PoolInv, EnginePoolTypeOK, Loans
<1>14. LeftForGood'
  <2>1. engines' \cap disposed' = {}
    BY <1>2, <1>3, <1>4, <1>5 DEF PoolInv, LeftForGood
  <2>2. \A c \in Borrowers : engines' \cap borrower'[c].discarded = {}
    BY <1>3, <1>4, <1>5, <1>6 DEF PoolInv, LeftForGood
  <2>3. \A d \in engines \cup disposed : d[2] <= created'
    <3>1. \A d \in engines \cup disposed : d[2] <= created /\ d[2] \in Nat
      BY <1>4, PoolTyped DEF PoolInv, LeftForGood
    <3> QED
      BY <1>4, <1>12, <3>1
  <2>4. \A d \in engines' \cup disposed' : d[2] <= created'
    BY <1>2, <1>4, <1>5, <1>12, <2>3
  <2>5. \A c \in Borrowers : \A d \in borrower'[c].discarded : d[2] <= created'
    <3>1. \A c \in Borrowers : \A d \in borrower[c].discarded : d[2] <= created /\ d[2] \in Nat
      BY <1>4 DEF PoolInv, LeftForGood, Loans
    <3>2. \A c \in Borrowers : \A d \in borrower[c].discarded : d[2] <= created'
      BY <1>4, <1>12, <3>1
    <3> QED
      BY <1>6, <2>3, <3>2
  <2> QED
    BY <2>1, <2>2, <2>4, <2>5 DEF LeftForGood
<1>15. \/ Cardinality(engines') <= CacheLimit
       \/ Cardinality(engines') <= Cardinality(Borrowers)
  <2>1. /\ IsFiniteSet(Unexpired \cup {e}) /\ unused \in SUBSET (Unexpired \cup {e})
    BY <1>4, FS_Subset, FS_AddElement
  <2>2. Cardinality(engines') <= CacheLimit \/ gone = unused
    BY <1>1, <2>1, EvictionReachesTheCap
  <2>3. ASSUME gone = unused, NEW c \in engines'
        PROVE  \E d \in Borrowers : borrower'[d].at # "none" /\ borrower'[d].engine = c
    <3>1. CASE c = e
      BY <1>6, <3>1
    <3>2. CASE c # e
      <4>1. c \in Unexpired /\ Busy(c)
        BY <1>1, <2>3, <3>2
      <4> QED
        BY <1>2, <1>4, <1>6, <4>1, BusyIsHeld
    <3> QED
      BY <3>1, <3>2
  <2>4. gone = unused => Cardinality(engines') <= Cardinality(Borrowers)
    BY <1>6, <2>3, HeldAreFew
  <2> QED
    BY <2>2, <2>4
<1>16. \A c, d \in engines' : c[1] = d[1] => c = d
  BY <1>3, <1>4, <1>5 DEF PoolInv, EnginesStayCounted
<1>17. EnginesStayCounted'
  BY <1>11, <1>14, <1>15, <1>16 DEF EnginesStayCounted, LeftForGood
<1>18. PinsCount'
  BY <1>10, <1>11 DEF PinsCount
<1> QED
  BY <1>13, <1>14, <1>17, <1>18 DEF PoolInv

(* EnginesStayCounted holds of every behaviour: a borrower's engine is cached  *)
(* and open until its pin is dropped, a database has one cached engine, and    *)
(* the cache outgrows its cap only as far as there are borrowers (_busy, pin,  *)
(* _evict_unused_over_cap).                                                    *)
THEOREM BorrowedEnginesStay == EnginePoolSpec => []EnginesStayCounted
<1>1. EnginePoolInit => PoolInv
  BY PoolInitially
<1>2. PoolInv /\ [EnginePoolNext]_poolVars => PoolInv'
  <2> SUFFICES ASSUME PoolInv, [EnginePoolNext]_poolVars PROVE PoolInv'
    OBVIOUS
  <2>1. ASSUME NEW b \in Borrowers, Opens(b) \/ Returns(b) PROVE PoolInv'
    <3>1. PICK at \in Places \ {"none"} : borrower' = [borrower EXCEPT ![b].at = at]
      BY <2>1 DEF Opens, Returns, Places
    <3> QED
      BY <2>1, <3>1, LoanMoves DEF Opens, Returns
  <2>2. ASSUME NEW db \in Databases, IdleWindowPasses(db) PROVE PoolInv'
    BY <2>2 DEF IdleWindowPasses, PoolInv, EnginePoolTypeOK, LeftForGood, PinsCount,
                Holders, EnginesStayCounted
  <2>3. CASE UNCHANGED poolVars
    BY <2>3 DEF poolVars, PoolInv, EnginePoolTypeOK, LeftForGood, PinsCount, Holders,
                EnginesStayCounted
  <2> QED
    BY <2>1, <2>2, <2>3, EngineForKeeps, CloseIdleKeeps, DisposeKeeps, UnpinKeeps
    DEF EnginePoolNext
<1>3. PoolInv => EnginesStayCounted
  BY DEF PoolInv
<1> QED
  BY <1>1, <1>2, <1>3, PTL DEF EnginePoolSpec
=============================================================================
