-------------------------- MODULE SettlementsProofs --------------------------
(***************************************************************************)
(* Proofs about the parts in which something is held while work goes on    *)
(* outside the database: external actions, erasure, the scoring of jobs    *)
(* and the drafting of proposals, for any number of workers, attempts and  *)
(* faults.                                                                 *)
(***************************************************************************)
EXTENDS ExternalActions, Erasure, JobScoring, Proposals, LeastNumbers, TLAPS

-----------------------------------------------------------------------------
(* External actions.                                                         *)

Settlements == {"succeeded", "unresolved", "failed", "refused", "cancelled", "retry"}

JobRows == [state : JobStates, owner : Workers \cup {Nobody},
            live : BOOLEAN, attempts : Nat, cancel_requested : BOOLEAN]

WorkerPlaces == [at : {"idle", "round", "faulted", "recheck"},
                 key : Keys \cup {Nobody}, attempts : Nat,
                 cancel_requested : BOOLEAN, round : 0..2]

Tellings == [outcome : {"nothing"} \cup Settled,
             answer : {"nothing"} \cup Named \cup Unnamed, spent : BOOLEAN]

(* The types, with attempts that are only known to be numbers: their bound is *)
(* a matter of budget, not of these properties.                               *)
Typed ==
    /\ action \in [Keys -> Actions]
    /\ approval \in [Keys -> {"none", "pending", "approved", "executed", "refused"}]
    /\ operation \in [Keys -> {"none", "approval_required", "running", "succeeded",
                               "failed", "cancelled", "unresolved"}]
    /\ envelope \in [Keys -> {"none", "pending", "unresolved"} \cup Settled]
    /\ job \in [Keys -> JobRows]
    /\ worker \in [Workers -> WorkerPlaces]
    /\ destination \in [Keys -> [provider : BOOLEAN, registered : BOOLEAN]]
    /\ requestId \in [Keys -> BOOLEAN] /\ effects \in [Keys -> Nat] /\ byHand \subseteq Keys
    /\ told \in [Keys -> Tellings]

(* An effect an open action may have had already.                             *)
LandedBefore(k) == action[k] \in Open /\ effects[k] > 0

(* A worker under way is on a key.  While it holds the lease it took, its     *)
(* attempts are the row's, which count it unless the row was flagged when it  *)
(* was taken; and when it may call a destination that an earlier lease may    *)
(* have called, it knows itself to be retried.                                *)
LeaseOK(w) ==
    worker[w].at # "idle" =>
      /\ worker[w].key \in Keys
      /\ Held(w) =>
           /\ worker[w].attempts = job[worker[w].key].attempts
           /\ ~worker[w].cancel_requested => worker[w].attempts >= 1
           /\ /\ worker[w].at = "round" /\ LandedBefore(worker[w].key)
              /\ worker[w].round # 2 /\ ~worker[w].cancel_requested
              => worker[w].attempts >= 2

(* RowsAgree at one key, its cases spelled out.                               *)
NoneAgrees(k) ==
    /\ approval[k] = "none" /\ operation[k] = "none" /\ envelope[k] = "none"
    /\ job[k] = NoJob /\ effects[k] = 0

OpenAgrees(k) ==
    /\ envelope[k] = "pending"
    /\ \/ /\ approval[k] = "pending" /\ operation[k] = "approval_required"
          /\ job[k] = NoJob /\ action[k] = "pending"
       \/ /\ approval[k] = "approved" /\ operation[k] = "running"
          /\ job[k].state \in {"queued", "leased"}

SettledAgrees(k) ==
    /\ approval[k] \in {"executed", "refused"}
    /\ action[k] # "refused" => operation[k] = action[k]
    /\ action[k] = "refused" => operation[k] \in {"failed", "cancelled"}
    /\ job[k].state \notin {"queued", "leased"}
    /\ envelope[k] = action[k] \/ (action[k] # "unresolved" /\ envelope[k] = "none")

(* What a settled action says of its effect, and what its callers were told:  *)
(* its outcome, once told, and that the key is spent, once it is.             *)
SettledTrue(k) ==
    /\ action[k] \in {"failed", "refused", "cancelled"} => effects[k] = 0
    /\ action[k] = "succeeded" => effects[k] = 1

ToldTrue(k) ==
    /\ told[k].outcome \in Settled =>
         action[k] = told[k].outcome /\ told[k].answer \in {told[k].outcome} \cup Unnamed
    /\ told[k].spent =>
         action[k] # "none" /\ envelope[k] = "none" /\ told[k].answer \in Unnamed

(* An effect that landed under an action still open lies at a provider, under *)
(* a lease the row has counted.                                               *)
KeyOK(k) ==
    /\ effects[k] <= 1
    /\ action[k] = "none" => NoneAgrees(k)
    /\ action[k] \in Open => OpenAgrees(k)
    /\ action[k] \in Settled \cup {"unresolved"} => SettledAgrees(k)
    /\ LandedBefore(k) => destination[k].provider /\ job[k].attempts >= 1
    /\ k \notin byHand => SettledTrue(k)
    /\ ToldTrue(k)

Inv == Typed /\ (\A k \in Keys : KeyOK(k)) /\ (\A w \in Workers : LeaseOK(w))
-----------------------------------------------------------------------------
(* The properties follow.                                                     *)
LEMMA InvEnough == Inv => EffectAtMostOnce /\ SettledTruthfully
<1> SUFFICES ASSUME Inv PROVE EffectAtMostOnce /\ SettledTruthfully
  OBVIOUS
<1>1. EffectAtMostOnce
  BY DEF EffectAtMostOnce, Inv, KeyOK
<1>2. ASSUME NEW k \in Keys
      PROVE  CASE action[k] = "none" ->
                    approval[k] = "none" /\ operation[k] = "none" /\ job[k] = NoJob
               [] action[k] \in Open ->
                    /\ envelope[k] = "pending"
                    /\ \/ /\ approval[k] = "pending" /\ operation[k] = "approval_required"
                          /\ job[k].state = "none" /\ action[k] = "pending"
                       \/ /\ approval[k] = "approved" /\ operation[k] = "running"
                          /\ job[k].state \in {"queued", "leased"}
               [] OTHER ->
                    /\ approval[k] \in {"executed", "refused"}
                    /\ operation[k] \in (IF action[k] = "refused"
                                         THEN {"failed", "cancelled"} ELSE {action[k]})
                    /\ job[k].state \notin {"queued", "leased"}
                    /\ envelope[k] \in {action[k]} \cup
                         (IF action[k] = "unresolved" THEN {} ELSE {"none"})
  <2>1. KeyOK(k) /\ action[k] \in Actions
    BY DEF Inv, Typed
  <2>2. CASE action[k] = "none"
    BY <2>1, <2>2 DEF KeyOK, NoneAgrees, Open
  <2>3. CASE action[k] \in Open
    BY <2>1, <2>3 DEF KeyOK, OpenAgrees, Open, NoJob
  <2>4. CASE action[k] \in Settled \cup {"unresolved"}
    BY <2>1, <2>4 DEF KeyOK, SettledAgrees, Open, Settled
  <2> QED
    BY <2>1, <2>2, <2>3, <2>4 DEF Actions
<1>3. RowsAgree
  BY <1>2 DEF RowsAgree
<1>4. ASSUME NEW k \in Keys \ byHand PROVE SettledTrue(k)
  BY DEF Inv, KeyOK
<1> QED
  BY <1>1, <1>3, <1>4 DEF SettledTruthfully, SettledTrue

LEMMA Initially == Init => Inv
<1> SUFFICES ASSUME Init PROVE Inv
  OBVIOUS
<1>1. Typed
  <2>1. /\ action \in [Keys -> Actions]
        /\ approval \in [Keys -> {"none", "pending", "approved", "executed", "refused"}]
        /\ operation \in [Keys -> {"none", "approval_required", "running", "succeeded",
                                   "failed", "cancelled", "unresolved"}]
        /\ envelope \in [Keys -> {"none", "pending", "unresolved"} \cup Settled]
    BY DEF Init, Actions
  <2>2. NoJob \in JobRows
    BY DEF NoJob, JobStates, JobRows
  <2>3. Idle \in WorkerPlaces
    BY DEF Idle, WorkerPlaces
  <2>4. [provider : BOOLEAN, registered : {TRUE}] \subseteq [provider : BOOLEAN, registered : BOOLEAN]
    OBVIOUS
  <2>5. /\ job \in [Keys -> JobRows]
        /\ worker \in [Workers -> WorkerPlaces]
    BY <2>2, <2>3 DEF Init
  <2>6. /\ destination \in [Keys -> [provider : BOOLEAN, registered : BOOLEAN]]
        /\ requestId \in [Keys -> BOOLEAN] /\ effects \in [Keys -> Nat] /\ byHand \subseteq Keys
        /\ told \in [Keys -> Tellings]
    BY <2>4 DEF Init, ToldNothing, Tellings
  <2> QED
    BY <2>1, <2>5, <2>6 DEF Typed
<1>2. ASSUME NEW k \in Keys PROVE KeyOK(k)
  BY DEF Init, KeyOK, NoneAgrees, LandedBefore, SettledTrue, ToldTrue, ToldNothing,
         Settled, Open, NoJob
<1>3. ASSUME NEW w \in Workers PROVE LeaseOK(w)
  BY DEF Init, LeaseOK, Idle
<1> QED
  BY <1>1, <1>2, <1>3 DEF Inv
-----------------------------------------------------------------------------
(* What a round may decide.                                                   *)

(* An earlier lease is found to have had its effect only if it did, and not   *)
(* to have had it only if it did not.                                         *)
LEMMA PriorTruthful ==
    ASSUME Inv, NEW k \in Keys, action[k] \in Open, NEW a \in PriorAnswers(k)
    PROVE  /\ a \in {"unresolved", "succeeded", "absent", "refused", "cancelled", "retryable"}
           /\ a = "succeeded" => effects[k] = 1
           /\ a \notin {"unresolved", "succeeded"} => effects[k] = 0
<1>1. /\ effects[k] \in Nat /\ effects[k] <= 1
      /\ effects[k] > 0 => destination[k].provider
  BY DEF Inv, KeyOK, Typed, LandedBefore
<1> QED
  BY <1>1 DEF PriorAnswers

(* A decision never settles what is not so, and the destination is called     *)
(* only when no effect landed before.                                         *)
Truthful(d, k) ==
    /\ d.settle \in Settlements /\ d.landed \in BOOLEAN
    /\ d.landed => /\ effects[k] = 0 /\ d.settle \in {"succeeded", "unresolved"}
                   /\ d.settle = "unresolved" => destination[k].provider
    /\ d.settle \in {"failed", "refused", "cancelled"} => ~d.landed /\ effects[k] = 0
    /\ d.settle = "succeeded" => d.landed \/ effects[k] = 1

LEMMA ExecutedTruthful ==
    ASSUME Inv, NEW k \in Keys, NEW lease, effects[k] = 0, NEW d \in Executed(lease, k)
    PROVE  Truthful(d, k)
<1>1. CASE d = Decided("succeeded", TRUE, TRUE)
  BY <1>1 DEF Decided, Truthful, Settlements
<1>2. CASE \E c \in {"refused", "cancelled", "retryable"} :
             d = Decided(Classified(lease, c), FALSE, TRUE)
  BY <1>2 DEF Decided, Classified, Truthful, Settlements
<1>3. CASE destination[k].provider /\ \E landed \in BOOLEAN :
                                        d = Decided("unresolved", landed, TRUE)
  BY <1>3 DEF Decided, Truthful, Settlements
<1> QED
  BY <1>1, <1>2, <1>3 DEF Executed

LEMMA RunTruthful ==
    ASSUME Inv, NEW k \in Keys, action[k] \in Open, NEW lease,
           effects[k] > 0 => Retried(lease), NEW d \in RunDecisions(lease, k)
    PROVE  Truthful(d, k)
<1>0. effects[k] \in Nat
  BY DEF Inv, Typed
<1>1. CASE d = Decided("refused", FALSE, FALSE) /\ ~Retried(lease)
  BY <1>0, <1>1 DEF Decided, Truthful, Settlements
<1>2. ASSUME NEW a \in PriorAnswers(k), d \in AfterPrior(lease, k, a)
      PROVE  Truthful(d, k)
  <2>1. CASE a \in {"succeeded", "unresolved"}
    <3>1. d = Decided(a, FALSE, TRUE)
      BY <1>2, <2>1 DEF AfterPrior
    <3>2. a = "succeeded" => effects[k] = 1
      BY PriorTruthful
    <3> QED
      BY <2>1, <3>1, <3>2 DEF Decided, Truthful, Settlements
  <2>2. CASE a \notin {"succeeded", "unresolved"}
    <3>1. effects[k] = 0 /\ a \in {"absent", "refused", "cancelled", "retryable"}
      BY <2>2, PriorTruthful
    <3>2. CASE d = Decided("refused", FALSE, TRUE)
      BY <3>1, <3>2 DEF Decided, Truthful, Settlements
    <3>3. CASE a = "absent" /\ d \in Executed(lease, k)
      BY <3>1, <3>3, ExecutedTruthful
    <3>4. CASE a # "absent" /\ d = Decided(Classified(lease, a), FALSE, TRUE)
      BY <3>1, <3>4 DEF Decided, Classified, Truthful, Settlements
    <3> QED
      BY <1>2, <2>2, <3>2, <3>3, <3>4 DEF AfterPrior
  <2> QED
    BY <2>1, <2>2
<1> QED
  BY <1>1, <1>2 DEF RunDecisions

LEMMA RecoverTruthful ==
    ASSUME Inv, NEW k \in Keys, action[k] \in Open, NEW lease,
           effects[k] > 0 => lease.attempts # 0, NEW d \in RecoverDecisions(lease, k)
    PROVE  Truthful(d, k) /\ ~d.landed
<1>0. effects[k] \in Nat
  BY DEF Inv, Typed
<1>1. CASE d = Decided("cancelled", FALSE, FALSE) /\ lease.attempts = 0
  BY <1>0, <1>1 DEF Decided, Truthful, Settlements
<1>2. CASE \E a \in PriorAnswers(k) :
             d = Decided(IF a \in {"succeeded", "unresolved"} THEN a
                         ELSE IF Mode(lease) = "cancel_requested" THEN "cancelled"
                         ELSE "failed", FALSE, TRUE)
  <2>1. PICK a \in PriorAnswers(k) :
             d = Decided(IF a \in {"succeeded", "unresolved"} THEN a
                         ELSE IF Mode(lease) = "cancel_requested" THEN "cancelled"
                         ELSE "failed", FALSE, TRUE)
    BY <1>2
  <2>2. CASE a \in {"succeeded", "unresolved"}
    BY <2>1, <2>2, PriorTruthful DEF Decided, Truthful, Settlements
  <2>3. CASE a \notin {"succeeded", "unresolved"}
    BY <2>1, <2>3, PriorTruthful DEF Decided, Truthful, Settlements
  <2> QED
    BY <2>2, <2>3
<1> QED
  BY <1>1, <1>2 DEF RecoverDecisions

(* The lease that binds the five rows decides truthfully, and what calls the  *)
(* destination is a lease that counts itself.                                 *)
LEMMA DecisionsTruthful ==
    ASSUME Inv, NEW w \in Workers, worker[w].at = "round", Bound(w),
           NEW d \in Decisions(worker[w], worker[w].key)
    PROVE  /\ worker[w].key \in Keys /\ action[worker[w].key] \in Open
           /\ Truthful(d, worker[w].key)
           /\ d.landed => job[worker[w].key].attempts >= 1
<1> DEFINE k == worker[w].key
<1>1. /\ k \in Keys /\ action[k] \in Open /\ Held(w) /\ effects[k] \in Nat
      /\ worker[w].attempts = job[k].attempts /\ worker[w].attempts \in Nat
      /\ worker[w].cancel_requested \in BOOLEAN /\ KeyOK(k)
  BY DEF Inv, Typed, LeaseOK, Bound, JobRows, WorkerPlaces
<1>2. CASE Mode(worker[w]) = "run"
  <2>1. worker[w].round # 2 /\ ~worker[w].cancel_requested
    BY <1>2 DEF Mode
  <2>2. worker[w].attempts >= 1 /\ (effects[k] > 0 => Retried(worker[w]))
    BY <1>1, <2>1 DEF Inv, LeaseOK, LandedBefore, Retried
  <2>3. d \in RunDecisions(worker[w], k)
    BY <1>2 DEF Decisions
  <2>4. Truthful(d, k)
    BY <1>1, <2>2, <2>3, RunTruthful
  <2> QED
    BY <1>1, <2>2, <2>4
<1>3. CASE Mode(worker[w]) # "run"
  <2>1. d \in RecoverDecisions(worker[w], k)
    BY <1>3 DEF Decisions
  <2>2. effects[k] > 0 => worker[w].attempts # 0
    BY <1>1 DEF KeyOK, LandedBefore
  <2>3. Truthful(d, k) /\ ~d.landed
    BY <1>1, <2>1, <2>2, RecoverTruthful
  <2> QED
    BY <1>1, <2>3
<1> QED
  BY <1>2, <1>3
-----------------------------------------------------------------------------
(* What a step leaves alone.                                                  *)
SameKey(j) ==
    /\ action'[j] = action[j] /\ approval'[j] = approval[j]
    /\ operation'[j] = operation[j] /\ envelope'[j] = envelope[j] /\ job'[j] = job[j]
    /\ effects'[j] = effects[j] /\ told'[j] = told[j]
    /\ destination'[j].provider = destination[j].provider
    /\ j \in byHand => j \in byHand'

LEMMA KeyElsewhere ==
    ASSUME Inv, NEW j \in Keys, SameKey(j)
    PROVE  KeyOK(j)'
  BY DEF Inv, SameKey, KeyOK, NoneAgrees, OpenAgrees, SettledAgrees, LandedBefore,
         SettledTrue, ToldTrue

(* A worker that did not move is as right as it was when its key's row, and   *)
(* what landed under it, did not change under its lease.                      *)
SameLease(w) ==
    LET k == worker[w].key IN
    /\ worker'[w] = worker[w]
    /\ worker[w].at # "idle" /\ k \in Keys /\ Held(w)' =>
         /\ Held(w) /\ job'[k].attempts = job[k].attempts
         /\ LandedBefore(k)' => LandedBefore(k)

LEMMA LeaseElsewhere ==
    ASSUME Inv, NEW w \in Workers, SameLease(w)
    PROVE  LeaseOK(w)'
  BY DEF Inv, SameLease, LeaseOK
-----------------------------------------------------------------------------
(* The steps that move no worker.                                             *)

(* Staging, the decision, retention and the resolution act on a key that no   *)
(* lease is held on.                                                          *)
Unleased(k) ==
    \/ StageExternal(k) \/ ReplayStaged(k) \/ RequestRefused(k)
    \/ QueueApprovedExternal(k) \/ GuardRefusesApproval(k) \/ RefuseStagedExternal(k)
    \/ PurgeExpired(k) \/ ResolveExternal(k)

(* What an answer leaves of what the callers of a key were told.              *)
LEMMA AnswerTold ==
    ASSUME Typed, NEW k \in Keys, NEW answer \in Named \cup Unnamed, Answered(k, answer)
    PROVE  /\ told' \in [Keys -> Tellings]
           /\ told'[k].outcome # "nothing" \/ told'[k].spent => told'[k].answer = answer
           /\ told'[k].outcome = (IF answer \in Settled THEN answer ELSE told[k].outcome)
           /\ told'[k].spent = (told[k].spent \/ answer = "key_reused")
           /\ \A j \in Keys : j # k => told'[j] = told[j]
<1> DEFINE o == IF answer \in Settled THEN answer ELSE told[k].outcome
           s == told[k].spent \/ answer = "key_reused"
           t == [outcome |-> o, spent |-> s,
                 answer |-> IF o = "nothing" /\ ~s THEN "nothing" ELSE answer]
<1>1. told \in [Keys -> Tellings] /\ told' = [told EXCEPT ![k] = t]
  BY DEF Answered, Typed
<1>2. t \in Tellings
  <2>1. told[k].outcome \in {"nothing"} \cup Settled /\ told[k].spent \in BOOLEAN
    BY <1>1 DEF Tellings
  <2> QED
    BY <2>1 DEF Tellings
<1>3. told' \in [Keys -> Tellings] /\ told'[k] = t /\ \A j \in Keys : j # k => told'[j] = told[j]
  BY <1>1, <1>2
<1>4. t.outcome = o /\ t.spent = s /\ (o # "nothing" \/ s => t.answer = answer)
  OBVIOUS
<1> QED
  BY <1>3, <1>4

(* A request that stages has a key of which no caller was told anything that  *)
(* stands; its answer settles and spends nothing.                             *)
LEMMA StagingTold ==
    ASSUME Inv, NEW k \in Keys, StageExternal(k)
    PROVE  \E answer \in {"approval_required", "no_outcome"} :
             /\ answer \in Named \cup Unnamed /\ answer \notin Settled
             /\ Answered(k, answer)
             /\ told[k].outcome \notin Settled /\ ~told[k].spent
<1>1. action[k] = "none" /\ ToldTrue(k)
  BY DEF Inv, KeyOK, StageExternal, KeySpent
<1>2. told[k].outcome \notin Settled /\ ~told[k].spent
  BY <1>1 DEF ToldTrue, Settled
<1> QED
  BY <1>2 DEF StageExternal, Named, Unnamed, Settled

(* A repeat, or a request that is refused, is answered with the outcome the    *)
(* rows have, if with any, and never against what a caller was told.           *)
LEMMA RepeatTold ==
    ASSUME Inv, NEW k \in Keys, ReplayStaged(k) \/ RequestRefused(k)
    PROVE  \E answer \in Named \cup Unnamed :
             /\ Answered(k, answer)
             /\ answer \in Settled => envelope[k] = answer /\ action[k] = answer
             /\ answer = "key_reused" => envelope[k] = "none" /\ action[k] # "none"
             /\ told[k].outcome \in Settled => answer \in {told[k].outcome} \cup Unnamed
             /\ told[k].spent => answer \in Unnamed
<1>1. Typed /\ KeyOK(k) /\ ToldTrue(k)
  BY DEF Inv, KeyOK
<1>2. CASE RequestRefused(k)
  BY <1>2 DEF RequestRefused, Unnamed, Settled
<1>3. CASE ReplayStaged(k) /\ envelope[k] = "none"
  BY <1>3 DEF ReplayStaged, KeySpent, Unnamed, Settled
<1>4. CASE ReplayStaged(k) /\ envelope[k] # "none"
  <2>1. Answered(k, Replay(k)) /\ ~told[k].spent
    BY <1>1, <1>4 DEF ReplayStaged, ToldTrue
  <2>2. Replay(k) \in Named
    BY <1>1, <1>4 DEF Typed, Replay, Named
  <2>3. Replay(k) \in Settled => envelope[k] = Replay(k)
    BY DEF Replay, Settled
  <2>4. envelope[k] \in Settled => action[k] = envelope[k]
    BY <1>1, <1>4 DEF KeyOK, Typed, NoneAgrees, OpenAgrees, SettledAgrees, Actions, Settled
  <2>5. action[k] \in Settled => Replay(k) = action[k]
    BY <1>1, <1>4 DEF KeyOK, SettledAgrees, Replay, Settled
  <2>6. Replay(k) # "key_reused"
    BY <2>2 DEF Named, Settled
  <2> QED
    BY <1>1, <2>1, <2>2, <2>3, <2>4, <2>5, <2>6 DEF ToldTrue
<1> QED
  BY <1>2, <1>3, <1>4

LEMMA UnleasedTyped == ASSUME Inv, NEW k \in Keys, Unleased(k) PROVE Typed'
<1> USE DEF Inv, Typed, rows
<1>1. CASE StageExternal(k)
  <2>1. told' \in [Keys -> Tellings]
    BY <1>1, StagingTold, AnswerTold
  <2> QED
    BY <1>1, <2>1 DEF StageExternal, Actions, Open, Settled
<1>2. CASE ReplayStaged(k) \/ RequestRefused(k)
  <2>1. told' \in [Keys -> Tellings]
    BY <1>2, RepeatTold, AnswerTold
  <2> QED
    BY <1>2, <2>1 DEF ReplayStaged, RequestRefused
<1>3. CASE QueueApprovedExternal(k)
  <2>1. [NoJob EXCEPT !.state = "queued"] \in
          JobRows
    BY DEF NoJob, JobStates, JobRows
  <2>2. job' \in [Keys -> JobRows]
    BY <1>3, <2>1 DEF QueueApprovedExternal
  <2>3. /\ approval' \in [Keys -> {"none", "pending", "approved", "executed", "refused"}]
        /\ operation' \in [Keys -> {"none", "approval_required", "running", "succeeded",
                                    "failed", "cancelled", "unresolved"}]
    BY <1>3 DEF QueueApprovedExternal
  <2> QED
    BY <1>3, <2>2, <2>3 DEF QueueApprovedExternal
<1>4. CASE GuardRefusesApproval(k)
  BY <1>4 DEF GuardRefusesApproval, Actions, Settled
<1>5. CASE RefuseStagedExternal(k)
  BY <1>5 DEF RefuseStagedExternal, Actions, Settled
<1>6. CASE PurgeExpired(k)
  BY <1>6 DEF PurgeExpired
<1>7. CASE ResolveExternal(k)
  <2>1. PICK outcome \in {"succeeded", "failed", "cancelled"} :
           /\ action' = [action EXCEPT ![k] = outcome]
           /\ operation' = [operation EXCEPT ![k] = outcome]
           /\ envelope' = [envelope EXCEPT ![k] = outcome]
    BY <1>7 DEF ResolveExternal
  <2>2. /\ action' \in [Keys -> Actions]
        /\ operation' \in [Keys -> {"none", "approval_required", "running", "succeeded",
                                    "failed", "cancelled", "unresolved"}]
        /\ envelope' \in [Keys -> {"none", "pending", "unresolved"} \cup Settled]
    BY <2>1 DEF Actions, Settled
  <2> QED
    BY <1>7, <2>2 DEF ResolveExternal
<1> QED
  BY <1>1, <1>2, <1>3, <1>4, <1>5, <1>6, <1>7 DEF Unleased

LEMMA UnleasedKey == ASSUME Inv, NEW k \in Keys, Unleased(k) PROVE KeyOK(k)'
<1>0. /\ KeyOK(k) /\ Typed
  BY DEF Inv
<1> USE <1>0 DEF Typed, KeyOK, NoneAgrees, OpenAgrees, SettledAgrees, LandedBefore,
                 SettledTrue, ToldTrue, rows
<1>1. CASE StageExternal(k)
  <2>1. action[k] = "none" /\ envelope[k] = "none"
    BY <1>1 DEF StageExternal, KeySpent
  <2>2. told'[k].outcome \notin Settled /\ ~told'[k].spent
    BY <1>1, StagingTold, AnswerTold DEF Settled
  <2> QED
    BY <1>1, <2>1, <2>2 DEF StageExternal, Open, Settled, NoJob
<1>2. CASE ReplayStaged(k) \/ RequestRefused(k)
  <2>1. UNCHANGED <<rows, job, effects, byHand, destination>>
    BY <1>2 DEF ReplayStaged, RequestRefused
  <2>2. ToldTrue(k)'
    <3>1. PICK answer \in Named \cup Unnamed :
               /\ Answered(k, answer)
               /\ answer \in Settled => envelope[k] = answer /\ action[k] = answer
               /\ answer = "key_reused" => envelope[k] = "none" /\ action[k] # "none"
               /\ told[k].outcome \in Settled => answer \in {told[k].outcome} \cup Unnamed
               /\ told[k].spent => answer \in Unnamed
      BY <1>2, RepeatTold
    <3>2. /\ told'[k].outcome # "nothing" \/ told'[k].spent => told'[k].answer = answer
          /\ told'[k].outcome = (IF answer \in Settled THEN answer ELSE told[k].outcome)
          /\ told'[k].spent = (told[k].spent \/ answer = "key_reused")
      BY <3>1, AnswerTold
    <3> QED
      BY <2>1, <3>1, <3>2 DEF Unnamed, Settled
  <2> QED
    BY <2>1, <2>2
<1>3. CASE QueueApprovedExternal(k)
  <2>1. action[k] = "pending" /\ effects[k] = 0
    BY <1>3 DEF QueueApprovedExternal, Actions, Open, Settled, NoJob
  <2> QED
    BY <1>3, <2>1 DEF QueueApprovedExternal, Open, Settled
<1>4. CASE GuardRefusesApproval(k) \/ RefuseStagedExternal(k)
  <2>1. action[k] = "pending" /\ effects[k] = 0 /\ job[k] = NoJob
    BY <1>4 DEF GuardRefusesApproval, RefuseStagedExternal, Actions, Open, Settled, NoJob
  <2> QED
    BY <1>4, <2>1 DEF GuardRefusesApproval, RefuseStagedExternal, Open, Settled, NoJob
<1>5. CASE PurgeExpired(k)
  BY <1>5 DEF PurgeExpired, Protected, Actions, Open, Settled
<1>6. CASE ResolveExternal(k)
  <2>1. PICK outcome \in {"succeeded", "failed", "cancelled"} :
           /\ action' = [action EXCEPT ![k] = outcome]
           /\ operation' = [operation EXCEPT ![k] = outcome]
           /\ envelope' = [envelope EXCEPT ![k] = outcome]
    BY <1>6 DEF ResolveExternal
  <2> QED
    BY <1>6, <2>1 DEF ResolveExternal, Open, Settled
<1> QED
  BY <1>1, <1>2, <1>3, <1>4, <1>5, <1>6 DEF Unleased

LEMMA UnleasedStep == ASSUME Inv, NEW k \in Keys, Unleased(k) PROVE Inv'
<1>0. Typed /\ KeyOK(k)
  BY DEF Inv
<1>1. /\ worker' = worker /\ effects' = effects /\ destination' = destination
      /\ \A j \in Keys : j # k => SameKey(j)
  BY <1>0 DEF Unleased, StageExternal, ReplayStaged, RequestRefused, Answered,
       QueueApprovedExternal,
       GuardRefusesApproval, RefuseStagedExternal, PurgeExpired, ResolveExternal,
       rows, SameKey, Typed
<1>2. /\ job'[k].state = "leased" => job'[k] = job[k]
      /\ action'[k] \in Open => action[k] \in Open \/ job'[k].state # "leased"
  BY <1>0 DEF Unleased, StageExternal, ReplayStaged, RequestRefused, Answered,
       QueueApprovedExternal,
       GuardRefusesApproval, RefuseStagedExternal, PurgeExpired, ResolveExternal,
       rows, Typed, KeyOK, NoneAgrees, KeySpent, NoJob, Open
<1>3. ASSUME NEW w \in Workers PROVE LeaseOK(w)'
  <2>1. SameLease(w)
    <3>1. CASE worker[w].key = k
      BY <1>1, <1>2, <3>1 DEF SameLease, Held, LandedBefore
    <3>2. CASE worker[w].key # k
      BY <1>1, <3>2 DEF SameLease, SameKey, Held, LandedBefore
    <3> QED
      BY <3>1, <3>2
  <2> QED
    BY <2>1, LeaseElsewhere
<1>4. ASSUME NEW j \in Keys PROVE KeyOK(j)'
  BY <1>1, UnleasedKey, KeyElsewhere
<1> QED
  BY <1>3, <1>4, UnleasedTyped DEF Inv

(* A flag, a lapse and a deployment touch neither the state, the owner nor the *)
(* attempts of a lease.                                                        *)
LEMMA FlagLapseDeploy ==
    ASSUME Inv, NEW k \in Keys, RequestCancellation(k) \/ LeaseLapses(k) \/ Redeploy(k)
    PROVE  Inv'
<1>1. /\ UNCHANGED <<rows, worker, requestId, effects, byHand, told>>
      /\ destination' \in [Keys -> [provider : BOOLEAN, registered : BOOLEAN]]
      /\ \A j \in Keys : destination'[j].provider = destination[j].provider
  <2>0. destination \in [Keys -> [provider : BOOLEAN, registered : BOOLEAN]]
    BY DEF Inv, Typed
  <2>1. CASE RequestCancellation(k)
    BY <2>0, <2>1 DEF RequestCancellation
  <2>2. CASE LeaseLapses(k)
    BY <2>0, <2>2 DEF LeaseLapses
  <2>3. CASE Redeploy(k)
    BY <2>0, <2>3 DEF Redeploy
  <2> QED
    BY <2>1, <2>2, <2>3
<1>2. /\ job' \in [Keys -> JobRows]
      /\ \A j \in Keys :
           /\ job'[j].state = job[j].state /\ job'[j].owner = job[j].owner
           /\ job'[j].attempts = job[j].attempts
           /\ job[j].state \notin {"queued", "leased"} => job'[j] = job[j]
  <2>0. job \in [Keys -> JobRows]
    BY DEF Inv, Typed
  <2>1. CASE RequestCancellation(k)
    <3>1. job' = [job EXCEPT ![k].cancel_requested = TRUE] /\ job[k].state \in {"queued", "leased"}
      BY <2>1 DEF RequestCancellation
    <3> QED
      BY <2>0, <3>1 DEF JobRows
  <2>2. CASE LeaseLapses(k)
    <3>1. job' = [job EXCEPT ![k].live = FALSE] /\ job[k].state \in {"queued", "leased"}
      BY <2>2 DEF LeaseLapses
    <3> QED
      BY <2>0, <3>1 DEF JobRows
  <2>3. CASE Redeploy(k)
    BY <2>0, <2>3 DEF Redeploy
  <2> QED
    BY <2>1, <2>2, <2>3
<1>3. Typed'
  BY <1>1, <1>2 DEF Inv, Typed, rows
<1>4. ASSUME NEW j \in Keys PROVE KeyOK(j)'
  <2>1. CASE job'[j] = job[j]
    BY <1>1, <2>1, KeyElsewhere DEF SameKey, rows
  <2>2. CASE job'[j] # job[j]
    <3>1. job[j].state \in {"queued", "leased"} /\ job[j] # NoJob
      BY <1>2, <2>2 DEF NoJob
    <3> QED
      BY <1>1, <1>2, <3>1 DEF Inv, rows, KeyOK, NoneAgrees, OpenAgrees, SettledAgrees,
           LandedBefore, SettledTrue, ToldTrue
  <2> QED
    BY <2>1, <2>2
<1>5. ASSUME NEW w \in Workers PROVE LeaseOK(w)'
  <2>1. SameLease(w)
    BY <1>1, <1>2 DEF SameLease, Held, LandedBefore, rows
  <2> QED
    BY <2>1, LeaseElsewhere
<1> QED
  BY <1>3, <1>4, <1>5 DEF Inv
-----------------------------------------------------------------------------
(* The steps of a worker.                                                     *)

LEMMA Leasing == ASSUME Inv, NEW w \in Workers, NEW k \in Keys, AcquireLease(w, k) PROVE Inv'
<1>0. /\ Typed /\ KeyOK(k) /\ Counted(k) \in Nat /\ Counted(k) >= job[k].attempts
      /\ ~job[k].cancel_requested => Counted(k) = job[k].attempts + 1
      /\ job[k].state \in {"queued", "leased"}
  BY DEF Inv, Typed, Counted, AcquireLease, Candidate, JobRows
<1>1. /\ job'[k].state = "leased" /\ job'[k].owner = w /\ job'[k].attempts = Counted(k)
      /\ \A j \in Keys : j # k => job'[j] = job[j]
      /\ job' \in [Keys -> JobRows]
  <2>1. job' = [job EXCEPT ![k].state = "leased", ![k].owner = w, ![k].live = TRUE,
                           ![k].attempts = Counted(k)]
    BY DEF AcquireLease
  <2>2. job \in [Keys -> JobRows] /\ "leased" \in JobStates
    BY <1>0 DEF Typed, JobStates
  <2>3. /\ job'[k] = [job[k] EXCEPT !.state = "leased", !.owner = w, !.live = TRUE,
                                   !.attempts = Counted(k)]
        /\ \A j \in Keys : j # k => job'[j] = job[j]
    BY <2>1, <2>2
  <2>4. /\ job'[k].state = "leased" /\ job'[k].owner = w /\ job'[k].attempts = Counted(k)
        /\ job'[k] \in JobRows
    BY <1>0, <2>2, <2>3 DEF JobRows
  <2>5. DOMAIN job' = Keys /\ job' = [j \in Keys |-> job'[j]]
    BY <2>1, <2>2
  <2>6. job' \in [Keys -> JobRows]
    BY <2>2, <2>3, <2>4, <2>5
  <2> QED
    BY <2>3, <2>4, <2>6
<1>2. /\ worker'[w] = [at |-> "round", key |-> k, attempts |-> Counted(k),
                       cancel_requested |-> job[k].cancel_requested, round |-> 1]
      /\ \A v \in Workers : v # w => worker'[v] = worker[v]
      /\ worker' \in [Workers -> WorkerPlaces]
  <2>1. [at |-> "round", key |-> k, attempts |-> Counted(k),
         cancel_requested |-> job[k].cancel_requested, round |-> 1] \in
           WorkerPlaces
    BY <1>0 DEF Typed, WorkerPlaces, JobRows
  <2> QED
    BY <1>0, <2>1 DEF AcquireLease, Typed
<1>3. UNCHANGED <<rows, destination, requestId, effects, byHand, told>>
  BY DEF AcquireLease
<1>4. Typed'
  BY <1>0, <1>1, <1>2, <1>3 DEF Typed, rows
<1>5. ASSUME NEW j \in Keys PROVE KeyOK(j)'
  <2>1. CASE j = k
    <3>1. action[k] \in Open /\ approval[k] = "approved" /\ operation[k] = "running"
      BY <1>0 DEF KeyOK, Typed, NoneAgrees, OpenAgrees, SettledAgrees, Actions, NoJob
    <3>2. action[k] \notin Settled \cup {"none", "unresolved"}
      BY <3>1 DEF Open, Settled
    <3> QED
      BY <1>0, <1>1, <1>3, <2>1, <3>1, <3>2
      DEF KeyOK, Typed, OpenAgrees, LandedBefore, SettledTrue, ToldTrue, rows, Settled, JobRows
  <2>2. CASE j # k
    BY <1>1, <1>3, <2>2, KeyElsewhere DEF SameKey, rows
  <2> QED
    BY <2>1, <2>2
<1>6. ASSUME NEW v \in Workers PROVE LeaseOK(v)'
  <2>1. CASE v = w
    <3>1. LandedBefore(k)' => job[k].attempts >= 1
      BY <1>0, <1>3 DEF KeyOK, LandedBefore, rows
    <3>2. /\ ~job[k].cancel_requested => Counted(k) >= 1
          /\ ~job[k].cancel_requested /\ LandedBefore(k)' => Counted(k) >= 2
      BY <1>0, <3>1 DEF Typed, JobRows
    <3> QED
      BY <1>1, <1>2, <2>1, <3>2 DEF LeaseOK, Held
  <2>2. CASE v # w
    <3>1. SameLease(v)
      BY <1>1, <1>2, <1>3, <2>2 DEF SameLease, Held, LandedBefore, rows
    <3> QED
      BY <3>1, LeaseElsewhere
  <2> QED
    BY <2>1, <2>2
<1> QED
  BY <1>4, <1>5, <1>6 DEF Inv

(* What a worker that leaves, or goes to a place that is no round, may leave   *)
(* behind: an effect of its own lease, under rows it did not change.           *)
Away(w) ==
    /\ worker' \in [Workers -> WorkerPlaces]
    /\ worker'[w].at \in {"idle", "faulted", "recheck"}
    /\ worker'[w].at # "idle" =>
         /\ worker'[w].key = worker[w].key /\ worker'[w].attempts = worker[w].attempts
         /\ worker'[w].cancel_requested = worker[w].cancel_requested
    /\ \A v \in Workers : v # w => worker'[v] = worker[v]

LEMMA LeavesOrGoes ==
    ASSUME Typed, NEW w \in Workers,
           Leave(w) \/ \E place \in {"faulted", "recheck"} : Goto(w, place)
    PROVE  Away(w)
<1>1. CASE Leave(w)
  <2>1. Idle \in WorkerPlaces
    BY DEF Idle, WorkerPlaces
  <2>2. worker' = [worker EXCEPT ![w] = Idle] /\ Idle.at = "idle"
    BY <1>1 DEF Leave, Idle
  <2> QED
    BY <2>1, <2>2 DEF Away, Typed
<1>2. ASSUME NEW place \in {"faulted", "recheck"}, Goto(w, place) PROVE Away(w)
  <2>1. worker \in [Workers -> WorkerPlaces] /\ worker' = [worker EXCEPT ![w].at = place]
    BY <1>2 DEF Goto, Typed
  <2> QED
    BY <2>1 DEF Away, WorkerPlaces
<1> QED
  BY <1>1, <1>2

LEMMA RoundLeftOpen ==
    ASSUME Inv, NEW w \in Workers, worker[w].at # "idle", Away(w),
           UNCHANGED <<rows, job, destination, requestId, byHand, told>>,
           \/ UNCHANGED effects
           \/ /\ worker[w].at = "round" /\ Bound(w)
              /\ \E d \in Decisions(worker[w], worker[w].key) :
                   /\ d.landed
                   /\ Landed(worker[w].key, destination[worker[w].key].provider)
    PROVE  Inv'
<1> DEFINE k == worker[w].key
<1>0. Typed /\ k \in Keys /\ KeyOK(k) /\ LeaseOK(w)
  BY DEF Inv, LeaseOK
<1>1. \/ UNCHANGED effects
      \/ /\ Held(w) /\ action[k] \in Open /\ effects[k] = 0 /\ destination[k].provider
         /\ job[k].attempts >= 1 /\ effects' = [effects EXCEPT ![k] = 1]
  <2>1. CASE UNCHANGED effects
    BY <2>1
  <2>2. ASSUME worker[w].at = "round", Bound(w), NEW d \in Decisions(worker[w], k),
               d.landed, Landed(k, destination[k].provider)
        PROVE  \/ UNCHANGED effects
               \/ /\ Held(w) /\ action[k] \in Open /\ effects[k] = 0
                  /\ destination[k].provider /\ job[k].attempts >= 1
                  /\ effects' = [effects EXCEPT ![k] = 1]
    <3>1. /\ action[k] \in Open /\ effects[k] = 0 /\ job[k].attempts >= 1 /\ Held(w)
      BY <2>2, DecisionsTruthful DEF Truthful, Bound
    <3>2. destination[k].provider \in BOOLEAN
      BY <1>0 DEF Typed
    <3>3. effects' = [effects EXCEPT ![k] = 1] \/ UNCHANGED effects
      BY <2>2, <3>1 DEF Landed
    <3>4. ~destination[k].provider => UNCHANGED effects
      BY <2>2 DEF Landed
    <3> QED
      BY <3>1, <3>2, <3>3, <3>4
  <2> QED
    BY <2>1, <2>2
<1>2. Typed'
  <2>1. effects' \in [Keys -> Nat]
    BY <1>0, <1>1 DEF Typed
  <2> QED
    BY <1>0, <2>1 DEF Typed, rows, Away
<1>3. ASSUME NEW j \in Keys PROVE KeyOK(j)'
  <2>1. CASE effects'[j] = effects[j]
    BY <2>1, KeyElsewhere DEF SameKey, rows
  <2>2. CASE effects'[j] # effects[j]
    <3>1. /\ j = k /\ action[k] \in Open /\ destination[k].provider
          /\ job[k].attempts >= 1 /\ effects'[k] = 1
      BY <1>0, <1>1, <2>2 DEF Typed
    <3>2. action[k] \notin Settled \cup {"none", "unresolved"}
      BY <3>1 DEF Open, Settled
    <3> QED
      BY <1>0, <3>1, <3>2
      DEF KeyOK, OpenAgrees, LandedBefore, SettledTrue, ToldTrue, rows, Settled
  <2> QED
    BY <2>1, <2>2
<1>4. ASSUME NEW v \in Workers PROVE LeaseOK(v)'
  <2>1. CASE v = w
    BY <1>0, <2>1 DEF LeaseOK, Away, Held
  <2>2. CASE v # w
    <3>1. worker'[v] = worker[v] /\ job' = job /\ action' = action
      BY <2>2 DEF Away, rows
    <3>2. worker[v].key \in Keys /\ Held(v) => effects'[worker[v].key] = effects[worker[v].key]
      BY <1>0, <1>1, <2>2 DEF Typed, Held
    <3>3. SameLease(v)
      BY <3>1, <3>2 DEF SameLease, Held, LandedBefore
    <3> QED
      BY <3>3, LeaseElsewhere
  <2> QED
    BY <2>1, <2>2
<1> QED
  BY <1>2, <1>3, <1>4 DEF Inv

(* A job write releases the lease and keeps the attempts.                      *)
LEMMA Released ==
    ASSUME Typed, NEW k \in Keys, NEW settle \in Settlements, JobWritten(k, settle)
    PROVE  /\ job' \in [Keys -> JobRows]
           /\ job'[k].state = JobOutcome(settle) /\ job'[k].owner = Nobody
           /\ job'[k].attempts = job[k].attempts
           /\ \A j \in Keys : j # k => job'[j] = job[j]
<1>1. job \in [Keys -> JobRows] /\ JobOutcome(settle) \in JobStates
  BY DEF Typed, JobOutcome, JobStates, Settlements
<1>2. /\ job'[k] = [job[k] EXCEPT !.state = JobOutcome(settle), !.owner = Nobody, !.live = FALSE]
      /\ \A j \in Keys : j # k => job'[j] = job[j]
      /\ DOMAIN job' = Keys /\ job' = [j \in Keys |-> job'[j]]
  BY <1>1 DEF JobWritten
<1>3. /\ job'[k].state = JobOutcome(settle) /\ job'[k].owner = Nobody
      /\ job'[k].attempts = job[k].attempts /\ job'[k] \in JobRows
  BY <1>1, <1>2 DEF JobRows
<1> QED
  BY <1>1, <1>2, <1>3

(* Once a worker has left its key's row released, every lease is as right as   *)
(* it was.                                                                     *)
LEMMA ReleasedLeases ==
    ASSUME Inv, NEW w \in Workers, worker[w].at # "idle", Away(w), worker'[w].at = "idle",
           job'[worker[w].key].owner = Nobody,
           \A j \in Keys : j # worker[w].key =>
             job'[j] = job[j] /\ action'[j] = action[j] /\ effects'[j] = effects[j],
           NEW v \in Workers
    PROVE  LeaseOK(v)'
<1>1. CASE v = w
  BY <1>1 DEF LeaseOK
<1>2. CASE v # w
  <2>1. worker'[v] = worker[v]
    BY <1>2 DEF Away
  <2>2. CASE worker[v].key = worker[w].key
    BY <2>1, <2>2, ExternalAssumption DEF Held, LeaseOK, Inv
  <2>3. CASE worker[v].key # worker[w].key
    BY <2>1, <2>3, LeaseElsewhere DEF SameLease, Held, LandedBefore
  <2> QED
    BY <2>2, <2>3
<1> QED
  BY <1>1, <1>2

(* A round that commits a terminal settlement, or leaves the action to a       *)
(* later lease.                                                                *)
LEMMA Committing == ASSUME Inv, NEW w \in Workers, CommitRound(w) PROVE Inv'
<1>0. PICK k \in Keys : k = worker[w].key
  BY DEF CommitRound, Inv, LeaseOK
<1>1. PICK d \in Decisions(worker[w], k) :
         /\ Settle(k, d.settle) /\ Landed(k, d.landed)
         /\ requestId' = [requestId EXCEPT ![k] = @ \/
              (d.asked /\ destination[k].provider /\ destination[k].registered)]
  BY <1>0 DEF CommitRound
<1>2. /\ worker[w].at = "round" /\ Bound(w) /\ Leave(w)
      /\ UNCHANGED <<destination, byHand, told>>
  BY DEF CommitRound
<1>3. k \in Keys /\ action[k] \in Open /\ Truthful(d, k) /\ Typed /\ KeyOK(k)
  BY <1>0, <1>2, DecisionsTruthful DEF Inv
<1>4. Away(w) /\ worker'[w].at = "idle"
  BY <1>2, <1>3, LeavesOrGoes DEF Leave, Idle, Typed
<1>5. d.settle \in Settlements /\ d.landed \in BOOLEAN
  BY <1>3 DEF Truthful
<1>6. /\ job' \in [Keys -> JobRows]
      /\ job'[k].state = JobOutcome(d.settle) /\ job'[k].owner = Nobody
      /\ job'[k].attempts = job[k].attempts
      /\ \A j \in Keys : j # k => job'[j] = job[j]
  BY <1>1, <1>3, <1>5, Released DEF Settle
<1>7. /\ effects' \in [Keys -> Nat]
      /\ effects'[k] = effects[k] + (IF d.landed THEN 1 ELSE 0)
      /\ \A j \in Keys : j # k => effects'[j] = effects[j]
  BY <1>1, <1>3, <1>5 DEF Landed, Typed
<1>8. /\ action' = [action EXCEPT ![k] = IF d.settle = "retry" THEN "executing" ELSE d.settle]
      /\ approval' = [approval EXCEPT ![k] =
                        IF d.settle = "retry" THEN "approved"
                        ELSE IF d.settle \in {"refused", "cancelled"} THEN "refused"
                        ELSE "executed"]
      /\ operation' = [operation EXCEPT ![k] =
                        IF d.settle = "retry" THEN "running"
                        ELSE IF d.settle = "refused" THEN "failed" ELSE d.settle]
      /\ envelope' = [envelope EXCEPT ![k] =
                        IF d.settle = "retry" THEN "pending" ELSE d.settle]
  <2>1. approval[k] = "approved" /\ operation[k] = "running" /\ envelope[k] = "pending"
    BY <1>0, <1>2 DEF Bound
  <2>2. action' = [action EXCEPT ![k] = IF d.settle = "retry" THEN "executing" ELSE d.settle]
    BY <1>1 DEF Settle
  <2>3. approval' = [approval EXCEPT ![k] =
                        IF d.settle = "retry" THEN "approved"
                        ELSE IF d.settle \in {"refused", "cancelled"} THEN "refused"
                        ELSE "executed"]
    BY <1>1, <1>3, <2>1 DEF Settle, Typed
  <2>4. operation' = [operation EXCEPT ![k] =
                        IF d.settle = "retry" THEN "running"
                        ELSE IF d.settle = "refused" THEN "failed" ELSE d.settle]
    BY <1>1, <1>3, <2>1 DEF Settle, Typed
  <2>5. envelope' = [envelope EXCEPT ![k] =
                        IF d.settle = "retry" THEN "pending" ELSE d.settle]
    BY <1>1, <1>3, <2>1 DEF Settle, Typed
  <2> QED
    BY <2>2, <2>3, <2>4, <2>5
<1>9. Typed'
  <2>1. /\ action' \in [Keys -> Actions]
        /\ approval' \in [Keys -> {"none", "pending", "approved", "executed", "refused"}]
    BY <1>3, <1>5, <1>8 DEF Typed, Settlements, Actions, Open, Settled
  <2>2. /\ operation' \in [Keys -> {"none", "approval_required", "running", "succeeded",
                                    "failed", "cancelled", "unresolved"}]
        /\ envelope' \in [Keys -> {"none", "pending", "unresolved"} \cup Settled]
    BY <1>3, <1>5, <1>8 DEF Typed, Settlements, Settled
  <2>3. requestId' \in [Keys -> BOOLEAN]
    BY <1>1, <1>3 DEF Typed
  <2> QED
    BY <1>2, <1>3, <1>4, <1>6, <1>7, <2>1, <2>2, <2>3 DEF Typed, Away
<1>10. KeyOK(k)'
  <2>1. /\ effects[k] \in Nat /\ effects[k] <= 1
        /\ told[k].outcome \notin Settled /\ ~told[k].spent
    <3>1. action[k] \notin Settled /\ envelope[k] # "none"
      BY <1>3 DEF Open, Settled, KeyOK, OpenAgrees
    <3> QED
      BY <1>3, <3>1 DEF Typed, KeyOK, ToldTrue
  <2>2. CASE d.settle = "retry"
    <3>1. /\ action'[k] = "executing" /\ approval'[k] = "approved"
          /\ operation'[k] = "running" /\ envelope'[k] = "pending"
          /\ job'[k].state = "queued" /\ effects'[k] = effects[k] /\ told'[k] = told[k]
      BY <1>2, <1>3, <1>6, <1>7, <1>8, <2>2 DEF Typed, JobOutcome, Truthful
    <3> QED
      BY <1>2, <1>3, <1>6, <2>1, <3>1
      DEF KeyOK, OpenAgrees, LandedBefore, SettledTrue, ToldTrue, Open, Settled
  <2>3. CASE d.settle # "retry"
    <3>1. /\ action'[k] = d.settle /\ envelope'[k] = d.settle /\ told'[k] = told[k]
          /\ approval'[k] \in {"executed", "refused"}
          /\ operation'[k] = IF d.settle = "refused" THEN "failed" ELSE d.settle
          /\ job'[k].state \in {"succeeded", "failed", "cancelled"}
      BY <1>2, <1>3, <1>5, <1>6, <1>8, <2>3 DEF Typed, JobOutcome, Settlements
    <3>2. SettledTrue(k)' /\ effects'[k] <= 1
      BY <1>3, <1>7, <2>1, <3>1 DEF SettledTrue, Truthful
    <3>3. SettledAgrees(k)'
      BY <1>5, <2>3, <3>1 DEF SettledAgrees, Settlements
    <3>4. action'[k] \notin {"none"} \cup Open
      BY <1>5, <2>3, <3>1 DEF Settlements, Open
    <3>5. ToldTrue(k)'
      BY <2>1, <3>1 DEF ToldTrue
    <3> QED
      BY <2>1, <3>1, <3>2, <3>3, <3>4, <3>5 DEF KeyOK, LandedBefore
  <2> QED
    BY <2>2, <2>3
<1>11. ASSUME NEW j \in Keys PROVE KeyOK(j)'
  <2>1. CASE j # k
    BY <1>2, <1>3, <1>6, <1>7, <1>8, <2>1, KeyElsewhere DEF SameKey, Typed
  <2> QED
    BY <1>10, <2>1
<1>12. ASSUME NEW v \in Workers PROVE LeaseOK(v)'
  <2>1. \A j \in Keys : j # k => action'[j] = action[j]
    BY <1>3, <1>8 DEF Typed
  <2> QED
    BY <1>0, <1>2, <1>4, <1>6, <1>7, <2>1, ReleasedLeases
<1> QED
  BY <1>9, <1>11, <1>12 DEF Inv

(* While a worker holds its lease the rows belong to it.                       *)
LEMMA HeldBinds ==
    ASSUME Inv, NEW w \in Workers, worker[w].at # "idle", Held(w)
    PROVE  worker[w].key \in Keys /\ Bound(w)
<1> DEFINE k == worker[w].key
<1>1. k \in Keys /\ job[k].state = "leased" /\ action[k] \in Actions /\ KeyOK(k)
  BY DEF Inv, LeaseOK, Held, Typed
<1>2. action[k] \in Open
  BY <1>1 DEF KeyOK, NoneAgrees, SettledAgrees, Actions, NoJob
<1>3. approval[k] = "approved" /\ operation[k] = "running" /\ envelope[k] = "pending"
  BY <1>1, <1>2 DEF KeyOK, OpenAgrees, NoJob
<1> QED
  BY <1>1, <1>2, <1>3 DEF Bound

LEMMA Requeueing == ASSUME Inv, NEW w \in Workers, RequeueFaulted(w) PROVE Inv'
<1> DEFINE k == worker[w].key
<1>1. CASE UNCHANGED job /\ Goto(w, "recheck")
  <2>1. /\ worker[w].at # "idle" /\ Away(w)
        /\ UNCHANGED <<rows, destination, requestId, effects, byHand, told>>
    BY <1>1, LeavesOrGoes DEF RequeueFaulted, Inv
  <2> QED
    BY <1>1, <2>1, RoundLeftOpen
<1>2. CASE FinishApplies(w, "retry") /\ JobWritten(k, "retry") /\ Leave(w)
  <2>1. /\ worker[w].at # "idle" /\ Held(w) /\ Away(w) /\ worker'[w].at = "idle" /\ Typed
        /\ UNCHANGED <<rows, destination, requestId, effects, byHand, told>>
    BY <1>2, LeavesOrGoes DEF RequeueFaulted, FinishApplies, Inv, Leave, Idle, Typed
  <2>2. k \in Keys /\ Bound(w) /\ KeyOK(k)
    BY <2>1, HeldBinds DEF Inv
  <2>3. /\ job' \in [Keys -> JobRows]
        /\ job'[k].state = "queued" /\ job'[k].owner = Nobody
        /\ job'[k].attempts = job[k].attempts
        /\ \A j \in Keys : j # k => job'[j] = job[j]
    BY <1>2, <2>1, <2>2, Released DEF Settlements, JobOutcome
  <2>4. Typed'
    BY <2>1, <2>3 DEF Typed, Away, rows
  <2>5. ASSUME NEW j \in Keys PROVE KeyOK(j)'
    <3>1. CASE j = k
      <4>1. action[k] \in Open /\ approval[k] = "approved" /\ operation[k] = "running"
        BY <2>2 DEF Bound
      <4>2. action[k] \notin Settled \cup {"none", "unresolved"}
        BY <4>1 DEF Open, Settled
      <4> QED
        BY <2>1, <2>2, <2>3, <3>1, <4>1, <4>2
        DEF KeyOK, OpenAgrees, LandedBefore, SettledTrue, ToldTrue, rows, Settled
    <3>2. CASE j # k
      BY <2>1, <2>3, <3>2, KeyElsewhere DEF SameKey, rows
    <3> QED
      BY <3>1, <3>2
  <2>6. ASSUME NEW v \in Workers PROVE LeaseOK(v)'
    BY <2>1, <2>3, ReleasedLeases DEF rows
  <2> QED
    BY <2>4, <2>5, <2>6 DEF Inv
<1> QED
  BY <1>1, <1>2 DEF RequeueFaulted

(* The round in cancellation mode asks only.                                   *)
LEMMA Rechecking == ASSUME Inv, NEW w \in Workers, RecheckCancellation(w) PROVE Inv'
<1>1. /\ worker[w].at = "recheck" /\ Typed
      /\ UNCHANGED <<rows, job, destination, requestId, effects, byHand, told>>
  BY DEF RecheckCancellation, Inv
<1>2. CASE Leave(w)
  BY <1>1, <1>2, LeavesOrGoes, RoundLeftOpen
<1>3. CASE worker' = [worker EXCEPT ![w].at = "round", ![w].round = 2]
  <2>1. /\ worker' \in [Workers -> WorkerPlaces]
        /\ \A v \in Workers : v # w => worker'[v] = worker[v]
        /\ worker'[w].round = 2 /\ worker'[w].key = worker[w].key
        /\ worker'[w].attempts = worker[w].attempts
        /\ worker'[w].cancel_requested = worker[w].cancel_requested
    <3>1. /\ worker'[w] = [worker[w] EXCEPT !.at = "round", !.round = 2]
          /\ \A v \in Workers : v # w => worker'[v] = worker[v]
          /\ DOMAIN worker' = Workers /\ worker' = [v \in Workers |-> worker'[v]]
      BY <1>1, <1>3 DEF Typed
    <3>2. /\ worker'[w] \in WorkerPlaces
          /\ worker'[w].round = 2 /\ worker'[w].key = worker[w].key
          /\ worker'[w].attempts = worker[w].attempts
          /\ worker'[w].cancel_requested = worker[w].cancel_requested
      <4>1. worker[w] \in WorkerPlaces
        BY <1>1 DEF Typed
      <4>2. worker'[w] \in WorkerPlaces
        <5>1. worker'[w] = [at |-> "round", key |-> worker[w].key,
                            attempts |-> worker[w].attempts,
                            cancel_requested |-> worker[w].cancel_requested, round |-> 2]
          BY <3>1, <4>1 DEF WorkerPlaces
        <5>2. /\ worker[w].key \in Keys \cup {Nobody} /\ worker[w].attempts \in Nat
              /\ worker[w].cancel_requested \in BOOLEAN
          BY <4>1 DEF WorkerPlaces
        <5> QED
          BY <5>1, <5>2 DEF WorkerPlaces
      <4> QED
        BY <3>1, <4>1, <4>2 DEF WorkerPlaces
    <3> QED
      BY <1>1, <3>1, <3>2 DEF Typed
  <2>2. Typed'
    BY <1>1, <2>1 DEF Typed, rows
  <2>3. ASSUME NEW j \in Keys PROVE KeyOK(j)'
    BY <1>1, KeyElsewhere DEF SameKey, rows
  <2>4. ASSUME NEW v \in Workers PROVE LeaseOK(v)'
    <3>1. CASE v = w
      BY <1>1, <2>1, <3>1 DEF Inv, LeaseOK, Held
    <3>2. CASE v # w
      BY <1>1, <2>1, <3>2, LeaseElsewhere DEF SameLease, Held, LandedBefore, rows
    <3> QED
      BY <3>1, <3>2
  <2> QED
    BY <2>2, <2>3, <2>4 DEF Inv
<1> QED
  BY <1>2, <1>3 DEF RecheckCancellation

(* A round that is lost, refused its grant, raises or dies settles nothing.    *)
LEMMA Failing ==
    ASSUME Inv, NEW w \in Workers,
           LoseRound(w) \/ GrantRefused(w) \/ RoundRaises(w) \/ Crash(w)
    PROVE  Inv'
<1> DEFINE k == worker[w].key
<1>0. Typed
  BY DEF Inv
<1>1. CASE LoseRound(w)
  <2>1. PICK d \in Decisions(worker[w], k) : Landed(k, d.landed /\ destination[k].provider)
    BY <1>1 DEF LoseRound
  <2>2. /\ worker[w].at = "round" /\ Bound(w) /\ Goto(w, "recheck")
        /\ UNCHANGED <<rows, job, destination, requestId, byHand, told>>
    BY <1>1 DEF LoseRound
  <2>3. Away(w)
    BY <1>0, <2>2, LeavesOrGoes
  <2>4. CASE d.landed
    BY <2>1, <2>2, <2>3, <2>4, RoundLeftOpen DEF Landed
  <2>5. CASE ~d.landed
    BY <2>1, <2>2, <2>3, <2>5, RoundLeftOpen DEF Landed
  <2> QED
    BY <2>4, <2>5
<1>2. CASE GrantRefused(w)
  <2>1. ~FinishApplies(w, "failed")
    BY <1>2, HeldBinds DEF GrantRefused, FinishApplies
  <2>2. Away(w)
    BY <1>0, <1>2, <2>1, LeavesOrGoes DEF GrantRefused
  <2> QED
    BY <1>2, <2>1, <2>2, RoundLeftOpen DEF GrantRefused
<1>3. CASE RoundRaises(w)
  <2>1. Away(w)
    BY <1>0, <1>3, LeavesOrGoes DEF RoundRaises
  <2> QED
    BY <1>3, <2>1, RoundLeftOpen DEF RoundRaises
<1>4. CASE Crash(w)
  <2>1. Away(w)
    BY <1>0, <1>4, LeavesOrGoes DEF Crash
  <2> QED
    BY <1>4, <2>1, RoundLeftOpen DEF Crash
<1> QED
  BY <1>1, <1>2, <1>3, <1>4
-----------------------------------------------------------------------------
LEMMA Stuttering == ASSUME Inv, UNCHANGED vars PROVE Inv'
<1>1. Typed'
  BY DEF Inv, Typed, vars, rows
<1>2. ASSUME NEW j \in Keys PROVE KeyOK(j)'
  BY KeyElsewhere DEF SameKey, vars, rows
<1>3. ASSUME NEW v \in Workers PROVE LeaseOK(v)'
  BY LeaseElsewhere DEF SameLease, Held, LandedBefore, vars, rows
<1> QED
  BY <1>1, <1>2, <1>3 DEF Inv

LEMMA Stepping == Inv /\ [Next]_vars => Inv'
  BY Stuttering, UnleasedStep, FlagLapseDeploy, Leasing, Committing, Requeueing,
     Rechecking, Failing
  DEF Next, WorkerStep, Unleased

LEMMA InvHolds == Spec => []Inv
  BY Initially, Stepping, PTL DEF Spec

(* However many workers crash, raise, lose their leases, are cancelled or     *)
(* redeployed around the call of the destination, an approved action takes    *)
(* effect there at most once.                                                 *)
THEOREM ActionsLandOnce == Spec => []EffectAtMostOnce
  BY InvHolds, InvEnough, PTL

(* What the program settles by itself is true of the destination, and the     *)
(* action, its approval, its operation record, its envelope and its job never *)
(* disagree in a committed state.                                             *)
THEOREM SettlementsAreTrue == Spec => []SettledTruthfully
  BY InvHolds, InvEnough, PTL

(* What AnswersStand says of one step.                                        *)
AnswerStands ==
    \A k \in Keys :
      /\ told[k].outcome \in Settled => told'[k].answer \in {told[k].outcome} \cup Unnamed
      /\ told[k].spent => told'[k].answer \in Unnamed

LEMMA StepAnswers == Inv /\ [Next]_vars => AnswerStands
<1> SUFFICES ASSUME Inv, [Next]_vars, NEW k \in Keys
             PROVE  /\ told[k].outcome \in Settled =>
                         told'[k].answer \in {told[k].outcome} \cup Unnamed
                    /\ told[k].spent => told'[k].answer \in Unnamed
  BY DEF AnswerStands
<1>1. Typed /\ ToldTrue(k)
  BY DEF Inv, KeyOK
<1>2. CASE told'[k] = told[k]
  BY <1>1, <1>2 DEF ToldTrue
<1>3. ASSUME NEW j \in Keys, j # k,
             StageExternal(j) \/ ReplayStaged(j) \/ RequestRefused(j)
      PROVE  told'[k] = told[k]
  BY <1>1, <1>3, StagingTold, RepeatTold, AnswerTold
<1>4. CASE StageExternal(k)
  BY <1>4, StagingTold
<1>5. CASE ReplayStaged(k) \/ RequestRefused(k)
  <2>1. PICK answer \in Named \cup Unnamed :
             /\ Answered(k, answer)
             /\ told[k].outcome \in Settled => answer \in {told[k].outcome} \cup Unnamed
             /\ told[k].spent => answer \in Unnamed
    BY <1>5, RepeatTold
  <2>2. /\ told'[k].outcome # "nothing" \/ told'[k].spent => told'[k].answer = answer
        /\ told'[k].outcome = (IF answer \in Settled THEN answer ELSE told[k].outcome)
        /\ told'[k].spent = (told[k].spent \/ answer = "key_reused")
    BY <1>1, <2>1, AnswerTold
  <2>3. told[k].outcome \in Settled \/ told[k].spent => told'[k].answer = answer
    BY <2>2 DEF Settled
  <2> QED
    BY <2>1, <2>3
<1>6. UNCHANGED told \/ \E j \in Keys : StageExternal(j) \/ ReplayStaged(j) \/ RequestRefused(j)
  BY DEF vars, Next, WorkerStep, QueueApprovedExternal, GuardRefusesApproval,
     RefuseStagedExternal, PurgeExpired, RequestCancellation, LeaseLapses, Redeploy,
     ResolveExternal, AcquireLease, CommitRound, LoseRound, GrantRefused, RequeueFaulted,
     RecheckCancellation, RoundRaises, Crash
<1> QED
  BY <1>2, <1>3, <1>4, <1>5, <1>6

(* A caller that was told a settled outcome is told the same outcome, or gets *)
(* a refusal or an error that names none, however often it asks, whatever     *)
(* retention purges and whichever requests fail in between; and after it was  *)
(* told that its key is spent, no answer names an outcome.                    *)
THEOREM AnswersNeverChange == Spec => AnswersStand
<1>1. Inv /\ [Next]_vars => [AnswerStands]_vars
  BY StepAnswers
<1> QED
  BY <1>1, InvHolds, PTL DEF Spec, AnswersStand, AnswerStands
-----------------------------------------------------------------------------
(* Erasure.                                                                  *)

HeldCalls == [call : {"erase", "act"}, rev : Nat,
              state : {"none", "pending", "executed", "refused", "invalidated"}]
Readings  == [call : {"none", "erase", "act"}, rev : Nat]
Approvals == [at : {"idle", "guarded", "authorized", "locked"}, hold : Holds, rev : Nat]

ErasureShaped ==
    /\ record \in [rev : Nat, gone : BOOLEAN]
    /\ hold \in [Holds -> HeldCalls]
    /\ holding \in [Holds -> Readings]
    /\ approver \in [Approvers -> Approvals]

(* A call is committed into a row that is still empty.                        *)
HoldOK(h) == holding[h].call # "none" => hold[h].state = "none"

(* A transaction that approves an erasure holds its row's lock: the call      *)
(* waits for it, and for it alone, as it was approved.                        *)
ApproverOK(p) ==
    approver[p].at # "idle" =>
      /\ hold[approver[p].hold].state = "pending"
      /\ hold[approver[p].hold].call = "erase"
      /\ \A q \in Approvers :
           approver[q].at # "idle" /\ approver[q].hold = approver[p].hold => q = p

ErasureInv ==
    /\ ErasureShaped
    /\ \A h \in Holds : HoldOK(h)
    /\ \A p \in Approvers : ApproverOK(p)

LEMMA NobodyApproves == NoApprover \in Approvals /\ NoApprover.at = "idle"
  BY ErasureAssumption DEF NoApprover, Approvals

LEMMA ErasureInitially == ErasureInit => ErasureInv
<1> SUFFICES ASSUME ErasureInit PROVE ErasureInv
  OBVIOUS
<1>1. ErasureShaped
  BY NobodyApproves
  DEF ErasureInit, ErasureShaped, HeldCalls, Readings, NoHold
<1> QED
  BY <1>1, NobodyApproves DEF ErasureInit, ErasureInv, HoldOK, ApproverOK

(* A transaction that ends leaves the others and their calls as they are.     *)
LEMMA ApproverGone ==
    ASSUME ErasureInv, NEW p \in Approvers, Rollback(p)
    PROVE  /\ approver' \in [Approvers -> Approvals] /\ approver'[p].at = "idle"
           /\ \A q \in Approvers : q # p => approver'[q] = approver[q]
  BY NobodyApproves DEF ErasureInv, ErasureShaped, Rollback

(* A row nobody has locked may be decided.                                    *)
LEMMA RowDecided ==
    ASSUME ErasureInv, NEW h \in Holds, Decidable(h),
           NEW state \in {"executed", "refused"}, hold' = [hold EXCEPT ![h].state = state],
           UNCHANGED <<record, holding, approver>>
    PROVE  ErasureInv'
<1>1. /\ hold' \in [Holds -> HeldCalls] /\ hold'[h].state # "none"
      /\ \A g \in Holds : g # h => hold'[g] = hold[g]
  <2> DEFINE row == [hold[h] EXCEPT !.state = state]
  <2>1. row \in HeldCalls
    BY DEF ErasureInv, ErasureShaped, HeldCalls
  <2>2. row.state = state
    BY DEF ErasureInv, ErasureShaped, HeldCalls
  <2>3. hold' = [hold EXCEPT ![h] = row]
    OBVIOUS
  <2> HIDE DEF row
  <2> QED
    BY <2>1, <2>2, <2>3 DEF ErasureInv, ErasureShaped
<1>2. \A p \in Approvers : approver[p].at # "idle" => approver[p].hold # h
  BY DEF Decidable, RowLocked
<1>3. holding[h].call = "none"
  BY DEF Decidable, ErasureInv, ErasureShaped, HoldOK, Readings
<1>4. ErasureShaped'
  BY <1>1 DEF ErasureInv, ErasureShaped
<1>5. \A g \in Holds : HoldOK(g)'
  BY <1>1, <1>3 DEF ErasureInv, HoldOK
<1>6. \A p \in Approvers : ApproverOK(p)'
  BY <1>1, <1>2 DEF ErasureInv, ErasureShaped, ApproverOK, Approvals
<1> QED
  BY <1>4, <1>5, <1>6 DEF ErasureInv

LEMMA EraseStep ==
    ASSUME ErasureInv, NEW p \in Approvers, Erase(p)
    PROVE  /\ ErasureInv'
           /\ \E h \in Holds : /\ hold[h].state = "pending" /\ hold'[h].state = "executed"
                               /\ hold[h].call = "erase" /\ hold[h].rev = record.rev
<1> DEFINE g == approver[p].hold
<1>1. /\ g \in Holds /\ hold[g].state = "pending" /\ hold[g].call = "erase"
      /\ hold[g].rev = record.rev
      /\ \A q \in Approvers : approver[q].at # "idle" /\ approver[q].hold = g => q = p
  BY DEF Erase, Erasable, ErasureInv, ErasureShaped, ApproverOK, Approvals
<1>2. \A q \in Approvers \ {p} :
        approver[q].at # "idle" =>
          /\ approver[q].hold \in Holds /\ approver[q].hold # g
          /\ approver[q].hold \notin OtherHolds(p)
  <2> SUFFICES ASSUME NEW q \in Approvers \ {p}, approver[q].at # "idle"
               PROVE  /\ approver[q].hold \in Holds /\ approver[q].hold # g
                      /\ approver[q].hold \notin OtherHolds(p)
    OBVIOUS
  <2>1. approver[q].hold \in Holds /\ approver[q].hold # g
    BY <1>1 DEF ErasureInv, ErasureShaped, Approvals
  <2>2. RowLocked(approver[q].hold)
    BY DEF RowLocked
  <2> QED
    BY <2>1, <2>2 DEF Erase
<1>3. hold' = [h \in Holds |->
                  IF h = g THEN [hold[h] EXCEPT !.state = "executed"]
                  ELSE IF h \in OtherHolds(p) THEN [hold[h] EXCEPT !.state = "invalidated"]
                  ELSE hold[h]]
  BY DEF Erase
<1>4. /\ Rollback(p) /\ holding' = holding
      /\ record' = [record EXCEPT !.gone = TRUE]
  BY DEF Erase
<1>5. \A r \in HeldCalls, s \in {"executed", "invalidated"} :
        [r EXCEPT !.state = s] \in HeldCalls /\ [r EXCEPT !.state = s].state = s
  BY DEF HeldCalls
<1>6. \A h \in Holds : hold[h] \in HeldCalls
  BY DEF ErasureInv, ErasureShaped
<1> HIDE DEF g
<1>7. /\ hold' \in [Holds -> HeldCalls] /\ hold'[g].state = "executed"
      /\ \A h \in Holds : h # g /\ h \notin OtherHolds(p) => hold'[h] = hold[h]
  BY <1>1, <1>3, <1>5, <1>6
<1>8. \A h \in OtherHolds(p) : hold[h].state = "pending"
  BY DEF OtherHolds
<1>9. ErasureShaped'
  BY <1>4, <1>7, ApproverGone DEF ErasureInv, ErasureShaped
<1>10. \A h \in Holds : HoldOK(h)'
  BY <1>1, <1>4, <1>7, <1>8 DEF ErasureInv, HoldOK
<1>11. \A q \in Approvers : ApproverOK(q)'
  BY <1>2, <1>4, <1>7, ApproverGone DEF ErasureInv, ApproverOK
<1> QED
  BY <1>1, <1>7, <1>9, <1>10, <1>11 DEF ErasureInv

(* Every other step leaves the record where it is, written or not.            *)
LEMMA OtherErasureSteps ==
    ASSUME ErasureInv, [ErasureNext]_erasureVars, ~\E p \in Approvers : Erase(p)
    PROVE  ErasureInv' /\ record'.gone = record.gone
<1>1. CASE WriteRecord
  <2>1. record' \in [rev : Nat, gone : BOOLEAN] /\ record'.gone = record.gone
    BY <1>1 DEF WriteRecord, ErasureInv, ErasureShaped
  <2> QED
    BY <1>1, <2>1 DEF WriteRecord, ErasureInv, ErasureShaped, HoldOK, ApproverOK
<1>2. ASSUME NEW h \in Holds, NEW k \in {"erase", "act"}, HoldReads(h, k)
      PROVE  ErasureInv' /\ record' = record
  <2> DEFINE reading == [call |-> k, rev |-> IF record.gone THEN 0 ELSE record.rev]
  <2>1. reading \in Readings
    BY DEF ErasureInv, ErasureShaped, Readings
  <2>2. /\ hold[h].state = "none" /\ holding' = [holding EXCEPT ![h] = reading]
        /\ UNCHANGED <<record, hold, approver>>
    BY <1>2 DEF HoldReads
  <2> HIDE DEF reading
  <2> QED
    BY <2>1, <2>2 DEF ErasureInv, ErasureShaped, HoldOK, ApproverOK
<1>3. ASSUME NEW h \in Holds, HoldCommits(h) PROVE ErasureInv' /\ record' = record
  <2> DEFINE row == [call |-> holding[h].call, state |-> "pending", rev |-> holding[h].rev]
             none == [call |-> "none", rev |-> 0]
  <2>1. row \in HeldCalls /\ none \in Readings /\ none.call = "none"
    BY <1>3 DEF HoldCommits, ErasureInv, ErasureShaped, Readings, HeldCalls
  <2>2. /\ hold[h].state = "none" /\ hold' = [hold EXCEPT ![h] = row]
        /\ holding' = [holding EXCEPT ![h] = none] /\ UNCHANGED <<record, approver>>
    BY <1>3 DEF HoldCommits, ErasureInv, HoldOK
  <2> HIDE DEF row, none
  <2>3. \A p \in Approvers : approver[p].at # "idle" =>
          approver[p].hold \in Holds /\ approver[p].hold # h
    BY <2>2 DEF ErasureInv, ErasureShaped, ApproverOK, Approvals
  <2> QED
    BY <2>1, <2>2, <2>3 DEF ErasureInv, ErasureShaped, HoldOK, ApproverOK
<1>4. ASSUME NEW h \in Holds, RefuseHold(h) PROVE ErasureInv' /\ record' = record
  BY <1>4, RowDecided DEF RefuseHold
<1>5. ASSUME NEW h \in Holds, NEW p \in Approvers, ApproveHold(p, h)
      PROVE  ErasureInv' /\ record' = record
  <2>1. Decidable(h) /\ UNCHANGED <<record, holding>>
    BY <1>5 DEF ApproveHold
  <2>2. CASE approver' = approver /\ \E s \in {"executed", "refused"} :
                                       hold' = [hold EXCEPT ![h].state = s]
    BY <2>1, <2>2, RowDecided
  <2>3. CASE /\ hold[h].call = "erase" /\ hold' = hold /\ approver[p].at = "idle"
             /\ approver' = [approver EXCEPT ![p] = [at |-> "guarded", hold |-> h, rev |-> 0]]
    <3> DEFINE a == [at |-> "guarded", hold |-> h, rev |-> 0]
    <3>1. a \in Approvals /\ a.at = "guarded" /\ a.hold = h
      BY DEF Approvals
    <3>2. approver' = [approver EXCEPT ![p] = a]
      BY <2>3
    <3> HIDE DEF a
    <3>3. \A q \in Approvers : approver[q].at # "idle" => approver[q].hold # h
      BY <2>1 DEF Decidable, RowLocked
    <3>4. hold[h].state = "pending"
      BY <2>1 DEF Decidable
    <3>5. \A q \in Approvers : q # p => approver'[q] = approver[q]
      BY <3>2 DEF ErasureInv, ErasureShaped
    <3>6. approver'[p] = a /\ approver' \in [Approvers -> Approvals]
      BY <3>1, <3>2 DEF ErasureInv, ErasureShaped
    <3>7. \A q \in Approvers : ApproverOK(q)'
      BY <2>3, <3>1, <3>3, <3>4, <3>5, <3>6 DEF ErasureInv, ApproverOK
    <3> QED
      BY <2>1, <2>3, <3>6, <3>7 DEF ErasureInv, ErasureShaped, HoldOK
  <2> QED
    BY <1>5, <2>2, <2>3 DEF ApproveHold
<1>6. ASSUME NEW p \in Approvers, Rollback(p), UNCHANGED <<record, hold, holding>>
      PROVE  ErasureInv' /\ record' = record
  BY <1>6, ApproverGone DEF ErasureInv, ErasureShaped, HoldOK, ApproverOK
<1>7. ASSUME NEW p \in Approvers, Checkpoint(p) \/ TakeLifecycle(p)
      PROVE  ErasureInv' /\ record' = record
  <2>1. CASE Rollback(p)
    BY <1>6, <1>7, <2>1 DEF Checkpoint, TakeLifecycle
  <2>2. CASE ~Rollback(p)
    <3>1. approver[p] \in Approvals /\ record.rev \in Nat
      BY DEF ErasureInv, ErasureShaped
    <3>2. PICK a \in Approvals :
            /\ approver' = [approver EXCEPT ![p] = a]
            /\ a.at # "idle" /\ a.hold = approver[p].hold
      <4>1. CASE Checkpoint(p)
        <5> DEFINE a == [approver[p] EXCEPT !.at = "authorized", !.rev = record.rev]
        <5>1. a \in Approvals /\ a.at # "idle" /\ a.hold = approver[p].hold
          BY <3>1 DEF Approvals
        <5>2. approver' = [approver EXCEPT ![p] = a]
          BY <2>2, <4>1 DEF Checkpoint
        <5> QED
          BY <5>1, <5>2
      <4>2. CASE TakeLifecycle(p)
        <5> DEFINE a == [approver[p] EXCEPT !.at = "locked"]
        <5>1. a \in Approvals /\ a.at # "idle" /\ a.hold = approver[p].hold
          BY <3>1 DEF Approvals
        <5>2. approver' = [approver EXCEPT ![p] = a]
          BY <4>2 DEF TakeLifecycle
        <5> QED
          BY <5>1, <5>2
      <4> QED
        BY <1>7, <4>1, <4>2
    <3>3. approver[p].at # "idle" /\ UNCHANGED <<record, hold, holding>>
      BY <1>7 DEF Checkpoint, TakeLifecycle
    <3>4. approver'[p] = a /\ \A q \in Approvers : q # p => approver'[q] = approver[q]
      BY <3>2 DEF ErasureInv, ErasureShaped
    <3>5. \A q \in Approvers : ApproverOK(q)'
      BY <3>2, <3>3, <3>4 DEF ErasureInv, ApproverOK
    <3> QED
      BY <3>2, <3>3, <3>5 DEF ErasureInv, ErasureShaped, HoldOK
  <2> QED
    BY <2>1, <2>2
<1>8. ASSUME NEW p \in Approvers, EraseRefused(p) \/ ApproverEnds(p)
      PROVE  ErasureInv' /\ record' = record
  BY <1>6, <1>8 DEF EraseRefused, ApproverEnds
<1>9. ASSUME UNCHANGED <<record, hold, holding, approver>>
      PROVE  ErasureInv' /\ record' = record
  BY <1>9 DEF ErasureInv, ErasureShaped, HoldOK, ApproverOK
<1>10. ASSUME NEW x \in Exports,
              \/ RequestExport(x) \/ ExportStarts(x) \/ ExportPacks(x) \/ ExportWrites(x)
              \/ ExportCommits(x) \/ ExportFails(x) \/ ExportSevered(x)
       PROVE  UNCHANGED <<record, hold, holding, approver>>
  BY <1>10 DEF RequestExport, ExportStarts, ExportPacks, ExportWrites, ExportCommits,
               ExportFails, ExportSevered
<1>11. SweepRuns \/ SweepFails \/ UNCHANGED erasureVars
         => UNCHANGED <<record, hold, holding, approver>>
  BY DEF SweepRuns, SweepFails, erasureVars
<1> QED
  BY <1>1, <1>2, <1>3, <1>4, <1>5, <1>7, <1>8, <1>9, <1>10, <1>11 DEF ErasureNext

(* An erasure takes the record at the revision its approved call names: the   *)
(* row's lock keeps the call as it was approved from the guard to the commit, *)
(* whoever writes the record, decides other calls or takes the lifecycle lock *)
(* between the checkpoints.                                                   *)
THEOREM ErasesOnlyTheApproved == ErasureSpec => ErasesWhatWasApproved
<1>1. ErasureInv /\ [ErasureNext]_erasureVars => ErasureInv'
  BY EraseStep, OtherErasureSteps
<1>2. ErasureInv /\ [ErasureNext]_erasureVars =>
        [record'.gone /\ ~record.gone =>
           \E h \in Holds : /\ hold[h].state = "pending" /\ hold'[h].state = "executed"
                            /\ hold[h].call = "erase" /\ hold[h].rev = record.rev]_erasureVars
  BY EraseStep, OtherErasureSteps
<1> QED
  BY <1>1, <1>2, ErasureInitially, PTL DEF ErasureSpec, ErasesWhatWasApproved
-----------------------------------------------------------------------------
(* Proposals.                                                                *)

RequestRows == [state : DraftStates, waiting : BOOLEAN, attempts : Nat, request : Nat,
                forced : BOOLEAN]
SectionRows == [answers : Nat, edited : BOOLEAN]

(* While a draft is asked for or prepared its edited sections may go only if  *)
(* that was forced.                                                           *)
ForcedOver(row, section) == row.state \in BusyStates /\ section.edited => row.forced

ProposalsInv ==
    /\ proposal \in [Openings -> RequestRows] /\ sections \in [Openings -> SectionRows]
    /\ milestones = [j \in Openings |-> milestones[j]]
    /\ draftActs \in Nat
    /\ \A j \in Openings : ForcedOver(proposal[j], sections[j])

(* What a row may become while its sections stand.                            *)
Follows(row, next) ==
    next \in RequestRows /\ (next.state \in BusyStates => row.state \in BusyStates)
    /\ next.forced = row.forced

LEMMA ProposalsInitially == ProposalsInit => ProposalsInv
<1> SUFFICES ASSUME ProposalsInit PROVE ProposalsInv
  OBVIOUS
<1>1. PICK drafted \in SUBSET Openings :
         /\ proposal = [j \in Openings |->
              IF j \in drafted
              THEN [RequestRow(1, FALSE) EXCEPT !.state = "ready", !.attempts = 1]
              ELSE NoRequestRow]
         /\ sections = [j \in Openings |->
              IF j \in drafted THEN [answers |-> 1, edited |-> TRUE] ELSE NoSections]
  BY DEF ProposalsInit
<1>2. /\ [RequestRow(1, FALSE) EXCEPT !.state = "ready", !.attempts = 1] \in RequestRows
      /\ [RequestRow(1, FALSE) EXCEPT !.state = "ready", !.attempts = 1].state = "ready"
      /\ NoRequestRow \in RequestRows /\ NoRequestRow.state = "none"
  BY DEF RequestRow, RequestRows, NoRequestRow, DraftStates
<1>3. [answers |-> 1, edited |-> TRUE] \in SectionRows /\ NoSections \in SectionRows
  BY DEF SectionRows, NoSections
<1>4. /\ proposal \in [Openings -> RequestRows] /\ sections \in [Openings -> SectionRows]
      /\ \A j \in Openings : proposal[j].state \notin BusyStates
  BY <1>1, <1>2, <1>3 DEF BusyStates
<1> QED
  BY <1>4 DEF ProposalsInit, ProposalsInv, ForcedOver

(* The oldest of some requests is one of them.                                *)
LEMMA OldestOne ==
    ASSUME NEW table \in [Openings -> RequestRows], NEW S \in SUBSET Openings, S # {}
    PROVE  Oldest(table, S) \in S
<1> DEFINE times == {table[j].request : j \in S}
<1>1. times \in SUBSET Nat /\ times # {}
  BY DEF RequestRows
<1> HIDE DEF times
<1>2. PICK t \in times : \A n \in times : t <= n
  BY <1>1, LeastOne
<1>3. PICK j \in S : table[j].request = t
  BY <1>2 DEF times
<1>4. \A i \in S : table[j].request <= table[i].request
  BY <1>2, <1>3 DEF times
<1> QED
  BY <1>4 DEF Oldest

(* The ways a sweep writes a row.                                             *)
LEMMA RowWritten ==
    ASSUME NEW row \in RequestRows
    PROVE  /\ Follows(row, row)
           /\ Follows(row, [row EXCEPT !.state = "failed"])
           /\ Follows(row, [row EXCEPT !.waiting = TRUE])
           /\ Follows(row, [row EXCEPT !.waiting = FALSE])
           /\ Follows(row, [row EXCEPT !.state = "ready", !.waiting = FALSE])
           /\ row.state \in BusyStates => Follows(row, Claimed(row))
           /\ row.state \in BusyStates => Follows(row, Failed(row))
<1> USE DEF Follows, RequestRows, BusyStates, DraftStates
<1>1. Follows(row, row) /\ Follows(row, [row EXCEPT !.state = "failed"])
  OBVIOUS
<1>2. Follows(row, [row EXCEPT !.waiting = TRUE]) /\ Follows(row, [row EXCEPT !.waiting = FALSE])
  OBVIOUS
<1>3. Follows(row, [row EXCEPT !.state = "ready", !.waiting = FALSE])
  OBVIOUS
<1>4. row.state \in BusyStates => Follows(row, Claimed(row))
  <2>1. row.attempts + 1 \in Nat
    OBVIOUS
  <2>2. PICK more \in Nat : more = row.attempts + 1
    BY <2>1
  <2>3. Claimed(row) = [row EXCEPT !.state = "working", !.waiting = TRUE, !.attempts = more]
    BY <2>2 DEF Claimed
  <2>4. Follows(row, [row EXCEPT !.state = "working", !.waiting = TRUE, !.attempts = more])
        \/ row.state \notin BusyStates
    OBVIOUS
  <2> QED
    BY <2>3, <2>4
<1>5. row.state \in BusyStates => Follows(row, Failed(row))
  <2>1. Follows(row, [row EXCEPT !.state = "failed", !.waiting = FALSE])
    OBVIOUS
  <2>2. row.state \in BusyStates => Follows(row, [row EXCEPT !.state = "queued", !.waiting = TRUE])
    OBVIOUS
  <2> QED
    BY <2>1, <2>2 DEF Failed
<1> HIDE DEF Follows
<1> QED
  BY <1>1, <1>2, <1>3, <1>4, <1>5

LEMMA TableWithoutSpent ==
    ASSUME proposal \in [Openings -> RequestRows]
    PROVE  /\ WithoutSpent(proposal) \in [Openings -> RequestRows]
           /\ \A j \in Openings : Follows(proposal[j], WithoutSpent(proposal)[j])
<1>1. \A j \in Openings : WithoutSpent(proposal)[j] \in
        {proposal[j], [proposal[j] EXCEPT !.state = "failed"]}
  BY DEF WithoutSpent
<1>2. \A j \in Openings : Follows(proposal[j], WithoutSpent(proposal)[j])
  BY <1>1, RowWritten
<1>3. WithoutSpent(proposal) = [j \in Openings |-> WithoutSpent(proposal)[j]]
  BY DEF WithoutSpent
<1> QED
  BY <1>2, <1>3 DEF Follows

(* Rows that only follow keep what is forced.                                 *)
LEMMA RowsFollow ==
    ASSUME ProposalsInv, proposal' = [j \in Openings |-> proposal'[j]],
           \A j \in Openings : Follows(proposal[j], proposal'[j])
    PROVE  /\ proposal' \in [Openings -> RequestRows]
           /\ \A j \in Openings : ForcedOver(proposal'[j], sections[j])
  BY DEF ProposalsInv, Follows, ForcedOver

(* What no sweep and no member may do to what an owner wrote.                 *)
WorkStands(j) ==
    /\ sections'[j] # sections[j] /\ ~sections'[j].edited /\ sections'[j].answers # 0
         => /\ sections'[j].answers = proposal[j].request
            /\ sections[j].edited => proposal[j].forced
    /\ milestones[j] # "none" /\ milestones'[j] # milestones[j]
         => milestones'[j] = "owner" \/ pricing[j].state = "working"

ProposalsStepOK == ProposalsInv' /\ \A j \in Openings : WorkStands(j)

(* Steps that write at most the rows of one table.                            *)
LEMMA RowSteps ==
    ASSUME ProposalsInv, draftActs' \in Nat, UNCHANGED <<sections, milestones>>,
           proposal' = [j \in Openings |-> proposal'[j]],
           \A j \in Openings : Follows(proposal[j], proposal'[j])
    PROVE  ProposalsStepOK
  BY RowsFollow DEF ProposalsStepOK, ProposalsInv, WorkStands

LEMMA MemberSteps ==
    ASSUME ProposalsInv, NEW j \in Openings,
           \/ \E force \in BOOLEAN : RequestDraft(j, force)
           \/ EditDraft(j) \/ DeleteDraft(j) \/ RequestPricing(j) \/ EditMilestone(j)
    PROVE  ProposalsStepOK
<1>1. draftActs' \in Nat /\ DraftTime \in Nat
  <2>1. draftActs \in Nat
    BY DEF ProposalsInv
  <2>2. draftActs' = draftActs + 1
    BY DEF RequestDraft, EditDraft, DeleteDraft, RequestPricing, EditMilestone, DraftAct
  <2> QED
    BY <2>1, <2>2 DEF DraftTime
<1>2. ASSUME NEW force \in BOOLEAN, RequestDraft(j, force) PROVE ProposalsStepOK
  <2>1. RequestRow(DraftTime, force) \in RequestRows /\ RequestRow(DraftTime, force).forced = force
    BY <1>1 DEF RequestRow, RequestRows, DraftStates
  <2>2. proposal' = [proposal EXCEPT ![j] = RequestRow(DraftTime, force)]
        /\ UNCHANGED <<sections, milestones>> /\ (force \/ ~sections[j].edited)
    BY <1>2 DEF RequestDraft
  <2> QED
    BY <1>1, <2>1, <2>2 DEF ProposalsStepOK, ProposalsInv, WorkStands, ForcedOver
<1>3. CASE EditDraft(j)
  <2> DEFINE edited == [sections[j] EXCEPT !.edited = TRUE]
  <2>1. edited \in SectionRows /\ edited.edited
    BY DEF ProposalsInv, SectionRows
  <2>2. /\ sections' = [sections EXCEPT ![j] = edited] /\ UNCHANGED <<proposal, milestones>>
        /\ proposal[j].state \notin BusyStates
    BY <1>3 DEF EditDraft
  <2> HIDE DEF edited
  <2> QED
    BY <1>1, <2>1, <2>2 DEF ProposalsStepOK, ProposalsInv, WorkStands, ForcedOver
<1>4. CASE DeleteDraft(j)
  <2> DEFINE row == [proposal[j] EXCEPT !.state = "idle", !.waiting = FALSE, !.attempts = 0]
  <2>1. row \in RequestRows /\ row.state \notin BusyStates
    BY DEF ProposalsInv, RequestRows, DraftStates, BusyStates
  <2>2. NoSections \in SectionRows /\ NoSections.answers = 0
    BY DEF NoSections, SectionRows
  <2>3. /\ proposal' = [proposal EXCEPT ![j] = row]
        /\ sections' = [sections EXCEPT ![j] = NoSections] /\ milestones' = milestones
    BY <1>4 DEF DeleteDraft
  <2> HIDE DEF row
  <2> QED
    BY <1>1, <2>1, <2>2, <2>3 DEF ProposalsStepOK, ProposalsInv, WorkStands, ForcedOver
<1>5. CASE RequestPricing(j)
  BY <1>1, <1>5 DEF RequestPricing, ProposalsStepOK, ProposalsInv, WorkStands
<1>6. CASE EditMilestone(j)
  BY <1>1, <1>6 DEF EditMilestone, ProposalsStepOK, ProposalsInv, WorkStands
<1> QED
  BY <1>2, <1>3, <1>4, <1>5, <1>6

LEMMA SweepSteps ==
    ASSUME ProposalsInv, NEW w \in Drafters,
           DraftingStep(w) \/ Renew(w) \/ DrafterDies(w)
    PROVE  ProposalsStepOK
<1>1. draftActs' \in Nat
  BY DEF DraftingStep, BeginDrafting, ClaimPricing, RecordPricing, ClaimDraft, RecordOutcome,
         TimeIsUp, Renew, DrafterDies, DraftStep, DraftFault, ProposalsInv
<1>2. /\ proposal \in [Openings -> RequestRows]
      /\ \A j \in Openings : Follows(proposal[j], proposal[j])
  BY RowWritten DEF ProposalsInv
<1>3. CASE UNCHANGED <<proposal, sections, milestones>>
  BY <1>1, <1>2, <1>3, RowSteps
<1>4. CASE RecordPricing(w)
  <2>1. CASE UNCHANGED milestones
    BY <1>3, <1>4, <2>1 DEF RecordPricing
  <2>2. CASE Mine(w, pricing[drafter[w].opening]) /\ RecordSchedule(w)
    <3>1. PICK kept \in {"pricing", "none"} :
            milestones' = [milestones EXCEPT ![drafter[w].opening] = kept]
      BY <2>2 DEF RecordSchedule
    <3>2. pricing[drafter[w].opening].state = "working"
      BY <2>2 DEF Mine
    <3>3. \A j \in Openings : milestones'[j] # milestones[j] => j = drafter[w].opening
      BY <3>1 DEF ProposalsInv
    <3>4. milestones' = [j \in Openings |-> milestones'[j]]
      BY <3>1 DEF ProposalsInv
    <3>5. UNCHANGED <<proposal, sections>>
      BY <1>4 DEF RecordPricing
    <3> QED
      BY <1>1, <3>2, <3>3, <3>4, <3>5 DEF ProposalsStepOK, ProposalsInv, WorkStands
  <2> QED
    BY <1>4, <2>1, <2>2 DEF RecordPricing
<1>5. CASE ClaimDraft(w)
  <2> DEFINE table == WithoutSpent(proposal)
             due   == {j \in Openings : Due(table[j]) /\ pricing[j].state \notin BusyStates}
             j     == Oldest(table, due)
  <2>1. /\ table \in [Openings -> RequestRows]
        /\ \A i \in Openings : Follows(proposal[i], table[i])
    BY <1>2, TableWithoutSpent
  <2>2. UNCHANGED <<sections, milestones>>
    BY <1>5 DEF ClaimDraft
  <2>3. CASE due = {}
    <3>1. proposal' = table
      BY <1>5, <2>3 DEF ClaimDraft
    <3> HIDE DEF table
    <3> QED
      BY <1>1, <2>1, <2>2, <3>1, RowSteps
  <2>4. CASE due # {}
    <3>1. j \in due
      BY <2>1, <2>4, OldestOne
    <3>2. proposal' = [table EXCEPT ![j] = Claimed(@)]
      BY <1>5, <2>4 DEF ClaimDraft
    <3>3. j \in Openings /\ table[j].state \in BusyStates
      BY <3>1 DEF Due
    <3> HIDE DEF table, due, j
    <3>4. Follows(table[j], Claimed(table[j]))
      BY <2>1, <3>3, RowWritten
    <3>5. Follows(proposal[j], Claimed(table[j]))
      BY <2>1, <3>3, <3>4 DEF Follows
    <3>6. proposal' = [i \in Openings |-> IF i = j THEN Claimed(table[j]) ELSE table[i]]
      BY <2>1, <3>2, <3>3
    <3>7. \A i \in Openings : Follows(proposal[i], proposal'[i])
      BY <2>1, <3>5, <3>6
    <3>8. proposal' = [i \in Openings |-> proposal'[i]]
      BY <3>6
    <3> QED
      BY <1>1, <2>2, <3>7, <3>8, RowSteps
  <2> QED
    BY <2>3, <2>4
<1>6. CASE RecordOutcome(w)
  <2> DEFINE j == drafter[w].opening
  <2>1. CASE UNCHANGED <<proposal, sections, milestones>>
    BY <1>3, <2>1
  <2>2. CASE Mine(w, proposal[j]) /\ RecordDraft(w)
    <3> DEFINE fresh == [answers |-> drafter[w].request, edited |-> FALSE]
               ready == [proposal[j] EXCEPT !.state = "ready", !.waiting = FALSE]
    <3>1. /\ proposal' = [proposal EXCEPT ![j] = ready]
          /\ sections' = [sections EXCEPT ![j] = fresh]
      BY <2>2 DEF RecordDraft
    <3>2. proposal[j].state = "working" /\ proposal[j].request = drafter[w].request
      BY <2>2 DEF Mine
    <3>3. \A i \in Openings : milestones[i] # "none" => milestones'[i] = milestones[i]
      BY <2>2 DEF RecordDraft, WriteSchedule, StillUnpriced, ProposalsInv
    <3>4. milestones' = [i \in Openings |-> milestones'[i]]
      <4>1. \/ milestones' = milestones
            \/ \E kept \in {"draft", "none"} : milestones' = [milestones EXCEPT ![j] = kept]
        BY <2>2 DEF RecordDraft, WriteSchedule
      <4> QED
        BY <4>1 DEF ProposalsInv
    <3>5. CASE j \in Openings
      <4>1. ready \in RequestRows /\ ready.state \notin BusyStates
        BY ZenonT(60), <1>2, <3>5 DEF RequestRows, DraftStates, BusyStates
      <4>2. fresh \in SectionRows /\ ~fresh.edited /\ fresh.answers = proposal[j].request
        BY <1>2, <3>2, <3>5 DEF SectionRows, RequestRows
      <4> HIDE DEF fresh, ready
      <4>3. /\ proposal'[j] = ready /\ sections'[j] = fresh
            /\ \A i \in Openings : i # j => proposal'[i] = proposal[i] /\ sections'[i] = sections[i]
            /\ proposal' \in [Openings -> RequestRows] /\ sections' \in [Openings -> SectionRows]
        BY <1>2, <3>1, <3>5, <4>1, <4>2 DEF ProposalsInv
      <4>4. sections[j].edited => proposal[j].forced
        BY <3>2, <3>5 DEF ProposalsInv, ForcedOver, BusyStates
      <4> HIDE DEF j
      <4>5. \A i \in Openings : ForcedOver(proposal'[i], sections'[i])
        BY <4>1, <4>3 DEF ProposalsInv, ForcedOver
      <4>6. \A i \in Openings : WorkStands(i)
        BY <3>3, <4>2, <4>3, <4>4 DEF WorkStands
      <4> QED
        BY <1>1, <3>4, <4>3, <4>5, <4>6 DEF ProposalsStepOK, ProposalsInv
    <3>6. CASE j \notin Openings
      <4>1. proposal' = proposal /\ sections' = sections
        BY <1>2, <3>1, <3>6 DEF ProposalsInv
      <4> QED
        BY <1>1, <3>3, <3>4, <4>1 DEF ProposalsStepOK, ProposalsInv, WorkStands
    <3> QED
      BY <3>5, <3>6
  <2>3. CASE /\ Mine(w, proposal[j]) /\ UNCHANGED <<pricing, sections, milestones>>
             /\ proposal' = [proposal EXCEPT ![j] = Failed(@)]
    <3>1. proposal[j].state \in BusyStates
      BY <2>3 DEF Mine, BusyStates
    <3> HIDE DEF j
    <3>2. \A i \in Openings : Follows(proposal[i], proposal'[i])
      BY <1>2, <2>3, <3>1, RowWritten
    <3>3. proposal' = [i \in Openings |-> proposal'[i]]
      BY <1>2, <2>3
    <3> QED
      BY <1>1, <2>3, <3>2, <3>3, RowSteps
  <2>4. CASE /\ Mine(w, proposal[j]) /\ UNCHANGED <<pricing, sections, milestones>>
             /\ proposal' = DeferredRows(proposal, j)
    <3>1. proposal[j].state \in BusyStates
      BY <2>4 DEF Mine, BusyStates
    <3>2. \A i \in Openings : Follows(proposal[i], proposal'[i])
      <4> SUFFICES ASSUME NEW i \in Openings PROVE Follows(proposal[i], proposal'[i])
        OBVIOUS
      <4>1. CASE i = j
        <5> DEFINE row == proposal[i]
                   left == IF row.attempts = 0 THEN 0 ELSE row.attempts - 1
                   next == [row EXCEPT !.state = "queued", !.waiting = TRUE, !.attempts = left]
        <5>1. row \in RequestRows /\ row.attempts \in Nat
          BY <1>2 DEF RequestRows
        <5>2. left \in Nat
          BY <5>1
        <5>3. proposal'[i] = next
          BY <2>4, <4>1 DEF DeferredRows
        <5> HIDE DEF left
        <5>4. next \in RequestRows /\ next.forced = row.forced
          BY <5>1, <5>2 DEF RequestRows, DraftStates
        <5> HIDE DEF next, row
        <5> QED
          BY <3>1, <4>1, <5>3, <5>4 DEF Follows, row
      <4>2. CASE i # j
        <5>1. proposal'[i] \in {proposal[i], [proposal[i] EXCEPT !.waiting = TRUE]}
          BY <2>4, <4>2 DEF DeferredRows
        <5> QED
          BY <1>2, <5>1, RowWritten
      <4> QED
        BY <4>1, <4>2
    <3>3. proposal' = [i \in Openings |-> proposal'[i]]
      BY <2>4 DEF DeferredRows
    <3> QED
      BY <1>1, <2>4, <3>2, <3>3, RowSteps
  <2> QED
    BY <1>6, <2>1, <2>2, <2>3, <2>4 DEF RecordOutcome
<1>7. CASE Renew(w)
  <2>1. \/ proposal' = proposal
        \/ proposal' = [proposal EXCEPT ![drafter[w].opening].waiting = TRUE]
    BY <1>7 DEF Renew
  <2>2. \A i \in Openings : Follows(proposal[i], proposal'[i])
    BY <1>2, <2>1, RowWritten
  <2>3. proposal' = [i \in Openings |-> proposal'[i]]
    BY <1>2, <2>1
  <2> QED
    BY <1>1, <1>7, <2>2, <2>3, RowSteps DEF Renew
<1>8. CASE BeginDrafting(w) \/ ClaimPricing(w) \/ TimeIsUp(w) \/ DrafterDies(w)
  BY <1>3, <1>8 DEF BeginDrafting, ClaimPricing, TimeIsUp, DrafterDies
<1> QED
  BY <1>4, <1>5, <1>6, <1>7, <1>8 DEF DraftingStep

LEMMA ProposalsStep == ProposalsInv /\ [ProposalsNext]_proposalVars => ProposalsStepOK
<1> SUFFICES ASSUME ProposalsInv, [ProposalsNext]_proposalVars PROVE ProposalsStepOK
  OBVIOUS
<1>1. ASSUME NEW j \in Openings, DraftWaitElapses(j) \/ PricingWaitElapses(j)
      PROVE  ProposalsStepOK
  <2>1. /\ proposal' = proposal \/ proposal' = [proposal EXCEPT ![j].waiting = FALSE]
        /\ UNCHANGED <<sections, milestones>>
    BY <1>1 DEF DraftWaitElapses, PricingWaitElapses
  <2>2. draftActs' \in Nat
    BY <1>1 DEF DraftWaitElapses, PricingWaitElapses, Elapses, DraftFault, DraftStep,
                ProposalsInv
  <2>3. \A i \in Openings : Follows(proposal[i], proposal'[i])
    BY <2>1, RowWritten DEF ProposalsInv
  <2>4. proposal' = [i \in Openings |-> proposal'[i]]
    BY <2>1 DEF ProposalsInv
  <2> QED
    BY <2>1, <2>2, <2>3, <2>4, RowSteps
<1>2. CASE UNCHANGED proposalVars
  BY <1>2 DEF proposalVars, ProposalsStepOK, ProposalsInv, WorkStands
<1> QED
  BY <1>1, <1>2, MemberSteps, SweepSteps DEF ProposalsNext

(* A sweep's sections answer the request that stands and replace edited ones  *)
(* only when that was forced, and a draft never replaces milestones: what     *)
(* makes it so is that a request is made over edited sections by force only,  *)
(* and nothing but a request puts a row back in line for drafting.            *)
THEOREM DraftsNeverOverwrite == ProposalsSpec => OwnersWorkStands
<1>1. ProposalsInv /\ [ProposalsNext]_proposalVars => ProposalsInv'
  BY ProposalsStep DEF ProposalsStepOK
<1>2. ProposalsInv /\ [ProposalsNext]_proposalVars =>
        [\A j \in Openings :
         /\ sections'[j] # sections[j] /\ ~sections'[j].edited /\ sections'[j].answers # 0
              => /\ sections'[j].answers = proposal[j].request
                 /\ sections[j].edited => proposal[j].forced
         /\ milestones[j] # "none" /\ milestones'[j] # milestones[j]
              => milestones'[j] = "owner" \/ pricing[j].state = "working"]_proposalVars
  BY ProposalsStep DEF ProposalsStepOK, WorkStands
<1> QED
  BY <1>1, <1>2, ProposalsInitially, PTL DEF ProposalsSpec, OwnersWorkStands
-----------------------------------------------------------------------------
(* The scoring of jobs.                                                      *)

Postings   == [rev : Nat, open : BOOLEAN]
ScoreRows  == [state : {"none", "pending", "scored", "failed"}, digest : Nat,
               attempts : Nat, waiting : BOOLEAN]
Verdicts   == [kind : {"none", "score", "held", "filtered", "undescribed", "failed"},
               judged : Nat, profile : Nat]
SweepRows  == [at : {"idle", "refreshing", "ready", "judging"}, left : Nat, profile : Nat,
               filter : BOOLEAN, seen : [ScoredJobs -> Nat], job : 0..NewestJob,
               digest : Nat, judged : Nat, attempts : Nat, promoted : BOOLEAN]

ScoringShaped ==
    /\ posting \in [ScoredJobs -> Postings] /\ scoreRow \in [ScoredJobs -> ScoreRows]
    /\ assessed \in [ScoredJobs -> Verdicts] /\ scoring \in [ScoringSweeps -> SweepRows]
    /\ promotions \subseteq ScoredJobs /\ searchProfile \in Nat /\ filterOn \in BOOLEAN

(* What is known of a job never runs ahead of its posting.                    *)
JobKnown(row, verdict, rev, promoted) ==
    /\ row.digest <= rev /\ verdict.judged <= rev
    /\ row.state = "scored" =>
         /\ row.digest = rev => verdict.judged = rev
         /\ promoted => verdict.kind \notin {"held", "filtered"}

(* What a sweep carries through its model call: it judges the job as it was   *)
(* at the claim, and of a promoted job no hold is on a later revision.        *)
SweepKnows(mine, post, verdicts, promoted) ==
    /\ \A j \in ScoredJobs : mine.seen[j] <= post[j].rev
    /\ mine.at = "judging" =>
         /\ mine.job \in ScoredJobs
         /\ mine.digest <= mine.judged /\ mine.judged <= post[mine.job].rev
         /\ mine.promoted =>
              /\ mine.job \in promoted
              /\ verdicts[mine.job].kind \in {"held", "filtered"} =>
                   verdicts[mine.job].judged <= mine.judged

ScoringInv ==
    /\ ScoringShaped
    /\ \A j \in ScoredJobs : JobKnown(scoreRow[j], assessed[j], posting[j].rev, j \in promotions)
    /\ \A w \in ScoringSweeps : SweepKnows(scoring[w], posting, assessed, promotions)

(* A sweep that holds no job knows nothing wrong.                             *)
LEMMA IdleSweepKnows ==
    ASSUME NEW post \in [ScoredJobs -> Postings], NEW verdicts, NEW promoted,
           NEW left \in Nat, NEW profile \in Nat, NEW filter \in BOOLEAN
    PROVE  /\ IdleSweep \in SweepRows /\ SweepKnows(IdleSweep, post, verdicts, promoted)
           /\ LET ready == [IdleSweep EXCEPT !.at = "ready", !.left = left,
                                             !.profile = profile, !.filter = filter]
              IN  ready \in SweepRows /\ SweepKnows(ready, post, verdicts, promoted)
<1>1. \A j \in ScoredJobs : 0 <= post[j].rev
  BY DEF Postings
<1>2. [j \in ScoredJobs |-> 0] \in [ScoredJobs -> Nat] /\ 0 \in 0..NewestJob
  BY JobScoringAssumption
<1> QED
  BY <1>1, <1>2 DEF IdleSweep, SweepRows, SweepKnows

LEMMA ScoringInitially == JobScoringInit => ScoringInv
<1> SUFFICES ASSUME JobScoringInit PROVE ScoringInv
  OBVIOUS
<1>1. NoScoreRow \in ScoreRows /\ NoScoreRow.state = "none" /\ NoScoreRow.digest = 0
  BY DEF NoScoreRow, PendingRow, ScoreRows
<1>2. posting \in [ScoredJobs -> Postings] /\ \A j \in ScoredJobs : posting[j].rev = 1
  BY DEF JobScoringInit, Postings
<1>3. /\ assessed \in [ScoredJobs -> Verdicts]
      /\ \A j \in ScoredJobs : assessed[j].judged = 0
  BY DEF JobScoringInit, Verdicts
<1>4. IdleSweep \in SweepRows /\ SweepKnows(IdleSweep, posting, assessed, promotions)
  BY <1>2, IdleSweepKnows
<1> QED
  BY <1>1, <1>2, <1>3, <1>4 DEF JobScoringInit, ScoringInv, ScoringShaped, JobKnown

(* Postings that only advance and promotions that only grow contradict no     *)
(* sweep.                                                                     *)
LEMMA SweepsStillKnow ==
    ASSUME ScoringInv, assessed' = assessed, promotions \subseteq promotions',
           posting' \in [ScoredJobs -> Postings],
           \A j \in ScoredJobs : posting[j].rev <= posting'[j].rev,
           NEW w \in ScoringSweeps
    PROVE  SweepKnows(scoring[w], posting', assessed', promotions')
<1>1. \A j \in ScoredJobs : posting[j].rev \in Nat /\ posting'[j].rev \in Nat
  BY DEF ScoringInv, ScoringShaped, Postings
<1>2. /\ scoring[w].judged \in Nat
      /\ \A j \in ScoredJobs : scoring[w].seen[j] \in Nat
  BY DEF ScoringInv, ScoringShaped, SweepRows
<1>3. SweepKnows(scoring[w], posting, assessed, promotions)
  BY DEF ScoringInv
<1> QED
  BY <1>1, <1>2, <1>3 DEF SweepKnows

(* A row that goes back in line, or whose wait or attempts change.            *)
LEMMA PendingKnown ==
    ASSUME NEW digest \in Nat
    PROVE  /\ PendingRow(digest) \in ScoreRows
           /\ PendingRow(digest).state = "pending" /\ PendingRow(digest).digest = digest
  BY DEF PendingRow, ScoreRows

LEMMA RowsRepended ==
    ASSUME ScoringInv, NEW S
    PROVE  /\ Repended(S) \in [ScoredJobs -> ScoreRows]
           /\ \A j \in ScoredJobs :
                \/ Repended(S)[j] = scoreRow[j] /\ j \notin S
                \/ /\ Repended(S)[j].state = "pending"
                   /\ Repended(S)[j].digest = scoreRow[j].digest
<1>1. \A j \in ScoredJobs : scoreRow[j] \in ScoreRows /\ scoreRow[j].digest \in Nat
  BY DEF ScoringInv, ScoringShaped, ScoreRows
<1> QED
  BY <1>1, PendingKnown DEF Repended

LEMMA OwnerScoringSteps ==
    ASSUME ScoringInv,
           \/ SetFilter \/ SetProfile \/ RetryFailed
           \/ \E j \in ScoredJobs : PostingMoves(j) \/ JobCloses(j) \/ Promote(j)
    PROVE  ScoringInv'
<1>1. assessed' = assessed /\ scoring' = scoring /\ searchProfile' \in Nat /\ filterOn' \in BOOLEAN
  <2>1. searchProfile \in Nat /\ filterOn \in BOOLEAN
    BY DEF ScoringInv, ScoringShaped
  <2>2. /\ assessed' = assessed /\ scoring' = scoring
        /\ searchProfile' \in {searchProfile, searchProfile + 1}
    BY DEF SetFilter, SetProfile, RetryFailed, PostingMoves, JobCloses, Promote
  <2>3. filterOn' = ~filterOn \/ filterOn' = filterOn
    BY DEF SetFilter, SetProfile, RetryFailed, PostingMoves, JobCloses, Promote
  <2>4. filterOn' \in BOOLEAN
    BY <2>1, <2>3, Zenon
  <2>5. searchProfile' \in Nat
    BY <2>1, <2>2
  <2> QED
    BY <2>2, <2>4, <2>5
<1>2. CASE \E j \in ScoredJobs : PostingMoves(j)
  <2>1. PICK j \in ScoredJobs : PostingMoves(j)
    BY <1>2
  <2>2. PICK next \in Postings : next.rev = posting[j].rev + 1 /\ posting' = [posting EXCEPT ![j] = next]
    <3>1. posting[j].rev + 1 \in Nat /\ posting[j].open \in BOOLEAN
      BY DEF ScoringInv, ScoringShaped, Postings
    <3>2. posting[j] = [rev |-> posting[j].rev, open |-> posting[j].open]
      BY DEF ScoringInv, ScoringShaped, Postings
    <3>3. PICK more \in Nat : more = posting[j].rev + 1
      BY <3>1
    <3> DEFINE next == [rev |-> more, open |-> posting[j].open]
    <3>4. posting' = [posting EXCEPT ![j].rev = more]
      BY <2>1, <3>3 DEF PostingMoves
    <3>5. [posting[j] EXCEPT !.rev = more] = next
      BY <3>2
    <3> HIDE DEF next
    <3>7. posting' = [posting EXCEPT ![j] = next]
      BY <3>4, <3>5
    <3> USE DEF next
    <3>6. next \in Postings
      BY <3>1 DEF Postings
    <3> QED
      BY <3>3, <3>6, <3>7
  <2>3. posting' \in [ScoredJobs -> Postings]
    BY <2>2 DEF ScoringInv, ScoringShaped
  <2>4. \A i \in ScoredJobs : posting'[i].rev = posting[i].rev \/ posting'[i].rev = posting[i].rev + 1
    BY <2>2 DEF ScoringInv, ScoringShaped
  <2>5. \A i \in ScoredJobs : posting[i].rev \in Nat
    BY DEF ScoringInv, ScoringShaped, Postings
  <2>6. scoreRow' = scoreRow /\ promotions' = promotions
    BY <2>1 DEF PostingMoves
  <2>7. \A w \in ScoringSweeps : SweepKnows(scoring[w], posting', assessed', promotions')
    BY <1>1, <2>3, <2>4, <2>5, <2>6, SweepsStillKnow
  <2>8. \A i \in ScoredJobs : scoreRow[i].digest \in Nat /\ assessed[i].judged \in Nat
    BY DEF ScoringInv, ScoringShaped, ScoreRows, Verdicts
  <2>9. \A i \in ScoredJobs :
          JobKnown(scoreRow[i], assessed[i], posting'[i].rev, i \in promotions)
    BY <2>4, <2>5, <2>8 DEF ScoringInv, JobKnown
  <2> QED
    BY <1>1, <2>3, <2>6, <2>7, <2>9 DEF ScoringInv, ScoringShaped
<1>3. CASE \E j \in ScoredJobs : JobCloses(j)
  <2>1. PICK j \in ScoredJobs : JobCloses(j)
    BY <1>3
  <2>2. posting' \in [ScoredJobs -> Postings]
    BY <2>1 DEF JobCloses, ScoringInv, ScoringShaped, Postings
  <2>3. \A i \in ScoredJobs : posting'[i].rev = posting[i].rev /\ posting[i].rev \in Nat
    BY <2>1 DEF JobCloses, ScoringInv, ScoringShaped, Postings
  <2>4. scoreRow' = scoreRow /\ promotions' = promotions
    BY <2>1 DEF JobCloses
  <2>5. \A w \in ScoringSweeps : SweepKnows(scoring[w], posting', assessed', promotions')
    BY <1>1, <2>2, <2>3, <2>4, SweepsStillKnow
  <2> QED
    BY <1>1, <2>2, <2>3, <2>4, <2>5 DEF ScoringInv, ScoringShaped
<1>4. CASE UNCHANGED posting
  <2>1. /\ scoreRow' \in [ScoredJobs -> ScoreRows]
        /\ promotions' \subseteq ScoredJobs /\ promotions \subseteq promotions'
        /\ \A i \in ScoredJobs :
             \/ scoreRow'[i] = scoreRow[i] /\ (i \in promotions' => i \in promotions)
             \/ scoreRow'[i].state = "pending" /\ scoreRow'[i].digest = scoreRow[i].digest
    <3>1. CASE UNCHANGED <<scoreRow, promotions>>
      BY <3>1 DEF ScoringInv, ScoringShaped
    <3>2. CASE SetProfile \/ RetryFailed
      <4>1. PICK S : scoreRow' = Repended(S)
        BY <3>2 DEF SetProfile, RetryFailed
      <4>2. promotions' = promotions
        BY <3>2 DEF SetProfile, RetryFailed
      <4> QED
        BY <4>1, <4>2, RowsRepended DEF ScoringInv, ScoringShaped
    <3>3. CASE \E j \in ScoredJobs : Promote(j)
      <4>1. PICK j \in ScoredJobs : Promote(j)
        BY <3>3
      <4>2. scoreRow' = Repended({j}) /\ promotions' = promotions \cup {j}
        BY <4>1 DEF Promote
      <4> QED
        BY <4>2, RowsRepended DEF ScoringInv, ScoringShaped
    <3>4. CASE SetFilter \/ \E j \in ScoredJobs : PostingMoves(j) \/ JobCloses(j)
      BY <3>1, <3>4 DEF SetFilter, PostingMoves, JobCloses
    <3> QED
      BY <3>2, <3>3, <3>4
  <2>2. \A w \in ScoringSweeps : SweepKnows(scoring[w], posting', assessed', promotions')
    <3>1. \A i \in ScoredJobs : posting[i].rev <= posting[i].rev
      BY DEF ScoringInv, ScoringShaped, Postings
    <3>2. posting' \in [ScoredJobs -> Postings]
      BY <1>4 DEF ScoringInv, ScoringShaped
    <3> QED
      BY <1>1, <1>4, <2>1, <3>1, <3>2, SweepsStillKnow
  <2>3. \A i \in ScoredJobs :
          JobKnown(scoreRow'[i], assessed[i], posting[i].rev, i \in promotions')
    BY <2>1 DEF ScoringInv, JobKnown
  <2> QED
    BY <1>1, <1>4, <2>1, <2>2, <2>3 DEF ScoringInv, ScoringShaped
<1> QED
  BY <1>2, <1>3, <1>4 DEF SetFilter, SetProfile, RetryFailed, Promote

(* Steps of a sweep that write rows without scoring any: the others' sweeps   *)
(* and the jobs stay as known, and the sweep itself has to.                   *)
LEMMA UnscoredSteps ==
    ASSUME ScoringInv, NEW w \in ScoringSweeps, NEW mine \in SweepRows,
           scoring' = [scoring EXCEPT ![w] = mine],
           SweepKnows(mine, posting, assessed, promotions),
           UNCHANGED <<posting, assessed, promotions, searchProfile, filterOn>>,
           scoreRow' \in [ScoredJobs -> ScoreRows],
           \A j \in ScoredJobs :
             /\ scoreRow'[j].digest <= posting[j].rev
             /\ scoreRow'[j].state = "scored" =>
                  scoreRow[j].state = "scored" /\ scoreRow'[j].digest = scoreRow[j].digest
    PROVE  ScoringInv'
<1>1. ScoringShaped'
  BY DEF ScoringInv, ScoringShaped
<1>2. \A j \in ScoredJobs : JobKnown(scoreRow'[j], assessed[j], posting[j].rev, j \in promotions)
  BY DEF ScoringInv, JobKnown
<1>3. \A v \in ScoringSweeps : SweepKnows(scoring'[v], posting, assessed, promotions)
  BY DEF ScoringInv, ScoringShaped
<1> QED
  BY <1>1, <1>2, <1>3 DEF ScoringInv

LEMMA RowsKept ==
    ASSUME ScoringInv
    PROVE  /\ scoreRow \in [ScoredJobs -> ScoreRows]
           /\ \A j \in ScoredJobs : /\ scoreRow[j].digest \in Nat /\ posting[j].rev \in Nat
                                    /\ scoreRow[j].digest <= posting[j].rev
  BY DEF ScoringInv, ScoringShaped, ScoreRows, Postings, JobKnown

LEMMA SweepBegins == ASSUME ScoringInv, NEW w \in ScoringSweeps, BeginSweep(w) PROVE ScoringInv'
<1> DEFINE read == [j \in ScoredJobs |->
                      IF posting[j].open /\ scoreRow[j].digest # posting[j].rev
                      THEN posting[j].rev ELSE 0]
           mine == [IdleSweep EXCEPT !.at = "refreshing", !.profile = searchProfile, !.seen = read]
<1>1. read \in [ScoredJobs -> Nat] /\ \A j \in ScoredJobs : read[j] <= posting[j].rev
  BY RowsKept
<1>2. mine \in SweepRows /\ SweepKnows(mine, posting, assessed, promotions)
  <2>1. 0 \in 0..NewestJob /\ searchProfile \in Nat
    BY JobScoringAssumption DEF ScoringInv, ScoringShaped
  <2> HIDE DEF read
  <2> QED
    BY <1>1, <2>1 DEF IdleSweep, SweepRows, SweepKnows
<1>3. /\ scoring' = [scoring EXCEPT ![w] = mine]
      /\ UNCHANGED <<posting, scoreRow, assessed, promotions, searchProfile, filterOn>>
  BY DEF BeginSweep
<1> HIDE DEF mine
<1> QED
  BY <1>2, <1>3, RowsKept, UnscoredSteps

LEMMA SweepRefreshes == ASSUME ScoringInv, NEW w \in ScoringSweeps, RefreshCommits(w) PROVE ScoringInv'
<1>1. \A j \in ScoredJobs : scoring[w].seen[j] \in Nat /\ scoring[w].seen[j] <= posting[j].rev
  BY DEF ScoringInv, ScoringShaped, SweepRows, SweepKnows
<1>2. \A j \in ScoredJobs : \E digest \in Nat :
        /\ digest <= posting[j].rev
        /\ scoreRow'[j] = PendingRow(digest) \/ scoreRow'[j] = scoreRow[j]
  BY <1>1, RowsKept DEF RefreshCommits
<1>3. scoreRow' = [j \in ScoredJobs |-> scoreRow'[j]]
  BY DEF RefreshCommits
<1>4. /\ scoreRow' \in [ScoredJobs -> ScoreRows]
      /\ \A j \in ScoredJobs :
           /\ scoreRow'[j].digest <= posting[j].rev
           /\ scoreRow'[j].state = "scored" =>
                scoreRow[j].state = "scored" /\ scoreRow'[j].digest = scoreRow[j].digest
  BY <1>2, <1>3, RowsKept, PendingKnown
<1> DEFINE mine == [IdleSweep EXCEPT !.at = "ready", !.left = MaxPerRun,
                                     !.profile = scoring[w].profile, !.filter = filterOn]
<1>5. mine \in SweepRows /\ SweepKnows(mine, posting, assessed, promotions)
  <2>1. /\ MaxPerRun \in Nat /\ scoring[w].profile \in Nat /\ filterOn \in BOOLEAN
        /\ posting \in [ScoredJobs -> Postings]
    BY JobScoringAssumption DEF ScoringInv, ScoringShaped, SweepRows
  <2> QED
    BY <2>1, IdleSweepKnows
<1>6. /\ scoring' = [scoring EXCEPT ![w] = mine]
      /\ UNCHANGED <<posting, assessed, promotions, searchProfile, filterOn>>
  BY DEF RefreshCommits, SweepReady
<1> HIDE DEF mine
<1> QED
  BY <1>4, <1>5, <1>6, UnscoredSteps

LEMMA SweepClaims == ASSUME ScoringInv, NEW w \in ScoringSweeps, ClaimJob(w) PROVE ScoringInv'
<1>1. PICK j \in ScoredJobs :
        /\ scoreRow' = [scoreRow EXCEPT ![j].attempts = @ + 1, ![j].waiting = TRUE]
        /\ scoring' = [scoring EXCEPT ![w] = [scoring[w] EXCEPT
             !.at = "judging", !.left = scoring[w].left - 1, !.job = j,
             !.digest = scoreRow[j].digest, !.judged = posting[j].rev,
             !.attempts = scoreRow[j].attempts + 1, !.promoted = j \in promotions]]
  BY DEF ClaimJob
<1>2. /\ scoreRow[j] \in ScoreRows /\ scoreRow[j].attempts \in Nat /\ scoreRow[j].digest \in Nat
      /\ scoring[w] \in SweepRows /\ scoring[w].left \in Nat /\ posting[j].rev \in Nat
      /\ SweepKnows(scoring[w], posting, assessed, promotions)
      /\ scoreRow[j].digest <= posting[j].rev /\ assessed[j].judged <= posting[j].rev
  BY DEF ScoringInv, ScoringShaped, ScoreRows, SweepRows, Postings, JobKnown
<1>3. scoring[w].left - 1 \in Nat /\ scoreRow[j].attempts + 1 \in Nat
  BY <1>2 DEF ClaimJob
<1>4. PICK fewer \in Nat, more \in Nat :
        fewer = scoring[w].left - 1 /\ more = scoreRow[j].attempts + 1
  BY <1>3
<1> DEFINE row  == [scoreRow[j] EXCEPT !.attempts = more, !.waiting = TRUE]
           mine == [scoring[w] EXCEPT
             !.at = "judging", !.left = fewer, !.job = j, !.digest = scoreRow[j].digest,
             !.judged = posting[j].rev, !.attempts = more, !.promoted = j \in promotions]
<1>5. scoreRow' = [scoreRow EXCEPT ![j] = row]
  BY <1>1, <1>4
<1>a. scoring' = [scoring EXCEPT ![w] = mine]
  BY <1>1, <1>4, Zenon
<1>6. row \in ScoreRows /\ row.state = scoreRow[j].state /\ row.digest = scoreRow[j].digest
  BY <1>2 DEF ScoreRows
<1>7. /\ mine \in SweepRows /\ mine.seen = scoring[w].seen /\ mine.job = j
      /\ mine.digest = scoreRow[j].digest /\ mine.judged = posting[j].rev
      /\ mine.promoted => j \in promotions
  <2>1. j \in 0..NewestJob /\ (j \in promotions) \in BOOLEAN
    BY JobScoringAssumption DEF ScoredJobs
  <2> QED
    BY <1>2, <2>1 DEF SweepRows
<1> HIDE DEF row, mine
<1>8. SweepKnows(mine, posting, assessed, promotions)
  BY <1>2, <1>7 DEF SweepKnows
<1>9. UNCHANGED <<posting, assessed, promotions, searchProfile, filterOn>>
  BY DEF ClaimJob
<1> QED
  BY <1>5, <1>6, <1>7, <1>8, <1>9, <1>a, RowsKept, UnscoredSteps

(* However a sweep lets go of a job, it is left without one.                  *)
LEMMA SweepLetsGo ==
    ASSUME ScoringInv, NEW w \in ScoringSweeps, RecordScore(w) \/ EndSweep(w) \/ SweepDies(w)
    PROVE  \E mine \in SweepRows :
             /\ scoring' = [scoring EXCEPT ![w] = mine]
             /\ \A verdicts : SweepKnows(mine, posting, verdicts, promotions)
<1>1. posting \in [ScoredJobs -> Postings]
  BY DEF ScoringInv, ScoringShaped
<1>2. CASE SweepEnds(w)
  BY <1>1, <1>2, IdleSweepKnows DEF SweepEnds, ScoringInv, ScoringShaped
<1>3. CASE SweepReady(w, scoring[w].left, scoring[w].profile, scoring[w].filter)
  <2>1. /\ scoring[w].left \in Nat /\ scoring[w].profile \in Nat
        /\ scoring[w].filter \in BOOLEAN
    BY DEF ScoringInv, ScoringShaped, SweepRows
  <2> DEFINE mine == [IdleSweep EXCEPT
               !.at = "ready", !.left = scoring[w].left, !.profile = scoring[w].profile,
               !.filter = scoring[w].filter]
  <2>2. mine \in SweepRows /\ \A verdicts : SweepKnows(mine, posting, verdicts, promotions)
    BY <1>1, <2>1, IdleSweepKnows
  <2>3. scoring' = [scoring EXCEPT ![w] = mine]
    BY <1>3 DEF SweepReady
  <2> HIDE DEF mine
  <2> QED
    BY <2>2, <2>3
<1> QED
  BY <1>2, <1>3 DEF RecordScore, EndSweep, SweepDies

(* An outcome that is not overtaken becomes, at most, the job's assessment:   *)
(* a hold only while the owner has not promoted the job.                      *)
LEMMA OutcomeStands ==
    ASSUME ScoringInv, NEW w \in ScoringSweeps, RecordScore(w), ~Overtaken(w),
           NEW kind \in {"score", "undescribed", "held", "filtered", "failed"},
           Assess(w, kind), kind \in {"held", "filtered"} => ~scoring[w].promoted,
           NEW row \in ScoreRows, row.digest = scoreRow[scoring[w].job].digest,
           scoreRow' = [scoreRow EXCEPT ![scoring[w].job] = row]
    PROVE  ScoringInv'
<1> DEFINE j    == scoring[w].job
           next == [kind |-> kind, judged |-> scoring[w].judged,
                    profile |-> IF kind = "filtered" THEN scoring[w].profile ELSE 0]
           verdict == IF assessed[j].judged > scoring[w].judged THEN assessed[j] ELSE next
<1>1. /\ j \in ScoredJobs /\ scoring[w].judged \in Nat /\ scoring[w].profile \in Nat
      /\ scoring[w].digest \in Nat /\ scoring[w].digest <= scoring[w].judged
      /\ scoring[w].judged <= posting[j].rev /\ posting[j].rev \in Nat
      /\ scoring[w].promoted /\ assessed[j].kind \in {"held", "filtered"} =>
           assessed[j].judged <= scoring[w].judged
  BY DEF RecordScore, ScoringInv, ScoringShaped, SweepKnows, SweepRows, Postings
<1>2. scoreRow[j].digest = scoring[w].digest /\ (j \in promotions => scoring[w].promoted)
  BY DEF Overtaken
<1>3. next \in Verdicts
  BY <1>1 DEF Verdicts
<1>4. /\ assessed[j] \in Verdicts /\ assessed[j].judged \in Nat
      /\ assessed[j].judged <= posting[j].rev
  BY <1>1 DEF ScoringInv, ScoringShaped, Verdicts, JobKnown
<1>5. /\ verdict \in Verdicts /\ verdict.judged <= posting[j].rev
      /\ scoring[w].judged <= verdict.judged
      /\ verdict = assessed[j] \/ (verdict.kind = kind /\ verdict.judged = scoring[w].judged)
  BY <1>1, <1>3, <1>4
<1>6. assessed' = [assessed EXCEPT ![j] = verdict]
  BY DEF Assess
<1>7. j \in promotions => verdict.kind \notin {"held", "filtered"}
  <2> SUFFICES ASSUME j \in promotions PROVE verdict.kind \notin {"held", "filtered"}
    OBVIOUS
  <2>1. scoring[w].promoted
    BY <1>2
  <2>2. CASE assessed[j].judged > scoring[w].judged
    BY <1>1, <1>4, <2>1, <2>2
  <2>3. CASE ~(assessed[j].judged > scoring[w].judged)
    BY <2>1, <2>3
  <2> QED
    BY <2>2, <2>3
<1> HIDE DEF verdict, next
<1>8. verdict.judged \in Nat
  BY <1>5 DEF Verdicts
<1>9. JobKnown(row, verdict, posting[j].rev, j \in promotions)
  BY <1>1, <1>2, <1>4, <1>5, <1>7, <1>8 DEF JobKnown
<1> HIDE DEF j
<1>10. \A i \in ScoredJobs :
         JobKnown(scoreRow'[i], assessed'[i], posting[i].rev, i \in promotions)
  BY <1>1, <1>6, <1>9 DEF ScoringInv, ScoringShaped, j
<1>11. \A v \in ScoringSweeps : SweepKnows(scoring[v], posting, assessed', promotions)
  <2> SUFFICES ASSUME NEW v \in ScoringSweeps
               PROVE  SweepKnows(scoring[v], posting, assessed', promotions)
    OBVIOUS
  <2>1. SweepKnows(scoring[v], posting, assessed, promotions)
    BY DEF ScoringInv
  <2>2. CASE scoring[v].at = "judging" /\ scoring[v].job = j
    <3>1. assessed'[j] = verdict
      BY <1>1, <1>6 DEF ScoringInv, ScoringShaped
    <3>2. scoring[v].promoted => j \in promotions
      BY <2>1, <2>2 DEF SweepKnows
    <3> QED
      BY <1>7, <2>1, <2>2, <3>1, <3>2 DEF SweepKnows
  <2>3. CASE scoring[v].at # "judging" \/ scoring[v].job # j
    <3>1. scoring[v].at = "judging" => assessed'[scoring[v].job] = assessed[scoring[v].job]
      BY <1>1, <1>6, <2>1, <2>3 DEF ScoringInv, ScoringShaped, SweepKnows
    <3> QED
      BY <2>1, <3>1 DEF SweepKnows
  <2> QED
    BY <2>2, <2>3
<1>12. UNCHANGED <<posting, promotions, searchProfile, filterOn>>
  BY DEF RecordScore
<1>13. /\ scoreRow' \in [ScoredJobs -> ScoreRows]
       /\ assessed' \in [ScoredJobs -> Verdicts]
  BY <1>1, <1>5, <1>6 DEF ScoringInv, ScoringShaped, j
<1>14. PICK mine \in SweepRows :
         /\ scoring' = [scoring EXCEPT ![w] = mine]
         /\ \A verdicts : SweepKnows(mine, posting, verdicts, promotions)
  BY SweepLetsGo
<1>15. \A v \in ScoringSweeps : SweepKnows(scoring'[v], posting, assessed', promotions)
  BY <1>11, <1>14 DEF ScoringInv, ScoringShaped
<1>16. ScoringShaped'
  BY <1>12, <1>13, <1>14 DEF ScoringInv, ScoringShaped
<1> QED
  BY <1>10, <1>12, <1>15, <1>16 DEF ScoringInv

(* Steps of a sweep that let go of its job and score none.                    *)
LEMMA QuietSteps ==
    ASSUME ScoringInv, NEW w \in ScoringSweeps, RecordScore(w) \/ EndSweep(w) \/ SweepDies(w),
           UNCHANGED assessed, scoreRow' \in [ScoredJobs -> ScoreRows],
           \A j \in ScoredJobs : /\ scoreRow'[j].digest = scoreRow[j].digest
                                 /\ scoreRow'[j].state = scoreRow[j].state
    PROVE  ScoringInv'
<1>1. PICK mine \in SweepRows :
        /\ scoring' = [scoring EXCEPT ![w] = mine]
        /\ \A verdicts : SweepKnows(mine, posting, verdicts, promotions)
  BY SweepLetsGo
<1>2. UNCHANGED <<posting, promotions, searchProfile, filterOn>>
  BY DEF RecordScore, EndSweep, SweepDies
<1> QED
  BY <1>1, <1>2, RowsKept, UnscoredSteps

LEMMA ScoreRecorded == ASSUME ScoringInv, NEW w \in ScoringSweeps, RecordScore(w) PROVE ScoringInv'
<1> DEFINE j == scoring[w].job
<1>1. j \in ScoredJobs /\ scoreRow[j] \in ScoreRows
  BY DEF RecordScore, ScoringInv, ScoringShaped, SweepKnows
<1>2. CASE UNCHANGED <<scoreRow, assessed>>
  BY <1>2, RowsKept, QuietSteps
<1>3. CASE ~Overtaken(w) /\ RecordAssessment(w)
  <2>1. PICK kind \in Assessments(w) : Assess(w, kind)
    BY <1>3 DEF RecordAssessment
  <2>2. /\ kind \in {"score", "undescribed", "held", "filtered", "failed"}
        /\ kind \in {"held", "filtered"} => ~scoring[w].promoted
    BY DEF Assessments
  <2> DEFINE row == [scoreRow[j] EXCEPT !.state = "scored", !.waiting = FALSE]
  <2>3. row \in ScoreRows /\ row.digest = scoreRow[j].digest
    BY <1>1 DEF ScoreRows
  <2>4. scoreRow' = [scoreRow EXCEPT ![j] = row]
    BY <1>3 DEF RecordAssessment
  <2> HIDE DEF row
  <2> QED
    BY <1>3, <2>1, <2>2, <2>3, <2>4, OutcomeStands
<1>4. CASE ~Overtaken(w) /\ RecordScoreFailure(w)
  <2>1. CASE UNCHANGED assessed /\ scoreRow' = [scoreRow EXCEPT ![j].waiting = TRUE]
    <3>1. /\ scoreRow' \in [ScoredJobs -> ScoreRows]
          /\ \A i \in ScoredJobs : /\ scoreRow'[i].digest = scoreRow[i].digest
                                   /\ scoreRow'[i].state = scoreRow[i].state
      BY <1>1, <2>1, RowsKept DEF ScoreRows
    <3> QED
      BY <2>1, <3>1, QuietSteps
  <2>2. CASE /\ Assess(w, "failed")
             /\ scoreRow' = [scoreRow EXCEPT ![j].state = "failed", ![j].waiting = FALSE]
    <3> DEFINE row == [scoreRow[j] EXCEPT !.state = "failed", !.waiting = FALSE]
    <3>1. row \in ScoreRows /\ row.digest = scoreRow[j].digest
      BY <1>1 DEF ScoreRows
    <3>2. scoreRow' = [scoreRow EXCEPT ![j] = row]
      BY <2>2
    <3> HIDE DEF row
    <3> QED
      BY <1>4, <2>2, <3>1, <3>2, OutcomeStands
  <2> QED
    BY <1>4, <2>1, <2>2 DEF RecordScoreFailure
<1>5. CASE RecordDeferral(w)
  <2> HIDE DEF j
  <2>1. \A i \in ScoredJobs :
          /\ scoreRow'[i] \in ScoreRows
          /\ scoreRow'[i].digest = scoreRow[i].digest /\ scoreRow'[i].state = scoreRow[i].state
    <3> SUFFICES ASSUME NEW i \in ScoredJobs
                 PROVE  /\ scoreRow'[i] \in ScoreRows
                        /\ scoreRow'[i].digest = scoreRow[i].digest
                        /\ scoreRow'[i].state = scoreRow[i].state
      OBVIOUS
    <3>1. scoreRow[i] \in ScoreRows /\ scoreRow[i].attempts \in Nat
      BY RowsKept DEF ScoreRows
    <3>2. \E left \in Nat :
            scoreRow'[i] \in {[scoreRow[i] EXCEPT !.attempts = left, !.waiting = TRUE],
                              [scoreRow[i] EXCEPT !.waiting = TRUE], scoreRow[i]}
      <4> DEFINE left == IF scoreRow[i].attempts = 0 THEN 0 ELSE scoreRow[i].attempts - 1
      <4>1. left \in Nat
        BY <3>1
      <4>2. scoreRow'[i] \in {[scoreRow[i] EXCEPT !.attempts = left, !.waiting = TRUE],
                              [scoreRow[i] EXCEPT !.waiting = TRUE], scoreRow[i]}
        BY <1>5 DEF RecordDeferral
      <4> HIDE DEF left
      <4> QED
        BY <4>1, <4>2
    <3> QED
      BY <3>1, <3>2 DEF ScoreRows
  <2>2. scoreRow' = [i \in ScoredJobs |-> scoreRow'[i]] /\ UNCHANGED assessed
    BY <1>5 DEF RecordDeferral
  <2>3. scoreRow' \in [ScoredJobs -> ScoreRows]
    BY <2>1, <2>2
  <2> QED
    BY <2>1, <2>2, <2>3, QuietSteps
<1> QED
  BY <1>2, <1>3, <1>4, <1>5 DEF RecordScore

LEMMA ScoringStepInv == ScoringInv /\ [JobScoringNext]_scoringVars => ScoringInv'
<1> SUFFICES ASSUME ScoringInv, [JobScoringNext]_scoringVars PROVE ScoringInv'
  OBVIOUS
<1>1. ASSUME NEW w \in ScoringSweeps, SweepStep(w) \/ SweepDies(w) PROVE ScoringInv'
  <2>1. CASE EndSweep(w) \/ SweepDies(w)
    <3>1. UNCHANGED <<scoreRow, assessed>>
      BY <2>1 DEF EndSweep, SweepDies
    <3> QED
      BY <2>1, <3>1, RowsKept, QuietSteps
  <2> QED
    BY <1>1, <2>1, SweepBegins, SweepRefreshes, SweepClaims, ScoreRecorded DEF SweepStep
<1>2. ASSUME NEW j \in ScoredJobs, WaitElapses(j) PROVE ScoringInv'
  <2>1. /\ scoreRow' = [scoreRow EXCEPT ![j].waiting = FALSE]
        /\ UNCHANGED <<posting, assessed, promotions, searchProfile, filterOn, scoring>>
    BY <1>2 DEF WaitElapses
  <2>2. /\ scoreRow' \in [ScoredJobs -> ScoreRows]
        /\ \A i \in ScoredJobs : /\ scoreRow'[i].digest = scoreRow[i].digest
                                 /\ scoreRow'[i].state = scoreRow[i].state
    BY <2>1, RowsKept DEF ScoreRows
  <2>3. \A i \in ScoredJobs : JobKnown(scoreRow'[i], assessed[i], posting[i].rev, i \in promotions)
    BY <2>2 DEF ScoringInv, JobKnown
  <2> QED
    BY <2>1, <2>2, <2>3 DEF ScoringInv, ScoringShaped
<1>3. CASE UNCHANGED scoringVars
  BY <1>3 DEF scoringVars, ScoringInv, ScoringShaped
<1> QED
  BY <1>1, <1>2, <1>3, OwnerScoringSteps DEF JobScoringNext

(* A job that counts as scored was judged on the posting its row's digest     *)
(* names, and a promoted one is not held back: a sweep's outcome is dropped   *)
(* when the job moved or was promoted since the claim, an assessment never    *)
(* replaces one of a later revision, and of a job promoted before the claim   *)
(* no later hold exists (claim, record, promote, refresh).                    *)
THEOREM ScoresStand == JobScoringSpec => []ScoresAnswerInputs
<1>1. ScoringInv => ScoresAnswerInputs
  BY DEF ScoringInv, JobKnown, ScoresAnswerInputs, HeldBack
<1> QED
  BY <1>1, ScoringInitially, ScoringStepInv, PTL DEF JobScoringSpec
=============================================================================
