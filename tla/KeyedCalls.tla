------------------------------ MODULE KeyedCalls ------------------------------
(***************************************************************************)
(* A synchronous operation called with an idempotency key: the key is      *)
(* reserved, the handler runs in a savepoint and its answer is retained,   *)
(* all in one transaction, and later calls with the key are answered from  *)
(* the retained row (packages/core/src/rheo_core/operations: dispatch.py   *)
(* _dispatch_keyed, idempotency.py).  One key of one operation; the keys   *)
(* of external actions are modelled in ExternalActions.                    *)
(***************************************************************************)
EXTENDS Naturals

CONSTANTS
    Callers,        \* concurrent dispatches that present the key
    Requests,       \* canonical requests presented with it
    NoRequest,      \* no row, no call
    MaxKeyedFaults  \* bound on rollbacks, lost answers, upgrades and purges

ASSUME KeyedCallsAssumption == NoRequest \notin Requests /\ MaxKeyedFaults \in Nat

VARIABLES
    retained,       \* idempotency_result: its state, request, and whether it still adapts
    caller,         \* each dispatch: asked, conflicted (the insert found a row), running
    keyedEffects,   \* effects committed under the key since it was last purged
    answers,        \* <<request, answer>> given since then
    keyedFaults

keyedVars == <<retained, caller, keyedEffects, answers, keyedFaults>>
-----------------------------------------------------------------------------
NoRow  == [state |-> "none", request |-> NoRequest, adapts |-> TRUE]
NoAsk  == [at |-> "idle", request |-> NoRequest]
Answers == {"succeeded", "refused", "failed", "again", "reused", "incompatible"}

KeyedTypeOK ==
    /\ retained \in [state : {"none", "succeeded", "refused", "failed"},
                     request : Requests \cup {NoRequest}, adapts : BOOLEAN]
    /\ caller \in [Callers -> [at : {"idle", "asked", "conflicted", "running"},
                               request : Requests \cup {NoRequest}]]
    /\ keyedEffects \in Nat /\ answers \subseteq Requests \X Answers
    /\ keyedFaults \in 0..MaxKeyedFaults

KeyedInit ==
    /\ retained = NoRow /\ caller = [c \in Callers |-> NoAsk] /\ keyedEffects = 0
    /\ answers = {} /\ keyedFaults = 0

KeyedFault == keyedFaults < MaxKeyedFaults /\ keyedFaults' = keyedFaults + 1

Answer(c, answer) ==
    /\ answers' = answers \cup {<<caller[c].request, answer>>}
    /\ caller' = [caller EXCEPT ![c] = NoAsk]
-----------------------------------------------------------------------------
Ask(c, r) ==
    /\ caller[c].at = "idle"
    /\ caller' = [caller EXCEPT ![c] = [at |-> "asked", request |-> r]]
    /\ UNCHANGED <<retained, keyedEffects, answers, keyedFaults>>

\* Mutant of Reservable: the insert does not wait for a reservation in flight.
ReservableAtOnce == TRUE

\* INSERT ... ON CONFLICT DO NOTHING waits for a reservation in flight to end.
Reservable == \A d \in Callers : caller[d].at # "running"

\* reserve: created, or a committed row is in the way.
Reserve(c) ==
    /\ caller[c].at = "asked" /\ Reservable
    /\ caller' = [caller EXCEPT ![c].at = IF retained.state = "none" THEN "running" ELSE "conflicted"]
    /\ UNCHANGED <<retained, keyedEffects, answers, keyedFaults>>

\* The row is read and replayed: a key bound to another request is refused, a row no
\* adapter brings to this schema too; a row purged since is an error that writes nothing.
Replayed(c) ==
    IF retained.state = "none" THEN "failed"
    ELSE IF ~retained.adapts THEN "incompatible"
    ELSE IF retained.request # caller[c].request THEN "reused"
    ELSE retained.state

ReplayRow(c) ==
    /\ caller[c].at = "conflicted" /\ Answer(c, Replayed(c))
    /\ UNCHANGED <<retained, keyedEffects, keyedFaults>>

\* finish_success or finish_error, and the commit of what the savepoint kept.
Retain(c, state, effects) ==
    /\ caller[c].at = "running"
    /\ retained' = [state |-> state, request |-> caller[c].request, adapts |-> TRUE]
    /\ keyedEffects' = keyedEffects + effects

\* The handler returned its declared output.  When the answer to the commit is lost the
\* caller is told failed, though the row and the effect stand.
Succeed(c) ==
    /\ Retain(c, "succeeded", 1)
    /\ \/ Answer(c, "succeeded") /\ UNCHANGED keyedFaults
       \/ Answer(c, "failed") /\ KeyedFault

\* The handler refused, raised, or returned something else: the savepoint is rolled back
\* and the error is retained.
Decline(c, state) ==
    /\ Retain(c, state, 0) /\ Answer(c, state) /\ UNCHANGED keyedFaults

\* A module not ready, a stale record or a storage refusal releases the key; so does an
\* error outside the handler, or at the commit, which is answered failed.
Release(c) ==
    /\ caller[c].at = "running" /\ KeyedFault
    /\ \E answer \in {"again", "failed"} : Answer(c, answer)
    /\ UNCHANGED <<retained, keyedEffects>>

\* purge_expired, once the retention has passed: replay is no longer promised.
PurgeKey ==
    /\ retained.state # "none" /\ KeyedFault
    /\ retained' = NoRow /\ keyedEffects' = 0 /\ answers' = {} /\ UNCHANGED caller

\* A deployment changes the operation's schema without an adapter for the row.
UpgradeSchema ==
    /\ retained.state # "none" /\ retained.adapts /\ KeyedFault
    /\ retained' = [retained EXCEPT !.adapts = FALSE]
    /\ UNCHANGED <<caller, keyedEffects, answers>>

KeyedNext ==
    \/ PurgeKey \/ UpgradeSchema
    \/ \E c \in Callers : \/ Reserve(c) \/ ReplayRow(c) \/ Succeed(c) \/ Release(c)
                          \/ \E r \in Requests : Ask(c, r)
                          \/ \E state \in {"refused", "failed"} : Decline(c, state)

KeyedSpec == KeyedInit /\ [][KeyedNext]_keyedVars
-----------------------------------------------------------------------------
(* While a key is retained its operation takes effect at most once, for one of the   *)
(* requests presented with it; the retained row says whether it did; and a caller    *)
(* told it succeeded is never contradicted by another told the same request was      *)
(* refused, whichever of them raced, was answered late or lost its answer.           *)
KeyedOnce ==
    /\ keyedEffects = IF retained.state = "succeeded" THEN 1 ELSE 0
    /\ \A r \in Requests :
         /\ <<r, "succeeded">> \in answers =>
              retained.state = "succeeded" /\ retained.request = r /\ <<r, "refused">> \notin answers
         /\ <<r, "refused">> \in answers => keyedEffects = 0 /\ retained.state = "refused"
=============================================================================
