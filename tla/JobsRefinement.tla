--------------------------- MODULE JobsRefinement ---------------------------
(* The worker loop of Jobs implements JobContract: queued and leased are both  *)
(* "open", and everything a lease, a retry, a crash or a lost lease does in    *)
(* between is a stuttering step of the contract.                               *)
EXTENDS Jobs

Outcome(row) == IF row.state \in {"queued", "leased"} THEN "open" ELSE row.state

Shown(r) == IF r \in {"none", "pending"} THEN "open" ELSE r

Contract == INSTANCE JobContract WITH
    outcome <- [j \in Jobs |-> Outcome(job[j])],
    asked   <- [j \in Jobs |-> job[j].cancel_requested],
    effects <- effects,
    shown   <- [j \in Jobs |-> Shown(record[j])]

(* Every behaviour of the worker loop is one the contract allows, as long as   *)
(* no dispatcher is misled about its own commit (_run_handler, the gates,      *)
(* _write_failure_outcome, _resolve_zero_rowcount and request_cancellation     *)
(* together).                                                                  *)
ImplementsContract == Contract!Spec
=============================================================================
