---------------------------- MODULE JobContract ----------------------------
(***************************************************************************)
(* What durable work promises its caller, with no leases, workers, retries *)
(* or crashes in sight: an accepted job stays open until it ends once, its *)
(* effects land in the very step that ends it, its operation record shows  *)
(* the same outcome from the same step on, and a cancellation asked for    *)
(* while an ordinary job is open is the only end it may still come to.     *)
(***************************************************************************)
EXTENDS Naturals

CONSTANTS Jobs, Continuations, Recorded

VARIABLES outcome,   \* absent, open, or how the job ended
          asked,     \* whether cancellation was asked for while the job was open
          effects,   \* how often the job's effects have landed
          shown      \* what the job's operation record shows: open, or an outcome

vars == <<outcome, asked, effects, shown>>

Ends == {"succeeded", "failed", "cancelled"}

Init ==
    /\ outcome = [j \in Jobs |-> "absent"]
    /\ asked = [j \in Jobs |-> FALSE]
    /\ effects = [j \in Jobs |-> 0]
    /\ shown = [j \in Jobs |-> "open"]

Accept(j) ==
    /\ outcome[j] = "absent" /\ shown[j] = "open"
    /\ outcome' = [outcome EXCEPT ![j] = "open"]
    /\ UNCHANGED <<asked, effects, shown>>

\* The work was never accepted, and its record says so.
Refuse(j) ==
    /\ outcome[j] = "absent" /\ j \in Recorded /\ shown[j] = "open"
    /\ shown' = [shown EXCEPT ![j] = "failed"]
    /\ UNCHANGED <<outcome, asked, effects>>

AskToCancel(j) ==
    /\ outcome[j] = "open"
    /\ asked' = [asked EXCEPT ![j] = TRUE]
    /\ UNCHANGED <<outcome, effects, shown>>

Landed(j, end) == j \in Continuations \/ end = "succeeded"

\* A caller may ask and be obeyed in one step.  Only a continuation, which settles
\* what a destination really did, may end otherwise once asked, or cancelled unasked.
End(j, end) ==
    /\ outcome[j] = "open" /\ shown[j] = "open"
    /\ asked' \in {asked, [asked EXCEPT ![j] = TRUE]}
    /\ j \notin Continuations => (asked'[j] <=> end = "cancelled")
    /\ outcome' = [outcome EXCEPT ![j] = end]
    /\ effects' = IF Landed(j, end) THEN [effects EXCEPT ![j] = @ + 1] ELSE effects
    /\ shown' = IF j \in Recorded THEN [shown EXCEPT ![j] = end] ELSE shown

Next == \E j \in Jobs : \/ Accept(j) \/ Refuse(j) \/ AskToCancel(j)
                        \/ \E end \in Ends : End(j, end)

Spec == Init /\ [][Next]_vars
=============================================================================
