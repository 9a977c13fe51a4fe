----------------------------- MODULE Deliveries -----------------------------
(***************************************************************************)
(* The outbox of one workspace and the delivery of its events: publishing, *)
(* the ordered lease, the consumer's transaction with its dedup ledger,    *)
(* what a person may do with a failed delivery (retry, skip, replay) and   *)
(* the retention sweep (rheo_core/events/*.py, the delivery half of        *)
(* work/loop.py and work/operations.py).                                   *)
(*                                                                         *)
(* An event is named by its outbox position.  Each action is one database  *)
(* transaction, or one step of a worker between two of them.  Time is      *)
(* abstracted as in Jobs: "due" is next_attempt_at <= now and "live" is    *)
(* lease_until >= now.                                                     *)
(***************************************************************************)
EXTENDS Naturals, FiniteSets

CONSTANTS
    MaxPosition,   \* bound on the outbox sequence
    Subjects,      \* subject_ref
    SubjectOf,     \* the subject of the event at each position
    Consumers,     \* consumer_id
    Subscribed,    \* the positions whose event has the type a consumer subscribes to
    ReplaySafe,    \* consumers that declare replay_safe
    Dropped,       \* consumers the new module package no longer registers
    Workers,       \* worker processes, by lease owner
    NoOne,         \* a null lease_owner
    MaxAttempts,   \* work.max_attempts
    MaxFaults,     \* bound on crashes and stalls
    MaxActs,       \* bound on retries and replays
    LatestPackage  \* 1 if a new module package is rolled out, 0 if not

Positions == 1..MaxPosition

ASSUME DeliveriesAssumption ==
    /\ MaxPosition \in Nat
    /\ SubjectOf \in [Positions -> Subjects]
    /\ Subscribed \in [Consumers -> SUBSET Positions]
    /\ ReplaySafe \subseteq Consumers /\ Dropped \subseteq Consumers
    /\ NoOne \notin Workers /\ NoOne \notin Consumers
    /\ MaxAttempts \in Nat \ {0} /\ MaxFaults \in Nat /\ MaxActs \in Nat
    /\ LatestPackage \in {0, 1}

VARIABLES
    outbox,    \* what became of each outbox position
    fanout,    \* the consumers an open publish fans its event out to
    delivery,  \* core.event_delivery
    ledger,    \* core.consumer_processed: the positions each consumer has processed
    applied,   \* committed handler effects, since the delivery was last replayed
    worker,    \* each worker's place in the loop and the delivery it was handed
    enabled,   \* consumers whose module is enabled in the workspace
    swept,     \* core.outbox_retention.swept_through_position, 0 when null
    sweep,     \* whether a retention sweep is running, and its candidates
    package,   \* the module package version a worker process has loaded
    schema,    \* the module version the workspace database is upgraded to
    faults,    \* crashes and stalls so far
    acts       \* retries and replays so far

vars == <<outbox, fanout, delivery, ledger, applied, worker, enabled, swept,
          sweep, package, schema, faults, acts>>

\* What the worker loop leaves alone, and what everything else leaves alone.
outboxVars  == <<outbox, fanout, enabled, swept, sweep>>
rolloutVars == <<package, schema>>
-----------------------------------------------------------------------------
Settled  == {"delivered", "skipped"}
States   == {"absent", "pending", "leased", "failed"} \cup Settled
Places   == {"idle", "gate", "reject", "start", "known", "handler", "missing",
             "unready", "raised"}
NoSweep  == [running |-> FALSE, candidates |-> {}]
Versions == {0, 1}

Rows == [state : States, lease_owner : Workers \cup {NoOne}, live : BOOLEAN,
         due : BOOLEAN, attempts : Nat]

NoRow == [state |-> "absent", lease_owner |-> NoOne, live |-> FALSE,
          due |-> FALSE, attempts |-> 0]

Leases == [at : Places, consumer : Consumers \cup {NoOne},
           position : Nat, attempts : Nat]

Idle == [at |-> "idle", consumer |-> NoOne, position |-> 0, attempts |-> 0]

TypeOK ==
    /\ outbox \in [Positions -> {"unused", "open", "retained", "void", "purged"}]
    /\ fanout \in [Positions -> SUBSET Consumers]
    /\ delivery \in [Consumers -> [Positions -> Rows]]
    /\ ledger \in [Consumers -> SUBSET Positions]
    /\ applied \in [Consumers -> [Positions -> Nat]]
    /\ worker \in [Workers -> Leases]
    /\ enabled \subseteq Consumers
    /\ swept \in 0..MaxPosition
    /\ sweep \in [running : BOOLEAN, candidates : SUBSET Positions]
    /\ package \in [Workers -> Versions] /\ schema \in Versions
    /\ faults \in 0..MaxFaults /\ acts \in 0..MaxActs

Init ==
    /\ outbox = [p \in Positions |-> "unused"]
    /\ fanout = [p \in Positions |-> {}]
    /\ delivery = [c \in Consumers |-> [p \in Positions |-> NoRow]]
    /\ ledger = [c \in Consumers |-> {}]
    /\ applied = [c \in Consumers |-> [p \in Positions |-> 0]]
    /\ worker = [w \in Workers |-> Idle]
    /\ enabled \in SUBSET Consumers
    /\ swept = 0 /\ sweep = NoSweep
    /\ package = [w \in Workers |-> 0] /\ schema = 0
    /\ faults = 0 /\ acts = 0
-----------------------------------------------------------------------------
(* Publishing.  A publisher writes the row its event is about first and      *)
(* holds it to the commit, so publishes of one subject never overlap; those  *)
(* of different subjects may commit in any order of their positions.         *)

Publish(p) ==
    /\ outbox[p] = "unused"
    /\ \A q \in Positions : q < p => outbox[q] # "unused"
    /\ \A q \in Positions : SubjectOf[q] = SubjectOf[p] => outbox[q] # "open"
    /\ outbox' = [outbox EXCEPT ![p] = "open"]
    /\ fanout' = [fanout EXCEPT ![p] = {c \in enabled : p \in Subscribed[c]}]
    /\ UNCHANGED <<delivery, ledger, applied, worker, enabled, swept, sweep,
                   package, schema, faults, acts>>

Published == [NoRow EXCEPT !.state = "pending", !.due = TRUE]

CommitPublish(p) ==
    /\ outbox[p] = "open"
    /\ outbox' = [outbox EXCEPT ![p] = "retained"]
    /\ delivery' = [c \in Consumers |->
                      IF c \in fanout[p] THEN [delivery[c] EXCEPT ![p] = Published]
                                         ELSE delivery[c]]
    /\ fanout' = [fanout EXCEPT ![p] = {}]
    /\ UNCHANGED <<ledger, applied, worker, enabled, swept, sweep,
                   package, schema, faults, acts>>

\* A rolled-back publish leaves a hole in the sequence.
RollbackPublish(p) ==
    /\ outbox[p] = "open"
    /\ outbox' = [outbox EXCEPT ![p] = "void"]
    /\ fanout' = [fanout EXCEPT ![p] = {}]
    /\ UNCHANGED <<delivery, ledger, applied, worker, enabled, swept, sweep,
                   package, schema, faults, acts>>

SetModuleState(c) ==
    /\ enabled' \in {enabled \cup {c}, enabled \ {c}}
    /\ UNCHANGED <<outbox, fanout, delivery, ledger, applied, worker, swept,
                   sweep, package, schema, faults, acts>>
-----------------------------------------------------------------------------
(* The row: predicates and writes of events/deliveries.py.                   *)

\* Mutant of Blocked: a failed head no longer holds its queue back.
BlockedByUnfinished(c, p) ==
    \E q \in Positions : /\ q < p /\ SubjectOf[q] = SubjectOf[p]
                         /\ delivery[c][q].state \in {"pending", "leased"}

Blocked(c, p) ==
    \E q \in Positions : /\ q < p /\ SubjectOf[q] = SubjectOf[p]
                         /\ delivery[c][q].state \notin Settled \cup {"absent"}

\* Mutant of Candidate: the crash-recovery arm is left out.
CandidatePendingOnly(c, p) ==
    /\ delivery[c][p].state = "pending" /\ delivery[c][p].due
    /\ ~Blocked(c, p)

Candidate(c, p) ==
    /\ \/ delivery[c][p].state = "pending" /\ delivery[c][p].due
       \/ delivery[c][p].state = "leased" /\ ~delivery[c][p].live
    /\ ~Blocked(c, p)

\* Mutant of Held: the update is not predicated.
HeldAlways(w) == TRUE

Held(w) ==
    LET l == worker[w] IN
    /\ delivery[l.consumer][l.position].state = "leased"
    /\ delivery[l.consumer][l.position].lease_owner = w

Leased(row, w) ==
    [row EXCEPT !.state = "leased", !.lease_owner = w, !.live = TRUE,
                !.attempts = @ + 1]

Ended(row, outcome) ==
    [row EXCEPT !.state = outcome, !.lease_owner = NoOne, !.live = FALSE]

Requeued(row) == [Ended(row, "pending") EXCEPT !.due = FALSE]

Deferred(row) == [Requeued(row) EXCEPT !.attempts = @ - 1]

Restarted(row) == [Ended(row, "pending") EXCEPT !.due = TRUE, !.attempts = 0]

\* What the passing of time does to a row.
Due(row) == [row EXCEPT !.due = TRUE]

Lapsed(row) == [row EXCEPT !.live = FALSE]

Exhausted(lease) == lease.attempts > MaxAttempts

Spent(lease) == lease.attempts >= MaxAttempts

Ready(w) == package[w] = schema

Goto(w, place) == worker' = [worker EXCEPT ![w].at = place]

Leave(w) == worker' = [worker EXCEPT ![w] = Idle]

\* A predicated write on the delivery a worker was handed; a zero rowcount is
\* only logged (_lease_lost).
WriteIfHeld(w, row) ==
    LET l == worker[w] IN
    delivery' = IF Held(w) THEN [delivery EXCEPT ![l.consumer][l.position] = row]
                           ELSE delivery

HeldRow(w) == delivery[worker[w].consumer][worker[w].position]
-----------------------------------------------------------------------------
(* The worker loop.                                                          *)

LeaseDelivery(w, c, p) ==
    /\ worker[w].at = "idle" /\ Candidate(c, p)
    /\ delivery' = [delivery EXCEPT ![c][p] = Leased(@, w)]
    /\ worker' = [worker EXCEPT ![w] =
                    [at |-> "gate", consumer |-> c, position |-> p,
                     attempts |-> delivery[c][p].attempts + 1]]
    /\ UNCHANGED <<outbox, fanout, ledger, applied, enabled, swept, sweep,
                   package, schema, faults, acts>>

\* The crash side of the budget, and the consumer's lookup in the loaded package.
RunLeasedDelivery(w) ==
    /\ worker[w].at = "gate"
    /\ IF Exhausted(worker[w])
       THEN WriteIfHeld(w, Ended(HeldRow(w), "failed")) /\ Leave(w)
       ELSE /\ Goto(w, IF worker[w].consumer \in Dropped /\ package[w] = 1
                       THEN "reject" ELSE "start")
            /\ UNCHANGED delivery
    /\ UNCHANGED <<ledger, applied, faults, acts>>
    /\ UNCHANGED <<outboxVars, rolloutVars>>

\* An unknown consumer is terminal, unless the package is ahead of its upgrade.
FailUnlessUnready(w) ==
    /\ worker[w].at = "reject"
    /\ WriteIfHeld(w, IF Ready(w) THEN Ended(HeldRow(w), "failed")
                                  ELSE Deferred(HeldRow(w)))
    /\ Leave(w)
    /\ UNCHANGED <<ledger, applied, faults, acts>>
    /\ UNCHANGED <<outboxVars, rolloutVars>>

\* The consumer's transaction opens with its reads: ledger, envelope, readiness.
EnterConsumer(w) ==
    LET l == worker[w] IN
    /\ l.at = "start"
    /\ Goto(w, CASE l.position \in ledger[l.consumer]  -> "known"
                 [] outbox[l.position] # "retained"    -> "missing"
                 [] ~Ready(w)                          -> "unready"
                 [] OTHER                              -> "handler")
    /\ UNCHANGED <<delivery, ledger, applied, faults, acts>>
    /\ UNCHANGED <<outboxVars, rolloutVars>>

\* The consumer's context is refused (the workspace left the active state, the
\* control plane is out of reach), which is found out before readiness is.
ContextRefused(w) ==
    LET l == worker[w] IN
    /\ l.at = "start"
    /\ l.position \notin ledger[l.consumer] /\ outbox[l.position] = "retained"
    /\ Goto(w, "raised")
    /\ UNCHANGED <<delivery, ledger, applied, faults, acts>>
    /\ UNCHANGED <<outboxVars, rolloutVars>>

\* Already processed: delivered without running the handler again.
MarkKnown(w) ==
    /\ worker[w].at = "known"
    /\ WriteIfHeld(w, Ended(HeldRow(w), "delivered"))
    /\ Leave(w)
    /\ UNCHANGED <<ledger, applied, faults, acts>>
    /\ UNCHANGED <<outboxVars, rolloutVars>>

\* The handler's effects, the ledger row (whose primary key may raise) and the
\* delivered write commit together, or not at all.  A commit that lands and raises
\* leaves the visit with nothing further written, as one that returns does.
ConsumerReturns(w) ==
    LET l == worker[w] IN
    /\ l.at = "handler"
    /\ IF l.position \in ledger[l.consumer]
       THEN Goto(w, "raised") /\ UNCHANGED <<delivery, ledger, applied>>
       ELSE /\ Leave(w)
            /\ WriteIfHeld(w, Ended(HeldRow(w), "delivered"))
            /\ IF Held(w)
               THEN /\ ledger' = [ledger EXCEPT ![l.consumer] = @ \cup {l.position}]
                    /\ applied' = [applied EXCEPT ![l.consumer][l.position] = @ + 1]
               ELSE UNCHANGED <<ledger, applied>>
    /\ UNCHANGED <<faults, acts>>
    /\ UNCHANGED <<outboxVars, rolloutVars>>

ConsumerRaises(w) ==
    /\ worker[w].at = "handler"
    /\ Goto(w, "raised")
    /\ UNCHANGED <<delivery, ledger, applied, faults, acts>>
    /\ UNCHANGED <<outboxVars, rolloutVars>>

\* The exception side of the budget, in a transaction of its own.
WriteDeliveryFailure(w) ==
    /\ worker[w].at = "raised"
    /\ WriteIfHeld(w, IF Spent(worker[w]) THEN Ended(HeldRow(w), "failed")
                                          ELSE Requeued(HeldRow(w)))
    /\ Leave(w)
    /\ UNCHANGED <<ledger, applied, faults, acts>>
    /\ UNCHANGED <<outboxVars, rolloutVars>>

\* The outbox row is gone, which no later attempt can mend.
FailMissing(w) ==
    /\ worker[w].at = "missing"
    /\ WriteIfHeld(w, Ended(HeldRow(w), "failed"))
    /\ Leave(w)
    /\ UNCHANGED <<ledger, applied, faults, acts>>
    /\ UNCHANGED <<outboxVars, rolloutVars>>

DeferUnready(w) ==
    /\ worker[w].at = "unready"
    /\ WriteIfHeld(w, Deferred(HeldRow(w)))
    /\ Leave(w)
    /\ UNCHANGED <<ledger, applied, faults, acts>>
    /\ UNCHANGED <<outboxVars, rolloutVars>>
-----------------------------------------------------------------------------
(* What a person does with a failed delivery (core.work.retry, .skip).       *)

RetryDelivery(c, p) ==
    /\ delivery[c][p].state = "failed"
    /\ acts < MaxActs /\ acts' = acts + 1
    /\ delivery' = [delivery EXCEPT ![c][p] = Restarted(@)]
    /\ UNCHANGED <<ledger, applied, worker, faults>>
    /\ UNCHANGED <<outboxVars, rolloutVars>>

SkipDelivery(c, p) ==
    /\ delivery[c][p].state = "failed"
    /\ delivery' = [delivery EXCEPT ![c][p] = Ended(@, "skipped")]
    /\ UNCHANGED <<ledger, applied, worker, faults, acts>>
    /\ UNCHANGED <<outboxVars, rolloutVars>>

Retained == {p \in Positions : outbox[p] = "retained"}

\* Mutant of Replayable: the sweep's horizon is left out of the gap check.
ReplayableFromOldest(from) == \E p \in Retained : p <= from

\* from_position is neither before the oldest retained row nor swept.
Replayable(from) == swept < from /\ \E p \in Retained : p <= from

InFlight(c, from) ==
    \E p \in Positions : p >= from /\ delivery[c][p].state = "leased"

\* Mutant of Replayed: goes by position, and takes the holes of the sequence too.
ReplayedHoles(c, from) ==
    {p \in Positions : p >= from /\ p \in Subscribed[c] /\ outbox[p] # "unused"}

Replayed(c, from) == {p \in Retained : p >= from /\ p \in Subscribed[c]}

\* Mutant of ReplayDeliveries: the dedup ledger is left alone.
ReplayDeliveriesKeepLedger(c, from) ==
    /\ delivery' = [delivery EXCEPT ![c] =
         [p \in Positions |-> IF p \in Replayed(c, from) /\ @[p].state # "pending"
                              THEN Restarted(@[p]) ELSE @[p]]]
    /\ UNCHANGED ledger

\* Existing rows are reset, missing ones created, pending ones left alone, and the
\* ledger forgets every event in range.
ReplayDeliveries(c, from) ==
    /\ delivery' = [delivery EXCEPT ![c] =
         [p \in Positions |-> IF p \in Replayed(c, from) /\ @[p].state # "pending"
                              THEN Restarted(@[p]) ELSE @[p]]]
    /\ ledger' = [ledger EXCEPT ![c] = @ \ Replayed(c, from)]

\* core.work.replay: serialised against a sweep by core.outbox_retention's row and
\* against every delivery write by the table lock.
Replay(c, from) ==
    /\ c \in ReplaySafe /\ c \in enabled
    /\ ~sweep.running /\ Replayable(from) /\ ~InFlight(c, from)
    /\ acts < MaxActs /\ acts' = acts + 1
    /\ ReplayDeliveries(c, from)
    /\ applied' = [applied EXCEPT ![c] =
         [p \in Positions |-> IF p \in Replayed(c, from) THEN 0 ELSE @[p]]]
    /\ UNCHANGED <<worker, faults>>
    /\ UNCHANGED <<outboxVars, rolloutVars>>
-----------------------------------------------------------------------------
(* The outbox part of the retention sweep (events/retention.py).  It locks   *)
(* the retention row, reads its candidates, and deletes; deliveries go on.   *)

Sweepable(p) ==
    \A c \in Consumers : delivery[c][p].state \in Settled \cup {"absent"}

\* old: the retained events that occurred before the retention horizon.
BeginSweep(old) ==
    /\ ~sweep.running /\ old \subseteq Retained
    /\ sweep' = [running |-> TRUE, candidates |-> {p \in old : Sweepable(p)}]
    /\ UNCHANGED <<outbox, fanout, delivery, ledger, applied, worker, enabled,
                   swept, package, schema, faults, acts>>

\* swept_through_position moves up to the highest position deleted.
SweptThrough(S) ==
    \E high \in S \cup {swept} :
        /\ \A q \in S \cup {swept} : q <= high
        /\ swept' = high

Remaining(c, p) ==
    IF p \in sweep.candidates /\ delivery[c][p].state \in Settled
    THEN NoRow ELSE delivery[c][p]

\* A candidate goes only when the deletion of settled rows has left it none.
Gone == {p \in sweep.candidates :
            \A c \in Consumers : Remaining(c, p).state = "absent"}

PurgeOutbox ==
    /\ sweep.running
    /\ delivery' = [c \in Consumers |-> [p \in Positions |-> Remaining(c, p)]]
    /\ outbox' = [p \in Positions |-> IF p \in Gone THEN "purged" ELSE outbox[p]]
    /\ ledger' = [c \in Consumers |-> ledger[c] \ Gone]
    /\ SweptThrough(Gone)
    /\ sweep' = NoSweep
    /\ UNCHANGED <<fanout, applied, worker, enabled, package, schema, faults, acts>>

\* The sweep's job is cancelled at a checkpoint, raises, or loses its lease.
AbortSweep ==
    /\ sweep.running /\ sweep' = NoSweep
    /\ UNCHANGED <<outbox, fanout, delivery, ledger, applied, worker, enabled,
                   swept, package, schema, faults, acts>>
-----------------------------------------------------------------------------
(* Time, faults and the rollout of a module upgrade.                         *)

BecomesDue(c, p) ==
    /\ delivery[c][p].state = "pending" /\ ~delivery[c][p].due
    /\ delivery' = [delivery EXCEPT ![c][p] = Due(@)]
    /\ UNCHANGED <<ledger, applied, worker, faults, acts>>
    /\ UNCHANGED <<outboxVars, rolloutVars>>

WorksOn(w, c, p) == worker[w].consumer = c /\ worker[w].position = p

\* A lease runs out because nobody works on it any more, or under a worker that is
\* still at it.
LeaseLapses(c, p) ==
    /\ delivery[c][p].state = "leased" /\ delivery[c][p].live
    /\ ~WorksOn(delivery[c][p].lease_owner, c, p)
    /\ delivery' = [delivery EXCEPT ![c][p] = Lapsed(@)]
    /\ UNCHANGED <<ledger, applied, worker, faults, acts>>
    /\ UNCHANGED <<outboxVars, rolloutVars>>

WorkerStalls(c, p) ==
    /\ delivery[c][p].state = "leased" /\ delivery[c][p].live
    /\ WorksOn(delivery[c][p].lease_owner, c, p)
    /\ faults < MaxFaults /\ faults' = faults + 1
    /\ delivery' = [delivery EXCEPT ![c][p] = Lapsed(@)]
    /\ UNCHANGED <<ledger, applied, worker, acts>>
    /\ UNCHANGED <<outboxVars, rolloutVars>>

Crash(w) ==
    /\ worker[w].at # "idle"
    /\ faults < MaxFaults /\ faults' = faults + 1
    /\ Leave(w)
    /\ UNCHANGED <<delivery, ledger, applied, acts>>
    /\ UNCHANGED <<outboxVars, rolloutVars>>

Deploy(w) ==
    /\ package[w] < LatestPackage
    /\ package' = [package EXCEPT ![w] = LatestPackage]
    /\ Leave(w)
    /\ UNCHANGED <<delivery, ledger, applied, schema, faults, acts>>
    /\ UNCHANGED outboxVars

\* The upgrade needs the execution lock that every running consumer shares.
UpgradeModule ==
    /\ schema < LatestPackage /\ \A w \in Workers : worker[w].at # "handler"
    /\ schema' = LatestPackage
    /\ UNCHANGED <<delivery, ledger, applied, worker, package, faults, acts>>
    /\ UNCHANGED outboxVars
-----------------------------------------------------------------------------
WorkerStep(w) ==
    \/ RunLeasedDelivery(w) \/ FailUnlessUnready(w) \/ EnterConsumer(w)
    \/ ContextRefused(w) \/ MarkKnown(w) \/ ConsumerReturns(w) \/ ConsumerRaises(w)
    \/ WriteDeliveryFailure(w) \/ FailMissing(w) \/ DeferUnready(w)

Next ==
    \/ \E p \in Positions : Publish(p) \/ CommitPublish(p) \/ RollbackPublish(p)
    \/ \E c \in Consumers : SetModuleState(c)
    \/ \E c \in Consumers, p \in Positions :
          \/ RetryDelivery(c, p) \/ SkipDelivery(c, p) \/ Replay(c, p)
          \/ BecomesDue(c, p) \/ LeaseLapses(c, p) \/ WorkerStalls(c, p)
          \/ \E w \in Workers : LeaseDelivery(w, c, p)
    \/ \E w \in Workers : WorkerStep(w) \/ Crash(w) \/ Deploy(w)
    \/ \E old \in SUBSET Positions : BeginSweep(old)
    \/ PurgeOutbox \/ AbortSweep \/ UpgradeModule

Spec == Init /\ [][Next]_vars

(* Workers keep stepping and consumers return or raise; time passes;         *)
(* lease_delivery orders by position, so no candidate is passed over for     *)
(* ever; the rollout of an upgrade is finished by its operator.              *)
Fairness ==
    /\ \A w \in Workers : WF_vars(WorkerStep(w)) /\ WF_vars(Deploy(w))
    /\ \A c \in Consumers, p \in Positions :
         /\ SF_vars(\E w \in Workers : LeaseDelivery(w, c, p))
         /\ WF_vars(BecomesDue(c, p)) /\ WF_vars(LeaseLapses(c, p))
    /\ SF_vars(UpgradeModule)

FairSpec == Spec /\ Fairness
-----------------------------------------------------------------------------
(* Properties.                                                               *)

(* A delivery counts as delivered exactly when its handler's effects were    *)
(* committed, once, since it was last replayed, and the ledger says so       *)
(* ("the three writes share one transaction, and that is the whole of        *)
(* exactly-once", _run_consumer): whatever leases lapse under a running      *)
(* consumer, and whatever replay and the sweep delete from the ledger.  So   *)
(* no delivery waits with a ledger row: the row that replay's docstring      *)
(* provides for, "which a requeue after a lost finish can leave with a       *)
(* ledger row" (deliveries.py), and that a test writes by hand as "the state *)
(* a lost finish leaves", is not left by this code, which rolls the ledger   *)
(* row back when the finish is lost.                                         *)
AppliedExactlyOnce ==
    \A c \in Consumers, p \in Positions :
        /\ applied[c][p] <= 1
        /\ delivery[c][p].state = "delivered" => applied[c][p] = 1
        /\ delivery[c][p].state # "absent" =>
              (delivery[c][p].state = "delivered" <=> p \in ledger[c])

(* Per consumer and subject, deliveries happen in outbox order, one in       *)
(* flight at a time: a delivery that is leased, failed or delivered has      *)
(* nothing unsettled before it, through replays, skips, late publishes and   *)
(* re-leases ("order is never broken silently", lease_delivery).             *)
OrderKept ==
    \A c \in Consumers : \A p, q \in Positions :
        /\ q < p /\ SubjectOf[q] = SubjectOf[p]
        /\ delivery[c][p].state \in {"leased", "failed", "delivered"}
        => delivery[c][q].state \in Settled \cup {"absent"}

(* A sweep or a replay never leaves a delivery whose event is gone, so a     *)
(* worker that finds its event missing has lost its lease as well: the       *)
(* terminal branch of _EventMissing never fails a delivery.                  *)
NoOrphan ==
    /\ \A c \in Consumers, p \in Positions :
          delivery[c][p].state # "absent" => outbox[p] = "retained"
    /\ \A w \in Workers : worker[w].at = "missing" => ~Held(w)

(* A failed delivery waits for a person: no worker, no late owner of its     *)
(* lease and no sweep moves it (fail_delivery).                              *)
FailedWaitsForAPerson ==
    [][\A c \in Consumers, p \in Positions :
          delivery[c][p].state = "failed" /\ delivery'[c][p] # delivery[c][p]
          => worker' = worker /\ outbox' = outbox
             /\ delivery'[c][p].state \in {"pending", "skipped"}]_vars

(* A replay covers every event there ever was at or after the position it    *)
(* starts from: nothing in its range has been swept away, even when an old   *)
(* stuck event survives below the holes (replay_gap, replay_handler).        *)
ReplayIsWhole ==
    [][\A c \in Consumers, from \in Positions :
          Replay(c, from) =>
             \A p \in Positions : p >= from => outbox[p] # "purged"]_vars

(* A handler is never run for a lease beyond the budget, so a consumer that  *)
(* kills its process ends failed rather than being leased for ever.          *)
AttemptsWithinBudget ==
    \A w \in Workers : worker[w].at \in {"handler", "raised"}
                          => worker[w].attempts <= MaxAttempts

(* Every delivery is settled or fails, or waits behind a failed one, or is   *)
(* swept: a crash, a stall, an upgrade or a replay never strands it.         *)
EveryDeliveryEnds ==
    \A c \in Consumers, p \in Positions :
        delivery[c][p].state \in {"pending", "leased"} ~>
            \/ delivery[c][p].state \in Settled \cup {"failed", "absent"}
            \/ \E q \in Positions : /\ q < p /\ SubjectOf[q] = SubjectOf[p]
                                    /\ delivery[c][q].state = "failed"
=============================================================================
