-------------------------- MODULE DeliveriesProofs --------------------------
(***************************************************************************)
(* Proofs about Deliveries, for any outbox, any consumers, subjects and    *)
(* workers, any budget and any number of faults and replays.               *)
(***************************************************************************)
EXTENDS Deliveries, TLAPS

(* A busy worker works on a delivery that exists in the key space, and past    *)
(* the gate its lease is within the budget.                                    *)
BusyOnADelivery ==
    \A w \in Workers :
        worker[w].at # "idle" =>
            /\ worker[w].consumer \in Consumers /\ worker[w].position \in Positions
            /\ worker[w].at # "gate" => worker[w].attempts <= MaxAttempts

(* A lease has been counted, so a deferral has an attempt to refund.           *)
LeaseCounted ==
    \A c \in Consumers, p \in Positions :
        delivery[c][p].state = "leased" => delivery[c][p].attempts >= 1

TypeInv == TypeOK /\ BusyOnADelivery /\ LeaseCounted

-----------------------------------------------------------------------------
(* What the row writes of events/deliveries.py return.                         *)

(* A lease is counted and names its owner.                                     *)
LEMMA LeasedRow ==
    ASSUME NEW r \in Rows, NEW w \in Workers
    PROVE  /\ Leased(r, w) \in Rows /\ Leased(r, w).state = "leased"
           /\ Leased(r, w).lease_owner = w /\ Leased(r, w).attempts >= 1
<1>1. r.attempts + 1 \in Nat /\ r.attempts + 1 >= 1
  BY DEF Rows
<1> QED
  BY <1>1 DEF Rows, States, Settled, Leased

(* Ending an attempt gives the lease up.                                       *)
LEMMA EndedRow ==
    ASSUME NEW r \in Rows, NEW o \in {"pending", "failed", "delivered", "skipped"}
    PROVE  /\ Ended(r, o) \in Rows /\ Ended(r, o).state = o
           /\ Ended(r, o).lease_owner = NoOne /\ Ended(r, o).attempts = r.attempts
  BY DEF Rows, States, Settled, Ended

LEMMA RequeuedRow ==
    ASSUME NEW r \in Rows
    PROVE  /\ Requeued(r) \in Rows /\ Requeued(r).state = "pending"
           /\ Requeued(r).lease_owner = NoOne /\ Requeued(r).attempts = r.attempts
<1>1. Ended(r, "pending") \in Rows /\ Ended(r, "pending").state = "pending"
      /\ Ended(r, "pending").lease_owner = NoOne
      /\ Ended(r, "pending").attempts = r.attempts
  BY EndedRow
<1> QED
  BY <1>1 DEF Rows, Requeued

(* A deferral refunds one attempt, which a counted lease has.                  *)
LEMMA DeferredRow ==
    ASSUME NEW r \in Rows, r.attempts >= 1
    PROVE  /\ Deferred(r) \in Rows /\ Deferred(r).state = "pending"
           /\ Deferred(r).lease_owner = NoOne
<1>1. r.attempts - 1 \in Nat
  BY DEF Rows
<1>2. Requeued(r) \in Rows /\ Requeued(r).state = "pending"
      /\ Requeued(r).lease_owner = NoOne /\ Requeued(r).attempts = r.attempts
  BY RequeuedRow
<1> QED
  BY <1>1, <1>2 DEF Rows, Deferred

(* A retry or a replay starts the row afresh.                                  *)
LEMMA RestartedRow ==
    ASSUME NEW r \in Rows
    PROVE  /\ Restarted(r) \in Rows /\ Restarted(r).state = "pending"
           /\ Restarted(r).lease_owner = NoOne
<1>1. Ended(r, "pending") \in Rows /\ Ended(r, "pending").state = "pending"
      /\ Ended(r, "pending").lease_owner = NoOne
  BY EndedRow
<1> QED
  BY <1>1 DEF Rows, Restarted

(* Time changes neither the state, nor the owner, nor the attempts.            *)
LEMMA TimedRow ==
    ASSUME NEW r \in Rows
    PROVE  \A t \in {Due(r), Lapsed(r)} :
             /\ t \in Rows /\ t.state = r.state
             /\ t.lease_owner = r.lease_owner /\ t.attempts = r.attempts
  BY DEF Rows, Due, Lapsed

LEMMA FreshRows ==
    /\ NoRow \in Rows /\ NoRow.state = "absent"
    /\ Published \in Rows /\ Published.state = "pending"
    /\ Published.lease_owner = NoOne
  BY DEF Rows, States, Settled, NoRow, Published

(* One row is written and the others stay.                                     *)
RowWrite(c, p, r) ==
    \A d \in Consumers, q \in Positions :
        delivery'[d][q] = IF d = c /\ q = p THEN r ELSE delivery[d][q]

LEMMA WritesOneRow ==
    ASSUME delivery \in [Consumers -> [Positions -> Rows]],
           NEW c \in Consumers, NEW p \in Positions, NEW r \in Rows,
           delivery' = [delivery EXCEPT ![c][p] = r]
    PROVE  /\ delivery' \in [Consumers -> [Positions -> Rows]]
           /\ RowWrite(c, p, r)
  BY DEF RowWrite

(* A worker that moves on keeps its lease; one that leaves has none.           *)
LEMMA WorkerMoves ==
    ASSUME worker \in [Workers -> Leases], NEW w \in Workers, NEW place \in Places,
           Goto(w, place)
    PROVE  /\ worker' \in [Workers -> Leases]
           /\ worker'[w].at = place
           /\ worker'[w].consumer = worker[w].consumer
           /\ worker'[w].position = worker[w].position
           /\ worker'[w].attempts = worker[w].attempts
           /\ \A v \in Workers : v # w => worker'[v] = worker[v]
  BY DEF Goto, Leases

LEMMA WorkerLeaves ==
    ASSUME worker \in [Workers -> Leases], NEW w \in Workers, Leave(w)
    PROVE  /\ worker' \in [Workers -> Leases] /\ worker'[w].at = "idle"
           /\ \A v \in Workers : v # w => worker'[v] = worker[v]
  BY DEF Leave, Idle, Leases, Places
-----------------------------------------------------------------------------
(* The shapes of a worker's step.                                              *)

Rowset == [Consumers -> [Positions -> Rows]]

(* The worker writes the row it holds to a state that is not a lease.          *)
WritesOwnRow(w, states) ==
    \E r \in Rows :
        /\ Held(w) /\ r.state \in states /\ r.lease_owner = NoOne
        /\ RowWrite(worker[w].consumer, worker[w].position, r)

(* The worker stays with its lease, within the budget, or goes idle; the       *)
(* others stay where they are.  It may learn that the delivery was processed   *)
(* before, or that its event is gone, and then it has written nothing.         *)
StaysOrLeaves(w) ==
    /\ worker' \in [Workers -> Leases]
    /\ \A v \in Workers : v # w => worker'[v] = worker[v]
    /\ \/ worker'[w].at = "idle"
       \/ /\ worker'[w].consumer = worker[w].consumer
          /\ worker'[w].position = worker[w].position
          /\ worker'[w].attempts = worker[w].attempts
          /\ worker[w].attempts <= MaxAttempts
          /\ \/ worker'[w].at \notin {"known", "missing"}
             \/ /\ delivery' = delivery
                /\ \/ worker[w].position \in ledger[worker[w].consumer]
                   \/ outbox[worker[w].position] # "retained"

Commits(w) ==
    /\ worker[w].at = "handler" /\ worker[w].position \notin ledger[worker[w].consumer]
    /\ WritesOwnRow(w, {"delivered"})
    /\ ledger' = [ledger EXCEPT ![worker[w].consumer] = @ \cup {worker[w].position}]
    /\ applied' = [applied EXCEPT ![worker[w].consumer][worker[w].position] = @ + 1]

WorkerStepShape(w) ==
    /\ delivery' \in Rowset /\ StaysOrLeaves(w)
    /\ UNCHANGED <<outbox, fanout, enabled, swept, sweep, package, schema, faults, acts>>
    /\ \/ UNCHANGED <<delivery, ledger, applied>>
       \/ WritesOwnRow(w, {"pending", "failed"}) /\ UNCHANGED <<ledger, applied>>
       \/ /\ worker[w].at = "known" /\ WritesOwnRow(w, {"delivered"})
          /\ UNCHANGED <<ledger, applied>>
       \/ Commits(w)

(* A predicated write touches at most the row its worker holds.                *)
LEMMA HeldWrite ==
    ASSUME TypeInv, NEW w \in Workers, worker[w].at # "idle",
           NEW r, Held(w) => r \in Rows, r.lease_owner = NoOne,
           NEW states, r.state \in states, WriteIfHeld(w, r)
    PROVE  /\ delivery' \in Rowset
           /\ delivery' = delivery \/ WritesOwnRow(w, states)
<1> DEFINE c == worker[w].consumer
           p == worker[w].position
<1>1. c \in Consumers /\ p \in Positions /\ delivery \in Rowset
  BY DEF TypeInv, TypeOK, BusyOnADelivery, Rowset
<1>2. CASE ~Held(w)
  <2>1. delivery' = delivery
    BY <1>2 DEF WriteIfHeld
  <2> QED
    BY <1>1, <2>1
<1>3. CASE Held(w)
  <2>1. delivery' = [delivery EXCEPT ![c][p] = r] /\ r \in Rows
    BY <1>3 DEF WriteIfHeld
  <2> HIDE DEF c, p
  <2>2. delivery' \in Rowset /\ RowWrite(c, p, r)
    BY <1>1, <2>1, WritesOneRow DEF Rowset
  <2> QED
    BY <1>3, <2>1, <2>2 DEF WritesOwnRow, c, p
<1> QED
  BY <1>2, <1>3

LEMMA HeldRowIsARow ==
    ASSUME TypeInv, NEW w \in Workers, worker[w].at # "idle"
    PROVE  HeldRow(w) \in Rows /\ (Held(w) => HeldRow(w).attempts >= 1)
<1>1. worker[w].consumer \in Consumers /\ worker[w].position \in Positions
  BY DEF TypeInv, BusyOnADelivery
<1> QED
  BY <1>1 DEF TypeInv, TypeOK, LeaseCounted, HeldRow, Held

(* A deferral refunds an attempt only through the row the worker holds.        *)
LEMMA DeferWrite ==
    ASSUME TypeInv, NEW w \in Workers, worker[w].at # "idle",
           WriteIfHeld(w, Deferred(HeldRow(w)))
    PROVE  /\ delivery' \in Rowset
           /\ delivery' = delivery \/ WritesOwnRow(w, {"pending", "failed"})
<1>1. CASE ~Held(w)
  <2>1. delivery' = delivery
    BY <1>1 DEF WriteIfHeld
  <2> QED
    BY <2>1 DEF TypeInv, TypeOK, Rowset
<1>2. CASE Held(w)
  <2>1. /\ Deferred(HeldRow(w)) \in Rows /\ Deferred(HeldRow(w)).state = "pending"
        /\ Deferred(HeldRow(w)).lease_owner = NoOne
    BY <1>2, HeldRowIsARow, DeferredRow
  <2> QED
    BY <2>1, HeldWrite
<1> QED
  BY <1>1, <1>2

LEMMA LeavingIsAShape ==
    ASSUME TypeInv, NEW w \in Workers, Leave(w)
    PROVE  StaysOrLeaves(w)
<1>1. worker \in [Workers -> Leases]
  BY DEF TypeInv, TypeOK
<1> QED
  BY <1>1, WorkerLeaves DEF StaysOrLeaves

LEMMA MovingIsAShape ==
    ASSUME TypeInv, NEW w \in Workers, worker[w].attempts <= MaxAttempts,
           NEW place \in Places \ {"known", "missing"}, Goto(w, place)
    PROVE  StaysOrLeaves(w)
<1>1. worker \in [Workers -> Leases]
  BY DEF TypeInv, TypeOK
<1> QED
  BY <1>1, WorkerMoves DEF StaysOrLeaves

(* Every step of a worker has one of the shapes.                               *)
LEMMA WorkerStepHasShape ==
    ASSUME TypeInv, NEW w \in Workers, WorkerStep(w)
    PROVE  WorkerStepShape(w)
<1> USE DeliveriesAssumption
<1>0. delivery \in Rowset /\ worker \in [Workers -> Leases]
  BY DEF TypeInv, TypeOK, Rowset
<1>a. worker[w].at # "idle" => HeldRow(w) \in Rows /\ (Held(w) => HeldRow(w).attempts >= 1)
  BY HeldRowIsARow
<1>b. worker[w].at \notin {"idle", "gate"} => worker[w].attempts <= MaxAttempts
  BY DEF TypeInv, BusyOnADelivery
<1>1. CASE RunLeasedDelivery(w)
  <2>1. worker[w].at # "idle" /\ UNCHANGED <<ledger, applied>>
    BY <1>1 DEF RunLeasedDelivery
  <2>2. UNCHANGED <<outbox, fanout, enabled, swept, sweep, package, schema, faults, acts>>
    BY <1>1 DEF RunLeasedDelivery, outboxVars, rolloutVars
  <2>3. CASE Exhausted(worker[w])
    <3>1. WriteIfHeld(w, Ended(HeldRow(w), "failed")) /\ Leave(w)
      BY <1>1, <2>3 DEF RunLeasedDelivery
    <3>2. Ended(HeldRow(w), "failed") \in Rows /\ Ended(HeldRow(w), "failed").state = "failed"
          /\ Ended(HeldRow(w), "failed").lease_owner = NoOne
      BY <1>a, <2>1, EndedRow
    <3>3. delivery' \in Rowset /\ (delivery' = delivery \/ WritesOwnRow(w, {"pending", "failed"}))
      BY <2>1, <3>1, <3>2, HeldWrite
    <3> QED
      BY <2>1, <2>2, <3>1, <3>3, LeavingIsAShape DEF WorkerStepShape
  <2>4. CASE ~Exhausted(worker[w])
    <3>1. PICK place \in {"reject", "start"} : Goto(w, place)
      BY <1>1, <2>4 DEF RunLeasedDelivery
    <3>2. delivery' = delivery
      BY <1>1, <2>4 DEF RunLeasedDelivery
    <3>3. worker[w].attempts <= MaxAttempts
      <4>1. worker[w].attempts \in Nat
        BY <1>0 DEF Leases
      <4> QED
        BY <2>4, <4>1 DEF Exhausted
    <3>4. place \in Places \ {"known", "missing"}
      BY DEF Places
    <3> QED
      BY <1>0, <2>1, <2>2, <3>1, <3>2, <3>3, <3>4, MovingIsAShape DEF WorkerStepShape
  <2> QED
    BY <2>3, <2>4
<1>2. CASE FailUnlessUnready(w)
  <2>1. worker[w].at = "reject" /\ UNCHANGED <<ledger, applied>> /\ Leave(w)
    BY <1>2 DEF FailUnlessUnready
  <2>2. UNCHANGED <<outbox, fanout, enabled, swept, sweep, package, schema, faults, acts>>
    BY <1>2 DEF FailUnlessUnready, outboxVars, rolloutVars
  <2>3. delivery' \in Rowset /\ (delivery' = delivery \/ WritesOwnRow(w, {"pending", "failed"}))
    <3>1. CASE Ready(w)
      <4>1. WriteIfHeld(w, Ended(HeldRow(w), "failed"))
        BY <1>2, <3>1 DEF FailUnlessUnready
      <4>2. Ended(HeldRow(w), "failed") \in Rows /\ Ended(HeldRow(w), "failed").state = "failed"
            /\ Ended(HeldRow(w), "failed").lease_owner = NoOne
        BY <1>a, <2>1, EndedRow
      <4> QED
        BY <2>1, <4>1, <4>2, HeldWrite
    <3>2. CASE ~Ready(w)
      <4>1. WriteIfHeld(w, Deferred(HeldRow(w)))
        BY <1>2, <3>2 DEF FailUnlessUnready
      <4> QED
        BY <1>0, <1>a, <2>1, <4>1, DeferWrite
    <3> QED
      BY <3>1, <3>2
  <2> QED
    BY <2>1, <2>2, <2>3, LeavingIsAShape DEF WorkerStepShape
<1>3. CASE EnterConsumer(w)
  <2>1. worker[w].at = "start" /\ UNCHANGED <<delivery, ledger, applied>>
    BY <1>3 DEF EnterConsumer
  <2>2. UNCHANGED <<outbox, fanout, enabled, swept, sweep, package, schema, faults, acts>>
    BY <1>3 DEF EnterConsumer, outboxVars, rolloutVars
  <2>3. \/ Goto(w, "known") /\ worker[w].position \in ledger[worker[w].consumer]
        \/ Goto(w, "missing") /\ outbox[worker[w].position] # "retained"
        \/ Goto(w, "unready") \/ Goto(w, "handler")
    BY <1>3 DEF EnterConsumer
  <2>4. StaysOrLeaves(w)
    <3>1. CASE Goto(w, "unready")
      BY <1>b, <2>1, <3>1, MovingIsAShape DEF Places
    <3>2. CASE Goto(w, "handler")
      BY <1>b, <2>1, <3>2, MovingIsAShape DEF Places
    <3>3. CASE Goto(w, "known") /\ worker[w].position \in ledger[worker[w].consumer]
      BY <1>0, <1>b, <2>1, <3>3, WorkerMoves DEF StaysOrLeaves, Places
    <3>4. CASE Goto(w, "missing") /\ outbox[worker[w].position] # "retained"
      BY <1>0, <1>b, <2>1, <3>4, WorkerMoves DEF StaysOrLeaves, Places
    <3> QED
      BY <2>3, <3>1, <3>2, <3>3, <3>4
  <2> QED
    BY <1>0, <2>1, <2>2, <2>4 DEF WorkerStepShape
<1>4. CASE MarkKnown(w)
  <2>1. worker[w].at = "known" /\ UNCHANGED <<ledger, applied>> /\ Leave(w)
        /\ WriteIfHeld(w, Ended(HeldRow(w), "delivered"))
    BY <1>4 DEF MarkKnown
  <2>2. UNCHANGED <<outbox, fanout, enabled, swept, sweep, package, schema, faults, acts>>
    BY <1>4 DEF MarkKnown, outboxVars, rolloutVars
  <2>3. Ended(HeldRow(w), "delivered") \in Rows /\ Ended(HeldRow(w), "delivered").state = "delivered"
        /\ Ended(HeldRow(w), "delivered").lease_owner = NoOne
    BY <1>a, <2>1, EndedRow
  <2>4. delivery' \in Rowset /\ (delivery' = delivery \/ WritesOwnRow(w, {"delivered"}))
    BY <2>1, <2>3, HeldWrite
  <2> QED
    BY <2>1, <2>2, <2>4, LeavingIsAShape DEF WorkerStepShape
<1>5. CASE ConsumerReturns(w)
  <2>1. worker[w].at = "handler"
    BY <1>5 DEF ConsumerReturns
  <2>2. UNCHANGED <<outbox, fanout, enabled, swept, sweep, package, schema, faults, acts>>
    BY <1>5 DEF ConsumerReturns, outboxVars, rolloutVars
  <2>3. CASE worker[w].position \in ledger[worker[w].consumer]
    <3>1. Goto(w, "raised") /\ UNCHANGED <<delivery, ledger, applied>>
      BY <1>5, <2>3 DEF ConsumerReturns
    <3> QED
      BY <1>0, <1>b, <2>1, <2>2, <3>1, MovingIsAShape DEF WorkerStepShape, Places
  <2>4. CASE worker[w].position \notin ledger[worker[w].consumer]
    <3>1. Leave(w) /\ WriteIfHeld(w, Ended(HeldRow(w), "delivered"))
      BY <1>5, <2>4 DEF ConsumerReturns
    <3>2. Ended(HeldRow(w), "delivered") \in Rows /\ Ended(HeldRow(w), "delivered").state = "delivered"
          /\ Ended(HeldRow(w), "delivered").lease_owner = NoOne
      BY <1>a, <2>1, EndedRow
    <3>3. CASE ~Held(w)
      <4>1. delivery' = delivery
        BY <3>1, <3>3 DEF WriteIfHeld
      <4>2. UNCHANGED <<ledger, applied>>
        BY <1>5, <2>4, <3>3 DEF ConsumerReturns
      <4> QED
        BY <1>0, <2>2, <3>1, <4>1, <4>2, LeavingIsAShape DEF WorkerStepShape
    <3>4. CASE Held(w)
      <4>1. delivery' \in Rowset /\ (delivery' = delivery \/ WritesOwnRow(w, {"delivered"}))
        BY <2>1, <3>1, <3>2, HeldWrite
      <4>2. delivery' # delivery
        <5>1. worker[w].consumer \in Consumers /\ worker[w].position \in Positions
          BY <2>1 DEF TypeInv, BusyOnADelivery
        <5>2. delivery' = [delivery EXCEPT ![worker[w].consumer][worker[w].position]
                                              = Ended(HeldRow(w), "delivered")]
          BY <3>1, <3>4 DEF WriteIfHeld
        <5>3. delivery'[worker[w].consumer][worker[w].position] = Ended(HeldRow(w), "delivered")
          BY <1>0, <5>1, <5>2 DEF Rowset
        <5> QED
          BY <3>2, <3>4, <5>3 DEF Held
      <4>3. /\ ledger' = [ledger EXCEPT ![worker[w].consumer] = @ \cup {worker[w].position}]
            /\ applied' = [applied EXCEPT ![worker[w].consumer][worker[w].position] = @ + 1]
        BY <1>5, <2>4, <3>4 DEF ConsumerReturns
      <4> QED
        BY <2>1, <2>2, <2>4, <3>1, <4>1, <4>2, <4>3, LeavingIsAShape DEF WorkerStepShape, Commits
    <3> QED
      BY <3>3, <3>4
  <2> QED
    BY <2>3, <2>4
<1>6. CASE ConsumerRaises(w) \/ ContextRefused(w)
  <2>1. worker[w].at \in {"handler", "start"} /\ Goto(w, "raised") /\ UNCHANGED <<delivery, ledger, applied>>
    BY <1>6 DEF ConsumerRaises, ContextRefused
  <2>2. UNCHANGED <<outbox, fanout, enabled, swept, sweep, package, schema, faults, acts>>
    BY <1>6 DEF ConsumerRaises, ContextRefused, outboxVars, rolloutVars
  <2> QED
    BY <1>0, <1>b, <2>1, <2>2, MovingIsAShape DEF WorkerStepShape, Places
<1>7. CASE WriteDeliveryFailure(w)
  <2>1. worker[w].at = "raised" /\ UNCHANGED <<ledger, applied>> /\ Leave(w)
    BY <1>7 DEF WriteDeliveryFailure
  <2>2. UNCHANGED <<outbox, fanout, enabled, swept, sweep, package, schema, faults, acts>>
    BY <1>7 DEF WriteDeliveryFailure, outboxVars, rolloutVars
  <2>3. PICK r \in {Ended(HeldRow(w), "failed"), Requeued(HeldRow(w))} : WriteIfHeld(w, r)
    BY <1>7 DEF WriteDeliveryFailure
  <2>4. r \in Rows /\ r.state \in {"pending", "failed"} /\ r.lease_owner = NoOne
    BY <1>a, <2>1, EndedRow, RequeuedRow
  <2>5. delivery' \in Rowset /\ (delivery' = delivery \/ WritesOwnRow(w, {"pending", "failed"}))
    BY <2>1, <2>3, <2>4, HeldWrite
  <2> QED
    BY <2>1, <2>2, <2>5, LeavingIsAShape DEF WorkerStepShape
<1>8. CASE FailMissing(w)
  <2>1. worker[w].at = "missing" /\ UNCHANGED <<ledger, applied>> /\ Leave(w)
        /\ WriteIfHeld(w, Ended(HeldRow(w), "failed"))
    BY <1>8 DEF FailMissing
  <2>2. UNCHANGED <<outbox, fanout, enabled, swept, sweep, package, schema, faults, acts>>
    BY <1>8 DEF FailMissing, outboxVars, rolloutVars
  <2>3. Ended(HeldRow(w), "failed") \in Rows /\ Ended(HeldRow(w), "failed").state = "failed"
        /\ Ended(HeldRow(w), "failed").lease_owner = NoOne
    BY <1>a, <2>1, EndedRow
  <2>4. delivery' \in Rowset /\ (delivery' = delivery \/ WritesOwnRow(w, {"pending", "failed"}))
    BY <2>1, <2>3, HeldWrite
  <2> QED
    BY <2>1, <2>2, <2>4, LeavingIsAShape DEF WorkerStepShape
<1>9. CASE DeferUnready(w)
  <2>1. worker[w].at = "unready" /\ UNCHANGED <<ledger, applied>> /\ Leave(w)
        /\ WriteIfHeld(w, Deferred(HeldRow(w)))
    BY <1>9 DEF DeferUnready
  <2>2. UNCHANGED <<outbox, fanout, enabled, swept, sweep, package, schema, faults, acts>>
    BY <1>9 DEF DeferUnready, outboxVars, rolloutVars
  <2>3. delivery' \in Rowset /\ (delivery' = delivery \/ WritesOwnRow(w, {"pending", "failed"}))
    BY <1>0, <1>a, <2>1, DeferWrite
  <2> QED
    BY <2>1, <2>2, <2>3, LeavingIsAShape DEF WorkerStepShape
<1> QED
  BY <1>1, <1>2, <1>3, <1>4, <1>5, <1>6, <1>7, <1>8, <1>9 DEF WorkerStep
-----------------------------------------------------------------------------
(* Type correctness.                                                           *)

(* A step that moves no worker and writes rows of the right type.              *)
LEMMA TypesOfWorkers ==
    ASSUME TypeInv, NEW w \in Workers, StaysOrLeaves(w), worker[w].at # "idle"
    PROVE  worker' \in [Workers -> Leases] /\ BusyOnADelivery'
<1>1. worker[w].consumer \in Consumers /\ worker[w].position \in Positions
  BY DEF TypeInv, BusyOnADelivery
<1>2. ASSUME NEW v \in Workers, worker'[v].at # "idle"
      PROVE  /\ worker'[v].consumer \in Consumers /\ worker'[v].position \in Positions
             /\ worker'[v].at # "gate" => worker'[v].attempts <= MaxAttempts
  <2>1. CASE v = w
    BY <1>1, <1>2, <2>1 DEF StaysOrLeaves
  <2>2. CASE v # w
    BY <1>2, <2>2 DEF StaysOrLeaves, TypeInv, BusyOnADelivery
  <2> QED
    BY <2>1, <2>2
<1> QED
  BY <1>2 DEF StaysOrLeaves, BusyOnADelivery

LEMMA InitTypes == Init => TypeInv
<1> USE DeliveriesAssumption
<1> SUFFICES ASSUME Init PROVE TypeInv
  OBVIOUS
<1>1. Idle \in Leases
  BY DEF Idle, Leases, Places
<1>2. TypeOK
  <2>1. outbox \in [Positions -> {"unused", "open", "retained", "void", "purged"}]
    BY DEF Init
  <2>2. delivery \in [Consumers -> [Positions -> Rows]]
    BY FreshRows DEF Init
  <2>3. worker \in [Workers -> Leases]
    BY <1>1 DEF Init
  <2>4. sweep \in [running : BOOLEAN, candidates : SUBSET Positions]
    BY DEF Init, NoSweep
  <2>5. applied \in [Consumers -> [Positions -> Nat]]
    BY DEF Init
  <2> QED
    BY <2>1, <2>2, <2>3, <2>4, <2>5 DEF Init, TypeOK, Versions
<1>3. BusyOnADelivery
  BY DEF Init, BusyOnADelivery, Idle
<1>4. LeaseCounted
  BY FreshRows DEF Init, LeaseCounted
<1> QED
  BY <1>2, <1>3, <1>4 DEF TypeInv

(* Every action preserves the types.                                           *)
LEMMA StepTypes == TypeInv /\ [Next]_vars => TypeInv'
<1> USE DeliveriesAssumption
<1> SUFFICES ASSUME TypeInv, [Next]_vars PROVE TypeInv'
  OBVIOUS
<1>0. TypeOK /\ BusyOnADelivery /\ LeaseCounted
  BY DEF TypeInv
<1>a. /\ delivery \in [Consumers -> [Positions -> Rows]]
      /\ worker \in [Workers -> Leases]
      /\ sweep \in [running : BOOLEAN, candidates : SUBSET Positions]
  BY <1>0 DEF TypeOK
<1>1. CASE UNCHANGED vars
  BY <1>0, <1>1 DEF TypeInv, TypeOK, BusyOnADelivery, LeaseCounted, vars
<1>2. ASSUME NEW p \in Positions, Publish(p) PROVE TypeInv'
  <2>1. TypeOK'
    BY <1>0, <1>2 DEF TypeOK, Publish
  <2> QED
    BY <1>0, <1>2, <2>1 DEF TypeInv, Publish, BusyOnADelivery, LeaseCounted
<1>3. ASSUME NEW p \in Positions, CommitPublish(p) PROVE TypeInv'
  <2>1. \A c \in Consumers, q \in Positions :
            delivery'[c][q] = delivery[c][q] \/ delivery'[c][q] = Published
    BY <1>a, <1>3 DEF CommitPublish
  <2>2. delivery' \in [Consumers -> [Positions -> Rows]]
    BY <1>a, <1>3, FreshRows DEF CommitPublish
  <2>3. LeaseCounted'
    BY <1>0, <1>a, <2>1, FreshRows DEF LeaseCounted
  <2>4. TypeOK'
    BY <1>0, <1>3, <2>2 DEF TypeOK, CommitPublish
  <2> QED
    BY <1>0, <1>3, <2>3, <2>4 DEF TypeInv, CommitPublish, BusyOnADelivery
<1>4. ASSUME NEW p \in Positions, RollbackPublish(p) PROVE TypeInv'
  <2>1. TypeOK'
    BY <1>0, <1>4 DEF TypeOK, RollbackPublish
  <2> QED
    BY <1>0, <1>4, <2>1 DEF TypeInv, RollbackPublish, BusyOnADelivery, LeaseCounted
<1>5. ASSUME NEW c \in Consumers, SetModuleState(c) PROVE TypeInv'
  <2>1. TypeOK'
    BY <1>0, <1>5 DEF TypeOK, SetModuleState
  <2> QED
    BY <1>0, <1>5, <2>1 DEF TypeInv, SetModuleState, BusyOnADelivery, LeaseCounted
<1>6. ASSUME NEW c \in Consumers, NEW p \in Positions, NEW r \in Rows,
             delivery' = [delivery EXCEPT ![c][p] = r],
             r.state = "leased" => r.attempts >= 1,
             UNCHANGED <<ledger, applied, outbox, fanout, enabled, swept, sweep, package, schema>>,
             worker' \in [Workers -> Leases], BusyOnADelivery',
             faults' \in 0..MaxFaults, acts' \in 0..MaxActs
      PROVE  TypeInv'
  <2>1. delivery' \in [Consumers -> [Positions -> Rows]] /\ RowWrite(c, p, r)
    BY <1>a, <1>6, WritesOneRow
  <2>2. LeaseCounted'
    BY <1>0, <1>6, <2>1 DEF LeaseCounted, RowWrite
  <2>3. TypeOK'
    BY <1>0, <1>6, <2>1 DEF TypeOK
  <2> QED
    BY <1>6, <2>2, <2>3 DEF TypeInv
<1>7. ASSUME NEW c \in Consumers, NEW p \in Positions, RetryDelivery(c, p) PROVE TypeInv'
  <2>1. Restarted(delivery[c][p]) \in Rows /\ Restarted(delivery[c][p]).state = "pending"
    BY <1>a, RestartedRow
  <2>2. worker' = worker /\ faults' = faults /\ acts' \in 0..MaxActs
        /\ delivery' = [delivery EXCEPT ![c][p] = Restarted(delivery[c][p])]
    BY <1>0, <1>7 DEF RetryDelivery, TypeOK
  <2>3. UNCHANGED <<ledger, applied, outbox, fanout, enabled, swept, sweep, package, schema>>
    BY <1>7 DEF RetryDelivery, outboxVars, rolloutVars
  <2> QED
    BY <1>0, <1>6, <2>1, <2>2, <2>3 DEF TypeOK, BusyOnADelivery
<1>8. ASSUME NEW c \in Consumers, NEW p \in Positions, SkipDelivery(c, p) PROVE TypeInv'
  <2>1. Ended(delivery[c][p], "skipped") \in Rows /\ Ended(delivery[c][p], "skipped").state = "skipped"
    BY <1>a, EndedRow
  <2>2. delivery' = [delivery EXCEPT ![c][p] = Ended(delivery[c][p], "skipped")]
    BY <1>8 DEF SkipDelivery
  <2>3. /\ UNCHANGED <<ledger, applied, outbox, fanout, enabled, swept, sweep, package, schema>>
        /\ worker' = worker /\ faults' = faults /\ acts' = acts
    BY <1>8 DEF SkipDelivery, outboxVars, rolloutVars
  <2> QED
    BY <1>0, <1>6, <2>1, <2>2, <2>3 DEF TypeOK, BusyOnADelivery
<1>9. ASSUME NEW c \in Consumers, NEW p \in Positions, Replay(c, p) PROVE TypeInv'
  <2>1. \A q \in Positions : Restarted(delivery[c][q]) \in Rows
                            /\ Restarted(delivery[c][q]).state = "pending"
    BY <1>a, RestartedRow
  <2>2. delivery' = [delivery EXCEPT ![c] =
          [q \in Positions |-> IF q \in Replayed(c, p) /\ delivery[c][q].state # "pending"
                               THEN Restarted(delivery[c][q]) ELSE delivery[c][q]]]
    BY <1>9 DEF Replay, ReplayDeliveries
  <2>3. delivery' \in [Consumers -> [Positions -> Rows]]
    BY <1>a, <2>1, <2>2
  <2>4. \A d \in Consumers, q \in Positions :
          delivery'[d][q] = delivery[d][q] \/ delivery'[d][q].state = "pending"
    BY <1>a, <2>1, <2>2
  <2>5. LeaseCounted'
    BY <1>0, <2>4 DEF LeaseCounted
  <2>6. ledger' \in [Consumers -> SUBSET Positions]
    BY <1>0, <1>9 DEF Replay, ReplayDeliveries, TypeOK
  <2>7. applied' \in [Consumers -> [Positions -> Nat]]
    BY <1>0, <1>9 DEF Replay, TypeOK
  <2>8. acts' \in 0..MaxActs
    BY <1>0, <1>9 DEF Replay, TypeOK
  <2>9. UNCHANGED <<worker, faults, outbox, fanout, enabled, swept, sweep, package, schema>>
    BY <1>9 DEF Replay, outboxVars, rolloutVars
  <2>10. TypeOK'
    BY <1>0, <2>3, <2>6, <2>7, <2>8, <2>9 DEF TypeOK
  <2> QED
    BY <1>0, <2>5, <2>9, <2>10 DEF TypeInv, BusyOnADelivery
<1>10. ASSUME NEW c \in Consumers, NEW p \in Positions,
              BecomesDue(c, p) \/ LeaseLapses(c, p) \/ WorkerStalls(c, p)
       PROVE  TypeInv'
  <2>1. PICK r \in {Due(delivery[c][p]), Lapsed(delivery[c][p])} :
              delivery' = [delivery EXCEPT ![c][p] = r]
    BY <1>10 DEF BecomesDue, LeaseLapses, WorkerStalls
  <2>2. r \in Rows /\ r.state = delivery[c][p].state /\ r.attempts = delivery[c][p].attempts
    BY <1>a, TimedRow
  <2>3. /\ UNCHANGED <<ledger, applied, outbox, fanout, enabled, swept, sweep, package, schema>>
        /\ worker' = worker /\ faults' \in 0..MaxFaults /\ acts' = acts
    BY <1>0, <1>10 DEF BecomesDue, LeaseLapses, WorkerStalls, outboxVars, rolloutVars, TypeOK
  <2> QED
    BY <1>0, <1>6, <2>1, <2>2, <2>3 DEF TypeOK, BusyOnADelivery, LeaseCounted
<1>11. ASSUME NEW w \in Workers, NEW c \in Consumers, NEW p \in Positions, LeaseDelivery(w, c, p)
       PROVE  TypeInv'
  <2>1. Leased(delivery[c][p], w) \in Rows /\ Leased(delivery[c][p], w).attempts >= 1
    BY <1>a, LeasedRow
  <2>2. delivery' = [delivery EXCEPT ![c][p] = Leased(delivery[c][p], w)]
    BY <1>11 DEF LeaseDelivery
  <2>3. /\ UNCHANGED <<ledger, applied, outbox, fanout, enabled, swept, sweep, package, schema>>
        /\ faults' = faults /\ acts' = acts
    BY <1>11 DEF LeaseDelivery
  <2>4. delivery[c][p].attempts + 1 \in Nat /\ p \in Nat
    BY <1>a DEF Rows, Positions
  <2>5. worker' \in [Workers -> Leases]
    BY <1>a, <1>11, <2>4 DEF LeaseDelivery, Leases, Places
  <2>6. BusyOnADelivery'
    BY <1>0, <1>a, <1>11 DEF LeaseDelivery, BusyOnADelivery
  <2> QED
    BY <1>0, <1>6, <2>1, <2>2, <2>3, <2>5, <2>6 DEF TypeOK
<1>12. ASSUME NEW w \in Workers, WorkerStep(w) PROVE TypeInv'
  <2>1. WorkerStepShape(w)
    BY <1>12, WorkerStepHasShape
  <2>2. worker[w].at # "idle"
    BY <1>12 DEF WorkerStep, RunLeasedDelivery, FailUnlessUnready, EnterConsumer, ContextRefused, MarkKnown,
         ConsumerReturns, ConsumerRaises, WriteDeliveryFailure, FailMissing, DeferUnready
  <2>3. worker' \in [Workers -> Leases] /\ BusyOnADelivery'
    BY <2>1, <2>2, TypesOfWorkers DEF WorkerStepShape
  <2>4. delivery' \in [Consumers -> [Positions -> Rows]]
        /\ UNCHANGED <<outbox, fanout, enabled, swept, sweep, package, schema, faults, acts>>
    BY <2>1 DEF WorkerStepShape, Rowset
  <2>5. \/ delivery' = delivery
        \/ WritesOwnRow(w, {"pending", "failed"}) \/ WritesOwnRow(w, {"delivered"})
    BY <2>1 DEF WorkerStepShape, Commits
  <2>6. LeaseCounted'
    <3>1. CASE delivery' = delivery
      BY <1>0, <3>1 DEF LeaseCounted
    <3>2. CASE WritesOwnRow(w, {"pending", "failed"}) \/ WritesOwnRow(w, {"delivered"})
      <4>1. PICK r \in Rows : r.state # "leased"
                            /\ RowWrite(worker[w].consumer, worker[w].position, r)
        BY <3>2 DEF WritesOwnRow
      <4> QED
        BY <1>0, <4>1 DEF LeaseCounted, RowWrite
    <3> QED
      BY <2>5, <3>1, <3>2
  <2>7. ledger' \in [Consumers -> SUBSET Positions] /\ applied' \in [Consumers -> [Positions -> Nat]]
    <3>1. CASE UNCHANGED <<ledger, applied>>
      BY <1>0, <3>1 DEF TypeOK
    <3>2. CASE Commits(w)
      <4>1. worker[w].consumer \in Consumers /\ worker[w].position \in Positions
        BY <1>0, <2>2 DEF BusyOnADelivery
      <4>2. applied[worker[w].consumer][worker[w].position] + 1 \in Nat
        BY <1>0, <4>1 DEF TypeOK
      <4> QED
        BY <1>0, <3>2, <4>1, <4>2 DEF Commits, TypeOK
    <3> QED
      BY <2>1, <3>1, <3>2 DEF WorkerStepShape
  <2>8. TypeOK'
    BY <1>0, <2>3, <2>4, <2>7 DEF TypeOK
  <2> QED
    BY <2>3, <2>6, <2>8 DEF TypeInv
<1>13. ASSUME NEW w \in Workers, Crash(w) PROVE TypeInv'
  <2>1. Leave(w) /\ worker[w].at # "idle"
    BY <1>13 DEF Crash
  <2>2. worker' \in [Workers -> Leases] /\ BusyOnADelivery'
    BY <2>1, LeavingIsAShape, TypesOfWorkers
  <2>3. /\ UNCHANGED <<delivery, ledger, applied, outbox, fanout, enabled, swept, sweep, package, schema, acts>>
        /\ faults' \in 0..MaxFaults
    BY <1>0, <1>13 DEF Crash, outboxVars, rolloutVars, TypeOK
  <2> QED
    BY <1>0, <2>2, <2>3 DEF TypeInv, TypeOK, LeaseCounted
<1>14. ASSUME NEW w \in Workers, Deploy(w) PROVE TypeInv'
  <2>1. Leave(w)
    BY <1>14 DEF Deploy
  <2>2. worker' \in [Workers -> Leases] /\ worker'[w].at = "idle"
        /\ \A v \in Workers : v # w => worker'[v] = worker[v]
    BY <1>a, <2>1, WorkerLeaves
  <2>3. BusyOnADelivery'
    BY <1>0, <2>2 DEF BusyOnADelivery
  <2>4. UNCHANGED <<delivery, ledger, applied, outbox, fanout, enabled, swept, sweep, schema, acts, faults>>
    BY <1>14 DEF Deploy, outboxVars
  <2>5. package' \in [Workers -> Versions]
    BY <1>0, <1>14 DEF Deploy, TypeOK, Versions
  <2> QED
    BY <1>0, <2>2, <2>3, <2>4, <2>5 DEF TypeInv, TypeOK, LeaseCounted
<1>15. ASSUME NEW old \in SUBSET Positions, BeginSweep(old) PROVE TypeInv'
  <2>1. sweep' \in [running : BOOLEAN, candidates : SUBSET Positions]
    BY <1>15 DEF BeginSweep
  <2> QED
    BY <1>0, <1>15, <2>1 DEF TypeInv, TypeOK, BeginSweep, BusyOnADelivery, LeaseCounted
<1>16. CASE PurgeOutbox
  <2>1. \A c \in Consumers, q \in Positions : Remaining(c, q) \in Rows
            /\ (Remaining(c, q).state = "leased" => Remaining(c, q) = delivery[c][q])
    BY <1>a, FreshRows DEF Remaining
  <2>2. delivery' = [c \in Consumers |-> [q \in Positions |-> Remaining(c, q)]]
    BY <1>16 DEF PurgeOutbox
  <2>3. delivery' \in [Consumers -> [Positions -> Rows]]
    BY <2>1, <2>2
  <2>4. LeaseCounted'
    BY <1>0, <2>1, <2>2 DEF LeaseCounted
  <2>5. outbox' \in [Positions -> {"unused", "open", "retained", "void", "purged"}]
    BY <1>0, <1>16 DEF PurgeOutbox, TypeOK
  <2>6. ledger' \in [Consumers -> SUBSET Positions]
    BY <1>0, <1>16 DEF PurgeOutbox, TypeOK
  <2>7. swept' \in 0..MaxPosition
    <3>1. Gone \subseteq Positions
      BY <1>a DEF Gone
    <3>2. PICK high \in Gone \cup {swept} : swept' = high
      BY <1>16 DEF PurgeOutbox, SweptThrough
    <3> QED
      BY <1>0, <3>1, <3>2 DEF TypeOK, Positions
  <2>8. sweep' \in [running : BOOLEAN, candidates : SUBSET Positions]
    BY <1>16 DEF PurgeOutbox, NoSweep
  <2>9. UNCHANGED <<fanout, applied, worker, enabled, package, schema, faults, acts>>
    BY <1>16 DEF PurgeOutbox
  <2>10. TypeOK'
    BY <1>0, <2>3, <2>5, <2>6, <2>7, <2>8, <2>9 DEF TypeOK
  <2> QED
    BY <1>0, <2>4, <2>9, <2>10 DEF TypeInv, BusyOnADelivery
<1>17. CASE AbortSweep
  <2>1. sweep' \in [running : BOOLEAN, candidates : SUBSET Positions]
    BY <1>17 DEF AbortSweep, NoSweep
  <2> QED
    BY <1>0, <1>17, <2>1 DEF TypeInv, TypeOK, AbortSweep, BusyOnADelivery, LeaseCounted
<1>18. CASE UpgradeModule
  <2>1. UNCHANGED <<delivery, ledger, applied, outbox, fanout, enabled, swept, sweep, worker, package, acts, faults>>
        /\ schema' \in Versions
    BY <1>18 DEF UpgradeModule, outboxVars, Versions
  <2> QED
    BY <1>0, <2>1 DEF TypeInv, TypeOK, BusyOnADelivery, LeaseCounted
<1> QED
  BY <1>1, <1>2, <1>3, <1>4, <1>5, <1>7, <1>8, <1>9, <1>10, <1>11, <1>12, <1>13, <1>14, <1>15,
     <1>16, <1>17, <1>18 DEF Next

(* Type correctness of the outbox, the delivery rows, the ledger and the       *)
(* workers' leases, for any number of positions, consumers and workers: in     *)
(* particular a deferral never takes a row's attempts below zero, because it   *)
(* refunds only a lease that was counted.                                      *)
THEOREM DeliveriesTypeCorrect == Spec => []TypeOK
<1>1. TypeInv => TypeOK
  BY DEF TypeInv
<1> QED
  BY <1>1, InitTypes, StepTypes, PTL DEF Spec
-----------------------------------------------------------------------------
(* The inductive invariant behind the safety properties.                       *)

Unsettled(c, p) == delivery[c][p].state \in {"pending", "leased", "failed"}

(* A delivery has a retained event its consumer subscribes to.                 *)
RowsHaveEvents ==
    \A c \in Consumers, p \in Positions :
        delivery[c][p].state # "absent" => outbox[p] = "retained" /\ p \in Subscribed[c]

(* An open publish fans out to subscribers.                                    *)
FanoutSubscribes ==
    \A p \in Positions : \A c \in fanout[p] : p \in Subscribed[c]

(* Positions are drawn in order, and the publishes of one subject do not       *)
(* overlap: behind an open one nothing of its subject has been drawn.          *)
SequenceGrows ==
    \A p, q \in Positions :
        p < q => /\ outbox[p] = "unused" => outbox[q] = "unused"
                 /\ outbox[p] = "open" /\ SubjectOf[p] = SubjectOf[q]
                       => outbox[q] = "unused"

(* The ledger lists the delivered events, and those whose effects are in.      *)
LedgerTrue ==
    \A c \in Consumers, p \in Positions :
        p \in ledger[c] <=> delivery[c][p].state = "delivered"

AppliedTrue ==
    \A c \in Consumers, p \in Positions :
        /\ applied[c][p] \in {0, 1}
        /\ outbox[p] # "purged" => (applied[c][p] = 1 <=> p \in ledger[c])

(* What a sweep has found settled stays settled until it deletes it.           *)
SweepStable ==
    /\ ~sweep.running => sweep.candidates = {}
    /\ \A p \in sweep.candidates :
          /\ p \in Positions /\ outbox[p] = "retained"
          /\ \A c \in Consumers : ~Unsettled(c, p)

(* The horizon remembers every position that was ever swept.                   *)
SweptRemembered == \A p \in Positions : outbox[p] = "purged" => p <= swept

(* A worker that has learned that its delivery was processed before, or that   *)
(* its event is gone, has lost its lease.                                      *)
LostLease ==
    \A w \in Workers : worker[w].at \in {"known", "missing"} => ~Held(w)

RowInv == /\ OrderKept /\ RowsHaveEvents /\ FanoutSubscribes /\ SequenceGrows
          /\ LedgerTrue /\ AppliedTrue /\ SweepStable /\ SweptRemembered

SafetyInv == RowInv /\ LostLease

(* The outbox and the bookkeeping of publishes and sweeps stay as they are.    *)
OutboxSame == UNCHANGED <<outbox, fanout, swept, sweep>>

(* RowInv depends on the rows only through their states.                       *)
LEMMA QuietStep ==
    ASSUME TypeInv, RowInv, OutboxSame, UNCHANGED <<ledger, applied, delivery>>
    PROVE  RowInv'
  BY DEF RowInv, OutboxSame, OrderKept, RowsHaveEvents, FanoutSubscribes, SequenceGrows,
         LedgerTrue, AppliedTrue, SweepStable, SweptRemembered, Unsettled

(* One unsettled row is written.  It is not delivered by the write, and it is  *)
(* leased or failed only if it was before or if nothing blocks it.             *)
LEMMA RowStep ==
    ASSUME TypeInv, RowInv, OutboxSame, UNCHANGED <<ledger, applied>>,
           NEW c \in Consumers, NEW p \in Positions, NEW r \in Rows, RowWrite(c, p, r),
           Unsettled(c, p), r.state \in {"pending", "leased", "failed", "skipped"},
           r.state \in {"leased", "failed"}
              => delivery[c][p].state \in {"leased", "failed"} \/ ~Blocked(c, p)
    PROVE  RowInv'
<1> USE DeliveriesAssumption
<1>0. \A d \in Consumers, q \in Positions : delivery[d][q].state \in States
  BY DEF TypeInv, TypeOK, Rows
<1>1. OrderKept'
  <2> SUFFICES ASSUME NEW d \in Consumers, NEW a \in Positions, NEW b \in Positions,
                      b < a, SubjectOf[b] = SubjectOf[a],
                      delivery'[d][a].state \in {"leased", "failed", "delivered"}
               PROVE  delivery'[d][b].state \in Settled \cup {"absent"}
    BY DEF OrderKept
  <2>1. CASE d = c /\ a = p
    <3>1. delivery'[d][b] = delivery[d][b]
      BY <2>1 DEF RowWrite, Positions
    <3>2. CASE ~Blocked(c, p)
      BY <2>1, <3>1, <3>2 DEF Blocked
    <3>3. CASE delivery[c][p].state \in {"leased", "failed"}
      BY <2>1, <3>1, <3>3 DEF RowInv, OrderKept
    <3> QED
      BY <2>1, <3>2, <3>3 DEF RowWrite
  <2>2. CASE d = c /\ b = p /\ a # p
    <3>1. delivery[d][a].state \in {"leased", "failed", "delivered"}
      BY <2>2 DEF RowWrite
    <3>2. delivery[d][b].state \in Settled \cup {"absent"}
      BY <3>1 DEF RowInv, OrderKept
    <3> QED
      BY <2>2, <3>2 DEF Unsettled, Settled
  <2>3. CASE ~(d = c /\ (a = p \/ b = p))
    BY <2>3 DEF RowWrite, RowInv, OrderKept
  <2> QED
    BY <2>1, <2>2, <2>3
<1>2. RowsHaveEvents'
  BY DEF RowWrite, RowInv, RowsHaveEvents, OutboxSame, Unsettled
<1>3. LedgerTrue'
  BY DEF RowWrite, RowInv, LedgerTrue, Unsettled
<1>4. SweepStable'
  BY DEF RowWrite, RowInv, SweepStable, OutboxSame, Unsettled
<1>5. FanoutSubscribes' /\ SequenceGrows' /\ AppliedTrue' /\ SweptRemembered'
  BY DEF RowInv, FanoutSubscribes, SequenceGrows, AppliedTrue, SweptRemembered, OutboxSame
<1> QED
  BY <1>1, <1>2, <1>3, <1>4, <1>5 DEF RowInv

(* A worker that holds its lease commits the effects, the ledger row and the   *)
(* delivered row together.                                                     *)
LEMMA CommitStep ==
    ASSUME TypeInv, RowInv, OutboxSame, NEW w \in Workers, worker[w].at # "idle", Commits(w)
    PROVE  RowInv'
<1> DEFINE c == worker[w].consumer
           p == worker[w].position
<1>0. c \in Consumers /\ p \in Positions
  BY DEF TypeInv, BusyOnADelivery
<1>1. PICK r \in Rows : r.state = "delivered" /\ RowWrite(c, p, r)
  BY DEF Commits, WritesOwnRow
<1>2. delivery[c][p].state = "leased"
  BY DEF Commits, WritesOwnRow, Held
<1>3. /\ ledger' = [ledger EXCEPT ![c] = @ \cup {p}]
      /\ applied' = [applied EXCEPT ![c][p] = @ + 1]
  BY DEF Commits
<1>a. /\ ledger \in [Consumers -> SUBSET Positions]
      /\ applied \in [Consumers -> [Positions -> Nat]]
  BY DEF TypeInv, TypeOK
<1> HIDE DEF c, p
<1>4. OrderKept'
  BY <1>0, <1>1, <1>2 DEF RowWrite, RowInv, OrderKept, Settled
<1>5. RowsHaveEvents'
  BY <1>0, <1>1, <1>2 DEF RowWrite, RowInv, RowsHaveEvents, OutboxSame
<1>6. \A d \in Consumers, q \in Positions : q \in ledger'[d] <=> q \in ledger[d] \/ (d = c /\ q = p)
  BY <1>0, <1>3, <1>a
<1>7. LedgerTrue'
  BY <1>0, <1>1, <1>6 DEF RowWrite, RowInv, LedgerTrue
<1>8. AppliedTrue'
  <2>1. outbox[p] = "retained" /\ p \notin ledger[c]
    BY <1>0, <1>2 DEF RowInv, RowsHaveEvents, LedgerTrue
  <2>2. applied[c][p] = 0
    BY <1>0, <2>1 DEF RowInv, AppliedTrue
  <2>3. \A d \in Consumers, q \in Positions :
           applied'[d][q] = IF d = c /\ q = p THEN 1 ELSE applied[d][q]
    BY <1>0, <1>3, <1>a, <2>2
  <2> QED
    BY <1>6, <2>3 DEF RowInv, AppliedTrue, OutboxSame
<1>9. SweepStable'
  BY <1>0, <1>1 DEF RowWrite, RowInv, SweepStable, OutboxSame, Unsettled
<1>10. FanoutSubscribes' /\ SequenceGrows' /\ SweptRemembered'
  BY DEF RowInv, FanoutSubscribes, SequenceGrows, SweptRemembered, OutboxSame
<1> QED
  BY <1>4, <1>5, <1>7, <1>8, <1>9, <1>10 DEF RowInv

(* A publish draws the next position, and settles by committing its event      *)
(* with one pending row per subscriber, or by leaving a hole.                  *)
LEMMA PublishStep ==
    ASSUME TypeInv, RowInv, NEW p \in Positions, Publish(p)
    PROVE  RowInv'
<1>0. outbox \in [Positions -> {"unused", "open", "retained", "void", "purged"}]
      /\ fanout \in [Positions -> SUBSET Consumers]
  BY DEF TypeInv, TypeOK
<1>1. \A q \in Positions : outbox'[q] = IF q = p THEN "open" ELSE outbox[q]
  BY <1>0 DEF Publish
<1>2. outbox[p] = "unused" /\ UNCHANGED <<delivery, ledger, applied, swept, sweep>>
  BY DEF Publish
<1>3. \A q \in Positions : SubjectOf[q] = SubjectOf[p] => outbox[q] # "open"
  BY DEF Publish
<1>4. SequenceGrows'
  <2> SUFFICES ASSUME NEW a \in Positions, NEW b \in Positions, a < b
               PROVE  /\ outbox'[a] = "unused" => outbox'[b] = "unused"
                      /\ outbox'[a] = "open" /\ SubjectOf[a] = SubjectOf[b]
                            => outbox'[b] = "unused"
    BY DEF SequenceGrows
  <2>1. a # b
    BY DEF Positions
  <2>2. \A q \in Positions : q < p => outbox[q] # "unused"
    BY DEF Publish
  <2>3. /\ outbox[a] = "unused" => outbox[b] = "unused"
        /\ outbox[a] = "open" /\ SubjectOf[a] = SubjectOf[b] => outbox[b] = "unused"
    BY DEF RowInv, SequenceGrows
  <2> QED
    BY <1>1, <1>2, <1>3, <2>1, <2>2, <2>3
<1>5. FanoutSubscribes'
  <2>1. \A q \in Positions : fanout'[q] = IF q = p THEN {c \in enabled : p \in Subscribed[c]}
                                                   ELSE fanout[q]
    BY <1>0 DEF Publish
  <2> QED
    BY <2>1 DEF RowInv, FanoutSubscribes
<1>6. RowsHaveEvents' /\ AppliedTrue' /\ SweptRemembered'
  BY <1>1, <1>2 DEF RowInv, RowsHaveEvents, AppliedTrue, SweptRemembered
<1>7. SweepStable'
  BY <1>1, <1>2 DEF RowInv, SweepStable, Unsettled
<1>8. OrderKept' /\ LedgerTrue'
  BY <1>2 DEF RowInv, OrderKept, LedgerTrue
<1> QED
  BY <1>4, <1>5, <1>6, <1>7, <1>8 DEF RowInv

LEMMA CommitPublishStep ==
    ASSUME TypeInv, RowInv, NEW p \in Positions, CommitPublish(p)
    PROVE  RowInv'
<1>0. /\ outbox \in [Positions -> {"unused", "open", "retained", "void", "purged"}]
      /\ fanout \in [Positions -> SUBSET Consumers]
      /\ delivery \in [Consumers -> [Positions -> Rows]]
  BY DEF TypeInv, TypeOK
<1>1. \A q \in Positions : outbox'[q] = IF q = p THEN "retained" ELSE outbox[q]
  BY <1>0 DEF CommitPublish
<1>2. outbox[p] = "open" /\ UNCHANGED <<ledger, applied, swept, sweep>>
  BY DEF CommitPublish
<1>3. \A c \in Consumers, q \in Positions :
         delivery'[c][q] = IF c \in fanout[p] /\ q = p THEN Published ELSE delivery[c][q]
  BY <1>0 DEF CommitPublish
<1>4. \A c \in Consumers : delivery[c][p].state = "absent"
  BY <1>2 DEF RowInv, RowsHaveEvents
<1>5. Published.state = "pending"
  BY FreshRows
<1>6. OrderKept'
  <2> SUFFICES ASSUME NEW d \in Consumers, NEW a \in Positions, NEW b \in Positions,
                      b < a, SubjectOf[b] = SubjectOf[a],
                      delivery'[d][a].state \in {"leased", "failed", "delivered"}
               PROVE  delivery'[d][b].state \in Settled \cup {"absent"}
    BY DEF OrderKept
  <2>1. delivery[d][a].state \in {"leased", "failed", "delivered"}
    BY <1>3, <1>5
  <2>2. b # p
    BY <1>2, <2>1 DEF RowInv, SequenceGrows, RowsHaveEvents
  <2> QED
    BY <1>3, <2>1, <2>2 DEF RowInv, OrderKept
<1>7. RowsHaveEvents'
  BY <1>1, <1>3, <1>4 DEF RowInv, RowsHaveEvents, FanoutSubscribes
<1>8. FanoutSubscribes'
  <2>1. \A q \in Positions : fanout'[q] = IF q = p THEN {} ELSE fanout[q]
    BY <1>0 DEF CommitPublish
  <2> QED
    BY <2>1 DEF RowInv, FanoutSubscribes
<1>9. SequenceGrows'
  BY <1>1, <1>2 DEF RowInv, SequenceGrows
<1>10. LedgerTrue'
  BY <1>2, <1>3, <1>4, <1>5 DEF RowInv, LedgerTrue
<1>11. AppliedTrue' /\ SweptRemembered'
  BY <1>1, <1>2 DEF RowInv, AppliedTrue, SweptRemembered
<1>12. SweepStable'
  <2>1. p \notin sweep.candidates
    BY <1>2 DEF RowInv, SweepStable
  <2> QED
    BY <1>1, <1>2, <1>3, <2>1 DEF RowInv, SweepStable, Unsettled
<1> QED
  BY <1>6, <1>7, <1>8, <1>9, <1>10, <1>11, <1>12 DEF RowInv

LEMMA RollbackPublishStep ==
    ASSUME TypeInv, RowInv, NEW p \in Positions, RollbackPublish(p)
    PROVE  RowInv'
<1>0. /\ outbox \in [Positions -> {"unused", "open", "retained", "void", "purged"}]
      /\ fanout \in [Positions -> SUBSET Consumers]
  BY DEF TypeInv, TypeOK
<1>1. \A q \in Positions : outbox'[q] = IF q = p THEN "void" ELSE outbox[q]
  BY <1>0 DEF RollbackPublish
<1>2. outbox[p] = "open" /\ UNCHANGED <<delivery, ledger, applied, swept, sweep>>
  BY DEF RollbackPublish
<1>3. \A q \in Positions : fanout'[q] = IF q = p THEN {} ELSE fanout[q]
  BY <1>0 DEF RollbackPublish
<1>4. FanoutSubscribes'
  BY <1>3 DEF RowInv, FanoutSubscribes
<1>5. SequenceGrows'
  BY <1>1, <1>2 DEF RowInv, SequenceGrows
<1>6. RowsHaveEvents' /\ AppliedTrue' /\ SweptRemembered'
  BY <1>1, <1>2 DEF RowInv, RowsHaveEvents, AppliedTrue, SweptRemembered
<1>7. SweepStable'
  BY <1>1, <1>2 DEF RowInv, SweepStable, Unsettled
<1>8. OrderKept' /\ LedgerTrue'
  BY <1>2 DEF RowInv, OrderKept, LedgerTrue
<1> QED
  BY <1>4, <1>5, <1>6, <1>7, <1>8 DEF RowInv

(* A replay restarts every delivery of its consumer in range, so none is left  *)
(* ahead of one it restarts, and it forgets exactly what it restarts.          *)
LEMMA ReplayStep ==
    ASSUME TypeInv, RowInv, NEW c \in Consumers, NEW from \in Positions, Replay(c, from)
    PROVE  /\ RowInv'
           /\ \A d \in Consumers, q \in Positions :
                 delivery'[d][q] = delivery[d][q] \/ delivery'[d][q].state = "pending"
<1>0. /\ delivery \in [Consumers -> [Positions -> Rows]]
      /\ ledger \in [Consumers -> SUBSET Positions]
      /\ applied \in [Consumers -> [Positions -> Nat]]
  BY DEF TypeInv, TypeOK
<1> DEFINE R == Replayed(c, from)
<1>1. \A q \in Positions : q \in R <=> outbox[q] = "retained" /\ q >= from /\ q \in Subscribed[c]
  BY DEF Replayed, Retained
<1>2. OutboxSame /\ ~sweep.running
  BY DEF Replay, OutboxSame, outboxVars
<1>3. \A q \in Positions : Restarted(delivery[c][q]).state = "pending"
  BY <1>0, RestartedRow
<1>4. delivery' = [delivery EXCEPT ![c] =
         [q \in Positions |-> IF q \in R /\ delivery[c][q].state # "pending"
                              THEN Restarted(delivery[c][q]) ELSE delivery[c][q]]]
  BY DEF Replay, ReplayDeliveries
<1>5. /\ ledger' = [ledger EXCEPT ![c] = @ \ R]
      /\ applied' = [applied EXCEPT ![c] =
           [q \in Positions |-> IF q \in R THEN 0 ELSE @[q]]]
  BY DEF Replay, ReplayDeliveries
<1> HIDE DEF R
<1>6. \A d \in Consumers, q \in Positions :
         IF d = c /\ q \in R THEN delivery'[d][q].state = "pending"
                             ELSE delivery'[d][q] = delivery[d][q]
  BY <1>0, <1>3, <1>4
<1>7. \A d \in Consumers, q \in Positions :
         q \in ledger'[d] <=> q \in ledger[d] /\ ~(d = c /\ q \in R)
  BY <1>0, <1>5
<1>8. \A d \in Consumers, q \in Positions :
         applied'[d][q] = IF d = c /\ q \in R THEN 0 ELSE applied[d][q]
  BY <1>0, <1>5
<1>9. OrderKept'
  <2> SUFFICES ASSUME NEW d \in Consumers, NEW a \in Positions, NEW b \in Positions,
                      b < a, SubjectOf[b] = SubjectOf[a],
                      delivery'[d][a].state \in {"leased", "failed", "delivered"}
               PROVE  delivery'[d][b].state \in Settled \cup {"absent"}
    BY DEF OrderKept
  <2>1. delivery'[d][a] = delivery[d][a] /\ ~(d = c /\ a \in R)
    BY <1>6
  <2>2. ~(d = c /\ b \in R)
    <3> SUFFICES ASSUME d = c, b \in R PROVE FALSE
      OBVIOUS
    <3>1. b >= from /\ outbox[a] = "retained" /\ a \in Subscribed[c]
      BY <1>1, <2>1 DEF RowInv, RowsHaveEvents
    <3>2. a >= from
      BY <3>1 DEF Positions
    <3> QED
      BY <1>1, <2>1, <3>1, <3>2
  <2> QED
    BY <1>6, <2>1, <2>2 DEF RowInv, OrderKept
<1>10. RowsHaveEvents'
  BY <1>1, <1>2, <1>6 DEF RowInv, RowsHaveEvents, OutboxSame
<1>11. LedgerTrue'
  BY <1>6, <1>7 DEF RowInv, LedgerTrue
<1>12. AppliedTrue'
  BY <1>2, <1>7, <1>8 DEF RowInv, AppliedTrue, OutboxSame
<1>13. SweepStable'
  BY <1>2 DEF RowInv, SweepStable, OutboxSame
<1>14. FanoutSubscribes' /\ SequenceGrows' /\ SweptRemembered'
  BY <1>2 DEF RowInv, FanoutSubscribes, SequenceGrows, SweptRemembered, OutboxSame
<1>15. ASSUME NEW d \in Consumers, NEW q \in Positions
       PROVE  delivery'[d][q] = delivery[d][q] \/ delivery'[d][q].state = "pending"
  BY <1>6
<1> QED
  BY <1>9, <1>10, <1>11, <1>12, <1>13, <1>14, <1>15 DEF RowInv

(* A sweep deletes exactly its candidates: none of them has become unsettled.  *)
LEMMA PurgeStep ==
    ASSUME TypeInv, RowInv, PurgeOutbox
    PROVE  /\ RowInv'
           /\ \A c \in Consumers, q \in Positions :
                 delivery'[c][q] = delivery[c][q] \/ delivery'[c][q].state = "absent"
<1>0. /\ delivery \in [Consumers -> [Positions -> Rows]]
      /\ sweep.candidates \subseteq Positions /\ swept \in 0..MaxPosition
      /\ ledger \in [Consumers -> SUBSET Positions]
  BY DEF TypeInv, TypeOK
<1>1. \A c \in Consumers, q \in Positions :
         delivery[c][q].state \in {"absent", "pending", "leased", "failed", "delivered", "skipped"}
  BY <1>0 DEF Rows, States, Settled
<1>2. \A c \in Consumers, q \in Positions :
         IF q \in sweep.candidates THEN Remaining(c, q).state = "absent"
                                   ELSE Remaining(c, q) = delivery[c][q]
  BY <1>1, FreshRows DEF Remaining, RowInv, SweepStable, Unsettled, Settled
<1>3. Gone = sweep.candidates
  BY <1>0, <1>2 DEF Gone
<1>4. \A c \in Consumers, q \in Positions : delivery'[c][q] = Remaining(c, q)
  BY DEF PurgeOutbox
<1>5. \A q \in Positions : outbox'[q] = IF q \in Gone THEN "purged" ELSE outbox[q]
  BY DEF PurgeOutbox
<1>6. \A c \in Consumers, q \in Positions : q \in ledger'[c] <=> q \in ledger[c] /\ q \notin Gone
  BY DEF PurgeOutbox
<1>7. UNCHANGED <<fanout, applied>> /\ sweep' = NoSweep
  BY DEF PurgeOutbox
<1>8. OrderKept'
  BY <1>2, <1>4 DEF RowInv, OrderKept
<1>9. RowsHaveEvents'
  BY <1>2, <1>3, <1>4, <1>5 DEF RowInv, RowsHaveEvents
<1>10. FanoutSubscribes'
  BY <1>7 DEF RowInv, FanoutSubscribes
<1>11. \A q \in Gone : outbox[q] = "retained"
  BY <1>3 DEF RowInv, SweepStable
<1>12. SequenceGrows'
  BY <1>5, <1>11 DEF RowInv, SequenceGrows
<1>13. LedgerTrue'
  BY <1>2, <1>3, <1>4, <1>6 DEF RowInv, LedgerTrue
<1>14. AppliedTrue'
  BY <1>5, <1>6, <1>7 DEF RowInv, AppliedTrue
<1>15. SweepStable'
  BY <1>7 DEF SweepStable, NoSweep
<1>16. SweptRemembered'
  <2>1. PICK high \in Gone \cup {swept} :
            (\A q \in Gone \cup {swept} : q <= high) /\ swept' = high
    BY DEF PurgeOutbox, SweptThrough
  <2>2. swept \in Nat /\ high \in Nat /\ swept <= high
    BY <1>0, <1>3, <2>1 DEF Positions
  <2> QED
    BY <1>5, <2>1, <2>2 DEF RowInv, SweptRemembered, Positions
<1> QED
  BY <1>2, <1>4, <1>8, <1>9, <1>10, <1>12, <1>13, <1>14, <1>15, <1>16 DEF RowInv

LEMMA BeginSweepStep ==
    ASSUME TypeInv, RowInv, NEW old \in SUBSET Positions, BeginSweep(old)
    PROVE  RowInv'
<1>1. UNCHANGED <<outbox, fanout, delivery, ledger, applied, swept>>
  BY DEF BeginSweep
<1>2. sweep'.running = TRUE /\ sweep'.candidates = {p \in old : Sweepable(p)} /\ old \subseteq Retained
  BY DEF BeginSweep
<1>3. SweepStable'
  BY <1>1, <1>2 DEF SweepStable, Sweepable, Unsettled, Retained, Settled
<1>4. /\ OrderKept' /\ RowsHaveEvents' /\ FanoutSubscribes' /\ SequenceGrows'
      /\ LedgerTrue' /\ AppliedTrue' /\ SweptRemembered'
  BY <1>1 DEF RowInv, OrderKept, RowsHaveEvents, FanoutSubscribes, SequenceGrows,
              LedgerTrue, AppliedTrue, SweptRemembered
<1> QED
  BY <1>3, <1>4 DEF RowInv

LEMMA AbortSweepStep ==
    ASSUME TypeInv, RowInv, AbortSweep
    PROVE  RowInv'
<1>1. UNCHANGED <<outbox, fanout, delivery, ledger, applied, swept>> /\ sweep' = NoSweep
  BY DEF AbortSweep
<1> QED
  BY <1>1 DEF RowInv, OrderKept, RowsHaveEvents, FanoutSubscribes, SequenceGrows,
              LedgerTrue, AppliedTrue, SweptRemembered, SweepStable, NoSweep
-----------------------------------------------------------------------------
(* Nobody but an idle worker gains a lease.                                    *)

NoLeaseGained ==
    \A c \in Consumers, p \in Positions :
        delivery'[c][p].state = "leased" =>
            /\ delivery[c][p].state = "leased"
            /\ delivery'[c][p].lease_owner = delivery[c][p].lease_owner

LEMMA LostLeaseKept ==
    ASSUME TypeInv, LostLease, NoLeaseGained, worker' = worker
    PROVE  LostLease'
  BY DEF TypeInv, BusyOnADelivery, LostLease, NoLeaseGained, Held

(* The worker that steps learns of a loss only if it holds no lease.           *)
LEMMA LostLeaseLearned ==
    ASSUME TypeInv, RowInv, LostLease, NoLeaseGained,
           NEW w \in Workers, StaysOrLeaves(w), worker[w].at # "idle"
    PROVE  LostLease'
<1> SUFFICES ASSUME NEW v \in Workers, worker'[v].at \in {"known", "missing"}
             PROVE  ~Held(v)'
  BY DEF LostLease
<1>1. CASE v # w
  BY <1>1 DEF StaysOrLeaves, TypeInv, BusyOnADelivery, LostLease, NoLeaseGained, Held
<1>2. CASE v = w
  <2>1. worker[w].consumer \in Consumers /\ worker[w].position \in Positions
    BY DEF TypeInv, BusyOnADelivery
  <2>2. /\ worker'[w].consumer = worker[w].consumer
        /\ worker'[w].position = worker[w].position
        /\ delivery' = delivery
        /\ \/ worker[w].position \in ledger[worker[w].consumer]
           \/ outbox[worker[w].position] # "retained"
    BY <1>2 DEF StaysOrLeaves
  <2>3. delivery[worker[w].consumer][worker[w].position].state # "leased"
    BY <2>1, <2>2 DEF RowInv, LedgerTrue, RowsHaveEvents
  <2> QED
    BY <1>2, <2>2, <2>3 DEF Held
<1> QED
  BY <1>1, <1>2

LEMMA InitSafe == Init => SafetyInv
<1> SUFFICES ASSUME Init PROVE SafetyInv
  OBVIOUS
<1>1. \A c \in Consumers, p \in Positions :
         /\ delivery[c][p].state = "absent" /\ p \notin ledger[c] /\ applied[c][p] = 0
         /\ outbox[p] = "unused" /\ fanout[p] = {}
  BY FreshRows DEF Init
<1>2. \A p \in Positions : outbox[p] = "unused" /\ fanout[p] = {}
  BY DEF Init
<1>3. sweep.candidates = {} /\ \A w \in Workers : worker[w].at = "idle"
  BY DEF Init, NoSweep, Idle
<1>4. OrderKept /\ RowsHaveEvents /\ LedgerTrue /\ AppliedTrue
  BY <1>1 DEF OrderKept, RowsHaveEvents, LedgerTrue, AppliedTrue
<1>5. FanoutSubscribes /\ SequenceGrows /\ SweptRemembered
  BY <1>2 DEF FanoutSubscribes, SequenceGrows, SweptRemembered
<1>6. SweepStable /\ LostLease
  BY <1>3 DEF SweepStable, LostLease
<1> QED
  BY <1>4, <1>5, <1>6 DEF SafetyInv, RowInv

LEMMA StepSafe == TypeInv /\ SafetyInv /\ [Next]_vars => SafetyInv'
<1> USE DeliveriesAssumption
<1> SUFFICES ASSUME TypeInv, SafetyInv, [Next]_vars PROVE SafetyInv'
  OBVIOUS
<1>0. RowInv /\ LostLease
  BY DEF SafetyInv
<1>a. delivery \in [Consumers -> [Positions -> Rows]] /\ worker \in [Workers -> Leases]
  BY DEF TypeInv, TypeOK
<1>b. \A c \in Consumers, p \in Positions : delivery[c][p] \in Rows
  BY <1>a
<1>1. CASE UNCHANGED vars
  <2>1. RowInv'
    BY <1>0, <1>1, QuietStep DEF OutboxSame, vars
  <2>2. LostLease'
    BY <1>0, <1>1 DEF LostLease, Held, vars
  <2> QED
    BY <2>1, <2>2 DEF SafetyInv
<1>2. ASSUME NEW p \in Positions, Publish(p) \/ RollbackPublish(p) PROVE SafetyInv'
  <2>1. RowInv'
    BY <1>0, <1>2, PublishStep, RollbackPublishStep
  <2>2. worker' = worker /\ NoLeaseGained
    BY <1>2 DEF Publish, RollbackPublish, NoLeaseGained
  <2> QED
    BY <1>0, <2>1, <2>2, LostLeaseKept DEF SafetyInv
<1>3. ASSUME NEW p \in Positions, CommitPublish(p) PROVE SafetyInv'
  <2>1. RowInv'
    BY <1>0, <1>3, CommitPublishStep
  <2>2. \A c \in Consumers, q \in Positions :
            delivery'[c][q] = delivery[c][q] \/ delivery'[c][q] = Published
    BY <1>a, <1>3 DEF CommitPublish
  <2>3. worker' = worker /\ NoLeaseGained
    BY <1>3, <2>2, FreshRows DEF CommitPublish, NoLeaseGained
  <2> QED
    BY <1>0, <2>1, <2>3, LostLeaseKept DEF SafetyInv
<1>4. ASSUME NEW c \in Consumers, SetModuleState(c) PROVE SafetyInv'
  <2>1. OutboxSame /\ UNCHANGED <<ledger, applied, delivery>> /\ worker' = worker
    BY <1>4 DEF SetModuleState, OutboxSame
  <2> QED
    BY <1>0, <2>1, QuietStep, LostLeaseKept DEF SafetyInv, NoLeaseGained
<1>5. ASSUME NEW c \in Consumers, NEW p \in Positions, RetryDelivery(c, p) PROVE SafetyInv'
  <2>1. OutboxSame /\ UNCHANGED <<ledger, applied>> /\ worker' = worker
        /\ delivery' = [delivery EXCEPT ![c][p] = Restarted(delivery[c][p])]
        /\ Unsettled(c, p)
    BY <1>5 DEF RetryDelivery, OutboxSame, outboxVars, Unsettled
  <2>2. Restarted(delivery[c][p]) \in Rows /\ Restarted(delivery[c][p]).state = "pending"
    BY <1>b, RestartedRow
  <2>3. RowWrite(c, p, Restarted(delivery[c][p]))
    BY <1>a, <2>1, <2>2, WritesOneRow
  <2>4. RowInv'
    BY <1>0, <2>1, <2>2, <2>3, RowStep
  <2>5. NoLeaseGained
    BY <2>2, <2>3 DEF NoLeaseGained, RowWrite
  <2> QED
    BY <1>0, <2>1, <2>4, <2>5, LostLeaseKept DEF SafetyInv
<1>6. ASSUME NEW c \in Consumers, NEW p \in Positions, SkipDelivery(c, p) PROVE SafetyInv'
  <2>1. OutboxSame /\ UNCHANGED <<ledger, applied>> /\ worker' = worker
        /\ delivery' = [delivery EXCEPT ![c][p] = Ended(delivery[c][p], "skipped")]
        /\ Unsettled(c, p)
    BY <1>6 DEF SkipDelivery, OutboxSame, outboxVars, Unsettled
  <2>2. Ended(delivery[c][p], "skipped") \in Rows /\ Ended(delivery[c][p], "skipped").state = "skipped"
    BY <1>b, EndedRow
  <2>3. RowWrite(c, p, Ended(delivery[c][p], "skipped"))
    BY <1>a, <2>1, <2>2, WritesOneRow
  <2>4. RowInv'
    BY <1>0, <2>1, <2>2, <2>3, RowStep
  <2>5. NoLeaseGained
    BY <2>2, <2>3 DEF NoLeaseGained, RowWrite
  <2> QED
    BY <1>0, <2>1, <2>4, <2>5, LostLeaseKept DEF SafetyInv
<1>7. ASSUME NEW c \in Consumers, NEW p \in Positions, Replay(c, p) PROVE SafetyInv'
  <2>1. RowInv' /\ \A d \in Consumers, q \in Positions :
                  delivery'[d][q] = delivery[d][q] \/ delivery'[d][q].state = "pending"
    BY <1>0, <1>7, ReplayStep
  <2>2. worker' = worker
    BY <1>7 DEF Replay
  <2>3. NoLeaseGained
    BY <2>1 DEF NoLeaseGained
  <2> QED
    BY <1>0, <2>1, <2>2, <2>3, LostLeaseKept DEF SafetyInv
<1>8. ASSUME NEW c \in Consumers, NEW p \in Positions,
             BecomesDue(c, p) \/ LeaseLapses(c, p) \/ WorkerStalls(c, p)
      PROVE  SafetyInv'
  <2>1. PICK r \in {Due(delivery[c][p]), Lapsed(delivery[c][p])} :
              delivery' = [delivery EXCEPT ![c][p] = r]
    BY <1>8 DEF BecomesDue, LeaseLapses, WorkerStalls
  <2>2. r \in Rows /\ r.state = delivery[c][p].state
        /\ r.lease_owner = delivery[c][p].lease_owner
    BY <1>b, TimedRow
  <2>3. OutboxSame /\ UNCHANGED <<ledger, applied>> /\ worker' = worker
    BY <1>8 DEF BecomesDue, LeaseLapses, WorkerStalls, OutboxSame, outboxVars
  <2>4. delivery[c][p].state \in {"pending", "leased"} /\ Unsettled(c, p)
    BY <1>8 DEF BecomesDue, LeaseLapses, WorkerStalls, Unsettled
  <2>5. RowWrite(c, p, r)
    BY <1>a, <2>1, <2>2, WritesOneRow
  <2>6. RowInv'
    BY <1>0, <2>2, <2>3, <2>4, <2>5, RowStep
  <2>7. NoLeaseGained
    BY <2>2, <2>5 DEF NoLeaseGained, RowWrite
  <2> QED
    BY <1>0, <2>3, <2>6, <2>7, LostLeaseKept DEF SafetyInv
<1>9. ASSUME NEW w \in Workers, NEW c \in Consumers, NEW p \in Positions, LeaseDelivery(w, c, p)
      PROVE  SafetyInv'
  <2>1. OutboxSame /\ UNCHANGED <<ledger, applied>>
        /\ delivery' = [delivery EXCEPT ![c][p] = Leased(delivery[c][p], w)]
        /\ worker[w].at = "idle" /\ Candidate(c, p)
    BY <1>9 DEF LeaseDelivery, OutboxSame
  <2>2. Leased(delivery[c][p], w) \in Rows /\ Leased(delivery[c][p], w).state = "leased"
        /\ Leased(delivery[c][p], w).lease_owner = w
    BY <1>b, LeasedRow
  <2>3. RowWrite(c, p, Leased(delivery[c][p], w))
    BY <1>a, <2>1, <2>2, WritesOneRow
  <2>4. Unsettled(c, p) /\ ~Blocked(c, p)
    BY <2>1 DEF Candidate, Unsettled
  <2>5. RowInv'
    BY <1>0, <2>1, <2>2, <2>3, <2>4, RowStep
  <2>6. worker'[w].at = "gate" /\ \A v \in Workers : v # w => worker'[v] = worker[v]
    BY <1>a, <1>9 DEF LeaseDelivery
  <2>7. LostLease'
    <3> SUFFICES ASSUME NEW v \in Workers, worker'[v].at \in {"known", "missing"}
                 PROVE  ~Held(v)'
      BY DEF LostLease
    <3>1. v # w /\ worker'[v] = worker[v]
      BY <2>6
    <3>2. worker[v].consumer \in Consumers /\ worker[v].position \in Positions
      BY <3>1 DEF TypeInv, BusyOnADelivery
    <3>3. ~Held(v)
      BY <1>0, <3>1 DEF LostLease
    <3> QED
      BY <2>2, <2>3, <3>1, <3>2, <3>3 DEF Held, RowWrite
  <2> QED
    BY <2>5, <2>7 DEF SafetyInv
<1>10. ASSUME NEW w \in Workers, WorkerStep(w) PROVE SafetyInv'
  <2>1. WorkerStepShape(w)
    BY <1>10, WorkerStepHasShape
  <2>2. worker[w].at # "idle"
    BY <1>10 DEF WorkerStep, RunLeasedDelivery, FailUnlessUnready, EnterConsumer, ContextRefused, MarkKnown,
         ConsumerReturns, ConsumerRaises, WriteDeliveryFailure, FailMissing, DeferUnready
  <2>3. worker[w].consumer \in Consumers /\ worker[w].position \in Positions
    BY <2>2 DEF TypeInv, BusyOnADelivery
  <2>4. OutboxSame /\ StaysOrLeaves(w)
    BY <2>1 DEF WorkerStepShape, OutboxSame
  <2>5. CASE UNCHANGED <<delivery, ledger, applied>>
    <3>1. RowInv' /\ NoLeaseGained
      BY <1>0, <2>4, <2>5, QuietStep DEF NoLeaseGained
    <3> QED
      BY <1>0, <2>2, <2>4, <3>1, LostLeaseLearned DEF SafetyInv
  <2>6. CASE WritesOwnRow(w, {"pending", "failed"}) /\ UNCHANGED <<ledger, applied>>
    <3>1. PICK r \in Rows : /\ Held(w) /\ r.state \in {"pending", "failed"}
                            /\ RowWrite(worker[w].consumer, worker[w].position, r)
      BY <2>6 DEF WritesOwnRow
    <3>2. /\ delivery[worker[w].consumer][worker[w].position].state = "leased"
          /\ Unsettled(worker[w].consumer, worker[w].position)
      BY <3>1 DEF Held, Unsettled
    <3>3. RowInv'
      BY <1>0, <2>3, <2>4, <2>6, <3>1, <3>2, RowStep
    <3>4. NoLeaseGained
      BY <3>1 DEF NoLeaseGained, RowWrite
    <3> QED
      BY <1>0, <2>2, <2>4, <3>3, <3>4, LostLeaseLearned DEF SafetyInv
  <2>7. CASE worker[w].at = "known" /\ WritesOwnRow(w, {"delivered"})
    BY <1>0, <2>7 DEF LostLease, WritesOwnRow
  <2>8. CASE Commits(w)
    <3>1. RowInv'
      BY <1>0, <2>2, <2>4, <2>8, CommitStep
    <3>2. NoLeaseGained
      BY <2>8 DEF Commits, WritesOwnRow, NoLeaseGained, RowWrite
    <3> QED
      BY <1>0, <2>2, <2>4, <3>1, <3>2, LostLeaseLearned DEF SafetyInv
  <2> QED
    BY <2>1, <2>5, <2>6, <2>7, <2>8 DEF WorkerStepShape
<1>11. ASSUME NEW w \in Workers, Crash(w) \/ Deploy(w) PROVE SafetyInv'
  <2>1. OutboxSame /\ UNCHANGED <<delivery, ledger, applied>> /\ Leave(w)
    BY <1>11 DEF Crash, Deploy, OutboxSame, outboxVars
  <2>2. RowInv'
    BY <1>0, <2>1, QuietStep
  <2>3. worker'[w].at = "idle" /\ \A v \in Workers : v # w => worker'[v] = worker[v]
    BY <1>a, <2>1, WorkerLeaves
  <2>4. LostLease'
    BY <1>0, <2>1, <2>3 DEF LostLease, Held
  <2> QED
    BY <2>2, <2>4 DEF SafetyInv
<1>12. ASSUME NEW old \in SUBSET Positions, BeginSweep(old) PROVE SafetyInv'
  <2>1. RowInv'
    BY <1>0, <1>12, BeginSweepStep
  <2>2. worker' = worker /\ NoLeaseGained
    BY <1>12 DEF BeginSweep, NoLeaseGained
  <2> QED
    BY <1>0, <2>1, <2>2, LostLeaseKept DEF SafetyInv
<1>13. CASE PurgeOutbox
  <2>1. RowInv' /\ \A c \in Consumers, q \in Positions :
                  delivery'[c][q] = delivery[c][q] \/ delivery'[c][q].state = "absent"
    BY <1>0, <1>13, PurgeStep
  <2>2. worker' = worker
    BY <1>13 DEF PurgeOutbox
  <2>3. NoLeaseGained
    BY <2>1 DEF NoLeaseGained
  <2> QED
    BY <1>0, <2>1, <2>2, <2>3, LostLeaseKept DEF SafetyInv
<1>14. CASE AbortSweep
  <2>1. worker' = worker /\ NoLeaseGained
    BY <1>14 DEF AbortSweep, NoLeaseGained
  <2> QED
    BY <1>0, <1>14, <2>1, AbortSweepStep, LostLeaseKept DEF SafetyInv
<1>15. CASE UpgradeModule
  <2>1. OutboxSame /\ UNCHANGED <<ledger, applied, delivery>> /\ worker' = worker
    BY <1>15 DEF UpgradeModule, OutboxSame, outboxVars
  <2> QED
    BY <1>0, <2>1, QuietStep, LostLeaseKept DEF SafetyInv, NoLeaseGained
<1> QED
  BY <1>1, <1>2, <1>3, <1>4, <1>5, <1>6, <1>7, <1>8, <1>9, <1>10, <1>11, <1>12, <1>13, <1>14,
     <1>15 DEF Next

-----------------------------------------------------------------------------
(* The theorems.                                                               *)

LEMMA DeliveriesInvariant == Spec => [](TypeInv /\ SafetyInv)
  BY InitTypes, StepTypes, InitSafe, StepSafe, PTL DEF Spec

(* Exactly once: whatever crashes, stalls, lapsed leases, replays, sweeps and  *)
(* upgrades happen, a delivery is delivered exactly when its handler's         *)
(* effects are committed, once, and the ledger lists it (_run_consumer).       *)
THEOREM DeliveriesAppliedOnce == Spec => []AppliedExactlyOnce
<1>1. TypeInv /\ SafetyInv => AppliedExactlyOnce
  <2> SUFFICES ASSUME TypeInv, RowInv, NEW c \in Consumers, NEW p \in Positions
               PROVE  /\ applied[c][p] <= 1
                      /\ delivery[c][p].state = "delivered" => applied[c][p] = 1
                      /\ delivery[c][p].state # "absent" =>
                            (delivery[c][p].state = "delivered" <=> p \in ledger[c])
    BY DEF AppliedExactlyOnce, SafetyInv
  <2>1. delivery[c][p].state = "delivered" => outbox[p] # "purged"
    BY DEF RowInv, RowsHaveEvents
  <2> QED
    BY <2>1 DEF RowInv, AppliedTrue, LedgerTrue
<1> QED
  BY <1>1, DeliveriesInvariant, PTL

(* Per consumer and subject, a delivery that is in flight, failed or done has  *)
(* nothing unsettled before it, for any number of subjects, workers, replays   *)
(* and sweeps (lease_delivery).                                                *)
THEOREM DeliveriesInOrder == Spec => []OrderKept
<1>1. TypeInv /\ SafetyInv => OrderKept
  BY DEF SafetyInv, RowInv
<1> QED
  BY <1>1, DeliveriesInvariant, PTL

(* No sweep or replay leaves a delivery without its event, and a worker that   *)
(* finds its event gone has lost its lease (purge_outbox, _EventMissing).      *)
THEOREM NoDeliveryOrphaned == Spec => []NoOrphan
<1>1. TypeInv /\ SafetyInv => NoOrphan
  BY DEF SafetyInv, RowInv, RowsHaveEvents, LostLease, NoOrphan
<1> QED
  BY <1>1, DeliveriesInvariant, PTL

(* No handler runs for a lease beyond the budget (_run_leased_delivery).       *)
THEOREM DeliveriesWithinBudget == Spec => []AttemptsWithinBudget
<1>1. TypeInv => AttemptsWithinBudget
  BY DEF TypeInv, BusyOnADelivery, AttemptsWithinBudget
<1> QED
  BY <1>1, InitTypes, StepTypes, PTL DEF Spec

(* A replay never starts below a position that was swept (replay_handler and   *)
(* swept_through_position).                                                    *)
THEOREM ReplayCoversItsRange == Spec => ReplayIsWhole
<1>1. ASSUME TypeInv, SafetyInv, NEW c \in Consumers, NEW from \in Positions, Replay(c, from),
             NEW p \in Positions, p >= from
      PROVE  outbox[p] # "purged"
  <2>1. swept < from /\ swept \in 0..MaxPosition
    BY <1>1 DEF Replay, Replayable, TypeInv, TypeOK
  <2> QED
    BY <1>1, <2>1 DEF SafetyInv, RowInv, SweptRemembered, Positions
<1>2. TypeInv /\ SafetyInv =>
        \A c \in Consumers, from \in Positions :
          Replay(c, from) => \A p \in Positions : p >= from => outbox[p] # "purged"
  BY <1>1
<1>3. TypeInv /\ SafetyInv =>
        [\A c \in Consumers, from \in Positions :
          Replay(c, from) => \A p \in Positions : p >= from => outbox[p] # "purged"]_vars
  BY <1>2
<1> QED
  BY <1>3, DeliveriesInvariant, PTL DEF ReplayIsWhole

(* A failed delivery is moved by nobody but a person: a worker writes only a   *)
(* row it holds, a sweep deletes only settled rows, a publish writes only rows *)
(* that did not exist (fail_delivery).                                         *)
THEOREM OnlyAPersonMovesFailed == Spec => FailedWaitsForAPerson
<1> USE DeliveriesAssumption
<1> DEFINE Goal == \A c \in Consumers, p \in Positions :
                      delivery[c][p].state = "failed" /\ delivery'[c][p] # delivery[c][p]
                      => worker' = worker /\ outbox' = outbox
                         /\ delivery'[c][p].state \in {"pending", "skipped"}
<1>1. ASSUME TypeInv, SafetyInv, [Next]_vars PROVE Goal
  <2>0. RowInv
    BY <1>1 DEF SafetyInv
  <2>a. delivery \in [Consumers -> [Positions -> Rows]]
    BY <1>1 DEF TypeInv, TypeOK
  <2>b. \A c \in Consumers, p \in Positions : delivery[c][p] \in Rows
    BY <2>a
  <2>1. CASE UNCHANGED vars
    BY <2>1 DEF vars
  <2>2. ASSUME NEW p \in Positions, CommitPublish(p) PROVE Goal
    <3>1. \A c \in Consumers, q \in Positions : q # p => delivery'[c][q] = delivery[c][q]
      BY <2>2, <2>a DEF CommitPublish
    <3>2. \A c \in Consumers : delivery[c][p].state = "absent"
      BY <2>0, <2>2 DEF CommitPublish, RowInv, RowsHaveEvents
    <3> QED
      BY <3>1, <3>2
  <2>3. ASSUME NEW c \in Consumers, NEW p \in Positions, RetryDelivery(c, p) PROVE Goal
    <3>1. Restarted(delivery[c][p]) \in Rows /\ Restarted(delivery[c][p]).state = "pending"
      BY <2>b, RestartedRow
    <3>2. UNCHANGED <<worker, outbox>>
          /\ delivery' = [delivery EXCEPT ![c][p] = Restarted(delivery[c][p])]
      BY <2>3 DEF RetryDelivery, outboxVars
    <3>3. RowWrite(c, p, Restarted(delivery[c][p]))
      BY <2>a, <3>1, <3>2, WritesOneRow
    <3> QED
      BY <3>1, <3>2, <3>3 DEF RowWrite
  <2>4. ASSUME NEW c \in Consumers, NEW p \in Positions, SkipDelivery(c, p) PROVE Goal
    <3>1. Ended(delivery[c][p], "skipped") \in Rows /\ Ended(delivery[c][p], "skipped").state = "skipped"
      BY <2>b, EndedRow
    <3>2. UNCHANGED <<worker, outbox>>
          /\ delivery' = [delivery EXCEPT ![c][p] = Ended(delivery[c][p], "skipped")]
      BY <2>4 DEF SkipDelivery, outboxVars
    <3>3. RowWrite(c, p, Ended(delivery[c][p], "skipped"))
      BY <2>a, <3>1, <3>2, WritesOneRow
    <3> QED
      BY <3>1, <3>2, <3>3 DEF RowWrite
  <2>5. ASSUME NEW c \in Consumers, NEW p \in Positions, Replay(c, p) PROVE Goal
    <3>1. \A d \in Consumers, q \in Positions :
             delivery'[d][q] = delivery[d][q] \/ delivery'[d][q].state = "pending"
      BY <1>1, <2>0, <2>5, ReplayStep
    <3>2. UNCHANGED <<worker, outbox>>
      BY <2>5 DEF Replay, outboxVars
    <3> QED
      BY <3>1, <3>2
  <2>6. ASSUME NEW c \in Consumers, NEW p \in Positions, NEW r \in Rows,
               delivery' = [delivery EXCEPT ![c][p] = r], delivery[c][p].state # "failed"
        PROVE  Goal
    <3>1. RowWrite(c, p, r)
      BY <2>a, <2>6, WritesOneRow
    <3> QED
      BY <2>6, <3>1 DEF RowWrite
  <2>7. ASSUME NEW c \in Consumers, NEW p \in Positions,
               BecomesDue(c, p) \/ LeaseLapses(c, p) \/ WorkerStalls(c, p)
        PROVE  Goal
    <3>1. PICK r \in {Due(delivery[c][p]), Lapsed(delivery[c][p])} :
                delivery' = [delivery EXCEPT ![c][p] = r]
      BY <2>7 DEF BecomesDue, LeaseLapses, WorkerStalls
    <3>2. r \in Rows /\ delivery[c][p].state # "failed"
      BY <2>7, <2>b, TimedRow DEF BecomesDue, LeaseLapses, WorkerStalls
    <3> QED
      BY <2>6, <3>1, <3>2
  <2>8. ASSUME NEW w \in Workers, NEW c \in Consumers, NEW p \in Positions, LeaseDelivery(w, c, p)
        PROVE  Goal
    <3>1. delivery' = [delivery EXCEPT ![c][p] = Leased(delivery[c][p], w)]
          /\ delivery[c][p].state # "failed"
      BY <2>8 DEF LeaseDelivery, Candidate
    <3>2. Leased(delivery[c][p], w) \in Rows
      BY <2>b, LeasedRow
    <3> QED
      BY <2>6, <3>1, <3>2
  <2>9. ASSUME NEW w \in Workers, WorkerStep(w) PROVE Goal
    <3>1. \/ delivery' = delivery
          \/ WritesOwnRow(w, {"pending", "failed"}) \/ WritesOwnRow(w, {"delivered"})
      BY <1>1, <2>9, WorkerStepHasShape DEF WorkerStepShape, Commits
    <3>2. CASE WritesOwnRow(w, {"pending", "failed"}) \/ WritesOwnRow(w, {"delivered"})
      BY <3>2 DEF WritesOwnRow, Held, RowWrite
    <3> QED
      BY <3>1, <3>2
  <2>10. CASE PurgeOutbox
    <3>1. \A c \in Consumers, q \in Positions :
             delivery[c][q].state = "failed" => Remaining(c, q) = delivery[c][q]
      BY DEF Remaining, Settled
    <3> QED
      BY <2>10, <3>1 DEF PurgeOutbox
  <2>11. ASSUME NEW w \in Workers, Crash(w) \/ Deploy(w) PROVE Goal
    BY <2>11 DEF Crash, Deploy
  <2>12. ASSUME NEW p \in Positions, Publish(p) \/ RollbackPublish(p) PROVE Goal
    BY <2>12 DEF Publish, RollbackPublish
  <2>13. ASSUME NEW c \in Consumers, SetModuleState(c) PROVE Goal
    BY <2>13 DEF SetModuleState
  <2>14. ASSUME NEW old \in SUBSET Positions, BeginSweep(old) PROVE Goal
    BY <2>14 DEF BeginSweep
  <2>15. CASE AbortSweep \/ UpgradeModule
    BY <2>15 DEF AbortSweep, UpgradeModule
  <2> HIDE DEF Goal
  <2> QED
    BY <1>1, <2>1, <2>2, <2>3, <2>4, <2>5, <2>7, <2>8, <2>9, <2>10, <2>11, <2>12, <2>13, <2>14,
       <2>15 DEF Next
<1>2. TypeInv /\ SafetyInv /\ [Next]_vars => [Goal]_vars
  BY <1>1
<1> QED
  BY <1>2, DeliveriesInvariant, PTL DEF Spec, FailedWaitsForAPerson
=============================================================================
