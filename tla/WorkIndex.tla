----------------------------- MODULE WorkIndex ------------------------------
(***************************************************************************)
(* The due-work index of the control plane: how a worker finds out which   *)
(* workspaces may have work (storage/work_index.py), the two-database      *)
(* write of an enqueue, and the pass that reads the index, visits the      *)
(* workspaces it names and records each visit (work/loop.py).              *)
(*                                                                         *)
(* A workspace's jobs, deliveries and schedules are abstracted to the set  *)
(* of instants at which one of them needs a worker; running one item is    *)
(* one step.  Time is discrete: one tick is longer than the poll interval  *)
(* of an idle worker, and no pass takes more than PassTicks of them.       *)
(***************************************************************************)
EXTENDS Naturals, FiniteSets

CONSTANTS
    Workspaces,      \* active workspaces
    Workers,         \* worker processes
    NoWorkspace,     \* what a worker between two visits visits
    Reconcile,       \* work.due_reconcile_seconds, in ticks
    Backoff,         \* retry delay, in ticks; also the delay after a failed visit
    PassTicks,       \* the longest a pass takes
    MaxPerVisit,     \* MAX_JOBS_PER_VISIT
    CacheSize,       \* workspaces one pass may visit
    Horizon,         \* bound on time
    MaxEnqueues,     \* bound on enqueued items
    MaxFaults,       \* bound on crashes of workers in mid-pass and failed visits
    MarksMayBeLost   \* whether a process may die between its commit and its mark

ASSUME WorkIndexAssumption ==
    /\ NoWorkspace \notin Workspaces /\ IsFiniteSet(Workspaces) /\ Workers # {}
    /\ Reconcile \in Nat \ {0} /\ Backoff \in Nat \ {0}
    /\ PassTicks \in Nat /\ MaxPerVisit \in Nat \ {0} /\ CacheSize \in Nat \ {0}
    /\ Horizon \in Nat \ {0}
    /\ MaxEnqueues \in Nat /\ MaxFaults \in Nat
    /\ MarksMayBeLost \in BOOLEAN

VARIABLES
    now,       \* the clock
    index,     \* control.workspace_work_due.due_at, or Absent
    work,      \* per workspace, the instants at which an item needs a worker
    marks,     \* committed enqueues whose mark is still to be written
    worker,    \* each worker's pass
    enqueues,  \* items enqueued so far
    faults,    \* crashes and failed visits so far
    lastFailed \* when a visit of each workspace last raised

vars == <<now, index, work, marks, worker, enqueues, faults, lastFailed>>
-----------------------------------------------------------------------------
\* No row; as the read does, it sorts first and is always due.
Absent == 0

Idle == [at |-> "idle", todo |-> {}, workspace |-> NoWorkspace, started |-> 0,
         observed |-> [s \in Workspaces |-> Absent], ran |-> 0, next |-> 0]

TypeOK ==
    /\ now \in 1..Horizon
    /\ index \in [Workspaces -> Nat]
    /\ work \in [Workspaces -> SUBSET Nat]
    /\ marks \subseteq Workspaces \X (1..Horizon)
    /\ worker \in [Workers ->
         [at : {"idle", "pass", "drain", "record"}, todo : SUBSET Workspaces,
          workspace : Workspaces \cup {NoWorkspace}, started : Nat,
          observed : [Workspaces -> Nat], ran : 0..MaxPerVisit, next : Nat]]
    /\ enqueues \in 0..MaxEnqueues /\ faults \in 0..MaxFaults
    /\ lastFailed \in [Workspaces -> 0..Horizon]

Init ==
    /\ now = 1
    /\ index = [s \in Workspaces |-> Absent]
    /\ work = [s \in Workspaces |-> {}]
    /\ marks = {}
    /\ worker = [w \in Workers |-> Idle]
    /\ enqueues = 0 /\ faults = 0
    /\ lastFailed = [s \in Workspaces |-> 0]
-----------------------------------------------------------------------------
(* Enqueueing: the item commits in the workspace database, the mark follows  *)
(* in the control database.                                                  *)

Enqueue(s) ==
    /\ enqueues < MaxEnqueues /\ enqueues' = enqueues + 1
    /\ work' = [work EXCEPT ![s] = @ \cup {now}]
    /\ marks' = marks \cup {<<s, now>>}
    /\ UNCHANGED <<now, index, worker, faults, lastFailed>>

Least(a, b) == IF a <= b THEN a ELSE b

\* enqueue marks with the instant it queued the job at, a dispatch with the clock.
MarkWorkDue(s, t) ==
    /\ <<s, t>> \in marks
    /\ marks' = marks \ {<<s, t>>}
    /\ \E at \in {t, now} :
         index' = [index EXCEPT ![s] = IF @ = Absent THEN at ELSE Least(@, at)]
    /\ UNCHANGED <<now, work, worker, enqueues, faults, lastFailed>>

LoseMark(s, t) ==
    /\ MarksMayBeLost /\ <<s, t>> \in marks
    /\ marks' = marks \ {<<s, t>>}
    /\ UNCHANGED <<now, index, work, worker, enqueues, faults, lastFailed>>
-----------------------------------------------------------------------------
(* A pass.                                                                   *)

Due(s) == index[s] <= now

\* Mutant of Window: the latest due_at is read first.
WindowLatestFirst(S) ==
    /\ \A s \in S : Due(s)
    /\ Cardinality(S) <= CacheSize
    /\ \A s \in Workspaces \ S :
         Due(s) => /\ Cardinality(S) = CacheSize
                   /\ \A r \in S : index[r] >= index[s]

\* The rows read: the oldest due_at first, absent rows before all, up to the limit.
Window(S) ==
    /\ \A s \in S : Due(s)
    /\ Cardinality(S) <= CacheSize
    /\ \A s \in Workspaces \ S :
         Due(s) => /\ Cardinality(S) = CacheSize
                   /\ \A r \in S : index[r] <= index[s]

WorkspacesWithDueWork(w) ==
    /\ worker[w].at = "idle"
    /\ \E S \in SUBSET Workspaces :
         /\ S # {} /\ Window(S)
         /\ worker' = [worker EXCEPT ![w] =
              [Idle EXCEPT !.at = "pass", !.todo = S, !.started = now,
                           !.observed = [s \in Workspaces |->
                                           IF s \in S THEN index[s] ELSE Absent]]]
    /\ UNCHANGED <<now, index, work, marks, enqueues, faults, lastFailed>>

\* Cached engines go first, so within a pass any order is possible.
VisitWorkspace(w, s) ==
    /\ worker[w].at = "pass" /\ s \in worker[w].todo
    /\ worker' = [worker EXCEPT ![w].at = "drain", ![w].workspace = s, ![w].ran = 0]
    /\ UNCHANGED <<now, index, work, marks, enqueues, faults, lastFailed>>

\* The oldest due job, delivery or schedule is done, or goes back under its backoff.
RunItem(w) ==
    LET s == worker[w].workspace IN
    /\ worker[w].at = "drain" /\ worker[w].ran < MaxPerVisit
    /\ \E t \in work[s] :
         /\ t <= now /\ \A u \in work[s] : t <= u
         /\ \/ work' = [work EXCEPT ![s] = @ \ {t}]
            \/ work' = [work EXCEPT ![s] = (@ \ {t}) \cup {now + Backoff}]
    /\ worker' = [worker EXCEPT ![w].ran = @ + 1]
    /\ UNCHANGED <<now, index, marks, enqueues, faults, lastFailed>>

Soonest(S) == CHOOSE t \in S : \A u \in S : t <= u

\* Nothing left: the reconcile floor is the only term.
Nothing == Horizon + Reconcile + Backoff

\* A visit that stopped at its cap with work left is due again at once.
NextDueAt(w) ==
    IF work[worker[w].workspace] = {} THEN Nothing
    ELSE IF worker[w].ran = MaxPerVisit THEN now
    ELSE Soonest(work[worker[w].workspace])

EndVisit(w) ==
    /\ worker[w].at = "drain"
    /\ worker[w].ran < MaxPerVisit =>
          \A t \in work[worker[w].workspace] : t > now
    /\ worker' = [worker EXCEPT ![w].at = "record", ![w].next = NextDueAt(w)]
    /\ UNCHANGED <<now, index, work, marks, enqueues, faults, lastFailed>>

\* The visit raised: come back later, counted from the start of the pass.
VisitFails(w) ==
    /\ worker[w].at = "drain"
    /\ faults < MaxFaults /\ faults' = faults + 1
    /\ worker' = [worker EXCEPT ![w].at = "record",
                                ![w].next = worker[w].started + Backoff]
    /\ lastFailed' = [lastFailed EXCEPT ![worker[w].workspace] = now]
    /\ UNCHANGED <<now, index, work, marks, enqueues>>

\* Mutant of NewDueAt: the floor is left out.
NewDueAtNoFloor(next) == next

NewDueAt(next) == Least(next, now + Reconcile)

\* Compare-and-set on the due_at the pass read.
RecordVisit(w) ==
    LET s    == worker[w].workspace
        rest == worker[w].todo \ {s}
    IN
    /\ worker[w].at = "record"
    /\ index' = IF index[s] = worker[w].observed[s]
                THEN [index EXCEPT ![s] = NewDueAt(worker[w].next)] ELSE index
    /\ worker' = [worker EXCEPT ![w] =
         IF rest = {} THEN Idle
         ELSE [worker[w] EXCEPT !.at = "pass", !.todo = rest, !.workspace = NoWorkspace,
                                !.observed[s] = Absent, !.ran = 0, !.next = 0]]
    /\ UNCHANGED <<now, work, marks, enqueues, faults, lastFailed>>

\* A worker dies in mid-pass, and is restarted.
Crash(w) ==
    /\ worker[w].at # "idle"
    /\ faults < MaxFaults /\ faults' = faults + 1
    /\ worker' = [worker EXCEPT ![w] = Idle]
    /\ UNCHANGED <<now, index, work, marks, enqueues, lastFailed>>

\* Time passes only as fast as idle workers poll, passes end and marks follow.
Tick ==
    /\ now < Horizon
    /\ \A m \in marks : now < m[2] + PassTicks
    /\ \A w \in Workers :
         IF worker[w].at = "idle" THEN \A s \in Workspaces : ~Due(s)
         ELSE now < worker[w].started + PassTicks
    /\ now' = now + 1
    /\ UNCHANGED <<index, work, marks, worker, enqueues, faults, lastFailed>>
-----------------------------------------------------------------------------
Next ==
    \/ \E s \in Workspaces : Enqueue(s)
    \/ \E m \in marks : MarkWorkDue(m[1], m[2]) \/ LoseMark(m[1], m[2])
    \/ \E w \in Workers :
         \/ WorkspacesWithDueWork(w)
         \/ \E s \in Workspaces : VisitWorkspace(w, s)
         \/ RunItem(w) \/ EndVisit(w) \/ VisitFails(w) \/ RecordVisit(w)
         \/ Crash(w)
    \/ Tick

Spec == Init /\ [][Next]_vars
-----------------------------------------------------------------------------
(* Properties.                                                               *)

(* The guarantee of the index, "a bounded upper delay": an item that needs a *)
(* worker at t is due in the index one reconcile interval and one pass after *)
(* t, even when its mark was lost in a crash, discarded by a compare-and-set *)
(* or overtaken by another visitor (record_visit's floor).  Only a visit     *)
(* that raised puts its workspace off for longer, and by no more than the    *)
(* delay of a failed visit, counted from the last that did.                  *)
BoundedDelay ==
    \A s \in Workspaces : \A t \in work[s] :
        \/ Due(s)
        \/ index[s] <= t + Reconcile + PassTicks
        \/ index[s] <= lastFailed[s] + Backoff

(* No workspace is passed over for ever when there are more of them than a   *)
(* pass may visit: what is due is under a visit within one pass per          *)
(* workspace and crash, and one for a late mark (workspaces_with_due_work    *)
(* reads the oldest due_at first).                                           *)
NoStarvation ==
    \A s \in Workspaces :
        /\ index[s] # Absent
        /\ index[s] + (Cardinality(Workspaces) + faults + 1) * PassTicks < now
        => \E w \in Workers : s \in worker[w].todo

(* A mark that lands while a visit is under way stands: once no mark is      *)
(* outstanding and nobody is visiting, a workspace with due work is due in   *)
(* the index ("a mark_work_due that committed since the read survives        *)
(* untouched", record_visit).                                                *)
MarkedWorkIsDue ==
    \A s \in Workspaces :
        /\ \A w \in Workers : s \notin worker[w].todo
        /\ \A m \in marks : m[1] # s
        /\ \E t \in work[s] : t <= now
        => Due(s)
=============================================================================
