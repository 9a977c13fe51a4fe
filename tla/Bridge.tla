------------------------------- MODULE Bridge -------------------------------
(***************************************************************************)
(* The laptop side of automatic memory for one session: the hook that      *)
(* spools a sighting at every turn's end, the worker that drains the       *)
(* session's transcript under worker.lock (apps/bridge/src/rheo_bridge:    *)
(* hook.py, worker.py, settle.py, state.py) and the server's ingest of its *)
(* batches (packages/core/src/rheo_core/evidence/ingest.py, record.py).    *)
(*                                                                         *)
(* A transcript is a file that grows by lines and may be replaced (a new   *)
(* inode), vanish, come back or be moved out of the enrolled directory at  *)
(* any moment; a line is named by its inode and its place.  Times are      *)
(* abstracted to what they decide: a sighting is early or late against the *)
(* start of the drain that closed the session, a hold waits or is due, a   *)
(* line is old.                                                            *)
(***************************************************************************)
EXTENDS Naturals, FiniteSets

CONSTANTS
    MaxLines,       \* lines of one file
    MaxInodes,      \* files the transcript's path names in turn
    LineKind,       \* by place: "turn" (a person's), "skipped" or "other"
    Ageing,         \* lines that may pass max_pending_hours unsent
    BatchLimit,     \* config.max_records, items of one pass
    MaxBridgeFaults \* bound on crashes, lost requests and answers, unreadable files,
                    \* moves of the source and closings of the gate

Lines == (1..MaxInodes) \X (1..MaxLines)

ASSUME BridgeAssumption ==
    /\ MaxLines \in Nat /\ MaxInodes \in Nat \ {0} /\ MaxBridgeFaults \in Nat
    /\ LineKind \in [1..MaxLines -> {"turn", "skipped", "other"}]
    /\ Ageing \subseteq Lines /\ BatchLimit \in Nat \ {0}

VARIABLES
    transcript,     \* the file its path names: where, inode, size
    old,            \* lines past max_pending_hours
    turnOpen,       \* lines were written since the last hook
    spool,          \* the sighting not folded yet: none, early, late
    session,        \* the row of state.sqlite
    hold,           \* none, waiting (before hold_until), due (a step, its time past)
    drain,          \* the worker's place, whether it probes, its batch and the answer
    recording,      \* the server's recording gate and an active enrollment
    answered,       \* keys the server has accepted, gapped or dropped, ever
    bridgeFaults

bridgeVars == <<transcript, old, turnOpen, spool, session, hold, drain, recording,
                answered, bridgeFaults>>
-----------------------------------------------------------------------------
RecordKey(l)  == <<"record", l>>
ExpiredKey(l) == <<"expired", l>>
GapKey(c)     == <<"gap", c>>

Keys == {RecordKey(l) : l \in Lines} \cup {ExpiredKey(l) : l \in Lines}
          \cup {GapKey(c) : c \in 0..MaxLines}

NoSession == [known |-> FALSE, cursor |-> 0, inode |-> 0, pendingGap |-> FALSE,
              closed |-> FALSE]
NoBatch   == [gap |-> {}, gone |-> FALSE, items |-> {}, end |-> 0, inode |-> 0]
NotDraining == [at |-> "idle", probe |-> FALSE, batch |-> NoBatch, answer |-> {}]

\* An item is a place and the key the line is sent under.
Items == [place : 1..MaxLines, key : Keys]

BridgeTypeOK ==
    /\ transcript \in [where : {"present", "gone", "refused"}, inode : 1..MaxInodes,
                       size : 0..MaxLines]
    /\ old \subseteq Ageing /\ turnOpen \in BOOLEAN /\ spool \in {"none", "early", "late"}
    /\ session \in [known : BOOLEAN, cursor : 0..MaxLines, inode : 0..MaxInodes,
                    pendingGap : BOOLEAN, closed : BOOLEAN]
    /\ hold \in {"none", "waiting", "due"}
    /\ drain.at \in {"idle", "collect", "post", "settle"} /\ drain.probe \in BOOLEAN
    /\ drain.batch.items \subseteq Items /\ drain.batch.gap \subseteq Keys
    /\ drain.batch.end \in 0..MaxLines /\ drain.answer \subseteq Keys
    /\ recording \in BOOLEAN /\ answered \subseteq Keys
    /\ bridgeFaults \in 0..MaxBridgeFaults

BridgeInit ==
    /\ transcript = [where |-> "present", inode |-> 1, size |-> 0]
    /\ old = {} /\ turnOpen = FALSE /\ spool = "none" /\ session = NoSession
    /\ hold = "none" /\ drain = NotDraining /\ recording = TRUE /\ answered = {}
    /\ bridgeFaults = 0
-----------------------------------------------------------------------------
(* What happens around the bridge.                                           *)

Fault == bridgeFaults < MaxBridgeFaults /\ bridgeFaults' = bridgeFaults + 1

WriteLine ==
    /\ transcript.where = "present" /\ transcript.size < MaxLines
    /\ transcript' = [transcript EXCEPT !.size = @ + 1] /\ turnOpen' = TRUE
    /\ UNCHANGED <<old, spool, session, hold, drain, recording, answered, bridgeFaults>>

\* The path names another file, none, or one outside the enrolled directory.
MoveSource ==
    /\ Fault
    /\ \/ /\ transcript.inode < MaxInodes
          /\ transcript' = [where |-> "present", inode |-> transcript.inode + 1, size |-> 0]
       \/ \E w \in {"present", "gone", "refused"} \ {transcript.where} :
            transcript' = [transcript EXCEPT !.where = w]
    /\ UNCHANGED <<old, turnOpen, spool, session, hold, drain, recording, answered>>

LineAges ==
    /\ \E l \in Ageing \ old :
         l[1] = transcript.inode /\ l[2] <= transcript.size /\ old' = old \cup {l}
    /\ UNCHANGED <<transcript, turnOpen, spool, session, hold, drain, recording, answered,
                   bridgeFaults>>

\* The recording gate or the enrollment changes.
SetRecording ==
    /\ recording' = ~recording
    /\ IF recording THEN Fault ELSE UNCHANGED bridgeFaults
    /\ UNCHANGED <<transcript, old, turnOpen, spool, session, hold, drain, answered>>

HoldElapses ==
    /\ hold = "waiting" /\ hold' = "due"
    /\ UNCHANGED <<transcript, old, turnOpen, spool, session, drain, recording, answered,
                   bridgeFaults>>

\* Stop or SessionEnd: one sighting, written now.
Hook ==
    /\ turnOpen /\ turnOpen' = FALSE /\ spool' = "late"
    /\ UNCHANGED <<transcript, old, session, hold, drain, recording, answered,
                   bridgeFaults>>
-----------------------------------------------------------------------------
(* The drain's start: fold the spool, prune tombstones, honour the hold.     *)

\* Mutant of Reopened: a tombstone is left closed whatever was sighted.
ReopenedNever(row, sighting) == row

\* _reopen: only a sighting of the closing drain's start or later.
Reopened(row, sighting) ==
    IF sighting = "late" THEN [row EXCEPT !.closed = FALSE] ELSE row

Folded(row, sighting) ==
    IF sighting = "none" THEN row
    ELSE IF ~row.known THEN [NoSession EXCEPT !.known = TRUE]
    ELSE IF row.closed THEN Reopened(row, sighting) ELSE row

\* A sighting left in the spool precedes this drain's start, and so a closing in it.
Dated(row, sighting) ==
    IF sighting = "late" /\ ~row.closed THEN "early" ELSE sighting

Started(row) ==
    /\ drain' = IF hold = "waiting" THEN drain
                ELSE [NotDraining EXCEPT !.at = "collect", !.probe = (hold = "due")]
    /\ \/ session' = row
       \/ row.known /\ row.closed /\ session' = NoSession

\* Without a row or a sighting a run of the worker does nothing.
DrainStart ==
    /\ drain.at = "idle" /\ (session.known \/ spool # "none")
    /\ spool' = "none" /\ Started(Folded(session, spool))
    /\ UNCHANGED <<transcript, old, turnOpen, hold, recording, answered, bridgeFaults>>

DrainStartUnread ==
    /\ drain.at = "idle" /\ Fault /\ spool # "none"
    /\ spool' = Dated(session, spool) /\ Started(session)
    /\ UNCHANGED <<transcript, old, turnOpen, hold, recording, answered>>
-----------------------------------------------------------------------------
(* One pass: collect a batch, post it, settle what the server answered.      *)

\* The window's complete lines, bounded by the byte budget.
Window(start) ==
    IF start = transcript.size THEN {start} ELSE (start + 1)..transcript.size

\* An old line is sent as a gap.
Item(n, i) ==
    [place |-> i,
     key   |-> IF <<n, i>> \in old THEN ExpiredKey(<<n, i>>) ELSE RecordKey(<<n, i>>)]

TurnPlaces(from, to) == {i \in (from + 1)..to : LineKind[i] = "turn"}

\* The first turns of a window, up to the pass's item limit.
Selected(from, to, limit) ==
    {i \in TurnPlaces(from, to) : Cardinality(TurnPlaces(from, i)) <= limit}

\* Reading stops after the last item the limit admits.
Consumed(from, to, limit) ==
    IF limit = 0 THEN from
    ELSE IF Cardinality(TurnPlaces(from, to)) >= limit
    THEN CHOOSE i \in Selected(from, to, limit) :
           \A j \in Selected(from, to, limit) : j <= i
    ELSE to

Replaced ==
    \/ session.inode # 0 /\ transcript.inode # session.inode
    \/ transcript.size < session.cursor

ReadBatch(to) ==
    LET start == IF Replaced THEN 0 ELSE session.cursor
        limit == IF Replaced THEN BatchLimit - 1 ELSE BatchLimit
    IN [gap   |-> IF Replaced THEN {GapKey(session.cursor)} ELSE {},
        gone  |-> FALSE,
        items |-> {Item(transcript.inode, i) : i \in Selected(start, to, limit)},
        end   |-> Consumed(start, to, limit),
        inode |-> transcript.inode]

GoneBatch ==
    [gap |-> {GapKey(session.cursor)}, gone |-> TRUE, items |-> {},
     end |-> session.cursor, inode |-> session.inode]

First(items) == CHOOSE i \in items : \A j \in items : i.place <= j.place

\* _probe: the gap alone, or the first item alone.
Probe(b) ==
    IF b.gap # {} THEN [b EXCEPT !.items = {}, !.end = IF b.gone THEN @ ELSE 0]
    ELSE IF b.items = {} THEN b
    ELSE [b EXCEPT !.items = {First(b.items)}, !.end = First(b.items).place]

\* A batch with nothing to send is settled without a request.
Batched(b) ==
    LET p == IF drain.probe THEN Probe(b) ELSE b IN
    drain' = [drain EXCEPT !.at = IF p.gap = {} /\ p.items = {} THEN "settle" ELSE "post",
                           !.batch = p, !.answer = {}]

Listed == session.known /\ ~session.closed

CollectNothing ==
    /\ drain.at = "collect" /\ (~Listed \/ transcript.where = "refused")
    /\ session' = IF Listed THEN NoSession ELSE session
    /\ drain' = NotDraining
    /\ UNCHANGED <<transcript, old, turnOpen, spool, hold, recording, answered,
                   bridgeFaults>>

CollectGone ==
    /\ drain.at = "collect" /\ Listed /\ transcript.where = "gone"
    /\ session' = [session EXCEPT !.pendingGap = TRUE]
    /\ Batched(GoneBatch)
    /\ UNCHANGED <<transcript, old, turnOpen, spool, hold, recording, answered,
                   bridgeFaults>>

CollectLines ==
    /\ drain.at = "collect" /\ Listed /\ transcript.where = "present"
    /\ session' = [session EXCEPT !.pendingGap = FALSE]
    /\ \E to \in Window(IF Replaced THEN 0 ELSE session.cursor) : Batched(ReadBatch(to))
    /\ UNCHANGED <<transcript, old, turnOpen, spool, hold, recording, answered,
                   bridgeFaults>>

Sent == drain.batch.gap \cup {i.key : i \in drain.batch.items}

Records == {i \in drain.batch.items : i.key[1] = "record"}

\* What ingest answers for: every gap, and the records up to the first it defers.
Admitted ==
    {(Sent \ {i.key : i \in Records}) \cup {i.key : i \in {r \in Records : r.place <= p}} :
       p \in IF Records = {} THEN {0} ELSE {r.place : r \in Records}}

Ingest(keys) == answered' = answered \cup keys

\* An answer that acknowledges nothing holds.
PostAnswered ==
    /\ drain.at = "post"
    /\ IF recording
       THEN \E keys \in Admitted :
              /\ Ingest(keys) /\ UNCHANGED hold
              /\ drain' = [drain EXCEPT !.at = "settle", !.answer = keys]
       ELSE hold' = "waiting" /\ drain' = NotDraining /\ UNCHANGED answered
    /\ UNCHANGED <<transcript, old, turnOpen, spool, session, recording, bridgeFaults>>

\* The request or its answer is lost: what the server did stands.
PostLost ==
    /\ drain.at = "post" /\ Fault
    /\ \/ UNCHANGED answered
       \/ recording /\ \E keys \in Admitted : Ingest(keys)
    /\ hold' = "waiting" /\ drain' = NotDraining
    /\ UNCHANGED <<transcript, old, turnOpen, spool, session, recording>>

Unanswered == {i \in drain.batch.items : i.key \notin drain.answer}

\* Mutant of Target: the cursor passes the whole range once anything is answered.
TargetWhole == drain.batch.end

\* The cursor stops before the first line the server has not answered for.
Target == IF Unanswered = {} THEN drain.batch.end ELSE First(Unanswered).place - 1

\* The session is closed only when its file, looked at again, ends at the cursor.
AtEof ==
    /\ transcript.where = "present" /\ transcript.size = Target
    /\ transcript.inode = drain.batch.inode

SettleLines ==
    LET row == [session EXCEPT !.cursor = Target, !.inode = drain.batch.inode] IN
    /\ ~drain.batch.gone
    /\ IF drain.batch.gap \subseteq drain.answer
       THEN \/ session' = row
            \/ /\ Target = drain.batch.end /\ AtEof
               /\ session' = [row EXCEPT !.closed = TRUE]
            \/ /\ Target = drain.batch.end /\ transcript.where = "refused"
               /\ session' = NoSession
       ELSE UNCHANGED session

SettleGone ==
    /\ drain.batch.gone
    /\ session' = CASE transcript.where = "gone" -> [session EXCEPT !.closed = TRUE]
                    [] transcript.where = "present" -> [session EXCEPT !.pendingGap = FALSE]
                    [] transcript.where = "refused" -> NoSession

\* One commit for the cursor, the closing and the hold; another pass if it moved.
Settle ==
    /\ drain.at = "settle" /\ (SettleLines \/ SettleGone)
    /\ hold' = IF Sent = {} THEN hold ELSE "none"
    /\ drain' = IF ~drain.probe /\ (session'.cursor # session.cursor
                                    \/ session'.inode # session.inode
                                    \/ session'.closed # session.closed
                                    \/ session'.known # session.known)
                THEN [NotDraining EXCEPT !.at = "collect"] ELSE NotDraining
    /\ UNCHANGED <<transcript, old, turnOpen, spool, recording, answered, bridgeFaults>>

\* The process dies, or cannot open the file it found.
DrainFails ==
    /\ drain.at # "idle" /\ Fault /\ drain' = NotDraining
    /\ UNCHANGED <<transcript, old, turnOpen, spool, session, hold, recording, answered>>
-----------------------------------------------------------------------------
DrainStep ==
    \/ DrainStart \/ CollectNothing \/ CollectGone \/ CollectLines \/ PostAnswered
    \/ Settle

BridgeNext ==
    \/ WriteLine \/ MoveSource \/ LineAges \/ SetRecording \/ HoldElapses \/ Hook
    \/ DrainStep \/ DrainStartUnread \/ PostLost \/ DrainFails

\* Every turn's end runs the hook, and later turns, of any session, run the worker.
BridgeFairness ==
    /\ WF_bridgeVars(Hook) /\ WF_bridgeVars(HoldElapses) /\ WF_bridgeVars(DrainStep)

BridgeSpec == BridgeInit /\ [][BridgeNext]_bridgeVars /\ BridgeFairness
-----------------------------------------------------------------------------
LineAnswered(l) == RecordKey(l) \in answered \/ ExpiredKey(l) \in answered

(* No turn is passed over: the cursor is past a person's line only when the  *)
(* server answered for it; it leaves a file for another, and a session whose *)
(* file is gone is closed, only once the server holds the gap for it; and a  *)
(* session closed over a file had all of it answered.  Crashes, lost answers *)
(* and files that change between the read, the post and the commit are       *)
(* included (settle.py _settle, _settle_gone, _close_at_eof).                *)
NoTurnPassedOver ==
    /\ [](session.inode # 0 =>
            \A i \in 1..session.cursor :
              LineKind[i] = "turn" => LineAnswered(<<session.inode, i>>))
    /\ [][session'.known /\ session.inode # 0 /\ session'.inode # session.inode
            => GapKey(session.cursor) \in answered]_bridgeVars
    /\ [][session'.closed /\ ~session.closed =>
            IF transcript.where = "present"
            THEN session'.cursor = transcript.size /\ session'.inode = transcript.inode
            ELSE GapKey(session.cursor) \in answered]_bridgeVars

(* Every turn reaches the server: while the path names a file, and the gate  *)
(* is open in the end, the server catches up with every person's line of the *)
(* file there is, through crashes, holds, lost answers, a replaced file and  *)
(* a session closed and sighted again (worker.py _run, _reopen).             *)
TurnsAreAnswered ==
    [](transcript.where = "present") /\ <>[]recording =>
      []<>(\A i \in 1..transcript.size :
             LineKind[i] = "turn" => LineAnswered(<<transcript.inode, i>>))
=============================================================================
