------------------------------- MODULE JobFeed -------------------------------
(***************************************************************************)
(* The job feed's credentials and deliveries in one workspace              *)
(* (modules/leads/src/rheo_leads/jobfeed: authorization.py, run.py,        *)
(* state.py, delivery.py) over the OAuth client of                         *)
(* packages/core/src/rheo_core/connectors/oauth.py.                        *)
(*                                                                         *)
(* An owner's browser connects, reconnects and revokes while the scheduled *)
(* run refreshes a token the provider rotates on use.  Each short unit of  *)
(* work and each call upstream is a step of its own; a file is discarded   *)
(* in a step after the commit that retired it.  Discarding is best effort: *)
(* a file it fails to remove is one that nothing references.  A client's   *)
(* two secret files are one here, and the backoff, like the claim's window,*)
(* is time that passes.                                                    *)
(***************************************************************************)
EXTENDS Naturals, FiniteSets

CONSTANTS
    Tabs,           \* the owner's browser sessions
    FeedRuns,       \* worker processes that run leads.jobfeed_collect
    Postings,       \* postings the feed lists
    MaxTokens,      \* bound on refresh tokens minted
    MaxRegistered,  \* bound on clients registered
    MaxNumber,      \* bound on a posting's deliveries
    MaxFeedActs,    \* bound on starts, revocations and erasures
    MaxFeedFaults   \* bound on crashes, refusals upstream, and commits that raise

ASSUME JobFeedAssumption ==
    /\ IsFiniteSet(Tabs) /\ IsFiniteSet(FeedRuns) /\ IsFiniteSet(Postings)
    /\ {MaxTokens, MaxRegistered, MaxNumber, MaxFeedActs, MaxFeedFaults} \subseteq Nat

VARIABLES
    feed,           \* the jobfeed_connection row, and its schedule
    feedPending,    \* the jobfeed_authorization row
    token,          \* refresh tokens: the file, the provider's view, what it rotated to
    registered,     \* registered clients: their files
    tab,            \* where each browser request stands
    run,            \* where each run stands
    numbers,        \* the sequence numbers among a posting's receipts
    dedupe,         \* the number in a posting's dedupe row, 0 without one
    feedActs,
    feedFaults

feedVars == <<feed, feedPending, token, registered, tab, run, numbers, dedupe,
              feedActs, feedFaults>>
-----------------------------------------------------------------------------
Tokens == 1..MaxTokens
FeedClients == 1..MaxRegistered

\* 0 is no token, and no client.
NoFeed    == [state |-> "none", token |-> 0, generation |-> 0, client |-> 0,
              claimed |-> FALSE, account |-> "none", listed |-> FALSE, schedule |-> FALSE]
NoPending == [there |-> FALSE, mode |-> "connect", client |-> 0, fresh |-> FALSE]
IdleTab   == [at |-> "idle", mode |-> "connect", client |-> 0, fresh |-> FALSE,
              token |-> 0, generation |-> 0, tokens |-> {}, clients |-> {}]
IdleRun   == [at |-> "idle", generation |-> 0, client |-> 0, old |-> 0, new |-> 0,
              tokens |-> {}, clients |-> {}]

JobFeedTypeOK ==
    /\ feed \in [state : {"none", "connected", "authorization_required", "revoked"},
                 token : 0..MaxTokens, generation : Nat, client : 0..MaxRegistered,
                 claimed : BOOLEAN, account : {"none", "run", "owner"},
                 listed : BOOLEAN, schedule : BOOLEAN]
    /\ feedPending \in [there : BOOLEAN, mode : {"connect", "reconnect"},
                        client : 0..MaxRegistered, fresh : BOOLEAN]
    /\ token \in [Tokens -> [file : {"none", "kept", "gone"},
                             grant : {"live", "spent", "revoked"}, next : 0..MaxTokens]]
    /\ registered \in [FeedClients -> {"none", "kept", "gone"}]
    /\ tab \in [Tabs -> [at : {"idle", "starting", "exchanging", "storing", "clearing",
                               "ended", "unwanted", "refused", "retiring"},
                         mode : {"connect", "reconnect", "revoke"},
                         client : 0..MaxRegistered, fresh : BOOLEAN,
                         token : 0..MaxTokens, generation : Nat,
                         tokens : SUBSET Tokens, clients : SUBSET FeedClients]]
    /\ run \in [FeedRuns -> [at : {"idle", "read", "claimed", "switching", "unsure", "again",
                               "lost", "won", "retiring", "session", "selecting",
                               "collected", "rejected", "cleared", "terminal"},
                         generation : Nat, client : 0..MaxRegistered,
                         old : 0..MaxTokens, new : 0..MaxTokens,
                         tokens : SUBSET Tokens, clients : SUBSET FeedClients]]
    /\ numbers \in [Postings -> SUBSET (1..MaxNumber)]
    /\ dedupe \in [Postings -> 0..MaxNumber]
    /\ feedActs \in 0..MaxFeedActs /\ feedFaults \in 0..MaxFeedFaults

JobFeedInit ==
    /\ feed = NoFeed /\ feedPending = NoPending
    /\ token = [t \in Tokens |-> [file |-> "none", grant |-> "live", next |-> 0]]
    /\ registered = [c \in FeedClients |-> "none"]
    /\ tab = [o \in Tabs |-> IdleTab] /\ run = [r \in FeedRuns |-> IdleRun]
    /\ numbers = [p \in Postings |-> {}] /\ dedupe = [p \in Postings |-> 0]
    /\ feedActs = 0 /\ feedFaults = 0

FeedAct   == feedActs < MaxFeedActs /\ feedActs' = feedActs + 1 /\ UNCHANGED feedFaults
FeedFault == feedFaults < MaxFeedFaults /\ feedFaults' = feedFaults + 1
             /\ UNCHANGED feedActs
FeedStep  == UNCHANGED <<feedActs, feedFaults>>
-----------------------------------------------------------------------------
(* The OAuth client: what a call finds, and what it leaves behind.           *)

\* apply_client_authentication: a client whose secret is gone is rejected unsent.
Readable(c) == c # 0 /\ registered[c] = "kept"

\* _write_secrets and discard.
NewTokens  == {t \in Tokens : /\ token[t].file = "none"
                             /\ \A s \in 1..(t - 1) : token[s].file # "none"}
NewClients == {c \in FeedClients : /\ registered[c] = "none"
                                  /\ \A d \in 1..(c - 1) : registered[d] # "none"}
Saved(t)   == [token EXCEPT ![t].file = "kept"]
WithoutTokens(ts)  == [t \in Tokens |-> IF t \in ts
                       THEN [file |-> "gone", grant |-> "spent", next |-> 0] ELSE token[t]]
WithoutClients(cs) == [c \in FeedClients |-> IF c \in cs THEN "gone" ELSE registered[c]]

\* revoke: never raises.  Without a readable client or token nothing is sent, and an
\* answer other than success changes nothing.
RevokedUpstream(t, c) ==
    {token} \cup (IF Readable(c) /\ token[t].file = "kept"
                  THEN {[token EXCEPT ![t].grant = "revoked"]} ELSE {})
-----------------------------------------------------------------------------
(* The owner: connect, reconnect, the callback's completion, revoke.         *)

TabGoes(o, at) == tab' = [tab EXCEPT ![o].at = at]
TabEnds(o)     == tab' = [tab EXCEPT ![o] = IdleTab]
\* The request ends after it has discarded these files.
TabRetires(o, ts, cs) ==
    tab' = [tab EXCEPT ![o] = IF ts \cup cs = {} THEN IdleTab
                              ELSE [IdleTab EXCEPT !.at = "retiring", !.tokens = ts,
                                                   !.clients = cs]]

Fresh(o) == IF tab[o].fresh THEN {tab[o].client} ELSE {}

\* connect and reconnect, to the end of registration: a stored client that fits what
\* was discovered is reused, any other is registered now.
BeginStart(o) ==
    LET mode == IF feed.state = "none" THEN "connect" ELSE "reconnect" IN
    /\ tab[o].at = "idle" /\ FeedAct
    /\ \/ /\ mode = "reconnect" /\ feed.client # 0
          /\ tab' = [tab EXCEPT ![o] = [IdleTab EXCEPT !.at = "starting", !.mode = mode,
                                                       !.client = feed.client]]
          /\ UNCHANGED registered
       \/ \E c \in NewClients :
            /\ registered' = [registered EXCEPT ![c] = "kept"]
            /\ tab' = [tab EXCEPT ![o] = [IdleTab EXCEPT !.at = "starting", !.mode = mode,
                                            !.client = c, !.fresh = TRUE]]
    /\ UNCHANGED <<feed, feedPending, token, run, numbers, dedupe>>

\* _start: the pending row is replaced, and a replaced row's own files go after that.
Start(o) ==
    LET stale == \/ tab[o].mode = "connect" /\ feed.state # "none"
                 \/ ~tab[o].fresh /\ feed.client # tab[o].client
    IN /\ tab[o].at = "starting" /\ FeedStep
       /\ \/ stale /\ TabRetires(o, {}, Fresh(o)) /\ UNCHANGED feedPending
          \/ /\ ~stale
             /\ feedPending' = [there |-> TRUE, mode |-> tab[o].mode,
                                client |-> tab[o].client, fresh |-> tab[o].fresh]
             /\ TabRetires(o, {}, IF feedPending.there /\ feedPending.fresh
                                  THEN {feedPending.client} ELSE {})
       /\ UNCHANGED <<feed, token, registered, run, numbers, dedupe>>

\* _consume and _check: the row goes first; an expired state, another account, a
\* provider's error, end it there.
Consume(o) ==
    /\ tab[o].at = "idle" /\ feedPending.there
    /\ feedPending' = NoPending
    /\ \/ /\ FeedStep
          /\ tab' = [tab EXCEPT ![o] = [IdleTab EXCEPT !.at = "exchanging",
               !.mode = feedPending.mode, !.client = feedPending.client,
               !.fresh = feedPending.fresh]]
       \/ /\ FeedFault
          /\ TabRetires(o, {}, IF feedPending.fresh THEN {feedPending.client} ELSE {})
    /\ UNCHANGED <<feed, token, registered, run, numbers, dedupe>>

\* _exchange: a new token; a rejected client, cleared if it is the stored one; or
\* another failure.
Exchange(o) ==
    /\ tab[o].at = "exchanging"
    /\ \/ /\ Readable(tab[o].client) /\ FeedStep
          /\ \E t \in NewTokens : token' = Saved(t)
               /\ tab' = [tab EXCEPT ![o].at = "storing", ![o].token = t]
       \/ /\ IF Readable(tab[o].client) THEN FeedFault ELSE FeedStep
          /\ IF tab[o].fresh THEN TabRetires(o, {}, Fresh(o)) ELSE TabGoes(o, "clearing")
          /\ UNCHANGED token
       \/ /\ Readable(tab[o].client) /\ FeedFault
          /\ TabRetires(o, {}, Fresh(o)) /\ UNCHANGED token
    /\ UNCHANGED <<feed, feedPending, registered, run, numbers, dedupe>>

\* _write_connection: install, or re-pin at the next generation.
Repinned(o) ==
    [feed EXCEPT !.state = "connected", !.token = tab[o].token, !.client = tab[o].client,
                 !.generation = @ + 1, !.schedule = TRUE]

\* _store: what the write retires is discarded once it has committed; a write that
\* refuses or raises discards the new token's file and a fresh client's instead.
Store(o) ==
    LET refused == \/ tab[o].mode = "connect" /\ feed.state # "none"
                   \/ tab[o].mode = "reconnect" /\ ~tab[o].fresh
                      /\ feed.client # tab[o].client
    IN /\ tab[o].at = "storing"
       /\ \/ /\ ~refused /\ FeedStep /\ feed' = Repinned(o)
             /\ TabRetires(o, {feed.token} \ {0}, IF tab[o].fresh THEN {feed.client} \ {0}
                                                  ELSE {})
          \/ /\ IF refused THEN FeedStep ELSE FeedFault
             /\ TabRetires(o, {tab[o].token}, Fresh(o)) /\ UNCHANGED feed
       /\ UNCHANGED <<feedPending, token, registered, run, numbers, dedupe>>

\* _clear_client: a completion whose stored client was rejected makes the connection
\* terminal; a revocation's clears it only as it left the connection.
ClearClient(o) ==
    LET revoking == tab[o].mode = "revoke"
        same == /\ feed.client = tab[o].client
                /\ revoking => feed.state = "revoked" /\ feed.generation = tab[o].generation
    IN /\ tab[o].at = "clearing" /\ FeedStep
       /\ \/ /\ same /\ TabRetires(o, {}, {feed.client})
             /\ feed' = IF revoking THEN [feed EXCEPT !.client = 0]
                        ELSE [feed EXCEPT !.client = 0, !.schedule = FALSE,
                                          !.state = "authorization_required"]
          \/ ~same /\ TabEnds(o) /\ UNCHANGED feed
       /\ UNCHANGED <<feedPending, token, registered, run, numbers, dedupe>>

\* _end_locally: the reference is cleared and captured before anything goes upstream.
Revoke(o) ==
    /\ tab[o].at = "idle" /\ feed.state # "none" /\ FeedAct
    /\ feed' = [feed EXCEPT !.state = "revoked", !.token = 0, !.generation = @ + 1,
                            !.schedule = FALSE]
    /\ tab' = [tab EXCEPT ![o] = [IdleTab EXCEPT !.at = "ended", !.mode = "revoke",
                 !.client = feed.client, !.token = feed.token,
                 !.generation = feed.generation + 1]]
    /\ UNCHANGED <<feedPending, token, registered, run, numbers, dedupe>>

\* _revoke_upstream: exactly the captured reference, as the captured client, which may
\* be rejected.
RevokeUpstream(o) ==
    /\ tab[o].at = "ended"
    /\ \/ /\ TabGoes(o, "unwanted") /\ FeedStep
          /\ IF tab[o].token = 0 THEN UNCHANGED token
             ELSE token' \in RevokedUpstream(tab[o].token, tab[o].client)
       \/ /\ tab[o].token # 0 /\ tab[o].client # 0 /\ TabGoes(o, "refused")
          /\ IF Readable(tab[o].client) THEN FeedFault ELSE FeedStep
          /\ UNCHANGED token
    /\ UNCHANGED <<feed, feedPending, registered, run, numbers, dedupe>>

\* The captured file goes, then a client that was rejected.
RevokeDiscards(o) ==
    /\ tab[o].at \in {"unwanted", "refused"} /\ FeedStep
    /\ token' = WithoutTokens({tab[o].token})
    /\ IF tab[o].at = "refused" THEN TabGoes(o, "clearing") ELSE TabEnds(o)
    /\ UNCHANGED <<feed, feedPending, registered, run, numbers, dedupe>>

\* _discard_files.
TabDiscards(o) ==
    /\ tab[o].at = "retiring" /\ TabEnds(o) /\ FeedStep
    /\ token' = WithoutTokens(tab[o].tokens)
    /\ registered' = WithoutClients(tab[o].clients)
    /\ UNCHANGED <<feed, feedPending, run, numbers, dedupe>>

\* select_account: one of the listed accounts; a connection that is not connected keeps
\* its schedule off.
SelectAccount ==
    /\ feed.listed /\ feed.account # "owner" /\ FeedStep
    /\ feed' = [feed EXCEPT !.account = "owner", !.schedule = feed.state = "connected"]
    /\ UNCHANGED <<feedPending, token, registered, tab, run, numbers, dedupe>>

TabCrashes(o) ==
    /\ tab[o].at # "idle" /\ TabEnds(o) /\ FeedFault
    /\ UNCHANGED <<feed, feedPending, token, registered, run, numbers, dedupe>>
-----------------------------------------------------------------------------
(* The scheduled run.                                                        *)

RunGoes(r, at) == run' = [run EXCEPT ![r].at = at]
RunEnds(r)     == run' = [run EXCEPT ![r] = IdleRun]
\* From here on the run needs no more than the generation it is guarded on.
RunNeedsOnlyItsClaim(r, at) ==
    run' = [run EXCEPT ![r] = [IdleRun EXCEPT !.at = at, !.generation = run[r].generation]]

\* The connection is still the one the run claimed (claimed_connection).
StillClaimed(r) == feed.state = "connected" /\ feed.generation = run[r].generation

\* _collect, step 1.  Connected without a token or a client cannot authenticate.
BeginRun(r) ==
    /\ run[r].at = "idle" /\ feed.state = "connected" /\ FeedStep
    /\ run' = [run EXCEPT ![r] = [IdleRun EXCEPT
         !.at = IF feed.token = 0 \/ feed.client = 0 THEN "terminal" ELSE "read",
         !.generation = feed.generation, !.client = feed.client]]
    /\ UNCHANGED <<feed, feedPending, token, registered, tab, numbers, dedupe>>

\* claim_run: connected, at the generation read, and not within a claim's window.
ClaimRun(r) ==
    /\ run[r].at = "read" /\ FeedStep
    /\ IF StillClaimed(r) /\ ~feed.claimed /\ feed.token # 0
       THEN /\ feed' = [feed EXCEPT !.claimed = TRUE]
            /\ run' = [run EXCEPT ![r].at = "claimed", ![r].old = feed.token]
       ELSE RunEnds(r) /\ UNCHANGED feed
    /\ UNCHANGED <<feedPending, token, registered, tab, numbers, dedupe>>

ClaimLapses ==
    /\ feed.claimed /\ feed' = [feed EXCEPT !.claimed = FALSE] /\ FeedStep
    /\ UNCHANGED <<feedPending, token, registered, tab, run, numbers, dedupe>>

\* refresh, which the provider accepts: the same token, or a rotation, whose new token
\* is saved, or lost on its way (a transient failure) or to the disk (terminal).
Refresh(r) ==
    LET old == run[r].old IN
    /\ run[r].at = "claimed" /\ Readable(run[r].client)
    /\ token[old].file = "kept" /\ token[old].grant = "live"
    /\ \/ RunNeedsOnlyItsClaim(r, "session") /\ UNCHANGED token /\ FeedStep
       \/ \E t \in NewTokens :
            /\ token' = [Saved(t) EXCEPT ![old].grant = "spent", ![old].next = t]
            /\ run' = [run EXCEPT ![r].at = "switching", ![r].new = t] /\ FeedStep
       \/ /\ token' = [token EXCEPT ![old].grant = "spent"] /\ FeedFault
          /\ RunEnds(r) \/ RunNeedsOnlyItsClaim(r, "terminal")
    /\ UNCHANGED <<feed, feedPending, registered, tab, numbers, dedupe>>

\* A refresh that fails: the client rejected, the token refused or unreadable.
RefreshFails(r) ==
    LET old == run[r].old IN
    /\ run[r].at = "claimed"
    /\ \/ RunGoes(r, "rejected") /\ IF Readable(run[r].client) THEN FeedFault ELSE FeedStep
       \/ /\ RunNeedsOnlyItsClaim(r, "terminal")
          /\ IF token[old].file = "kept" /\ token[old].grant = "live" THEN FeedFault
             ELSE FeedStep
    /\ UNCHANGED <<feed, feedPending, token, registered, tab, numbers, dedupe>>

\* Mutant of Switched: the compare-and-set forgets the token and the generation.
SwitchedBlindly(r) == TRUE

\* switch_token's compare-and-set.
Switched(r) == feed.token = run[r].old /\ feed.generation = run[r].generation

SwitchedFeed(r) ==
    [feed EXCEPT !.token = run[r].new, !.generation = run[r].generation + 1]

\* _rotate: won, lost, or raised with its commit applied or not.  The second try ends a
\* run that raises again, with the minted token's file kept (_stranded).
Switch(r) ==
    /\ run[r].at \in {"switching", "again"}
    /\ \/ /\ Switched(r) /\ FeedStep /\ feed' = SwitchedFeed(r)
          /\ run' = [run EXCEPT ![r].at = "won", ![r].generation = @ + 1]
       \/ ~Switched(r) /\ FeedStep /\ RunGoes(r, "lost") /\ UNCHANGED feed
       \/ /\ FeedFault
          /\ feed' = feed \/ (Switched(r) /\ feed' = SwitchedFeed(r))
          /\ IF run[r].at = "again" THEN RunEnds(r) ELSE RunGoes(r, "unsure")
    /\ UNCHANGED <<feedPending, token, registered, tab, numbers, dedupe>>

\* Mutant of Reread: a switch that raised counts as lost.
RereadNothing(r) ==
    /\ run[r].at = "unsure" /\ FeedStep
    /\ RunGoes(r, "lost")
    /\ UNCHANGED <<feed, feedPending, token, registered, tab, numbers, dedupe>>

\* current_token decides what the switch that raised did; a read that raises strands it.
Reread(r) ==
    /\ run[r].at = "unsure"
    /\ \/ /\ FeedStep
          /\ run' = [run EXCEPT ![r] =
               IF feed.token = run[r].new
               THEN [@ EXCEPT !.at = "won", !.generation = feed.generation]
               ELSE IF Switched(r) THEN [@ EXCEPT !.at = "again"]
               ELSE [@ EXCEPT !.at = "lost", !.tokens = {run[r].old} \ {feed.token}]]
       \/ FeedFault /\ RunEnds(r)
    /\ UNCHANGED <<feed, feedPending, token, registered, tab, numbers, dedupe>>

\* The old file goes after the switch, and the run goes on.
RotationKept(r) ==
    /\ run[r].at = "won" /\ RunNeedsOnlyItsClaim(r, "session") /\ FeedStep
    /\ token' = WithoutTokens({run[r].old})
    /\ UNCHANGED <<feed, feedPending, registered, tab, numbers, dedupe>>

\* _retire_minted: revoked once, then discarded.
RetireMinted(r) ==
    /\ run[r].at = "lost" /\ FeedStep
    /\ token' \in RevokedUpstream(run[r].new, run[r].client)
    /\ run' = [run EXCEPT ![r].at = "retiring", ![r].tokens = @ \cup {run[r].new}]
    /\ UNCHANGED <<feed, feedPending, registered, tab, numbers, dedupe>>

RunDiscards(r) ==
    /\ run[r].at \in {"retiring", "cleared"} /\ FeedStep
    /\ token' = WithoutTokens(run[r].tokens)
    /\ registered' = WithoutClients(run[r].clients)
    /\ IF run[r].at = "cleared" THEN RunNeedsOnlyItsClaim(r, "terminal") ELSE RunEnds(r)
    /\ UNCHANGED <<feed, feedPending, tab, numbers, dedupe>>

\* clear_rejected_client: in a unit of its own, before the terminal write.
ClearRejected(r) ==
    /\ run[r].at = "rejected" /\ FeedStep
    /\ IF StillClaimed(r) /\ feed.client = run[r].client
       THEN /\ feed' = [feed EXCEPT !.client = 0]
            /\ run' = [run EXCEPT ![r].at = "cleared", ![r].clients = {feed.client}]
       ELSE RunEnds(r) /\ UNCHANGED feed
    /\ UNCHANGED <<feedPending, token, registered, tab, numbers, dedupe>>

\* _end with write_terminal, on the worker's transaction.
EndTerminal(r) ==
    /\ run[r].at = "terminal" /\ RunEnds(r) /\ FeedStep
    /\ feed' = IF StillClaimed(r)
               THEN [feed EXCEPT !.state = "authorization_required", !.schedule = FALSE]
               ELSE feed
    /\ UNCHANGED <<feedPending, token, registered, tab, numbers, dedupe>>

\* session_phase and replace_account_choices: the accounts are stored before any decision.
ListAccounts(r) ==
    /\ run[r].at = "session" /\ FeedStep
    /\ IF ~StillClaimed(r) THEN RunEnds(r) /\ UNCHANGED feed
       ELSE /\ feed' = [feed EXCEPT !.listed = TRUE]
            /\ \/ RunGoes(r, IF feed.account = "none" THEN "selecting" ELSE "collected")
               \/ RunEnds(r)
    /\ UNCHANGED <<feedPending, token, registered, tab, numbers, dedupe>>

\* store_selection: never over an owner's selection.
StoreSelection(r) ==
    /\ run[r].at = "selecting" /\ FeedStep
    /\ IF StillClaimed(r) /\ feed.account = "none"
       THEN feed' = [feed EXCEPT !.account = "run"] /\ RunGoes(r, "collected")
       ELSE RunEnds(r) /\ UNCHANGED feed
    /\ UNCHANGED <<feedPending, token, registered, tab, numbers, dedupe>>

\* A session that the provider refuses ends terminal; any other failure, a cut or a
\* cancelled job just ends the run.
SessionFails(r) ==
    /\ run[r].at \in {"session", "collected"} /\ FeedFault
    /\ RunEnds(r) \/ RunNeedsOnlyItsClaim(r, "terminal")
    /\ UNCHANGED <<feed, feedPending, token, registered, tab, numbers, dedupe>>

\* Mutant of NextNumber: without a dedupe row the numbering starts again.
NextNumberFromRow(p) == dedupe[p] + 1

\* next_seq: after the dedupe row's number, or after every receipt's.
NextNumber(p) ==
    IF dedupe[p] # 0 THEN dedupe[p] + 1
    ELSE CHOOSE n \in 1..(MaxNumber + 1) :
           /\ \A m \in numbers[p] : m < n
           /\ n = 1 \/ n - 1 \in numbers[p]

\* deliver and _accept, on the worker's transaction: each posting that changed gets a
\* receipt and its number; one that intake refuses keeps none.
DeliverAndReport(r) ==
    /\ run[r].at = "collected" /\ RunEnds(r) /\ FeedStep
    /\ \E accepted \in SUBSET {p \in Postings : NextNumber(p) <= MaxNumber} :
         IF ~StillClaimed(r) THEN UNCHANGED <<numbers, dedupe>>
         ELSE /\ numbers' = [p \in Postings |-> IF p \in accepted
                              THEN numbers[p] \cup {NextNumber(p)} ELSE numbers[p]]
              /\ dedupe' = [p \in Postings |-> IF p \in accepted THEN NextNumber(p)
                                               ELSE dedupe[p]]
    /\ UNCHANGED <<feed, feedPending, token, registered, tab>>

\* forget_posting: an erasure takes the dedupe row and leaves the receipts.
ForgetPosting(p) ==
    /\ dedupe[p] # 0 /\ dedupe' = [dedupe EXCEPT ![p] = 0] /\ FeedAct
    /\ UNCHANGED <<feed, feedPending, token, registered, tab, run, numbers>>

RunCrashes(r) ==
    /\ run[r].at # "idle" /\ RunEnds(r) /\ FeedFault
    /\ UNCHANGED <<feed, feedPending, token, registered, tab, numbers, dedupe>>
-----------------------------------------------------------------------------
JobFeedNext ==
    \/ SelectAccount \/ ClaimLapses
    \/ \E o \in Tabs :
         \/ BeginStart(o) \/ Start(o) \/ Consume(o) \/ Exchange(o) \/ Store(o)
         \/ ClearClient(o) \/ Revoke(o) \/ RevokeUpstream(o) \/ RevokeDiscards(o)
         \/ TabDiscards(o) \/ TabCrashes(o)
    \/ \E r \in FeedRuns :
         \/ BeginRun(r) \/ ClaimRun(r) \/ Refresh(r) \/ RefreshFails(r) \/ Switch(r)
         \/ Reread(r) \/ RotationKept(r) \/ RetireMinted(r) \/ RunDiscards(r)
         \/ ClearRejected(r) \/ EndTerminal(r) \/ ListAccounts(r) \/ StoreSelection(r)
         \/ SessionFails(r) \/ DeliverAndReport(r) \/ RunCrashes(r)
    \/ \E p \in Postings : ForgetPosting(p)

JobFeedSpec == JobFeedInit /\ [][JobFeedNext]_feedVars
-----------------------------------------------------------------------------
(* What the connection and the pending row refer to is on disk, and when the *)
(* stored token has been spent by a rotation whose answer arrived, the token *)
(* it was exchanged for is kept and not revoked: whatever a run, a revoke, a *)
(* reconnect and a crash do in between, none discards what another refers to *)
(* (run.py _rotate, authorization.py _start, _store, _clear_client, revoke). *)
CredentialsKept ==
    /\ feed.token # 0 => token[feed.token].file = "kept"
    /\ feed.client # 0 => registered[feed.client] = "kept"
    /\ feedPending.there /\ feedPending.fresh => registered[feedPending.client] = "kept"
    /\ \A t \in Tokens : t = feed.token /\ token[t].next # 0 =>
         token[token[t].next].file = "kept" /\ token[token[t].next].grant # "revoked"

(* While a connection is revoked, nothing but an owner's completed reconnect *)
(* gives it a token, delivers a posting, stores accounts or enables the      *)
(* schedule.  And a run that knows another generation than the connection's, *)
(* as one that began before a revoke, a reconnect or another's rotation does,*)
(* changes neither the connection nor a posting's numbers, whatever state a  *)
(* reconnect or a rejected client has put the connection in since (state.py  *)
(* claimed_connection, switch_token, store_selection).                       *)
RevokedStaysQuiet ==
    [][/\ feed.state = "revoked" =>
            \/ \E o \in Tabs : tab[o].at = "storing" /\ tab'[o].at # "storing"
            \/ /\ feed'.token = 0 /\ numbers' = numbers /\ feed'.listed = feed.listed
               /\ feed'.account # "run" \/ feed.account = "run"
               /\ ~feed'.schedule
       /\ \A r \in FeedRuns : run'[r] # run[r] /\ run[r].generation # feed.generation
                                => UNCHANGED <<feed, numbers, dedupe>>]_feedVars

(* A posting's event number is never used twice: not after a refused row,    *)
(* and not after an erasure took the posting's dedupe row (state.py next_seq,*)
(* upsert_posting, forget_posting).                                          *)
NumbersNeverReused ==
    [][\A p \in Postings : dedupe'[p] # dedupe[p] /\ dedupe'[p] # 0
                             => dedupe'[p] \notin numbers[p]]_feedVars
=============================================================================
