--------------------------- MODULE ConnectorGrants ---------------------------
(***************************************************************************)
(* The grants of the OAuth connector: registered clients, authorization    *)
(* requests, the codes a person's consent issues, the grant a code is      *)
(* redeemed for and its chain of refresh values                            *)
(* (packages/core/src/rheo_core: oauth/service.py over                     *)
(* storage/oauth_store.py, storage/control_plane.py and tokens/issue.py).  *)
(*                                                                         *)
(* Every step of the service is one transaction of the control database.   *)
(* A call to the token endpoint arrives (and reads the clock), locks its   *)
(* row, and commits; the clock it read may be old by the time it holds     *)
(* the lock.                                                               *)
(***************************************************************************)
EXTENDS Naturals, Sequences, FiniteSets

CONSTANTS
    Clients,        \* client ids that may be registered
    Codes,          \* authorization requests, each with the code it may issue
    Calls,          \* concurrent calls to the token endpoint
    MaxClients,     \* identity.oauth.max_clients
    MaxRefreshes,   \* bound on the refresh values of a grant
    MaxGrants,      \* bound on grants ever issued
    MaxConnectorFaults \* bound on calls lost, and on grants ended by a person

ASSUME ConnectorGrantsAssumption ==
    /\ MaxClients \in Nat \ {0} /\ MaxRefreshes \in Nat \ {0} /\ MaxGrants \in Nat
    /\ MaxConnectorFaults \in Nat

VARIABLES
    client,         \* oauth_client: none, fresh, old (past the cutoff), deleted
    auth,           \* oauth_authorization
    grants,         \* access_token, oauth_grant and its oauth_refresh_token rows
    registering,    \* the registration in flight and the clients it read as abandoned
    call,           \* the token endpoint's calls
    replayed,       \* grants whose code, or a long rotated value, was presented again
    connectorFaults

connectorVars == <<client, auth, grants, registering, call, replayed, connectorFaults>>
-----------------------------------------------------------------------------
Ages == 0..2        \* in flight; ended; ended longer than the retention

NoAuth == [row |-> "none", client |-> CHOOSE k \in Clients : TRUE, age |-> 0,
           used |-> FALSE, token |-> 0]
NoCall == [at |-> "idle", kind |-> "code", item |-> <<0, 0>>, ok |-> FALSE]

GrantType ==
    [code : Codes, client : Clients, ended : BOOLEAN, expired : BOOLEAN,
     value : 1..MaxRefreshes, refresh : Seq({"live", "recent", "past"})]

ConnectorTypeOK ==
    /\ client \in [Clients -> {"none", "fresh", "old", "deleted"}]
    /\ auth \in [Codes -> [row : {"none", "pending", "denied", "approved", "deleted"},
                           client : Clients, age : Ages, used : BOOLEAN,
                           token : 0..MaxGrants]]
    /\ grants \in Seq(GrantType) /\ Len(grants) <= MaxGrants
    /\ registering \in [at : {"idle", "sweeping"}, doomed : SUBSET Clients]
    /\ \A c \in Calls : call[c].at \in {"idle", "arrived", "locked"}
    /\ replayed \subseteq DOMAIN grants /\ connectorFaults \in 0..MaxConnectorFaults

ConnectorInit ==
    /\ client = [k \in Clients |-> "none"] /\ auth = [a \in Codes |-> NoAuth]
    /\ grants = <<>> /\ registering = [at |-> "idle", doomed |-> {}]
    /\ call = [c \in Calls |-> NoCall] /\ replayed = {} /\ connectorFaults = 0

Registered(k) == client[k] \in {"fresh", "old"}
Stored(a)     == auth[a].row \notin {"none", "deleted"}
OfCode(a)     == {g \in DOMAIN grants : grants[g].code = a}
HasGrant(k)   == \E g \in DOMAIN grants : grants[g].client = k
Locked(kind, item) ==
    \E c \in Calls : call[c].at = "locked" /\ call[c].kind = kind /\ call[c].item = item
-----------------------------------------------------------------------------
(* Registration, with the cleanup it carries.                                *)

\* _abandoned: never granted, old, nothing of it in flight.
Abandoned(k) ==
    /\ client[k] = "old" /\ ~HasGrant(k)
    /\ \A a \in Codes : Stored(a) /\ auth[a].client = k => auth[a].age > 0

\* A live grant: not revoked, before its absolute end.
LiveGrant(g) == ~grants[g].ended /\ ~grants[g].expired

\* count_counted_clients.
CountedClient(k) ==
    /\ Registered(k) /\ ~Abandoned(k)
    /\ HasGrant(k) => \E g \in DOMAIN grants : grants[g].client = k /\ LiveGrant(g)

\* register_client begins: its DELETE reads who is abandoned in its own snapshot.
RegisterReads ==
    /\ registering.at = "idle"
    /\ \E k \in Clients : client[k] = "none"
    /\ registering' = [at |-> "sweeping", doomed |-> {k \in Clients : Abandoned(k)}]
    /\ UNCHANGED <<client, auth, grants, call, replayed, connectorFaults>>

\* Mutant of Stale: a redeemed row goes with the others.
StaleRedeemed(a) == Stored(a) /\ auth[a].age = 2

\* delete_expired_authorizations: ended long ago, and nothing was issued from the row.
Stale(a) == Stored(a) /\ auth[a].age = 2 /\ auth[a].token = 0

\* The delete cascades to the authorization rows and waits for a call that holds one;
\* a grant issued meanwhile makes RESTRICT fail the whole transaction.  The deletes
\* stand when the registration itself is then refused (limit, cap, metadata).
RegisterCommits ==
    /\ registering.at = "sweeping"
    /\ LET gone    == {a \in Codes : Stored(a) /\ auth[a].client \in registering.doomed}
           removed == gone \cup {a \in Codes : Stale(a)}
           kept    == [k \in Clients |-> IF k \in registering.doomed THEN "deleted" ELSE client[k]]
           others  == Cardinality({k \in Clients \ registering.doomed : CountedClient(k)})
       IN \/ /\ \E k \in registering.doomed : HasGrant(k)
             /\ UNCHANGED <<client, auth>>
          \/ /\ ~\E k \in registering.doomed : HasGrant(k)
             /\ ~\E a \in removed : Locked("code", <<a, 0>>)
             /\ auth' = [a \in Codes |-> IF a \in removed THEN [NoAuth EXCEPT !.row = "deleted"]
                                         ELSE auth[a]]
             /\ \/ client' = kept
                \/ /\ others < MaxClients
                   /\ \E k \in Clients : client[k] = "none" /\ client' = [kept EXCEPT ![k] = "fresh"]
    /\ registering' = [at |-> "idle", doomed |-> {}]
    /\ UNCHANGED <<grants, call, replayed, connectorFaults>>
-----------------------------------------------------------------------------
(* The authorization request and the person's decision.                      *)

\* begin_authorization: the client must still be registered.
BeginAuthorization(a, k) ==
    /\ auth[a].row = "none" /\ Registered(k)
    /\ auth' = [auth EXCEPT ![a] = [NoAuth EXCEPT !.row = "pending", !.client = k]]
    /\ UNCHANGED <<client, grants, registering, call, replayed, connectorFaults>>

\* _pending, read FOR UPDATE: undecided and before its expiry.
Pending(a) == auth[a].row = "pending" /\ auth[a].age = 0

\* approve issues the code, whose own lifetime begins; an account without an active
\* workspace is refused with the row marked decided, as deny marks it.
Decide(a, row) ==
    /\ Pending(a)
    /\ auth' = [auth EXCEPT ![a].row = row]
    /\ UNCHANGED <<client, grants, registering, call, replayed, connectorFaults>>
ApproveRequest(a) == Decide(a, "approved")
DenyRequest(a)    == Decide(a, "denied")
-----------------------------------------------------------------------------
(* The token endpoint.                                                       *)

CallEnds(c) == call' = [call EXCEPT ![c] = NoCall]

\* exchange_code is called: whether its code has expired is read off the clock here.
PresentCode(c, a) ==
    /\ call[c].at = "idle" /\ auth[a].row \in {"approved", "deleted"}
    /\ call' = [call EXCEPT ![c] = [at |-> "arrived", kind |-> "code", item |-> <<a, 0>>,
                                    ok |-> auth[a].age = 0]]
    /\ UNCHANGED <<client, auth, grants, registering, replayed, connectorFaults>>

\* refresh is called with the n-th value of a grant; ok: its rotation is long past.
PresentRefresh(c, g, n) ==
    /\ call[c].at = "idle"
    /\ call' = [call EXCEPT ![c] = [at |-> "arrived", kind |-> "refresh", item |-> <<g, n>>,
                                    ok |-> grants[g].refresh[n] = "past"]]
    /\ UNCHANGED <<client, auth, grants, registering, replayed, connectorFaults>>

\* SELECT ... FOR UPDATE: one call holds a row at a time.
MayLock(c) == ~Locked(call[c].kind, call[c].item)

\* get_authorization_by_code_hash and the replay arm.  An unknown code is refused; a
\* used one ends the grant it was redeemed for, in the transaction that refuses it.
LockCode(c) ==
    /\ call[c].at = "arrived" /\ call[c].kind = "code" /\ MayLock(c)
    /\ LET a == call[c].item[1]
           prior == OfCode(a)
       IN \/ /\ ~Stored(a)
             /\ replayed' = replayed \cup prior /\ CallEnds(c) /\ UNCHANGED grants
          \/ /\ Stored(a) /\ auth[a].used
             /\ grants' = [g \in DOMAIN grants |->
                             IF g = auth[a].token THEN [grants[g] EXCEPT !.ended = TRUE]
                             ELSE grants[g]]
             /\ replayed' = replayed \cup prior /\ CallEnds(c)
          \/ /\ Stored(a) /\ ~auth[a].used
             /\ call' = [call EXCEPT ![c].at = "locked"] /\ UNCHANGED <<grants, replayed>>
    /\ UNCHANGED <<client, auth, registering, connectorFaults>>

\* The code is burned first; a wrong client, redirect, verifier or resource, an expired
\* code, a lost membership or an inactive workspace then refuses and commits the burn.
RefuseCode(c) ==
    /\ call[c].at = "locked" /\ call[c].kind = "code"
    /\ auth' = [auth EXCEPT ![call[c].item[1]].used = TRUE] /\ CallEnds(c)
    /\ UNCHANGED <<client, grants, registering, replayed, connectorFaults>>

\* Otherwise token, grant, first refresh row, the row's token_id, in one commit.
RedeemCode(c) ==
    /\ call[c].at = "locked" /\ call[c].kind = "code" /\ call[c].ok
    /\ Len(grants) < MaxGrants
    /\ LET a == call[c].item[1]
       IN /\ grants' = Append(grants, [code |-> a, client |-> auth[a].client, ended |-> FALSE,
                                       expired |-> FALSE, value |-> 1, refresh |-> <<"live">>])
          /\ auth' = [auth EXCEPT ![a].used = TRUE, ![a].token = Len(grants) + 1]
    /\ CallEnds(c) /\ UNCHANGED <<client, registering, replayed, connectorFaults>>

\* refresh locks its row.  Rotated and within the grace: refused unchanged; rotated and
\* past it: the grant is ended.  Live: the grant's validity is read, without a lock.
LockRefresh(c) ==
    /\ call[c].at = "arrived" /\ call[c].kind = "refresh" /\ MayLock(c)
    /\ LET g == call[c].item[1]
           row == grants[g].refresh[call[c].item[2]]
       IN \/ row # "live" /\ ~call[c].ok /\ CallEnds(c) /\ UNCHANGED <<grants, replayed>>
          \/ /\ row # "live" /\ call[c].ok
             /\ grants' = [grants EXCEPT ![g].ended = TRUE]
             /\ replayed' = replayed \cup {g} /\ CallEnds(c)
          \/ row = "live" /\ ~LiveGrant(g) /\ CallEnds(c) /\ UNCHANGED <<grants, replayed>>
          \/ /\ row = "live" /\ LiveGrant(g)
             /\ call' = [call EXCEPT ![c].at = "locked"] /\ UNCHANGED <<grants, replayed>>
    /\ UNCHANGED <<client, auth, registering, connectorFaults>>

\* Mutant of Rotatable: the update is not predicated.
RotatableUnread(g) == TRUE

\* rotate_access_token: the UPDATE refuses a row revoked since it was read.
Rotatable(g) == ~grants[g].ended

\* A wrong client or resource, a lost membership, an inactive workspace, or the refused
\* rotation, which is the transaction's first write: nothing changes.
RefuseRefresh(c) ==
    /\ call[c].at = "locked" /\ call[c].kind = "refresh" /\ CallEnds(c)
    /\ UNCHANGED <<client, auth, grants, registering, replayed, connectorFaults>>

\* mark_refresh_rotated and insert_refresh_token, with the new access value.
RotateRefresh(c) ==
    /\ call[c].at = "locked" /\ call[c].kind = "refresh"
    /\ LET g == call[c].item[1]
           n == call[c].item[2]
       IN /\ Rotatable(g) /\ Len(grants[g].refresh) < MaxRefreshes
          /\ grants' = [grants EXCEPT ![g].value = @ + 1,
                          ![g].refresh = Append([@ EXCEPT ![n] = "recent"], "live")]
    /\ CallEnds(c) /\ UNCHANGED <<client, auth, registering, replayed, connectorFaults>>
-----------------------------------------------------------------------------
ConnectorFault == connectorFaults < MaxConnectorFaults /\ connectorFaults' = connectorFaults + 1

\* The connection is lost, or the call is the victim of a deadlock: nothing commits.
LoseCall(c) ==
    /\ call[c].at = "locked" /\ CallEnds(c) /\ ConnectorFault
    /\ UNCHANGED <<client, auth, grants, registering, replayed>>

\* revoke_handler: a person ends the grant; only the revocation that changes the row counts.
RevokeGrant(g) ==
    /\ ~grants[g].ended /\ ConnectorFault
    /\ grants' = [grants EXCEPT ![g].ended = TRUE]
    /\ UNCHANGED <<client, auth, registering, call, replayed>>

\* Time: a client passes the cutoff, a request or code ends, its retention passes, a
\* rotation passes the grace, a grant reaches its absolute end.
TimePasses ==
    /\ \/ \E k \in Clients : /\ client[k] = "fresh" /\ client' = [client EXCEPT ![k] = "old"]
                             /\ UNCHANGED <<auth, grants>>
       \/ \E a \in Codes : /\ Stored(a) /\ auth[a].age < 2
                           /\ auth' = [auth EXCEPT ![a].age = @ + 1]
                           /\ UNCHANGED <<client, grants>>
       \/ \E g \in DOMAIN grants :
            /\ \/ \E n \in DOMAIN grants[g].refresh :
                    /\ grants[g].refresh[n] = "recent"
                    /\ grants' = [grants EXCEPT ![g].refresh[n] = "past"]
               \/ ~grants[g].expired /\ grants' = [grants EXCEPT ![g].expired = TRUE]
            /\ UNCHANGED <<client, auth>>
    /\ UNCHANGED <<registering, call, replayed, connectorFaults>>

ConnectorNext ==
    \/ RegisterReads \/ RegisterCommits \/ TimePasses
    \/ \E a \in Codes : \/ ApproveRequest(a) \/ DenyRequest(a)
                        \/ \E k \in Clients : BeginAuthorization(a, k)
                        \/ \E c \in Calls : PresentCode(c, a)
    \/ \E c \in Calls :
         \/ LockCode(c) \/ RefuseCode(c) \/ RedeemCode(c)
         \/ LockRefresh(c) \/ RefuseRefresh(c) \/ RotateRefresh(c) \/ LoseCall(c)
         \/ \E g \in DOMAIN grants : \E n \in DOMAIN grants[g].refresh : PresentRefresh(c, g, n)
    \/ \E g \in DOMAIN grants : RevokeGrant(g)

ConnectorSpec == ConnectorInit /\ [][ConnectorNext]_connectorVars
-----------------------------------------------------------------------------
(* A code is spent once: it is redeemed for at most one grant, that grant has one  *)
(* live refresh value, and a grant whose code, or a value rotated longer ago than  *)
(* the grace, is presented again has ended, however late the presentation: the row *)
(* that names the grant outlives every cleanup.                                    *)
CodeSpentOnce ==
    /\ \A a \in Codes : Cardinality(OfCode(a)) <= 1
    /\ \A g \in DOMAIN grants :
         Cardinality({n \in DOMAIN grants[g].refresh : grants[g].refresh[n] = "live"}) = 1
    /\ \A g \in replayed : grants[g].ended

(* A grant that has ended stays ended and no call gives it another value, not even *)
(* one that read it as live before it ended; its client stays registered.          *)
RevokedStaysDead ==
    [][\A g \in DOMAIN grants :
         /\ g \in DOMAIN grants' /\ Registered(grants[g].client)'
         /\ grants[g].ended => grants'[g].ended /\ grants'[g].value = grants[g].value]_connectorVars
=============================================================================
