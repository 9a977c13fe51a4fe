---------------------------- MODULE JobFeedProofs ----------------------------
(***************************************************************************)
(* Proofs about the job feed's credentials and numbers, for any number of  *)
(* browser sessions, runs and postings, and any bounds.                    *)
(*                                                                         *)
(* The invariant says, token by token and client by client, what each      *)
(* request and each run still has to do with it: a step that discards      *)
(* something takes what nothing else offers, refers to or will discard.    *)
(***************************************************************************)
EXTENDS JobFeed, LeastNumbers, TLAPS

-----------------------------------------------------------------------------
(* The rows.                                                                 *)

FeedRows == [state : {"none", "connected", "authorization_required", "revoked"},
             token : 0..MaxTokens, generation : Nat, client : 0..MaxRegistered,
             claimed : BOOLEAN, account : {"none", "run", "owner"},
             listed : BOOLEAN, schedule : BOOLEAN]
PendingRows == [there : BOOLEAN, mode : {"connect", "reconnect"},
                client : 0..MaxRegistered, fresh : BOOLEAN]
TokenRows == [file : {"none", "kept", "gone"}, grant : {"live", "spent", "revoked"},
              next : 0..MaxTokens]
TabRows == [at : {"idle", "starting", "exchanging", "storing", "clearing",
                  "ended", "unwanted", "refused", "retiring"},
            mode : {"connect", "reconnect", "revoke"},
            client : 0..MaxRegistered, fresh : BOOLEAN,
            token : 0..MaxTokens, generation : Nat,
            tokens : SUBSET (0..MaxTokens), clients : SUBSET (0..MaxRegistered)]
RunRows == [at : {"idle", "read", "claimed", "switching", "unsure", "again",
                  "lost", "won", "retiring", "session", "selecting",
                  "collected", "rejected", "cleared", "terminal"},
            generation : Nat, client : 0..MaxRegistered,
            old : 0..MaxTokens, new : 0..MaxTokens,
            tokens : SUBSET (0..MaxTokens), clients : SUBSET (0..MaxRegistered)]

FeedShaped ==
    /\ feed \in FeedRows /\ feedPending \in PendingRows
    /\ token \in [Tokens -> TokenRows]
    /\ registered \in [FeedClients -> {"none", "kept", "gone"}]
    /\ tab \in [Tabs -> TabRows] /\ run \in [FeedRuns -> RunRows]

(* What a request or a run has to do with a token: it may make it the         *)
(* connection's, it discards it, it minted it, or it found it stored.         *)
TabOffers(x, t) == x.at = "storing" /\ x.token = t
TabDrops(x, t) ==
    \/ x.at = "retiring" /\ t \in x.tokens
    \/ x.at \in {"ended", "unwanted", "refused"} /\ x.token = t
RunMinted(x, t) == x.at \in {"switching", "unsure", "again", "won", "lost"} /\ x.new = t
RunFound(x, t)  == x.at \in {"claimed", "switching", "unsure", "again", "won"} /\ x.old = t
RunOffers(x, stored, t) ==
    /\ x.at \in {"switching", "again"} \/ (x.at = "unsure" /\ x.old = stored)
    /\ x.new = t
RunDrops(x, t) ==
    \/ x.at = "won" /\ x.old = t
    \/ x.at = "lost" /\ x.new = t
    \/ x.at \in {"lost", "retiring", "cleared"} /\ t \in x.tokens

\* A run that has claimed the connection's token knows its generation.
Dated(x, f) ==
    x.at \in {"claimed", "switching", "unsure", "again"} =>
      /\ x.old # 0
      /\ x.at # "claimed" => x.new # 0
      /\ f.token = x.old => f.generation = x.generation

(* A run has no files to discard before it has lost one.                      *)
Unladen(x) ==
    /\ x.at \in {"read", "claimed", "switching", "unsure", "again", "lost", "rejected"} =>
         x.clients = {}
    /\ x.at \in {"read", "claimed", "switching", "unsure", "again", "rejected"} => x.tokens = {}

(* The token the connection's one was exchanged for.                          *)
Heir(t) == feed.token # 0 /\ token[feed.token].next = t

TokenOK(t) ==
    /\ t = feed.token \/ Heir(t) => token[t].file = "kept"
    /\ Heir(t) => token[t].grant # "revoked" /\ \A r \in FeedRuns : ~RunFound(run[r], t)
    /\ \A o \in Tabs :
         /\ TabDrops(tab[o], t) => t # feed.token /\ ~Heir(t) /\ token[t].file # "none"
         /\ TabOffers(tab[o], t) =>
              /\ token[t].file = "kept" /\ token[t].next = 0 /\ t # feed.token
              /\ \A p \in Tabs : /\ TabOffers(tab[p], t) => p = o
                                 /\ ~TabDrops(tab[p], t)
              /\ \A r \in FeedRuns : /\ ~RunMinted(run[r], t) /\ ~RunFound(run[r], t)
                                     /\ ~RunDrops(run[r], t)
              /\ \A s \in Tokens : token[s].next # t
    /\ \A r \in FeedRuns :
         /\ RunDrops(run[r], t) => t # feed.token /\ ~Heir(t) /\ token[t].file # "none"
         /\ RunFound(run[r], t) => token[t].file # "none"
         /\ RunMinted(run[r], t) =>
              /\ token[t].file # "none" /\ run[r].old # t
              /\ \A q \in FeedRuns : RunMinted(run[q], t) => q = r
              /\ \A s \in Tokens : token[s].next = t => s = run[r].old
         /\ RunOffers(run[r], feed.token, t) =>
              /\ token[t].file = "kept" /\ token[t].next = 0 /\ t # feed.token
              /\ \A o \in Tabs : ~TabDrops(tab[o], t)
              /\ \A q \in FeedRuns : ~RunDrops(run[q], t) /\ ~RunFound(run[q], t)
    /\ \A s \in Tokens : token[s].next = t => token[t].file # "none" /\ s # t
    /\ token[t].file = "none" => token[t].next = 0 /\ token[t].grant # "revoked"

(* What a request, the pending row or a run has to do with a client: it owns  *)
(* the one it registered, or it discards it.                                  *)
TabOwns(x, c) == x.at \in {"starting", "exchanging", "storing"} /\ x.fresh /\ x.client = c
TabLeaves(x, c) == x.at = "retiring" /\ c \in x.clients
RunLeaves(x, c) == x.at \in {"retiring", "cleared"} /\ c \in x.clients
PendingOwns(x, c) == x.there /\ x.fresh /\ x.client = c

ClientOK(c) ==
    /\ c = feed.client \/ PendingOwns(feedPending, c) =>
         /\ registered[c] = "kept"
         /\ \A o \in Tabs : ~TabOwns(tab[o], c) /\ ~TabLeaves(tab[o], c)
         /\ \A r \in FeedRuns : ~RunLeaves(run[r], c)
    /\ ~(c = feed.client /\ PendingOwns(feedPending, c))
    /\ \A o \in Tabs :
         /\ TabLeaves(tab[o], c) => registered[c] # "none"
         /\ TabOwns(tab[o], c) =>
              /\ registered[c] = "kept"
              /\ \A p \in Tabs : /\ TabOwns(tab[p], c) => p = o
                                 /\ ~TabLeaves(tab[p], c)
              /\ \A r \in FeedRuns : ~RunLeaves(run[r], c)
    /\ \A r \in FeedRuns : RunLeaves(run[r], c) => registered[c] # "none"

(* What connects for the first time registers its own client.                 *)
Registers(x) ==
    x.at \in {"starting", "exchanging", "storing"} =>
      /\ x.mode \in {"connect", "reconnect"}
      /\ IF x.fresh THEN x.client # 0 ELSE x.mode = "reconnect"
PendingSound(x) == x.there => IF x.fresh THEN x.client # 0 ELSE x.mode = "reconnect"

FeedInv ==
    /\ FeedShaped
    /\ feed.state = "revoked" => feed.token = 0 /\ ~feed.schedule
    /\ \A r \in FeedRuns : Dated(run[r], feed) /\ Unladen(run[r])
    /\ \A o \in Tabs : Registers(tab[o])
    /\ PendingSound(feedPending)
    /\ \A t \in Tokens : TokenOK(t)
    /\ \A c \in FeedClients : ClientOK(c)

LEMMA FeedInitially == JobFeedInit => FeedInv
<1> SUFFICES ASSUME JobFeedInit PROVE FeedInv
  OBVIOUS
<1>1. NoFeed \in FeedRows /\ NoFeed.token = 0 /\ NoFeed.client = 0 /\ NoFeed.state = "none"
  BY JobFeedAssumption DEF NoFeed, FeedRows
<1>2. NoPending \in PendingRows /\ ~NoPending.there
  BY JobFeedAssumption DEF NoPending, PendingRows
<1>3. IdleTab \in TabRows /\ IdleTab.at = "idle" /\ IdleRun \in RunRows /\ IdleRun.at = "idle"
  BY JobFeedAssumption DEF IdleTab, TabRows, IdleRun, RunRows
<1>4. /\ token \in [Tokens -> TokenRows]
      /\ \A t \in Tokens : token[t].next = 0 /\ t # 0
  BY JobFeedAssumption DEF JobFeedInit, TokenRows, Tokens
<1>5. FeedShaped
  BY <1>1, <1>2, <1>3, <1>4 DEF JobFeedInit, FeedShaped
<1>6. \A t \in Tokens : TokenOK(t)
  BY <1>1, <1>3, <1>4 DEF JobFeedInit, TokenOK, Heir, TabDrops, TabOffers, RunDrops, RunFound,
                          RunMinted, RunOffers
<1>7. \A c \in FeedClients : c # 0
  BY JobFeedAssumption DEF FeedClients
<1>8. \A c \in FeedClients : ClientOK(c)
  BY <1>1, <1>2, <1>3, <1>7 DEF JobFeedInit, ClientOK, PendingOwns, TabOwns, TabLeaves,
                                RunLeaves
<1> QED
  BY <1>1, <1>2, <1>3, <1>5, <1>6, <1>8 DEF JobFeedInit, FeedInv, Dated, Unladen, Registers,
                                               PendingSound

(* What a step may do to the tokens it does not mint.                         *)
Dropped(t) == \/ \E o \in Tabs : TabDrops(tab[o], t)
              \/ \E r \in FeedRuns : RunDrops(run[r], t)
TokensWear ==
    /\ token' \in [Tokens -> TokenRows]
    /\ \A t \in Tokens :
         /\ token'[t].file = token[t].file \/ (token'[t].file = "gone" /\ Dropped(t))
         /\ token'[t].next \in {token[t].next, 0}
         /\ token'[t].grant = "revoked" => token[t].grant = "revoked" \/ Dropped(t)

LEMMA TokenNumbers ==
    /\ \A t \in Tokens : t # 0
    /\ \A c \in FeedClients : c # 0
    /\ Tokens = (0..MaxTokens) \ {0} /\ FeedClients = (0..MaxRegistered) \ {0}
    /\ 0 \in 0..MaxTokens /\ 0 \in 0..MaxRegistered
  BY JobFeedAssumption DEF Tokens, FeedClients

(* A request discards what it was to discard, what it no longer offers, and   *)
(* what the connection no longer refers to.                                   *)
LEMMA TabTokens ==
    ASSUME FeedInv, NEW o \in Tabs, NEW x, tab' = [tab EXCEPT ![o] = x], UNCHANGED run,
           feed' \in FeedRows,
           feed'.token \in {feed.token, 0} \/ TabOffers(tab[o], feed'.token),
           TokensWear,
           \A t \in Tokens : TabOffers(x, t) => TabOffers(tab[o], t) /\ t # feed'.token,
           \A t \in Tokens : TabDrops(x, t) =>
             \/ TabDrops(tab[o], t)
             \/ TabOffers(tab[o], t) /\ t # feed'.token /\ ~TabOffers(x, t)
             \/ t = feed.token /\ t # feed'.token
    PROVE  \A t \in Tokens : TokenOK(t)'
<1>1. \A r \in FeedRuns, t \in Tokens :
        RunOffers(run[r], feed'.token, t) => RunOffers(run[r], feed.token, t)
  <2> SUFFICES ASSUME NEW r \in FeedRuns, NEW t \in Tokens, RunOffers(run[r], feed'.token, t)
               PROVE  RunOffers(run[r], feed.token, t)
    OBVIOUS
  <2>1. Dated(run[r], feed) /\ run[r] \in RunRows /\ feed' \in FeedRows /\ FeedShaped
    BY DEF FeedInv, FeedShaped
  <2>2. feed'.token \in Tokens => TokenOK(feed'.token)
    BY DEF FeedInv
  <2>3. run[r].old = feed'.token /\ run[r].at = "unsure" => feed'.token \in {feed.token, 0}
    BY <2>1, <2>2, TokenNumbers DEF FeedRows, TokenOK, RunFound
  <2>4. run[r].at = "unsure" => run[r].old # 0
    BY <2>1 DEF Dated
  <2> QED
    BY <2>3, <2>4 DEF RunOffers
<1>2. /\ tab'[o] = x /\ \A p \in Tabs \ {o} : tab'[p] = tab[p]
      /\ token \in [Tokens -> TokenRows] /\ feed \in FeedRows
  BY DEF FeedInv, FeedShaped
<1>3. \A t \in Tokens : TokenOK(t)
  BY DEF FeedInv
<1>4. \A t \in Tokens : Heir(t)' => Heir(t) /\ feed'.token = feed.token
  BY <1>2, <1>3, TokenNumbers DEF Heir, TokensWear, TokenOK, FeedRows
<1>5. \A t \in Tokens : t = feed'.token => t = feed.token \/ TabOffers(tab[o], t)
  BY TokenNumbers
<1> SUFFICES ASSUME NEW t \in Tokens PROVE TokenOK(t)'
  OBVIOUS
<1>6. \A s \in Tokens : token'[s].next = t => token[s].next = t
  BY TokenNumbers DEF TokensWear
<1>7. \A p \in Tabs : TabOffers(tab'[p], t) => TabOffers(tab[p], t) /\ t # feed'.token
  BY <1>2, <1>3, <1>5 DEF TokenOK
<1>8. \A p \in Tabs : TabDrops(tab'[p], t) =>
        /\ token[t].file # "none" /\ t # feed'.token /\ ~Heir(t)' 
        /\ \A q \in Tabs : ~TabOffers(tab'[q], t)
        /\ \A r \in FeedRuns : ~RunOffers(run[r], feed'.token, t)
  <2> SUFFICES ASSUME NEW p \in Tabs, TabDrops(tab'[p], t)
               PROVE  /\ token[t].file # "none" /\ t # feed'.token /\ ~Heir(t)'
                      /\ \A q \in Tabs : ~TabOffers(tab'[q], t)
                      /\ \A r \in FeedRuns : ~RunOffers(run[r], feed'.token, t)
    OBVIOUS
  <2>1. CASE TabDrops(tab[p], t)
    BY <1>1, <1>3, <1>4, <1>5, <1>7, <2>1 DEF TokenOK
  <2>2. CASE p = o /\ TabOffers(tab[o], t) /\ t # feed'.token /\ ~TabOffers(x, t)
    <3>1. \A r \in FeedRuns : ~RunMinted(run[r], t)
      BY <1>3, <2>2 DEF TokenOK
    <3>2. \A r \in FeedRuns : ~RunOffers(run[r], feed'.token, t)
      BY <3>1 DEF RunMinted, RunOffers
    <3> QED
      BY <1>2, <1>3, <1>4, <1>7, <2>2, <3>2, TokenNumbers DEF TokenOK, Heir, FeedRows
  <2>3. CASE t = feed.token /\ t # feed'.token
    BY <1>1, <1>3, <1>4, <1>7, <2>3 DEF TokenOK
  <2> QED
    BY <1>2, <2>1, <2>2, <2>3
<1>9. t = feed'.token \/ Heir(t)' \/ (\E p \in Tabs : TabOffers(tab'[p], t))
      \/ (\E r \in FeedRuns : RunOffers(run[r], feed'.token, t)) =>
        token[t].file = "kept" /\ ~Dropped(t)
  BY <1>1, <1>3, <1>4, <1>5, <1>7 DEF TokenOK, Dropped
<1>10. token'[t].file = "none" => token[t].file = "none"
  BY DEF TokensWear
<1>11. token'[t].file = token[t].file \/ (token'[t].file = "gone" /\ Dropped(t))
  BY DEF TokensWear
<1>12. Heir(t)' => token'[t].grant # "revoked"
  BY <1>3, <1>4, <1>9 DEF TokenOK, TokensWear
<1>13. token[t].next = 0 => token'[t].next = 0
  BY DEF TokensWear
<1> HIDE DEF Dropped
<1>14. \A p \in Tabs : TabDrops(tab[p], t) => ~Heir(t)'
  BY <1>3, <1>4 DEF TokenOK
<1> QED
  <2>1. t = feed'.token \/ Heir(t)' => token'[t].file = "kept"
    BY <1>9, <1>11
  <2>2. Heir(t)' => token'[t].grant # "revoked" /\ \A r \in FeedRuns : ~RunFound(run[r], t)
    BY <1>3, <1>4, <1>12 DEF TokenOK
  <2>3. \A p \in Tabs : TabDrops(tab'[p], t) =>
          t # feed'.token /\ ~Heir(t)' /\ token'[t].file # "none"
    BY <1>8, <1>10
  <2>4. \A p \in Tabs : TabOffers(tab'[p], t) =>
          /\ token'[t].file = "kept" /\ token'[t].next = 0 /\ t # feed'.token
          /\ \A q \in Tabs : /\ TabOffers(tab'[q], t) => q = p
                             /\ ~TabDrops(tab'[q], t)
          /\ \A r \in FeedRuns : /\ ~RunMinted(run[r], t) /\ ~RunFound(run[r], t)
                                 /\ ~RunDrops(run[r], t)
          /\ \A s \in Tokens : token'[s].next # t
    BY <1>3, <1>6, <1>7, <1>8, <1>9, <1>11, <1>13 DEF TokenOK
  <2>5. \A r \in FeedRuns :
          /\ RunDrops(run[r], t) => t # feed'.token /\ ~Heir(t)' /\ token'[t].file # "none"
          /\ RunFound(run[r], t) => token'[t].file # "none"
          /\ RunMinted(run[r], t) =>
               /\ token'[t].file # "none" /\ run[r].old # t
               /\ \A q \in FeedRuns : RunMinted(run[q], t) => q = r
               /\ \A s \in Tokens : token'[s].next = t => s = run[r].old
    BY <1>3, <1>4, <1>5, <1>6, <1>10 DEF TokenOK
  <2>6. \A r \in FeedRuns : RunOffers(run[r], feed'.token, t) =>
          /\ token'[t].file = "kept" /\ token'[t].next = 0 /\ t # feed'.token
          /\ \A p \in Tabs : ~TabDrops(tab'[p], t)
          /\ \A q \in FeedRuns : ~RunDrops(run[q], t) /\ ~RunFound(run[q], t)
    <3> SUFFICES ASSUME NEW r \in FeedRuns, RunOffers(run[r], feed'.token, t)
                 PROVE  /\ token'[t].file = "kept" /\ token'[t].next = 0 /\ t # feed'.token
                        /\ \A p \in Tabs : ~TabDrops(tab'[p], t)
                        /\ \A q \in FeedRuns : ~RunDrops(run[q], t) /\ ~RunFound(run[q], t)
      OBVIOUS
    <3>1. RunOffers(run[r], feed.token, t) /\ RunMinted(run[r], t)
      BY <1>1 DEF RunOffers, RunMinted
    <3>2. ~TabOffers(tab[o], t)
      BY <1>3, <3>1 DEF TokenOK
    <3> QED
      BY <1>3, <1>5, <1>8, <1>9, <1>11, <1>13, <3>1, <3>2 DEF TokenOK
  <2>7. \A s \in Tokens : token'[s].next = t => token'[t].file # "none" /\ s # t
    BY <1>3, <1>6, <1>10 DEF TokenOK
  <2>8. token'[t].file = "none" => token'[t].next = 0 /\ token'[t].grant # "revoked"
    <3> SUFFICES ASSUME token'[t].file = "none"
                 PROVE  token'[t].next = 0 /\ token'[t].grant # "revoked"
      OBVIOUS
    <3>1. token[t].file = "none" /\ ~Dropped(t)
      BY <1>2, <1>3, <1>6, <1>10 DEF TokenOK, Dropped
    <3> QED
      BY <1>2, <1>3, <3>1 DEF TokensWear, TokenOK
  <2> QED
    BY <2>1, <2>2, <2>3, <2>4, <2>5, <2>6, <2>7, <2>8 DEF TokenOK

(* A run discards what it was to discard, the token it found once another is  *)
(* stored, and the token it minted once that cannot be stored any more.       *)
LEMMA RunTokens ==
    ASSUME FeedInv, NEW r \in FeedRuns, NEW x, run' = [run EXCEPT ![r] = x], UNCHANGED tab,
           feed' \in FeedRows,
           feed'.token = feed.token \/ RunOffers(run[r], feed.token, feed'.token),
           TokensWear,
           \A t \in Tokens :
             /\ RunMinted(x, t) => RunMinted(run[r], t) /\ x.old = run[r].old
             /\ RunFound(x, t) =>
                  RunFound(run[r], t) \/ (t = feed.token /\ feed'.token = feed.token)
             /\ RunOffers(x, feed'.token, t) =>
                  RunOffers(run[r], feed.token, t) /\ t # feed'.token
             /\ RunDrops(x, t) =>
                  \/ RunDrops(run[r], t)
                  \/ RunFound(run[r], t) /\ t # feed'.token
                  \/ /\ RunMinted(run[r], t) /\ t # feed'.token
                     /\ ~RunOffers(x, feed'.token, t) /\ run[r].old # feed.token
    PROVE  \A t \in Tokens : TokenOK(t)'
<1>1. /\ run'[r] = x /\ \A q \in FeedRuns \ {r} : run'[q] = run[q]
      /\ token \in [Tokens -> TokenRows] /\ feed \in FeedRows
  BY DEF FeedInv, FeedShaped
<1>2. \A t \in Tokens : TokenOK(t)
  BY DEF FeedInv
<1>3. \A q \in FeedRuns, t \in Tokens :
        RunOffers(run[q], feed.token, t) => RunMinted(run[q], t)
  BY DEF RunOffers, RunMinted
<1>4. \A q \in FeedRuns, t \in Tokens :
        RunOffers(run'[q], feed'.token, t) =>
          RunOffers(run[q], feed.token, t) /\ t # feed'.token
  <2> SUFFICES ASSUME NEW q \in FeedRuns \ {r}, NEW t \in Tokens,
                      RunOffers(run[q], feed'.token, t)
               PROVE  RunOffers(run[q], feed.token, t) /\ t # feed'.token
    BY <1>1
  <2>1. Dated(run[q], feed) /\ run[q] \in RunRows
    BY DEF FeedInv, FeedShaped
  <2>2. run[q].at = "unsure" /\ run[q].old = feed'.token => feed'.token = feed.token
    <3>1. SUFFICES ASSUME run[q].at = "unsure", run[q].old = feed'.token,
                          RunOffers(run[r], feed.token, feed'.token)
                   PROVE  FALSE
      OBVIOUS
    <3>2. feed'.token \in Tokens
      BY <2>1, <3>1, TokenNumbers DEF Dated, FeedRows
    <3>3. RunFound(run[q], feed'.token)
      BY <3>1 DEF RunFound
    <3> QED
      BY <1>2, <3>1, <3>2, <3>3 DEF TokenOK
  <2>3. RunOffers(run[q], feed.token, t)
    BY <2>2 DEF RunOffers
  <2>4. t # feed'.token
    BY <1>2, <1>3, <2>3 DEF TokenOK
  <2> QED
    BY <2>3, <2>4
<1>5. \A t \in Tokens : Heir(t)' => Heir(t) /\ feed'.token = feed.token
  BY <1>1, <1>2, TokenNumbers DEF Heir, TokensWear, TokenOK, FeedRows
<1> SUFFICES ASSUME NEW t \in Tokens PROVE TokenOK(t)'
  OBVIOUS
<1>6. /\ \A s \in Tokens : token'[s].next = t => token[s].next = t
      /\ token[t].next = 0 => token'[t].next = 0
      /\ token'[t].file = "none" => token[t].file = "none"
      /\ token'[t].file = token[t].file \/ (token'[t].file = "gone" /\ Dropped(t))
  BY TokenNumbers DEF TokensWear
<1>7. \A q \in FeedRuns :
        /\ RunMinted(run'[q], t) => RunMinted(run[q], t) /\ run'[q].old = run[q].old
        /\ RunFound(run'[q], t) =>
             RunFound(run[q], t) \/ (t = feed'.token /\ feed'.token = feed.token)
  BY <1>1
<1>8. \A q \in FeedRuns : RunDrops(run'[q], t) =>
        /\ token[t].file # "none" /\ t # feed'.token /\ ~Heir(t)'
        /\ \A o \in Tabs : ~TabOffers(tab[o], t)
        /\ \A p \in FeedRuns : ~RunOffers(run'[p], feed'.token, t)
  <2> SUFFICES ASSUME NEW q \in FeedRuns, RunDrops(run'[q], t)
               PROVE  /\ token[t].file # "none" /\ t # feed'.token /\ ~Heir(t)'
                      /\ \A o \in Tabs : ~TabOffers(tab[o], t)
                      /\ \A p \in FeedRuns : ~RunOffers(run'[p], feed'.token, t)
    OBVIOUS
  <2>1. CASE RunDrops(run[q], t)
    BY <1>2, <1>4, <1>5, <2>1 DEF TokenOK
  <2>2. CASE RunFound(run[r], t) /\ t # feed'.token
    BY <1>2, <1>4, <1>5, <2>2 DEF TokenOK
  <2>3. CASE /\ q = r /\ RunMinted(run[r], t) /\ t # feed'.token
             /\ ~RunOffers(x, feed'.token, t) /\ run[r].old # feed.token
    <3>1. ~Heir(t)'
      BY <1>1, <1>2, <1>5, <2>3, TokenNumbers DEF Heir, TokenOK, FeedRows
    <3>2. \A p \in FeedRuns : ~RunOffers(run'[p], feed'.token, t)
      BY <1>1, <1>2, <1>3, <1>4, <2>3 DEF TokenOK
    <3> QED
      BY <1>2, <2>3, <3>1, <3>2 DEF TokenOK
  <2> QED
    BY <1>1, <2>1, <2>2, <2>3
<1>9. t = feed'.token \/ Heir(t)' \/ (\E o \in Tabs : TabOffers(tab[o], t))
      \/ (\E q \in FeedRuns : RunOffers(run'[q], feed'.token, t)) =>
        token[t].file = "kept" /\ ~Dropped(t)
  BY <1>2, <1>4, <1>5 DEF TokenOK, Dropped
<1>10. Heir(t)' => token'[t].grant # "revoked"
  BY <1>2, <1>5, <1>9 DEF TokenOK, TokensWear
<1> HIDE DEF Dropped
<1>11. t = feed.token => ~Heir(t)
  BY <1>1, <1>2, TokenNumbers DEF TokenOK, Heir, FeedRows
<1>12. \A o \in Tabs : TabOffers(tab[o], t) => t # feed'.token /\ t # feed.token
  BY <1>2, <1>3 DEF TokenOK
<1> QED
  <2>1. t = feed'.token \/ Heir(t)' => token'[t].file = "kept"
    BY <1>6, <1>9
  <2>2. Heir(t)' => token'[t].grant # "revoked" /\ \A q \in FeedRuns : ~RunFound(run'[q], t)
    BY <1>2, <1>5, <1>7, <1>10, <1>11 DEF TokenOK
  <2>3. \A o \in Tabs : TabDrops(tab[o], t) =>
          t # feed'.token /\ ~Heir(t)' /\ token'[t].file # "none"
    BY <1>2, <1>5, <1>6 DEF TokenOK
  <2>4. \A o \in Tabs : TabOffers(tab[o], t) =>
          /\ token'[t].file = "kept" /\ token'[t].next = 0 /\ t # feed'.token
          /\ \A p \in Tabs : /\ TabOffers(tab[p], t) => p = o
                             /\ ~TabDrops(tab[p], t)
          /\ \A q \in FeedRuns : /\ ~RunMinted(run'[q], t) /\ ~RunFound(run'[q], t)
                                 /\ ~RunDrops(run'[q], t)
          /\ \A s \in Tokens : token'[s].next # t
    BY <1>2, <1>6, <1>7, <1>8, <1>9, <1>12 DEF TokenOK
  <2>5. \A q \in FeedRuns :
          /\ RunDrops(run'[q], t) => t # feed'.token /\ ~Heir(t)' /\ token'[t].file # "none"
          /\ RunFound(run'[q], t) => token'[t].file # "none"
          /\ RunMinted(run'[q], t) =>
               /\ token'[t].file # "none" /\ run'[q].old # t
               /\ \A p \in FeedRuns : RunMinted(run'[p], t) => p = q
               /\ \A s \in Tokens : token'[s].next = t => s = run'[q].old
    BY <1>2, <1>6, <1>7, <1>8, <1>9 DEF TokenOK
  <2>6. \A q \in FeedRuns : RunOffers(run'[q], feed'.token, t) =>
          /\ token'[t].file = "kept" /\ token'[t].next = 0 /\ t # feed'.token
          /\ \A o \in Tabs : ~TabDrops(tab[o], t)
          /\ \A p \in FeedRuns : ~RunDrops(run'[p], t) /\ ~RunFound(run'[p], t)
    BY <1>2, <1>4, <1>6, <1>7, <1>8, <1>9 DEF TokenOK
  <2>7. \A s \in Tokens : token'[s].next = t => token'[t].file # "none" /\ s # t
    BY <1>2, <1>6 DEF TokenOK
  <2>8. token'[t].file = "none" => token'[t].next = 0 /\ token'[t].grant # "revoked"
    <3> SUFFICES ASSUME token'[t].file = "none"
                 PROVE  token'[t].next = 0 /\ token'[t].grant # "revoked"
      OBVIOUS
    <3>1. token[t].file = "none" /\ ~Dropped(t)
      BY <1>2, <1>3, <1>6, <1>10 DEF TokenOK, Dropped
    <3> QED
      BY <1>2, <1>3, <3>1 DEF TokensWear, TokenOK
  <2> QED
    BY <2>1, <2>2, <2>3, <2>4, <2>5, <2>6, <2>7, <2>8 DEF TokenOK

(* A token without a file is nobody's.                                        *)
LEMMA FreshToken ==
    ASSUME FeedInv, NEW t \in Tokens, token[t].file = "none"
    PROVE  /\ t # feed.token /\ ~Heir(t)
           /\ \A o \in Tabs : ~TabOffers(tab[o], t) /\ ~TabDrops(tab[o], t)
           /\ \A r \in FeedRuns : /\ ~RunMinted(run[r], t) /\ ~RunFound(run[r], t)
                                  /\ ~RunOffers(run[r], feed.token, t) /\ ~RunDrops(run[r], t)
           /\ \A s \in Tokens : token[s].next # t
  BY DEF FeedInv, TokenOK

(* An exchange mints a token that only its request has to do with.            *)
LEMMA TabMintsToken ==
    ASSUME FeedInv, NEW o \in Tabs, NEW x, tab' = [tab EXCEPT ![o] = x],
           UNCHANGED <<run, feed>>,
           NEW t \in Tokens, token[t].file = "none", token[t].next = 0,
           token' \in [Tokens -> TokenRows],
           token'[t].file = "kept", token'[t].next = 0,
           \A s \in Tokens \ {t} : token'[s] = token[s],
           \A s \in Tokens : ~TabDrops(x, s) /\ (TabOffers(x, s) => s = t)
    PROVE  \A s \in Tokens : TokenOK(s)'
<1>1. /\ tab'[o] = x /\ \A p \in Tabs \ {o} : tab'[p] = tab[p]
      /\ token \in [Tokens -> TokenRows] /\ feed \in FeedRows
  BY DEF FeedInv, FeedShaped
<1>2. \A s \in Tokens : TokenOK(s)
  BY DEF FeedInv
<1>3. \A s \in Tokens : token'[s].next = token[s].next
  OBVIOUS
<1>4. \A s \in Tokens : Heir(s)' <=> Heir(s)
  BY <1>1, <1>3, TokenNumbers DEF Heir, FeedRows
<1> SUFFICES ASSUME NEW s \in Tokens PROVE TokenOK(s)'
  OBVIOUS
<1>5. CASE s = t
  BY <1>1, <1>2, <1>3, <1>4, <1>5, FreshToken DEF TokenOK
<1>6. CASE s # t
  BY <1>1, <1>2, <1>3, <1>4, <1>6 DEF TokenOK
<1> QED
  BY <1>5, <1>6

(* A rotation mints the heir of the token the run found.                      *)
LEMMA RunMintsToken ==
    ASSUME FeedInv, NEW r \in FeedRuns, NEW x, run' = [run EXCEPT ![r] = x],
           UNCHANGED <<tab, feed>>,
           NEW t \in Tokens, token[t].file = "none", token[t].next = 0,
           NEW old \in Tokens, run[r].old = old, RunFound(run[r], old), x.old = old,
           token' \in [Tokens -> TokenRows],
           token'[t].file = "kept", token'[t].next = 0, token'[t].grant # "revoked",
           token'[old].file = token[old].file, token'[old].next = t,
           token'[old].grant # "revoked",
           \A s \in Tokens \ {t, old} : token'[s] = token[s],
           \A s \in Tokens :
             /\ ~RunDrops(x, s) /\ (RunMinted(x, s) <=> s = t) /\ (RunFound(x, s) => s = old)
             /\ RunOffers(x, feed.token, s) => s = t
    PROVE  \A s \in Tokens : TokenOK(s)'
<1>1. /\ run'[r] = x /\ \A q \in FeedRuns \ {r} : run'[q] = run[q]
      /\ token \in [Tokens -> TokenRows] /\ feed \in FeedRows
  BY DEF FeedInv, FeedShaped
<1>2. \A s \in Tokens : TokenOK(s)
  BY DEF FeedInv
<1>3. old # t
  BY FreshToken
<1>4. /\ \A s \in Tokens \ {old} : token'[s].next = token[s].next
      /\ \A s \in Tokens \ {t} : token'[s].file = token[s].file
  BY <1>3
<1>5. /\ \A s \in Tokens \ {t} : Heir(s)' => Heir(s)
      /\ Heir(t)' => feed.token = old
  BY <1>1, <1>3, <1>4, FreshToken, TokenNumbers DEF Heir, FeedRows
<1>6. /\ \A o \in Tabs : ~TabOffers(tab[o], old)
      /\ \A q \in FeedRuns : ~RunOffers(run[q], feed.token, old)
  BY <1>2 DEF TokenOK
<1> SUFFICES ASSUME NEW s \in Tokens PROVE TokenOK(s)'
  OBVIOUS
<1>7. CASE s = t
  <2>1. \A q \in FeedRuns : RunMinted(run'[q], t) => q = r
    BY <1>1, FreshToken
  <2>2. \A q \in FeedRuns : /\ ~RunFound(run'[q], t) /\ ~RunDrops(run'[q], t)
                            /\ RunOffers(run'[q], feed.token, t) => q = r
    BY <1>1, <1>3, FreshToken
  <2>3. \A i \in Tokens : token'[i].next = t => i = old
    BY <1>4, FreshToken
  <2> QED
    BY <1>1, <1>3, <1>7, <2>1, <2>2, <2>3, FreshToken DEF TokenOK
<1>8. CASE s # t
  <2>1. \A i \in Tokens : token'[i].next = s => token[i].next = s
    BY <1>4, <1>8
  <2>2. \A q \in FeedRuns :
          /\ RunMinted(run'[q], s) => q # r /\ RunMinted(run[q], s)
          /\ RunFound(run'[q], s) => RunFound(run[q], s)
          /\ RunOffers(run'[q], feed.token, s) => q # r /\ RunOffers(run[q], feed.token, s)
          /\ RunDrops(run'[q], s) => RunDrops(run[q], s)
          /\ q # r => run'[q] = run[q]
    BY <1>1, <1>8
  <2>3. /\ token'[s].file = token[s].file
        /\ s # old => token'[s].next = token[s].next
        /\ token'[s].grant = "revoked" => token[s].grant = "revoked"
    BY <1>4, <1>8
  <2> QED
    BY <1>1, <1>2, <1>5, <1>6, <1>8, <2>1, <2>2, <2>3 DEF TokenOK
<1> QED
  BY <1>7, <1>8

(* What a step may do to the clients it does not register.                    *)
Left(c) == \/ \E o \in Tabs : TabLeaves(tab[o], c)
           \/ \E r \in FeedRuns : RunLeaves(run[r], c)
ClientsWear ==
    /\ registered' \in [FeedClients -> {"none", "kept", "gone"}]
    /\ \A c \in FeedClients :
         registered'[c] = registered[c] \/ (registered'[c] = "gone" /\ Left(c))

(* A request hands the client it owns to the pending row or the connection,   *)
(* takes the pending row's, and discards one that nobody has any more.        *)
LEMMA TabClients ==
    ASSUME FeedInv, NEW o \in Tabs, NEW x, tab' = [tab EXCEPT ![o] = x], UNCHANGED run,
           ClientsWear,
           feedPending' = feedPending \/ feed'.client = feed.client,
           \A c \in FeedClients :
             /\ TabOwns(x, c) => /\ TabOwns(tab[o], c) \/ PendingOwns(feedPending, c)
                                 /\ ~PendingOwns(feedPending', c) /\ c # feed'.client
             /\ PendingOwns(feedPending', c) =>
                  PendingOwns(feedPending, c) \/ TabOwns(tab[o], c)
             /\ c = feed'.client => c = feed.client \/ TabOwns(tab[o], c)
             /\ TabLeaves(x, c) =>
                  \/ TabLeaves(tab[o], c)
                  \/ /\ TabOwns(tab[o], c) \/ PendingOwns(feedPending, c) \/ c = feed.client
                     /\ ~TabOwns(x, c) /\ ~PendingOwns(feedPending', c) /\ c # feed'.client
    PROVE  \A c \in FeedClients : ClientOK(c)'
<1>1. tab'[o] = x /\ \A p \in Tabs \ {o} : tab'[p] = tab[p]
  BY DEF FeedInv, FeedShaped
<1>2. \A c \in FeedClients : ClientOK(c)
  BY DEF FeedInv
<1> SUFFICES ASSUME NEW c \in FeedClients PROVE ClientOK(c)'
  OBVIOUS
<1>3. /\ ~(c = feed'.client /\ PendingOwns(feedPending', c))
      /\ \A p \in Tabs : TabOwns(tab'[p], c) =>
           /\ c # feed'.client /\ ~PendingOwns(feedPending', c)
           /\ \A q \in Tabs : TabOwns(tab'[q], c) => q = p
  BY <1>1, <1>2 DEF ClientOK
<1>4. \A p \in Tabs : TabLeaves(tab'[p], c) =>
        /\ registered[c] # "none" /\ c # feed'.client /\ ~PendingOwns(feedPending', c)
        /\ \A q \in Tabs : ~TabOwns(tab'[q], c)
  BY <1>1, <1>2 DEF ClientOK
<1>5. c = feed'.client \/ PendingOwns(feedPending', c) \/ (\E p \in Tabs : TabOwns(tab'[p], c))
        => registered[c] = "kept" /\ ~Left(c)
  BY <1>1, <1>2 DEF ClientOK, Left
<1>6. \A r \in FeedRuns : RunLeaves(run[r], c) =>
        /\ registered[c] # "none" /\ c # feed'.client /\ ~PendingOwns(feedPending', c)
        /\ \A q \in Tabs : ~TabOwns(tab'[q], c)
  BY <1>1, <1>2 DEF ClientOK
<1> HIDE DEF Left
<1>7. registered'[c] = registered[c] \/ (registered'[c] = "gone" /\ Left(c))
  BY DEF ClientsWear
<1> QED
  BY <1>3, <1>4, <1>5, <1>6, <1>7 DEF ClientOK

(* A run discards the client it found rejected, once the connection has let   *)
(* go of it.                                                                  *)
LEMMA RunClients ==
    ASSUME FeedInv, NEW r \in FeedRuns, NEW x, run' = [run EXCEPT ![r] = x],
           UNCHANGED <<tab, feedPending>>, ClientsWear, feed'.client \in {feed.client, 0},
           \A c \in FeedClients : RunLeaves(x, c) =>
             RunLeaves(run[r], c) \/ (c = feed.client /\ c # feed'.client)
    PROVE  \A c \in FeedClients : ClientOK(c)'
<1>1. run'[r] = x /\ \A q \in FeedRuns \ {r} : run'[q] = run[q]
  BY DEF FeedInv, FeedShaped
<1>2. \A c \in FeedClients : ClientOK(c)
  BY DEF FeedInv
<1> SUFFICES ASSUME NEW c \in FeedClients PROVE ClientOK(c)'
  OBVIOUS
<1>3. c = feed'.client => c = feed.client
  BY TokenNumbers
<1>4. c = feed'.client \/ PendingOwns(feedPending, c) \/ (\E p \in Tabs : TabOwns(tab[p], c))
        => registered[c] = "kept" /\ ~Left(c)
  BY <1>2, <1>3 DEF ClientOK, Left
<1>5. \A q \in FeedRuns : RunLeaves(run'[q], c) =>
        /\ registered[c] # "none" /\ c # feed'.client /\ ~PendingOwns(feedPending, c)
        /\ \A p \in Tabs : ~TabOwns(tab[p], c)
  BY <1>1, <1>2, <1>3 DEF ClientOK
<1> HIDE DEF Left
<1>6. registered'[c] = registered[c] \/ (registered'[c] = "gone" /\ Left(c))
  BY DEF ClientsWear
<1> QED
  BY <1>2, <1>3, <1>4, <1>5, <1>6 DEF ClientOK

LEMMA TabRegistersClient ==
    ASSUME FeedInv, NEW o \in Tabs, NEW x, tab' = [tab EXCEPT ![o] = x],
           UNCHANGED <<run, feed, feedPending>>,
           NEW c \in FeedClients, registered[c] = "none",
           registered' = [registered EXCEPT ![c] = "kept"],
           \A d \in FeedClients : ~TabLeaves(x, d) /\ (TabOwns(x, d) => d = c)
    PROVE  \A d \in FeedClients : ClientOK(d)'
<1>1. /\ tab'[o] = x /\ \A p \in Tabs \ {o} : tab'[p] = tab[p]
      /\ registered'[c] = "kept" /\ \A d \in FeedClients \ {c} : registered'[d] = registered[d]
  BY DEF FeedInv, FeedShaped
<1>2. \A d \in FeedClients : ClientOK(d)
  BY DEF FeedInv
<1> SUFFICES ASSUME NEW d \in FeedClients PROVE ClientOK(d)'
  OBVIOUS
<1>3. CASE d = c
  BY <1>1, <1>2, <1>3 DEF ClientOK
<1>4. CASE d # c
  BY <1>1, <1>2, <1>4 DEF ClientOK
<1> QED
  BY <1>3, <1>4

(* The rest of the invariant, for a step of a request and of a run.           *)
LEMMA TabMoves ==
    ASSUME FeedInv, NEW o \in Tabs, NEW x \in TabRows, tab' = [tab EXCEPT ![o] = x],
           UNCHANGED run, feed' \in FeedRows, feedPending' \in PendingRows,
           token' \in [Tokens -> TokenRows],
           registered' \in [FeedClients -> {"none", "kept", "gone"}],
           \/ feed'.token = feed.token /\ feed'.generation = feed.generation
           \/ feed'.token = 0
           \/ TabOffers(tab[o], feed'.token) /\ feed'.token \in Tokens,
           Registers(x),
           PendingSound(feedPending'),
           feed'.state = "revoked" => feed'.token = 0 /\ ~feed'.schedule,
           \A t \in Tokens : TokenOK(t)', \A c \in FeedClients : ClientOK(c)'
    PROVE  FeedInv'
<1>1. FeedShaped'
  BY DEF FeedInv, FeedShaped
<1>2. \A p \in Tabs : Registers(tab'[p])
  BY DEF FeedInv, FeedShaped
<1>3. ASSUME NEW r \in FeedRuns PROVE Dated(run[r], feed')
  <2>1. Dated(run[r], feed)
    BY DEF FeedInv
  <2>2. CASE feed'.token = feed.token /\ feed'.generation = feed.generation
    BY <2>1, <2>2 DEF Dated
  <2>3. CASE feed'.token = 0
    BY <2>1, <2>3 DEF Dated
  <2>4. CASE TabOffers(tab[o], feed'.token) /\ feed'.token \in Tokens
    <3>1. ~RunFound(run[r], feed'.token)
      BY <2>4 DEF FeedInv, TokenOK
    <3> QED
      BY <2>1, <3>1 DEF Dated, RunFound
  <2> QED
    BY <2>2, <2>3, <2>4
<1> QED
  BY <1>1, <1>2, <1>3 DEF FeedInv

LEMMA RunMoves ==
    ASSUME FeedInv, NEW r \in FeedRuns, NEW x \in RunRows, run' = [run EXCEPT ![r] = x],
           UNCHANGED <<tab, feedPending>>, feed' \in FeedRows,
           token' \in [Tokens -> TokenRows],
           registered' \in [FeedClients -> {"none", "kept", "gone"}],
           \/ feed'.token = feed.token /\ feed'.generation = feed.generation
           \/ RunOffers(run[r], feed.token, feed'.token) /\ feed'.token \in Tokens,
           Dated(x, feed'), Unladen(x),
           feed'.state = "revoked" => feed'.token = 0 /\ ~feed'.schedule,
           \A t \in Tokens : TokenOK(t)', \A c \in FeedClients : ClientOK(c)'
    PROVE  FeedInv'
<1>1. FeedShaped'
  BY DEF FeedInv, FeedShaped
<1>2. run'[r] = x /\ \A q \in FeedRuns \ {r} : run'[q] = run[q]
  BY DEF FeedInv, FeedShaped
<1>4. \A q \in FeedRuns : Unladen(run'[q])
  BY <1>2 DEF FeedInv
<1>3. ASSUME NEW q \in FeedRuns PROVE Dated(run'[q], feed')
  <2>1. Dated(run[q], feed)
    BY DEF FeedInv
  <2>2. CASE feed'.token = feed.token /\ feed'.generation = feed.generation
    BY <1>2, <2>1, <2>2 DEF Dated
  <2>3. CASE RunOffers(run[r], feed.token, feed'.token) /\ feed'.token \in Tokens
    <3>1. ~RunFound(run[q], feed'.token)
      BY <2>3 DEF FeedInv, TokenOK
    <3> QED
      BY <1>2, <2>1, <3>1 DEF Dated, RunFound
  <2> QED
    BY <2>2, <2>3
<1> QED
  BY <1>1, <1>2, <1>3, <1>4 DEF FeedInv
-----------------------------------------------------------------------------
(* What the steps do to tokens and clients.                                   *)
LEMMA NothingWears ==
    ASSUME FeedInv
    PROVE  /\ UNCHANGED token => TokensWear
           /\ UNCHANGED registered => ClientsWear
  BY DEF FeedInv, FeedShaped, TokensWear, ClientsWear

LEMMA DiscardsWear ==
    ASSUME FeedInv
    PROVE  /\ \A ts : (\A t \in ts \cap Tokens : Dropped(t)) /\ token' = WithoutTokens(ts)
                        => TokensWear
           /\ \A cs : (\A c \in cs \cap FeedClients : Left(c)) /\ registered' = WithoutClients(cs)
                        => ClientsWear
<1>1. token \in [Tokens -> TokenRows] /\ registered \in [FeedClients -> {"none", "kept", "gone"}]
  BY DEF FeedInv, FeedShaped
<1>2. [file |-> "gone", grant |-> "spent", next |-> 0] \in TokenRows
  BY JobFeedAssumption DEF TokenRows
<1>3. ASSUME NEW ts, \A t \in ts \cap Tokens : Dropped(t), token' = WithoutTokens(ts)
      PROVE  TokensWear
  <2>1. token' \in [Tokens -> TokenRows]
    BY <1>1, <1>2, <1>3 DEF WithoutTokens
  <2>2. \A t \in Tokens : IF t \in ts THEN token'[t] = [file |-> "gone", grant |-> "spent", next |-> 0]
                                      ELSE token'[t] = token[t]
    BY <1>3 DEF WithoutTokens
  <2> HIDE DEF Dropped
  <2> QED
    BY <1>3, <2>1, <2>2 DEF TokensWear
<1>4. ASSUME NEW cs, \A c \in cs \cap FeedClients : Left(c), registered' = WithoutClients(cs)
      PROVE  ClientsWear
  <2> HIDE DEF Left
  <2> QED
    BY <1>1, <1>4 DEF WithoutClients, ClientsWear
<1> QED
  BY <1>3, <1>4

LEMMA GrantsWear ==
    ASSUME FeedInv, NEW t, NEW grant \in {"spent", "revoked"},
           token' = [token EXCEPT ![t].grant = grant],
           grant = "revoked" /\ t \in Tokens => Dropped(t)
    PROVE  TokensWear
<1>1. token \in [Tokens -> TokenRows]
  BY DEF FeedInv, FeedShaped
<1>2. \A s \in Tokens : token'[s] = IF s = t THEN [token[s] EXCEPT !.grant = grant] ELSE token[s]
  BY <1>1
<1>3. token' \in [Tokens -> TokenRows]
  BY ZenonT(60), <1>1, <1>2 DEF TokenRows
<1> HIDE DEF Dropped
<1> QED
  BY <1>1, <1>2, <1>3 DEF TokensWear, TokenRows

LEMMA RevokedWear ==
    ASSUME FeedInv, NEW t, t \in Tokens => Dropped(t), NEW c, token' \in RevokedUpstream(t, c)
    PROVE  TokensWear
<1>1. token' = token \/ token' = [token EXCEPT ![t].grant = "revoked"]
  BY DEF RevokedUpstream
<1> QED
  BY <1>1, NothingWears, GrantsWear

(* Where a request stands after it ended, or with these files to discard.     *)
Retired(ts, cs) == IF ts \cup cs = {} THEN IdleTab
                   ELSE [IdleTab EXCEPT !.at = "retiring", !.tokens = ts, !.clients = cs]

LEMMA RequestsRetire ==
    ASSUME NEW ts \in SUBSET (0..MaxTokens), NEW cs \in SUBSET (0..MaxRegistered)
    PROVE  /\ Retired(ts, cs) \in TabRows /\ Registers(Retired(ts, cs))
           /\ \A t : /\ ~TabOffers(Retired(ts, cs), t)
                     /\ TabDrops(Retired(ts, cs), t) => t \in ts
           /\ \A c : /\ ~TabOwns(Retired(ts, cs), c)
                     /\ TabLeaves(Retired(ts, cs), c) => c \in cs
<1>1. 0 \in 0..MaxTokens /\ 0 \in 0..MaxRegistered
  BY JobFeedAssumption
<1>2. CASE ts \cup cs = {}
  BY <1>1, <1>2 DEF Retired, IdleTab, TabRows, Registers, TabOffers, TabDrops, TabOwns, TabLeaves
<1>3. CASE ts \cup cs # {}
  BY <1>1, <1>3 DEF Retired, IdleTab, TabRows, Registers, TabOffers, TabDrops, TabOwns, TabLeaves
<1> QED
  BY <1>2, <1>3

LEMMA IdleRequest ==
    /\ IdleTab \in TabRows /\ Registers(IdleTab)
    /\ \A t : ~TabOffers(IdleTab, t) /\ ~TabDrops(IdleTab, t)
    /\ \A c : ~TabOwns(IdleTab, c) /\ ~TabLeaves(IdleTab, c)
  BY JobFeedAssumption DEF IdleTab, TabRows, Registers, TabOffers, TabDrops, TabOwns, TabLeaves

LEMMA IdleCollector ==
    /\ IdleRun \in RunRows
    /\ \A t : /\ ~RunMinted(IdleRun, t) /\ ~RunFound(IdleRun, t) /\ ~RunDrops(IdleRun, t)
              /\ \A stored : ~RunOffers(IdleRun, stored, t)
    /\ \A c : ~RunLeaves(IdleRun, c)
    /\ Unladen(IdleRun) /\ \A f : Dated(IdleRun, f)
  BY JobFeedAssumption DEF IdleRun, RunRows, RunMinted, RunFound, RunDrops, RunOffers, RunLeaves,
                           Dated, Unladen

LEMMA TabStep ==
    ASSUME FeedInv, NEW o \in Tabs, NEW x \in TabRows, tab' = [tab EXCEPT ![o] = x],
           UNCHANGED run, feed' \in FeedRows, feedPending' \in PendingRows,
           TokensWear, ClientsWear,
           \/ feed'.token = feed.token /\ feed'.generation = feed.generation
           \/ feed'.token = 0
           \/ TabOffers(tab[o], feed'.token) /\ feed'.token \in Tokens,
           \A t \in Tokens :
             /\ TabOffers(x, t) => TabOffers(tab[o], t) /\ t # feed'.token
             /\ TabDrops(x, t) =>
                  \/ TabDrops(tab[o], t)
                  \/ TabOffers(tab[o], t) /\ t # feed'.token /\ ~TabOffers(x, t)
                  \/ t = feed.token /\ t # feed'.token,
           feedPending' = feedPending \/ feed'.client = feed.client,
           \A c \in FeedClients :
             /\ TabOwns(x, c) => /\ TabOwns(tab[o], c) \/ PendingOwns(feedPending, c)
                                 /\ ~PendingOwns(feedPending', c) /\ c # feed'.client
             /\ PendingOwns(feedPending', c) =>
                  PendingOwns(feedPending, c) \/ TabOwns(tab[o], c)
             /\ c = feed'.client => c = feed.client \/ TabOwns(tab[o], c)
             /\ TabLeaves(x, c) =>
                  \/ TabLeaves(tab[o], c)
                  \/ /\ TabOwns(tab[o], c) \/ PendingOwns(feedPending, c) \/ c = feed.client
                     /\ ~TabOwns(x, c) /\ ~PendingOwns(feedPending', c) /\ c # feed'.client,
           Registers(x),
           PendingSound(feedPending'),
           feed'.state = "revoked" => feed'.token = 0 /\ ~feed'.schedule
    PROVE  FeedInv'
<1>1. \A t \in Tokens : TokenOK(t)'
  <2>1. feed'.token \in {feed.token, 0} \/ TabOffers(tab[o], feed'.token)
    OBVIOUS
  <2>2. /\ \A t \in Tokens : TabOffers(x, t) => TabOffers(tab[o], t) /\ t # feed'.token
        /\ \A t \in Tokens : TabDrops(x, t) =>
             \/ TabDrops(tab[o], t)
             \/ TabOffers(tab[o], t) /\ t # feed'.token /\ ~TabOffers(x, t)
             \/ t = feed.token /\ t # feed'.token
    OBVIOUS
  <2> QED
    BY <2>1, <2>2, TabTokens
<1>2. \A c \in FeedClients : ClientOK(c)'
  BY TabClients
<1>3. /\ token' \in [Tokens -> TokenRows]
      /\ registered' \in [FeedClients -> {"none", "kept", "gone"}]
  BY DEF TokensWear, ClientsWear
<1> QED
  BY <1>1, <1>2, <1>3, TabMoves

(* What is known of a request, the connection and the pending row.            *)
LEMMA TabKnown ==
    ASSUME FeedInv, NEW o \in Tabs
    PROVE  /\ tab[o] \in TabRows /\ Registers(tab[o]) /\ tab \in [Tabs -> TabRows]
           /\ feed \in FeedRows /\ feedPending \in PendingRows
           /\ PendingSound(feedPending)
           /\ feed.state = "revoked" => feed.token = 0 /\ ~feed.schedule
           /\ \A t \in Tokens : TokenOK(t)
           /\ \A c \in FeedClients : ClientOK(c)
  BY DEF FeedInv, FeedShaped

LEMMA StartKeeps == ASSUME FeedInv, NEW o \in Tabs, Start(o) PROVE FeedInv'
<1> DEFINE mine == Fresh(o)
           theirs == IF feedPending.there /\ feedPending.fresh THEN {feedPending.client} ELSE {}
<1>1. /\ mine \in SUBSET (0..MaxRegistered) /\ theirs \in SUBSET (0..MaxRegistered)
      /\ {} \in SUBSET (0..MaxTokens)
      /\ \A c \in mine : TabOwns(tab[o], c)
      /\ \A c \in theirs : PendingOwns(feedPending, c)
  BY TabKnown DEF Start, Fresh, TabOwns, PendingOwns, TabRows, PendingRows
<1>2. UNCHANGED <<run, feed, token, registered>> /\ TokensWear /\ ClientsWear
  BY NothingWears DEF Start
<1>3. CASE tab' = [tab EXCEPT ![o] = Retired({}, mine)] /\ feedPending' = feedPending
  <2> HIDE DEF mine
  <2>1. \A c \in FeedClients : c \in mine => ~PendingOwns(feedPending, c) /\ c # feed.client
    BY <1>1, TabKnown DEF ClientOK
  <2> QED
    BY <1>1, <1>2, <1>3, <2>1, TabKnown, RequestsRetire, TabStep
<1>4. CASE /\ tab' = [tab EXCEPT ![o] = Retired({}, theirs)]
           /\ feedPending' = [there |-> TRUE, mode |-> tab[o].mode,
                              client |-> tab[o].client, fresh |-> tab[o].fresh]
           /\ tab[o].mode \in {"connect", "reconnect"}
  <2>1. /\ feedPending' \in PendingRows
        /\ \A c : PendingOwns(feedPending', c) <=> TabOwns(tab[o], c)
        /\ PendingSound(feedPending')
    BY <1>4, TabKnown DEF Start, TabRows, PendingRows, PendingOwns, TabOwns, Registers,
                          PendingSound
  <2> HIDE DEF theirs
  <2>2. \A c \in FeedClients : PendingOwns(feedPending, c) => ~TabOwns(tab[o], c) /\ c # feed.client
    BY TabKnown DEF ClientOK
  <2> QED
    BY <1>1, <1>2, <1>4, <2>1, <2>2, TabKnown, RequestsRetire, TabStep
<1>5. tab[o].mode \in {"connect", "reconnect"}
  BY TabKnown DEF Start, Registers
<1> QED
  BY <1>3, <1>4, <1>5 DEF Start, TabRetires, Retired

LEMMA BeginStartKeeps == ASSUME FeedInv, NEW o \in Tabs, BeginStart(o) PROVE FeedInv'
<1> DEFINE mode == IF feed.state = "none" THEN "connect" ELSE "reconnect"
<1>1. UNCHANGED <<run, feed, feedPending, token>> /\ TokensWear
  BY NothingWears DEF BeginStart
<1>2. CASE /\ mode = "reconnect" /\ UNCHANGED registered
           /\ tab' = [tab EXCEPT ![o] = [IdleTab EXCEPT !.at = "starting", !.mode = mode,
                                                        !.client = feed.client]]
  <2> DEFINE x == [IdleTab EXCEPT !.at = "starting", !.mode = mode, !.client = feed.client]
  <2>1. /\ x \in TabRows /\ Registers(x)
        /\ \A t : ~TabOffers(x, t) /\ ~TabDrops(x, t)
        /\ \A c : ~TabOwns(x, c) /\ ~TabLeaves(x, c)
    BY <1>2, IdleRequest, TabKnown DEF IdleTab, TabRows, FeedRows, Registers, TabOffers,
                                       TabDrops, TabOwns, TabLeaves
  <2>2. tab' = [tab EXCEPT ![o] = x]
    BY <1>2
  <2>3. ClientsWear
    BY <1>2, NothingWears
  <2> HIDE DEF x
  <2> QED
    BY <1>1, <2>1, <2>2, <2>3, TabKnown, TabStep
<1>3. CASE \E c \in NewClients :
             /\ registered' = [registered EXCEPT ![c] = "kept"]
             /\ tab' = [tab EXCEPT ![o] = [IdleTab EXCEPT !.at = "starting", !.mode = mode,
                                                          !.client = c, !.fresh = TRUE]]
  <2>1. PICK c \in NewClients :
             /\ registered' = [registered EXCEPT ![c] = "kept"]
             /\ tab' = [tab EXCEPT ![o] = [IdleTab EXCEPT !.at = "starting", !.mode = mode,
                                                          !.client = c, !.fresh = TRUE]]
    BY <1>3
  <2>2. c \in FeedClients /\ registered[c] = "none"
    BY DEF NewClients
  <2> DEFINE x == [IdleTab EXCEPT !.at = "starting", !.mode = mode, !.client = c,
                                  !.fresh = TRUE]
  <2>3. /\ x \in TabRows /\ Registers(x)
        /\ \A t : ~TabOffers(x, t) /\ ~TabDrops(x, t)
        /\ \A d : (TabOwns(x, d) => d = c) /\ ~TabLeaves(x, d)
    BY <2>2, IdleRequest, TokenNumbers DEF IdleTab, TabRows, Registers, TabOffers, TabDrops,
                                           TabOwns, TabLeaves
  <2>4. tab' = [tab EXCEPT ![o] = x]
    BY <2>1
  <2> HIDE DEF x
  <2>5. \A t \in Tokens : TokenOK(t)'
    BY <1>1, <2>3, <2>4, TabKnown, TabTokens
  <2>6. \A d \in FeedClients : ClientOK(d)'
    BY <1>1, <2>1, <2>2, <2>3, <2>4, TabRegistersClient
  <2>7. /\ token' \in [Tokens -> TokenRows]
        /\ registered' \in [FeedClients -> {"none", "kept", "gone"}]
    BY <1>1, <2>1, <2>2 DEF FeedInv, FeedShaped
  <2> QED
    BY <1>1, <2>3, <2>4, <2>5, <2>6, <2>7, TabKnown, TabMoves
<1> QED
  BY <1>2, <1>3 DEF BeginStart

LEMMA ConsumeKeeps == ASSUME FeedInv, NEW o \in Tabs, Consume(o) PROVE FeedInv'
<1>1. /\ UNCHANGED <<run, feed, token, registered>> /\ TokensWear /\ ClientsWear
      /\ feedPending' = NoPending /\ feedPending.there
  BY NothingWears DEF Consume
<1>2. /\ NoPending \in PendingRows /\ ~NoPending.there
      /\ PendingSound(NoPending) /\ \A c : ~PendingOwns(NoPending, c)
  BY JobFeedAssumption DEF NoPending, PendingRows, PendingOwns, PendingSound
<1>3. \A c \in FeedClients : PendingOwns(feedPending, c) => c # feed.client
  BY TabKnown DEF ClientOK
<1>4. CASE tab' = [tab EXCEPT ![o] = [IdleTab EXCEPT !.at = "exchanging",
             !.mode = feedPending.mode, !.client = feedPending.client,
             !.fresh = feedPending.fresh]]
  <2> DEFINE x == [IdleTab EXCEPT !.at = "exchanging", !.mode = feedPending.mode,
                     !.client = feedPending.client, !.fresh = feedPending.fresh]
  <2>1. /\ x \in TabRows /\ Registers(x)
        /\ \A t : ~TabOffers(x, t) /\ ~TabDrops(x, t)
        /\ \A c : ~TabLeaves(x, c) /\ (TabOwns(x, c) => PendingOwns(feedPending, c))
    BY <1>1, IdleRequest, TabKnown DEF IdleTab, TabRows, PendingRows, Registers, TabOffers,
                                       TabDrops, TabOwns, TabLeaves, PendingOwns, PendingSound
  <2>2. tab' = [tab EXCEPT ![o] = x]
    BY <1>4
  <2> HIDE DEF x
  <2> QED
    BY <1>1, <1>2, <1>3, <2>1, <2>2, TabKnown, TabStep
<1>5. CASE TabRetires(o, {}, IF feedPending.fresh THEN {feedPending.client} ELSE {})
  <2> DEFINE theirs == IF feedPending.fresh THEN {feedPending.client} ELSE {}
  <2>1. /\ theirs \in SUBSET (0..MaxRegistered) /\ {} \in SUBSET (0..MaxTokens)
        /\ \A c \in theirs : PendingOwns(feedPending, c)
    BY <1>1, TabKnown DEF PendingRows, PendingOwns
  <2>2. tab' = [tab EXCEPT ![o] = Retired({}, theirs)]
    BY <1>5 DEF TabRetires, Retired
  <2> HIDE DEF theirs
  <2> QED
    BY ZenonT(60), <1>1, <1>2, <1>3, <2>1, <2>2, TabKnown, RequestsRetire, TabStep
<1> QED
  BY <1>4, <1>5 DEF Consume

LEMMA ExchangeKeeps == ASSUME FeedInv, NEW o \in Tabs, Exchange(o) PROVE FeedInv'
<1>1. UNCHANGED <<run, feed, feedPending, registered>> /\ ClientsWear /\ tab[o].at = "exchanging"
  BY NothingWears DEF Exchange
<1>2. CASE \E t \in NewTokens : /\ token' = Saved(t)
                               /\ tab' = [tab EXCEPT ![o].at = "storing", ![o].token = t]
  <2>1. PICK t \in NewTokens : /\ token' = Saved(t)
                              /\ tab' = [tab EXCEPT ![o].at = "storing", ![o].token = t]
    BY <1>2
  <2>2. t \in Tokens /\ token[t].file = "none" /\ t \in 0..MaxTokens
    BY TokenNumbers DEF NewTokens
  <2>3. token[t] \in TokenRows /\ token[t].next = 0 /\ token \in [Tokens -> TokenRows]
    BY <2>2 DEF FeedInv, FeedShaped, TokenOK
  <2> DEFINE x == [tab[o] EXCEPT !.at = "storing", !.token = t]
  <2>4. /\ x \in TabRows /\ Registers(x)
        /\ \A s : ~TabDrops(x, s) /\ (TabOffers(x, s) => s = t)
        /\ \A c : ~TabLeaves(x, c) /\ (TabOwns(x, c) => TabOwns(tab[o], c))
    BY <1>1, <2>2, TabKnown DEF TabRows, Registers, TabOffers, TabDrops, TabOwns, TabLeaves
  <2>5. tab' = [tab EXCEPT ![o] = x]
    BY <2>1
  <2>6. /\ token' \in [Tokens -> TokenRows]
        /\ token'[t].file = "kept" /\ token'[t].next = 0
        /\ \A s \in Tokens \ {t} : token'[s] = token[s]
    BY <2>1, <2>2, <2>3 DEF Saved, TokenRows
  <2> HIDE DEF x
  <2>7. \A s \in Tokens : TokenOK(s)'
    BY <1>1, <2>2, <2>3, <2>4, <2>5, <2>6, TabMintsToken
  <2>8. \A c \in FeedClients : TabOwns(tab[o], c) => ~PendingOwns(feedPending, c) /\ c # feed.client
    BY TabKnown DEF ClientOK
  <2>9. \A c \in FeedClients : ClientOK(c)'
    BY <1>1, <2>4, <2>5, <2>8, TabClients
  <2> QED
    BY <1>1, <2>4, <2>5, <2>6, <2>7, <2>9, TabKnown, TabMoves DEF ClientsWear
<1>3. CASE UNCHANGED token /\ TabRetires(o, {}, Fresh(o))
  <2> DEFINE mine == Fresh(o)
  <2>1. /\ mine \in SUBSET (0..MaxRegistered) /\ {} \in SUBSET (0..MaxTokens)
        /\ \A c \in mine : TabOwns(tab[o], c)
    BY <1>1, TabKnown DEF Fresh, TabOwns, TabRows
  <2>2. tab' = [tab EXCEPT ![o] = Retired({}, mine)]
    BY <1>3 DEF TabRetires, Retired
  <2>3. TokensWear
    BY <1>3, NothingWears
  <2> HIDE DEF mine
  <2>4. \A c \in FeedClients : c \in mine => ~PendingOwns(feedPending, c) /\ c # feed.client
    BY <2>1, TabKnown DEF ClientOK
  <2> QED
    BY <1>1, <2>1, <2>2, <2>3, <2>4, TabKnown, RequestsRetire, TabStep
<1>4. CASE UNCHANGED token /\ TabGoes(o, "clearing")
  <2> DEFINE x == [tab[o] EXCEPT !.at = "clearing"]
  <2>1. /\ x \in TabRows /\ Registers(x)
        /\ \A t : ~TabOffers(x, t) /\ ~TabDrops(x, t)
        /\ \A c : ~TabOwns(x, c) /\ ~TabLeaves(x, c)
    BY TabKnown DEF TabRows, Registers, TabOffers, TabDrops, TabOwns, TabLeaves
  <2>2. tab' = [tab EXCEPT ![o] = x]
    BY <1>4 DEF TabGoes
  <2>3. TokensWear
    BY <1>4, NothingWears
  <2> HIDE DEF x
  <2> QED
    BY <1>1, <2>1, <2>2, <2>3, TabKnown, TabStep
<1> QED
  BY <1>2, <1>3, <1>4 DEF Exchange

(* A request that ends, or goes on to discard these files.                    *)
LEMMA TabRetireStep ==
    ASSUME FeedInv, NEW o \in Tabs, NEW ts \in SUBSET (0..MaxTokens),
           NEW cs \in SUBSET (0..MaxRegistered), tab' = [tab EXCEPT ![o] = Retired(ts, cs)],
           UNCHANGED <<run, feedPending>>, feed' \in FeedRows, TokensWear, ClientsWear,
           \/ feed'.token = feed.token /\ feed'.generation = feed.generation
           \/ feed'.token = 0
           \/ TabOffers(tab[o], feed'.token) /\ feed'.token \in Tokens,
           \A t \in Tokens : t \in ts =>
             t # feed'.token /\ (TabOffers(tab[o], t) \/ t = feed.token),
           \A c \in FeedClients :
             /\ c = feed'.client => c = feed.client \/ TabOwns(tab[o], c)
             /\ c \in cs => /\ TabOwns(tab[o], c) \/ c = feed.client
                           /\ c # feed'.client,
           feed'.state = "revoked" => feed'.token = 0 /\ ~feed'.schedule
    PROVE  FeedInv'
<1> DEFINE x == Retired(ts, cs)
<1>1. /\ x \in TabRows /\ Registers(x)
      /\ \A t : ~TabOffers(x, t) /\ (TabDrops(x, t) => t \in ts)
      /\ \A c : ~TabOwns(x, c) /\ (TabLeaves(x, c) => c \in cs)
  BY RequestsRetire
<1> HIDE DEF x
<1>2. \A c \in FeedClients : TabOwns(tab[o], c) \/ c = feed.client => ~PendingOwns(feedPending, c)
  BY TabKnown DEF ClientOK
<1>3. \A t \in Tokens :
        /\ TabOffers(x, t) => TabOffers(tab[o], t) /\ t # feed'.token
        /\ TabDrops(x, t) =>
             \/ TabDrops(tab[o], t)
             \/ TabOffers(tab[o], t) /\ t # feed'.token /\ ~TabOffers(x, t)
             \/ t = feed.token /\ t # feed'.token
  BY <1>1
<1>4. \A c \in FeedClients :
        /\ TabOwns(x, c) => /\ TabOwns(tab[o], c) \/ PendingOwns(feedPending, c)
                            /\ ~PendingOwns(feedPending', c) /\ c # feed'.client
        /\ PendingOwns(feedPending', c) => PendingOwns(feedPending, c) \/ TabOwns(tab[o], c)
        /\ c = feed'.client => c = feed.client \/ TabOwns(tab[o], c)
        /\ TabLeaves(x, c) =>
             \/ TabLeaves(tab[o], c)
             \/ /\ TabOwns(tab[o], c) \/ PendingOwns(feedPending, c) \/ c = feed.client
                /\ ~TabOwns(x, c) /\ ~PendingOwns(feedPending', c) /\ c # feed'.client
  BY <1>1, <1>2
<1>5. /\ feedPending' \in PendingRows /\ tab' = [tab EXCEPT ![o] = x]
      /\ PendingSound(feedPending')
  BY TabKnown DEF x
<1> QED
  BY <1>1, <1>3, <1>4, <1>5, TabStep

LEMMA StoreKeeps == ASSUME FeedInv, NEW o \in Tabs, Store(o) PROVE FeedInv'
<1>1. /\ UNCHANGED <<run, feedPending, token, registered>> /\ TokensWear /\ ClientsWear
      /\ tab[o].at = "storing" /\ TabOffers(tab[o], tab[o].token)
      /\ tab[o].token \in 0..MaxTokens /\ tab[o].client \in 0..MaxRegistered
  BY NothingWears, TabKnown DEF Store, TabOffers, TabRows
<1>2. \A c \in FeedClients : TabOwns(tab[o], c) <=> tab[o].fresh /\ c = tab[o].client
  BY <1>1 DEF TabOwns
<1>3. \A c \in FeedClients : TabOwns(tab[o], c) => ~PendingOwns(feedPending, c) /\ c # feed.client
  BY TabKnown DEF ClientOK
<1>4. CASE /\ feed' = Repinned(o)
           /\ ~(\/ tab[o].mode = "connect" /\ feed.state # "none"
                \/ tab[o].mode = "reconnect" /\ ~tab[o].fresh /\ feed.client # tab[o].client)
           /\ TabRetires(o, {feed.token} \ {0}, IF tab[o].fresh THEN {feed.client} \ {0} ELSE {})
  <2> DEFINE ts == {feed.token} \ {0}
             cs == IF tab[o].fresh THEN {feed.client} \ {0} ELSE {}
  <2>1. feed.generation \in Nat /\ feed.generation + 1 \in Nat
    BY TabKnown DEF FeedRows
  <2>2. PICK later \in Nat : later = feed.generation + 1
    BY <2>1
  <2>3. feed' = [feed EXCEPT !.state = "connected", !.token = tab[o].token,
                             !.client = tab[o].client, !.generation = later,
                             !.schedule = TRUE]
    BY <1>4, <2>2 DEF Repinned
  <2>4. /\ feed' \in FeedRows /\ feed'.token = tab[o].token /\ feed'.client = tab[o].client
        /\ feed'.state = "connected"
    BY <1>1, <2>3, TabKnown DEF FeedRows
  <2>5. ~tab[o].fresh => tab[o].client = feed.client
    BY <1>1, <1>4, TabKnown DEF Registers
  <2>6. /\ ts \in SUBSET (0..MaxTokens) /\ cs \in SUBSET (0..MaxRegistered)
        /\ tab' = [tab EXCEPT ![o] = Retired(ts, cs)]
    BY <1>4, TabKnown DEF FeedRows, TabRetires, Retired
  <2>7. \A t \in Tokens : TabOffers(tab[o], t) => t # feed.token
    BY TabKnown DEF TokenOK
  <2>8. /\ \A t \in Tokens : t \in ts => t = feed.token /\ t # feed'.token
        /\ \A c \in FeedClients : c \in cs => c = feed.client /\ c # feed'.client
    BY <1>1, <1>2, <1>3, <2>4, <2>7
  <2>9. \A c \in FeedClients : c = feed'.client => c = feed.client \/ TabOwns(tab[o], c)
    BY <1>2, <2>4, <2>5
  <2>10. feed'.token = 0 \/ (TabOffers(tab[o], feed'.token) /\ feed'.token \in Tokens)
    BY <1>1, <2>4, TokenNumbers
  <2> HIDE DEF ts, cs
  <2> QED
    BY <1>1, <2>4, <2>6, <2>8, <2>9, <2>10, TabRetireStep
<1>5. CASE TabRetires(o, {tab[o].token}, Fresh(o)) /\ UNCHANGED feed
  <2> DEFINE ts == {tab[o].token}
             cs == Fresh(o)
  <2>1. /\ ts \in SUBSET (0..MaxTokens) /\ cs \in SUBSET (0..MaxRegistered)
        /\ tab' = [tab EXCEPT ![o] = Retired(ts, cs)]
    BY <1>1, <1>5 DEF TabRetires, Retired, Fresh
  <2>2. \A t \in Tokens : TabOffers(tab[o], t) => t # feed.token
    BY TabKnown DEF TokenOK
  <2>3. /\ \A t \in Tokens : t \in ts => TabOffers(tab[o], t)
        /\ \A c \in FeedClients : c \in cs => TabOwns(tab[o], c)
    BY <1>1, <1>2 DEF Fresh
  <2> HIDE DEF ts, cs
  <2> QED
    BY <1>1, <1>3, <1>5, <2>1, <2>2, <2>3, TabKnown, TabRetireStep
<1> QED
  BY <1>4, <1>5 DEF Store

LEMMA ClearClientKeeps == ASSUME FeedInv, NEW o \in Tabs, ClearClient(o) PROVE FeedInv'
<1>1. UNCHANGED <<run, feedPending, token, registered>> /\ TokensWear /\ ClientsWear
  BY NothingWears DEF ClearClient
<1>2. CASE /\ TabRetires(o, {}, {feed.client})
           /\ feed' \in {[feed EXCEPT !.client = 0],
                         [feed EXCEPT !.client = 0, !.schedule = FALSE,
                                      !.state = "authorization_required"]}
  <2> DEFINE cs == {feed.client}
  <2>1. /\ feed' \in FeedRows /\ feed'.token = feed.token /\ feed'.client = 0
        /\ feed'.generation = feed.generation
        /\ feed'.state = "revoked" => feed.state = "revoked" /\ feed'.schedule = feed.schedule
    BY <1>2, TabKnown, TokenNumbers DEF FeedRows
  <2>2. /\ cs \in SUBSET (0..MaxRegistered) /\ {} \in SUBSET (0..MaxTokens)
        /\ tab' = [tab EXCEPT ![o] = Retired({}, cs)]
    BY <1>2, TabKnown DEF FeedRows, TabRetires, Retired
  <2>3. \A c \in FeedClients : c \in cs => c = feed.client /\ ~PendingOwns(feedPending, c)
    BY TabKnown DEF ClientOK
  <2> HIDE DEF cs
  <2> QED
    <3>1. \A c \in FeedClients : c # feed'.client
      BY <2>1, TokenNumbers
    <3>2. feed'.state = "revoked" => feed'.token = 0 /\ ~feed'.schedule
      BY <2>1, TabKnown
    <3> QED
      BY <1>1, <2>1, <2>2, <2>3, <3>1, <3>2, TabRetireStep
<1>3. CASE TabEnds(o) /\ UNCHANGED feed
  BY <1>1, <1>3, TabKnown, IdleRequest, TabStep DEF TabEnds
<1> QED
  BY <1>2, <1>3 DEF ClearClient

LEMMA RevokeKeeps == ASSUME FeedInv, NEW o \in Tabs, Revoke(o) PROVE FeedInv'
<1>1. UNCHANGED <<run, feedPending, token, registered>> /\ TokensWear /\ ClientsWear
  BY NothingWears DEF Revoke
<1>2. feed.generation \in Nat /\ feed.generation + 1 \in Nat
  BY TabKnown DEF FeedRows
<1>3. PICK later \in Nat : later = feed.generation + 1
  BY <1>2
<1> DEFINE x == [IdleTab EXCEPT !.at = "ended", !.mode = "revoke", !.client = feed.client,
                   !.token = feed.token, !.generation = later]
<1>4. /\ x \in TabRows /\ Registers(x)
      /\ \A t : ~TabOffers(x, t) /\ (TabDrops(x, t) => t = feed.token)
      /\ \A c : ~TabOwns(x, c) /\ ~TabLeaves(x, c)
  BY IdleRequest, TabKnown DEF IdleTab, TabRows, FeedRows, Registers, TabOffers, TabDrops,
                               TabOwns, TabLeaves
<1>5. tab' = [tab EXCEPT ![o] = x]
  BY <1>3 DEF Revoke
<1>6. feed' = [feed EXCEPT !.state = "revoked", !.token = 0, !.generation = later,
                           !.schedule = FALSE]
  BY <1>3 DEF Revoke
<1>7. /\ feed' \in FeedRows /\ feed'.token = 0 /\ feed'.client = feed.client
      /\ ~feed'.schedule
  BY <1>6, TabKnown, TokenNumbers DEF FeedRows
<1> HIDE DEF x
<1> QED
  BY <1>1, <1>4, <1>5, <1>7, TabKnown, TokenNumbers, TabStep

LEMMA RevokeGoesOn ==
    ASSUME FeedInv, NEW o \in Tabs, RevokeUpstream(o) \/ RevokeDiscards(o) PROVE FeedInv'
<1>1. /\ UNCHANGED <<run, feed, feedPending, registered>> /\ ClientsWear
      /\ tab[o].at \in {"ended", "unwanted", "refused"}
  BY NothingWears DEF RevokeUpstream, RevokeDiscards
<1>2. \A t \in Tokens : t = tab[o].token => Dropped(t)
  BY <1>1 DEF Dropped, TabDrops
<1>3. TokensWear
  <2>1. \/ UNCHANGED token \/ token' \in RevokedUpstream(tab[o].token, tab[o].client)
        \/ token' = WithoutTokens({tab[o].token})
    BY DEF RevokeUpstream, RevokeDiscards
  <2> HIDE DEF Dropped
  <2>2. \A t \in {tab[o].token} \cap Tokens : Dropped(t)
    BY <1>2
  <2> QED
    BY <1>2, <2>1, <2>2, NothingWears, DiscardsWear, RevokedWear
<1>4. CASE \E at \in {"unwanted", "refused", "clearing"} : TabGoes(o, at)
  <2>1. PICK at \in {"unwanted", "refused", "clearing"} : TabGoes(o, at)
    BY <1>4
  <2> DEFINE x == [tab[o] EXCEPT !.at = at]
  <2>2. /\ x \in TabRows /\ Registers(x)
        /\ \A t : ~TabOffers(x, t) /\ (TabDrops(x, t) => TabDrops(tab[o], t))
        /\ \A c : ~TabOwns(x, c) /\ ~TabLeaves(x, c)
    BY <1>1, TabKnown DEF TabRows, Registers, TabOffers, TabDrops, TabOwns, TabLeaves
  <2>3. tab' = [tab EXCEPT ![o] = x]
    BY <2>1 DEF TabGoes
  <2> HIDE DEF x
  <2>4. \A c \in FeedClients : c = feed.client => ~PendingOwns(feedPending, c)
    BY TabKnown DEF ClientOK
  <2> QED
    BY <1>1, <1>3, <2>2, <2>3, <2>4, TabKnown, TabStep
<1>5. CASE TabEnds(o)
  BY <1>1, <1>3, <1>5, TabKnown, IdleRequest, TabStep DEF TabEnds
<1> QED
  BY <1>4, <1>5 DEF RevokeUpstream, RevokeDiscards

LEMMA TabEndsKeeps ==
    ASSUME FeedInv, NEW o \in Tabs, TabDiscards(o) \/ TabCrashes(o) PROVE FeedInv'
<1>1. UNCHANGED <<run, feed, feedPending>> /\ tab' = [tab EXCEPT ![o] = IdleTab]
  BY DEF TabDiscards, TabCrashes, TabEnds
<1>2. TokensWear /\ ClientsWear
  <2>1. CASE TabDiscards(o)
    <3>1. /\ \A t \in tab[o].tokens \cap Tokens : Dropped(t)
          /\ \A c \in tab[o].clients \cap FeedClients : Left(c)
      BY <2>1 DEF TabDiscards, Dropped, Left, TabDrops, TabLeaves
    <3> HIDE DEF Dropped, Left
    <3> QED
      BY <2>1, <3>1, DiscardsWear DEF TabDiscards
  <2>2. CASE TabCrashes(o)
    BY <2>2, NothingWears DEF TabCrashes
  <2> QED
    BY <2>1, <2>2
<1> QED
  BY <1>1, <1>2, TabKnown, IdleRequest, TabStep

(* What changes neither the connection's token nor its client.                *)
LEMMA FeedKeeps ==
    ASSUME FeedInv, feed' \in FeedRows, feed'.token = feed.token, feed'.client = feed.client,
           feed'.generation = feed.generation,
           feed'.state = "revoked" => feed.state = "revoked" /\ ~feed'.schedule,
           UNCHANGED <<feedPending, token, registered, tab, run>>
    PROVE  FeedInv'
<1>1. FeedShaped'
  BY DEF FeedInv, FeedShaped
<1>2. \A t \in Tokens : TokenOK(t)'
  <2>1. \A t \in Tokens : Heir(t)' <=> Heir(t)
    BY DEF Heir
  <2> QED
    BY <2>1 DEF FeedInv, TokenOK
<1>3. \A c \in FeedClients : ClientOK(c)'
  BY DEF FeedInv, ClientOK
<1>4. \A r \in FeedRuns : Dated(run[r], feed')
  BY DEF FeedInv, Dated
<1> QED
  BY <1>1, <1>2, <1>3, <1>4 DEF FeedInv

LEMMA OthersKeep ==
    ASSUME FeedInv, SelectAccount \/ ClaimLapses \/ \E p \in Postings : ForgetPosting(p)
    PROVE  FeedInv'
<1>1. /\ UNCHANGED <<feedPending, token, registered, tab, run>>
      /\ feed' \in {feed, [feed EXCEPT !.claimed = FALSE],
                    [feed EXCEPT !.account = "owner", !.schedule = feed.state = "connected"]}
  BY DEF SelectAccount, ClaimLapses, ForgetPosting
<1>2. feed \in FeedRows /\ (feed.state = "revoked" => ~feed.schedule)
  BY DEF FeedInv, FeedShaped
<1>3. (feed.state = "connected") \in BOOLEAN
  OBVIOUS
<1>4. feed' \in FeedRows
  BY <1>1, <1>2, <1>3 DEF FeedRows
<1>5. /\ feed'.token = feed.token /\ feed'.client = feed.client
      /\ feed'.generation = feed.generation /\ feed'.state = feed.state
      /\ feed.state = "revoked" => ~feed'.schedule
  BY <1>1, <1>2 DEF FeedRows
<1> QED
  BY <1>1, <1>4, <1>5, FeedKeeps

(* The steps of a run.                                                        *)
LEMMA RunKnown ==
    ASSUME FeedInv, NEW r \in FeedRuns
    PROVE  /\ run[r] \in RunRows /\ run \in [FeedRuns -> RunRows] /\ Dated(run[r], feed)
           /\ Unladen(run[r]) /\ feed \in FeedRows /\ token \in [Tokens -> TokenRows]
           /\ feed.state = "revoked" => feed.token = 0 /\ ~feed.schedule
           /\ \A t \in Tokens : TokenOK(t)
           /\ \A c \in FeedClients : ClientOK(c)
  BY DEF FeedInv, FeedShaped

LEMMA RunStep ==
    ASSUME FeedInv, NEW r \in FeedRuns, NEW x \in RunRows, run' = [run EXCEPT ![r] = x],
           UNCHANGED <<tab, feedPending>>, feed' \in FeedRows, TokensWear, ClientsWear,
           \/ feed'.token = feed.token /\ feed'.generation = feed.generation
           \/ RunOffers(run[r], feed.token, feed'.token) /\ feed'.token \in Tokens,
           feed'.client \in {feed.client, 0}, Dated(x, feed'), Unladen(x),
           feed'.state = "revoked" => feed'.token = 0 /\ ~feed'.schedule,
           \A t \in Tokens :
             /\ RunMinted(x, t) => RunMinted(run[r], t) /\ x.old = run[r].old
             /\ RunFound(x, t) =>
                  RunFound(run[r], t) \/ (t = feed.token /\ feed'.token = feed.token)
             /\ RunOffers(x, feed'.token, t) =>
                  RunOffers(run[r], feed.token, t) /\ t # feed'.token
             /\ RunDrops(x, t) =>
                  \/ RunDrops(run[r], t)
                  \/ RunFound(run[r], t) /\ t # feed'.token
                  \/ /\ RunMinted(run[r], t) /\ t # feed'.token
                     /\ ~RunOffers(x, feed'.token, t) /\ run[r].old # feed.token,
           \A c \in FeedClients : RunLeaves(x, c) =>
             RunLeaves(run[r], c) \/ (c = feed.client /\ c # feed'.client)
    PROVE  FeedInv'
<1>1. \A t \in Tokens : TokenOK(t)'
  <2>1. feed'.token = feed.token \/ RunOffers(run[r], feed.token, feed'.token)
    OBVIOUS
  <2> QED
    BY <2>1, RunTokens
<1>2. \A c \in FeedClients : ClientOK(c)'
  BY RunClients
<1>3. /\ token' \in [Tokens -> TokenRows]
      /\ registered' \in [FeedClients -> {"none", "kept", "gone"}]
  BY DEF TokensWear, ClientsWear
<1> QED
  BY <1>1, <1>2, <1>3, RunMoves

(* A step after which the run has nothing to do with a token or a client.     *)
LEMMA RunQuiets ==
    ASSUME FeedInv, NEW r \in FeedRuns, NEW x \in RunRows, run' = [run EXCEPT ![r] = x],
           x.at \in {"idle", "read", "session", "selecting", "collected", "rejected", "terminal"},
           Unladen(x),
           UNCHANGED <<tab, feedPending>>, TokensWear, ClientsWear,
           feed' \in FeedRows, feed'.token = feed.token, feed'.client = feed.client,
           feed'.generation = feed.generation,
           feed'.state = "revoked" => feed.state = "revoked" /\ feed'.schedule = feed.schedule
    PROVE  FeedInv'
<1>1. \A t \in Tokens : /\ ~RunMinted(x, t) /\ ~RunFound(x, t) /\ ~RunDrops(x, t)
                        /\ ~RunOffers(x, feed'.token, t)
  BY DEF RunMinted, RunFound, RunDrops, RunOffers
<1>2. Dated(x, feed') /\ \A c : ~RunLeaves(x, c)
  BY DEF Dated, RunLeaves
<1>3. feed'.state = "revoked" => feed'.token = 0 /\ ~feed'.schedule
  BY RunKnown
<1> QED
  BY <1>1, <1>2, <1>3, RunStep

LEMMA QuietRunSteps ==
    ASSUME FeedInv, NEW r \in FeedRuns,
           \/ BeginRun(r) \/ RefreshFails(r) \/ EndTerminal(r) \/ ListAccounts(r)
           \/ StoreSelection(r) \/ SessionFails(r) \/ DeliverAndReport(r) \/ RunCrashes(r)
    PROVE  FeedInv'
<1>1. UNCHANGED <<tab, feedPending, token, registered>> /\ TokensWear /\ ClientsWear
  BY NothingWears DEF BeginRun, RefreshFails, EndTerminal, ListAccounts, StoreSelection,
                      SessionFails, DeliverAndReport, RunCrashes
<1>2. /\ feed' \in FeedRows /\ feed'.token = feed.token /\ feed'.client = feed.client
      /\ feed'.generation = feed.generation
      /\ feed'.state = "revoked" => feed.state = "revoked" /\ feed'.schedule = feed.schedule
  <2>1. feed' \in {feed, [feed EXCEPT !.state = "authorization_required", !.schedule = FALSE],
                   [feed EXCEPT !.listed = TRUE], [feed EXCEPT !.account = "run"]}
    BY DEF BeginRun, RefreshFails, EndTerminal, ListAccounts, StoreSelection,
           SessionFails, DeliverAndReport, RunCrashes
  <2> QED
    BY <2>1, RunKnown DEF FeedRows
<1>3. \E x \in RunRows :
        /\ run' = [run EXCEPT ![r] = x] /\ Unladen(x)
        /\ x.at \in {"idle", "read", "session", "selecting", "collected", "rejected",
                     "terminal"}
  <2>1. CASE RunEnds(r)
    BY <2>1, IdleCollector DEF RunEnds, IdleRun
  <2>2. CASE \E at \in {"selecting", "collected", "rejected"} :
               RunGoes(r, at) /\ (at = "rejected" => run[r].at = "claimed")
    <3>1. PICK at \in {"selecting", "collected", "rejected"} :
            RunGoes(r, at) /\ (at = "rejected" => run[r].at = "claimed")
      BY <2>2
    <3> DEFINE x == [run[r] EXCEPT !.at = at]
    <3>2. x \in RunRows /\ Unladen(x) /\ x.at = at /\ run' = [run EXCEPT ![r] = x]
      BY <3>1, RunKnown DEF RunRows, RunGoes, Unladen
    <3> HIDE DEF x
    <3> QED
      BY <3>2
  <2>3. CASE RunNeedsOnlyItsClaim(r, "terminal")
    <3> DEFINE x == [IdleRun EXCEPT !.at = "terminal", !.generation = run[r].generation]
    <3>1. x \in RunRows /\ Unladen(x) /\ x.at = "terminal" /\ run' = [run EXCEPT ![r] = x]
      BY <2>3, RunKnown, IdleCollector DEF RunRows, IdleRun, RunNeedsOnlyItsClaim, Unladen
    <3> HIDE DEF x
    <3> QED
      BY <3>1
  <2>4. CASE BeginRun(r)
    <3> DEFINE at == IF feed.token = 0 \/ feed.client = 0 THEN "terminal" ELSE "read"
               x  == [IdleRun EXCEPT !.at = at, !.generation = feed.generation,
                                     !.client = feed.client]
    <3>1. /\ x \in RunRows /\ Unladen(x) /\ x.at \in {"read", "terminal"}
          /\ run' = [run EXCEPT ![r] = x]
      BY ZenonT(60), <2>4, RunKnown, IdleCollector DEF RunRows, FeedRows, IdleRun, BeginRun, Unladen
    <3> HIDE DEF x
    <3> QED
      BY <3>1
  <2> QED
    BY <2>1, <2>2, <2>3, <2>4 DEF RefreshFails, EndTerminal, ListAccounts, StoreSelection,
                                  SessionFails, DeliverAndReport, RunCrashes
<1> QED
  BY <1>1, <1>2, <1>3, RunQuiets

LEMMA ClaimRunKeeps == ASSUME FeedInv, NEW r \in FeedRuns, ClaimRun(r) PROVE FeedInv'
<1>1. /\ UNCHANGED <<tab, feedPending, token, registered>> /\ TokensWear /\ ClientsWear
      /\ run[r].at = "read"
  BY NothingWears DEF ClaimRun
<1>2. CASE RunEnds(r) /\ UNCHANGED feed
  BY <1>1, <1>2, IdleCollector, RunKnown, RunStep DEF RunEnds
<1>3. CASE /\ StillClaimed(r) /\ feed.token # 0
           /\ feed' = [feed EXCEPT !.claimed = TRUE]
           /\ run' = [run EXCEPT ![r].at = "claimed", ![r].old = feed.token]
  <2> DEFINE x == [run[r] EXCEPT !.at = "claimed", !.old = feed.token]
  <2>1. /\ feed' \in FeedRows /\ feed'.token = feed.token /\ feed'.client = feed.client
        /\ feed'.generation = feed.generation /\ feed'.state = feed.state
        /\ feed'.schedule = feed.schedule
    BY <1>3, RunKnown DEF FeedRows
  <2>2. /\ x \in RunRows /\ x.at = "claimed" /\ x.old = feed.token
        /\ x.generation = run[r].generation /\ Unladen(x)
    BY <1>1, RunKnown DEF RunRows, FeedRows, Unladen
  <2>3. run' = [run EXCEPT ![r] = x]
    BY <1>3
  <2> HIDE DEF x
  <2>4. Dated(x, feed')
    BY <1>3, <2>1, <2>2 DEF Dated, StillClaimed
  <2>5. /\ \A t \in Tokens : /\ ~RunMinted(x, t) /\ ~RunDrops(x, t)
                             /\ ~RunOffers(x, feed'.token, t)
                             /\ RunFound(x, t) => t = feed.token
        /\ \A c : ~RunLeaves(x, c)
    BY <2>2 DEF RunMinted, RunDrops, RunOffers, RunFound, RunLeaves
  <2> QED
    BY <1>1, <2>1, <2>2, <2>3, <2>4, <2>5, RunKnown, RunStep
<1> QED
  BY <1>2, <1>3 DEF ClaimRun

LEMMA RefreshKeeps == ASSUME FeedInv, NEW r \in FeedRuns, Refresh(r) PROVE FeedInv'
<1> DEFINE old == run[r].old
<1>1. /\ UNCHANGED <<tab, feed, feedPending, registered>> /\ ClientsWear
      /\ run[r].at = "claimed" /\ RunFound(run[r], old) /\ old \in Tokens
  <2>1. run[r].at = "claimed" /\ old \in (0..MaxTokens) /\ old # 0
    BY RunKnown DEF Refresh, Dated, RunRows
  <2> QED
    BY <2>1, TokenNumbers, NothingWears DEF Refresh, RunFound
<1>2. CASE \E at \in {"session", "terminal"} : RunNeedsOnlyItsClaim(r, at) /\ TokensWear
  <2>1. PICK at \in {"session", "terminal"} : RunNeedsOnlyItsClaim(r, at) /\ TokensWear
    BY <1>2
  <2> DEFINE x == [IdleRun EXCEPT !.at = at, !.generation = run[r].generation]
  <2>2. /\ x \in RunRows /\ x.at \in {"session", "terminal"} /\ Unladen(x)
        /\ run' = [run EXCEPT ![r] = x]
    BY <2>1, RunKnown, IdleCollector DEF RunRows, IdleRun, RunNeedsOnlyItsClaim, Unladen
  <2> HIDE DEF x
  <2> QED
    BY <1>1, <2>1, <2>2, RunKnown, RunQuiets
<1>3. CASE RunEnds(r) /\ TokensWear
  BY <1>1, <1>3, IdleCollector, RunKnown, RunStep DEF RunEnds
<1>4. UNCHANGED token \/ token' = [token EXCEPT ![old].grant = "spent"] => TokensWear
  BY NothingWears, GrantsWear
<1>5. CASE \E t \in NewTokens :
             /\ token' = [Saved(t) EXCEPT ![old].grant = "spent", ![old].next = t]
             /\ run' = [run EXCEPT ![r].at = "switching", ![r].new = t]
  <2>1. PICK t \in NewTokens :
             /\ token' = [Saved(t) EXCEPT ![old].grant = "spent", ![old].next = t]
             /\ run' = [run EXCEPT ![r].at = "switching", ![r].new = t]
    BY <1>5
  <2>2. t \in Tokens /\ token[t].file = "none" /\ t \in 0..MaxTokens
    BY TokenNumbers DEF NewTokens
  <2>3. /\ token[t] \in TokenRows /\ token[old] \in TokenRows /\ token[t].next = 0
        /\ token[t].grant # "revoked" /\ token \in [Tokens -> TokenRows] /\ old # t
    BY ZenonT(60), <1>1, <2>2, FreshToken DEF FeedInv, FeedShaped, TokenOK
  <2> DEFINE x == [run[r] EXCEPT !.at = "switching", !.new = t]
  <2>4. /\ x \in RunRows /\ x.at = "switching" /\ x.new = t /\ x.old = old
        /\ x.generation = run[r].generation /\ Unladen(x)
    BY <1>1, <2>2, RunKnown DEF RunRows, Unladen
  <2>5. run' = [run EXCEPT ![r] = x]
    BY <2>1
  <2> DEFINE fresh == [token[t] EXCEPT !.file = "kept"]
             spent == [token[old] EXCEPT !.grant = "spent", !.next = t]
  <2>6. /\ fresh \in TokenRows /\ fresh.file = "kept" /\ fresh.next = 0
        /\ fresh.grant # "revoked"
        /\ spent \in TokenRows /\ spent.file = token[old].file /\ spent.next = t
        /\ spent.grant = "spent"
    BY <2>2, <2>3 DEF TokenRows
  <2>7. token' = [[token EXCEPT ![t] = fresh] EXCEPT ![old] = spent]
    BY <1>1, <2>1, <2>2, <2>3 DEF Saved
  <2> HIDE DEF x, fresh, spent, old
  <2>8. /\ token' \in [Tokens -> TokenRows] /\ token'[t] = fresh /\ token'[old] = spent
        /\ \A s \in Tokens \ {t, old} : token'[s] = token[s]
    BY <1>1, <2>2, <2>3, <2>6, <2>7
  <2>9. \A s \in Tokens :
          /\ ~RunDrops(x, s) /\ (RunMinted(x, s) <=> s = t) /\ (RunFound(x, s) => s = old)
          /\ RunOffers(x, feed.token, s) => s = t
    BY <2>4 DEF RunDrops, RunMinted, RunFound, RunOffers
  <2>10. \A s \in Tokens : TokenOK(s)'
    <3>1. run[r].old = old
      BY DEF old
    <3> QED
      BY <1>1, <2>2, <2>3, <2>4, <2>5, <2>6, <2>8, <2>9, <3>1, RunMintsToken
  <2>11. Dated(x, feed) /\ \A c : ~RunLeaves(x, c)
    BY <1>1, <2>2, <2>4, RunKnown, TokenNumbers DEF Dated, RunLeaves, old
  <2>12. \A c \in FeedClients : ClientOK(c)'
    BY <1>1, <2>5, <2>11, RunClients
  <2>13. registered' \in [FeedClients -> {"none", "kept", "gone"}]
    BY <1>1 DEF ClientsWear
  <2> QED
    BY <1>1, <2>4, <2>5, <2>8, <2>10, <2>11, <2>12, <2>13, RunKnown, RunMoves
<1> QED
  BY <1>2, <1>3, <1>4, <1>5 DEF Refresh
(* The switch: the token minted takes the place of the one the run found.     *)
LEMMA SwitchKeeps == ASSUME FeedInv, NEW r \in FeedRuns, Switch(r) PROVE FeedInv'
<1> DEFINE old == run[r].old
           new == run[r].new
<1>1. /\ UNCHANGED <<tab, feedPending, token, registered>> /\ TokensWear /\ ClientsWear
      /\ run[r].at \in {"switching", "again"}
  BY NothingWears DEF Switch
<1>2. /\ old # 0 /\ new \in Tokens /\ old \in 0..MaxTokens /\ run[r].tokens = {}
      /\ run[r].clients = {} /\ (feed.token = old => feed.generation = run[r].generation)
  BY <1>1, RunKnown, TokenNumbers DEF Dated, Unladen, RunRows
<1>3. /\ RunMinted(run[r], new) /\ RunFound(run[r], old) /\ RunOffers(run[r], feed.token, new)
      /\ \A t : (t = new => RunMinted(run[r], t)) /\ (t = old => RunFound(run[r], t))
  BY <1>1 DEF RunMinted, RunFound, RunOffers
<1>4. new # old /\ new # feed.token
  BY <1>2, <1>3, RunKnown DEF TokenOK
<1>5. /\ feed' \in FeedRows /\ feed'.client = feed.client
      /\ feed'.state = "revoked" => feed'.token = 0 /\ ~feed'.schedule
      /\ \/ feed' = feed
         \/ Switched(r) /\ feed'.token = new /\ feed'.generation = run[r].generation + 1
  <2>1. CASE feed' = feed
    BY <2>1, RunKnown
  <2>2. CASE Switched(r) /\ feed' = SwitchedFeed(r)
    <3>1. run[r].generation + 1 \in Nat /\ new \in 0..MaxTokens
      BY <1>2, RunKnown, TokenNumbers DEF RunRows
    <3>2. PICK later \in Nat : later = run[r].generation + 1
      BY <3>1
    <3>3. feed' = [feed EXCEPT !.token = new, !.generation = later]
      BY <2>2, <3>2 DEF SwitchedFeed
    <3>4. feed.state # "revoked"
      BY <1>2, <2>2, RunKnown DEF Switched
    <3> HIDE DEF new
    <3> QED
      BY <2>2, <3>1, <3>2, <3>3, <3>4, RunKnown DEF FeedRows
  <2> QED
    BY <2>1, <2>2 DEF Switch
<1>6. PICK x \in RunRows :
        /\ run' = [run EXCEPT ![r] = x]
        /\ \/ x = IdleRun
           \/ /\ x.old = old /\ x.new = new /\ x.tokens = {} /\ x.clients = {}
              /\ \/ x.at = "won" /\ Switched(r) /\ feed'.token = new
                 \/ x.at = "lost" /\ ~Switched(r) /\ feed' = feed
                 \/ x.at = "unsure" /\ x.generation = run[r].generation
  <2>1. CASE RunEnds(r)
    BY <2>1, IdleCollector DEF RunEnds
  <2>2. CASE Switched(r) /\ feed' = SwitchedFeed(r)
             /\ run' = [run EXCEPT ![r].at = "won", ![r].generation = @ + 1]
    <3>1. run[r].generation + 1 \in Nat
      BY RunKnown DEF RunRows
    <3>2. PICK later \in Nat : later = run[r].generation + 1
      BY <3>1
    <3> DEFINE x == [run[r] EXCEPT !.at = "won", !.generation = later]
    <3>3. run' = [run EXCEPT ![r] = x]
      BY <2>2, <3>2, RunKnown
    <3>4. /\ x \in RunRows /\ x.at = "won" /\ x.old = old /\ x.new = new /\ x.tokens = {}
          /\ x.clients = {}
      BY <1>2, RunKnown DEF RunRows
    <3>5. feed'.token = new
      <4>1. PICK then \in Nat : then = run[r].generation + 1
        BY <3>1
      <4>2. feed' = [feed EXCEPT !.token = new, !.generation = then]
        BY <2>2, <4>1 DEF SwitchedFeed
      <4> QED
        BY <4>2, RunKnown DEF FeedRows
    <3> HIDE DEF x
    <3> QED
      BY <2>2, <3>3, <3>4, <3>5
  <2>3. CASE \E at \in {"lost", "unsure"} :
               RunGoes(r, at) /\ (at = "lost" => ~Switched(r) /\ feed' = feed)
    <3>1. PICK at \in {"lost", "unsure"} :
               RunGoes(r, at) /\ (at = "lost" => ~Switched(r) /\ feed' = feed)
      BY <2>3
    <3> DEFINE x == [run[r] EXCEPT !.at = at]
    <3>2. /\ run' = [run EXCEPT ![r] = x]
          /\ x \in RunRows /\ x.at = at /\ x.old = old /\ x.new = new /\ x.tokens = {}
          /\ x.clients = {} /\ x.generation = run[r].generation
      BY <1>2, <3>1, RunKnown DEF RunRows, RunGoes
    <3> HIDE DEF x
    <3> QED
      BY <3>1, <3>2
  <2> QED
    BY <2>1, <2>2, <2>3 DEF Switch
<1> HIDE DEF old, new
<1>7. \/ feed'.token = feed.token /\ feed'.generation = feed.generation
      \/ RunOffers(run[r], feed.token, feed'.token) /\ feed'.token \in Tokens
  BY <1>2, <1>3, <1>5
<1>8. Dated(x, feed') /\ Unladen(x)
  <2>1. CASE x = IdleRun
    BY <2>1, IdleCollector
  <2>2. CASE x # IdleRun
    <3>1. x.new # 0 /\ (feed'.token = x.old => feed' = feed /\ x.old = old)
      BY <1>2, <1>4, <1>5, <1>6, <2>2, TokenNumbers
    <3> QED
      BY <1>2, <1>6, <2>2, <3>1 DEF Dated, Unladen
  <2> QED
    BY <2>1, <2>2
<1>9. ASSUME NEW t \in Tokens
      PROVE  /\ RunMinted(x, t) => RunMinted(run[r], t) /\ x.old = run[r].old
             /\ RunFound(x, t) =>
                  RunFound(run[r], t) \/ (t = feed.token /\ feed'.token = feed.token)
             /\ RunOffers(x, feed'.token, t) =>
                  RunOffers(run[r], feed.token, t) /\ t # feed'.token
             /\ RunDrops(x, t) =>
                  \/ RunDrops(run[r], t)
                  \/ RunFound(run[r], t) /\ t # feed'.token
                  \/ /\ RunMinted(run[r], t) /\ t # feed'.token
                     /\ ~RunOffers(x, feed'.token, t) /\ run[r].old # feed.token
  <2>1. CASE x = IdleRun
    BY <2>1, IdleCollector
  <2>2. CASE x # IdleRun
    <3>1. run[r].old = old
      BY DEF old
    <3>2. RunMinted(x, t) \/ RunOffers(x, feed'.token, t) => t = new
      BY <1>6, <2>2 DEF RunMinted, RunOffers
    <3>3. RunFound(x, t) => t = old
      BY <1>6, <2>2 DEF RunFound
    <3>4. RunOffers(x, feed'.token, t) => feed' = feed
      BY <1>4, <1>5, <1>6, <2>2 DEF RunOffers
    <3>5. RunDrops(x, t) => \/ t = old /\ feed'.token = new
                            \/ /\ t = new /\ ~Switched(r) /\ feed' = feed
                               /\ ~RunOffers(x, feed'.token, t)
      BY <1>6, <2>2 DEF RunDrops, RunOffers
    <3>6. ~Switched(r) => old # feed.token
      BY <1>2, <3>1 DEF Switched
    <3> QED
      BY <1>3, <1>4, <1>6, <2>2, <3>1, <3>2, <3>3, <3>4, <3>5, <3>6
  <2> QED
    BY <2>1, <2>2
<1>10. \A c : ~RunLeaves(x, c)
  BY <1>6, IdleCollector DEF RunLeaves
<1> QED
  BY <1>1, <1>5, <1>6, <1>7, <1>8, <1>9, <1>10, RunStep
(* Reading the connection again after a switch that raised.                   *)
LEMMA RereadKeeps == ASSUME FeedInv, NEW r \in FeedRuns, Reread(r) PROVE FeedInv'
<1> DEFINE old == run[r].old
           new == run[r].new
<1>1. /\ UNCHANGED <<feed, tab, feedPending, token, registered>> /\ TokensWear /\ ClientsWear
      /\ run[r].at = "unsure"
  BY NothingWears DEF Reread
<1>2. /\ old # 0 /\ new \in Tokens /\ old \in 0..MaxTokens /\ run[r].tokens = {}
      /\ run[r].clients = {} /\ (feed.token = old => feed.generation = run[r].generation)
  BY <1>1, RunKnown, TokenNumbers DEF Dated, Unladen, RunRows
<1>3. /\ RunMinted(run[r], new) /\ RunFound(run[r], old)
      /\ \A t : (t = new => RunMinted(run[r], t)) /\ (t = old => RunFound(run[r], t))
      /\ \A t : t = new /\ old = feed.token => RunOffers(run[r], feed.token, t)
  BY <1>1 DEF RunMinted, RunFound, RunOffers
<1>4. new # old
  BY <1>2, <1>3, RunKnown DEF TokenOK
<1>5. PICK x \in RunRows :
        /\ run' = [run EXCEPT ![r] = x]
        /\ \/ x = IdleRun
           \/ /\ x.old = old /\ x.new = new /\ x.clients = {}
              /\ \/ x.at = "won" /\ feed.token = new
                 \/ /\ x.at = "again" /\ Switched(r) /\ feed.token # new
                    /\ x.generation = run[r].generation /\ x.tokens = {}
                 \/ /\ x.at = "lost" /\ ~Switched(r) /\ feed.token # new
                    /\ x.tokens = {old} \ {feed.token}
  <2>1. CASE RunEnds(r)
    BY <2>1, IdleCollector DEF RunEnds
  <2>2. CASE run' = [run EXCEPT ![r] =
               IF feed.token = run[r].new
               THEN [@ EXCEPT !.at = "won", !.generation = feed.generation]
               ELSE IF Switched(r) THEN [@ EXCEPT !.at = "again"]
               ELSE [@ EXCEPT !.at = "lost", !.tokens = {run[r].old} \ {feed.token}]]
    <3>1. CASE feed.token = new
      <4> DEFINE x == [run[r] EXCEPT !.at = "won", !.generation = feed.generation]
      <4>1. run' = [run EXCEPT ![r] = x]
        BY <2>2, <3>1, RunKnown
      <4>2. x \in RunRows /\ x.at = "won" /\ x.old = old /\ x.new = new /\ x.clients = {}
        BY <1>2, RunKnown DEF RunRows, FeedRows
      <4> HIDE DEF x
      <4> QED
        BY <3>1, <4>1, <4>2
    <3>2. CASE feed.token # new /\ Switched(r)
      <4> DEFINE x == [run[r] EXCEPT !.at = "again"]
      <4>1. run' = [run EXCEPT ![r] = x]
        BY <2>2, <3>2, RunKnown
      <4>2. /\ x \in RunRows /\ x.at = "again" /\ x.old = old /\ x.new = new /\ x.clients = {}
            /\ x.generation = run[r].generation /\ x.tokens = {}
        BY <1>2, RunKnown DEF RunRows
      <4> HIDE DEF x
      <4> QED
        BY <3>2, <4>1, <4>2
    <3>3. CASE feed.token # new /\ ~Switched(r)
      <4> DEFINE x == [run[r] EXCEPT !.at = "lost", !.tokens = {old} \ {feed.token}]
      <4>1. run' = [run EXCEPT ![r] = x]
        BY <2>2, <3>3, RunKnown
      <4>2. /\ x \in RunRows /\ x.at = "lost" /\ x.old = old /\ x.new = new /\ x.clients = {}
            /\ x.tokens = {old} \ {feed.token}
        BY <1>2, RunKnown DEF RunRows
      <4> HIDE DEF x
      <4> QED
        BY <3>3, <4>1, <4>2
    <3> QED
      BY <3>1, <3>2, <3>3
  <2> QED
    BY <2>1, <2>2 DEF Reread
<1>6. Switched(r) <=> old = feed.token
  BY <1>2 DEF Switched
<1>7. run[r].old = old
  OBVIOUS
<1> HIDE DEF old, new
<1>8. Dated(x, feed) /\ Unladen(x)
  BY <1>2, <1>5, IdleCollector, TokenNumbers DEF Dated, Unladen
<1>9. ASSUME NEW t \in Tokens
      PROVE  /\ RunMinted(x, t) => RunMinted(run[r], t) /\ x.old = run[r].old
             /\ RunFound(x, t) =>
                  RunFound(run[r], t) \/ (t = feed.token /\ feed'.token = feed.token)
             /\ RunOffers(x, feed'.token, t) =>
                  RunOffers(run[r], feed.token, t) /\ t # feed'.token
             /\ RunDrops(x, t) =>
                  \/ RunDrops(run[r], t)
                  \/ RunFound(run[r], t) /\ t # feed'.token
                  \/ /\ RunMinted(run[r], t) /\ t # feed'.token
                     /\ ~RunOffers(x, feed'.token, t) /\ run[r].old # feed.token
  <2>1. CASE x = IdleRun
    BY <2>1, IdleCollector
  <2>2. CASE x # IdleRun
    <3>1. RunMinted(x, t) => t = new
      BY <1>5, <2>2 DEF RunMinted
    <3>2. RunFound(x, t) => t = old
      BY <1>5, <2>2 DEF RunFound
    <3>3. RunOffers(x, feed.token, t) => t = new /\ old = feed.token /\ t # feed.token
      BY <1>5, <1>6, <2>2 DEF RunOffers
    <3>4. RunDrops(x, t) => \/ t = old /\ t # feed.token
                            \/ t = new /\ t # feed.token /\ old # feed.token
      BY <1>4, <1>5, <1>6, <2>2 DEF RunDrops
    <3> QED
      BY <1>1, <1>3, <1>5, <1>7, <2>2, <3>1, <3>2, <3>3, <3>4
  <2> QED
    BY <2>1, <2>2
<1>10. \A c : ~RunLeaves(x, c)
  BY <1>5, IdleCollector DEF RunLeaves
<1> QED
  BY <1>1, <1>5, <1>8, <1>9, <1>10, RunKnown, RunStep

(* After the switch: the token found goes, or the one minted does.            *)
LEMMA RotationKeeps == ASSUME FeedInv, NEW r \in FeedRuns, RotationKept(r) PROVE FeedInv'
<1> DEFINE x == [IdleRun EXCEPT !.at = "session", !.generation = run[r].generation]
<1>1. /\ x \in RunRows /\ x.at = "session" /\ Unladen(x) /\ run' = [run EXCEPT ![r] = x]
  BY RunKnown, IdleCollector DEF RunRows, IdleRun, RotationKept, RunNeedsOnlyItsClaim, Unladen
<1>2. \A t \in {run[r].old} \cap Tokens : Dropped(t)
  BY DEF RotationKept, Dropped, RunDrops
<1> HIDE DEF x, Dropped
<1>3. TokensWear /\ ClientsWear
  BY <1>2, DiscardsWear, NothingWears DEF RotationKept
<1> QED
  BY <1>1, <1>3, RunKnown, RunQuiets DEF RotationKept

LEMMA RetireMintedKeeps == ASSUME FeedInv, NEW r \in FeedRuns, RetireMinted(r) PROVE FeedInv'
<1> DEFINE x == [run[r] EXCEPT !.at = "retiring", !.tokens = run[r].tokens \cup {run[r].new}]
<1>1. /\ UNCHANGED <<feed, tab, feedPending, registered>> /\ ClientsWear
      /\ run[r].at = "lost" /\ run[r].clients = {} /\ run' = [run EXCEPT ![r] = x]
  BY NothingWears, RunKnown DEF RetireMinted, Unladen
<1>2. \A t \in Tokens : t = run[r].new => Dropped(t)
  BY <1>1 DEF Dropped, RunDrops
<1>3. TokensWear
  <2> HIDE DEF Dropped
  <2> QED
    BY <1>2, RevokedWear DEF RetireMinted
<1>4. /\ x \in RunRows /\ x.at = "retiring" /\ x.clients = {}
      /\ x.tokens = run[r].tokens \cup {run[r].new}
  BY ZenonT(60), <1>1, RunKnown DEF RunRows
<1> HIDE DEF x
<1>5. Dated(x, feed) /\ Unladen(x) /\ \A c : ~RunLeaves(x, c)
  BY <1>4 DEF Dated, Unladen, RunLeaves
<1>6. \A t : /\ ~RunMinted(x, t) /\ ~RunFound(x, t) /\ ~RunOffers(x, feed.token, t)
             /\ RunDrops(x, t) => RunDrops(run[r], t)
  BY <1>1, <1>4 DEF RunMinted, RunFound, RunOffers, RunDrops
<1> QED
  BY <1>1, <1>3, <1>4, <1>5, <1>6, RunKnown, RunStep

LEMMA RunDiscardsKeeps == ASSUME FeedInv, NEW r \in FeedRuns, RunDiscards(r) PROVE FeedInv'
<1>1. /\ \A t \in run[r].tokens \cap Tokens : Dropped(t)
      /\ \A c \in run[r].clients \cap FeedClients : Left(c)
  BY DEF RunDiscards, Dropped, Left, RunDrops, RunLeaves
<1>2. \E x \in RunRows : /\ run' = [run EXCEPT ![r] = x] /\ Unladen(x)
                         /\ x.at \in {"idle", "terminal"}
  <2>1. CASE RunEnds(r)
    BY <2>1, IdleCollector DEF RunEnds, IdleRun
  <2>2. CASE RunNeedsOnlyItsClaim(r, "terminal")
    <3> DEFINE x == [IdleRun EXCEPT !.at = "terminal", !.generation = run[r].generation]
    <3>1. x \in RunRows /\ Unladen(x) /\ x.at = "terminal" /\ run' = [run EXCEPT ![r] = x]
      BY <2>2, RunKnown, IdleCollector DEF RunRows, IdleRun, RunNeedsOnlyItsClaim, Unladen
    <3> HIDE DEF x
    <3> QED
      BY <3>1
  <2> QED
    BY <2>1, <2>2 DEF RunDiscards
<1> HIDE DEF Dropped, Left
<1>3. TokensWear /\ ClientsWear
  BY <1>1, DiscardsWear DEF RunDiscards
<1> QED
  BY <1>2, <1>3, RunKnown, RunQuiets DEF RunDiscards

LEMMA ClearRejectedKeeps == ASSUME FeedInv, NEW r \in FeedRuns, ClearRejected(r) PROVE FeedInv'
<1>1. /\ UNCHANGED <<tab, feedPending, token, registered>> /\ TokensWear /\ ClientsWear
      /\ run[r].at = "rejected"
  BY NothingWears DEF ClearRejected
<1>2. CASE RunEnds(r) /\ UNCHANGED feed
  BY <1>1, <1>2, IdleCollector, RunKnown, RunStep DEF RunEnds
<1>3. CASE /\ feed' = [feed EXCEPT !.client = 0]
           /\ run' = [run EXCEPT ![r].at = "cleared", ![r].clients = {feed.client}]
  <2> DEFINE x == [run[r] EXCEPT !.at = "cleared", !.clients = {feed.client}]
  <2>1. /\ x \in RunRows /\ x.at = "cleared" /\ x.clients = {feed.client} /\ x.tokens = {}
        /\ run' = [run EXCEPT ![r] = x]
    BY <1>1, <1>3, RunKnown DEF RunRows, FeedRows, Unladen
  <2>2. /\ feed' \in FeedRows /\ feed'.token = feed.token /\ feed'.client = 0
        /\ feed'.generation = feed.generation /\ feed'.state = feed.state
        /\ feed'.schedule = feed.schedule
    BY <1>3, RunKnown, TokenNumbers DEF FeedRows
  <2> HIDE DEF x
  <2>3. Dated(x, feed') /\ Unladen(x)
    BY <2>1 DEF Dated, Unladen
  <2>4. \A t : /\ ~RunMinted(x, t) /\ ~RunFound(x, t) /\ ~RunOffers(x, feed'.token, t)
               /\ ~RunDrops(x, t)
    BY <2>1 DEF RunMinted, RunFound, RunOffers, RunDrops
  <2>5. \A c \in FeedClients : RunLeaves(x, c) => c = feed.client /\ c # feed'.client
    BY <2>1, <2>2, TokenNumbers DEF RunLeaves
  <2>6. feed'.state = "revoked" => feed'.token = 0 /\ ~feed'.schedule
    BY <2>2, RunKnown
  <2>7. feed'.client \in {feed.client, 0} /\ UNCHANGED <<tab, feedPending>>
    BY <1>1, <2>2
  <2> QED
    BY <1>1, <2>1, <2>2, <2>3, <2>4, <2>5, <2>6, <2>7, RunStep
<1> QED
  BY <1>2, <1>3 DEF ClearRejected
LEMMA TabKeeps ==
    ASSUME FeedInv, NEW o \in Tabs,
           \/ BeginStart(o) \/ Start(o) \/ Consume(o) \/ Exchange(o) \/ Store(o)
           \/ ClearClient(o) \/ Revoke(o) \/ RevokeUpstream(o) \/ RevokeDiscards(o)
           \/ TabDiscards(o) \/ TabCrashes(o)
    PROVE  FeedInv'
  BY BeginStartKeeps, StartKeeps, ConsumeKeeps, ExchangeKeeps, StoreKeeps, ClearClientKeeps,
     RevokeKeeps, RevokeGoesOn, TabEndsKeeps

LEMMA RunKeeps ==
    ASSUME FeedInv, NEW r \in FeedRuns,
           \/ BeginRun(r) \/ ClaimRun(r) \/ Refresh(r) \/ RefreshFails(r) \/ Switch(r)
           \/ Reread(r) \/ RotationKept(r) \/ RetireMinted(r) \/ RunDiscards(r)
           \/ ClearRejected(r) \/ EndTerminal(r) \/ ListAccounts(r) \/ StoreSelection(r)
           \/ SessionFails(r) \/ DeliverAndReport(r) \/ RunCrashes(r)
    PROVE  FeedInv'
  BY QuietRunSteps, ClaimRunKeeps, RefreshKeeps, SwitchKeeps, RereadKeeps, RotationKeeps,
     RetireMintedKeeps, RunDiscardsKeeps, ClearRejectedKeeps

LEMMA FeedSteps == FeedInv /\ [JobFeedNext]_feedVars => FeedInv'
<1>1. CASE FeedInv /\ UNCHANGED feedVars
  <2>1. feed \in FeedRows /\ (feed.state = "revoked" => ~feed.schedule)
    BY <1>1 DEF FeedInv, FeedShaped
  <2> QED
    BY <1>1, <2>1, FeedKeeps DEF feedVars
<1>2. CASE FeedInv /\ JobFeedNext
  BY <1>2, OthersKeep, TabKeeps, RunKeeps DEF JobFeedNext
<1> QED
  BY <1>1, <1>2

LEMMA FeedHolds == JobFeedSpec => []FeedInv
  BY FeedInitially, FeedSteps, PTL DEF JobFeedSpec

(* What a row refers to is on disk, and the token that the stored one was     *)
(* exchanged for is kept and not revoked, whatever runs, revokes, reconnects  *)
(* and crashes do in between (run.py _rotate, authorization.py _start,        *)
(* _store, _clear_client, revoke).                                            *)
THEOREM CredentialsAreKept == JobFeedSpec => []CredentialsKept
<1>1. FeedInv => CredentialsKept
  <2> SUFFICES ASSUME FeedInv PROVE CredentialsKept
    OBVIOUS
  <2>1. feed \in FeedRows /\ feedPending \in PendingRows /\ token \in [Tokens -> TokenRows]
    BY DEF FeedInv, FeedShaped
  <2>2. feed.token # 0 => token[feed.token].file = "kept"
    <3>1. feed.token # 0 => feed.token \in Tokens
      BY <2>1, TokenNumbers DEF FeedRows
    <3> QED
      BY <3>1 DEF FeedInv, TokenOK
  <2>3. feed.client # 0 => registered[feed.client] = "kept"
    <3>1. feed.client # 0 => feed.client \in FeedClients
      BY <2>1, TokenNumbers DEF FeedRows
    <3> QED
      BY <3>1 DEF FeedInv, ClientOK
  <2>4. feedPending.there /\ feedPending.fresh => registered[feedPending.client] = "kept"
    <3>1. feedPending.client # 0 => feedPending.client \in FeedClients
      BY <2>1, TokenNumbers DEF PendingRows
    <3>2. PendingOwns(feedPending, feedPending.client) => feedPending.client # 0
      BY DEF FeedInv, PendingOwns, PendingSound
    <3> QED
      BY <3>1, <3>2 DEF FeedInv, ClientOK, PendingOwns
  <2>5. ASSUME NEW t \in Tokens, t = feed.token, token[t].next # 0
        PROVE  token[token[t].next].file = "kept" /\ token[token[t].next].grant # "revoked"
    <3>1. token[t].next \in Tokens
      BY <2>1, <2>5, TokenNumbers DEF TokenRows
    <3>2. Heir(token[t].next)
      BY <2>5, TokenNumbers DEF Heir
    <3> QED
      BY <3>1, <3>2 DEF FeedInv, TokenOK
  <2> QED
    BY <2>2, <2>3, <2>4, <2>5 DEF CredentialsKept
<1> QED
  BY <1>1, FeedHolds, PTL

(* What RevokedStaysQuiet says of one step: of a revoked connection, and of a *)
(* run the connection has left behind.                                        *)
LeftBehind(r) ==
    run'[r] # run[r] /\ run[r].generation # feed.generation
      => UNCHANGED <<feed, numbers, dedupe>>

LEMMA LeftBehindSteps ==
    ASSUME FeedInv, [JobFeedNext]_feedVars, NEW r \in FeedRuns
    PROVE  LeftBehind(r)
<1>1. run \in [FeedRuns -> RunRows]
  BY DEF FeedInv, FeedShaped
<1>2. CASE run' = run
  BY <1>2 DEF LeftBehind
<1>3. ASSUME NEW q \in FeedRuns, q # r, NEW x, run' = [run EXCEPT ![q] = x]
      PROVE  LeftBehind(r)
  BY <1>1, <1>3 DEF LeftBehind
<1>4. ASSUME NEW q \in FeedRuns, q # r,
             \/ BeginRun(q) \/ ClaimRun(q) \/ Refresh(q) \/ RefreshFails(q) \/ Switch(q)
             \/ Reread(q) \/ RotationKept(q) \/ RetireMinted(q) \/ RunDiscards(q)
             \/ ClearRejected(q) \/ EndTerminal(q) \/ ListAccounts(q) \/ StoreSelection(q)
             \/ SessionFails(q) \/ DeliverAndReport(q) \/ RunCrashes(q)
      PROVE  run'[r] = run[r]
  BY <1>1, <1>4 DEF BeginRun, ClaimRun, Refresh, RefreshFails, Switch, Reread, RotationKept,
       RetireMinted, RunDiscards, ClearRejected, EndTerminal, ListAccounts, StoreSelection,
       SessionFails, DeliverAndReport, RunCrashes, RunEnds, RunGoes, RunNeedsOnlyItsClaim
<1>5. ASSUME run[r].generation # feed.generation,
             \/ ClaimRun(r) \/ ClearRejected(r) \/ EndTerminal(r) \/ ListAccounts(r)
             \/ StoreSelection(r) \/ DeliverAndReport(r) \/ Switch(r)
      PROVE  UNCHANGED <<feed, numbers, dedupe>>
  <2>1. ~StillClaimed(r) /\ ~Switched(r)
    BY <1>5 DEF StillClaimed, Switched
  <2> QED
    BY <1>5, <2>1 DEF ClaimRun, ClearRejected, EndTerminal, ListAccounts, StoreSelection,
         DeliverAndReport, Switch
<1>6. ASSUME \/ BeginRun(r) \/ Refresh(r) \/ RefreshFails(r) \/ Reread(r) \/ RotationKept(r)
             \/ RetireMinted(r) \/ RunDiscards(r) \/ SessionFails(r) \/ RunCrashes(r)
      PROVE  UNCHANGED <<feed, numbers, dedupe>>
  BY <1>6 DEF BeginRun, Refresh, RefreshFails, Reread, RotationKept, RetireMinted,
              RunDiscards, SessionFails, RunCrashes
<1>7. ASSUME \/ SelectAccount \/ ClaimLapses
             \/ \E o \in Tabs :
                  \/ BeginStart(o) \/ Start(o) \/ Consume(o) \/ Exchange(o) \/ Store(o)
                  \/ ClearClient(o) \/ Revoke(o) \/ RevokeUpstream(o) \/ RevokeDiscards(o)
                  \/ TabDiscards(o) \/ TabCrashes(o)
             \/ \E p \in Postings : ForgetPosting(p)
      PROVE  run' = run
  BY <1>7 DEF SelectAccount, ClaimLapses, BeginStart, Start, Consume, Exchange, Store,
       ClearClient, Revoke, RevokeUpstream, RevokeDiscards, TabDiscards, TabCrashes,
       ForgetPosting
<1>8. CASE UNCHANGED feedVars
  BY <1>2, <1>8 DEF feedVars
<1> QED
  BY <1>2, <1>4, <1>5, <1>6, <1>7, <1>8 DEF JobFeedNext, LeftBehind

Quiet ==
    feed.state = "revoked" =>
      \/ \E o \in Tabs : tab[o].at = "storing" /\ tab'[o].at # "storing"
      \/ /\ feed'.token = 0 /\ numbers' = numbers /\ feed'.listed = feed.listed
         /\ feed'.account # "run" \/ feed.account = "run"
         /\ ~feed'.schedule

LEMMA RevokedSteps == FeedInv /\ [JobFeedNext]_feedVars => Quiet
<1> SUFFICES ASSUME FeedInv, [JobFeedNext]_feedVars, feed.state = "revoked" PROVE Quiet
  BY DEF Quiet
<1>1. feed \in FeedRows /\ feed.token = 0 /\ ~feed.schedule
  BY DEF FeedInv, FeedShaped
<1>2. CASE UNCHANGED <<feed, numbers>>
  BY <1>1, <1>2 DEF Quiet
<1>3. ASSUME NEW o \in Tabs, Store(o) PROVE Quiet
  <2>1. tab[o].at = "storing" /\ \E ts, cs : TabRetires(o, ts, cs)
    BY <1>3 DEF Store
  <2>2. PICK ts, cs : TabRetires(o, ts, cs)
    BY <2>1
  <2> DEFINE x == [IdleTab EXCEPT !.at = "retiring", !.tokens = ts, !.clients = cs]
  <2>3. IdleTab.at = "idle" /\ x.at = "retiring"
    BY DEF IdleTab
  <2>4. tab'[o] = IdleTab \/ tab'[o] = x
    BY <2>2, TabKnown DEF TabRetires
  <2> HIDE DEF x
  <2> QED
    BY <2>1, <2>3, <2>4 DEF Quiet
<1>4. CASE \/ SelectAccount \/ ClaimLapses
           \/ \E o \in Tabs : ClearClient(o) \/ Revoke(o)
  <2>1. /\ UNCHANGED numbers
        /\ feed' \in {feed, [feed EXCEPT !.claimed = FALSE],
                      [feed EXCEPT !.account = "owner", !.schedule = FALSE],
                      [feed EXCEPT !.client = 0],
                      [feed EXCEPT !.client = 0, !.schedule = FALSE,
                                   !.state = "authorization_required"],
                      [feed EXCEPT !.state = "revoked", !.token = 0,
                                   !.generation = feed.generation + 1, !.schedule = FALSE]}
    BY <1>4 DEF SelectAccount, ClaimLapses, ClearClient, Revoke
  <2> QED
    BY <1>1, <2>1 DEF Quiet, FeedRows
<1>5. ASSUME NEW r \in FeedRuns, ~StillClaimed(r),
             \/ ClaimRun(r) \/ ClearRejected(r) \/ EndTerminal(r) \/ ListAccounts(r)
             \/ StoreSelection(r) \/ DeliverAndReport(r)
      PROVE  UNCHANGED <<feed, numbers>>
  BY <1>5 DEF ClaimRun, ClearRejected, EndTerminal, ListAccounts, StoreSelection,
              DeliverAndReport
<1>6. \A r \in FeedRuns : ~StillClaimed(r)
  BY DEF StillClaimed
<1>7. ASSUME NEW r \in FeedRuns, Switch(r) PROVE UNCHANGED <<feed, numbers>>
  <2>1. run[r].old # 0
    BY <1>7, RunKnown DEF Switch, Dated
  <2>2. ~Switched(r)
    BY <1>1, <2>1 DEF Switched
  <2> QED
    BY <1>7, <2>2 DEF Switch
<1>8. ASSUME NEW o \in Tabs,
             \/ BeginStart(o) \/ Start(o) \/ Consume(o) \/ Exchange(o) \/ RevokeUpstream(o)
             \/ RevokeDiscards(o) \/ TabDiscards(o) \/ TabCrashes(o)
      PROVE  UNCHANGED <<feed, numbers>>
  BY <1>8 DEF BeginStart, Start, Consume, Exchange, RevokeUpstream, RevokeDiscards,
              TabDiscards, TabCrashes
<1>9. ASSUME NEW r \in FeedRuns,
             \/ BeginRun(r) \/ Refresh(r) \/ RefreshFails(r) \/ Reread(r) \/ RotationKept(r)
             \/ RetireMinted(r) \/ RunDiscards(r) \/ SessionFails(r) \/ RunCrashes(r)
      PROVE  UNCHANGED <<feed, numbers>>
  BY <1>9 DEF BeginRun, Refresh, RefreshFails, Reread, RotationKept, RetireMinted,
              RunDiscards, SessionFails, RunCrashes
<1>10. ASSUME NEW p \in Postings, ForgetPosting(p) PROVE UNCHANGED <<feed, numbers>>
  BY <1>10 DEF ForgetPosting
<1>11. CASE UNCHANGED feedVars
  BY <1>2, <1>11 DEF feedVars
<1> QED
  BY <1>2, <1>3, <1>4, <1>5, <1>6, <1>7, <1>8, <1>9, <1>10, <1>11 DEF JobFeedNext

(* While a connection is revoked only an owner's completed reconnect gives it *)
(* a token and no run stores or enables anything; and at any time a run that  *)
(* began under another generation changes neither the connection nor a        *)
(* posting's numbers (state.py claimed_connection, switch_token,              *)
(* store_selection).                                                          *)
THEOREM RevokedRunsStayQuiet == JobFeedSpec => RevokedStaysQuiet
<1>1. FeedInv /\ [JobFeedNext]_feedVars
        => [Quiet /\ \A r \in FeedRuns : LeftBehind(r)]_feedVars
  BY RevokedSteps, LeftBehindSteps
<1> QED
  BY <1>1, FeedHolds, PTL DEF JobFeedSpec, RevokedStaysQuiet, Quiet, LeftBehind
-----------------------------------------------------------------------------
(* The numbers: a dedupe row holds the last of its posting's receipts.        *)
NumbersInv ==
    /\ numbers \in [Postings -> SUBSET (1..MaxNumber)]
    /\ dedupe \in [Postings -> 0..MaxNumber]
    /\ \A p \in Postings : dedupe[p] # 0 => \A m \in numbers[p] : m <= dedupe[p]

(* The next number is after every receipt's.                                  *)
LEMMA NextNumberIsNew ==
    ASSUME NumbersInv, NEW p \in Postings
    PROVE  NextNumber(p) \in Nat \ {0} /\ \A m \in numbers[p] : m < NextNumber(p)
<1>1. /\ MaxNumber \in Nat /\ dedupe[p] \in Nat /\ numbers[p] \in SUBSET Nat
      /\ \A m \in numbers[p] : m \in 1..MaxNumber
  BY JobFeedAssumption DEF NumbersInv
<1>2. CASE dedupe[p] # 0
  <2>1. \A m \in numbers[p] : m <= dedupe[p]
    BY <1>2 DEF NumbersInv
  <2> QED
    BY <1>1, <1>2, <2>1 DEF NextNumber
<1>3. CASE dedupe[p] = 0
  <2>1. \E n \in 1..(MaxNumber + 1) :
          /\ \A m \in numbers[p] : m < n
          /\ n = 1 \/ n - 1 \in numbers[p]
    <3>1. CASE numbers[p] = {}
      BY <1>1, <3>1
    <3>2. CASE numbers[p] # {}
      <4>1. \A m \in numbers[p] : m <= MaxNumber
        BY <1>1
      <4>2. PICK last \in numbers[p] : \A m \in numbers[p] : m <= last
        BY <1>1, <3>2, <4>1, GreatestOne
      <4>3. /\ last + 1 \in 1..(MaxNumber + 1) /\ (last + 1) - 1 = last
            /\ \A m \in numbers[p] : m < last + 1
        BY <1>1, <4>2
      <4> QED
        BY <4>2, <4>3
    <3> QED
      BY <3>1, <3>2
  <2>2. NextNumber(p) \in 1..(MaxNumber + 1) /\ \A m \in numbers[p] : m < NextNumber(p)
    BY <1>3, <2>1 DEF NextNumber
  <2> QED
    BY <1>1, <2>2
<1> QED
  BY <1>2, <1>3

(* What NumbersNeverReused says of one step.                                  *)
NumbersMove ==
    \A p \in Postings : dedupe'[p] # dedupe[p] /\ dedupe'[p] # 0
                          => dedupe'[p] \notin numbers[p]

LEMMA NumberSteps == NumbersInv /\ [JobFeedNext]_feedVars => NumbersInv' /\ NumbersMove
<1> SUFFICES ASSUME NumbersInv, [JobFeedNext]_feedVars PROVE NumbersInv' /\ NumbersMove
  OBVIOUS
<1>1. CASE UNCHANGED <<numbers, dedupe>>
  BY <1>1 DEF NumbersInv, NumbersMove
<1>2. ASSUME NEW r \in FeedRuns, DeliverAndReport(r) PROVE NumbersInv' /\ NumbersMove
  <2>1. CASE UNCHANGED <<numbers, dedupe>>
    BY <1>1, <2>1
  <2>2. CASE \E accepted \in SUBSET {p \in Postings : NextNumber(p) <= MaxNumber} :
               /\ numbers' = [p \in Postings |-> IF p \in accepted
                    THEN numbers[p] \cup {NextNumber(p)} ELSE numbers[p]]
               /\ dedupe' = [p \in Postings |-> IF p \in accepted THEN NextNumber(p)
                                                ELSE dedupe[p]]
    <3>1. PICK accepted \in SUBSET {p \in Postings : NextNumber(p) <= MaxNumber} :
               /\ numbers' = [p \in Postings |-> IF p \in accepted
                    THEN numbers[p] \cup {NextNumber(p)} ELSE numbers[p]]
               /\ dedupe' = [p \in Postings |-> IF p \in accepted THEN NextNumber(p)
                                                ELSE dedupe[p]]
      BY <2>2
    <3>2. \A p \in Postings : IF p \in accepted
            THEN numbers'[p] = numbers[p] \cup {NextNumber(p)} /\ dedupe'[p] = NextNumber(p)
            ELSE numbers'[p] = numbers[p] /\ dedupe'[p] = dedupe[p]
      BY <3>1
    <3>3. \A p \in accepted : /\ p \in Postings /\ NextNumber(p) \in 1..MaxNumber
                              /\ \A m \in numbers[p] : m \in Nat /\ m < NextNumber(p)
      BY <3>1, NextNumberIsNew, JobFeedAssumption DEF NumbersInv
    <3>4. /\ \A p \in Postings : /\ numbers'[p] \in SUBSET (1..MaxNumber)
                                 /\ dedupe'[p] \in 0..MaxNumber
          /\ DOMAIN numbers' = Postings /\ DOMAIN dedupe' = Postings
          /\ numbers' = [p \in Postings |-> numbers'[p]]
          /\ dedupe' = [p \in Postings |-> dedupe'[p]]
      BY <3>1, <3>2, <3>3, JobFeedAssumption DEF NumbersInv
    <3>5. /\ numbers' \in [Postings -> SUBSET (1..MaxNumber)]
          /\ dedupe' \in [Postings -> 0..MaxNumber]
      BY <3>4
    <3>6. \A p \in Postings : dedupe'[p] # 0 => \A m \in numbers'[p] : m <= dedupe'[p]
      BY <3>2, <3>3, JobFeedAssumption DEF NumbersInv
    <3>7. NumbersMove
      BY <3>2, <3>3 DEF NumbersMove
    <3> QED
      BY <3>5, <3>6, <3>7 DEF NumbersInv
  <2> QED
    BY <1>2, <2>1, <2>2 DEF DeliverAndReport
<1>3. ASSUME NEW p \in Postings, ForgetPosting(p) PROVE NumbersInv' /\ NumbersMove
  BY <1>3, JobFeedAssumption DEF ForgetPosting, NumbersInv, NumbersMove
<1>4. CASE SelectAccount \/ ClaimLapses
  BY <1>1, <1>4 DEF SelectAccount, ClaimLapses
<1>5. ASSUME NEW o \in Tabs,
             \/ BeginStart(o) \/ Start(o) \/ Consume(o) \/ Exchange(o) \/ Store(o)
             \/ ClearClient(o) \/ Revoke(o) \/ RevokeUpstream(o) \/ RevokeDiscards(o)
             \/ TabDiscards(o) \/ TabCrashes(o)
      PROVE  UNCHANGED <<numbers, dedupe>>
  BY <1>5 DEF BeginStart, Start, Consume, Exchange, Store, ClearClient, Revoke,
              RevokeUpstream, RevokeDiscards, TabDiscards, TabCrashes
<1>6. ASSUME NEW r \in FeedRuns,
             \/ BeginRun(r) \/ ClaimRun(r) \/ Refresh(r) \/ RefreshFails(r) \/ Switch(r)
             \/ Reread(r) \/ RotationKept(r) \/ RetireMinted(r) \/ RunDiscards(r)
             \/ ClearRejected(r) \/ EndTerminal(r) \/ ListAccounts(r) \/ StoreSelection(r)
             \/ SessionFails(r) \/ RunCrashes(r)
      PROVE  UNCHANGED <<numbers, dedupe>>
  BY <1>6 DEF BeginRun, ClaimRun, Refresh, RefreshFails, Switch, Reread, RotationKept,
              RetireMinted, RunDiscards, ClearRejected, EndTerminal, ListAccounts,
              StoreSelection, SessionFails, RunCrashes
<1>7. CASE UNCHANGED feedVars
  BY <1>1, <1>7 DEF feedVars
<1> QED
  BY <1>1, <1>2, <1>3, <1>4, <1>5, <1>6, <1>7 DEF JobFeedNext

(* A posting's number is never used twice: not after a refused row, and not   *)
(* after an erasure took the dedupe row (state.py next_seq, upsert_posting,   *)
(* forget_posting).                                                           *)
THEOREM NumbersAreNeverReused == JobFeedSpec => NumbersNeverReused
<1>1. JobFeedInit => NumbersInv
  BY JobFeedAssumption DEF JobFeedInit, NumbersInv
<1>2. NumbersInv /\ [JobFeedNext]_feedVars => NumbersInv' /\ [NumbersMove]_feedVars
  BY NumberSteps
<1> QED
  BY <1>1, <1>2, PTL DEF JobFeedSpec, NumbersNeverReused, NumbersMove
=============================================================================
