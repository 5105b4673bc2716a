------------------------------- MODULE TeamKeys -------------------------------
(***************************************************************************)
(* One user of the dashboard (api/src/middleware/auth.ts,                  *)
(* lib/kamuid-sync.ts, routes/keys.ts, and the admin app's routes/keys.tsx *)
(* beside them).  A request carries a claim, the organisations of its      *)
(* signed platform context; the api projects it into team_members,         *)
(* statement by statement, at most once per token and Resync, and row      *)
(* level security then shows the request the rows of the user's teams.     *)
(* Keys are minted and revoked under both: the claim grants, the           *)
(* membership makes visible.                                               *)
(*                                                                         *)
(* There is no clock: a membership has an age and a cached token a time to *)
(* live.  A request takes at most MaxCall.                                 *)
(***************************************************************************)
EXTENDS Integers, FiniteSets

CONSTANTS Teams,     \* organisations the user may be in
          Tokens,    \* access tokens of the user's browser sessions
          Slots,     \* concurrent requests
          KeyIds,    \* keys that can be minted, 1 and on: a bound
          Resync,    \* RESYNC_MS
          MaxCall,   \* how long a request takes
          NoTeam

ASSUME TeamAssumption ==
    /\ KeyIds \subseteq Nat \ {0}
    /\ Resync \in Nat \ {0}
    /\ MaxCall \in Nat
    /\ NoTeam \notin Teams

VARIABLES
    member,     \* llm.team_members: since when, or NotMember
    session,    \* the cache of auth.ts, and whether its last sync failed
    call,       \* the requests being handled
    keyRow,     \* llm.keys
    handed      \* keys whose secret was returned

teamVars == <<member, session, call, keyRow, handed>>

NotMember == -1
NoId      == 0
Old       == Resync + 2 * MaxCall       \* ages past it are not told apart

NoRequest == [at |-> "idle", cred |-> "none", token |-> {}, claim |-> {},
              todo |-> {}, sync |-> "none", elapsed |-> 0, key |-> NoId]
NoKeyRow  == [status |-> "none", team |-> NoTeam, root |-> NoId, parent |-> NoId]

TeamsInit ==
    /\ member = [t \in Teams |-> NotMember]
    /\ session = [k \in Tokens |-> [life |-> 0, failed |-> FALSE]]
    /\ call = [q \in Slots |-> NoRequest]
    /\ keyRow = [k \in KeyIds |-> NoKeyRow]
    /\ handed = {}

\* llm.user_teams(), which row level security scopes by, and the keys it shows.
userTeams == {t \in Teams : member[t] # NotMember}
userKeys  == {k \in KeyIds : keyRow[k].team \in userTeams}

-------------------------------------------------------------------------------
(* Authentication *)

Arrives(q, r) ==
    /\ call[q].at = "idle"
    /\ call' = [call EXCEPT ![q] = r]
    /\ UNCHANGED <<member, session, keyRow, handed>>

\* A browser's token is in the cache: memberships are taken as they are ...
BrowserHits(q, token, claim) ==
    /\ session[token].life > 0
    /\ Arrives(q, [NoRequest EXCEPT
                     !.at = "run", !.cred = "browser", !.claim = claim,
                     !.sync = IF session[token].failed THEN "failed" ELSE "cached"])

\* ... or it is not: /userinfo knows it, and they are reconciled.
BrowserMisses(q, token, claim) ==
    /\ session[token].life = 0
    /\ Arrives(q, [NoRequest EXCEPT
                     !.at = "sync", !.cred = "browser", !.token = {token},
                     !.claim = claim, !.todo = claim, !.sync = "fresh"])

\* A signed context as the bearer, scoped to one organisation or none.
AccessKeyArrives(q, claim) ==
    /\ Cardinality(claim) <= 1
    /\ Arrives(q, [NoRequest EXCEPT
                     !.at = "sync", !.cred = "accessKey", !.claim = claim,
                     !.todo = claim, !.sync = "fresh"])

\* A session of the admin app.
AdminArrives(q) == Arrives(q, [NoRequest EXCEPT !.at = "run", !.cred = "admin"])

\* One organisation of the claim: the team and the membership, upserted.
Upsert(q, t) ==
    /\ call[q].at = "sync"
    /\ t \in call[q].todo
    /\ member' = [member EXCEPT ![t] = 0]
    /\ call' = [call EXCEPT ![q].todo = @ \ {t}]
    /\ UNCHANGED <<session, keyRow, handed>>

\* History: the deletion takes from another request what it had upserted.
Rivalled(p, dropped) ==
    /\ call[p].sync = "fresh"
    /\ (call[p].claim \ call[p].todo) \cap dropped # {}

Deletes(q, dropped) ==
    /\ call[q].at = "sync"
    /\ call[q].cred = "browser"
    /\ call[q].todo = {}
    /\ member' = [t \in Teams |-> IF t \in dropped THEN NotMember ELSE member[t]]
    /\ call' = [p \in Slots |->
                  IF p = q THEN [call[p] EXCEPT !.at = "cache"]
                  ELSE IF Rivalled(p, dropped) THEN [call[p] EXCEPT !.sync = "rivalled"]
                  ELSE call[p]]
    /\ UNCHANGED <<session, keyRow, handed>>

\* Broken on purpose: nothing is deleted, or all but the last team of the list.
DropNothing(q) == Deletes(q, {})
DropAllButOne(q) == \E t \in Teams : Deletes(q, userTeams \ (call[q].claim \cap {t}))

\* The memberships that are not in the claim are deleted.
DropStale(q) == Deletes(q, userTeams \ call[q].claim)

\* An access key's sync deletes nothing.
Ensured(q) ==
    /\ call[q].at = "sync"
    /\ call[q].cred = "accessKey"
    /\ call[q].todo = {}
    /\ call' = [call EXCEPT ![q].at = "run"]
    /\ UNCHANGED <<member, session, keyRow, handed>>

\* A statement fails: the error is logged, and the request goes on.
SyncFails(q) ==
    /\ call[q].at = "sync"
    /\ call' = [call EXCEPT ![q].at = IF call[q].cred = "browser"
                                      THEN "cache" ELSE "run",
                            ![q].sync = "failed",
                            ![q].todo = {}]
    /\ UNCHANGED <<member, session, keyRow, handed>>

\* The token is cached after either, in a map cleared first when it is full.
CacheToken(q, cleared) ==
    /\ call[q].at = "cache"
    /\ session' = [k \in Tokens |->
                     IF k \in call[q].token
                     THEN [life |-> Resync, failed |-> call[q].sync = "failed"]
                     ELSE IF cleared THEN [life |-> 0, failed |-> FALSE]
                     ELSE session[k]]
    /\ call' = [call EXCEPT ![q].at = "run", ![q].token = {}]
    /\ UNCHANGED <<member, keyRow, handed>>

-------------------------------------------------------------------------------
(* Minting and revoking *)

\* A handler's last statement before the reply goes on with the key alone.
Goes(q, stage, k) ==
    call' = [call EXCEPT ![q] = [NoRequest EXCEPT !.at = stage, !.key = k,
                                                  !.elapsed = call[q].elapsed]]

IsAdmin(q) == call[q].cred = "admin"

\* requireGrant: the claim has the team; row level security: the user is in it.
Allowed(q, t) == ~IsAdmin(q) /\ t \in call[q].claim \cap userTeams

Added(k, r) == keyRow' = [keyRow EXCEPT ![k] = r]
NextId(k)   == /\ keyRow[k].status = "none"
               /\ \A j \in KeyIds : j < k => keyRow[j].status # "none"

\* A top-level key is inserted without a root,
Mint(q, k, t) ==
    /\ call[q].at = "run"
    /\ NextId(k)
    /\ Added(k, [status |-> "active", team |-> t, root |-> NoId, parent |-> NoId])
    /\ Goes(q, "root", k)
    /\ UNCHANGED <<member, session, handed>>

\* by a user or by the admin app, which mints for any team,
UserMints(q, k, t)  == Allowed(q, t) /\ Mint(q, k, t)
AdminMints(q, k, t) == IsAdmin(q) /\ Mint(q, k, t)

\* made its own root by a second statement,
SetRoot(q) ==
    LET k == call[q].key
    IN  /\ call[q].at = "root"
        /\ keyRow' = [keyRow EXCEPT ![k].root = k]
        /\ Goes(q, "reply", k)
        /\ UNCHANGED <<member, session, handed>>

\* Broken on purpose: the secret is returned while the UPDATE is under way.
ReplyEarly(q) ==
    /\ call[q].at \in {"root", "reply"}
    /\ call[q].key \notin handed
    /\ handed' = handed \cup {call[q].key}
    /\ call' = [call EXCEPT ![q] = IF @.at = "root" THEN @ ELSE NoRequest]
    /\ UNCHANGED <<member, session, keyRow>>

\* and its secret returned.
Reply(q) ==
    /\ call[q].at = "reply"
    /\ handed' = handed \cup {call[q].key}
    /\ call' = [call EXCEPT ![q] = NoRequest]
    /\ UNCHANGED <<member, session, keyRow>>

\* The holder of an active top-level key derives one from it (KeyDerive).
Derived(p, k) ==
    /\ p \in handed
    /\ keyRow[p].status = "active"
    /\ NextId(k)
    /\ Added(k, [status |-> "active", team |-> keyRow[p].team,
                 root |-> keyRow[p].root, parent |-> p])
    /\ UNCHANGED <<member, session, call, handed>>

\* Revocation looks for the key as the user, and then,
FindsKey(q, k) ==
    /\ call[q].at = "run"
    /\ keyRow[k].status # "none"
    /\ Allowed(q, keyRow[k].team)
    /\ Goes(q, "revoke", k)
    /\ UNCHANGED <<member, session, keyRow, handed>>

\* whatever became of the membership, revokes it and the keys below it.
RevokesTree(q, k) ==
    /\ keyRow' = [j \in KeyIds |->
                    IF j = k \/ keyRow[j].root = k
                    THEN [keyRow[j] EXCEPT !.status = "revoked"]
                    ELSE keyRow[j]]
    /\ call' = [call EXCEPT ![q] = NoRequest]
    /\ UNCHANGED <<member, session, handed>>

Revoke(q) == call[q].at = "revoke" /\ RevokesTree(q, call[q].key)

\* The admin app does not look first.
AdminRevokes(q, k) ==
    /\ call[q].at = "run"
    /\ IsAdmin(q)
    /\ keyRow[k].status # "none"
    /\ RevokesTree(q, k)

\* A key's page is two transactions: the key, if the user may see it, and the
\* sums of what usage of it the user may see by then.
FindsDetail(q, k) ==
    /\ call[q].at = "run"
    /\ ~IsAdmin(q)
    /\ k \in userKeys
    /\ Goes(q, "totals", k)
    /\ UNCHANGED <<member, session, keyRow, handed>>

SumsTotals(q) ==
    /\ call[q].at = "totals"
    /\ call' = [call EXCEPT ![q] = NoRequest]
    /\ UNCHANGED <<member, session, keyRow, handed>>

\* A list shows userTeams or userKeys; another request is refused, or fails, at
\* any statement.
Ends(q) ==
    /\ call[q].at # "idle"
    /\ call' = [call EXCEPT ![q] = NoRequest]
    /\ UNCHANGED <<member, session, keyRow, handed>>

\* The api is restarted: its requests and its cache are lost.
ApiRestarts ==
    /\ call' = [q \in Slots |-> NoRequest]
    /\ session' = [k \in Tokens |-> [life |-> 0, failed |-> FALSE]]
    /\ UNCHANGED <<member, keyRow, handed>>

TimeGoesOn ==
    /\ \A q \in Slots : call[q].at # "idle" => call[q].elapsed < MaxCall
    /\ member' = [t \in Teams |->
                    IF member[t] \in {NotMember, Old} THEN member[t]
                    ELSE member[t] + 1]
    /\ session' = [k \in Tokens |->
                     IF session[k].life = 0 THEN session[k]
                     ELSE [session[k] EXCEPT !.life = @ - 1]]
    /\ call' = [q \in Slots |->
                  IF call[q].at = "idle" THEN call[q]
                  ELSE [call[q] EXCEPT !.elapsed = @ + 1]]
    /\ UNCHANGED <<keyRow, handed>>

TeamsNext ==
    \/ \E q \in Slots :
          \/ \E token \in Tokens, claim \in SUBSET Teams :
                BrowserHits(q, token, claim) \/ BrowserMisses(q, token, claim)
          \/ \E claim \in SUBSET Teams : AccessKeyArrives(q, claim)
          \/ AdminArrives(q)
          \/ \E t \in Teams : Upsert(q, t)
          \/ DropStale(q)
          \/ Ensured(q)
          \/ SyncFails(q)
          \/ \E cleared \in BOOLEAN : CacheToken(q, cleared)
          \/ \E k \in KeyIds, t \in Teams : UserMints(q, k, t) \/ AdminMints(q, k, t)
          \/ SetRoot(q)
          \/ Reply(q)
          \/ \E k \in KeyIds : FindsKey(q, k)
          \/ Revoke(q)
          \/ \E k \in KeyIds : AdminRevokes(q, k)
          \/ \E k \in KeyIds : FindsDetail(q, k)
          \/ SumsTotals(q)
          \/ Ends(q)
    \/ \E p, k \in KeyIds : Derived(p, k)
    \/ ApiRestarts
    \/ TimeGoesOn

TeamsSpec == TeamsInit /\ [][TeamsNext]_teamVars

-------------------------------------------------------------------------------
(* Properties *)

TeamsTypeOK ==
    /\ member \in [Teams -> NotMember .. Old]
    /\ session \in [Tokens -> [life : 0 .. Resync, failed : BOOLEAN]]
    /\ call \in [Slots ->
                   [at : {"idle", "sync", "cache", "run", "root", "reply", "revoke", "totals"},
                    cred : {"none", "browser", "accessKey", "admin"},
                    token : SUBSET Tokens, claim : SUBSET Teams,
                    todo : SUBSET Teams,
                    sync : {"none", "fresh", "cached", "failed", "rivalled"},
                    elapsed : 0 .. MaxCall, key : KeyIds \cup {NoId}]]
    /\ keyRow \in [KeyIds -> [status : {"none", "active", "revoked"},
                              team : Teams \cup {NoTeam},
                              root : KeyIds \cup {NoId},
                              parent : KeyIds \cup {NoId}]]
    /\ handed \subseteq KeyIds

\* A membership the user lost goes within Resync of the next browser request,
\* although most requests look at a cache only (auth.ts:51-54, kamuid-sync.ts:104):
\* whatever a browser's request sees, of a token whose last sync did not fail,
\* some claim held that recently.
SeesRecentClaims ==
    \A q \in Slots :
        /\ call[q].at = "run"
        /\ call[q].cred = "browser"
        /\ call[q].sync # "failed"
        => \A t \in userTeams : member[t] < Old

\* Syncs of one user run at once, statement by statement, and an access key's
\* knows one organisation (kamuid-sync.ts:47-52): a request whose sync did not
\* fail sees every team of its claim, unless another's deletion took it since.
ClaimIsVisible ==
    \A q \in Slots :
        /\ call[q].at = "run"
        /\ call[q].sync = "fresh"
        => call[q].claim \subseteq userTeams

\* Revocation and budgets reach a derived key by its root (keys.ts:325-332),
\* which it copies from its parent when it is minted: never from a row between
\* the two statements of its own mint, though each may be the last that runs.
DerivedKeyHasRoot ==
    \A k \in KeyIds : keyRow[k].parent # NoId => keyRow[k].root = keyRow[k].parent
===============================================================================
