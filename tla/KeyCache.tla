------------------------------- MODULE KeyCache -------------------------------
(***************************************************************************)
(* How a proxy machine decides on a gateway credential (proxy/auth.go,     *)
(* proxy/keymeta.go): the key's row, and its root's, from a cache in       *)
(* memory, read from Postgres on a miss.  The rows change meanwhile:       *)
(* ingest flips keys to over_budget, budgets are raised, keys are revoked.  *)
(*                                                                         *)
(* A lookup checks the map under the mutex, reads the row outside it, and  *)
(* stores what it read under it again; any number of requests do so at     *)
(* once.  Time passes only while a row is being read, and a read takes at  *)
(* most MaxRead.                                                           *)
(***************************************************************************)
EXTENDS Integers, FiniteSets

CONSTANTS Keys,         \* gateway keys
          RootOf,       \* root_key_id of every key
          Expires,      \* expires_at of every key, past LastInstant for none
          Callers,      \* concurrent requests
          TTL,          \* KeyMetaTTL
          MaxRead,      \* how long a read of a row takes
          CacheCap,     \* entries of a map before it is cleared, 10000
          NoKey,
          LastInstant,  \* bound on the clock
          MaxChanges    \* bound on how often statuses change

ASSUME CacheAssumption ==
    /\ RootOf \in [Keys -> Keys]
    /\ \A k \in Keys : RootOf[RootOf[k]] = RootOf[k]
    /\ Expires \in [Keys -> Nat]
    /\ TTL \in Nat \ {0}
    /\ MaxRead \in Nat
    /\ CacheCap \in Nat
    /\ NoKey \notin Keys
    /\ LastInstant \in Nat
    /\ MaxChanges \in Nat

VARIABLES
    instant,    \* the time
    status,     \* llm.keys.status
    left,       \* history: when a key last left a status
    changes,    \* how often statuses changed
    cache,      \* [Maps -> [Keys -> Entries]]
    request     \* the requests being verified

rowVars == <<status, left, changes>>
cacheVars == <<instant, rowVars, cache, request>>

Statuses == {"active", "over_budget", "revoked"}

\* What an entry holds: a status, "deny" for nil, "none" for no entry.
Metas   == {"active", "over_budget", "deny", "none"}
Entries == [meta : Metas, exp : Nat]
NoEntry == [meta |-> "none", exp |-> 0]

\* byHash, of top-level credentials; byID, of derived keys and roots.
Maps == {"byHash", "byID"}

\* A request looks up its key (on = "key"), then the key's root.
Looking(k) == [at |-> "lookup", key |-> k, on |-> "key", meta |-> "none",
               row |-> "none", began |-> 0]
NoCall == [Looking(NoKey) EXCEPT !.at = "idle"]

Never == -1

CacheInit ==
    /\ instant = 0
    /\ status = [k \in Keys |-> "active"]
    /\ left = [k \in Keys |-> [s \in Statuses |-> Never]]
    /\ cache = [m \in Maps |-> [k \in Keys |-> NoEntry]]
    /\ changes = 0
    /\ request = [q \in Callers |-> NoCall]

-------------------------------------------------------------------------------
(* The rows *)

IsTop(k) == RootOf[k] = k

ChangeStatus(ks, s) ==
    /\ changes < MaxChanges
    /\ changes' = changes + 1
    /\ status' = [k \in Keys |-> IF k \in ks THEN s ELSE status[k]]
    /\ left' = [k \in Keys |->
                  IF k \in ks /\ status[k] # s
                  THEN [left[k] EXCEPT ![status[k]] = instant]
                  ELSE left[k]]
    /\ UNCHANGED <<instant, cache, request>>

\* Ingest charges a key to its budget.
FlipsToOverBudget(k) == status[k] = "active" /\ ChangeStatus({k}, "over_budget")

\* The budget is raised, and the trigger reactivates the key.
Reactivated(k) == status[k] = "over_budget" /\ ChangeStatus({k}, "active")

\* A key is revoked, with its subtree.
Revoked(k) ==
    /\ status[k] # "revoked"
    /\ ChangeStatus({c \in Keys : c = k \/ RootOf[c] = k}, "revoked")

-------------------------------------------------------------------------------
(* Verification *)

Expired(k) == Expires[k] <= instant

\* The row request q looks for, and the map it looks in.
Target(q) == IF request[q].on = "key" THEN request[q].key
             ELSE RootOf[request[q].key]
MapOf(q)  == IF request[q].on = "key" /\ IsTop(request[q].key)
             THEN "byHash" ELSE "byID"

\* usable
Usable(k, meta) == meta \in {"active", "over_budget"} /\ ~Expired(k)

\* What toCredential, or the look for the root it calls for, makes of the
\* result of a lookup: the next lookup, or 401, 402 or the credential.
Found(q, meta) ==
    LET rq   == request[q]
        over == "over_budget" \in {meta, rq.meta}
    IN  [rq EXCEPT
           !.row = "none",
           !.meta = meta,
           !.on = IF Usable(Target(q), meta) THEN "root" ELSE @,
           !.at = IF ~Usable(Target(q), meta) THEN "deny"
                  ELSE IF rq.on = "key" /\ ~IsTop(rq.key) THEN "lookup"
                  ELSE IF over THEN "over" ELSE "allow",
           !.began = 0]

Present(q, k) ==
    /\ request[q].at = "idle"
    /\ request' = [request EXCEPT ![q] = Looking(k)]
    /\ UNCHANGED <<instant, rowVars, cache>>

\* Broken on purpose: an entry never expires.
HitForever(q) ==
    LET e == cache[MapOf(q)][Target(q)]
    IN  /\ request[q].at = "lookup"
        /\ e.meta # "none"
        /\ request' = [request EXCEPT ![q] = Found(q, e.meta)]
        /\ UNCHANGED <<instant, rowVars, cache>>

\* lookup: the entry is there and has not expired ...
Hit(q) ==
    LET e == cache[MapOf(q)][Target(q)]
    IN  /\ request[q].at = "lookup"
        /\ e.meta # "none"
        /\ instant < e.exp
        /\ request' = [request EXCEPT ![q] = Found(q, e.meta)]
        /\ UNCHANGED <<instant, rowVars, cache>>

\* ... or it is not: the query is sent,
Miss(q) ==
    LET e == cache[MapOf(q)][Target(q)]
    IN  /\ request[q].at = "lookup"
        /\ e.meta = "none" \/ instant >= e.exp
        /\ request' = [request EXCEPT ![q].at = "query", ![q].began = instant]
        /\ UNCHANGED <<instant, rowVars, cache>>

\* Postgres reads the row,
ReadRow(q) ==
    /\ request[q].at = "query"
    /\ request' = [request EXCEPT ![q].at = "answer",
                                  ![q].row = status[Target(q)]]
    /\ UNCHANGED <<instant, rowVars, cache>>

\* Broken on purpose: a revoked row is cached as it is, or one over its budget
\* like a revoked one.
toCachedAsIs(k, row)       == row
toCachedOnlyActive(k, row) == IF row # "active" \/ Expired(k) THEN "deny" ELSE row

\* and the answer goes through toCached into the map, cleared first when it is
\* past its cap.
toCached(k, row) ==
    IF row = "revoked" \/ Expired(k) THEN "deny" ELSE row

Store(q) ==
    LET k    == Target(q)
        m    == MapOf(q)
        meta == toCached(k, request[q].row)
        kept == IF Cardinality({c \in Keys : cache[m][c].meta # "none"}) > CacheCap
                THEN [c \in Keys |-> NoEntry]
                ELSE cache[m]
    IN  /\ request[q].at = "answer"
        /\ cache' = [cache EXCEPT ![m] =
                       [kept EXCEPT ![k] = [meta |-> meta, exp |-> instant + TTL]]]
        /\ request' = [request EXCEPT ![q] = Found(q, meta)]
        /\ UNCHANGED <<instant, rowVars>>

\* The query fails: 500, and nothing is cached.
QueryFails(q) ==
    /\ request[q].at \in {"query", "answer"}
    /\ request' = [request EXCEPT ![q] = NoCall]
    /\ UNCHANGED <<instant, rowVars, cache>>

\* The request goes on, or its refusal is sent.
Leave(q) ==
    /\ request[q].at \in {"allow", "over", "deny"}
    /\ request' = [request EXCEPT ![q] = NoCall]
    /\ UNCHANGED <<instant, rowVars, cache>>

TimePasses ==
    /\ instant < LastInstant
    /\ \A q \in Callers :
          \/ request[q].at = "idle"
          \/ /\ request[q].at \in {"query", "answer"}
             /\ instant - request[q].began < MaxRead
    /\ instant' = instant + 1
    /\ UNCHANGED <<rowVars, cache, request>>

CacheNext ==
    \/ TimePasses
    \/ \E k \in Keys : FlipsToOverBudget(k) \/ Reactivated(k) \/ Revoked(k)
    \/ \E q \in Callers :
          \/ \E k \in Keys : Present(q, k)
          \/ Hit(q)
          \/ Miss(q)
          \/ ReadRow(q)
          \/ Store(q)
          \/ QueryFails(q)
          \/ Leave(q)

CacheSpec == CacheInit /\ [][CacheNext]_cacheVars

-------------------------------------------------------------------------------
(* Properties *)

Stages == {"idle", "lookup", "query", "answer", "allow", "over", "deny"}

CacheTypeOK ==
    /\ instant \in 0 .. LastInstant
    /\ status \in [Keys -> Statuses]
    /\ left \in [Keys -> [Statuses -> Never .. LastInstant]]
    /\ changes \in 0 .. MaxChanges
    /\ cache \in [Maps -> [Keys -> Entries]]
    /\ request \in [Callers ->
                      [at : Stages, key : Keys \cup {NoKey}, on : {"key", "root"},
                       meta : Metas, row : Statuses \cup {"none"}, began : Nat]]

\* Key k has, or less than w ago had, status s.
Recently(k, s, w) ==
    status[k] = s \/ (left[k][s] # Never /\ instant - left[k][s] < w)

\* How old what a verdict says can be: an entry lives TTL from when it is
\* stored, up to MaxRead after the row was read, and a derived key's own row is
\* looked at before the root's is read.
OwnAge(q)  == IF IsTop(request[q].key) THEN TTL + MaxRead ELSE TTL + 2 * MaxRead
RootAge(q) == TTL + MaxRead

\* A request passes only if its key and its root were active that recently, and
\* have not expired, whatever other lookups store meanwhile: a revocation and a
\* spent budget reach the proxy (auth.go:95-99, proxy.go:79-82).
AllowIsFresh ==
    \A q \in Callers :
        LET k == request[q].key
        IN  request[q].at = "allow" =>
              /\ Recently(k, "active", OwnAge(q))
              /\ Recently(RootOf[k], "active", RootAge(q))
              /\ ~Expired(RootOf[k])
              /\ instant <= Expires[k] + MaxRead

\* A 402 is as fresh, so a raised budget reaches the proxy; a 401 has a reason
\* that holds now, for no key is usable again once it is revoked or expired.
RefusalIsFresh ==
    \A q \in Callers :
        LET k == request[q].key
        IN  /\ request[q].at = "over" =>
                  \/ Recently(k, "over_budget", OwnAge(q))
                  \/ Recently(RootOf[k], "over_budget", RootAge(q))
            /\ request[q].at = "deny" =>
                  \E c \in {k, RootOf[k]} : status[c] = "revoked" \/ Expired(c)
===============================================================================
