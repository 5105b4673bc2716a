------------------------------ MODULE KeyDerive ------------------------------
(***************************************************************************)
(* POST /keys/derive (api/src/routes/keys.ts): sub-keys minted from one    *)
(* top-level key, by concurrent requests on several api machines.  A       *)
(* request reads the parent, then, in a transaction that holds the         *)
(* parent's advisory lock, counts the children and inserts one more.       *)
(* Meanwhile children expire, are revoked with their subtree, charged to   *)
(* over_budget by ingest, and reactivated by a budget raise.               *)
(***************************************************************************)
EXTENDS Integers, FiniteSets

CONSTANTS Requests,      \* slots of concurrent derive requests
          Children,      \* children that can be minted, 1 and on: a bound
          Nobody,
          Ttls,          \* expires_in_seconds requests ask for
          MaxTtl,        \* MAX_SUBKEY_TTL_SECONDS
          ParentExpires, \* expires_at of the parent, past MaxTime for none
          RatePerMin,    \* SUBKEY_DERIVE_RATE_PER_MIN
          Minute,        \* the window of the rate
          MaxActive,     \* SUBKEY_DERIVE_MAX_ACTIVE
          MaxTime        \* bound on the clock

ASSUME DeriveAssumption ==
    /\ Ttls \subseteq Nat
    /\ MaxTtl \in Nat
    /\ ParentExpires \in Nat
    /\ RatePerMin \in Nat \ {0}
    /\ Minute \in Nat \ {0}
    /\ MaxActive \in Nat \ {0}
    /\ MaxTime \in Nat
    /\ Nobody \notin Requests
    /\ Children \subseteq Nat

VARIABLES
    now,        \* the time
    parent,     \* status of the parent
    child,      \* the rows of the children
    lock,       \* holder of the parent's advisory lock
    derive      \* of every request: its step, transaction time and expiry

vars == <<now, parent, child, lock, derive>>

\* `raised` is history: a budget raise made the child active again.
NoRow == [status |-> "none", created |-> 0, expires |-> 0, raised |-> FALSE]
Idle  == [at |-> "idle", began |-> 0, expires |-> 0]

Init ==
    /\ now = 0
    /\ parent = "active"
    /\ child = [c \in Children |-> NoRow]
    /\ lock = Nobody
    /\ derive = [q \in Requests |-> Idle]

Minted == {c \in Children : child[c].status # "none"}

-------------------------------------------------------------------------------
(* A derive request *)

\* The parent is read and checked (401), and so is the lifetime: a ttl past the
\* ceiling, or past the parent's own expiry, is refused (400).
ReadParent(q, ttl) ==
    /\ derive[q].at = "idle"
    /\ parent = "active"
    /\ 0 < ttl /\ ttl <= MaxTtl
    /\ now + ttl <= ParentExpires
    /\ derive' = [derive EXCEPT ![q] = [at |-> "read", began |-> 0,
                                       expires |-> now + ttl]]
    /\ UNCHANGED <<now, parent, child, lock>>

\* BEGIN: now() is the time of this step for the whole transaction.
Begin(q) ==
    /\ derive[q].at = "read"
    /\ derive' = [derive EXCEPT ![q].at = "lock", ![q].began = now]
    /\ UNCHANGED <<now, parent, child, lock>>

\* Broken on purpose: no lock.
TakeNoLock(q) ==
    /\ derive[q].at = "lock"
    /\ derive' = [derive EXCEPT ![q].at = "count"]
    /\ UNCHANGED <<now, parent, child, lock>>

\* pg_advisory_xact_lock
TakeLock(q) ==
    /\ derive[q].at = "lock"
    /\ lock = Nobody
    /\ lock' = q
    /\ derive' = [derive EXCEPT ![q].at = "count"]
    /\ UNCHANGED <<now, parent, child>>

\* Broken on purpose: a revoked child no longer counts as minted.
RecentlyMintedActive(q) ==
    {c \in Minted : /\ child[c].status = "active"
                    /\ child[c].created > derive[q].began - Minute}

\* The children minted in the minute before the transaction, whatever became of
\* them since, and the children that are active and not expired.
RecentlyMinted(q) == {c \in Minted : child[c].created > derive[q].began - Minute}

CountedActive(q) ==
    {c \in Minted : child[c].status = "active" /\ child[c].expires > derive[q].began}

\* Under both limits the request goes on to the INSERT ...
Count(q) ==
    /\ derive[q].at = "count"
    /\ Cardinality(RecentlyMinted(q)) < RatePerMin
    /\ Cardinality(CountedActive(q)) < MaxActive
    /\ derive' = [derive EXCEPT ![q].at = "insert"]
    /\ UNCHANGED <<now, parent, child, lock>>

\* ... and at a limit it answers 429, the transaction committed.
Refuse(q) ==
    /\ derive[q].at = "count"
    /\ \/ Cardinality(RecentlyMinted(q)) >= RatePerMin
       \/ Cardinality(CountedActive(q)) >= MaxActive
    /\ lock' = Nobody
    /\ derive' = [derive EXCEPT ![q] = Idle]
    /\ UNCHANGED <<now, parent, child>>

\* INSERT and COMMIT: the row is visible, and the lock released.
Insert(q, c) ==
    /\ derive[q].at = "insert"
    /\ c \notin Minted
    /\ \A d \in Children : d < c => d \in Minted
    /\ child' = [child EXCEPT ![c] = [status |-> "active",
                                     created |-> derive[q].began,
                                     expires |-> derive[q].expires,
                                     raised |-> FALSE]]
    /\ lock' = Nobody
    /\ derive' = [derive EXCEPT ![q] = Idle]
    /\ UNCHANGED <<now, parent>>

\* The api process dies, or the connection: the transaction is rolled back.
Abort(q) ==
    /\ derive[q].at # "idle"
    /\ lock' = IF lock = q THEN Nobody ELSE lock
    /\ derive' = [derive EXCEPT ![q] = Idle]
    /\ UNCHANGED <<now, parent, child>>

-------------------------------------------------------------------------------
(* The other writers *)

SetStatus(c, s) == child' = [child EXCEPT ![c].status = s]

\* Revocation of a child, or of the parent with its subtree.
RevokeChild(c) ==
    /\ child[c].status \in {"active", "over_budget"}
    /\ SetStatus(c, "revoked")
    /\ UNCHANGED <<now, parent, lock, derive>>

RevokeParent ==
    /\ parent' = "revoked"
    /\ child' = [c \in Children |->
                   IF c \in Minted THEN [child[c] EXCEPT !.status = "revoked"]
                   ELSE child[c]]
    /\ UNCHANGED <<now, lock, derive>>

\* Ingest charges a child to its budget; a raise makes it active again.
ChargeChild(c) ==
    /\ child[c].status = "active"
    /\ SetStatus(c, "over_budget")
    /\ UNCHANGED <<now, parent, lock, derive>>

RaiseChild(c) ==
    /\ child[c].status = "over_budget"
    /\ child' = [child EXCEPT ![c].status = "active", ![c].raised = TRUE]
    /\ UNCHANGED <<now, parent, lock, derive>>

\* The same of the parent: one that is over its budget mints nothing.
ChargeParent ==
    /\ parent = "active"
    /\ parent' = "over_budget"
    /\ UNCHANGED <<now, child, lock, derive>>

RaiseParent ==
    /\ parent = "over_budget"
    /\ parent' = "active"
    /\ UNCHANGED <<now, child, lock, derive>>

Tick ==
    /\ now < MaxTime
    /\ now' = now + 1
    /\ UNCHANGED <<parent, child, lock, derive>>

Next ==
    \/ \E q \in Requests :
          \/ \E ttl \in Ttls : ReadParent(q, ttl)
          \/ Begin(q)
          \/ TakeLock(q)
          \/ Count(q)
          \/ Refuse(q)
          \/ \E c \in Children : Insert(q, c)
          \/ Abort(q)
    \/ \E c \in Children : RevokeChild(c) \/ ChargeChild(c) \/ RaiseChild(c)
    \/ RevokeParent
    \/ ChargeParent
    \/ RaiseParent
    \/ Tick

Spec == Init /\ [][Next]_vars

-------------------------------------------------------------------------------
(* Properties *)

TypeOK ==
    /\ now \in 0 .. MaxTime
    /\ parent \in {"active", "over_budget", "revoked"}
    /\ child \in [Children ->
                    [status : {"none", "active", "over_budget", "revoked"},
                     created : Nat, expires : Nat, raised : BOOLEAN]]
    /\ lock \in Requests \cup {Nobody}
    /\ derive \in [Requests ->
                     [at : {"idle", "read", "lock", "count", "insert"},
                      began : Nat, expires : Nat]]

\* The rate limit is a real bound (keys.ts:391-394, 492-501): no minute, of the
\* times the rows carry, holds more than RatePerMin mints, however many derive
\* requests run at once, wait for the lock, or revoke what they mint.
RateHolds ==
    \A t \in -1 .. MaxTime :
        Cardinality({c \in Minted : child[c].created \in (t + 1) .. (t + Minute)})
            <= RatePerMin

\* The cap holds under concurrent derives (keys.ts:492-501 reports 14 of 15
\* past a limit of 5 without the lock): of the children a budget raise did not
\* bring back, at most MaxActive are active at any time.
CapHolds ==
    Cardinality({c \in Minted : /\ child[c].status = "active"
                                /\ child[c].expires > now
                                /\ ~child[c].raised}) <= MaxActive

\* keys.ts:350: "Revocation -- parent must be active; revoke cascades subtree".
RevokeReachesSubtree ==
    parent = "revoked" => \A c \in Minted : child[c].status = "revoked"
===============================================================================
