-------------------------------- MODULE KeyUsage --------------------------------
(***************************************************************************)
(* The key holder's GET /usage of the api (api/src/routes/usage.ts), on    *)
(* top of the poller: rows come from Postgres, after an ingest pass that   *)
(* started after the request arrived.  A client loops: it passes the       *)
(* page's max_id back as `since`, and only pages that do not carry         *)
(* X-Usage-Partial count for it, as the route's comment advises.           *)
(*                                                                         *)
(* The page takes two SELECTs, each on what is committed at its time: the  *)
(* page itself, and the rows that share its last row's cursor.             *)
(***************************************************************************)
EXTENDS UsageIngest

CONSTANTS Readers,      \* clients looping over GET /usage
          ReaderKey,    \* the credential of every reader
          Limit,        \* the `limit` they ask for
          MaxReads      \* bound on the pages a client takes

ASSUME KeyUsageAssumption ==
    /\ ReaderKey \in [Readers -> Keys]
    /\ Limit \in Nat \ {0}
    /\ MaxReads \in Nat

VARIABLES
    stage,      \* where the read of a reader is
    found,      \* the rows its first SELECT returned
    seen,       \* history: the rows that were stored then
    since,      \* the cursor the reader holds
    delivered,  \* the rows it was given
    served,     \* how many rows it was given
    reads       \* how many pages it took

readVars   == <<stage, found, seen, since, delivered, served, reads>>
ingestVars == <<ledgerVars, dbVars, passVars>>

KeyUsageInit ==
    /\ Init
    /\ stage = [r \in Readers |-> "idle"]
    /\ found = [r \in Readers |-> {}]
    /\ seen = [r \in Readers |-> {}]
    /\ since = [r \in Readers |-> 0]
    /\ delivered = [r \in Readers |-> {}]
    /\ served = [r \in Readers |-> 0]
    /\ reads = [r \in Readers |-> 0]

\* A top-level key reads its tree, a derived key itself.
InScope(r, row) ==
    LET k == ReaderKey[r]
    IN  IF RootOf[k] = k THEN RootOf[row.key] = k ELSE row.key = k

\* The stored rows in the scope of r from an id up.
StoredFrom(r, id) == {row \in StoredRows : InScope(r, row) /\ AtLeast(row, id)}

\* ingestNow: the request arrived, a pass p started after it, and p is over with
\* no failed machine.  (A request that shares a pass with others arrived earlier
\* still; one answered by a partial pass, or by a timeout, moves no client.)
PassIsOver(r, p) ==
    /\ stage[r] = "idle"
    /\ reads[r] < MaxReads
    /\ at[p] = "done"
    /\ complete[p]
    /\ stage' = [stage EXCEPT ![r] = "select"]
    /\ reads' = [reads EXCEPT ![r] = @ + 1]
    /\ UNCHANGED <<ingestVars, found, seen, since, delivered, served>>

\* Broken on purpose: the page starts at the cursor, not past it.
SelectPageFromSince(r) ==
    /\ stage[r] = "select"
    /\ seen' = [seen EXCEPT ![r] = StoredRows]
    /\ \E rs \in FirstRows(StoredFrom(r, usageIDAtLeast(since[r])), Limit) :
          found' = [found EXCEPT ![r] = rs]
    /\ stage' = [stage EXCEPT ![r] = "tail"]
    /\ UNCHANGED <<ingestVars, since, delivered, served, reads>>

\* The page: LIMIT rows from since + 1.
SelectPage(r) ==
    /\ stage[r] = "select"
    /\ seen' = [seen EXCEPT ![r] = StoredRows]
    /\ \E rs \in FirstRows(StoredFrom(r, usageIDAtLeast(since[r] + 1)), Limit) :
          found' = [found EXCEPT ![r] = rs]
    /\ stage' = [stage EXCEPT ![r] = "tail"]
    /\ UNCHANGED <<ingestVars, since, delivered, served, reads>>

\* The rows past the last one that share its cursor, for a full page.  Of these
\* the rows committed since the first SELECT sort on either side of the last one,
\* by their random bits.
LastOf(rs) == {row \in rs : \A q \in rs : AtLeast(row, q)}

Ties(r) ==
    {row \in StoredFrom(r, [ms |-> 0, seq |-> 0]) \ found[r] :
        \E last \in LastOf(found[r]) : cursorOf(row) = cursorOf(last)}

\* Broken on purpose: no second SELECT.
NoTails(r) == {{}}

Tails(r) ==
    IF Cardinality(found[r]) = Limit
    THEN {(Ties(r) \cap seen[r]) \cup new : new \in SUBSET (Ties(r) \ seen[r])}
    ELSE {{}}

IsMaxId(c, rs) ==
    /\ \E row \in rs : cursorOf(row) = c
    /\ \A row \in rs : cursorOf(row) <= c

\* The second SELECT, and the answer: max_id is the last row's cursor.
Answer(r, answer) ==
    /\ delivered' = [delivered EXCEPT ![r] = @ \cup answer]
    /\ served' = [served EXCEPT ![r] = @ + Cardinality(answer)]
    /\ \/ /\ answer = {}
          /\ UNCHANGED since
       \/ \E row \in answer :
            /\ IsMaxId(cursorOf(row), answer)
            /\ since' = [since EXCEPT ![r] = cursorOf(row)]

Respond(r) ==
    /\ stage[r] = "tail"
    /\ \E tail \in Tails(r) : Answer(r, found[r] \cup tail)
    /\ stage' = [stage EXCEPT ![r] = "idle"]
    /\ found' = [found EXCEPT ![r] = {}]
    /\ seen' = [seen EXCEPT ![r] = {}]
    /\ UNCHANGED <<ingestVars, reads>>

ReadStep(r) ==
    \/ \E p \in Passes : PassIsOver(r, p)
    \/ SelectPage(r)
    \/ Respond(r)

KeyUsageNext ==
    \/ Next /\ UNCHANGED readVars
    \/ \E r \in Readers : ReadStep(r)

KeyUsageSpec == KeyUsageInit /\ [][KeyUsageNext]_<<ingestVars, readVars>>

-------------------------------------------------------------------------------
(* Properties *)

\* No row reaches a client twice, though the page takes two SELECTs and passes
\* commit rows between them (routes/usage.ts:247-264); and a row outside its
\* scope never does.
DeliveredOnce ==
    \A r \in Readers :
        /\ served[r] = Cardinality(delivered[r])
        /\ \A row \in delivered[r] : InScope(r, row)

\* A page leaves out no row that was stored when it was read and that the next
\* `since` moves past, rows of other machines with the same cursor included
\* (routes/usage.ts:251-253).
PageIsComplete ==
    [][\A r \in Readers :
          since'[r] # since[r] =>
              \A row \in seen[r] :
                  InScope(r, row) /\ cursorOf(row) \in (since[r] + 1) .. since'[r]
                      => row \in delivered'[r]]_<<ingestVars, readVars>>

\* "a reader's `since` means the same thing on both" (routes/usage.ts:127-129),
\* and on the proxy a later read never finds a row below a cursor already handed
\* out (usage.go:57-60): every row at or below the cursor was delivered.
SinceSkipsNothing ==
    \A r \in Readers : \A row \in rows :
        InScope(r, row) /\ cursorOf(row) <= since[r] => row \in delivered[r]
===============================================================================
