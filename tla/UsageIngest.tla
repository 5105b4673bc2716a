------------------------------ MODULE UsageIngest ------------------------------
(***************************************************************************)
(* The api's poller (api/src/lib/usage-poller.ts): passes over the proxy   *)
(* machines that copy their usage rows into Postgres, price them, and      *)
(* charge the keys' spend, on several api machines at once.  With them run *)
(* the other writers of llm.keys: revocation, budget changes   *)
(* (with the trigger of 20261016150000_budget_reactivation) and the hard   *)
(* delete of a team.                                                       *)
(*                                                                         *)
(* An element of Passes is a poll pass loop: one per api machine, or two   *)
(* for an api machine whose passes overlap.  The Postgres transaction of a *)
(* page is three steps (insert and charge, flip, commit); its statements   *)
(* see committed data (read committed) plus its own, and the row locks it  *)
(* holds make the others wait.                                             *)
(***************************************************************************)
EXTENDS UsageWriter, FiniteSetsExt

CONSTANTS Passes,          \* poll pass loops
          Costs,           \* what a row can cost; 0 stands for unpriced too
          Budgets,         \* budget_usd values
          NoBudget,        \* budget_usd NULL
          PageLimit,       \* PAGE_LIMIT, 5000
          Overlap          \* OVERLAP_MS, 10 s

ASSUME IngestAssumption ==
    /\ Costs \subseteq Nat
    /\ Budgets \subseteq Nat
    /\ NoBudget \notin Nat
    /\ PageLimit \in Nat \ {0}
    /\ Overlap \in Nat

VARIABLES
    \* committed in Postgres
    stored,     \* llm.usage_log: [row, cost]
    spend,      \* llm.key_spend.spent_usd
    status,     \* llm.keys.status; "deleted" for a key that is gone
    budget,     \* llm.keys.budget_usd
    moved,      \* history: the keys whose budget was changed
    \* of a pass
    at,         \* the next step
    todo,       \* machines still to poll
    machine,    \* the machine being polled
    after,      \* cursor: rows with usage_id > after are asked for
    page,       \* rows fetched and not yet committed
    ins,        \* [row, cost] inserted by the open transaction
    flips,      \* keys the open transaction sets to over_budget
    complete,   \* no machine failed in this pass
    due         \* history: the rows written before the pass started on the
                \* machines it was to poll

dbVars   == <<stored, spend, status, budget, moved>>
txVars   == <<page, ins, flips>>
passVars == <<at, todo, machine, after, txVars, complete, due>>
vars     == <<ledgerVars, dbVars, passVars>>

Statuses == {"active", "over_budget", "revoked", "deleted"}
Stages   == {"idle", "next", "fetch", "insert", "flip", "commit", "done"}
Priced   == [row : Row, cost : Costs]

Init ==
    /\ LedgerInit
    /\ stored = {}
    /\ spend = [k \in Keys |-> 0]
    /\ status = [k \in Keys |-> "active"]
    /\ budget \in [Keys -> Budgets \cup {NoBudget}]
    /\ moved = {}
    /\ at = [p \in Passes |-> "idle"]
    /\ todo = [p \in Passes |-> {}]
    /\ machine \in [Passes -> Machines]
    /\ after = [p \in Passes |-> -1]
    /\ page = [p \in Passes |-> {}]
    /\ ins = [p \in Passes |-> {}]
    /\ flips = [p \in Passes |-> {}]
    /\ complete = [p \in Passes |-> TRUE]
    /\ due = [p \in Passes |-> {}]

-------------------------------------------------------------------------------
(* Helpers *)

Exists(k) == status[k] # "deleted"

\* The key of a row and its root, once when they are the same key.
ChargedBy(row) == {row.key, RootOf[row.key]}

StoredRows == {s.row : s \in stored}

\* newestStored: the newest usage_id Postgres has from machine m, "0" if none,
\* and withOverlap: the cursor below every id of the millisecond Overlap before.
StoredOf(m) == {row \in StoredRows : row.machine = m}
Newest(m)   == {row \in StoredOf(m) : \A q \in StoredOf(m) : AtLeast(row, q)}

NoCursor == -1

\* Broken on purpose: resume at the newest stored row.
withoutOverlap(row) == cursorOf(row)

withOverlap(row) ==
    IF row.ms - Overlap > Epoch
    THEN cursorOf([ms |-> row.ms - Overlap, seq |-> 0]) - 1
    ELSE NoCursor

StartOf(m) ==
    IF StoredOf(m) = {} THEN {NoCursor} ELSE {withOverlap(row) : row \in Newest(m)}

\* Broken on purpose: the root of a derived key is not charged.
AddedToKey(charges, k) ==
    MapThenSumSet(LAMBDA s : s.cost, {s \in charges : k = s.row.key})

\* What a transaction adds to spent_usd of key k: rows without a price or at
\* cost zero add nothing, keys that are gone are not charged.
Added(charges, k) ==
    MapThenSumSet(LAMBDA s : s.cost, {s \in charges : k \in ChargedBy(s.row)})

Charged(p) ==
    {k \in Keys : \E s \in ins[p] : s.cost > 0 /\ k \in ChargedBy(s.row)}

\* Row locks of the open transactions of the other passes; broken on purpose
\* when there are none (no unique usage_id, no upsert of the spend).
Others(p)       == Passes \ {p}
NoLocks(p)      == {}
LockedRows(p)   == UNION {{s.row : s \in ins[o]} : o \in Others(p)}
LockedSpends(p) == UNION {Charged(o) : o \in Others(p)}
LockedKeys      == UNION {flips[o] : o \in Passes}

-------------------------------------------------------------------------------
(* A poll pass *)

\* pollAll, once satellites() (lines 82-98) has read the machines the TXT record
\* names.  DNS follows the app with a delay: it may name any of them, or none ...
StartPass(p, named) ==
    /\ at[p] = "idle"
    /\ at' = [at EXCEPT ![p] = "next"]
    /\ todo' = [todo EXCEPT ![p] = named]
    /\ due' = [due EXCEPT ![p] = {row \in rows : row.machine \in named}]
    /\ UNCHANGED <<ledgerVars, dbVars, machine, after, txVars, complete>>

\* ... and when the record cannot be read: the pass fails with "discovery".
DiscoveryFails(p) ==
    /\ at[p] = "idle"
    /\ at' = [at EXCEPT ![p] = "done"]
    /\ complete' = [complete EXCEPT ![p] = FALSE]
    /\ UNCHANGED <<ledgerVars, dbVars, todo, machine, after, txVars, due>>

\* The next machine of the list, from the newest row Postgres has of it.
PollMachine(p, m) ==
    /\ at[p] = "next"
    /\ m \in todo[p]
    /\ todo' = [todo EXCEPT ![p] = @ \ {m}]
    /\ machine' = [machine EXCEPT ![p] = m]
    /\ \E c \in StartOf(m) : after' = [after EXCEPT ![p] = c]
    /\ at' = [at EXCEPT ![p] = "fetch"]
    /\ UNCHANGED <<ledgerVars, dbVars, txVars, complete, due>>

\* GET /usage?after=...&limit=PAGE_LIMIT; an empty page ends the machine.
FetchPage(p) ==
    /\ at[p] = "fetch"
    /\ \E rs \in FirstRows({row \in rows : /\ row.machine = machine[p]
                                           /\ cursorOf(row) > after[p]},
                           PageLimit) :
          /\ page' = [page EXCEPT ![p] = rs]
          /\ \/ /\ rs = {}
                /\ at' = [at EXCEPT ![p] = "next"]
                /\ after' = [after EXCEPT ![p] = NoCursor]
             \/ /\ rs # {}
                /\ at' = [at EXCEPT ![p] = "insert"]
                /\ UNCHANGED after
    /\ UNCHANGED <<ledgerVars, dbVars, todo, machine, ins, flips, complete, due>>

\* Broken on purpose: rows of a key that is gone are not left out, so the INSERT
\* fails on its foreign key.
InsertRowsOfAll(p) ==
    /\ at[p] = "insert"
    /\ page[p] \cap LockedRows(p) = {}
    /\ \A row \in page[p] : Exists(row.key)
    /\ \E price \in [page[p] -> Costs] :
          ins' = [ins EXCEPT ![p] = {[row |-> row, cost |-> price[row]] :
                                        row \in page[p] \ StoredRows}]
    /\ Charged(p)' \cap LockedSpends(p) = {}
    /\ at' = [at EXCEPT ![p] = "flip"]
    /\ UNCHANGED <<ledgerVars, dbVars, todo, machine, after, page, flips,
                   complete, due>>

\* BEGIN, INSERT ... ON CONFLICT DO NOTHING and the upsert of key_spend.  Rows
\* of keys that are gone are left out.  A row another transaction is inserting,
\* or a spend another is adding to, makes this one wait for its commit.
InsertRows(p) ==
    /\ at[p] = "insert"
    /\ page[p] \cap LockedRows(p) = {}
    /\ \E price \in [page[p] -> Costs] :
          ins' = [ins EXCEPT ![p] =
                    {[row |-> row, cost |-> price[row]] :
                        row \in {q \in page[p] : /\ q \notin StoredRows
                                                 /\ Exists(q.key)}}]
    /\ Charged(p)' \cap LockedSpends(p) = {}
    /\ at' = [at EXCEPT ![p] = "flip"]
    /\ UNCHANGED <<ledgerVars, dbVars, todo, machine, after, page, flips,
                   complete, due>>

\* Broken on purpose: only a spend past the budget flips a key, or the flip looks
\* at the spend alone.
FlipPastBudget(p) ==
    /\ at[p] = "flip"
    /\ flips' = [flips EXCEPT ![p] =
                   {k \in Charged(p) :
                      /\ status[k] = "active"
                      /\ budget[k] # NoBudget
                      /\ spend[k] + Added(ins[p], k) > budget[k]}]
    /\ at' = [at EXCEPT ![p] = "commit"]
    /\ UNCHANGED <<ledgerVars, dbVars, todo, machine, after, page, ins,
                   complete, due>>

FlipAnyKey(p) ==
    /\ at[p] = "flip"
    /\ flips' = [flips EXCEPT ![p] =
                   {k \in Charged(p) :
                      /\ budget[k] # NoBudget
                      /\ spend[k] + Added(ins[p], k) >= budget[k]}]
    /\ at' = [at EXCEPT ![p] = "commit"]
    /\ UNCHANGED <<ledgerVars, dbVars, todo, machine, after, page, ins,
                   complete, due>>

\* The UPDATE that sets charged keys at or past their budget to over_budget.
FlipKeys(p) ==
    /\ at[p] = "flip"
    /\ flips' = [flips EXCEPT ![p] =
                   {k \in Charged(p) :
                      /\ status[k] = "active"
                      /\ budget[k] # NoBudget
                      /\ spend[k] + Added(ins[p], k) >= budget[k]}]
    /\ at' = [at EXCEPT ![p] = "commit"]
    /\ UNCHANGED <<ledgerVars, dbVars, todo, machine, after, page, ins,
                   complete, due>>

\* COMMIT; then the cursor moves past the page, and a short page ends the
\* machine.
Commit(p) ==
    /\ at[p] = "commit"
    /\ stored' = stored \cup ins[p]
    /\ spend' = [k \in Keys |->
                   spend[k] + IF Exists(k) THEN Added(ins[p], k) ELSE 0]
    /\ status' = [k \in Keys |->
                    IF k \in flips[p] THEN "over_budget" ELSE status[k]]
    /\ \/ /\ Cardinality(page[p]) < PageLimit
          /\ at' = [at EXCEPT ![p] = "next"]
          /\ after' = [after EXCEPT ![p] = NoCursor]
       \/ /\ Cardinality(page[p]) = PageLimit
          /\ at' = [at EXCEPT ![p] = "fetch"]
          /\ \E last \in page[p] :
                /\ \A row \in page[p] : AtLeast(last, row)
                /\ after' = [after EXCEPT ![p] = cursorOf(last)]
    /\ page' = [page EXCEPT ![p] = {}]
    /\ ins' = [ins EXCEPT ![p] = {}]
    /\ flips' = [flips EXCEPT ![p] = {}]
    /\ UNCHANGED <<ledgerVars, budget, moved, todo, machine, complete, due>>

\* Broken on purpose: the rows are kept without their charge, or the failure is
\* not reported.
FailsKeepingRows(p) ==
    /\ at[p] \in {"fetch", "insert", "flip", "commit"}
    /\ stored' = stored \cup ins[p]
    /\ complete' = [complete EXCEPT ![p] = FALSE]
    /\ at' = [at EXCEPT ![p] = "next"]
    /\ after' = [after EXCEPT ![p] = NoCursor]
    /\ page' = [page EXCEPT ![p] = {}]
    /\ ins' = [ins EXCEPT ![p] = {}]
    /\ flips' = [flips EXCEPT ![p] = {}]
    /\ UNCHANGED <<ledgerVars, spend, status, budget, moved, todo, machine, due>>

FailsSilently(p) ==
    /\ at[p] \in {"fetch", "insert", "flip", "commit"}
    /\ at' = [at EXCEPT ![p] = "next"]
    /\ after' = [after EXCEPT ![p] = NoCursor]
    /\ page' = [page EXCEPT ![p] = {}]
    /\ ins' = [ins EXCEPT ![p] = {}]
    /\ flips' = [flips EXCEPT ![p] = {}]
    /\ UNCHANGED <<ledgerVars, dbVars, todo, machine, complete, due>>

\* pollOnce throws: no answer within 30 s, a non-2xx, a database error, or a
\* transaction Postgres aborts (a deadlock, a key deleted under it).  The
\* transaction is rolled back and the pass goes on with the next machine.
MachineFails(p) ==
    /\ at[p] \in {"fetch", "insert", "flip", "commit"}
    /\ complete' = [complete EXCEPT ![p] = FALSE]
    /\ at' = [at EXCEPT ![p] = "next"]
    /\ after' = [after EXCEPT ![p] = NoCursor]
    /\ page' = [page EXCEPT ![p] = {}]
    /\ ins' = [ins EXCEPT ![p] = {}]
    /\ flips' = [flips EXCEPT ![p] = {}]
    /\ UNCHANGED <<ledgerVars, dbVars, todo, machine, due>>

AllPolled(p) ==
    /\ at[p] = "next"
    /\ todo[p] = {}
    /\ at' = [at EXCEPT ![p] = "done"]
    /\ UNCHANGED <<ledgerVars, dbVars, todo, machine, after, txVars, complete,
                   due>>

EndPass(p) ==
    /\ at[p] = "done"
    /\ at' = [at EXCEPT ![p] = "idle"]
    /\ complete' = [complete EXCEPT ![p] = TRUE]
    /\ due' = [due EXCEPT ![p] = {}]
    /\ UNCHANGED <<ledgerVars, dbVars, todo, machine, after, txVars>>

\* The api process dies: its transaction is rolled back, its pass forgotten.
ApiRestart(p) ==
    /\ at[p] # "idle"
    /\ at' = [at EXCEPT ![p] = "idle"]
    /\ todo' = [todo EXCEPT ![p] = {}]
    /\ after' = [after EXCEPT ![p] = NoCursor]
    /\ page' = [page EXCEPT ![p] = {}]
    /\ ins' = [ins EXCEPT ![p] = {}]
    /\ flips' = [flips EXCEPT ![p] = {}]
    /\ complete' = [complete EXCEPT ![p] = TRUE]
    /\ due' = [due EXCEPT ![p] = {}]
    /\ UNCHANGED <<ledgerVars, dbVars, machine>>

-------------------------------------------------------------------------------
(* The other writers of llm.keys *)

\* id = k OR root_key_id = k
Subtree(k) == {c \in Keys : c = k \/ RootOf[c] = k}

Revoke(k) ==
    /\ \E c \in Subtree(k) : Exists(c)
    /\ Subtree(k) \cap LockedKeys = {}
    /\ status' = [c \in Keys |->
                    IF c \in Subtree(k) /\ Exists(c) THEN "revoked" ELSE status[c]]
    /\ UNCHANGED <<ledgerVars, stored, spend, budget, moved, passVars>>

\* Broken on purpose: no trigger.
SetBudgetOnly(k, b) ==
    /\ Exists(k)
    /\ b # budget[k]
    /\ k \notin LockedKeys
    /\ budget' = [budget EXCEPT ![k] = b]
    /\ moved' = moved \cup {k}
    /\ UNCHANGED <<ledgerVars, stored, spend, status, passVars>>

\* UPDATE budget_usd, with the trigger: an over_budget key whose committed
\* spend is below the new budget is active again. No page of the API writes
\* budget_usd: the UPDATE is an operator's, the case the trigger is there for.
SetBudget(k, b) ==
    /\ Exists(k)
    /\ b # budget[k]
    /\ k \notin LockedKeys
    /\ budget' = [budget EXCEPT ![k] = b]
    /\ moved' = moved \cup {k}
    /\ status' = [status EXCEPT ![k] =
                    IF @ = "over_budget" /\ (b = NoBudget \/ spend[k] < b)
                    THEN "active" ELSE @]
    /\ UNCHANGED <<ledgerVars, stored, spend, passVars>>

\* A team is deleted: its keys go with it, unless a usage row refers to one
\* (usage_log.key_id has no ON DELETE) or an open transaction is inserting one.
DeleteTree(k) ==
    /\ Exists(k)
    /\ RootOf[k] = k
    /\ \A s \in stored \cup UNION {ins[p] : p \in Passes} :
          s.row.key \notin Subtree(k)
    /\ Subtree(k) \cap LockedKeys = {}
    /\ status' = [c \in Keys |->
                    IF c \in Subtree(k) THEN "deleted" ELSE status[c]]
    /\ UNCHANGED <<ledgerVars, stored, spend, budget, moved, passVars>>

-------------------------------------------------------------------------------
ProxyStep ==
    /\ Write \/ \E m \in Machines : RestartProxy(m)
    /\ UNCHANGED <<dbVars, passVars>>

PassStep(p) ==
    \/ \E named \in SUBSET Machines : StartPass(p, named)
    \/ DiscoveryFails(p)
    \/ \E m \in Machines : PollMachine(p, m)
    \/ FetchPage(p)
    \/ InsertRows(p)
    \/ FlipKeys(p)
    \/ Commit(p)
    \/ MachineFails(p)
    \/ AllPolled(p)
    \/ EndPass(p)
    \/ ApiRestart(p)

KeyStep(k) ==
    \/ Revoke(k)
    \/ \E b \in Budgets \cup {NoBudget} : SetBudget(k, b)
    \/ DeleteTree(k)

Next ==
    \/ ProxyStep
    \/ \E p \in Passes : PassStep(p)
    \/ \E k \in Keys : KeyStep(k)

Spec == Init /\ [][Next]_vars

\* setInterval starts passes for ever, restarts included; the TXT record names
\* every machine again and again, and every step of polling a machine that is
\* tried again and again succeeds again and again.
Fairness ==
    \A p \in Passes :
        /\ WF_vars(AllPolled(p))
        /\ WF_vars(EndPass(p))
        /\ \A m \in Machines :
              /\ SF_vars(\E named \in SUBSET Machines :
                            m \in named /\ StartPass(p, named))
              /\ SF_vars(PollMachine(p, m))
              /\ SF_vars(machine[p] = m /\ FetchPage(p))
              /\ SF_vars(machine[p] = m /\ InsertRows(p))
              /\ SF_vars(machine[p] = m /\ FlipKeys(p))
              /\ SF_vars(machine[p] = m /\ Commit(p))

FairSpec == Spec /\ Fairness

-------------------------------------------------------------------------------
(* Properties *)

TypeOK ==
    /\ LedgerTypeOK
    /\ stored \in SUBSET Priced
    /\ spend \in [Keys -> Nat]
    /\ status \in [Keys -> Statuses]
    /\ budget \in [Keys -> Budgets \cup {NoBudget}]
    /\ moved \in SUBSET Keys
    /\ at \in [Passes -> Stages]
    /\ todo \in [Passes -> SUBSET Machines]
    /\ machine \in [Passes -> Machines]
    /\ after \in [Passes -> Int]
    /\ page \in [Passes -> SUBSET rows]
    /\ ins \in [Passes -> SUBSET Priced]
    /\ flips \in [Passes -> SUBSET Keys]
    /\ complete \in [Passes -> BOOLEAN]
    /\ due \in [Passes -> SUBSET rows]

\* Re-polling the overlap, a restart or two api machines polling the same
\* machine never insert a row twice (usage-poller.ts:9-12), so a row has one
\* cost even when two passes price it differently.
RowStoredOnce ==
    \A s, t \in stored : s.row = t.row => s = t

\* The spend of a key is the cost of the stored rows of the key and of the keys
\* derived from it, to the cent, after any mix of concurrent passes, aborted
\* transactions and restarts (usage-poller.ts:23-28, 221-226).
SpendIsStoredCost ==
    \A k \in Keys : spend[k] = Added(stored, k)

\* No row is lost: one that is not in Postgres is still ahead of the cursor the
\* next pass will use (usage-poller.ts:16-19), or its key is gone.
NoRowStranded ==
    \A row \in rows \ StoredRows :
        Exists(row.key) => \A c \in StartOf(row.machine) : cursorOf(row) > c

\* A pass that reports no failed machine stored every row that the machines it
\* polled had written before it started (usage-poller.ts:263-266): the data half
\* of the ingest barrier.  It is no more than that: the rows of a machine the TXT
\* record did not name are not among them, and the pass reports nothing.
CompletePassStoredAll ==
    \A p \in Passes :
        at[p] = "done" /\ complete[p]
            => \A row \in due[p] : Exists(row.key) => row \in StoredRows

\* A key whose budget is left alone never stays active at or past it: the
\* transaction that charges it there also flips it, whichever passes interleave
\* (ADR 0003 section 4, usage-poller.ts:221-226).
BudgetHolds ==
    \A k \in Keys \ moved :
        status[k] = "active" /\ budget[k] # NoBudget /\ spend[k] > 0
            => spend[k] < budget[k]

\* No key is refused with 402 while its spend is below its budget: a raise and a
\* charge in flight, in any order, leave over_budget only on keys that are
\* (20261016150000_budget_reactivation.up.sql:2-9).
NoNeedlessDenial ==
    \A k \in Keys :
        status[k] = "over_budget" => budget[k] # NoBudget /\ spend[k] >= budget[k]

\* Neither a charge nor a budget change revives a revoked key
\* (20261016150000_budget_reactivation.up.sql:6-7, usage-poller.ts:256).
RevokedIsFinal ==
    [][\A k \in Keys : status[k] = "revoked"
          => status'[k] \in {"revoked", "deleted"}]_vars

\* Every row a proxy wrote reaches Postgres, unless its key is gone, through
\* failing machines, aborted transactions and restarts on both sides, and though
\* the key of a row next to it is gone (usage-poller.ts:201).
Pending == {row \in rows : Exists(row.key) /\ row \notin StoredRows}

AllRowsIngested == []<>(Pending = {})

\* What all of the above is for: seen from outside, rows are metered one by one,
\* and some of them are billed in one step, each once, at one price, to its key
\* and the key's root and to nobody else (usage-poller.ts:9-28, ADR 0003
\* sections 3 and 4), or keys that paid nothing for a row of theirs go.  Every
\* step of a pass but its Commit is invisible.
Bill == INSTANCE Billing WITH
    Payers <- Keys, PaidBy <- ChargedBy, Amounts <- Costs,
    written <- rows, billed <- stored, balance <- spend,
    gone <- {k \in Keys : status[k] = "deleted"}

ImplementsBilling == Bill!BillingSpec
===============================================================================
