# Verification of the kamu LLM gateway

TLA+ models of the gateway's accounting and key-control paths, TLC runs over
small instances of them, and TLAPS proofs of their safety properties for every
value of the constants. Paths are relative to the repository; line numbers refer to the commit the modules were
written from. `PROJECT.json` maps every definition to its source lines.

    tlc -workers 2 -config MC_UsageLedger.cfg MC_UsageLedger   # one run
    tlapm UsageLedgerProofs.tla                                # the proofs

## 1. The system

Two programs and a database. The **proxy** (Go, `proxy/`) runs on several
machines; it verifies a credential, forwards the request to a model provider,
streams the answer back and meters it into a SQLite file on the machine's own
volume. The **api** (Deno, `api/`) mints keys, polls the proxies' ledgers into
Postgres, prices the rows and charges the keys. The **admin** app
(`admin/`) is server-rendered pages over the same Postgres (`database/`).

| Component | State it keeps | Operations | What makes it correct |
|---|---|---|---|
| Ledger writer, `proxy/ledger.go` | SQLite `usage_log`; `lastMs`, `seq` in memory | `uuidv7`, `recordUsage`, `usageFloor`, restart | ids of a machine only grow; a floor is never undercut |
| Merged usage, `proxy/usage.go` | per request: answers, floors; at the client: `since` | `localPage`, `fetchSibling`, `mergedPage`, `usage` | no row skipped or repeated for a client following `max_id` |
| Poller, `api/src/lib/usage-poller.ts` | Postgres `usage_log`, `key_spend`, `keys.status` | `pollAll`, `pollOnce`, `chargeSpend` | each row stored and charged once; budgets flip keys; nothing stranded |
| Budget trigger, revocation, team delete | `keys.status`, `keys.budget_usd` | the trigger, `UPDATE`, `DELETE` | no revival of a revoked key, no 402 below budget |
| Ingest barrier, `usage-poller.ts` + `routes/usage.ts` | `running`, `queued` | tick, `ingestNow`, bounded wait | unflagged answers are fresh; no lost waiter, also when passes overlap |
| Key-holder usage, `api/src/routes/usage.ts` | client's `since` | page and tail SELECTs | pages complete and without repeats |
| Key cache, `proxy/keymeta.go`, `auth.go` | two maps with expiry | `lookup`, `toCached`, `toCredential` | a verdict is at most a TTL (and a read) old |
| Derivation, `api/src/routes/keys.ts` | child rows, advisory lock | `POST /keys/derive`, revoke | rate and active-children limits under concurrency |
| Minting, revoking, key pages, `routes/keys.ts`, admin `keys.tsx` | `llm.keys` | `POST /keys`, revoke, detail, the admin's own | a derived key has its root; what is shown and revoked follows membership |
| Login and team sync, `middleware/auth.ts`, `lib/kamuid-sync.ts` | `team_members`; a token cache in memory | `reconcileTeams`, `ensureTeams`, cached pass | memberships are recent; a claim is visible |
| Prices, `lib/pricing.ts`, `internal.ts`, admin `prices.tsx` | `llm.model_prices`; a 30 s copy in memory | load, reload, clear, sync, add | a row is charged the price in effect; a sync adds what changed |
| Forwarding, `proxy/proxy.go`, `cost.go` | per request: copy of the body; a metering goroutine | authorize, forward, stream, meter | what arrived is metered once; a cut answer looks cut |
| Error reporter, `proxy/kamustatus.go` | buffer, timer, window | `report`, `flush` | each error sent once, none stuck |
| Migration runner, `database/migrate.ts` | `schema_migrations`, the schema | `up`, `down`, `reset` | a file applied if and only if recorded |
| Catalog, admin pages, configuration | static data, single statements | | left to tests |

How they interact:

- A machine answers `GET /usage` by calling its **siblings'** `/usage/local`
  over HTTP, concurrently, with a 2 s time-out; a machine that fails is left
  out and named in `X-Usage-Partial`. Nothing is shared but the cursor format.
- The api **pulls**: a pass asks each machine for rows `> after`, in pages, and
  commits each page in one transaction. The proxy is never told what was taken.
- `keys.status` is the shared state: written by charges, by the trigger, by
  revocation and by derivation; read by the proxy through its cache.
- `llm.model_prices` is append-only, written by the admin app and by the internal
  API; each api machine charges from its own copy. `team_members` is written by
  every request that syncs, and read by row level security in all of them.
- The api's `GET /usage` waits on a **promise** of a pass that starts after it
  arrived, then runs two SELECTs outside any transaction.

What is hard about it: clocks that differ between machines and step back across
restarts, while ids and cursors are made of clock readings; answers that miss
machines; a pass, a request, a charge and a revocation interleaving statement by
statement under read committed; a process dying between any two of them; state
checked before an `await` and used after it. The list, each at its line, is
`hazards` in `PROJECT.json`.

## 2. The modules

| Module | Models | EXTENDS |
|---|---|---|
| `UsageIds` | id generator, cursor arithmetic (pure) | |
| `UsageWriter` | ledgers, clocks, restarts: the shared writing side | `UsageIds` |
| `UsageLedger` | key holder's merged page over the machines | `UsageWriter` |
| `UsageIngest` | poll passes, charges, other writers of `llm.keys` | `UsageWriter` |
| `KeyUsage` | key holder's page at the api, over a live poller | `UsageIngest` |
| `Billing` | abstract: rows are metered, then billed once | |
| `IngestBarrier` | `running`/`queued` and the bounded wait | |
| `KeyCache` | verification through the metadata cache | |
| `KeyDerive` | derive requests against the other writers | |
| `TeamKeys` | a user's claims, memberships and keys, one statement at a time | |
| `PriceTable` | price rows, the copy in memory, sync and Prices page | |
| `Forwarding` | a request through a proxy machine, and its metering | |
| `StatusReporter` | the error reporter's buffer, timer and limit | |
| `Migrations` | migration runners on one database | |
| `UsageIdsProofs`, `UsageWriterProofs` | lemmas about ids and ledgers, for all the proofs below | |
| `UsageLedgerProofs` | theorems about `UsageLedger` | `UsageWriterProofs` |
| `UsageIngestProofs` | theorems about `UsageIngest`: storing, charging, key status, `Billing` | `UsageWriterProofs` |
| `UsagePassProofs` | theorems about what a pass leaves behind | `UsageIngestProofs` |
| `KeyUsageProofs` | theorems about `KeyUsage` | `UsagePassProofs` |
| `ServicesProofs` | theorems about the five modules of `MC_Services` | `MC_Services` |
| `KeysProofs` | theorems about the three modules of `MC_Keys` | `MC_Keys` |
| `MC_*` | instances for TLC | |

`UsageWriter` is composed with each of its two readers rather than copied: the
guarantees it makes to them (ids grow, floors hold) are proved once.
`IngestBarrier` says *which* pass answers a request and `UsageIngest` what a pass
has stored when it ends without a failed machine; `CompletePassStoredAll` is the
statement that joins them, in prose: "covers" in the barrier is the rows written
before the pass started on the machines DNS named to it, and no others.

`KeyCache`, `KeyDerive` and `TeamKeys` share no state in the models, as each
has the writers of the others as actions of its own; so do the five modules of
`MC_Services`. `MC_Keys` and `MC_Services` check such modules in one run: one
part moves, from the initial state of the others, so the states of the run are
the sum of theirs and not their product. The modules' own `Init`, `Next` and
`Spec` are unaffected.

Operators under a comment "Broken on purpose" are variants of the definition
after them in which a plausible mistake was made. No specification uses them;
each property is known to fail when its variant replaces the definition.

### UsageIds, UsageWriter

`Generator` is the pair `lastMs`, `seq` of `Ledger`. `uuidv7` takes the clock or,
when it has not advanced, counts, carrying into the next millisecond past `MaxSeq`
(4095 in the code). An id is `[ms, seq]` with random bits `rnd` in the row; ids
are ordered by `ms`, then `seq`. `cursorOf` and `usageIDAtLeast` are the integer
conversions of `usage.go:123-138`. `time.Now()` is *any* instant of `Times` at
any call; only a restarted process is tied to the past, and by no more than
`MaxStepBack`: its clock reads past `lastMs - MaxStepBack` of the process before.
`RecordUsageFails` is an INSERT that fails after the id was made.

### UsageLedger

A read is: `StartRead` (a request reaches a machine) → `TakeFloor` and
`SelectRows` there (`localPage`; two steps, since `idMu` is released in
between) → `AskSiblings` (any set, as DNS may lag) → floor, rows or failure at
each sibling, in any order → `Respond`. The client loops with `since = max_id`.
`passed` records the machines missing from a page the client moved past: those
`X-Usage-Partial` names, which did not answer, and those DNS did not name, of
which the client is told nothing. `given` is history: the highest floor each
machine ever handed out, to whichever read, whether or not the read came to use
it. `FloorsHold` compares every new row with it. A restart kills the reads a machine serves and fails
it as a sibling. The `key_id`, `jti` and `name` filters narrow the scope further
and totals are computed apart; both are left out.

### UsageIngest

An element of `Passes` is a loop of passes: one per api machine. A page's
transaction is `InsertRows` (insert, charge), `FlipKeys`, `Commit`; until
`Commit` nothing of it is visible, and another transaction waits where Postgres
would make it (`LockedRows`, `LockedSpends`, `LockedKeys`). `MachineFails` is any
throw of `pollOnce`, `ApiRestart` a crash at any step. `StartPass` takes the machines
the TXT record names, which may be any, as DNS follows the app with a delay; what
the pass owes (`due`) are the rows of those. The price of a row is a
nondeterministic choice of a cost, per pass: two passes may price it
differently. `SetBudget` is the UPDATE that fires the reactivation trigger; no
page writes `budget_usd`, so it is an operator's. The other writers are single
statements. `due` and `moved` are history variables.

`Billing` is what all of this is for: rows are metered one by one, and some of
them billed in one step, each once, at one price, to its key and the key's root
and to nobody else. `ImplementsBilling` maps `written` to the ledgers' rows,
`billed` to `stored`, `balance` to `spend`; every step of a pass but `Commit`
stutters, a restart or an abort never takes a bill back.

### IngestBarrier, KeyUsage, KeyCache, KeyDerive

- `IngestBarrier`: a pass promise is an element of `PassIds`, reused once it has
  settled and `queued` no longer holds it. `PassEnds` is the settlement with its
  `finally`; the `then` of `queued` is `QueuedStarts`, a step of its own, some
  microtasks later. In between (`CallbackPending`) a request may call
  `ingestNow()`, as it does so in the continuation of an `await`; a timer, which is
  a task, comes before or after, and a pass that was started in between cannot end
  yet. A pass that starts covers the rows written by then.
- `KeyUsage`: the client pages only on answers that are not flagged, as the
  route's comment advises. `SelectPage` and `Respond` are the two SELECTs. Rows
  committed in between may land on either side of the page's last row, by their
  random bits; `Tails` allows each. The run `key_usage_skip` (`MC_NamedSpec`) has
  every pass name every machine, so that what it shows is not the DNS.
- `KeyCache`: `Hit`, `Miss`, `ReadRow`, `Store` split a lookup where the mutex is
  released and where Postgres reads the row. `byHash` and `byID` are separate
  maps, cleared when past their cap. Time passes only while a row is read, at most
  `MaxRead` per read. `left` records when a key last left a status.
- `KeyDerive`: `ReadParent` is outside the transaction, `Begin` fixes its `now()`,
  `TakeLock` may come later, `Count` and `Refuse` are the limits. `child[c].raised`
  is history.

### TeamKeys

One user of the dashboard. A request is `Arrives` in one of four ways (a browser
token that is cached or not, an access key, a session of the admin app), then
`Upsert` per organisation of its claim, `DropStale`, `CacheToken` for a browser,
or `Ensured` for an access key, which deletes nothing; `SyncFails` at any
statement, and the request goes on, as `auth.ts:170` swallows the error. Then
it mints (`UserMints` or `AdminMints`, `SetRoot`, `Reply`: three awaits), revokes
(`FindsKey`, `Revoke`; the admin app at once), opens a key's page (`FindsDetail`,
`SumsTotals`), or ends anywhere, which is also a crash of its handler. `Derived`
is what `KeyDerive` does to a key whose secret was handed out. A membership has
an age and a cached token a life, in place of a clock; a request takes at most
`MaxCall`, an assumption, as a query has no time-out. The claim is any set of
teams the identity provider could sign.

### PriceTable

Rows are in commit order with the instant they were made; a table is the row
numbers by `valid_from`. Rows with one `valid_from` may come in any order from the
api's query and by `created_at` from the admin's. `client["pass"]` is the poller's
page, which takes the table in memory or waits for a reload; `client["sync"]`
reads, decides, inserts and clears, an await apart each. `raced` is history: a
clear while the table was being loaded. Rates are in halves of the column's
precision, so that rounding is a step that loses something.

### Forwarding, StatusReporter

`Forwarding` counts chunks: `read`, `kept` and `got` are how much of the body the
proxy read, kept for metering and got to the client. `StreamBreaks` is either
upstream's or the client's doing; in both, what was kept is metered by a
goroutine, and only a client that is still there sees the connection cut.
That a request's context is cancelled and that its client left are one thing in
the model. `extractUsageFromSSE` takes the input of the last event that has one and the
largest output. In `StatusReporter` `flushes` counts the calls of `flush()` that
were caused but do not have the lock yet, by a full buffer or by a timer that
has fired; `timer` is then still set, and a report in between arms no other.

### Migrations

A runner has a directory of its own, as deploys of different age do, and takes
one statement at a time: `EnsureTable`, `ReadApplied`, `Verify` against hashes,
`Backfill`, `ListPending`, `Apply` (a file and its row, one transaction), or
`RollBack`, or `DropLlm` and `DropTracking`. `Leaves` is its end, or its death at
any of them. `torn` and `alone` are history: what a reset took apart, and
whether another runner rolled back meanwhile.

## 3. The runs

| Run | Checks | Bounds | Result |
|---|---|---|---|
| `ledger` | `TypeOK`, `NoRowSkipped`, `DeliveredOnce`, `FloorsHold`, `IdsGrow`, `ReaderCatchesUp` | 2 machines, a derived key's reader, pages of 1, 2 rows, 2 instants, counter of 2 | holds |
| `ledger_clock` | `NoRowSkipped` when a restart may step back | 1 machine, 2 rows, 4 instants, `MaxStepBack` = 2, no two ids of an instant | **violated** |
| `ingest` | `TypeOK`, `RowStoredOnce`, `SpendIsStoredCost`, `BudgetHolds`, `NoNeedlessDenial`, `RevokedIsFinal`, `ImplementsBilling` | 2 passes, a key and its child, 2 rows, costs 0/1, budget 2 or none | holds |
| `ingest_machines` | `BudgetHolds`, `CompletePassStoredAll` | 2 passes, 2 machines, one key, 2 rows of cost 1, budget 2 or none | holds |
| `ingest_clock` | `NoRowStranded`, `AllRowsIngested` | a key and its child, step back 2 within an overlap of 2, 6 instants, 2 rows | holds |
| `services` | `ServicesTypesOK`; barrier: `FreshOrFlagged`, `WaitsForLivePass`, `EveryReaderAnswered`; prices: `ChargedInEffect`, `SyncedAtOnce`, `SyncRepeatsNothing`; migrations: `SchemaIsRecorded`, `UpLeavesAll`; proxy: `CleanEndIsWhole`, `WhatArrivedIsMetered`, `ErrorsOnTheirWay` | 2 readers, 3 promises; 2 price rows, 4 instants, TTL 1; 2 runners, 2 files, 3 directories; 2 requests, bodies of up to 3 chunks; 4 errors, buffer of 2, 3 a minute | holds |
| `keys` | `KeysTypesOK`; cache: `AllowIsFresh`, `RefusalIsFresh`; derive: `CapHolds`, `RateHolds`; teams: `SeesRecentClaims`, `ClaimIsVisible`, `DerivedKeyHasRoot` | 2 lookups, TTL 1, 4 instants, 2 changes, cap 1; 2 derives, 3 children, rate 2 per 2 time units, cap 1; 2 requests, 2 teams, 1 token, 2 keys | holds |
| `derive_revoke` | `RevokeReachesSubtree` | 2 derives, 3 children | **violated** |
| `key_usage` | `DeliveredOnce`, `PageIsComplete` | 2 machines, 1 pass, 2 rows that may share a cursor | holds |
| `key_usage_skip` | `SinceSkipsNothing` | 2 machines, each named to every pass, 3 rows, 2 pages | **violated** |
| `price_ties` | `ShownIsCharged` | 2 rows of one `valid_from` | **violated** |
| `barrier_overlap` | `OnePassAtATime` | 2 readers, 2 promises | **violated** |

Why the bounds are enough:

- `MaxSeq = 1` wraps the counter after two ids of a millisecond, so ids run ahead
  of the clock in a few steps. `Epoch = 1` keeps the cursors small.
- Skipping or repeating a row takes one row handed out and one that comes late,
  from two machines or one; two rows, two machines and pages of one row reach
  every such order, cursor ties included. For more, `SkipsNoRow` and
  `DeliversOnce` are theorems.
- `PageLimit` = 2 in `ingest` makes a full page a case of its own. `ingest_clock`
  keeps `PageLimit` above the rows of the overlap (see section 6); two keys let one
  be deleted while its row is in a page with a row of the other.
- Charging is per key and its root: a top-level key and one child are the two
  kinds. Two transactions are enough for the lost flip and the double insert. A
  budget of 2 with costs of 1 needs two charges. On one machine two passes that
  charge at once share a row, and wait for it; only with two machines
  (`ingest_machines`) do they charge one key from disjoint rows, where the lock on
  the spend is what keeps the flip right.
- For the barrier, a pass that ends and the one that starts behind it need two
  promises; the third is the pass a request starts between the two.
- For the cache, a TTL of 1 and 4 instants let an entry expire and be refilled;
  two changes are a flip and a raise, or either and a revocation.
- For derives, the third child is the one past each limit. The window of 2 time
  units makes the wait between `Begin` and `TakeLock` as long as a window.
- For teams, two requests of one user with different claims are the race; the
  third would only repeat it. `KeysInOneTeam` keeps the syncs of two teams and
  the life of keys apart: once a key exists, claims and memberships are of its
  team. A key's row never depends on another team's membership.
- For prices, two rows are the one in effect and its successor; 4 instants with a
  TTL and a load of 1 let a table be one TTL and one load old, and a row be
  made meanwhile.
- For migrations, the directories are an older deploy, a newer one and one
  with edited files; file 1 may have been applied before hashes were kept.
- For streams, the bodies are one that counts as it goes, one that reports at the
  end, one that parses as a whole, a call billed without tokens, and an error.
- For the reporter, a buffer of 2 and 3 a minute make the fourth error find the
  buffer just flushed, being flushed, or the limit reached.

Symmetry is declared only in runs without liveness properties. `CHECK_DEADLOCK`
is left on everywhere.

### What each passing property excludes

- `NoRowSkipped`, `FloorsHold`: a row under a cursor handed out, because a floor was
  too high, not applied, or not remembered by the generator; the floor of a read
  that failed, timed out or was answered long ago included.
- `DeliveredOnce`: a row in two pages. Pages of several machines with the same
  cursor are never cut in between.
- `ReaderCatchesUp`: a machine without traffic holding every reader back.
- `RowStoredOnce`, `SpendIsStoredCost`: a row stored or charged twice, or one of
  the two without the other, by overlapping passes, aborts and crashes.
- `ImplementsBilling`: a charge to a key that does not pay for the row, one in
  another step than the row's, or one taken back.
- `BudgetHolds`: two charges that together pass a budget and leave the key
  active. Only keys whose budget was left alone (section 6).
- `NoNeedlessDenial`: a raise and a charge crossing so that a key stays over_budget
  below its budget.
- `NoRowStranded`, `CompletePassStoredAll`, `AllRowsIngested`: a row behind the
  poller's cursor; a pass called complete that missed one of a machine it was given;
  a row that never arrives, also because a page stalls on a key deleted meanwhile.
- `FreshOrFlagged`: a request answered by a pass that began before it.
- `WaitsForLivePass`: with passes that overlap, a pass that ends and clears the
  `running` of another, after which a queue hangs on a pass that `running` has
  forgotten; a `running` that stays set on a pass that is over, and skips all ticks.
- `AllowIsFresh`, `RefusalIsFresh`: a slow lookup reviving an old row. The bounds are
  `TTL + MaxRead` for the row read last and one `MaxRead` more for a derived
  key's own row, because the root is read after it.
- `CapHolds`, `RateHolds`: concurrent derives passing a limit, revoked children
  freeing the rate.
- `SeesRecentClaims`: a lost membership that outlives a resync, of a token whose
  last sync did not fail. `ClaimIsVisible`: a sync that deletes a team of its own
  claim, or leaves one out. `DerivedKeyHasRoot`: a child of a key that is not yet
  its own root, which revocation and budgets would not reach.
- `ChargedInEffect`: a price older than a TTL and a load, through reloads that
  overtake each other. `SyncedAtOnce`: a clear that comes before the insert, or none at
  all; a reload that was under way at the clear does bring the old table back
  (section 6).
  `SyncRepeatsNothing`: a rate that differs from what is stored of it for ever.
- `SchemaIsRecorded`, `UpLeavesAll`: a file applied twice, half or not at all by
  runners that overlap or die; an `up` that succeeds over an edited file.
- `CleanEndIsWhole`: a truncated answer that looks complete. `WhatArrivedIsMetered`:
  a stream cut by either side that is not billed, billed twice, or billed for
  more than upstream reported.
- `ErrorsOnTheirWay`: an event in two envelopes or in none, a dropped one counted
  twice, a buffered one without timer or flush.
- `PageIsComplete`: a stored row between two cursors of a client that the page
  between them did not have.

## 4. Fairness

- `UsageLedger`: the client keeps looping (weak fairness of `StartRead` and
  `Respond`). Strong fairness of `AskSiblings` for *all* siblings, of `SelectRows`
  and of a floor taken at the latest instant: machines restart, DNS lags and
  siblings time out, but not for ever. The bounded clock's last instant stands
  for "clocks advance"; rows of that instant are left out of `Behind`.
- `UsageIngest`: `setInterval` starts passes for as long as the api runs; what
  may fail at any one attempt (discovery, a fetch, a transaction) is strongly
  fair per machine, what cannot fail is weakly fair. A machine is named by DNS again
  and again; no record need name all of them at once. Nothing is assumed of
  restarts, writes or admin actions.
- `IngestBarrier`: weak fairness of the end of each pass and of the callback on a
  settled promise, and of nothing else: not of the time-out, so `EveryReaderAnswered` says the promise chain itself never
  loses a waiter. A fetch ends by its 30 s time-out. A DNS lookup and a Postgres
  query have none; that they end is an assumption.

## 5. What is proved

TLAPS checks these for every set of machines, keys, readers and passes, every
limit, counter width, epoch, price, budget, time to live and clock bound. Every
safety invariant and every action property of a passing run is among them.

| Module | Theorem | Statement |
|---|---|---|
| `UsageLedgerProofs` | `TypeCorrect`, `DeliversOnce` | `Spec => []TypeOK`, `[]DeliveredOnce` |
| | `SkipsNoRow`, `IdsOnlyGrow`, `FloorsAlwaysHold` | `MaxStepBack = 0 => (Spec => []NoRowSkipped)`, `IdsGrow`, `FloorsHold` |
| `UsageIngestProofs` | `IngestTypeCorrect`, `StoredOnce`, `SpendIsRight` | `Spec => []TypeOK`, `[]RowStoredOnce`, `[]SpendIsStoredCost` |
| | `BudgetIsHeld`, `DenialIsNeeded` | `Spec => []BudgetHolds`, `[]NoNeedlessDenial` |
| | `RevokedStays`, `BillingImplemented` | `Spec => RevokedIsFinal`, `Spec => ImplementsBilling` |
| `UsagePassProofs` | `NothingStranded`, `PassesAreComplete` | `MaxStepBack = 0 => (Spec => []NoRowStranded)`, `[]CompletePassStoredAll` |
| | `OverlapIsEnough` | `MaxStepBack <= Overlap => (Spec /\ []ShortPages => [](NoRowStranded /\ CompletePassStoredAll))` |
| `KeyUsageProofs` | `PagesDeliverOnce`, `PagesAreComplete` | `KeyUsageSpec => []DeliveredOnce`, `PageIsComplete` |
| | `OneMachineSkipsNothing` | `MaxStepBack = 0 /\ OneMachine => (KeyUsageSpec => []SinceSkipsNothing)` |
| `ServicesProofs` | `AnswersAreFresh`, `NobodyWaitsInVain` | `[]FreshOrFlagged`, `[]WaitsForLivePass` |
| | `NoErrorLost` | `[]ErrorsOnTheirWay` |
| | `FilesAreRecorded`, `UpAppliesEveryFile` | `[]SchemaIsRecorded`, `[]UpLeavesAll` |
| | `CleanAnswersAreWhole`, `ArrivedIsMetered` | `[]CleanEndIsWhole`, `StreamsCountUp => (ForwardSpec => []WhatArrivedIsMetered)` |
| | `ChargesAreInEffect`, `SyncedRowsAreUsed`, `SyncAddsNews` | `[]ChargedInEffect`, `[]SyncedAtOnce`, `[]SyncRepeatsNothing` |
| | `ServicesTypeCorrect`, `ServicesKeep`, `ServicesMeter` | `ServicesSpec => []ServicesTypesOK`, and all of the above |
| `KeysProofs` | `RateIsHeld`, `CapIsHeld` | `[]RateHolds`, `[]CapHolds` |
| | `PassesAreFresh`, `RefusalsAreFresh` | `[]AllowIsFresh`, `[]RefusalIsFresh` |
| | `DerivedKeysHaveRoots`, `ClaimsAreVisible`, `ClaimsAreRecent` | `[]DerivedKeyHasRoot`, `[]ClaimIsVisible`, `[]SeesRecentClaims` |
| | `KeysTypeCorrect`, `KeysKeep` | `KeysSpec => []KeysTypesOK`, and all of the above |

The assumptions are those the modules name (`...Assumption`): what the constants
are, that a root is its own root, that no file hashes to the mark of one without a
hash. Some have a hypothesis more:

- `MaxStepBack = 0`: a restarted process reads a clock past the ids of the one
  before. `ledger_clock` shows it cannot be dropped for the merged page.
- `ShortPages`: no machine has `PAGE_LIMIT` rows for the poller at once. With it the
  overlap alone makes up for clocks that step back (section 6 has the
  counterexample without).
- `OneMachine`: `key_usage_skip` shows what a second machine does.
- `StreamsCountUp`: the provider's event streams report input counts that do not
  go down. The code takes the last one, so of a stream that took a count back less
  would be metered than the client had been told.

### The ledger and its readers

1. `UsageIdsProofs`, about integers: the cursor orders ids as their strings do
   (`CursorOrder`) and inverts (`CursorInverse`); `uuidv7` and `floorMoves` never lower
   the lowest id a process can still issue (`UuidStep`, `FloorStep`).
2. `UsageWriterProofs`: `LedgerInv` types the ledgers. `Grows` says of a step
   that a machine's lowest possible id does not fall, and that each new row lies
   between the old and the new one. Every step of the writer grows
   (`RecordGrows`, `FailureGrows`, `FloorGrows`, and `RestartGrows`, which needs
   `MaxStepBack = 0`), so `Written` is inductive: rows of a machine are below what
   it will write, and no two share a cursor. Without that hypothesis `Recent` still
   is: a new row is at most `MaxStepBack` before any row of its machine.
3. `UsageLedgerProofs`: `OnceInv` (what was delivered is at or below `since`; what was
   fetched is above it) gives `DeliveredOnce` with no assumption on clocks.
   `NoRowSkipped` is not inductive: a page in progress may already lack the row.
   `SkipInv` adds what excludes it:
   `FloorsLow` (a floor is at most what the machine will write next), `SinceLow`
   (so is the client's cursor, for machines no page missed), and
   `PagesFull` (a row under its machine's floor that its page lacks has a full page of
   lower rows beneath it, so the merge cuts before reaching it).

### The poller

- *Charging* (`ChargeInv`). `RowStoredOnce` and `SpendIsStoredCost` need that what an
  open transaction inserted is not stored (`OpenOnce`) and that no other holds it
  (`OpenApart`), which the locks keep. A commit adds nothing to a key that is gone:
  that leaves the sum right because such a key has no charges, stored or open
  (`GoneUncharged`), as it goes with its root (`TreesWhole`).
- *Sums.* A fold over a set is a recursive function on its subsets. That it exists,
  and that the order of the elements does not matter, would be an induction; it
  is proved instead from a smallest set for which it fails (`SmallestSet`, by the
  well-foundedness of strict inclusion of finite sets). `AddedToNobody` and its
  neighbours are what the steps need of it.
- *Status* (`StatusInv`). `BudgetHolds` and `NoNeedlessDenial` are not inductive: a
  commit flips what was decided two statements earlier. `FlipsRight` says that the
  decision is still right, as whatever could change the spend, the budget or
  the status of a key in `flips` waits for its lock; and that a key which a
  transaction past its flip takes to its budget is in `flips`. No two open
  transactions charge one key (`OpenApart`), or neither would see the other's part.
- *Billing* maps each commit to one `Bill`, all other steps of a pass to a stutter.
- *Passes* (`BehindInv`). `NoRowStranded` speaks of the next pass; what keeps it true is
  that every pass under way has what waits of its machine ahead of its cursor
  (`CursorBehind`), or in its page, or past it (`PageBehind`), that its transaction
  has what of its page is not stored (`PageInserted`), and that what it owes lies
  with machines it has still to poll (`DueAhead`). `StoredBehind` then relates what
  waits to what is stored. The step that needs a hypothesis is a full page: the
  pass resumes at its last row's own cursor, not at an overlap below.
- *Pages at the api* (`PageInv`). What the first SELECT leaves out shares the cursor
  of the page's last row or is past it, so the second SELECT completes it. With
  one machine `WholeInv` adds that Postgres has the first rows of the machine, and no
  later ones (`StoredBehind`), hence that the first SELECT saw every row up to any
  row it saw (`SeenWhole`).

### The services

- *Barrier.* The promise in `running` polls, though others may too, and while the one
  `queued` is chained to polls it is that one (`BarrierInv`); whatever a reader
  waits for has not ended, and started after the reader came.
- *Reporter.* Envelopes that are posted, being posted or in the buffer share no error;
  a timer that has fired has its flush still to come, so an event that finds the
  timer set may leave the flushing to it.
- *Migrations.* A recorded hash is that of the objects (`HashInv`). Of an up that no
  rollback disturbed: the rows it read are still there, those it verified agree with
  its files, and the files it has no longer to apply are as it has them (`UpInv`),
  whatever other runners apply meanwhile.
- *Forwarding.* `ExchangeInv` counts: `kept` is `read` of a metered body, `got` is `read`
  until the client is gone, rows exist only after the metering goroutine ended,
  and are then those of the chunks kept.
- *Prices.* A table is a permutation of the numbers 1..n of the rows there were
  when it was read, so that it has every row of some age (`ReadSince`), every
  row a clear announced (`HasCleared`) or every row of the sync (`HasSynced`); that a
  list of n different numbers up to n has them all is a pigeonhole argument.
  `SyncRepeatsNothing` needs `AnotherSince` of a sync between its answer and
  its insert, and that rounding twice is rounding once.

### The keys

- *Derive* (`DeriveInv`). One request at most is past `TakeLock`, and what it counted
  is no less when it inserts: in between only statuses leave "active" or are raised,
  and only an insert mints. A window of the clock that holds the new child is
  inside the one that was counted, although its `now()` is older than the lock.
- *Cache* (`CacheInv`). An entry says of the row what held at most `MaxRead` before it was
  stored (`EntryInv`), and so does what a lookup carries from one step to the next
  (`LookupInv`); no entry is read after its expiry.
- *Teams* (`TeamInv`). A key whose secret was handed out is its own root
  (`RootsInv`), so a derived key copies a root that is set. Of every request and
  token, how old the oldest membership may be (`CallInv`, `SessionInv`): it falls
  with each sync and grows with time as the request and the token do.

### What stays with TLC

- Liveness under fairness: `ReaderCatchesUp`, `AllRowsIngested`, `EveryReaderAnswered`.
  The prover has no ENABLED.
- What the runs with a violation show: a counterexample is a behaviour.

The theorems about the parts of `MC_Services` and `MC_Keys` are of the modules' own
specifications. `ServicesKeep`, `ServicesMeter` and `KeysKeep` carry them over to the
compositions the runs check, of which every step is a step or a stutter of each
part (`EachPartRuns`, `EachKeyPartRuns`).

## 6. Findings

Five statements of the repository that its code does not keep; each is a run
whose only property is that statement.

- **A clock that steps back across a restart undercuts floors** (`ledger_clock`).
  `lastMs` and `seq` are in memory only. In the run a machine writes a row, hands out
  its floor and, in a page, its cursor; restarts while its clock reads 1 ms before
  that row; and writes the next row below both. `usageFloor` is documented
  to hold through "a clock stepping back" (`proxy/ledger.go:181`), which is true
  within a process.
- **A revoked parent can get an active child** (`derive_revoke`), when it is revoked
  between `derive`'s check and its INSERT; ADR 0001 line 275. The proxy refuses the
  child all the same, because it looks at the root too.
- **`since` at the api is not `since` at the proxy** (`key_usage_skip`). The api has
  no floor, so a row of a machine polled earlier can arrive under a cursor handed out
  in an answer that was not flagged; `api/src/routes/usage.ts:127-129`. On one
  machine with a clock that does not step back the property is a theorem.
- **The Prices page and ingest may pick different rows** (`price_ties`). Of two rows
  with one `valid_from` the page takes the later (`prices.tsx:50`), the api whichever
  the query returns first (`pricing.ts:61`).
- **Two passes may run at once on one api machine** (`barrier_overlap`). `finally`
  clears `running` some microtasks before the callback of `queued` starts its pass;
  a request that calls `ingestNow()` in between starts one too, against
  `usage-poller.ts:310-312`. `running` then forgets the first, and a tick may start
  another while it still polls. It costs polls and no more: two passes at once are
  what `UsageIngest` checks, and freshness, `WaitsForLivePass` and
  `EveryReaderAnswered` hold.

Seen while modelling, without a run:

- A pass over a TXT record that does not name a machine yet, or names none, returns
  no failed machine, so an answer that misses that machine's rows is not flagged,
  against `usage-poller.ts:305-309` and `routes/usage.ts:131-137`.
  `CompletePassStoredAll` speaks of the machines that were named; the merged page of
  the proxy has the same gap, and `NoRowSkipped` leaves such machines out.
- A price sync clears the table "so this machine's ingest uses the new row at once"
  (`pricing.ts:101-104`). A reload that had read the rows before the insert and
  returns after the clear puts the old table back, for a TTL: `SyncedAtOnce` leaves
  such tables out (`raced`), and `ChargedInEffect` is the bound that holds.
- A `reset` of a local database cannot re-apply: it drops the schemas `llm` and
  `migrations`, since "All kamu-llm-gateway objects live in the `llm` schema"
  (`migrate.ts:234-240`), and the file that creates the tables of `admin_auth` fails
  on those.
- A budget lowered between a charge's flip and its commit leaves a key active
  past it, against ADR 0003 line 78; the next charge to the key repairs it.
- `auth.ts:170-175` caches a token whose sync failed: its user keeps the old
  memberships for another 5 minutes, without a retry. `SeesRecentClaims` excludes
  those requests, so no property covers the hazard.
- On a cache hit nothing is synced, so an organisation joined a moment ago is
  not visible for up to 5 minutes, though `teams.ts:5-8` speaks of every request.
- Two syncs of one user with disjoint claims can delete what the other has just
  upserted; both then run with fewer teams than either claim. `ClaimIsVisible`
  leaves out requests that another sync deleted from, so no property covers it.
- A key's page reads the key and its totals in two transactions
  (`keys.ts:280-291`): the totals may be of a key the user no longer sees.
- The overlap protects against a clock stepping back only while fewer than
  `PAGE_LIMIT` (5000) rows of a machine lie inside it. `NoRowStranded` fails with
  `PageLimit` = 1, as a pass then pages past its start; with short pages it is a
  theorem (`OverlapIsEnough`).
- `MaxActive` counts active children: one that ran into its budget is replaced by
  another, and a raise brings it back on top. `CapHolds` excludes raised children
  for that reason.
- A revocation reaches the proxy within TTL *plus* the time of a read in flight.
- The reporter's count of dropped errors is sent with the next event or flush
  only: the limit itself arms no timer (`kamustatus.go:170-174`).
- The ledger's SQLite migrations and their bookkeeping rows are separate
  statements (`ledger.go:123-128`): a process killed between the two finds the
  file not applied, and fails on it from then on (`duplicate column name`).

## 7. What is not modelled, and the plan

Not modelled:

- The ledger's `conn` and `migrate` (SQLite): sequential, see above.
- The arithmetic of `cost.go`, `computeCostUsd` and the model-scope enclosure of
  derived keys: pure, covered by unit tests. `Forwarding` has the choice of event
  and bucket, `PriceTable` the choice of row.
- Body rewriting and path matching of the proxy, the model catalog: static
  lookups.
- The admin pages besides keys and prices: single statements; nothing in the
  repository reads what `settings.tsx` stores. Dashboard totals: single SELECTs.
- The identity provider and signature checks: external. Configuration and
  start-up: they are the constants.

The plan:

1. An abstract `Feed`, a growing sequence without duplicates, refined by
   `UsageLedger`, and by `KeyUsage` on one machine.
2. `UsageIngest`'s choice of a cost tied to `PriceTable`'s table of a pass.
3. Revocation at the proxy as one statement: `KeyCache`'s `AllowIsFresh` over the
   statuses that `UsageIngest` writes, and its refinement.
