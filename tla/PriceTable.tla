------------------------------ MODULE PriceTable ------------------------------
(***************************************************************************)
(* The price list of one model, llm.model_prices: append-only rows, who    *)
(* adds them (the admin's Prices page, prices.tsx; the daily price sync    *)
(* through POST /internal/prices, internal.ts) and how an api machine      *)
(* reads them (lib/pricing.ts: a copy in memory, at most PriceTTL old,     *)
(* reloaded by internal requests and dropped after an insert).  The other  *)
(* api machines' inserts reach this one as an admin's do.                  *)
(*                                                                         *)
(* One rate stands for the five of a row.  It is in fractions of the       *)
(* column's precision: Unit of them are the 0.000001 NUMERIC(12, 6) keeps. *)
(*                                                                         *)
(* The code of a request between two awaits is one step.  A load of the    *)
(* table takes at most MaxLoad.                                            *)
(***************************************************************************)
EXTENDS Integers, SequencesExt

CONSTANTS Rates,         \* rates that forms and the sync carry
          MaxRate,       \* MAX_RATE, 999999
          Unit,
          CatalogRate,   \* the catalog's rate
          Dates,         \* values of valid_from, NoDate for a blank one
          NoDate,
          PriceTTL,      \* PRICE_CACHE_TTL_MS, 30 s
          MaxLoad,
          MaxPrices,     \* bound on the rows
          MaxPriceTime   \* bound on the clock

ASSUME PriceAssumption ==
    /\ Rates \subseteq Int
    /\ {MaxRate, CatalogRate, PriceTTL, MaxLoad, MaxPrices, MaxPriceTime} \subseteq Nat
    /\ Unit \in Nat \ {0}
    /\ NoDate \notin Nat
    /\ Dates \subseteq 0 .. MaxPriceTime \cup {NoDate}

VARIABLES
    priceNow,      \* the time
    prices,        \* llm.model_prices, in the order of the commits
    priceCache,    \* `cache`: the table in memory
    client         \* of every request: its step, its table, the row it adds

priceVars == <<priceNow, prices, priceCache, client>>

\* The poller's page, and a request of the price sync, GET or POST
\* /internal/prices: the sync sends one after another.
Clients == {"pass", "sync"}

\* A table is the numbers of the rows, newest valid_from first.  `raced` is
\* history: clearPriceCache ran while the table was being loaded.
NoTable == [loaded |-> FALSE, table |-> <<>>, loadedAt |-> 0, raced |-> FALSE]
Away == [at |-> "idle", table |-> <<>>, raced |-> FALSE, began |-> 0,
         rate |-> 0, valid_from |-> NoDate, checked |-> 0]

PricesInit ==
    /\ priceNow = 0
    /\ prices = <<>>
    /\ priceCache = NoTable
    /\ client = [c \in Clients |-> Away]

-------------------------------------------------------------------------------
(* Prices *)

\* To the precision of the column, half of it up.
round6(rate) == ((2 * rate + Unit) \div (2 * Unit)) * Unit

parsePriceForm(rate) == 0 <= rate /\ rate <= MaxRate

\* loadPrices: the tables ORDER BY valid_from DESC can return; the Prices page's
\* loadTable goes on with created_at DESC.
Newer(i, j) == prices[i].from > prices[j].from
Later(i, j) == prices[i].from = prices[j].from /\ prices[i].made > prices[j].made

loadPrices ==
    {s \in [1 .. Len(prices) -> 1 .. Len(prices)] :
        \A a, b \in DOMAIN s : a < b => s[a] # s[b] /\ ~Newer(s[b], s[a])}
loadTable  == {s \in loadPrices : \A a, b \in DOMAIN s : a < b => ~Later(s[b], s[a])}

\* The first row of the table with valid_from <= time; 0 for none of them.
pickPrice(table, time) ==
    LET a == SelectInSeq(table, LAMBDA i : prices[i].from <= time)
    IN  IF a = 0 THEN 0 ELSE table[a]

\* effectivePrice, priceUsage: the row's rate, else the catalog's.
RateOf(i) == IF i = 0 THEN CatalogRate ELSE prices[i].rate

effectivePrice(table, time) == RateOf(pickPrice(table, time))

\* What the Prices page shows as the current price.
Shown == {effectivePrice(table, priceNow) : table \in loadTable}

\* INSERT: valid_from is now() unless it was given, and the column rounds.
\* `checked` is history: the time the unchanged check was made for.
AddPrice(by, rate, valid_from, checked) ==
    /\ Len(prices) < MaxPrices
    /\ prices' = Append(prices,
         [from |-> IF valid_from = NoDate THEN priceNow ELSE valid_from,
          rate |-> round6(rate), by |-> by, made |-> priceNow,
          checked |-> checked, cleared |-> FALSE])

\* POST /prices of the admin app.
AdminAdds(rate, valid_from) ==
    /\ parsePriceForm(rate)
    /\ AddPrice("admin", rate, valid_from, 0)
    /\ UNCHANGED <<priceNow, priceCache, client>>

-------------------------------------------------------------------------------
(* Requests on the api machine *)

Goes(c, rq) == client' = [client EXCEPT ![c] = rq]

Loading(rq) == [rq EXCEPT !.at = "select", !.began = priceNow]

\* Broken on purpose: a table in memory is good however old it is.
PassHitsAnyAge ==
    /\ client["pass"].at = "idle"
    /\ priceCache.loaded
    /\ Goes("pass", [Away EXCEPT !.at = "priced", !.table = priceCache.table,
                                 !.raced = priceCache.raced])
    /\ UNCHANGED <<priceNow, prices, priceCache>>

Fresh == priceCache.loaded /\ priceNow - priceCache.loadedAt <= PriceTTL

\* pollOnce calls priceTable(): the table in memory while it is fresh, and the
\* page is priced with it; or a reload.
PassHits ==
    /\ client["pass"].at = "idle"
    /\ Fresh
    /\ Goes("pass", [Away EXCEPT !.at = "priced", !.table = priceCache.table,
                                 !.raced = priceCache.raced])
    /\ UNCHANGED <<priceNow, prices, priceCache>>

PassReloads ==
    /\ client["pass"].at = "idle"
    /\ ~Fresh
    /\ Goes("pass", Loading(Away))
    /\ UNCHANGED <<priceNow, prices, priceCache>>

\* Broken on purpose: the rates of the request are compared as they came.
SyncUnrounded(rate, valid_from) ==
    /\ client["sync"].at = "idle"
    /\ parsePriceForm(rate)
    /\ Goes("sync", [Loading(Away) EXCEPT !.rate = rate,
                                          !.valid_from = valid_from])
    /\ UNCHANGED <<priceNow, prices, priceCache>>

\* A POST calls reloadPriceTable() whatever is in memory; its rates are rounded
\* before.  A GET is a POST that ends unchanged.
SyncBegins(rate, valid_from) ==
    /\ client["sync"].at = "idle"
    /\ parsePriceForm(rate)
    /\ Goes("sync", [Loading(Away) EXCEPT !.rate = round6(rate),
                                          !.valid_from = valid_from])
    /\ UNCHANGED <<priceNow, prices, priceCache>>

\* Postgres reads the rows,
ReadPrices(c) ==
    /\ client[c].at = "select"
    /\ \E table \in loadPrices :
          Goes(c, [client[c] EXCEPT !.at = "answer", !.table = table])
    /\ UNCHANGED <<priceNow, prices, priceCache>>

\* and the answer becomes the table in memory.
Stored(c) ==
    /\ client[c].at = "answer"
    /\ priceCache' = [loaded |-> TRUE, table |-> client[c].table,
                      loadedAt |-> priceNow, raced |-> client[c].raced]

PassPrices ==
    /\ Stored("pass")
    /\ Goes("pass", [client["pass"] EXCEPT !.at = "priced"])
    /\ UNCHANGED <<priceNow, prices>>

\* The transaction of the page, and the next page: UsageIngest.
PassGoesOn ==
    /\ client["pass"].at = "priced"
    /\ Goes("pass", Away)
    /\ UNCHANGED <<priceNow, prices, priceCache>>

\* The price in effect has these rates: {unchanged: true}; or it has not, and
\* the row is added.
SyncChecks ==
    LET rq   == client["sync"]
        time == IF rq.valid_from = NoDate THEN priceNow ELSE rq.valid_from
        same == round6(effectivePrice(rq.table, time)) = rq.rate
    IN  /\ Stored("sync")
        /\ Goes("sync", IF same THEN Away
                        ELSE [rq EXCEPT !.at = "insert", !.checked = time])
        /\ UNCHANGED <<priceNow, prices>>

SyncAdds ==
    LET rq == client["sync"]
    IN  /\ rq.at = "insert"
        /\ AddPrice("sync", rq.rate, rq.valid_from, rq.checked)
        /\ Goes("sync", [rq EXCEPT !.at = "clear"])
        /\ UNCHANGED <<priceNow, priceCache>>

\* Broken on purpose: the answer is sent with the old table still in memory.
SyncKeepsTable ==
    /\ client["sync"].at = "clear"
    /\ prices' = [i \in DOMAIN prices |->
                    [prices[i] EXCEPT !.cleared = @ \/ prices[i].by = "sync"]]
    /\ client' = [c \in Clients |->
                    IF c = "sync" THEN Away
                    ELSE [client[c] EXCEPT !.raced = client[c].at # "idle"]]
    /\ UNCHANGED <<priceNow, priceCache>>

\* clearPriceCache() and 201.
SyncClears ==
    /\ client["sync"].at = "clear"
    /\ priceCache' = NoTable
    /\ prices' = [i \in DOMAIN prices |->
                    [prices[i] EXCEPT !.cleared = @ \/ prices[i].by = "sync"]]
    /\ client' = [c \in Clients |->
                    IF c = "sync" THEN Away
                    ELSE [client[c] EXCEPT !.raced = client[c].at # "idle"]]
    /\ UNCHANGED priceNow

\* A query fails: the pass's machine, or a 500.
QueryRejects(c) ==
    /\ client[c].at \in {"select", "answer", "insert"}
    /\ Goes(c, Away)
    /\ UNCHANGED <<priceNow, prices, priceCache>>

PriceApiRestart ==
    /\ priceCache' = NoTable
    /\ client' = [c \in Clients |-> Away]
    /\ UNCHANGED <<priceNow, prices>>

PriceTick ==
    /\ priceNow < MaxPriceTime
    /\ \A c \in Clients :
          \/ client[c].at \in {"idle", "insert", "clear"}
          \/ /\ client[c].at \in {"select", "answer"}
             /\ priceNow - client[c].began < MaxLoad
    /\ priceNow' = priceNow + 1
    /\ UNCHANGED <<prices, priceCache, client>>

PricesNext ==
    \/ \E rate \in Rates, valid_from \in Dates :
          AdminAdds(rate, valid_from) \/ SyncBegins(rate, valid_from)
    \/ PassHits
    \/ PassReloads
    \/ \E c \in Clients : ReadPrices(c) \/ QueryRejects(c)
    \/ PassPrices
    \/ PassGoesOn
    \/ SyncChecks
    \/ SyncAdds
    \/ SyncClears
    \/ PriceApiRestart
    \/ PriceTick

PricesSpec == PricesInit /\ [][PricesNext]_priceVars

-------------------------------------------------------------------------------
(* Properties *)

PricesTypeOK ==
    /\ priceNow \in 0 .. MaxPriceTime
    /\ \A i \in DOMAIN prices :
          prices[i] \in [from : 0 .. MaxPriceTime, rate : 0 .. MaxRate + Unit,
                         by : {"admin", "sync"}, made : 0 .. priceNow,
                         checked : 0 .. MaxPriceTime, cleared : BOOLEAN]
    /\ Len(prices) <= MaxPrices
    /\ priceCache.loadedAt \in 0 .. priceNow
    /\ \A c \in Clients :
          /\ client[c].at \in {"idle", "select", "answer", "priced", "insert", "clear"}
          /\ client[c].valid_from \in Dates \cup {NoDate}
          /\ \A i \in DOMAIN client[c].table : client[c].table[i] \in DOMAIN prices

\* Every usage row of a page is charged the row of the greatest valid_from at or
\* before its time (ADR 0003 section 3, 20261016120000_pricing_at_ingest.up.sql:
\* 4-10), of the rows that are older than the table in memory may be and took to
\* load (prices.tsx:19-20): no reload stores an older table for longer, whatever
\* internal requests reload, insert and clear meanwhile.
ChargedInEffect ==
    client["pass"].at = "priced" =>
        \A time \in 0 .. priceNow, i \in DOMAIN prices :
            LET p == pickPrice(client["pass"].table, time)
            IN  /\ prices[i].from <= time
                /\ p = 0 \/ prices[p].from < prices[i].from
                => priceNow - prices[i].made <= PriceTTL + MaxLoad

\* A row added through the internal API is used by this machine's ingest at once
\* (pricing.ts:101-104), but for a table whose load was under way when the row
\* was added.
SyncedAtOnce ==
    client["pass"].at = "priced" /\ ~client["pass"].raced =>
        \A i \in DOMAIN prices :
            prices[i].by = "sync" /\ prices[i].cleared
                => \E a \in DOMAIN client["pass"].table : client["pass"].table[a] = i

\* "A daily sync only writes when a provider's price moved" (internal.ts:91-94):
\* of two rows of the sync with the same rates, where the first was in effect
\* when the second was checked, another row came between them.
SyncRepeatsNothing ==
    \A i, j \in DOMAIN prices :
        /\ i < j
        /\ prices[i].by = "sync" /\ prices[j].by = "sync"
        /\ prices[i].rate = prices[j].rate
        /\ prices[i].from <= prices[j].checked
        => \E k \in 1 .. (j - 1) \ {i} :
              prices[i].from <= prices[k].from /\ prices[k].from <= prices[j].checked

\* prices.tsx:17-18: "The 'current' column is what ingest charges for a request
\* made now: the same pickPrice the api poller uses"; of a pass that has read
\* every row the page shows, where the page has one answer.
ShownIsCharged ==
    /\ client["pass"].at = "priced"
    /\ Len(client["pass"].table) = Len(prices)
    => \A rate \in Shown :
          Shown = {rate} => effectivePrice(client["pass"].table, priceNow) = rate
===============================================================================
