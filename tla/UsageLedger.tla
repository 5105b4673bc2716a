------------------------------ MODULE UsageLedger ------------------------------
(***************************************************************************)
(* The key holder's read of the usage ledger across machines               *)
(* (proxy/usage.go): GET /usage merges the pages of all machines that      *)
(* answer.  A client loops: it passes the page's max_id back as `since`.   *)
(***************************************************************************)
EXTENDS UsageWriter

CONSTANTS Readers,            \* clients looping over GET /usage
          ReaderKey,          \* the credential of every reader
          Limits              \* the `limit` values readers ask for

ASSUME ReaderAssumption ==
    /\ ReaderKey \in [Readers -> Keys]
    /\ Limits \subseteq Nat \ {0}

VARIABLES
    stage,      \* where the read of a reader is
    home,       \* the machine that serves the read
    limit,      \* the limit of the read
    ask,        \* the answer of every machine to the read
    floor,      \* the floor a machine answered with
    got,        \* the rows of the answers so far
    since,      \* the cursor the reader holds
    delivered,  \* the rows the reader was given
    served,     \* how many rows it was given
    passed,     \* machines missing from a page the reader moved past
    given       \* history: the highest floor a machine ever handed out

readVars   == <<stage, home, limit, ask, floor, got>>
clientVars == <<since, delivered, served, passed>>
vars       == <<ledgerVars, readVars, clientVars, given>>

NotAsked == [m \in Machines |-> "no"]
NoFloor  == [m \in Machines |-> 0]

Init ==
    /\ LedgerInit
    /\ stage = [r \in Readers |-> "idle"]
    /\ home \in [Readers -> Machines]
    /\ limit \in [Readers -> Limits]
    /\ ask = [r \in Readers |-> NotAsked]
    /\ floor = [r \in Readers |-> NoFloor]
    /\ got = [r \in Readers |-> {}]
    /\ since = [r \in Readers |-> 0]
    /\ delivered = [r \in Readers |-> {}]
    /\ served = [r \in Readers |-> 0]
    /\ passed = [r \in Readers |-> {}]
    /\ given = NoFloor

-------------------------------------------------------------------------------
(* Writing *)

WriteStep == Write /\ UNCHANGED <<readVars, clientVars, given>>

Awaited(r, m) == ask[r][m] \in {"asked", "floored"}

\* The process restarts: the reads it was serving fail, and the reads waiting
\* for it see a failed sibling.
Restart(m) ==
    /\ RestartProxy(m)
    /\ stage' = [r \in Readers |-> IF home[r] = m THEN "idle" ELSE stage[r]]
    /\ ask' = [r \in Readers |->
                 IF home[r] = m THEN NotAsked
                 ELSE IF Awaited(r, m)
                      THEN [ask[r] EXCEPT ![m] = "failed"]
                      ELSE ask[r]]
    /\ floor' = [r \in Readers |->
                   IF home[r] = m THEN NoFloor
                   ELSE IF Awaited(r, m) THEN [floor[r] EXCEPT ![m] = 0]
                   ELSE floor[r]]
    /\ got' = [r \in Readers |-> IF home[r] = m THEN {} ELSE got[r]]
    /\ UNCHANGED <<home, limit, clientVars, given>>

-------------------------------------------------------------------------------
(* Reading: GET /usage with a gateway credential, mergedPage *)

\* usageScope: a top-level key reads its tree, a derived key itself.
InScope(r, row) ==
    LET k == ReaderKey[r]
    IN  IF RootOf[k] = k THEN RootOf[row.key] = k ELSE row.key = k

\* A request reaches some machine, which answers for itself first.
StartRead(r, m, n) ==
    /\ stage[r] = "idle"
    /\ stage' = [stage EXCEPT ![r] = "local"]
    /\ home' = [home EXCEPT ![r] = m]
    /\ limit' = [limit EXCEPT ![r] = n]
    /\ ask' = [ask EXCEPT ![r] = [NotAsked EXCEPT ![m] = "asked"]]
    /\ UNCHANGED <<ledgerVars, floor, got, clientVars, given>>

\* History: a floor that leaves machine m, whatever becomes of the read.
HandOut(m, f) == given' = [given EXCEPT ![m] = IF f > @ THEN f ELSE @]

\* Broken on purpose: the generator forgets the floor it handed out.
TakeFloorForgets(r, m, now) ==
    /\ ask[r][m] = "asked"
    /\ floor' = [floor EXCEPT ![r][m] = cursorOf(lowestNext(floorMoves(gen[m], now)))]
    /\ HandOut(m, floor'[r][m])
    /\ ask' = [ask EXCEPT ![r][m] = "floored"]
    /\ UNCHANGED <<ledgerVars, stage, home, limit, got, clientVars>>

\* localPage, first half: the floor, under idMu.
TakeFloor(r, m, now) ==
    /\ ask[r][m] = "asked"
    /\ gen' = [gen EXCEPT ![m] = floorMoves(gen[m], now)]
    /\ floor' = [floor EXCEPT ![r][m] = cursorOf(lowestNext(gen'[m]))]
    /\ HandOut(m, floor'[r][m])
    /\ ask' = [ask EXCEPT ![r][m] = "floored"]
    /\ UNCHANGED <<bootMs, rows, stage, home, limit, got, clientVars>>

\* Broken on purpose: the page starts at the cursor, not past it.
MatchingFromSince(r, m) ==
    {row \in rows : /\ row.machine = m
                    /\ InScope(r, row)
                    /\ AtLeast(row, usageIDAtLeast(since[r]))}

\* The rows of machine m the SELECT of localPage matches.
Matching(r, m) ==
    {row \in rows : /\ row.machine = m
                    /\ InScope(r, row)
                    /\ AtLeast(row, usageIDAtLeast(since[r] + 1))}

\* localPage, second half: the SELECT, outside idMu.
SelectRows(r, m) ==
    /\ ask[r][m] = "floored"
    /\ \E page \in FirstRows(Matching(r, m), limit[r]) :
          got' = [got EXCEPT ![r] = @ \cup page]
    /\ ask' = [ask EXCEPT ![r][m] = "answered"]
    /\ UNCHANGED <<ledgerVars, stage, home, limit, floor, clientVars, given>>

\* The siblings DNS names are asked concurrently.  Discovery may fail or lag, so
\* any set of siblings may be named.
AskSiblings(r, origins) ==
    /\ stage[r] = "local"
    /\ ask[r][home[r]] = "answered"
    /\ home[r] \notin origins
    /\ stage' = [stage EXCEPT ![r] = "siblings"]
    /\ ask' = [ask EXCEPT ![r] = [m \in Machines |->
                 IF m \in origins THEN "asked" ELSE @[m]]]
    /\ UNCHANGED <<ledgerVars, home, limit, floor, got, clientVars, given>>

\* fetchSibling fails: timeout, connection error, non-2xx, bad body.  A floor the
\* sibling had taken is lost with its answer.
SiblingFails(r, m) ==
    /\ m # home[r]
    /\ Awaited(r, m)
    /\ ask' = [ask EXCEPT ![r][m] = "failed"]
    /\ floor' = [floor EXCEPT ![r][m] = 0]
    /\ UNCHANGED <<ledgerVars, stage, home, limit, got, clientVars, given>>

\* The home machine's own SELECT fails: the read ends with an error.
LocalFails(r) ==
    /\ stage[r] = "local"
    /\ ask[r][home[r]] = "floored"
    /\ stage' = [stage EXCEPT ![r] = "idle"]
    /\ ask' = [ask EXCEPT ![r] = NotAsked]
    /\ floor' = [floor EXCEPT ![r] = NoFloor]
    /\ got' = [got EXCEPT ![r] = {}]
    /\ UNCHANGED <<ledgerVars, home, limit, clientVars, given>>

Answering(r) == {m \in Machines : ask[r][m] = "answered"}

\* Broken on purpose: the merge ignores the floors.
UnderNoFloor(r) == got[r]

\* Rows under every answering machine's floor ...
UnderFloor(r) ==
    {row \in got[r] : \A m \in Answering(r) : cursorOf(row) < floor[r][m]}

\* ... of these the first `limit`, and the rows that share the last one's id.
MergedRows(r) ==
    {row \in UnderFloor(r) :
        Cardinality({q \in UnderFloor(r) : cursorOf(q) < cursorOf(row)})
            < limit[r]}

IsMaxId(c, page) ==
    /\ \E row \in page : cursorOf(row) = c
    /\ \A row \in page : cursorOf(row) <= c

\* Every sibling answered or failed: the merged page goes to the client, which
\* takes max_id as its next `since`; an empty page (max_id null) moves nothing.
Respond(r) ==
    /\ stage[r] = "siblings"
    /\ \A m \in Machines : ~Awaited(r, m)
    /\ delivered' = [delivered EXCEPT ![r] = @ \cup MergedRows(r)]
    /\ served' = [served EXCEPT ![r] = @ + Cardinality(MergedRows(r))]
    /\ \/ /\ MergedRows(r) = {}
          /\ UNCHANGED <<since, passed>>
       \/ /\ \E row \in MergedRows(r) :
                /\ IsMaxId(cursorOf(row), MergedRows(r))
                /\ since' = [since EXCEPT ![r] = cursorOf(row)]
          /\ passed' = [passed EXCEPT ![r] = @ \cup (Machines \ Answering(r))]
    /\ stage' = [stage EXCEPT ![r] = "idle"]
    /\ ask' = [ask EXCEPT ![r] = NotAsked]
    /\ floor' = [floor EXCEPT ![r] = NoFloor]
    /\ got' = [got EXCEPT ![r] = {}]
    /\ UNCHANGED <<ledgerVars, home, limit, given>>

-------------------------------------------------------------------------------
Next ==
    \/ WriteStep
    \/ \E m \in Machines :
          \/ Restart(m)
          \/ \E r \in Readers, now \in Clock(m) : TakeFloor(r, m, now)
    \/ \E r \in Readers :
          \/ \E m \in Machines :
                \/ \E n \in Limits : StartRead(r, m, n)
                \/ SelectRows(r, m)
                \/ SiblingFails(r, m)
          \/ \E origins \in SUBSET Machines : AskSiblings(r, origins)
          \/ LocalFails(r)
          \/ Respond(r)

Spec == Init /\ [][Next]_vars

\* The client keeps looping; a machine that is asked again and again answers
\* again and again, DNS names all siblings again and again, and clocks advance,
\* so that a machine that is asked often enough reads the latest instant.
Fairness ==
    \A r \in Readers :
        /\ WF_vars(\E m \in Machines, n \in Limits : StartRead(r, m, n))
        /\ WF_vars(Respond(r))
        /\ SF_vars(AskSiblings(r, Machines \ {home[r]}))
        /\ \A m \in Machines :
              /\ SF_vars(MaxMs \in Clock(m) /\ TakeFloor(r, m, MaxMs))
              /\ SF_vars(SelectRows(r, m))

FairSpec == Spec /\ Fairness

-------------------------------------------------------------------------------
(* Properties *)

TypeOK ==
    /\ LedgerTypeOK
    /\ stage \in [Readers -> {"idle", "local", "siblings"}]
    /\ home \in [Readers -> Machines]
    /\ limit \in [Readers -> Limits]
    /\ ask \in [Readers -> [Machines ->
                  {"no", "asked", "floored", "answered", "failed"}]]
    /\ floor \in [Readers -> [Machines -> Int]]
    /\ got \in [Readers -> SUBSET rows]
    /\ since \in [Readers -> Nat]
    /\ delivered \in [Readers -> SUBSET rows]
    /\ served \in [Readers -> Nat]
    /\ passed \in [Readers -> SUBSET Machines]
    /\ given \in [Machines -> Nat]

\* A later read never finds a row below a cursor already handed out
\* (usage.go:57-60): every row in the reader's scope at or below its cursor has
\* been delivered, unless its machine was missing from a page it moved past.
NoRowSkipped ==
    \A r \in Readers : \A row \in rows :
        /\ InScope(r, row)
        /\ row.machine \notin passed[r]
        /\ cursorOf(row) <= since[r]
        => row \in delivered[r]

\* No row is delivered twice to a client that follows max_id (usage.go:62-65,
\* 377-383), and a row outside its scope never is.
DeliveredOnce ==
    \A r \in Readers :
        /\ served[r] = Cardinality(delivered[r])
        /\ \A row \in delivered[r] : InScope(r, row)

\* A floor holds for good (ledger.go:176-181): whatever a machine writes after it
\* handed a floor out has a cursor at or above it, restarts included, and whatever
\* became of the read: answered, failed at home, or given up on by its caller.
FloorsHold ==
    [][\A row \in rows' \ rows : cursorOf(row) >= given[row.machine]]_vars

\* Ids of a machine only grow (ledger.go:144-147), across restarts too: this is
\* what lets the poller page by `usage_id > after`.
IdsGrow ==
    [][\A new \in rows' \ rows, old \in rows :
          new.machine = old.machine => cursorOf(new) > cursorOf(old)]_vars

\* A reader that keeps looping catches up: a machine without traffic does not
\* hold the merged page back, because asking it for its floor moves the floor up
\* to its clock (ledger.go:181-188).  Rows of the last instant of the bounded
\* clock are left out: no later reading exists that would release them.
Behind(r) ==
    {row \in rows : /\ InScope(r, row)
                    /\ row.ms < MaxMs
                    /\ row.machine \notin passed[r]
                    /\ row \notin delivered[r]}

ReaderCatchesUp == \A r \in Readers : []<>(Behind(r) = {})
===============================================================================
