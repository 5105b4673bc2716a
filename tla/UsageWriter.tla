------------------------------ MODULE UsageWriter ------------------------------
(***************************************************************************)
(* The writing side of the proxy's usage ledger (proxy/ledger.go), shared  *)
(* by the models of its two readers: the key holder's merged page          *)
(* (UsageLedger) and the api's poller (UsageIngest).  Every machine writes *)
(* to its own SQLite file, on a volume that survives the process, under    *)
(* ids it issues from two variables that do not.                           *)
(*                                                                         *)
(* time.Now() is any instant of Times at every call: clocks differ between *)
(* machines and step back.  Only the first reading of a restarted process  *)
(* is tied to the past, by MaxStepBack.                                    *)
(***************************************************************************)
EXTENDS UsageIds, FiniteSets

CONSTANTS Machines,       \* the proxy machines of the Fly app
          Keys,           \* gateway keys
          RootOf,         \* root_key_id of every key
          Rnd,            \* random bits of an id
          MaxMs,          \* bound: clocks read Epoch+1 .. MaxMs
          MaxRows,        \* bound on the rows; no INSERT is tried past it
          MaxStepBack     \* how far behind an earlier id a process may boot

ASSUME WriterAssumption ==
    /\ RootOf \in [Keys -> Keys]
    /\ \A k \in Keys : RootOf[RootOf[k]] = RootOf[k]
    /\ MaxMs \in Nat
    /\ MaxRows \in Nat
    /\ MaxStepBack \in Nat

Times == (Epoch + 1) .. MaxMs

VARIABLES
    gen,        \* [Machines -> Generator]: lastMs and seq, in memory only
    bootMs,     \* the clock of machine m read past this when it last booted
    rows        \* the usage_log rows of all machines' files

ledgerVars == <<gen, bootMs, rows>>

Row == [machine : Machines, ms : Nat, seq : 0 .. MaxSeq, rnd : Rnd, key : Keys]

LedgerInit ==
    /\ gen = [m \in Machines |-> Fresh]
    /\ bootMs = [m \in Machines |-> Epoch]
    /\ rows = {}

LedgerTypeOK ==
    /\ gen \in [Machines -> Generator]
    /\ bootMs \in [Machines -> Nat]
    /\ rows \in SUBSET Row

\* What time.Now() can return on machine m.
Clock(m) == {t \in Times : gen[m].lastMs = 0 => t > bootMs[m]}

\* recordUsage: the id is made and the row inserted under idMu.
RecordUsage(m, k, now) ==
    /\ Cardinality(rows) < MaxRows
    /\ gen' = [gen EXCEPT ![m] = uuidv7(gen[m], now)]
    /\ \E rnd \in Rnd :
          LET row == [machine |-> m, ms |-> gen'[m].lastMs,
                      seq |-> gen'[m].seq, rnd |-> rnd, key |-> k]
          IN  /\ row \notin rows
              /\ rows' = rows \cup {row}
    /\ UNCHANGED bootMs

\* recordUsage when the INSERT fails: the id is spent, the row is lost.
RecordUsageFails(m, now) ==
    /\ Cardinality(rows) < MaxRows
    /\ gen[m].lastMs < MaxMs
    /\ gen' = [gen EXCEPT ![m] = uuidv7(gen[m], now)]
    /\ UNCHANGED <<bootMs, rows>>

\* The process dies and starts again: the file stays, the generator does not.
RestartProxy(m) ==
    /\ gen[m] # Fresh
    /\ gen[m].lastMs < MaxMs
    /\ gen' = [gen EXCEPT ![m] = Fresh]
    /\ bootMs' = [bootMs EXCEPT ![m] =
                    IF gen[m].lastMs - MaxStepBack > @
                    THEN gen[m].lastMs - MaxStepBack
                    ELSE @]
    /\ UNCHANGED rows

\* A step of the writing side alone.
Write ==
    \E m \in Machines, now \in Times :
        /\ now \in Clock(m)
        /\ \/ RecordUsageFails(m, now)
           \/ \E k \in Keys : RecordUsage(m, k, now)

\* ORDER BY usage_id LIMIT n: the n lowest, ties broken by the random bits.
FirstRows(match, n) ==
    {page \in SUBSET match :
        /\ Cardinality(page) <= n
        /\ page # match => Cardinality(page) = n
        /\ \A p \in page, q \in match \ page : AtLeast(q, p)}
===============================================================================
