---------------------------- MODULE UsagePassProofs ----------------------------
(***************************************************************************)
(* Proofs about what the passes of UsageIngest leave behind: nothing.      *)
(* A row that is not in Postgres is ahead of the cursor its machine is     *)
(* polled from, at every step of a pass and after it, so a pass on which   *)
(* no machine failed stored what was there when it started.                *)
(*                                                                         *)
(* That a pass does not page past a row that is written behind it needs    *)
(* one of two things: no restarted process reads a clock behind the ids of *)
(* its predecessor (MaxStepBack = 0); or those clocks are at most the      *)
(* overlap behind and no page of the pass is full (ShortPages), so that it *)
(* never resumes at a row's own cursor.                                    *)
(***************************************************************************)
EXTENDS UsageIngestProofs

\* No machine has PAGE_LIMIT rows to give (usage-poller.ts:44, 212).
ShortPages == \A p \in Passes : Cardinality(page[p]) < PageLimit

KeepsUp == MaxStepBack = 0 \/ (MaxStepBack <= Overlap /\ ShortPages)

Polling == {"fetch", "insert", "flip", "commit"}
Fetched == {"insert", "flip", "commit"}

\* Row r is above the cursor of a poll whose newest stored row is q.
Ahead(r, q) == cursorOf(r) > withOverlap(q)

\* The rows pass p has still to store, of the machine it polls.
Left(p) == {row \in Pending : row.machine = machine[p]}

\* What a pass fetched and inserted are rows of the machine it polls.
RowsKnown(p) ==
    /\ \A s \in ins[p] : s.row \in page[p]
    /\ at[p] \in Fetched => \A row \in page[p] : row.machine = machine[p]

\* Its cursor comes from the overlap below a row, or from the end of a page.
CursorKnown(p) ==
    \/ after[p] = NoCursor
    \/ \E q \in rows : /\ q.machine = machine[p]
                       /\ \/ after[p] = withOverlap(q)
                          \/ MaxStepBack = 0 /\ after[p] = cursorOf(q)

\* No row waits behind its cursor ...
CursorBehind(p) ==
    at[p] \in Polling => \A row \in Left(p) : cursorOf(row) > after[p]

\* ... or behind a page it is about to store.
PageBehind(p) ==
    at[p] \in Fetched =>
        \A row \in Left(p) \ page[p], q \in page[p] :
            /\ Ahead(row, q)
            /\ MaxStepBack = 0 \/ Cardinality(page[p]) = PageLimit
                  => cursorOf(row) > cursorOf(q)

\* Its transaction has what its page has and Postgres has not.
PageInserted(p) ==
    at[p] \in InTransaction =>
        \A row \in page[p] \cap Pending : \E s \in ins[p] : s.row = row

\* If nothing failed, the rest of what it owes is ahead of it.
DueAhead(p) ==
    complete[p] =>
        \A row \in (due[p] \cap Pending) :
            /\ at[p] \in {"next", "done"} => row.machine \in todo[p]
            /\ at[p] \in Polling =>
                  row.machine = machine[p] \/ row.machine \in todo[p]
            /\ at[p] \in Fetched /\ Cardinality(page[p]) < PageLimit =>
                  row \in page[p] \/ row.machine \in todo[p]

\* Done means that nothing is left to do.
DoneHasNothing(p) == at[p] = "done" /\ complete[p] => todo[p] = {}

PassInv(p) ==
    /\ RowsKnown(p)
    /\ CursorKnown(p)
    /\ CursorBehind(p)
    /\ PageBehind(p)
    /\ PageInserted(p)
    /\ DueAhead(p)
    /\ DoneHasNothing(p)

\* No row waits behind what is stored of its machine, and none within the
\* overlap but for a clock that stepped back.
StoredBehind ==
    \A row \in Pending, q \in StoredRows :
        row.machine = q.machine =>
            /\ Ahead(row, q)
            /\ MaxStepBack = 0 => cursorOf(row) > cursorOf(q)

BehindInv ==
    /\ ChargeInv
    /\ Recent
    /\ MaxStepBack = 0 => Written
    /\ StoredRows \subseteq rows
    /\ StoredBehind
    /\ \A p \in Passes : PassInv(p)

-------------------------------------------------------------------------------
(* Cursors of rows *)

\* The cursor a poll would start from below a row is a number below the row's.
LEMMA OverlapTyped ==
    ASSUME LedgerInv, NEW q \in rows
    PROVE  /\ withOverlap(q) \in Int /\ cursorOf(q) \in Nat
           /\ withOverlap(q) < cursorOf(q)
<1>1. /\ q.ms \in Nat /\ Overlap \in Nat /\ Epoch \in Nat /\ MaxSeq \in Nat
      /\ IsId(q)
    BY RowTyped, IngestAssumption, IdAssumption DEF LedgerInv, LedgerTypeOK, Row
<1>2. cursorOf(q) \in Nat
    BY RowCursor
<1>3. CASE q.ms - Overlap > Epoch
  <2>. DEFINE start == [ms |-> q.ms - Overlap, seq |-> 0]
  <2>1. IsId(start) /\ AtLeast(q, start)
    BY <1>1, <1>3 DEF IsId, AtLeast
  <2>2. cursorOf(start) \in Int /\ cursorOf(q) >= cursorOf(start)
    BY <1>1, <2>1, CursorOrder
  <2>. HIDE DEF start
  <2>3. withOverlap(q) = cursorOf(start) - 1
    BY <1>3 DEF withOverlap, start
  <2>. QED
    BY <1>2, <2>2, <2>3
<1>4. CASE ~(q.ms - Overlap > Epoch)
  <2>1. withOverlap(q) = -1
    BY <1>4 DEF withOverlap, NoCursor
  <2>. QED
    BY <1>2, <2>1
<1>. QED
    BY <1>3, <1>4

\* A row that is at most the overlap older is above that cursor.
LEMMA OverlapCovers ==
    ASSUME NEW r, IsId(r), r.ms > Epoch, NEW q, q.ms \in Nat, r.ms + Overlap >= q.ms
    PROVE  Ahead(r, q)
<1>1. Overlap \in Nat /\ Epoch \in Nat /\ MaxSeq \in Nat /\ r.ms \in Nat
    BY IngestAssumption, IdAssumption DEF IsId
<1>2. cursorOf(r) \in Nat
    BY IdCursor
<1>3. CASE q.ms - Overlap > Epoch
  <2>. DEFINE start == [ms |-> q.ms - Overlap, seq |-> 0]
  <2>1. IsId(start) /\ AtLeast(r, start)
    BY <1>1, <1>3 DEF IsId, AtLeast
  <2>2. cursorOf(start) \in Int /\ cursorOf(r) >= cursorOf(start)
    BY <1>1, <2>1, CursorOrder
  <2>. HIDE DEF start
  <2>3. withOverlap(q) = cursorOf(start) - 1
    BY <1>3 DEF withOverlap, start
  <2>. QED
    BY <1>2, <2>2, <2>3 DEF Ahead
<1>4. CASE ~(q.ms - Overlap > Epoch)
  <2>1. withOverlap(q) = -1
    BY <1>4 DEF withOverlap, NoCursor
  <2>. QED
    BY <1>2, <2>1 DEF Ahead
<1>. QED
    BY <1>3, <1>4

\* And so is one that is not below it.
LEMMA AtLeastIsAhead ==
    ASSUME LedgerInv, NEW r \in rows, NEW q \in rows, AtLeast(r, q)
    PROVE  Ahead(r, q) /\ cursorOf(r) >= cursorOf(q)
<1>1. cursorOf(r) >= cursorOf(q)
    BY RowTyped, CursorOrder
<1>2. withOverlap(q) \in Int /\ withOverlap(q) < cursorOf(q)
      /\ cursorOf(r) \in Nat /\ cursorOf(q) \in Nat
    BY OverlapTyped
<1>. QED
    BY <1>1, <1>2 DEF Ahead

\* The next poll of a machine starts below every row that waits.
LEMMA NothingBehindStart ==
    ASSUME BehindInv, NEW row \in Pending, NEW c \in StartOf(row.machine)
    PROVE  cursorOf(row) > c
<1>1. CASE StoredOf(row.machine) = {}
  <2>1. cursorOf(row) \in Nat
    BY RowCursor DEF BehindInv, ChargeInv, TypeInv, Pending
  <2>. QED
    BY <1>1, <2>1 DEF StartOf, NoCursor
<1>2. CASE StoredOf(row.machine) # {}
  <2>1. PICK q \in Newest(row.machine) : c = withOverlap(q)
    BY <1>2 DEF StartOf
  <2>2. q \in StoredRows /\ q.machine = row.machine
    BY DEF Newest, StoredOf
  <2>. QED
    BY <2>1, <2>2 DEF BehindInv, StoredBehind, Ahead
<1>. QED
    BY <1>1, <1>2

-------------------------------------------------------------------------------
(* The steps *)

\* The invariant holds initially: there are no rows.
LEMMA BehindStarts ==
    ASSUME Init
    PROVE  BehindInv
<1>1. ChargeInv
    BY StatusStarts DEF StatusInv
<1>2. Recent /\ Written
    BY RecentStarts, WrittenStarts DEF Init
<1>3. ASSUME NEW p \in Passes
      PROVE  PassInv(p)
    BY <1>3 DEF Init, LedgerInit, PassInv, RowsKnown, CursorKnown, CursorBehind,
       PageBehind, PageInserted, DueAhead, DoneHasNothing, NoCursor, Polling,
       Fetched, InTransaction
<1>4. StoredRows \subseteq rows /\ StoredBehind
    BY DEF Init, StoredRows, StoredBehind, Pending
<1>. QED
    BY <1>1, <1>2, <1>3, <1>4 DEF BehindInv

\* What waits, waits until it is stored or its key is gone.
LEMMA PendingShrinks ==
    ASSUME ChargeInv, \/ \E p \in Passes : PassStep(p)
                      \/ \E k \in Keys : KeyStep(k)
    PROVE  /\ UNCHANGED ledgerVars /\ rows' = rows
           /\ StoredRows \subseteq StoredRows'
           /\ Pending' \subseteq Pending
<1>1. UNCHANGED ledgerVars /\ rows' = rows /\ stored \subseteq stored'
    BY DEF ledgerVars, dbVars, PassStep, StartPass, DiscoveryFails, PollMachine,
           FetchPage, InsertRows, FlipKeys, Commit, MachineFails, AllPolled,
           EndPass, ApiRestart, KeyStep, Revoke, SetBudget, DeleteTree
<1>2. /\ status \in [Keys -> Statuses]
      /\ \A p \in Passes : \A k \in flips[p] : Exists(k)
      /\ \A row \in rows : row.key \in Keys
    BY ChargedExist
       DEF ChargeInv, OpenShape, TypeInv, TypeOK, LedgerTypeOK, Row
<1>3. ASSUME NEW k \in Keys, Exists(k)'
      PROVE  Exists(k)
  <2>1. CASE \E p \in Passes : PassStep(p) /\ ~Commit(p)
    <3>1. status' = status
      BY <2>1 DEF dbVars, PassStep, StartPass, DiscoveryFails, PollMachine,
           FetchPage, InsertRows, FlipKeys, MachineFails, AllPolled, EndPass,
           ApiRestart
    <3>. QED
      BY <1>3, <3>1 DEF Exists
  <2>2. CASE \E p \in Passes : Commit(p)
    BY <1>2, <1>3, <2>2 DEF Commit, Exists
  <2>3. CASE \E c \in Keys : KeyStep(c)
    BY <1>2, <1>3, <2>3 DEF KeyStep, Revoke, SetBudget, DeleteTree, Exists
  <2>. QED
    BY <2>1, <2>2, <2>3
<1>4. StoredRows \subseteq StoredRows'
    BY <1>1 DEF StoredRows
<1>5. Pending' \subseteq Pending
    BY <1>1, <1>2, <1>3, <1>4 DEF Pending
<1>. QED
    BY <1>1, <1>4, <1>5

\* A pass that does not move stays in order while less waits.
LEMMA StillPass ==
    ASSUME NEW o \in Passes, PassInv(o), rows' = rows, Pending' \subseteq Pending,
           at'[o] = at[o], todo'[o] = todo[o], machine'[o] = machine[o],
           after'[o] = after[o], page'[o] = page[o], ins'[o] = ins[o],
           complete'[o] = complete[o], due'[o] = due[o]
    PROVE  PassInv(o)'
<1>. USE DEF PassInv
<1>1. RowsKnown(o)'
    BY DEF RowsKnown, Fetched
<1>2. CursorKnown(o)'
    BY DEF CursorKnown, NoCursor, withOverlap, cursorOf, PerMs
<1>3. Left(o)' \subseteq Left(o)
    BY DEF Left
<1>4. CursorBehind(o)'
    BY <1>3 DEF CursorBehind, Polling, cursorOf, PerMs
<1>5. PageBehind(o)'
    BY <1>3 DEF PageBehind, Fetched, Ahead
<1>6. PageInserted(o)' /\ DueAhead(o)' /\ DoneHasNothing(o)'
    BY DEF PageInserted, DueAhead, DoneHasNothing, InTransaction, Polling, Fetched
<1>. QED
    BY <1>1, <1>2, <1>4, <1>5, <1>6

\* A pass that has no page and no transaction, and whose cursor is reset, is in
\* order if it owes nothing or failed.
LEMMA EmptyPass ==
    ASSUME NEW p \in Passes, ins'[p] = {}, after'[p] = NoCursor,
           at'[p] \notin Polling,
           \/ ~complete'[p]
           \/ at'[p] = "idle"
    PROVE  PassInv(p)'
    BY DEF PassInv, RowsKnown, CursorKnown, CursorBehind, PageBehind,
           PageInserted, DueAhead, DoneHasNothing, NoCursor, Polling, Fetched,
           InTransaction

\* A step between machines changes what the pass owes, not its page.
LEMMA BetweenMachines ==
    ASSUME BehindInv, NEW p \in Passes,
           \/ \E named \in SUBSET Machines : StartPass(p, named)
           \/ DiscoveryFails(p) \/ AllPolled(p) \/ EndPass(p)
    PROVE  PassInv(p)'
<1>1. /\ at \in [Passes -> Stages] /\ complete \in [Passes -> BOOLEAN]
      /\ todo \in [Passes -> SUBSET Machines] /\ due \in [Passes -> SUBSET rows]
      /\ \A row \in rows : row.machine \in Machines
    BY DEF BehindInv, ChargeInv, TypeInv, TypeOK, LedgerTypeOK, Row
<1>2. /\ PassInv(p) /\ at[p] \notin Polling /\ at'[p] \notin Polling
      /\ rows' = rows /\ after' = after /\ machine' = machine /\ ins' = ins
      /\ page' = page /\ Pending' = Pending
    BY <1>1 DEF BehindInv, StartPass, DiscoveryFails, AllPolled, EndPass, Polling,
                ledgerVars, dbVars, txVars, Pending, StoredRows, Exists
<1>3. /\ RowsKnown(p)' /\ CursorBehind(p)' /\ PageBehind(p)' /\ PageInserted(p)'
    BY <1>2 DEF PassInv, RowsKnown, CursorBehind, PageBehind, PageInserted,
                Polling, Fetched, InTransaction
<1>4. CursorKnown(p)'
    BY <1>2 DEF PassInv, CursorKnown, NoCursor, withOverlap, cursorOf, PerMs
<1>5. DueAhead(p)'
  <2>1. ASSUME NEW named \in SUBSET Machines, StartPass(p, named)
        PROVE  DueAhead(p)'
    <3>1. /\ at'[p] = "next" /\ todo'[p] = named
          /\ due'[p] = {row \in rows : row.machine \in named}
      BY <1>1, <2>1 DEF StartPass
    <3>2. \A row \in due'[p] : row.machine \in todo'[p]
      BY <3>1
    <3>. QED
      BY <3>1, <3>2 DEF DueAhead, Polling, Fetched
  <2>2. CASE DiscoveryFails(p)
    BY <1>1, <2>2 DEF DiscoveryFails, DueAhead
  <2>3. CASE AllPolled(p)
    <3>1. /\ at[p] = "next" /\ at'[p] = "done" /\ todo' = todo /\ due' = due
          /\ complete' = complete
      BY <1>1, <2>3 DEF AllPolled
    <3>. QED
      BY <1>2, <3>1 DEF PassInv, DueAhead, Polling, Fetched
  <2>4. CASE EndPass(p)
    BY <1>1, <2>4 DEF EndPass, DueAhead, Polling, Fetched
  <2>. QED
    BY <2>1, <2>2, <2>3, <2>4
<1>6. DoneHasNothing(p)'
    BY <1>1 DEF StartPass, DiscoveryFails, AllPolled, EndPass, DoneHasNothing
<1>. QED
    BY <1>3, <1>4, <1>5, <1>6 DEF PassInv

\* A machine is polled from below what waits of it (usage-poller.ts:100-124).
LEMMA MachinePolled ==
    ASSUME BehindInv, NEW p \in Passes, NEW m \in Machines, PollMachine(p, m)
    PROVE  PassInv(p)'
<1>1. PICK c \in StartOf(m) : after' = [after EXCEPT ![p] = c]
    BY DEF PollMachine
<1>2. /\ at[p] = "next" /\ at'[p] = "fetch" /\ machine'[p] = m /\ after'[p] = c
      /\ todo'[p] = todo[p] \ {m}
      /\ rows' = rows /\ ins' = ins /\ page' = page /\ due' = due
      /\ complete' = complete /\ Pending' = Pending
    BY <1>1 DEF PollMachine, BehindInv, ChargeInv, TypeInv, TypeOK,
                ledgerVars, dbVars, txVars, Pending, StoredRows, Exists
<1>3. PassInv(p)
    BY DEF BehindInv
<1>4. RowsKnown(p)' /\ PageBehind(p)' /\ PageInserted(p)' /\ DoneHasNothing(p)'
    BY <1>2, <1>3 DEF PassInv, RowsKnown, PageBehind, PageInserted,
                      DoneHasNothing, Fetched, InTransaction
<1>5. CursorKnown(p)'
  <2>1. CASE c = NoCursor
    BY <1>2, <2>1 DEF CursorKnown, NoCursor
  <2>2. CASE c # NoCursor
    <3>1. PICK q \in Newest(m) : c = withOverlap(q)
      BY <2>2 DEF StartOf
    <3>2. q \in rows /\ q.machine = m
      BY DEF Newest, StoredOf, BehindInv
    <3>3. withOverlap(q)' = withOverlap(q)
      BY DEF withOverlap, cursorOf, PerMs, NoCursor
    <3>. QED
      BY <1>2, <3>1, <3>2, <3>3 DEF CursorKnown
  <2>. QED
    BY <2>1, <2>2
<1>6. CursorBehind(p)'
  <2>1. \A row \in Pending : row.machine = m => cursorOf(row) > c
    BY NothingBehindStart
  <2>. QED
    BY <1>2, <2>1 DEF CursorBehind, Left, cursorOf, PerMs
<1>7. DueAhead(p)'
    BY <1>2, <1>3 DEF PassInv, DueAhead, Polling, Fetched
<1>. QED
    BY <1>4, <1>5, <1>6, <1>7 DEF PassInv

\* A page has every row that waits, or its last row is below those it has not
\* (usage.go:169-200).
LEMMA PageFetched ==
    ASSUME BehindInv, NEW p \in Passes, FetchPage(p), KeepsUp'
    PROVE  PassInv(p)'
<1>. DEFINE match == {row \in rows : /\ row.machine = machine[p]
                                     /\ cursorOf(row) > after[p]}
<1>1. PICK rs \in FirstRows(match, PageLimit) :
          /\ page' = [page EXCEPT ![p] = rs]
          /\ \/ /\ rs = {}
                /\ at' = [at EXCEPT ![p] = "next"]
                /\ after' = [after EXCEPT ![p] = NoCursor]
             \/ /\ rs # {}
                /\ at' = [at EXCEPT ![p] = "insert"]
                /\ UNCHANGED after
    BY DEF FetchPage
<1>2. /\ at[p] = "fetch" /\ page'[p] = rs
      /\ at'[p] = IF rs = {} THEN "next" ELSE "insert"
      /\ after'[p] = IF rs = {} THEN NoCursor ELSE after[p]
      /\ rows' = rows /\ ins' = ins /\ due' = due /\ machine' = machine
      /\ todo' = todo /\ complete' = complete /\ Pending' = Pending
    BY <1>1 DEF FetchPage, BehindInv, ChargeInv, TypeInv, TypeOK,
                ledgerVars, dbVars, Pending, StoredRows, Exists
<1>3. PassInv(p) /\ LedgerInv /\ ins[p] = {}
    BY <1>2 DEF BehindInv, ChargeInv, TypeInv, OpenShape
<1>4. /\ rs \subseteq match /\ match \subseteq rows
      /\ rs # match => Cardinality(rs) = PageLimit
      /\ \A q \in rs, row \in match \ rs : AtLeast(row, q)
    BY <1>1 DEF FirstRows
<1>5. Left(p) \subseteq match
    BY <1>2, <1>3 DEF PassInv, CursorBehind, Polling, Left, Pending
<1>6. ASSUME NEW row \in Left(p) \ rs, NEW q \in rs
      PROVE  Ahead(row, q) /\ cursorOf(row) > cursorOf(q)
  <2>1. row \in rows /\ q \in rows /\ AtLeast(row, q) /\ row.machine = q.machine
    BY <1>4, <1>5
  <2>2. Ahead(row, q) /\ cursorOf(row) >= cursorOf(q)
    BY <1>3, <2>1, AtLeastIsAhead
  <2>3. Cardinality(rs) = PageLimit
    BY <1>4, <1>5
  <2>4. MaxStepBack = 0
    BY <1>2, <2>3, IngestAssumption DEF KeepsUp, ShortPages
  <2>5. cursorOf(row) # cursorOf(q)
    BY <2>1, <2>4, <1>6 DEF BehindInv, Written
  <2>6. cursorOf(row) \in Nat /\ cursorOf(q) \in Nat
    BY <1>3, <2>1, RowCursor
  <2>. QED
    BY <2>2, <2>5, <2>6
<1>. HIDE DEF match
<1>7. RowsKnown(p)' /\ PageInserted(p)' /\ DoneHasNothing(p)'
    BY <1>2, <1>3, <1>4 DEF RowsKnown, PageInserted, DoneHasNothing,
                            InTransaction, match
<1>8. CursorKnown(p)'
    BY <1>2, <1>3 DEF PassInv, CursorKnown, NoCursor, withOverlap, cursorOf, PerMs
<1>9. CursorBehind(p)'
    BY <1>2, <1>3 DEF PassInv, CursorBehind, Polling, Left, cursorOf, PerMs
<1>10. PageBehind(p)'
    BY <1>2, <1>6 DEF PageBehind, Left, Ahead, withOverlap, cursorOf, PerMs,
                      NoCursor
<1>11. DueAhead(p)'
  <2>1. rs = {} => match = {}
    BY <1>4, FS_EmptySet, IngestAssumption
  <2>2. Cardinality(rs) < PageLimit => match = rs
    BY <1>4, IngestAssumption
  <2>. SUFFICES ASSUME complete[p], NEW row \in due[p] \cap Pending
                PROVE  /\ rs = {} => row.machine \in todo[p]
                       /\ row.machine = machine[p] \/ row.machine \in todo[p]
                       /\ Cardinality(rs) < PageLimit =>
                             row \in rs \/ row.machine \in todo[p]
    BY <1>2 DEF DueAhead, Polling, Fetched
  <2>3. row.machine = machine[p] \/ row.machine \in todo[p]
    BY <1>2, <1>3 DEF PassInv, DueAhead, Polling
  <2>4. row.machine = machine[p] => row \in match
    BY <1>5 DEF Left
  <2>. QED
    BY <2>1, <2>2, <2>3, <2>4
<1>. QED
    BY <1>7, <1>8, <1>9, <1>10, <1>11 DEF PassInv

\* A statement of the transaction, before it commits (usage-poller.ts:181-209).
LEMMA PageStatement ==
    ASSUME BehindInv, NEW p \in Passes, InsertRows(p) \/ FlipKeys(p)
    PROVE  PassInv(p)'
<1>1. /\ at[p] \in Fetched /\ at'[p] \in {"flip", "commit"}
      /\ rows' = rows /\ due' = due /\ machine' = machine /\ after' = after
      /\ page' = page /\ todo' = todo /\ complete' = complete
      /\ Pending' = Pending
    BY DEF InsertRows, FlipKeys, BehindInv, ChargeInv, TypeInv, TypeOK, Fetched,
           ledgerVars, dbVars, Pending, StoredRows, Exists
<1>2. PassInv(p)
    BY DEF BehindInv
<1>3. /\ \A s \in ins'[p] : s.row \in page[p]
      /\ \A row \in page[p] \cap Pending : \E s \in ins'[p] : s.row = row
  <2>1. CASE InsertRows(p)
    <3>1. PICK price \in [page[p] -> Costs] :
            ins' = [ins EXCEPT ![p] =
                      {[row |-> row, cost |-> price[row]] :
                          row \in {q \in page[p] : /\ q \notin StoredRows
                                                   /\ Exists(q.key)}}]
      BY <2>1 DEF InsertRows
    <3>2. ins'[p] = {[row |-> row, cost |-> price[row]] :
                       row \in {q \in page[p] : /\ q \notin StoredRows
                                                /\ Exists(q.key)}}
      BY <3>1 DEF BehindInv, ChargeInv, TypeInv, TypeOK
    <3>3. \A s \in ins'[p] : s.row \in page[p]
      BY <3>2
    <3>4. ASSUME NEW row \in page[p] \cap Pending
          PROVE  \E s \in ins'[p] : s.row = row
      <4>1. row \in page[p] /\ row \notin StoredRows /\ Exists(row.key)
        BY DEF Pending
      <4>2. [row |-> row, cost |-> price[row]] \in ins'[p]
        BY <3>2, <4>1
      <4>. QED
        BY <4>2
    <3>. QED
      BY <3>3, <3>4
  <2>2. CASE FlipKeys(p)
    BY <1>2, <2>2 DEF FlipKeys, PassInv, RowsKnown, PageInserted, InTransaction
  <2>. QED
    BY <2>1, <2>2
<1>4. RowsKnown(p)' /\ PageInserted(p)' /\ DoneHasNothing(p)'
    BY <1>1, <1>2, <1>3 DEF PassInv, RowsKnown, PageInserted, DoneHasNothing,
                            Fetched
<1>5. CursorKnown(p)'
    BY <1>1, <1>2 DEF PassInv, CursorKnown, NoCursor, withOverlap, cursorOf, PerMs
<1>6. Left(p)' = Left(p)
    BY <1>1 DEF Left
<1>7. CursorBehind(p)' /\ PageBehind(p)'
    BY <1>1, <1>2, <1>6 DEF PassInv, CursorBehind, PageBehind, Polling, Fetched,
                            Ahead, withOverlap, cursorOf, PerMs, NoCursor
<1>8. DueAhead(p)'
    BY <1>1, <1>2 DEF PassInv, DueAhead, Polling, Fetched
<1>. QED
    BY <1>4, <1>5, <1>7, <1>8 DEF PassInv

\* The COMMIT stores the page: what waits now is past it (usage-poller.ts:211-212).
LEMMA PageCommitted ==
    ASSUME BehindInv, KeepsUp, NEW p \in Passes, Commit(p)
    PROVE  PassInv(p)' /\ StoredRows' \subseteq rows' /\ StoredBehind'
<1>1. /\ at[p] = "commit" /\ stored' = stored \cup ins[p]
      /\ rows' = rows /\ due' = due /\ machine' = machine
      /\ todo' = todo /\ complete' = complete
      /\ ins'[p] = {} /\ page'[p] = {} /\ at'[p] \in {"next", "fetch"}
    BY DEF Commit, BehindInv, ChargeInv, TypeInv, TypeOK, ledgerVars
<1>2. PassInv(p) /\ LedgerInv /\ IsFiniteSet(page[p]) /\ page[p] \subseteq rows
    BY FS_Subset DEF BehindInv, ChargeInv, TypeInv, TypeOK, LedgerInv
<1>3. Pending' \subseteq Pending
    BY PendingShrinks DEF BehindInv, PassStep
<1>4. StoredRows' = StoredRows \cup {s.row : s \in ins[p]}
    BY <1>1 DEF StoredRows
<1>5. \A row \in Pending' : row \notin page[p]
  <2>1. ASSUME NEW row \in page[p] \cap Pending
        PROVE  row \in StoredRows'
    BY <1>1, <1>2, <1>4 DEF PassInv, PageInserted, InTransaction
  <2>2. \A row \in Pending' : row \notin StoredRows'
    BY DEF Pending
  <2>. QED
    BY <1>3, <2>1, <2>2
<1>6. \A s \in ins[p] : s.row \in page[p]
    BY <1>2 DEF PassInv, RowsKnown
<1>7. \A row \in page[p] : row.machine = machine[p]
    BY <1>1, <1>2 DEF PassInv, RowsKnown, Fetched
<1>8. ASSUME NEW row \in Pending', row.machine = machine[p]
      PROVE  row \in Left(p) \ page[p]
    BY <1>3, <1>5, <1>8 DEF Left
<1>9. StoredRows' \subseteq rows'
    BY <1>1, <1>2, <1>4, <1>6 DEF BehindInv
<1>10. StoredBehind'
  <2>. SUFFICES ASSUME NEW row \in Pending', NEW q \in StoredRows',
                       row.machine = q.machine
                PROVE  /\ Ahead(row, q)
                       /\ MaxStepBack = 0 => cursorOf(row) > cursorOf(q)
    BY DEF StoredBehind, Ahead, withOverlap, cursorOf, PerMs, NoCursor
  <2>1. CASE q \in StoredRows
    BY <1>3, <2>1 DEF BehindInv, StoredBehind
  <2>2. CASE q \notin StoredRows
    <3>1. q \in page[p]
      BY <1>4, <1>6, <2>2
    <3>2. row \in Left(p) \ page[p]
      BY <1>7, <1>8, <3>1
    <3>. QED
      BY <1>1, <1>2, <3>1, <3>2 DEF PassInv, PageBehind, Fetched
  <2>. QED
    BY <2>1, <2>2
<1>11. RowsKnown(p)' /\ PageBehind(p)' /\ PageInserted(p)' /\ DoneHasNothing(p)'
    BY <1>1 DEF RowsKnown, PageBehind, PageInserted, DoneHasNothing, Fetched,
                InTransaction
<1>12. CASE at'[p] = "next"
  <2>1. after'[p] = NoCursor /\ Cardinality(page[p]) < PageLimit
    BY <1>12 DEF Commit, BehindInv, ChargeInv, TypeInv, TypeOK
  <2>2. CursorKnown(p)' /\ CursorBehind(p)'
    BY <1>12, <2>1 DEF CursorKnown, CursorBehind, Polling, NoCursor
  <2>3. DueAhead(p)'
    BY <1>1, <1>2, <1>3, <1>5, <1>12, <2>1
       DEF PassInv, DueAhead, Polling, Fetched
  <2>. QED
    BY <1>9, <1>10, <1>11, <2>2, <2>3 DEF PassInv
<1>13. CASE at'[p] = "fetch"
  <2>1. Cardinality(page[p]) = PageLimit
    BY <1>13 DEF Commit, BehindInv, ChargeInv, TypeInv, TypeOK
  <2>2. PICK last \in page[p] : after' = [after EXCEPT ![p] = cursorOf(last)]
    BY <1>13 DEF Commit, BehindInv, ChargeInv, TypeInv, TypeOK
  <2>3. after'[p] = cursorOf(last) /\ last \in rows /\ last.machine = machine[p]
    BY <1>2, <1>7, <2>2 DEF BehindInv, ChargeInv, TypeInv, TypeOK
  <2>4. MaxStepBack = 0
    BY <2>1, IngestAssumption DEF KeepsUp, ShortPages
  <2>5. CursorKnown(p)'
    BY <1>1, <2>3, <2>4 DEF CursorKnown, cursorOf, PerMs
  <2>6. CursorBehind(p)'
    BY <1>1, <1>2, <1>8, <2>1, <2>3
       DEF PassInv, CursorBehind, PageBehind, Polling, Fetched, Left, cursorOf, PerMs
  <2>7. DueAhead(p)'
    BY <1>1, <1>2, <1>3, <1>13 DEF PassInv, DueAhead, Polling, Fetched
  <2>. QED
    BY <1>9, <1>10, <1>11, <2>5, <2>6, <2>7 DEF PassInv
<1>. QED
    BY <1>1, <1>12, <1>13

\* A step that stores nothing leaves nothing behind what is stored.
LEMMA NothingStored ==
    ASSUME BehindInv, rows' = rows, stored' = stored, Pending' \subseteq Pending
    PROVE  StoredRows' \subseteq rows' /\ StoredBehind'
<1>1. StoredRows' = StoredRows
    BY DEF StoredRows
<1>. QED
    BY <1>1 DEF BehindInv, StoredBehind, Ahead, withOverlap, cursorOf, PerMs, NoCursor

\* Every step of a pass.
LEMMA PassStepBehind ==
    ASSUME BehindInv, KeepsUp, KeepsUp', NEW p \in Passes, PassStep(p)
    PROVE  BehindInv'
<1>1. ChargeInv'
    BY ChargeNext DEF BehindInv, Next
<1>2. UNCHANGED ledgerVars /\ rows' = rows /\ Pending' \subseteq Pending
    BY PendingShrinks DEF BehindInv
<1>3. Recent' /\ (MaxStepBack = 0 => Written')
    BY <1>2, LedgerRests, WrittenKept
       DEF BehindInv, ChargeInv, TypeInv, Recent, ledgerVars
<1>4. CASE Commit(p)
  <2>1. PassInv(p)' /\ StoredRows' \subseteq rows' /\ StoredBehind'
    BY <1>4, PageCommitted
  <2>2. ASSUME NEW o \in Passes \ {p}
        PROVE  PassInv(o)'
    BY <1>2, <1>4, StillPass
       DEF Commit, BehindInv, ChargeInv, TypeInv, TypeOK
  <2>. QED
    BY <1>1, <1>3, <2>1, <2>2 DEF BehindInv
<1>5. CASE ~Commit(p)
  <2>1. UNCHANGED dbVars
    BY <1>5 DEF PassStep, StartPass, DiscoveryFails, PollMachine, FetchPage,
                InsertRows, FlipKeys, MachineFails, AllPolled, EndPass, ApiRestart
  <2>2. StoredRows' \subseteq rows' /\ StoredBehind'
    BY <1>2, <2>1, NothingStored DEF dbVars
  <2>3. ASSUME NEW o \in Passes \ {p}
        PROVE  /\ at'[o] = at[o] /\ todo'[o] = todo[o] /\ machine'[o] = machine[o]
               /\ after'[o] = after[o] /\ page'[o] = page[o] /\ ins'[o] = ins[o]
               /\ complete'[o] = complete[o] /\ due'[o] = due[o]
    <3>. USE DEF BehindInv, ChargeInv, TypeInv, TypeOK, txVars
    <3>1. CASE \/ \E named \in SUBSET Machines : StartPass(p, named)
               \/ DiscoveryFails(p) \/ AllPolled(p) \/ EndPass(p)
      BY <3>1 DEF StartPass, DiscoveryFails, AllPolled, EndPass
    <3>2. CASE \E m \in Machines : PollMachine(p, m)
      BY <3>2 DEF PollMachine
    <3>3. CASE FetchPage(p)
      BY <3>3 DEF FetchPage
    <3>4. CASE InsertRows(p) \/ FlipKeys(p)
      BY <3>4 DEF InsertRows, FlipKeys
    <3>5. CASE MachineFails(p) \/ ApiRestart(p)
      BY <3>5 DEF MachineFails, ApiRestart
    <3>. QED
      BY <1>5, <3>1, <3>2, <3>3, <3>4, <3>5 DEF PassStep
  <2>4. \A o \in Passes \ {p} : PassInv(o)'
    BY <1>2, <2>3, StillPass DEF BehindInv
  <2>5. PassInv(p)'
    <3>1. CASE MachineFails(p) \/ ApiRestart(p)
      <4>1. /\ ins'[p] = {} /\ after'[p] = NoCursor /\ at'[p] \notin Polling
            /\ ~complete'[p] \/ at'[p] = "idle"
        BY <3>1 DEF MachineFails, ApiRestart, BehindInv, ChargeInv, TypeInv,
                    TypeOK, Polling
      <4>. QED
        BY <4>1, EmptyPass
    <3>. QED
      BY <1>5, <3>1, BetweenMachines, MachinePolled, PageFetched, PageStatement
         DEF PassStep
  <2>. QED
    BY <1>1, <1>3, <2>2, <2>4, <2>5 DEF BehindInv
<1>. QED
    BY <1>4, <1>5

\* A row that is written now is ahead of all that is stored or fetched of its
\* machine, or behind a page that is not full (ledger.go:214-231).
LEMMA ProxyStepBehind ==
    ASSUME BehindInv, MaxStepBack <= Overlap, KeepsUp, ProxyStep
    PROVE  BehindInv'
<1>1. ChargeInv'
    BY ChargeNext DEF BehindInv, Next
<1>2. /\ rows \subseteq rows' /\ LedgerInv /\ LedgerInv' /\ Recent'
      /\ MaxStepBack = 0 => Grows /\ Written'
      /\ \A row \in rows' \ rows : \A q \in rows :
            row.machine = q.machine => row.ms + MaxStepBack >= q.ms
  <2>1. CASE Write
    BY <2>1, WriteGrows, RecentWrite, WrittenKept
       DEF BehindInv, ChargeInv, TypeInv, Grows
  <2>2. ASSUME NEW m \in Machines, RestartProxy(m)
        PROVE  /\ LedgerInv' /\ Recent' /\ rows' = rows
               /\ MaxStepBack = 0 => Grows /\ Written'
    BY <2>2, RestartKeepsLedger, RestartGrows, RecentRestart, WrittenKept
       DEF BehindInv, ChargeInv, TypeInv
  <2>. QED
    BY <2>1, <2>2 DEF ProxyStep, BehindInv, ChargeInv, TypeInv
<1>3. /\ StoredRows' = StoredRows /\ Pending \subseteq Pending'
      /\ Pending' \subseteq Pending \cup (rows' \ rows)
      /\ at' = at /\ todo' = todo /\ machine' = machine /\ after' = after
      /\ page' = page /\ ins' = ins /\ complete' = complete /\ due' = due
    BY <1>2 DEF ProxyStep, dbVars, passVars, txVars, StoredRows, Pending, Exists
<1>4. ASSUME NEW row \in rows' \ rows, NEW q \in rows, row.machine = q.machine
      PROVE  /\ Ahead(row, q)
             /\ MaxStepBack = 0 => cursorOf(row) > cursorOf(q)
             /\ cursorOf(row) > withOverlap(q)
  <2>1. row.ms \in Nat /\ q.ms \in Nat /\ IsId(row) /\ row.ms > Epoch
    BY <1>2 DEF LedgerInv, LedgerTypeOK, Row, IsId
  <2>2. row.ms + Overlap >= q.ms
    BY <1>2, <1>4, <2>1, WriterAssumption, IngestAssumption
  <2>3. Ahead(row, q)
    BY <2>1, <2>2, OverlapCovers
  <2>4. ASSUME MaxStepBack = 0
        PROVE  cursorOf(row) > cursorOf(q)
    <3>1. /\ cursorOf(row) >= LowCursor(row.machine)
          /\ cursorOf(row) \in Int /\ LowCursor(row.machine) \in Int
          /\ cursorOf(q) \in Int
      BY <1>2, <2>4, GrowsCursor
    <3>2. cursorOf(q) < LowCursor(q.machine)
      BY <2>4 DEF BehindInv, Written
    <3>. QED
      BY <1>4, <3>1, <3>2
  <2>. QED
    BY <2>3, <2>4 DEF Ahead
<1>5. StoredBehind'
  <2>. SUFFICES ASSUME NEW row \in Pending', NEW q \in StoredRows,
                       row.machine = q.machine
                PROVE  /\ Ahead(row, q)
                       /\ MaxStepBack = 0 => cursorOf(row) > cursorOf(q)
    BY <1>3 DEF StoredBehind, Ahead, withOverlap, cursorOf, PerMs, NoCursor
  <2>1. CASE row \in Pending
    BY <2>1 DEF BehindInv, StoredBehind
  <2>2. CASE row \in rows' \ rows
    BY <1>4, <2>2 DEF BehindInv
  <2>. QED
    BY <1>3, <2>1, <2>2
<1>6. ASSUME NEW p \in Passes
      PROVE  PassInv(p)'
  <2>1. PassInv(p) /\ page[p] \subseteq rows /\ due[p] \subseteq rows
    BY DEF BehindInv, ChargeInv, TypeInv, TypeOK
  <2>2. RowsKnown(p)' /\ DoneHasNothing(p)'
    BY <1>3, <2>1 DEF PassInv, RowsKnown, DoneHasNothing, Fetched
  <2>3. CursorKnown(p)'
    BY <1>2, <1>3, <2>1
       DEF PassInv, CursorKnown, NoCursor, withOverlap, cursorOf, PerMs
  <2>4. PageInserted(p)' /\ DueAhead(p)'
    BY <1>3, <2>1 DEF PassInv, PageInserted, DueAhead, InTransaction, Polling,
                      Fetched
  <2>5. CursorBehind(p)'
    <3>. SUFFICES ASSUME at[p] \in Polling, NEW row \in Pending',
                         row.machine = machine[p]
                  PROVE  cursorOf(row) > after[p]
      BY <1>3 DEF CursorBehind, Left, Polling, cursorOf, PerMs
    <3>1. CASE row \in Pending
      BY <2>1, <3>1 DEF PassInv, CursorBehind, Left
    <3>2. CASE row \in rows' \ rows
      <4>1. CASE after[p] = NoCursor
        <5>1. cursorOf(row) \in Nat
          BY <1>2, <3>2, IdCursor DEF LedgerInv, LedgerTypeOK, Row, IsId
        <5>. QED
          BY <4>1, <5>1 DEF NoCursor
      <4>2. CASE after[p] # NoCursor
        <5>1. PICK q \in rows : /\ q.machine = machine[p]
                                /\ \/ after[p] = withOverlap(q)
                                   \/ MaxStepBack = 0 /\ after[p] = cursorOf(q)
          BY <2>1, <4>2 DEF PassInv, CursorKnown
        <5>. QED
          BY <1>4, <3>2, <5>1
      <4>. QED
        BY <4>1, <4>2
    <3>. QED
      BY <1>3, <3>1, <3>2
  <2>6. PageBehind(p)'
    <3>. SUFFICES ASSUME at[p] \in Fetched, NEW row \in Pending',
                         row.machine = machine[p], row \notin page[p],
                         NEW q \in page[p]
                  PROVE  /\ Ahead(row, q)
                         /\ MaxStepBack = 0 \/ Cardinality(page[p]) = PageLimit
                               => cursorOf(row) > cursorOf(q)
      BY <1>3 DEF PageBehind, Left, Fetched, Ahead, withOverlap, cursorOf, PerMs,
                  NoCursor
    <3>1. CASE row \in Pending
      BY <2>1, <3>1 DEF PassInv, PageBehind, Left
    <3>2. CASE row \in rows' \ rows
      <4>1. q \in rows /\ q.machine = row.machine
        BY <2>1 DEF PassInv, RowsKnown
      <4>2. Cardinality(page[p]) = PageLimit => MaxStepBack = 0
        BY IngestAssumption DEF KeepsUp, ShortPages
      <4>. QED
        BY <1>4, <3>2, <4>1, <4>2
    <3>. QED
      BY <1>3, <3>1, <3>2
  <2>. QED
    BY <2>2, <2>3, <2>4, <2>5, <2>6 DEF PassInv
<1>. QED
  <2>1. StoredRows' \subseteq rows'
    BY <1>2, <1>3 DEF BehindInv
  <2>. QED
    BY <1>1, <1>2, <1>5, <1>6, <2>1 DEF BehindInv

\* Every step of every writer, while passes keep up.
LEMMA BehindNext ==
    ASSUME BehindInv, MaxStepBack <= Overlap, KeepsUp, KeepsUp', [Next]_vars
    PROVE  BehindInv'
<1>1. CASE ProxyStep
    BY <1>1, ProxyStepBehind
<1>2. CASE \E p \in Passes : PassStep(p)
    BY <1>2, PassStepBehind
<1>3. ASSUME \/ \E k \in Keys : KeyStep(k)
             \/ UNCHANGED vars
      PROVE  BehindInv'
  <2>1. ChargeInv'
    BY <1>3, ChargeNext DEF BehindInv, Next
  <2>2. /\ UNCHANGED <<ledgerVars, stored, passVars>> /\ rows' = rows
        /\ Pending' \subseteq Pending
    <3>1. CASE UNCHANGED vars
      BY <3>1 DEF vars, ledgerVars, dbVars, Pending, StoredRows, Exists
    <3>2. CASE \E k \in Keys : KeyStep(k)
      BY <3>2, PendingShrinks
         DEF BehindInv, KeyStep, Revoke, SetBudget, DeleteTree
    <3>. QED
      BY <1>3, <3>1, <3>2
  <2>3. Recent' /\ (MaxStepBack = 0 => Written')
    BY <2>2, LedgerRests, WrittenKept
       DEF BehindInv, ChargeInv, TypeInv, Recent, ledgerVars
  <2>4. StoredRows' \subseteq rows' /\ StoredBehind'
    BY <2>2, NothingStored
  <2>5. \A p \in Passes : PassInv(p)'
    BY <2>2, StillPass DEF BehindInv, passVars, txVars
  <2>. QED
    BY <2>1, <2>3, <2>4, <2>5 DEF BehindInv
<1>. QED
    BY <1>1, <1>2, <1>3 DEF Next

-------------------------------------------------------------------------------
(* The theorems *)

\* What waits is ahead of the next poll of its machine.
LEMMA BehindImplies ==
    ASSUME BehindInv
    PROVE  NoRowStranded /\ CompletePassStoredAll
<1>1. NoRowStranded
  <2>1. \A row \in rows \ StoredRows : Exists(row.key) => row \in Pending
    BY DEF Pending
  <2>. QED
    BY <2>1, NothingBehindStart DEF NoRowStranded
<1>2. ASSUME NEW p \in Passes, at[p] = "done", complete[p],
             NEW row \in due[p], Exists(row.key), row \notin StoredRows
      PROVE  FALSE
  <2>1. row \in due[p] \cap Pending
    BY <1>2 DEF Pending, BehindInv, ChargeInv, TypeInv, TypeOK
  <2>2. row.machine \in todo[p] /\ todo[p] = {}
    BY <1>2, <2>1 DEF BehindInv, PassInv, DueAhead, DoneHasNothing
  <2>. QED
    BY <2>2
<1>. QED
    BY <1>1, <1>2 DEF CompletePassStoredAll

\* No row is lost while restarted processes read clocks that are not behind
\* (usage-poller.ts:16-19), however full the pages and whatever fails.
THEOREM NothingStranded == MaxStepBack = 0 => (Spec => []NoRowStranded)
<1>. SUFFICES ASSUME MaxStepBack = 0
              PROVE  Spec => []NoRowStranded
    OBVIOUS
<1>1. Init => BehindInv
    BY BehindStarts
<1>2. BehindInv /\ [Next]_vars => BehindInv'
  <2>1. MaxStepBack <= Overlap /\ KeepsUp /\ KeepsUp'
    BY IngestAssumption DEF KeepsUp
  <2>. QED
    BY <2>1, BehindNext
<1>3. BehindInv => NoRowStranded
    BY BehindImplies
<1>. QED
    BY <1>1, <1>2, <1>3, PTL DEF Spec

\* And a pass that reports no failed machine stored all that the machines it
\* polled had when it started (usage-poller.ts:263-266), whichever of the machines
\* the TXT record named.
THEOREM PassesAreComplete == MaxStepBack = 0 => (Spec => []CompletePassStoredAll)
<1>. SUFFICES ASSUME MaxStepBack = 0
              PROVE  Spec => []CompletePassStoredAll
    OBVIOUS
<1>1. Init => BehindInv
    BY BehindStarts
<1>2. BehindInv /\ [Next]_vars => BehindInv'
  <2>1. MaxStepBack <= Overlap /\ KeepsUp /\ KeepsUp'
    BY IngestAssumption DEF KeepsUp
  <2>. QED
    BY <2>1, BehindNext
<1>3. BehindInv => CompletePassStoredAll
    BY BehindImplies
<1>. QED
    BY <1>1, <1>2, <1>3, PTL DEF Spec

\* The overlap is what makes up for a clock that is behind after a restart
\* (usage-poller.ts:16-19): as long as no page is full, it does so for one that
\* is behind by as much as the overlap, for the rows that are left and for the
\* passes that report no failed machine.
THEOREM OverlapIsEnough ==
    MaxStepBack <= Overlap =>
        (Spec /\ []ShortPages => [](NoRowStranded /\ CompletePassStoredAll))
<1>. SUFFICES ASSUME MaxStepBack <= Overlap
              PROVE  Spec /\ []ShortPages =>
                        [](NoRowStranded /\ CompletePassStoredAll)
    OBVIOUS
<1>1. Init => BehindInv
    BY BehindStarts
<1>2. BehindInv /\ ShortPages /\ ShortPages' /\ [Next]_vars => BehindInv'
  <2>1. ASSUME ShortPages, ShortPages'
        PROVE  KeepsUp /\ KeepsUp'
    BY <2>1 DEF KeepsUp
  <2>. QED
    BY <2>1, BehindNext
<1>3. BehindInv => NoRowStranded /\ CompletePassStoredAll
    BY BehindImplies
<1>. QED
    BY <1>1, <1>2, <1>3, PTL DEF Spec
===============================================================================
