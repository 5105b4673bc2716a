--------------------------- MODULE UsageWriterProofs ---------------------------
(***************************************************************************)
(* What every step of the writing side keeps, for any number of machines,  *)
(* any clocks and any counter width.  Low(m) is the lowest id machine m    *)
(* can still issue: rows are below it when they are written and it never   *)
(* goes down, as long as a restarted process does not read a clock that is *)
(* behind the ids its predecessor issued (MaxStepBack = 0).                *)
(***************************************************************************)
EXTENDS UsageWriter, UsageIdsProofs, FiniteSetTheorems

Low(m) == LowId(gen[m], bootMs[m])

LedgerInv ==
    /\ LedgerTypeOK
    /\ IsFiniteSet(rows)
    /\ \A m \in Machines : /\ Sane(gen[m])
                           /\ gen[m].lastMs = 0 \/ gen[m].lastMs > Epoch
                           /\ bootMs[m] >= Epoch
    /\ \A row \in rows : row.ms > Epoch

\* Rows are only added, above the lowest id left, one at a time.
Grows ==
    /\ rows \subseteq rows'
    /\ \A row \in rows' \ rows :
          /\ AtLeast(row, Low(row.machine))
          /\ ~AtLeast(row, Low(row.machine)')
    /\ \A row, other \in rows' \ rows : row = other
    /\ \A m \in Machines : AtLeast(Low(m)', Low(m))

-------------------------------------------------------------------------------
\* The lowest id a machine can still issue is an id of it.
LEMMA LowTyped ==
    ASSUME LedgerInv, NEW m \in Machines
    PROVE  IsId(Low(m))
    BY LowIsId DEF LedgerInv, LedgerTypeOK, Low

\* A ledger row has an id and a machine.
LEMMA RowTyped ==
    ASSUME LedgerInv, NEW row \in rows
    PROVE  IsId(row) /\ row.machine \in Machines
    BY DEF LedgerInv, LedgerTypeOK, Row, IsId

\* LedgerInv holds when every proxy has booted on an empty ledger.
LEMMA LedgerStarts ==
    ASSUME LedgerInit
    PROVE  LedgerInv
<1>1. IsFiniteSet({})
    BY FS_EmptySet
<1>. QED
    BY <1>1, IdAssumption
       DEF LedgerInit, LedgerInv, LedgerTypeOK, Sane, Generator, Fresh, Row

\* A clock reading is a positive instant, past the boot of a fresh process.
LEMMA ClockTyped ==
    ASSUME LedgerInv, NEW m \in Machines, NEW now \in Clock(m)
    PROVE  /\ now \in Nat /\ now > 0 /\ now > Epoch
           /\ gen[m].lastMs = 0 => now > bootMs[m]
           /\ bootMs[m] \in Nat
           /\ Sane(gen[m])
    BY IdAssumption, WriterAssumption
       DEF Clock, Times, LedgerInv, LedgerTypeOK

\* The generators of the other machines stay, that of m becomes g.
LEMMA GeneratorMoves ==
    ASSUME LedgerInv, NEW m \in Machines, NEW g, Sane(g), g.lastMs > Epoch,
           AtLeast(LowId(g, bootMs[m]), Low(m)),
           gen' = [gen EXCEPT ![m] = g], bootMs' = bootMs
    PROVE  /\ gen' \in [Machines -> Generator]
           /\ bootMs' \in [Machines -> Nat]
           /\ \A n \in Machines : /\ Sane(gen'[n])
                                  /\ gen'[n].lastMs = 0 \/ gen'[n].lastMs > Epoch
                                  /\ bootMs'[n] >= Epoch
           /\ Low(m)' = LowId(g, bootMs[m])
           /\ \A n \in Machines : AtLeast(Low(n)', Low(n))
<1>1. /\ gen \in [Machines -> Generator] /\ bootMs \in [Machines -> Nat]
      /\ gen'[m] = g /\ \A n \in Machines \ {m} : gen'[n] = gen[n]
    BY DEF LedgerInv, LedgerTypeOK
<1>2. gen' \in [Machines -> Generator] /\ bootMs' \in [Machines -> Nat]
    BY <1>1 DEF Sane
<1>3. \A n \in Machines : /\ Sane(gen'[n])
                          /\ gen'[n].lastMs = 0 \/ gen'[n].lastMs > Epoch
                          /\ bootMs'[n] >= Epoch
    BY <1>1 DEF LedgerInv
<1>4. Low(m)' = LowId(g, bootMs[m])
    BY <1>1 DEF Low
<1>5. ASSUME NEW n \in Machines
      PROVE  AtLeast(Low(n)', Low(n))
  <2>1. CASE n = m
    BY <1>4, <2>1
  <2>2. CASE n # m
    <3>1. Low(n)' = Low(n)
      BY <1>1, <2>2 DEF Low
    <3>2. IsId(Low(n))
      BY LowTyped
    <3>. QED
      BY <3>1, <3>2, IdAssumption DEF IsId, AtLeast
  <2>. QED
    BY <2>1, <2>2
<1>. QED
    BY <1>2, <1>3, <1>4, <1>5

\* recordUsage (ledger.go:214-231): the new row is above everything its machine
\* can have issued, and below everything it will issue.
LEMMA RecordGrows ==
    ASSUME LedgerInv, NEW m \in Machines, NEW k \in Keys, NEW now \in Clock(m),
           RecordUsage(m, k, now)
    PROVE  LedgerInv' /\ Grows
<1>. DEFINE g == uuidv7(gen[m], now)
            b == bootMs[m]
<1>1. /\ now \in Nat /\ now > 0 /\ now > Epoch
      /\ gen[m].lastMs = 0 => now > b
      /\ b \in Nat /\ Sane(gen[m])
    BY ClockTyped
<1>2. /\ Sane(g) /\ g.lastMs > 0
      /\ IsId([ms |-> g.lastMs, seq |-> g.seq])
      /\ AtLeast([ms |-> g.lastMs, seq |-> g.seq], LowId(gen[m], b))
      /\ ~AtLeast([ms |-> g.lastMs, seq |-> g.seq], LowId(g, b))
      /\ AtLeast(LowId(g, b), LowId(gen[m], b))
    BY <1>1, UuidStep
<1>3. g.lastMs > Epoch
  <2>1. gen[m].lastMs = 0 \/ gen[m].lastMs > Epoch
    BY DEF LedgerInv
  <2>. QED
    BY <1>1, <2>1, IdAssumption DEF uuidv7, Sane, Generator
<1>4. PICK rnd \in Rnd :
        LET row == [machine |-> m, ms |-> gen'[m].lastMs, seq |-> gen'[m].seq,
                    rnd |-> rnd, key |-> k]
        IN  row \notin rows /\ rows' = rows \cup {row}
    BY DEF RecordUsage
<1>5. gen' = [gen EXCEPT ![m] = g] /\ bootMs' = bootMs
    BY DEF RecordUsage
<1>. DEFINE new == [machine |-> m, ms |-> g.lastMs, seq |-> g.seq,
                    rnd |-> rnd, key |-> k]
<1>6. new \notin rows /\ rows' = rows \cup {new}
  <2>1. gen'[m] = g
    BY <1>5 DEF LedgerInv, LedgerTypeOK
  <2>. QED
    BY <1>4, <2>1
<1>. HIDE DEF g, b
<1>7. /\ gen' \in [Machines -> Generator]
      /\ bootMs' \in [Machines -> Nat]
      /\ \A n \in Machines : /\ Sane(gen'[n])
                             /\ gen'[n].lastMs = 0 \/ gen'[n].lastMs > Epoch
                             /\ bootMs'[n] >= Epoch
      /\ Low(m)' = LowId(g, b)
      /\ \A n \in Machines : AtLeast(Low(n)', Low(n))
    BY <1>2, <1>3, <1>5, GeneratorMoves DEF Low, b
<1>8. /\ new \in Row /\ new.machine = m /\ new.ms > Epoch
      /\ AtLeast(new, Low(m)) /\ ~AtLeast(new, Low(m)')
    BY <1>2, <1>3, <1>7 DEF Row, IsId, AtLeast, Low, b
<1>. HIDE DEF new
<1>9. LedgerInv'
  <2>1. IsFiniteSet(rows')
    BY <1>6, FS_AddElement DEF LedgerInv
  <2>. QED
    BY <1>6, <1>7, <1>8, <2>1 DEF LedgerInv, LedgerTypeOK
<1>10. Grows
    BY <1>6, <1>7, <1>8 DEF Grows
<1>. QED
    BY <1>9, <1>10

\* An id spent without a row moves the generator all the same.
LEMMA FailureGrows ==
    ASSUME LedgerInv, NEW m \in Machines, NEW now \in Clock(m),
           RecordUsageFails(m, now)
    PROVE  LedgerInv' /\ Grows
<1>1. /\ now \in Nat /\ now > 0 /\ now > Epoch
      /\ gen[m].lastMs = 0 => now > bootMs[m]
      /\ bootMs[m] \in Nat /\ Sane(gen[m])
    BY ClockTyped
<1>2. /\ Sane(uuidv7(gen[m], now))
      /\ AtLeast(LowId(uuidv7(gen[m], now), bootMs[m]), Low(m))
    BY <1>1, UuidStep DEF Low
<1>3. uuidv7(gen[m], now).lastMs > Epoch
  <2>1. gen[m].lastMs = 0 \/ gen[m].lastMs > Epoch
    BY DEF LedgerInv
  <2>. QED
    BY <1>1, <2>1, IdAssumption DEF uuidv7, Sane, Generator
<1>4. /\ gen' = [gen EXCEPT ![m] = uuidv7(gen[m], now)]
      /\ bootMs' = bootMs /\ rows' = rows
    BY DEF RecordUsageFails
<1>. QED
    BY <1>2, <1>3, <1>4, GeneratorMoves DEF LedgerInv, LedgerTypeOK, Grows

\* A write, stored or failed, moves the ledger forward (ledger.go:214-231).
LEMMA WriteGrows ==
    ASSUME LedgerInv, Write
    PROVE  LedgerInv' /\ Grows
    BY RecordGrows, FailureGrows DEF Write

\* usageFloor (ledger.go:182-194) moves the generator to the clock.
LEMMA FloorGrows ==
    ASSUME LedgerInv, NEW m \in Machines, NEW now \in Clock(m),
           gen' = [gen EXCEPT ![m] = floorMoves(gen[m], now)],
           bootMs' = bootMs, rows' = rows
    PROVE  /\ LedgerInv' /\ Grows
           /\ Low(m)' = lowestNext(gen'[m])
<1>1. /\ now \in Nat /\ now > 0 /\ now > Epoch
      /\ gen[m].lastMs = 0 => now > bootMs[m]
      /\ bootMs[m] \in Nat /\ Sane(gen[m])
    BY ClockTyped
<1>2. /\ Sane(floorMoves(gen[m], now)) /\ floorMoves(gen[m], now).lastMs > 0
      /\ AtLeast(LowId(floorMoves(gen[m], now), bootMs[m]), Low(m))
    BY <1>1, FloorStep DEF Low
<1>3. floorMoves(gen[m], now).lastMs > Epoch
  <2>1. gen[m].lastMs = 0 \/ gen[m].lastMs > Epoch
    BY DEF LedgerInv
  <2>. QED
    BY <1>1, <2>1, IdAssumption DEF floorMoves, Sane, Generator
<1>4. LedgerInv' /\ Grows
    BY <1>2, <1>3, GeneratorMoves DEF LedgerInv, LedgerTypeOK, Grows
<1>5. gen'[m] = floorMoves(gen[m], now)
    BY DEF LedgerInv, LedgerTypeOK
<1>6. Low(m)' = lowestNext(gen'[m])
    BY <1>2, <1>5 DEF Low, LowId
<1>. QED
    BY <1>4, <1>6

\* A restart keeps the volume's rows, and the invariant of the ledger.
LEMMA RestartKeepsLedger ==
    ASSUME LedgerInv, NEW m \in Machines, RestartProxy(m)
    PROVE  LedgerInv' /\ rows' = rows
    BY WriterAssumption, IdAssumption
       DEF RestartProxy, LedgerInv, LedgerTypeOK, Sane, Generator, Fresh

\* A restart loses the generator; the clock stands in for it.
LEMMA RestartGrows ==
    ASSUME LedgerInv, NEW m \in Machines, RestartProxy(m), MaxStepBack = 0
    PROVE  Grows
<1>1. rows' = rows
    BY DEF RestartProxy
<1>2. ASSUME NEW n \in Machines
      PROVE  AtLeast(Low(n)', Low(n))
  <2>1. /\ gen[n] \in Generator /\ bootMs[n] \in Nat
        /\ gen[n].lastMs = 0 => gen[n] = Fresh
    BY DEF LedgerInv, LedgerTypeOK, Sane
  <2>2. CASE n = m
    <3>1. /\ gen'[n] = Fresh /\ bootMs'[n] \in Nat
          /\ bootMs'[n] >= bootMs[n] /\ bootMs'[n] >= gen[n].lastMs
      BY <2>1, <2>2 DEF RestartProxy, LedgerInv, LedgerTypeOK, Generator
    <3>2. Low(n)' = [ms |-> bootMs'[n] + 1, seq |-> 0]
      BY <3>1 DEF Low, LowId, Fresh
    <3>. QED
      BY <2>1, <3>1, <3>2, IdAssumption
         DEF Low, LowId, lowestNext, AtLeast, Generator, Fresh
  <2>3. CASE n # m
    <3>1. Low(n)' = Low(n)
      BY <2>3 DEF RestartProxy, LedgerInv, LedgerTypeOK, Low
    <3>. QED
      BY <3>1, LowTyped, IdAssumption DEF IsId, AtLeast
  <2>. QED
    BY <2>2, <2>3
<1>. QED
    BY <1>1, <1>2 DEF Grows

\* A step that leaves the ledgers alone grows them trivially.
LEMMA LedgerRests ==
    ASSUME LedgerInv, UNCHANGED ledgerVars
    PROVE  LedgerInv' /\ Grows
<1>1. gen' = gen /\ bootMs' = bootMs /\ rows' = rows
    BY DEF ledgerVars
<1>2. \A n \in Machines : AtLeast(Low(n)', Low(n))
    BY <1>1, LowTyped, IdAssumption DEF Low, IsId, AtLeast
<1>. QED
    BY <1>1, <1>2 DEF LedgerInv, LedgerTypeOK, Grows

-------------------------------------------------------------------------------
(* The same in terms of cursors *)

LowCursor(m) == cursorOf(Low(m))

\* What a machine wrote is below what it will write, and no two of its rows
\* share a cursor.
Written ==
    /\ \A row \in rows : cursorOf(row) < LowCursor(row.machine)
    /\ \A row, other \in rows :
          /\ row.machine = other.machine
          /\ cursorOf(row) = cursorOf(other)
          => row = other

\* An id later than the epoch has a positive cursor (usage.go:123-128).
LEMMA IdCursor ==
    ASSUME NEW id, IsId(id), id.ms > Epoch
    PROVE  cursorOf(id) \in Nat /\ cursorOf(id) > 0
<1>. DEFINE e == [ms |-> Epoch, seq |-> 0]
<1>1. IsId(e)
    BY IdAssumption DEF IsId
<1>2. cursorOf(e) = 0
    BY IdAssumption DEF cursorOf, PerMs
<1>3. ~AtLeast(e, id)
    BY <1>1, IdAssumption DEF AtLeast, IsId
<1>. HIDE DEF e
<1>4. /\ cursorOf(id) \in Int /\ cursorOf(e) \in Int
      /\ AtLeast(e, id) <=> cursorOf(e) >= cursorOf(id)
    BY <1>1, CursorOrder
<1>. QED
    BY <1>2, <1>3, <1>4

\* So a ledger row has one.
LEMMA RowCursor ==
    ASSUME LedgerInv, NEW row \in rows
    PROVE  cursorOf(row) \in Nat /\ cursorOf(row) > 0
    BY RowTyped, IdCursor DEF LedgerInv

\* A row that a growing step adds has a cursor at or above the lowest its
\* machine had left.
LEMMA GrowsCursor ==
    ASSUME LedgerInv, LedgerInv', Grows
    PROVE  /\ \A m \in Machines : /\ LowCursor(m) \in Int
                                  /\ LowCursor(m)' \in Int
                                  /\ LowCursor(m)' >= LowCursor(m)
           /\ \A row \in rows : cursorOf(row) \in Int /\ row.machine \in Machines
           /\ \A row \in rows' : cursorOf(row) \in Int /\ row.machine \in Machines
           /\ \A row \in rows' \ rows :
                 /\ cursorOf(row) >= LowCursor(row.machine)
                 /\ cursorOf(row) < LowCursor(row.machine)'
<1>1. \A m \in Machines : IsId(Low(m))
    BY LowTyped
<1>2. \A m \in Machines : IsId(Low(m)')
    BY LowIsId DEF LedgerInv, LedgerTypeOK, Low
<1>3. \A row \in rows' : IsId(row) /\ row.machine \in Machines
    BY DEF LedgerInv, LedgerTypeOK, Row, IsId
<1>4. \A m \in Machines : /\ LowCursor(m) \in Int
                          /\ LowCursor(m)' \in Int
                          /\ LowCursor(m)' >= LowCursor(m)
    BY <1>1, <1>2, CursorOrder DEF LowCursor, Grows
<1>5. \A row \in rows' : cursorOf(row) \in Int
    BY <1>3, CursorOrder
<1>6. ASSUME NEW row \in rows' \ rows
      PROVE  /\ cursorOf(row) >= LowCursor(row.machine)
             /\ cursorOf(row) < LowCursor(row.machine)'
  <2>1. /\ IsId(row) /\ row.machine \in Machines
        /\ AtLeast(row, Low(row.machine)) /\ ~AtLeast(row, Low(row.machine)')
    BY <1>3 DEF Grows
  <2>2. IsId(Low(row.machine)) /\ IsId(Low(row.machine)')
    BY <1>1, <1>2, <2>1
  <2>3. cursorOf(row) >= LowCursor(row.machine)
    BY <2>1, <2>2, CursorOrder DEF LowCursor
  <2>4. /\ cursorOf(row) \in Int /\ cursorOf(Low(row.machine)') \in Int
        /\ ~(cursorOf(row) >= cursorOf(Low(row.machine)'))
    BY <2>1, <2>2, CursorOrder
  <2>. QED
    BY <2>3, <2>4 DEF LowCursor
<1>. QED
    BY <1>3, <1>4, <1>5, <1>6 DEF Grows

\* A growing step keeps Written: rows stay below what their machine can issue,
\* and no two rows share a cursor.
LEMMA WrittenKept ==
    ASSUME LedgerInv, LedgerInv', Grows, Written
    PROVE  Written'
<1>1. ASSUME NEW row \in rows'
      PROVE  cursorOf(row) < LowCursor(row.machine)'
    BY GrowsCursor DEF Written
<1>2. ASSUME NEW row \in rows', NEW other \in rows',
             row.machine = other.machine, cursorOf(row) = cursorOf(other)
      PROVE  row = other
    BY <1>2, GrowsCursor DEF Written, Grows
<1>. QED
    BY <1>1, <1>2 DEF Written

\* Written holds of empty ledgers.
LEMMA WrittenStarts ==
    ASSUME LedgerInit
    PROVE  Written
    BY DEF LedgerInit, Written

-------------------------------------------------------------------------------
(* The same when a restarted process may read a clock that is behind *)

\* A process issues no id of an instant at or before its boot's, and the rows of
\* its machine are at most MaxStepBack ahead of that, or its own.
Recent ==
    /\ \A m \in Machines : gen[m].lastMs = 0 \/ gen[m].lastMs > bootMs[m]
    /\ \A row \in rows : \/ row.ms <= bootMs[row.machine] + MaxStepBack
                         \/ row.ms <= gen[row.machine].lastMs

\* Recent holds of empty ledgers.
LEMMA RecentStarts ==
    ASSUME LedgerInit
    PROVE  Recent
    BY DEF LedgerInit, Recent, Fresh

\* A write keeps Recent, and its row is at most MaxStepBack behind the others.
LEMMA RecentWrite ==
    ASSUME LedgerInv, Recent, Write
    PROVE  /\ Recent'
           /\ \A row \in rows' \ rows : \A other \in rows :
                 row.machine = other.machine => row.ms + MaxStepBack >= other.ms
<1>0. PICK m \in Machines : \E now \in Clock(m) :
        \/ RecordUsageFails(m, now)
        \/ \E k \in Keys : RecordUsage(m, k, now)
    BY DEF Write
<1>1. PICK now \in Clock(m) :
        \/ RecordUsageFails(m, now)
        \/ \E k \in Keys : RecordUsage(m, k, now)
    BY <1>0
<1>. DEFINE g == uuidv7(gen[m], now)
<1>2. /\ gen' = [gen EXCEPT ![m] = g] /\ bootMs' = bootMs
      /\ \A row \in rows' \ rows : row.machine = m /\ row.ms = gen'[m].lastMs
  <2>1. CASE RecordUsageFails(m, now)
    BY <2>1 DEF RecordUsageFails
  <2>2. ASSUME NEW k \in Keys, RecordUsage(m, k, now)
        PROVE  \A row \in rows' \ rows : row.machine = m /\ row.ms = gen'[m].lastMs
    <3>1. PICK rnd \in Rnd :
            rows' = rows \cup {[machine |-> m, ms |-> gen'[m].lastMs,
                                seq |-> gen'[m].seq, rnd |-> rnd, key |-> k]}
      BY <2>2 DEF RecordUsage
    <3>. QED
      BY <3>1
  <2>3. ASSUME NEW k \in Keys, RecordUsage(m, k, now)
        PROVE  gen' = [gen EXCEPT ![m] = g] /\ bootMs' = bootMs
    BY <2>3 DEF RecordUsage
  <2>. QED
    BY <1>1, <2>1, <2>2, <2>3
<1>3. /\ now \in Nat /\ now > 0
      /\ gen[m].lastMs = 0 => now > bootMs[m]
      /\ bootMs[m] \in Nat /\ gen[m].lastMs \in Nat /\ MaxStepBack \in Nat
    BY ClockTyped, WriterAssumption DEF Sane, Generator
<1>4. /\ g.lastMs \in Nat /\ g.lastMs >= gen[m].lastMs /\ g.lastMs > bootMs[m]
    BY <1>3 DEF uuidv7, Recent
<1>5. gen'[m] = g /\ \A n \in Machines \ {m} : gen'[n] = gen[n]
    BY <1>2 DEF LedgerInv, LedgerTypeOK
<1>6. \A row \in rows : row.ms \in Nat /\ row.machine \in Machines
    BY DEF LedgerInv, LedgerTypeOK, Row
<1>. HIDE DEF g
<1>7. ASSUME NEW row \in rows' \ rows, NEW other \in rows,
             row.machine = other.machine
      PROVE  row.ms + MaxStepBack >= other.ms
  <2>1. row.ms = g.lastMs /\ other.machine = m
    BY <1>2, <1>5, <1>7
  <2>2. other.ms <= bootMs[m] + MaxStepBack \/ other.ms <= gen[m].lastMs
    BY <2>1 DEF Recent
  <2>. QED
    BY <1>3, <1>4, <1>6, <2>1, <2>2
<1>8. ASSUME NEW row \in rows'
      PROVE  \/ row.ms <= bootMs'[row.machine] + MaxStepBack
             \/ row.ms <= gen'[row.machine].lastMs
  <2>1. CASE row \in rows' \ rows
    BY <1>2, <1>4, <1>5, <2>1
  <2>2. CASE row \in rows /\ row.machine = m
    <3>1. row.ms <= bootMs[m] + MaxStepBack \/ row.ms <= gen[m].lastMs
      BY <2>2 DEF Recent
    <3>. QED
      BY <1>2, <1>3, <1>4, <1>5, <1>6, <2>2, <3>1
  <2>3. CASE row \in rows /\ row.machine # m
    BY <1>2, <1>5, <1>6, <2>3 DEF Recent
  <2>. QED
    BY <2>1, <2>2, <2>3
<1>9. \A n \in Machines : gen'[n].lastMs = 0 \/ gen'[n].lastMs > bootMs'[n]
    BY <1>2, <1>4, <1>5 DEF Recent
<1>. QED
    BY <1>7, <1>8, <1>9 DEF Recent

\* A restart keeps Recent: the new boot is at most MaxStepBack behind the last
\* id (newLedger, ledger.go:54-56, starts from nothing).
LEMMA RecentRestart ==
    ASSUME LedgerInv, Recent, NEW m \in Machines, RestartProxy(m)
    PROVE  Recent'
<1>1. /\ gen[m].lastMs \in Nat /\ bootMs[m] \in Nat /\ MaxStepBack \in Nat
      /\ \A row \in rows : row.ms \in Nat /\ row.machine \in Machines
    BY WriterAssumption DEF LedgerInv, LedgerTypeOK, Generator, Row
<1>2. /\ rows' = rows /\ gen'[m] = Fresh
      /\ bootMs'[m] \in Nat /\ bootMs'[m] >= bootMs[m]
      /\ bootMs'[m] + MaxStepBack >= gen[m].lastMs
      /\ \A n \in Machines \ {m} : gen'[n] = gen[n] /\ bootMs'[n] = bootMs[n]
    BY <1>1 DEF RestartProxy, LedgerInv, LedgerTypeOK
<1>3. ASSUME NEW row \in rows, row.machine = m
      PROVE  row.ms <= bootMs'[m] + MaxStepBack
  <2>1. row.ms <= bootMs[m] + MaxStepBack \/ row.ms <= gen[m].lastMs
    BY <1>3 DEF Recent
  <2>. QED
    BY <1>1, <1>2, <2>1
<1>. QED
    BY <1>1, <1>2, <1>3 DEF Recent, Fresh
===============================================================================
