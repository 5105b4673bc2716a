--------------------------- MODULE UsageLedgerProofs ---------------------------
(***************************************************************************)
(* Proofs about the merged read of UsageLedger, for any number of          *)
(* machines, keys, readers, rows and page sizes.                           *)
(***************************************************************************)
EXTENDS UsageLedger, UsageWriterProofs

-------------------------------------------------------------------------------
(* Types *)

TypeInv == TypeOK /\ LedgerInv

\* The merged page is a finite part of the answers.
LEMMA MergedTyped ==
    ASSUME TypeInv, NEW r \in Readers
    PROVE  /\ MergedRows(r) \subseteq UnderFloor(r)
           /\ UnderFloor(r) \subseteq got[r]
           /\ got[r] \subseteq rows
           /\ MergedRows(r) \subseteq rows
           /\ IsFiniteSet(UnderFloor(r))
           /\ IsFiniteSet(MergedRows(r))
           /\ Cardinality(MergedRows(r)) \in Nat
<1>1. MergedRows(r) \subseteq UnderFloor(r)
    BY DEF MergedRows
<1>2. UnderFloor(r) \subseteq got[r]
    BY DEF UnderFloor
<1>3. got[r] \subseteq rows
    BY DEF TypeInv, TypeOK
<1>4. IsFiniteSet(rows)
    BY DEF TypeInv, LedgerInv
<1>5. IsFiniteSet(UnderFloor(r)) /\ IsFiniteSet(MergedRows(r))
    BY <1>1, <1>2, <1>3, <1>4, FS_Subset
<1>. QED
    BY <1>1, <1>2, <1>3, <1>5, FS_CardinalityType

\* The initial states are typed.
LEMMA TypeInit ==
    ASSUME Init
    PROVE  TypeInv
<1>1. LedgerInv
    BY LedgerStarts DEF Init
<1>. QED
    BY <1>1 DEF Init, TypeInv, TypeOK, LedgerInv, NotAsked, NoFloor

\* The variables of the reads keep their types when rows only are added.
LEMMA RowsGrowTyped ==
    ASSUME TypeOK, LedgerTypeOK', rows \subseteq rows',
           UNCHANGED <<readVars, clientVars, given>>
    PROVE  TypeOK'
    BY DEF TypeOK, readVars, clientVars

\* The record of floors only goes up, to at least the floor handed out.
LEMMA HandedOut ==
    ASSUME given \in [Machines -> Nat], NEW m \in Machines, NEW f \in Int,
           HandOut(m, f)
    PROVE  /\ given' \in [Machines -> Nat]
           /\ given'[m] \in {given[m], f}
           /\ \A n \in Machines \ {m} : given'[n] = given[n]
    BY DEF HandOut

\* Every step keeps the types, one case per action of Next.
LEMMA TypeNext ==
    ASSUME TypeInv, [Next]_vars
    PROVE  TypeInv'
<1>. USE DEF TypeInv
<1>1. CASE WriteStep
  <2>1. LedgerInv' /\ Grows
    BY <1>1, WriteGrows DEF WriteStep
  <2>. QED
    BY <1>1, <2>1, RowsGrowTyped DEF WriteStep, Grows, LedgerInv
<1>2. ASSUME NEW m \in Machines, Restart(m)
      PROVE  TypeInv'
  <2>1. LedgerInv' /\ rows' = rows
    BY <1>2, RestartKeepsLedger DEF Restart
  <2>2. TypeOK'
    BY <1>2, <2>1 DEF TypeOK, Restart, clientVars, NotAsked, NoFloor, LedgerInv
  <2>. QED
    BY <2>1, <2>2
<1>3. ASSUME NEW m \in Machines, NEW r \in Readers, NEW now \in Clock(m),
             TakeFloor(r, m, now)
      PROVE  TypeInv'
  <2>1. LedgerInv' /\ Low(m)' = lowestNext(gen'[m])
    BY <1>3, FloorGrows DEF TakeFloor
  <2>2. IsId(Low(m)')
    BY <2>1, LowIsId DEF LedgerInv, LedgerTypeOK, Low
  <2>3. cursorOf(lowestNext(gen'[m])) \in Int
    BY <2>1, <2>2, CursorOrder
  <2>4. floor' \in [Readers -> [Machines -> Int]] /\ floor'[r][m] \in Int
    BY <1>3, <2>3 DEF TypeOK, TakeFloor
  <2>5. given' \in [Machines -> Nat]
    BY <1>3, <2>4, HandedOut DEF TypeOK, TakeFloor
  <2>6. TypeOK'
    BY <1>3, <2>1, <2>4, <2>5 DEF TypeOK, TakeFloor, clientVars, LedgerInv
  <2>. QED
    BY <2>1, <2>6
<1>4. ASSUME UNCHANGED ledgerVars
      PROVE  LedgerInv' /\ rows' = rows
    BY <1>4, LedgerRests DEF ledgerVars
<1>5. ASSUME NEW r \in Readers, NEW m \in Machines, NEW n \in Limits,
             StartRead(r, m, n)
      PROVE  TypeInv'
    BY <1>4, <1>5 DEF TypeOK, StartRead, NotAsked, clientVars, LedgerInv
<1>6. ASSUME NEW r \in Readers, NEW m \in Machines, SelectRows(r, m)
      PROVE  TypeInv'
  <2>1. PICK page \in FirstRows(Matching(r, m), limit[r]) :
           got' = [got EXCEPT ![r] = @ \cup page]
    BY <1>6 DEF SelectRows
  <2>2. page \subseteq rows
    BY <2>1 DEF FirstRows, Matching
  <2>. QED
    BY <1>4, <1>6, <2>1, <2>2 DEF TypeOK, SelectRows, clientVars, LedgerInv
<1>7. ASSUME NEW r \in Readers, NEW m \in Machines, SiblingFails(r, m)
      PROVE  TypeInv'
    BY <1>4, <1>7 DEF TypeOK, SiblingFails, clientVars, LedgerInv
<1>8. ASSUME NEW r \in Readers, NEW origins \in SUBSET Machines,
             AskSiblings(r, origins)
      PROVE  TypeInv'
    BY <1>4, <1>8 DEF TypeOK, AskSiblings, clientVars, LedgerInv
<1>9. ASSUME NEW r \in Readers, LocalFails(r)
      PROVE  TypeInv'
    BY <1>4, <1>9 DEF TypeOK, LocalFails, NotAsked, NoFloor, clientVars, LedgerInv
<1>10. ASSUME NEW r \in Readers, Respond(r)
       PROVE  TypeInv'
  <2>1. /\ MergedRows(r) \subseteq rows /\ Cardinality(MergedRows(r)) \in Nat
        /\ LedgerInv' /\ rows' = rows
    BY <1>4, <1>10, MergedTyped DEF Respond
  <2>2. since' \in [Readers -> Nat]
    <3>1. since \in [Readers -> Nat]
      BY DEF TypeOK
    <3>2. CASE since' = since
      BY <3>1, <3>2
    <3>3. ASSUME NEW row \in MergedRows(r), since' = [since EXCEPT ![r] = cursorOf(row)]
          PROVE  since' \in [Readers -> Nat]
      <4>1. cursorOf(row) \in Nat
        BY <2>1, RowCursor
      <4>. QED
        BY <3>1, <3>3, <4>1
    <3>. QED
      BY <1>10, <3>2, <3>3 DEF Respond
  <2>3. passed' \in [Readers -> SUBSET Machines]
    <3>1. passed \in [Readers -> SUBSET Machines]
      BY DEF TypeOK
    <3>2. passed' \in {passed, [passed EXCEPT ![r] = @ \cup (Machines \ Answering(r))]}
      BY <1>10 DEF Respond
    <3>. HIDE DEF TypeInv
    <3>. QED
      BY <3>1, <3>2
  <2>4. /\ delivered' \in [Readers -> SUBSET rows']
        /\ served' \in [Readers -> Nat]
    BY <1>10, <2>1 DEF Respond, TypeOK
  <2>5. /\ stage' \in [Readers -> {"idle", "local", "siblings"}]
        /\ ask' \in [Readers -> [Machines ->
                        {"no", "asked", "floored", "answered", "failed"}]]
        /\ floor' \in [Readers -> [Machines -> Int]]
        /\ got' \in [Readers -> SUBSET rows']
    BY <1>10, <2>1 DEF Respond, TypeOK, NotAsked, NoFloor
  <2>. QED
    BY <1>10, <2>1, <2>2, <2>3, <2>4, <2>5 DEF TypeOK, Respond, LedgerInv
<1>11. CASE UNCHANGED vars
    BY <1>4, <1>11 DEF vars, TypeOK, readVars, clientVars, LedgerInv
<1>. QED
    BY <1>1, <1>2, <1>3, <1>5, <1>6, <1>7, <1>8, <1>9, <1>10, <1>11 DEF Next

\* Every variable keeps its type; cursors handed out are positive, and every page
\* is made of rows of the ledgers.
THEOREM TypeCorrect == Spec => []TypeOK
<1>1. Init => TypeInv
    BY TypeInit
<1>2. TypeInv /\ [Next]_vars => TypeInv'
    BY TypeNext
<1>3. TypeInv => TypeOK
    BY DEF TypeInv
<1>. QED
    BY <1>1, <1>2, <1>3, PTL DEF Spec

-------------------------------------------------------------------------------
(* No row is delivered twice *)

\* What a read has is above the reader's cursor, what the reader has is not.
OnceInv ==
    /\ TypeInv
    /\ \A r \in Readers :
          /\ \A row \in got[r] : InScope(r, row) /\ cursorOf(row) > since[r]
          /\ \A row \in delivered[r] : InScope(r, row) /\ cursorOf(row) <= since[r]
          /\ served[r] = Cardinality(delivered[r])

\* OnceInv holds initially: nothing was delivered.
LEMMA OnceInit ==
    ASSUME Init
    PROVE  OnceInv
<1>1. Cardinality({}) = 0
    BY FS_EmptySet
<1>. QED
    BY <1>1, TypeInit DEF Init, OnceInv

\* A row of the SELECT is in scope and above the cursor.
LEMMA MatchingAbove ==
    ASSUME TypeInv, NEW r \in Readers, NEW m \in Machines, NEW row \in Matching(r, m)
    PROVE  /\ row \in rows /\ row.machine = m /\ InScope(r, row)
           /\ cursorOf(row) > since[r]
<1>1. row \in rows /\ row.machine = m /\ InScope(r, row)
      /\ AtLeast(row, usageIDAtLeast(since[r] + 1))
    BY DEF Matching
<1>2. since[r] \in Nat /\ since[r] + 1 \in Nat
    BY DEF TypeInv, TypeOK
<1>3. /\ IsId(usageIDAtLeast(since[r] + 1))
      /\ cursorOf(usageIDAtLeast(since[r] + 1)) = since[r] + 1
    BY <1>2, CursorInverse
<1>4. IsId(row)
    BY <1>1, RowTyped DEF TypeInv
<1>5. cursorOf(row) \in Int /\ cursorOf(row) >= since[r] + 1
    BY <1>1, <1>3, <1>4, CursorOrder
<1>. QED
    BY <1>1, <1>2, <1>5

\* Of the steps, only SelectRows and Respond touch what OnceInv is about.
LEMMA OnceOthers ==
    ASSUME OnceInv, TypeInv', UNCHANGED clientVars,
           \A r \in Readers : got'[r] \in {got[r], {}}
    PROVE  OnceInv'
    BY DEF OnceInv, clientVars, InScope

\* SelectRows keeps OnceInv: what it reads lies above the cursor.
LEMMA OnceSelect ==
    ASSUME OnceInv, TypeInv', NEW r \in Readers, NEW m \in Machines,
           SelectRows(r, m)
    PROVE  OnceInv'
<1>1. PICK page \in FirstRows(Matching(r, m), limit[r]) :
         got' = [got EXCEPT ![r] = @ \cup page]
    BY DEF SelectRows
<1>2. \A row \in page : InScope(r, row) /\ cursorOf(row) > since[r]
    BY <1>1, MatchingAbove DEF FirstRows, OnceInv
<1>. QED
    BY <1>1, <1>2 DEF SelectRows, OnceInv, TypeInv, TypeOK, clientVars

\* The reader's cursor after an answer is the highest one it was given.
LEMMA SinceMoves ==
    ASSUME OnceInv, NEW r \in Readers, Respond(r)
    PROVE  /\ \A row \in MergedRows(r) : cursorOf(row) <= since'[r]
           /\ since'[r] >= since[r]
           /\ MergedRows(r) = {} => since'[r] = since[r]
           /\ MergedRows(r) # {} =>
                 /\ \E row \in MergedRows(r) : since'[r] = cursorOf(row)
                 /\ passed'[r] = passed[r] \cup (Machines \ Answering(r))
           /\ \A o \in Readers \ {r} : since'[o] = since[o] /\ passed'[o] = passed[o]
           /\ passed[r] \subseteq passed'[r]
<1>1. /\ since \in [Readers -> Nat] /\ passed \in [Readers -> SUBSET Machines]
      /\ MergedRows(r) \subseteq rows
      /\ \A row \in MergedRows(r) : cursorOf(row) > since[r] /\ cursorOf(row) \in Nat
    BY MergedTyped, RowCursor DEF OnceInv, TypeInv, TypeOK
<1>2. CASE MergedRows(r) = {}
    BY <1>1, <1>2 DEF Respond, IsMaxId
<1>3. CASE MergedRows(r) # {}
  <2>1. PICK row \in MergedRows(r) :
            /\ IsMaxId(cursorOf(row), MergedRows(r))
            /\ since' = [since EXCEPT ![r] = cursorOf(row)]
    BY <1>3 DEF Respond
  <2>2. passed' = [passed EXCEPT ![r] = @ \cup (Machines \ Answering(r))]
    BY <1>3 DEF Respond
  <2>. QED
    BY <1>1, <1>3, <2>1, <2>2 DEF IsMaxId
<1>. QED
    BY <1>2, <1>3

\* Respond keeps OnceInv: the page is new to the reader, whose cursor moves
\* past it.
LEMMA OnceRespond ==
    ASSUME OnceInv, TypeInv', NEW r \in Readers, Respond(r)
    PROVE  OnceInv'
<1>. DEFINE page == MergedRows(r)
<1>1. /\ page \subseteq got[r] /\ IsFiniteSet(page) /\ Cardinality(page) \in Nat
      /\ \A row \in page : InScope(r, row) /\ cursorOf(row) > since[r]
    BY MergedTyped DEF OnceInv
<1>2. /\ delivered' = [delivered EXCEPT ![r] = @ \cup page]
      /\ served' = [served EXCEPT ![r] = @ + Cardinality(page)]
      /\ got' = [got EXCEPT ![r] = {}]
    BY DEF Respond
<1>3. /\ \A row \in page : cursorOf(row) <= since'[r]
      /\ since'[r] >= since[r]
      /\ \A o \in Readers \ {r} : since'[o] = since[o]
    BY SinceMoves
<1>. HIDE DEF page
<1>4. Cardinality(delivered[r] \cup page) = Cardinality(delivered[r]) + Cardinality(page)
  <2>1. IsFiniteSet(delivered[r])
    BY FS_Subset DEF OnceInv, TypeInv, TypeOK, LedgerInv
  <2>2. delivered[r] \cap page = {}
    BY <1>1, RowCursor DEF OnceInv, TypeInv, TypeOK
  <2>3. Cardinality({}) = 0 /\ Cardinality(delivered[r]) \in Nat
    BY <2>1, FS_EmptySet, FS_CardinalityType
  <2>4. Cardinality(delivered[r] \cup page)
          = Cardinality(delivered[r]) + Cardinality(page)
              - Cardinality(delivered[r] \cap page)
    BY <1>1, <2>1, FS_Union
  <2>5. Cardinality(delivered[r] \cap page) = 0
    BY <2>2, <2>3
  <2>. QED
    BY <1>1, <2>3, <2>4, <2>5
<1>5. \A row \in delivered[r] : cursorOf(row) \in Nat
    BY RowCursor DEF OnceInv, TypeInv, TypeOK
<1>6. since \in [Readers -> Nat] /\ since' \in [Readers -> Nat]
    BY DEF OnceInv, TypeInv, TypeOK
<1>7. ASSUME NEW o \in Readers
      PROVE  /\ \A row \in got'[o] : InScope(o, row) /\ cursorOf(row) > since'[o]
             /\ \A row \in delivered'[o] : InScope(o, row) /\ cursorOf(row) <= since'[o]
             /\ served'[o] = Cardinality(delivered'[o])
  <2>1. CASE o = r
    <3>1. got'[o] = {} /\ delivered'[o] = delivered[r] \cup page
          /\ served'[o] = served[r] + Cardinality(page)
      BY <1>2, <2>1 DEF OnceInv, TypeInv, TypeOK
    <3>2. \A row \in delivered[r] : InScope(r, row) /\ cursorOf(row) <= since'[r]
      BY <1>3, <1>5, <1>6 DEF OnceInv
    <3>. QED
      BY <1>1, <1>3, <1>4, <2>1, <3>1, <3>2 DEF OnceInv
  <2>2. CASE o # r
    <3>1. /\ got'[o] = got[o] /\ delivered'[o] = delivered[o]
          /\ served'[o] = served[o] /\ since'[o] = since[o]
      BY <1>2, <1>3, <2>2 DEF OnceInv, TypeInv, TypeOK
    <3>. QED
      BY <3>1 DEF OnceInv
  <2>. QED
    BY <2>1, <2>2
<1>. QED
    BY <1>7 DEF OnceInv, InScope

\* Every step keeps OnceInv.
LEMMA OnceNext ==
    ASSUME OnceInv, [Next]_vars
    PROVE  OnceInv'
<1>1. TypeInv'
    BY TypeNext DEF OnceInv
<1>2. ASSUME NEW r \in Readers, NEW m \in Machines, SelectRows(r, m)
      PROVE  OnceInv'
    BY <1>1, <1>2, OnceSelect
<1>3. ASSUME NEW r \in Readers, Respond(r)
      PROVE  OnceInv'
    BY <1>1, <1>3, OnceRespond
<1>4. got \in [Readers -> SUBSET rows]
    BY DEF OnceInv, TypeInv, TypeOK
<1>5. CASE WriteStep \/ UNCHANGED vars
    BY <1>1, <1>5, OnceOthers DEF WriteStep, vars, readVars
<1>6. ASSUME NEW m \in Machines,
             Restart(m) \/ \E r \in Readers, now \in Clock(m) : TakeFloor(r, m, now)
      PROVE  OnceInv'
    BY <1>1, <1>6, OnceOthers DEF Restart, TakeFloor
<1>7. ASSUME NEW r \in Readers,
             \/ \E m \in Machines : \/ \E n \in Limits : StartRead(r, m, n)
                                   \/ SiblingFails(r, m)
             \/ \E origins \in SUBSET Machines : AskSiblings(r, origins)
             \/ LocalFails(r)
      PROVE  OnceInv'
  <2>1. UNCHANGED clientVars /\ \A o \in Readers : got'[o] \in {got[o], {}}
    BY <1>4, <1>7 DEF StartRead, SiblingFails, AskSiblings, LocalFails
  <2>. QED
    BY <1>1, <2>1, OnceOthers
<1>. QED
    BY <1>2, <1>3, <1>5, <1>6, <1>7 DEF Next

\* A client that follows max_id is never given a row twice, whatever clocks,
\* restarts, failing siblings and reads in parallel do (usage.go:62-65).
THEOREM DeliversOnce == Spec => []DeliveredOnce
<1>1. Init => OnceInv
    BY OnceInit
<1>2. OnceInv /\ [Next]_vars => OnceInv'
    BY OnceNext
<1>3. OnceInv => DeliveredOnce
    BY DEF OnceInv, DeliveredOnce
<1>. QED
    BY <1>1, <1>2, <1>3, PTL DEF Spec

-------------------------------------------------------------------------------
(* No row is skipped, while no process boots behind its predecessor's ids *)

\* Every step grows the ledgers.
LEMMA StepGrows ==
    ASSUME TypeInv, [Next]_vars, MaxStepBack = 0
    PROVE  LedgerInv' /\ Grows
<1>. USE DEF TypeInv
<1>1. CASE WriteStep
    BY <1>1, WriteGrows DEF WriteStep
<1>2. ASSUME NEW m \in Machines, Restart(m)
      PROVE  LedgerInv' /\ Grows
    BY <1>2, RestartKeepsLedger, RestartGrows DEF Restart
<1>3. ASSUME NEW m \in Machines, NEW r \in Readers, NEW now \in Clock(m),
             TakeFloor(r, m, now)
      PROVE  LedgerInv' /\ Grows
    BY <1>3, FloorGrows DEF TakeFloor
<1>4. ASSUME UNCHANGED ledgerVars
      PROVE  LedgerInv' /\ Grows
    BY <1>4, LedgerRests
<1>. QED
    BY <1>1, <1>2, <1>3, <1>4
       DEF Next, StartRead, SelectRows, SiblingFails, AskSiblings, LocalFails,
           Respond, vars

\* Floors are at most what the machine will issue next.
FloorsLow ==
    \A r \in Readers, m \in Machines :
        ask[r][m] \in {"floored", "answered"} => floor[r][m] <= LowCursor(m)

\* So are the floors of the reads that are over.
GivenLow == \A m \in Machines : given[m] <= LowCursor(m)

\* So is the cursor of a reader, for the machines none of its pages missed.
SinceLow ==
    \A r \in Readers, m \in Machines :
        m \notin passed[r] => since[r] < LowCursor(m)

Lower(r, row) == {q \in got[r] : cursorOf(q) < cursorOf(row)}

\* A row under its machine's floor that the answer left out has a full page below
\* it.
Left(r, m, row) ==
    /\ row.machine = m /\ InScope(r, row)
    /\ since[r] < cursorOf(row) /\ cursorOf(row) < floor[r][m]
    /\ row \notin got[r]

PagesFull ==
    \A r \in Readers, m \in Machines :
        ask[r][m] = "answered" =>
            \A row \in rows : Left(r, m, row) => limit[r] <= Cardinality(Lower(r, row))

SkipInv ==
    /\ OnceInv
    /\ Written
    /\ FloorsLow
    /\ GivenLow
    /\ SinceLow
    /\ PagesFull
    /\ NoRowSkipped

\* SkipInv holds initially: no floor was taken, nothing was delivered.
LEMMA SkipInit ==
    ASSUME Init
    PROVE  SkipInv
<1>1. OnceInv /\ LedgerInv /\ Written
    BY OnceInit, WrittenStarts DEF Init, OnceInv, TypeInv
<1>2. ASSUME NEW m \in Machines
      PROVE  0 < LowCursor(m)
  <2>. DEFINE e == [ms |-> Epoch, seq |-> 0]
  <2>1. IsId(e) /\ IsId(Low(m))
    BY <1>1, LowTyped, IdAssumption DEF IsId
  <2>2. Low(m) = [ms |-> Epoch + 1, seq |-> 0]
    BY DEF Init, LedgerInit, Low, LowId, Fresh
  <2>3. ~AtLeast(e, Low(m))
    BY <2>2, IdAssumption DEF AtLeast
  <2>4. cursorOf(e) = 0
    BY IdAssumption DEF cursorOf, PerMs
  <2>. HIDE DEF e
  <2>5. /\ cursorOf(e) \in Int /\ cursorOf(Low(m)) \in Int
        /\ ~(cursorOf(e) >= cursorOf(Low(m)))
    BY <2>1, <2>3, CursorOrder
  <2>. QED
    BY <2>4, <2>5 DEF LowCursor
<1>3. FloorsLow /\ PagesFull
    BY DEF Init, NotAsked, FloorsLow, PagesFull
<1>4. SinceLow /\ GivenLow
  <2>1. \A m \in Machines : LowCursor(m) \in Int
    BY <1>1, LowTyped, CursorOrder DEF LowCursor
  <2>. QED
    BY <1>2, <2>1 DEF Init, SinceLow, GivenLow, NoFloor
<1>5. NoRowSkipped
    BY DEF Init, LedgerInit, NoRowSkipped
<1>. QED
    BY <1>1, <1>3, <1>4, <1>5 DEF SkipInv

\* What a step that is not TakeFloor or SelectRows of r at m does to that answer:
\* drop it or leave it.
FloorKept(r, m) ==
    ask'[r][m] \in {"floored", "answered"} =>
        ask[r][m] \in {"floored", "answered"} /\ floor'[r][m] = floor[r][m]

PageKept(r, m) ==
    ask'[r][m] = "answered" =>
        /\ ask[r][m] = "answered"
        /\ floor'[r][m] = floor[r][m]
        /\ got[r] \subseteq got'[r]
        /\ since'[r] = since[r]
        /\ limit'[r] = limit[r]

\* Only TakeFloor changes the floor a machine answered with, and only SelectRows
\* the page; the other steps leave the answer or drop it.
LEMMA AnswersKept ==
    ASSUME TypeInv, [Next]_vars, NEW r \in Readers, NEW m \in Machines
    PROVE  /\ FloorKept(r, m) \/ \E now \in Clock(m) : TakeFloor(r, m, now)
           /\ PageKept(r, m) \/ SelectRows(r, m)
<1>. USE DEF TypeInv, TypeOK, FloorKept, PageKept
<1>1. CASE WriteStep \/ UNCHANGED vars
    BY <1>1 DEF WriteStep, vars, readVars, clientVars
<1>2. ASSUME NEW n \in Machines, Restart(n)
      PROVE  FloorKept(r, m) /\ PageKept(r, m)
    BY <1>2 DEF Restart, clientVars, NotAsked
<1>3. ASSUME NEW n \in Machines, NEW o \in Readers, NEW now \in Clock(n),
             TakeFloor(o, n, now), <<o, n>> # <<r, m>>
      PROVE  FloorKept(r, m)
    BY <1>3 DEF TakeFloor, clientVars
<1>4. ASSUME NEW n \in Machines, NEW o \in Readers, NEW now \in Clock(n),
             TakeFloor(o, n, now)
      PROVE  PageKept(r, m)
    BY <1>4 DEF TakeFloor, clientVars
<1>5. ASSUME NEW n \in Machines, NEW o \in Readers, SelectRows(o, n)
      PROVE  FloorKept(r, m)
    BY <1>5 DEF SelectRows, clientVars
<1>6. ASSUME NEW n \in Machines, NEW o \in Readers, SelectRows(o, n),
             <<o, n>> # <<r, m>>
      PROVE  PageKept(r, m)
    BY <1>6 DEF SelectRows, clientVars
<1>7. ASSUME NEW o \in Readers, NEW n \in Machines, NEW l \in Limits,
             StartRead(o, n, l)
      PROVE  FloorKept(r, m) /\ PageKept(r, m)
    BY <1>7 DEF StartRead, clientVars, NotAsked
<1>8. ASSUME NEW o \in Readers, NEW n \in Machines, SiblingFails(o, n)
      PROVE  FloorKept(r, m) /\ PageKept(r, m)
    BY <1>8 DEF SiblingFails, clientVars
<1>9. ASSUME NEW o \in Readers, NEW origins \in SUBSET Machines,
             AskSiblings(o, origins)
      PROVE  FloorKept(r, m) /\ PageKept(r, m)
    BY <1>9 DEF AskSiblings, clientVars
<1>10. ASSUME NEW o \in Readers, LocalFails(o)
       PROVE  FloorKept(r, m) /\ PageKept(r, m)
    BY <1>10 DEF LocalFails, clientVars, NotAsked
<1>11. ASSUME NEW o \in Readers, Respond(o)
       PROVE  FloorKept(r, m) /\ PageKept(r, m)
  <2>1. CASE o = r
    BY <1>11, <2>1 DEF Respond, NotAsked
  <2>2. CASE o # r
    <3>1. since'[r] = since[r]
      BY <1>11, <2>2 DEF Respond
    <3>. QED
      BY <1>11, <2>2, <3>1 DEF Respond
  <2>. QED
    BY <2>1, <2>2
<1>. QED
    BY <1>1, <1>2, <1>3, <1>4, <1>5, <1>6, <1>7, <1>8, <1>9, <1>10, <1>11 DEF Next

\* Every step keeps FloorsLow: a floor is below what its machine will issue.
LEMMA FloorsLowKept ==
    ASSUME SkipInv, TypeInv', [Next]_vars, MaxStepBack = 0
    PROVE  FloorsLow'
<1>. SUFFICES ASSUME NEW r \in Readers, NEW m \in Machines,
                     ask'[r][m] \in {"floored", "answered"}
              PROVE  floor'[r][m] <= LowCursor(m)'
    BY DEF FloorsLow
<1>1. /\ TypeInv /\ LedgerInv /\ LedgerInv' /\ Grows
      /\ LowCursor(m) \in Int /\ LowCursor(m)' \in Int /\ LowCursor(m)' >= LowCursor(m)
    BY StepGrows, GrowsCursor DEF SkipInv, OnceInv, TypeInv
<1>2. CASE FloorKept(r, m)
  <2>1. floor'[r][m] = floor[r][m] /\ floor[r][m] <= LowCursor(m)
    BY <1>2 DEF FloorKept, SkipInv, FloorsLow
  <2>2. floor[r][m] \in Int
    BY <1>1 DEF TypeInv, TypeOK
  <2>. QED
    BY <1>1, <2>1, <2>2
<1>3. ASSUME NEW now \in Clock(m), TakeFloor(r, m, now)
      PROVE  floor'[r][m] <= LowCursor(m)'
  <2>1. Low(m)' = lowestNext(gen'[m])
    BY <1>1, <1>3, FloorGrows DEF TakeFloor
  <2>2. floor'[r][m] = cursorOf(lowestNext(gen'[m]))
    BY <1>1, <1>3 DEF TakeFloor, TypeInv, TypeOK
  <2>. QED
    BY <1>1, <2>1, <2>2 DEF LowCursor
<1>. QED
    BY <1>1, <1>2, <1>3, AnswersKept

\* A machine's own page: what it leaves out lies past `limit` rows of it.
LEMMA SelectFull ==
    ASSUME SkipInv, TypeInv', NEW r \in Readers, NEW m \in Machines,
           SelectRows(r, m), NEW row \in rows', Left(r, m, row)'
    PROVE  limit'[r] <= Cardinality(Lower(r, row)')
<1>1. PICK page \in FirstRows(Matching(r, m), limit[r]) :
         got' = [got EXCEPT ![r] = @ \cup page]
    BY DEF SelectRows
<1>2. /\ rows' = rows /\ since' = since /\ limit' = limit /\ floor' = floor
      /\ got'[r] = got[r] \cup page
    BY <1>1 DEF SelectRows, ledgerVars, clientVars, SkipInv, OnceInv, TypeInv, TypeOK
<1>3. row \in Matching(r, m)
  <2>1. /\ row \in rows /\ row.machine = m /\ InScope(r, row)
        /\ cursorOf(row) > since[r]
    BY <1>2 DEF Left, InScope, SkipInv, OnceInv, TypeInv, TypeOK
  <2>2. /\ since[r] \in Nat /\ since[r] + 1 \in Nat
        /\ IsId(row) /\ cursorOf(row) \in Nat
    BY <2>1, RowTyped, RowCursor DEF SkipInv, OnceInv, TypeInv, TypeOK
  <2>3. /\ IsId(usageIDAtLeast(since[r] + 1))
        /\ cursorOf(usageIDAtLeast(since[r] + 1)) = since[r] + 1
    BY <2>2, CursorInverse
  <2>4. AtLeast(row, usageIDAtLeast(since[r] + 1))
    BY <2>1, <2>2, <2>3, CursorOrder
  <2>. QED
    BY <2>1, <2>4 DEF Matching
<1>4. /\ row \in Matching(r, m) \ page
      /\ page \subseteq Matching(r, m) /\ Cardinality(page) = limit[r]
      /\ \A p \in page : AtLeast(row, p)
    BY <1>1, <1>2, <1>3 DEF FirstRows, Left
<1>5. ASSUME NEW p \in page
      PROVE  p \in Lower(r, row)'
  <2>1. /\ p \in rows /\ row \in rows /\ p.machine = m /\ row.machine = m /\ p # row
    BY <1>4 DEF Matching
  <2>2. IsId(p) /\ IsId(row) /\ AtLeast(row, p)
    BY <1>4, <2>1, RowTyped DEF SkipInv, OnceInv, TypeInv
  <2>3. /\ cursorOf(p) \in Int /\ cursorOf(row) \in Int
        /\ cursorOf(row) >= cursorOf(p)
    BY <2>2, CursorOrder
  <2>4. cursorOf(row) # cursorOf(p)
    BY <2>1 DEF SkipInv, Written
  <2>5. cursorOf(p) < cursorOf(row)
    BY <2>3, <2>4
  <2>. QED
    BY <1>2, <2>5 DEF Lower
<1>6. IsFiniteSet(Lower(r, row)')
  <2>1. Lower(r, row)' \subseteq rows' /\ IsFiniteSet(rows')
    BY DEF Lower, TypeInv, TypeOK, LedgerInv
  <2>. QED
    BY <2>1, FS_Subset
<1>7. Cardinality(page) <= Cardinality(Lower(r, row)')
    BY <1>5, <1>6, FS_Subset
<1>. QED
    BY <1>2, <1>4, <1>7

\* Every step keeps PagesFull: a page holds every row of its machine above the
\* cursor and under the floor, up to the limit.
LEMMA PagesFullKept ==
    ASSUME SkipInv, TypeInv', [Next]_vars, MaxStepBack = 0
    PROVE  PagesFull'
<1>. SUFFICES ASSUME NEW r \in Readers, NEW m \in Machines, ask'[r][m] = "answered",
                     NEW row \in rows', Left(r, m, row)'
              PROVE  limit'[r] <= Cardinality(Lower(r, row)')
    BY DEF PagesFull
<1>1. TypeInv /\ LedgerInv /\ LedgerInv' /\ Grows
    BY StepGrows DEF SkipInv, OnceInv, TypeInv
<1>2. CASE SelectRows(r, m)
    BY <1>2, SelectFull
<1>3. CASE PageKept(r, m)
  <2>1. /\ ask[r][m] = "answered" /\ floor'[r][m] = floor[r][m]
        /\ got[r] \subseteq got'[r] /\ since'[r] = since[r] /\ limit'[r] = limit[r]
    BY <1>3 DEF PageKept
  <2>2. /\ row.machine = m /\ InScope(r, row) /\ row \notin got[r]
        /\ since[r] < cursorOf(row) /\ cursorOf(row) < floor[r][m]
    BY <2>1 DEF Left, InScope
  <2>3. row \in rows
    <3>1. floor[r][m] <= LowCursor(m) /\ floor[r][m] \in Int
      BY <1>1, <2>1 DEF SkipInv, FloorsLow, TypeInv, TypeOK
    <3>2. /\ LowCursor(m) \in Int /\ cursorOf(row) \in Int
          /\ row \notin rows => cursorOf(row) >= LowCursor(m)
      BY <1>1, <2>2, GrowsCursor
    <3>. QED
      BY <2>2, <3>1, <3>2
  <2>4. limit[r] <= Cardinality(Lower(r, row))
    BY <2>1, <2>2, <2>3 DEF SkipInv, PagesFull, Left
  <2>5. Lower(r, row) \subseteq Lower(r, row)'
    BY <2>1 DEF Lower
  <2>6. IsFiniteSet(Lower(r, row)')
    <3>1. Lower(r, row)' \subseteq rows' /\ IsFiniteSet(rows')
      BY DEF Lower, TypeInv, TypeOK, LedgerInv
    <3>. QED
      BY <3>1, FS_Subset
  <2>7. /\ Cardinality(Lower(r, row)) <= Cardinality(Lower(r, row)')
        /\ Cardinality(Lower(r, row)) \in Nat /\ Cardinality(Lower(r, row)') \in Nat
    BY <2>5, <2>6, FS_Subset, FS_CardinalityType
  <2>8. limit[r] \in Nat
    BY <1>1, ReaderAssumption DEF TypeInv, TypeOK
  <2>. QED
    BY <2>1, <2>4, <2>7, <2>8
<1>. QED
    BY <1>1, <1>2, <1>3, AnswersKept

\* The merged page stays under the floor of every machine that answered.
LEMMA PageUnderFloors ==
    ASSUME OnceInv, NEW r \in Readers, Respond(r), MergedRows(r) # {}
    PROVE  /\ since'[r] \in Nat /\ since[r] \in Nat
           /\ \E last \in MergedRows(r) : since'[r] = cursorOf(last)
           /\ \A m \in Machines \ passed'[r] :
                 /\ ask[r][m] = "answered" /\ m \notin passed[r]
                 /\ floor[r][m] \in Int /\ since'[r] < floor[r][m]
<1>1. PICK last \in MergedRows(r) : since'[r] = cursorOf(last)
    BY SinceMoves
<1>2. last \in UnderFloor(r) /\ last \in rows
    BY MergedTyped DEF OnceInv
<1>3. cursorOf(last) \in Nat
    BY <1>2, RowCursor DEF OnceInv, TypeInv
<1>4. \A m \in Answering(r) : cursorOf(last) < floor[r][m]
    BY <1>2 DEF UnderFloor
<1>5. passed'[r] = passed[r] \cup (Machines \ Answering(r))
    BY SinceMoves
<1>. QED
    BY <1>1, <1>3, <1>4, <1>5 DEF Answering, OnceInv, TypeInv, TypeOK

\* Every step keeps SinceLow: a cursor handed out is below what any machine that
\* answered will issue.
LEMMA SinceLowKept ==
    ASSUME SkipInv, TypeInv', [Next]_vars, MaxStepBack = 0
    PROVE  SinceLow'
<1>1. TypeInv /\ LedgerInv /\ LedgerInv' /\ Grows
    BY StepGrows DEF SkipInv, OnceInv, TypeInv
<1>2. \A m \in Machines : /\ LowCursor(m) \in Int /\ LowCursor(m)' \in Int
                          /\ LowCursor(m)' >= LowCursor(m)
    BY <1>1, GrowsCursor
<1>3. since \in [Readers -> Nat] /\ since' \in [Readers -> Nat]
    BY <1>1 DEF TypeInv, TypeOK
<1>4. ASSUME NEW r \in Readers, NEW m \in Machines,
             since'[r] = since[r], passed[r] \subseteq passed'[r], m \notin passed'[r]
      PROVE  since'[r] < LowCursor(m)'
    BY <1>2, <1>3, <1>4 DEF SkipInv, SinceLow
<1>5. CASE UNCHANGED clientVars
    BY <1>4, <1>5 DEF clientVars, SinceLow
<1>6. ASSUME NEW o \in Readers, Respond(o)
      PROVE  SinceLow'
  <2>1. ASSUME NEW r \in Readers, NEW m \in Machines, m \notin passed'[r]
        PROVE  since'[r] < LowCursor(m)'
    <3>1. CASE r # o \/ MergedRows(o) = {}
      <4>1. since'[r] = since[r] /\ passed[r] \subseteq passed'[r]
        BY <1>6, <3>1, SinceMoves DEF SkipInv
      <4>. QED
        BY <1>4, <2>1, <4>1
    <3>2. CASE r = o /\ MergedRows(o) # {}
      <4>1. /\ ask[r][m] = "answered" /\ floor[r][m] \in Int
            /\ since'[r] < floor[r][m]
        BY <1>6, <2>1, <3>2, PageUnderFloors DEF SkipInv
      <4>2. floor[r][m] <= LowCursor(m)
        BY <4>1 DEF SkipInv, FloorsLow
      <4>. QED
        BY <1>2, <1>3, <4>1, <4>2
    <3>. QED
      BY <3>1, <3>2
  <2>. QED
    BY <2>1 DEF SinceLow
<1>. QED
    BY <1>5, <1>6
       DEF Next, WriteStep, Restart, TakeFloor, StartRead, SelectRows, SiblingFails,
           AskSiblings, LocalFails, vars

\* A row the reader moves past is in the page it moves past it with.
LEMMA PageHasRow ==
    ASSUME SkipInv, NEW r \in Readers, Respond(r),
           NEW row \in rows, InScope(r, row), row.machine \notin passed'[r],
           since[r] < cursorOf(row), cursorOf(row) <= since'[r]
    PROVE  row \in MergedRows(r)
<1>. DEFINE m == row.machine
<1>1. /\ TypeInv /\ OnceInv /\ LedgerInv /\ m \in Machines
      /\ cursorOf(row) \in Nat /\ since[r] \in Nat
    BY RowTyped, RowCursor DEF SkipInv, OnceInv, TypeInv, TypeOK
<1>2. MergedRows(r) # {}
    BY <1>1, SinceMoves
<1>3. PICK last \in MergedRows(r) : since'[r] = cursorOf(last)
    BY <1>1, <1>2, PageUnderFloors
<1>4. /\ last \in UnderFloor(r) /\ cursorOf(last) \in Nat
      /\ Cardinality(Lower(r, last) \cap UnderFloor(r)) < limit[r]
      /\ IsFiniteSet(UnderFloor(r)) /\ UnderFloor(r) \subseteq got[r]
  <2>1. {q \in UnderFloor(r) : cursorOf(q) < cursorOf(last)}
           = Lower(r, last) \cap UnderFloor(r)
    BY DEF Lower, UnderFloor
  <2>2. last \in UnderFloor(r) /\ last \in rows
        /\ IsFiniteSet(UnderFloor(r)) /\ UnderFloor(r) \subseteq got[r]
    BY <1>1, MergedTyped
  <2>. QED
    BY <1>1, <2>1, <2>2, RowCursor DEF MergedRows
<1>5. ask[r][m] = "answered" /\ floor[r][m] \in Int /\ since'[r] < floor[r][m]
    BY <1>1, <1>2, PageUnderFloors
<1>. HIDE DEF m
\* Rows of the answers at or below the last one are under every floor.
<1>6. ASSUME NEW q \in got[r], cursorOf(q) <= cursorOf(last)
      PROVE  q \in UnderFloor(r)
  <2>1. cursorOf(q) \in Nat
    BY <1>1, RowCursor DEF TypeInv, TypeOK
  <2>2. \A n \in Answering(r) : cursorOf(last) < floor[r][n] /\ floor[r][n] \in Int
    BY <1>1, <1>4 DEF UnderFloor, Answering, TypeInv, TypeOK
  <2>. QED
    BY <1>4, <1>6, <2>1, <2>2 DEF UnderFloor
<1>7. Lower(r, row) \subseteq Lower(r, last) \cap UnderFloor(r)
  <2>1. ASSUME NEW q \in Lower(r, row)
        PROVE  q \in Lower(r, last) /\ q \in UnderFloor(r)
    <3>1. q \in got[r] /\ cursorOf(q) < cursorOf(row)
      BY DEF Lower
    <3>2. cursorOf(q) \in Nat
      BY <1>1, <3>1, RowCursor DEF TypeInv, TypeOK
    <3>3. cursorOf(q) < cursorOf(last)
      BY <1>1, <1>3, <1>4, <3>1, <3>2
    <3>. QED
      BY <1>4, <1>6, <3>1, <3>2, <3>3 DEF Lower
  <2>. QED
    BY <2>1
<1>8. /\ Cardinality(Lower(r, row)) \in Nat /\ limit[r] \in Nat
      /\ Cardinality(Lower(r, row)) < limit[r]
  <2>1. IsFiniteSet(Lower(r, last) \cap UnderFloor(r))
    BY <1>4, FS_Subset
  <2>2. /\ IsFiniteSet(Lower(r, row))
        /\ Cardinality(Lower(r, row)) <= Cardinality(Lower(r, last) \cap UnderFloor(r))
    BY <1>7, <2>1, FS_Subset
  <2>3. /\ Cardinality(Lower(r, row)) \in Nat
        /\ Cardinality(Lower(r, last) \cap UnderFloor(r)) \in Nat
    BY <2>1, <2>2, FS_CardinalityType
  <2>4. limit[r] \in Nat
    BY <1>1, ReaderAssumption DEF TypeInv, TypeOK
  <2>. QED
    BY <1>4, <2>2, <2>3, <2>4
<1>9. row \in got[r]
  <2>1. SUFFICES ASSUME row \notin got[r]
                 PROVE  FALSE
    OBVIOUS
  <2>2. since'[r] \in Nat
    BY <1>3, <1>4
  <2>3. Left(r, m, row)
    BY <1>1, <1>5, <2>1, <2>2 DEF Left, m
  <2>4. limit[r] <= Cardinality(Lower(r, row))
    BY <1>1, <1>5, <2>3 DEF SkipInv, PagesFull
  <2>. QED
    BY <1>8, <2>4
<1>10. row \in UnderFloor(r)
    BY <1>3, <1>6, <1>9
<1>11. {q \in UnderFloor(r) : cursorOf(q) < cursorOf(row)} = Lower(r, row)
    BY <1>4, <1>7 DEF Lower
<1>. QED
    BY <1>8, <1>10, <1>11 DEF MergedRows

\* Every step keeps NoRowSkipped, given the other three parts.
LEMMA NoRowSkippedKept ==
    ASSUME SkipInv, TypeInv', [Next]_vars, MaxStepBack = 0
    PROVE  NoRowSkipped'
<1>1. TypeInv /\ OnceInv /\ LedgerInv /\ LedgerInv' /\ Grows
    BY StepGrows DEF SkipInv, OnceInv, TypeInv
<1>2. since \in [Readers -> Nat] /\ since' \in [Readers -> Nat]
    BY <1>1 DEF TypeInv, TypeOK
\* A row written by this step is above the cursor of every reader.
<1>3. ASSUME NEW r \in Readers, NEW row \in rows', row.machine \notin passed[r],
             cursorOf(row) <= since[r]
      PROVE  row \in rows
  <2>1. row \notin rows => cursorOf(row) >= LowCursor(row.machine)
    BY <1>1, GrowsCursor
  <2>2. /\ row.machine \in Machines /\ cursorOf(row) \in Int
        /\ LowCursor(row.machine) \in Int
    BY <1>1, GrowsCursor
  <2>3. since[r] < LowCursor(row.machine)
    BY <1>3, <2>2 DEF SkipInv, SinceLow
  <2>. QED
    BY <1>2, <1>3, <2>1, <2>2, <2>3
<1>4. ASSUME NEW r \in Readers, NEW row \in rows', InScope(r, row),
             row.machine \notin passed[r], cursorOf(row) <= since[r]
      PROVE  row \in delivered[r]
    BY <1>3, <1>4 DEF SkipInv, NoRowSkipped
<1>5. CASE UNCHANGED clientVars
    BY <1>4, <1>5 DEF clientVars, NoRowSkipped, InScope
<1>6. ASSUME NEW o \in Readers, Respond(o)
      PROVE  NoRowSkipped'
  <2>. SUFFICES ASSUME NEW r \in Readers, NEW row \in rows', InScope(r, row),
                       row.machine \notin passed'[r], cursorOf(row) <= since'[r]
                PROVE  row \in delivered'[r]
    BY DEF NoRowSkipped, InScope
  <2>1. /\ rows' = rows /\ passed[r] \subseteq passed'[r]
        /\ r # o => since'[r] = since[r]
    BY <1>1, <1>6, SinceMoves DEF Respond, ledgerVars
  <2>2. delivered[r] \subseteq delivered'[r]
    BY <1>1, <1>6 DEF Respond, TypeInv, TypeOK
  <2>3. cursorOf(row) \in Nat
    BY <1>1, <2>1, RowCursor
  <2>4. CASE cursorOf(row) <= since[r]
    BY <1>4, <2>1, <2>2, <2>4
  <2>5. CASE since[r] < cursorOf(row)
    <3>1. r = o
      BY <1>2, <2>1, <2>3, <2>5
    <3>2. row \in MergedRows(r)
      BY <1>6, <2>1, <2>5, <3>1, PageHasRow
    <3>3. delivered'[r] = delivered[r] \cup MergedRows(r)
      BY <1>1, <1>6, <3>1 DEF Respond, TypeInv, TypeOK
    <3>. QED
      BY <3>2, <3>3
  <2>. QED
    BY <1>2, <2>3, <2>4, <2>5
<1>. QED
    BY <1>5, <1>6
       DEF Next, WriteStep, Restart, TakeFloor, StartRead, SelectRows, SiblingFails,
           AskSiblings, LocalFails, vars

\* Every step keeps GivenLow: only TakeFloor hands a floor out.
LEMMA GivenLowKept ==
    ASSUME SkipInv, TypeInv', [Next]_vars, MaxStepBack = 0
    PROVE  GivenLow'
<1>1. /\ TypeInv /\ LedgerInv' /\ Grows
      /\ \A m \in Machines : /\ LowCursor(m) \in Int /\ LowCursor(m)' \in Int
                             /\ LowCursor(m)' >= LowCursor(m)
                             /\ given[m] \in Nat /\ given[m] <= LowCursor(m)
    BY StepGrows, GrowsCursor DEF SkipInv, OnceInv, TypeInv, TypeOK, GivenLow
<1>2. CASE UNCHANGED given
    BY <1>1, <1>2 DEF GivenLow
<1>3. ASSUME NEW m \in Machines, NEW r \in Readers, NEW now \in Clock(m),
             TakeFloor(r, m, now)
      PROVE  GivenLow'
  <2>1. Low(m)' = lowestNext(gen'[m])
    BY <1>1, <1>3, FloorGrows DEF TakeFloor, TypeInv
  <2>2. floor'[r][m] = cursorOf(lowestNext(gen'[m])) /\ HandOut(m, floor'[r][m])
    BY <1>1, <1>3 DEF TakeFloor, TypeInv, TypeOK
  <2>4. floor'[r][m] = LowCursor(m)'
    BY <2>1, <2>2 DEF LowCursor
  <2>3. /\ given'[m] \in {given[m], floor'[r][m]}
        /\ \A n \in Machines \ {m} : given'[n] = given[n]
    BY <1>1, <2>2, <2>4, HandedOut DEF TypeInv, TypeOK
  <2>. QED
    BY <1>1, <2>4, <2>3 DEF GivenLow
<1>. QED
    BY <1>2, <1>3
       DEF Next, WriteStep, Restart, StartRead, SelectRows, SiblingFails,
           AskSiblings, LocalFails, Respond, vars

\* Every step keeps SkipInv.
LEMMA SkipNext ==
    ASSUME SkipInv, [Next]_vars, MaxStepBack = 0
    PROVE  SkipInv'
<1>1. OnceInv' /\ TypeInv'
    BY OnceNext DEF SkipInv, OnceInv
<1>2. Written'
    BY StepGrows, WrittenKept DEF SkipInv, OnceInv, TypeInv
<1>. QED
    BY <1>1, <1>2, FloorsLowKept, GivenLowKept, SinceLowKept, PagesFullKept,
       NoRowSkippedKept
       DEF SkipInv

-------------------------------------------------------------------------------
(* The results *)

\* A later read never finds a row below a cursor already handed out
\* (usage.go:57-60), as long as a restarted proxy never reads a clock behind the
\* ids it issued before; MC_UsageLedgerClock shows that it needs to.
THEOREM SkipsNoRow == MaxStepBack = 0 => (Spec => []NoRowSkipped)
<1>. SUFFICES ASSUME MaxStepBack = 0
              PROVE  Spec => []NoRowSkipped
    OBVIOUS
<1>1. Init => SkipInv
    BY SkipInit
<1>2. SkipInv /\ [Next]_vars => SkipInv'
    BY SkipNext
<1>3. SkipInv => NoRowSkipped
    BY DEF SkipInv
<1>. QED
    BY <1>1, <1>2, <1>3, PTL DEF Spec

\* Ids of a machine only grow (ledger.go:144-147), restarts included: what lets
\* the poller page by `usage_id > after`.
THEOREM IdsOnlyGrow == MaxStepBack = 0 => (Spec => IdsGrow)
<1>. SUFFICES ASSUME MaxStepBack = 0
              PROVE  Spec => IdsGrow
    OBVIOUS
<1>1. Init => SkipInv
    BY SkipInit
<1>2. SkipInv /\ [Next]_vars => SkipInv'
    BY SkipNext
<1>3. ASSUME SkipInv, [Next]_vars
      PROVE  \A new \in rows' \ rows, old \in rows :
                new.machine = old.machine => cursorOf(new) > cursorOf(old)
  <2>1. LedgerInv /\ LedgerInv' /\ Grows /\ Written
    BY <1>3, StepGrows DEF SkipInv, OnceInv, TypeInv
  <2>2. \A new \in rows' \ rows :
           /\ cursorOf(new) \in Int /\ new.machine \in Machines
           /\ LowCursor(new.machine) \in Int
           /\ cursorOf(new) >= LowCursor(new.machine)
    BY <2>1, GrowsCursor
  <2>3. \A old \in rows : cursorOf(old) \in Int /\ cursorOf(old) < LowCursor(old.machine)
    BY <2>1, GrowsCursor DEF Written
  <2>. QED
    BY <2>2, <2>3
<1>. QED
    BY <1>1, <1>2, <1>3, PTL DEF Spec, IdsGrow

\* A floor handed out holds for good (ledger.go:176-181): no row is ever written
\* under it, whatever became of the read that asked for it.
THEOREM FloorsAlwaysHold == MaxStepBack = 0 => (Spec => FloorsHold)
<1>. SUFFICES ASSUME MaxStepBack = 0
              PROVE  Spec => FloorsHold
    OBVIOUS
<1>1. Init => SkipInv
    BY SkipInit
<1>2. SkipInv /\ [Next]_vars => SkipInv'
    BY SkipNext
<1>3. ASSUME SkipInv, [Next]_vars
      PROVE  \A row \in rows' \ rows : cursorOf(row) >= given[row.machine]
  <2>1. TypeOK /\ LedgerInv /\ LedgerInv' /\ Grows /\ GivenLow
    BY <1>3, StepGrows DEF SkipInv, OnceInv, TypeInv
  <2>2. \A row \in rows' \ rows :
           /\ cursorOf(row) \in Int /\ row.machine \in Machines
           /\ LowCursor(row.machine) \in Int
           /\ cursorOf(row) >= LowCursor(row.machine)
    BY <2>1, GrowsCursor
  <2>3. \A m \in Machines : given[m] \in Nat /\ given[m] <= LowCursor(m)
    BY <2>1 DEF TypeOK, GivenLow
  <2>. QED
    BY <2>2, <2>3
<1>. QED
    BY <1>1, <1>2, <1>3, PTL DEF Spec, FloorsHold
===============================================================================
