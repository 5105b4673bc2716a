---------------------------- MODULE KeyUsageProofs ----------------------------
(***************************************************************************)
(* Proofs about the key holder's pages that the api serves from Postgres   *)
(* (KeyUsage), for any number of clients, pages and page sizes, on top of  *)
(* the proofs about the poller: a client that passes max_id back is given  *)
(* no row twice, and a page leaves out none of the rows it could see.      *)
(*                                                                         *)
(* Of the poller the proofs use its types, that a stored row was written,  *)
(* and that rows and stored rows only grow.  Of a read, that the first     *)
(* SELECT is the lowest rows past the cursor: what it left out shares the  *)
(* page's last cursor, which the second SELECT asks for, or is past it.    *)
(* Of one machine there is then nothing left out, as Postgres has the      *)
(* first rows of it; that needs the proofs about passes.                   *)
(***************************************************************************)
EXTENDS KeyUsage, UsagePassProofs

\* A row Postgres has was written by a proxy.
StoredWritten == \A s \in stored : s.row \in rows

\* What the first SELECT of a page asks for, of the rows there were.
Asked(r) ==
    {row \in seen[r] : InScope(r, row) /\ AtLeast(row, usageIDAtLeast(since[r] + 1))}

ReadTypes ==
    /\ stage \in [Readers -> {"idle", "select", "tail"}]
    /\ found \in [Readers -> SUBSET rows]
    /\ seen \in [Readers -> SUBSET rows]
    /\ since \in [Readers -> Nat]
    /\ delivered \in [Readers -> SUBSET rows]
    /\ served \in [Readers -> Nat]

\* What a client has is in its scope and at or below its cursor, each row once;
\* a page that is not answered yet is the first rows past the cursor.
ReaderInv(r) ==
    /\ seen[r] \subseteq StoredRows
    /\ stage[r] = "tail" => found[r] \in FirstRows(Asked(r), Limit)
    /\ \A row \in delivered[r] : InScope(r, row) /\ cursorOf(row) <= since[r]
    /\ served[r] = Cardinality(delivered[r])

ReadInv == ReadTypes /\ \A r \in Readers : ReaderInv(r)

PageInv == TypeInv /\ StoredWritten /\ ReadInv

-------------------------------------------------------------------------------
(* The poller under the reads *)

\* A step of the poller loses neither a written nor a stored row.
LEMMA PollerStep ==
    ASSUME TypeInv, StoredWritten, [Next]_vars
    PROVE  /\ TypeInv' /\ StoredWritten'
           /\ rows \subseteq rows'
           /\ StoredRows \subseteq StoredRows'
<1>1. TypeInv'
    BY TypeNext
<1>2. rows \subseteq rows'
  <2>1. CASE Write
      BY <2>1, WriteGrows DEF TypeInv, Grows
  <2>2. CASE \E m \in Machines : RestartProxy(m)
      BY <2>2 DEF RestartProxy
  <2>3. ASSUME NEW p \in Passes, PassStep(p) PROVE rows' = rows
      BY <2>3
         DEF PassStep, StartPass, DiscoveryFails, PollMachine, FetchPage, InsertRows,
             FlipKeys, Commit, MachineFails, AllPolled, EndPass, ApiRestart, ledgerVars
  <2>4. ASSUME NEW k \in Keys, KeyStep(k) PROVE rows' = rows
      BY <2>4 DEF KeyStep, Revoke, SetBudget, DeleteTree, ledgerVars
  <2>5. CASE UNCHANGED vars
      BY <2>5 DEF vars, ledgerVars
  <2> QED BY <2>1, <2>2, <2>3, <2>4, <2>5 DEF Next, ProxyStep
<1>3. stored' = stored \/ \E p \in Passes : stored' = stored \cup ins[p]
  <2>1. CASE ProxyStep
      BY <2>1 DEF ProxyStep, dbVars
  <2>2. ASSUME NEW p \in Passes, PassStep(p)
        PROVE  stored' = stored \/ stored' = stored \cup ins[p]
      BY <2>2
         DEF PassStep, StartPass, DiscoveryFails, PollMachine, FetchPage, InsertRows,
             FlipKeys, Commit, MachineFails, AllPolled, EndPass, ApiRestart, dbVars
  <2>3. ASSUME NEW k \in Keys, KeyStep(k) PROVE stored' = stored
      BY <2>3 DEF KeyStep, Revoke, SetBudget, DeleteTree
  <2>4. CASE UNCHANGED vars
      BY <2>4 DEF vars, dbVars
  <2> QED BY <2>1, <2>2, <2>3, <2>4 DEF Next
<1>4. \A s \in stored' : s.row \in rows
    BY <1>3 DEF TypeInv, StoredWritten
<1>5. StoredWritten'
    BY <1>2, <1>4 DEF StoredWritten
<1>6. StoredRows \subseteq StoredRows'
    BY <1>3 DEF StoredRows
<1> QED BY <1>1, <1>2, <1>5, <1>6

\* A stored row is typed, has an id and a cursor.
LEMMA StoredIs ==
    ASSUME TypeInv, StoredWritten, NEW row \in StoredRows
    PROVE  row \in rows /\ IsId(row) /\ cursorOf(row) \in Nat
<1>1. row \in rows
    BY DEF StoredRows, StoredWritten
<1> QED BY <1>1, RowTyped, RowCursor DEF TypeInv

LEMMA PageInit == KeyUsageInit => PageInv
<1> SUFFICES ASSUME KeyUsageInit PROVE PageInv
    OBVIOUS
<1>1. TypeInv /\ StoredWritten
    BY TypeInit DEF KeyUsageInit, Init, StoredWritten
<1>2. Cardinality({}) = 0
    BY FS_EmptySet
<1>3. ReadTypes
    BY DEF KeyUsageInit, ReadTypes
<1>4. \A r \in Readers : ReaderInv(r)
    BY <1>2 DEF KeyUsageInit, ReaderInv
<1> QED BY <1>1, <1>3, <1>4 DEF PageInv, ReadInv

\* A step of the poller leaves the reads alone.
LEMMA PollerKeepsReads ==
    ASSUME PageInv, [Next]_vars, UNCHANGED readVars PROVE PageInv'
<1>1. /\ TypeInv' /\ StoredWritten'
      /\ rows \subseteq rows' /\ StoredRows \subseteq StoredRows'
    BY PollerStep DEF PageInv
<1>2. UNCHANGED <<stage, found, seen, since, delivered, served>>
    BY DEF readVars
<1>3. ReadTypes'
    BY <1>1, <1>2 DEF PageInv, ReadInv, ReadTypes
<1>4. ASSUME NEW r \in Readers PROVE ReaderInv(r)'
  <2>1. Asked(r)' = Asked(r) /\ \A row : InScope(r, row)' = InScope(r, row)
      BY <1>2 DEF Asked, InScope
  <2>2. ReaderInv(r)
      BY DEF PageInv, ReadInv
  <2> QED BY <1>1, <1>2, <2>1, <2>2 DEF ReaderInv
<1> QED BY <1>1, <1>3, <1>4 DEF PageInv, ReadInv

-------------------------------------------------------------------------------
(* A read *)

LEMMA IngestRests ==
    ASSUME PageInv, UNCHANGED ingestVars PROVE TypeInv' /\ StoredWritten' /\ rows' = rows
                                               /\ StoredRows' = StoredRows
<1>1. UNCHANGED vars /\ rows' = rows /\ stored' = stored
    BY DEF ingestVars, vars, ledgerVars, dbVars
<1> QED BY <1>1, TypeNext DEF PageInv, StoredWritten, StoredRows

\* A row the first SELECT asks for lies past the cursor, and the other way round.
LEMMA AskedIsPast ==
    ASSUME PageInv, NEW r \in Readers, NEW row \in StoredRows
    PROVE  /\ cursorOf(row) \in Nat
           /\ AtLeast(row, usageIDAtLeast(since[r] + 1)) <=> cursorOf(row) >= since[r] + 1
<1>1. since[r] \in Nat /\ since[r] + 1 \in Nat
    BY DEF PageInv, ReadInv, ReadTypes
<1>2. /\ IsId(usageIDAtLeast(since[r] + 1))
      /\ cursorOf(usageIDAtLeast(since[r] + 1)) = since[r] + 1
    BY <1>1, CursorInverse
<1>3. IsId(row) /\ cursorOf(row) \in Nat
    BY StoredIs DEF PageInv
<1> QED BY <1>2, <1>3, CursorOrder

\* What a client is given: rows of its scope, all past its cursor.
LEMMA AnswerIsNew ==
    ASSUME PageInv, NEW r \in Readers, stage[r] = "tail", NEW tail \in Tails(r)
    PROVE  /\ found[r] \cup tail \subseteq rows
           /\ \A row \in found[r] \cup tail :
                 InScope(r, row) /\ cursorOf(row) \in Nat /\ cursorOf(row) > since[r]
<1>1. since[r] \in Nat /\ ReaderInv(r)
    BY DEF PageInv, ReadInv, ReadTypes
<1>2. found[r] \subseteq Asked(r) /\ seen[r] \subseteq StoredRows
    BY <1>1 DEF ReaderInv, FirstRows
<1>3. ASSUME NEW row \in found[r]
      PROVE  row \in rows /\ InScope(r, row) /\ cursorOf(row) \in Nat
             /\ cursorOf(row) > since[r]
  <2>1. row \in StoredRows /\ InScope(r, row)
        /\ AtLeast(row, usageIDAtLeast(since[r] + 1))
      BY <1>2, <1>3 DEF Asked
  <2>2. cursorOf(row) \in Nat /\ cursorOf(row) >= since[r] + 1
      BY <2>1, AskedIsPast
  <2>3. row \in rows
      BY <2>1, StoredIs DEF PageInv
  <2> QED BY <1>1, <2>1, <2>2, <2>3
<1>4. tail \subseteq Ties(r)
    BY DEF Tails
<1>5. ASSUME NEW row \in tail
      PROVE  row \in rows /\ InScope(r, row) /\ cursorOf(row) \in Nat
             /\ cursorOf(row) > since[r]
  <2>1. row \in StoredRows /\ InScope(r, row)
        /\ \E last \in LastOf(found[r]) : cursorOf(row) = cursorOf(last)
      BY <1>4, <1>5 DEF Ties, StoredFrom
  <2>2. PICK last \in found[r] : cursorOf(row) = cursorOf(last)
      BY <2>1 DEF LastOf
  <2>3. cursorOf(last) \in Nat /\ cursorOf(last) > since[r]
      BY <1>3
  <2>4. row \in rows
      BY <2>1, StoredIs DEF PageInv
  <2> QED BY <2>1, <2>2, <2>3, <2>4
<1> QED BY <1>3, <1>5

\* The answer, and the cursor after it.
LEMMA AnswerMoves ==
    ASSUME PageInv, NEW r \in Readers, stage[r] = "tail",
           NEW answer, answer \subseteq rows,
           \A row \in answer : InScope(r, row) /\ cursorOf(row) \in Nat
                               /\ cursorOf(row) > since[r],
           Answer(r, answer)
    PROVE  /\ since' \in [Readers -> Nat] /\ since'[r] >= since[r]
           /\ \A row \in answer : cursorOf(row) <= since'[r]
           /\ since'[r] # since[r] => \E row \in answer : since'[r] = cursorOf(row)
           /\ \A o \in Readers : o # r => since'[o] = since[o]
<1>1. since \in [Readers -> Nat]
    BY DEF PageInv, ReadInv, ReadTypes
<1>2. CASE answer = {} /\ UNCHANGED since
    BY <1>1, <1>2
<1>3. ASSUME NEW row \in answer, IsMaxId(cursorOf(row), answer),
             since' = [since EXCEPT ![r] = cursorOf(row)]
      PROVE  /\ since' \in [Readers -> Nat] /\ since'[r] >= since[r]
             /\ \A q \in answer : cursorOf(q) <= since'[r]
             /\ since'[r] # since[r] => \E q \in answer : since'[r] = cursorOf(q)
             /\ \A o \in Readers : o # r => since'[o] = since[o]
  <2>1. since'[r] = cursorOf(row) /\ since' \in [Readers -> Nat]
        /\ \A o \in Readers : o # r => since'[o] = since[o]
      BY <1>1, <1>3
  <2>2. cursorOf(row) \in Nat /\ cursorOf(row) > since[r] /\ since[r] \in Nat
      BY <1>1
  <2>3. \A q \in answer : cursorOf(q) <= cursorOf(row)
      BY <1>3 DEF IsMaxId
  <2> QED BY <2>1, <2>2, <2>3
<1> QED BY <1>2, <1>3 DEF Answer

\* New rows are counted once.
LEMMA AnswerCounts ==
    ASSUME PageInv, NEW r \in Readers, NEW answer, answer \subseteq rows,
           \A row \in answer : cursorOf(row) \in Nat /\ cursorOf(row) > since[r]
    PROVE  /\ Cardinality(delivered[r] \cup answer) = served[r] + Cardinality(answer)
           /\ Cardinality(answer) \in Nat
<1>1. IsFiniteSet(rows) /\ delivered[r] \subseteq rows /\ since[r] \in Nat
      /\ ReaderInv(r)
    BY DEF PageInv, ReadInv, ReadTypes, TypeInv, LedgerInv
<1>2. IsFiniteSet(answer) /\ IsFiniteSet(delivered[r])
    BY <1>1, FS_Subset
<1>3. delivered[r] \cap answer = {}
  <2>1. \A row \in delivered[r] : cursorOf(row) <= since[r]
      BY <1>1 DEF ReaderInv
  <2> QED BY <1>1, <2>1
<1>4. Cardinality(delivered[r]) \in Nat /\ Cardinality(answer) \in Nat
      /\ Cardinality({}) = 0
    BY <1>2, FS_CardinalityType, FS_EmptySet
<1>5. Cardinality(delivered[r] \cup answer)
        = Cardinality(delivered[r]) + Cardinality(answer)
            - Cardinality(delivered[r] \cap answer)
    BY <1>2, FS_Union
<1>6. Cardinality(delivered[r] \cap answer) = 0
    BY <1>3, <1>4
<1> QED BY <1>1, <1>4, <1>5, <1>6 DEF ReaderInv

LEMMA RespondKeeps ==
    ASSUME PageInv, NEW r \in Readers, Respond(r) PROVE PageInv'
<1>1. PICK tail \in Tails(r) : Answer(r, found[r] \cup tail)
    BY DEF Respond
<1>2. /\ stage[r] = "tail" /\ stage' = [stage EXCEPT ![r] = "idle"]
      /\ found' = [found EXCEPT ![r] = {}] /\ seen' = [seen EXCEPT ![r] = {}]
      /\ UNCHANGED ingestVars
    BY DEF Respond
<1> DEFINE answer == found[r] \cup tail
<1>3. /\ answer \subseteq rows
      /\ \A row \in answer : InScope(r, row) /\ cursorOf(row) \in Nat
                             /\ cursorOf(row) > since[r]
    BY <1>2, AnswerIsNew
<1>4. Answer(r, answer)
    BY <1>1
<1> HIDE DEF answer
<1>5. /\ since' \in [Readers -> Nat] /\ since'[r] >= since[r]
      /\ \A row \in answer : cursorOf(row) <= since'[r]
      /\ \A o \in Readers : o # r => since'[o] = since[o]
    BY <1>2, <1>3, <1>4, AnswerMoves
<1>6. /\ Cardinality(delivered[r] \cup answer) = served[r] + Cardinality(answer)
      /\ Cardinality(answer) \in Nat
    BY <1>3, AnswerCounts
<1>7. /\ delivered' = [delivered EXCEPT ![r] = @ \cup answer]
      /\ served' = [served EXCEPT ![r] = @ + Cardinality(answer)]
    BY <1>4 DEF Answer
<1>8. TypeInv' /\ StoredWritten' /\ rows' = rows /\ StoredRows' = StoredRows
    BY <1>2, IngestRests
<1>9. ReadTypes /\ \A o \in Readers : ReaderInv(o)
    BY DEF PageInv, ReadInv
<1>10. ReadTypes'
    BY <1>2, <1>3, <1>5, <1>6, <1>7, <1>8, <1>9 DEF ReadTypes
<1>11. ASSUME NEW o \in Readers PROVE ReaderInv(o)'
  <2>1. \A row : InScope(o, row)' = InScope(o, row)
      BY DEF InScope
  <2>2. CASE o # r
    <3>1. /\ stage'[o] = stage[o] /\ found'[o] = found[o] /\ seen'[o] = seen[o]
          /\ since'[o] = since[o] /\ delivered'[o] = delivered[o]
          /\ served'[o] = served[o]
        BY <1>2, <1>5, <1>7, <1>9, <2>2 DEF ReadTypes
    <3>2. Asked(o)' = Asked(o)
        BY <2>1, <3>1 DEF Asked
    <3> QED BY <1>8, <1>9, <2>1, <3>1, <3>2 DEF ReaderInv
  <2>3. CASE o = r
    <3>1. /\ stage'[r] = "idle" /\ seen'[r] = {}
          /\ delivered'[r] = delivered[r] \cup answer
          /\ served'[r] = served[r] + Cardinality(answer)
        BY <1>2, <1>7, <1>9 DEF ReadTypes
    <3>2. ASSUME NEW row \in delivered[r]
          PROVE  InScope(r, row) /\ cursorOf(row) <= since'[r]
      <4>1. InScope(r, row) /\ cursorOf(row) <= since[r]
          BY <1>9 DEF ReaderInv
      <4>2. cursorOf(row) \in Nat /\ since[r] \in Nat /\ since'[r] \in Nat
          BY <1>5, <1>9, RowCursor DEF ReadTypes, PageInv, TypeInv
      <4> QED BY <1>5, <4>1, <4>2
    <3> QED BY <1>3, <1>5, <1>6, <2>1, <2>3, <3>1, <3>2 DEF ReaderInv
  <2> QED BY <2>2, <2>3
<1> QED BY <1>8, <1>10, <1>11 DEF PageInv, ReadInv

LEMMA SelectKeeps ==
    ASSUME PageInv, NEW r \in Readers, SelectPage(r) PROVE PageInv'
<1>1. /\ stage' = [stage EXCEPT ![r] = "tail"]
      /\ seen' = [seen EXCEPT ![r] = StoredRows]
      /\ UNCHANGED <<ingestVars, since, delivered, served>>
    BY DEF SelectPage
<1>2. PICK rs \in FirstRows(StoredFrom(r, usageIDAtLeast(since[r] + 1)), Limit) :
          found' = [found EXCEPT ![r] = rs]
    BY DEF SelectPage
<1>3. TypeInv' /\ StoredWritten' /\ rows' = rows /\ StoredRows' = StoredRows
    BY <1>1, IngestRests
<1>4. ReadTypes /\ \A o \in Readers : ReaderInv(o)
    BY DEF PageInv, ReadInv
<1>5. StoredRows \subseteq rows /\ rs \subseteq StoredRows
    BY <1>2, StoredIs DEF FirstRows, StoredFrom, PageInv
<1>6. ReadTypes'
    BY <1>1, <1>2, <1>3, <1>4, <1>5 DEF ReadTypes
<1>7. ASSUME NEW o \in Readers PROVE ReaderInv(o)'
  <2>1. \A row : InScope(o, row)' = InScope(o, row)
      BY DEF InScope
  <2>2. CASE o # r
    <3>1. /\ stage'[o] = stage[o] /\ found'[o] = found[o] /\ seen'[o] = seen[o]
          /\ since'[o] = since[o] /\ delivered'[o] = delivered[o]
          /\ served'[o] = served[o]
        BY <1>1, <1>2, <1>4, <2>2 DEF ReadTypes
    <3>2. Asked(o)' = Asked(o)
        BY <2>1, <3>1 DEF Asked
    <3> QED BY <1>3, <1>4, <2>1, <3>1, <3>2 DEF ReaderInv
  <2>3. CASE o = r
    <3>1. /\ found'[r] = rs /\ seen'[r] = StoredRows /\ since'[r] = since[r]
          /\ delivered'[r] = delivered[r] /\ served'[r] = served[r]
        BY <1>1, <1>2, <1>4 DEF ReadTypes
    <3>2. Asked(r)' = StoredFrom(r, usageIDAtLeast(since[r] + 1))
        BY <2>1, <2>3, <3>1 DEF Asked, StoredFrom
    <3> QED BY <1>2, <1>3, <1>4, <2>1, <2>3, <3>1, <3>2 DEF ReaderInv
  <2> QED BY <2>2, <2>3
<1> QED BY <1>3, <1>6, <1>7 DEF PageInv, ReadInv

LEMMA PageNext == PageInv /\ [KeyUsageNext]_<<ingestVars, readVars>> => PageInv'
<1> SUFFICES ASSUME PageInv, [KeyUsageNext]_<<ingestVars, readVars>> PROVE PageInv'
    OBVIOUS
<1>1. CASE Next /\ UNCHANGED readVars
    BY <1>1, PollerKeepsReads
<1>2. ASSUME NEW r \in Readers, NEW p \in Passes, PassIsOver(r, p) PROVE PageInv'
  <2>1. /\ stage[r] = "idle" /\ stage' = [stage EXCEPT ![r] = "select"]
        /\ UNCHANGED <<ingestVars, found, seen, since, delivered, served>>
      BY <1>2 DEF PassIsOver
  <2>2. TypeInv' /\ StoredWritten' /\ rows' = rows /\ StoredRows' = StoredRows
      BY <2>1, IngestRests
  <2>3. ReadTypes /\ \A o \in Readers : ReaderInv(o)
      BY DEF PageInv, ReadInv
  <2>4. ReadTypes'
      BY <2>1, <2>2, <2>3 DEF ReadTypes
  <2>5. ASSUME NEW o \in Readers PROVE ReaderInv(o)'
    <3>1. Asked(o)' = Asked(o) /\ \A row : InScope(o, row)' = InScope(o, row)
        BY <2>1 DEF Asked, InScope
    <3>2. stage'[o] = "tail" => stage[o] = "tail"
        BY <2>1, <2>3 DEF ReadTypes
    <3> QED BY <2>1, <2>2, <2>3, <3>1, <3>2 DEF ReaderInv
  <2> QED BY <2>2, <2>4, <2>5 DEF PageInv, ReadInv
<1>3. ASSUME NEW r \in Readers, SelectPage(r) PROVE PageInv'
    BY <1>3, SelectKeeps
<1>4. ASSUME NEW r \in Readers, Respond(r) PROVE PageInv'
    BY <1>4, RespondKeeps
<1>5. CASE UNCHANGED <<ingestVars, readVars>>
  <2>1. [Next]_vars /\ UNCHANGED readVars
      BY <1>5 DEF ingestVars, vars
  <2> QED BY <2>1, PollerKeepsReads
<1> QED BY <1>1, <1>2, <1>3, <1>4, <1>5 DEF KeyUsageNext, ReadStep

LEMMA PagesHold == KeyUsageSpec => []PageInv
BY PageInit, PageNext, PTL DEF KeyUsageSpec

-------------------------------------------------------------------------------
(* Theorems *)

\* No row reaches a client twice, though a page takes two SELECTs and passes
\* commit rows between them, and none outside its scope (routes/usage.ts:247-264).
THEOREM PagesDeliverOnce == KeyUsageSpec => []DeliveredOnce
<1>1. PageInv => DeliveredOnce
    BY DEF PageInv, ReadInv, ReaderInv, DeliveredOnce
<1> QED BY <1>1, PagesHold, PTL

\* The cursor of a page is the last row's of the first SELECT.
LEMMA MaxIdIsLast ==
    ASSUME PageInv, NEW r \in Readers, Respond(r), since'[r] # since[r]
    PROVE  \E last \in LastOf(found[r]) : cursorOf(last) = since'[r]
<1>1. PICK tail \in Tails(r) : Answer(r, found[r] \cup tail)
    BY DEF Respond
<1> DEFINE answer == found[r] \cup tail
<1>2. /\ answer \subseteq rows
      /\ \A q \in answer : InScope(r, q) /\ cursorOf(q) \in Nat /\ cursorOf(q) > since[r]
    BY AnswerIsNew DEF Respond
<1>3. Answer(r, answer) /\ stage[r] = "tail"
    BY <1>1 DEF Respond
<1> HIDE DEF answer
<1>4. /\ since'[r] \in Nat
      /\ \A q \in answer : cursorOf(q) <= since'[r]
      /\ \E q \in answer : since'[r] = cursorOf(q)
    BY <1>2, <1>3, AnswerMoves
<1>6. found[r] \subseteq Asked(r) /\ seen[r] \subseteq StoredRows
    BY <1>3 DEF PageInv, ReadInv, ReaderInv, FirstRows
<1>7. \A q \in seen[r] : IsId(q) /\ cursorOf(q) \in Nat
    BY <1>6, StoredIs DEF PageInv
<1>8. PICK q \in answer : since'[r] = cursorOf(q)
    BY <1>4
<1>9. CASE q \in found[r]
  <2>1. ASSUME NEW o \in found[r] PROVE AtLeast(q, o)
    <3>1. IsId(q) /\ IsId(o)
        BY <1>6, <1>7, <1>9 DEF Asked
    <3>2. cursorOf(q) >= cursorOf(o)
        BY <1>2, <1>4, <1>8 DEF answer
    <3> QED BY <3>1, <3>2, CursorOrder
  <2> QED BY <1>8, <1>9, <2>1 DEF LastOf
<1>10. CASE q \in tail
  <2>1. q \in Ties(r)
      BY <1>10 DEF Tails
  <2> QED BY <1>8, <2>1 DEF Ties
<1> QED BY <1>9, <1>10 DEF answer

\* A row the first SELECT saw and left out, at or below the page's max_id, shares
\* the cursor of the page's last row: the second SELECT has it.
LEMMA LeftOutIsTied ==
    ASSUME PageInv, NEW r \in Readers, Respond(r), since'[r] # since[r],
           NEW row \in seen[r], InScope(r, row),
           cursorOf(row) \in (since[r] + 1) .. since'[r]
    PROVE  row \in delivered'[r]
<1>1. PICK tail \in Tails(r) : Answer(r, found[r] \cup tail)
    BY DEF Respond
<1> DEFINE answer == found[r] \cup tail
<1>2. /\ answer \subseteq rows
      /\ \A q \in answer : InScope(r, q) /\ cursorOf(q) \in Nat /\ cursorOf(q) > since[r]
    BY AnswerIsNew DEF Respond
<1>3. Answer(r, answer) /\ stage[r] = "tail"
    BY <1>1 DEF Respond
<1> HIDE DEF answer
<1>4. /\ since'[r] \in Nat
      /\ \A q \in answer : cursorOf(q) <= since'[r]
      /\ \E q \in answer : since'[r] = cursorOf(q)
    BY <1>2, <1>3, AnswerMoves
<1>5. delivered'[r] = delivered[r] \cup answer
    BY <1>3 DEF Answer, PageInv, ReadInv, ReadTypes
<1>6. /\ found[r] \in FirstRows(Asked(r), Limit) /\ found[r] \subseteq Asked(r)
      /\ seen[r] \subseteq StoredRows /\ since[r] \in Nat
    BY <1>3 DEF PageInv, ReadInv, ReadTypes, ReaderInv, FirstRows
<1>7. \A q \in seen[r] : IsId(q) /\ cursorOf(q) \in Nat
    BY <1>6, StoredIs DEF PageInv
<1>8. row \in Asked(r)
  <2>1. row \in StoredRows /\ cursorOf(row) >= since[r] + 1
      BY <1>4, <1>6, <1>7
  <2>2. AtLeast(row, usageIDAtLeast(since[r] + 1))
      BY <2>1, AskedIsPast
  <2> QED BY <2>2 DEF Asked
<1>9. PICK last \in LastOf(found[r]) : cursorOf(last) = since'[r]
  <2>1. PICK l \in LastOf(found[r]) : cursorOf(l) = since'[r]
      BY <1>3, MaxIdIsLast
  <2> QED BY <2>1
<1>10. CASE row \in found[r]
    BY <1>5, <1>10 DEF answer
<1>11. CASE row \notin found[r]
  <2>1. last \in found[r]
      BY DEF LastOf
  <2>2. AtLeast(row, last) /\ Cardinality(found[r]) = Limit
      BY <1>6, <1>8, <1>11, <2>1 DEF FirstRows
  <2>3. IsId(row) /\ IsId(last) /\ last \in seen[r]
      BY <1>6, <1>7, <2>1 DEF Asked
  <2>4. cursorOf(row) >= cursorOf(last)
      BY <2>2, <2>3, CursorOrder
  <2>5. cursorOf(row) = cursorOf(last)
      BY <1>4, <1>7, <1>9, <2>4
  <2>6. row \in StoredFrom(r, [ms |-> 0, seq |-> 0])
    <3>1. row.ms \in Nat /\ row.seq \in Nat
        BY <2>3, IdAssumption DEF IsId
    <3>2. AtLeast(row, [ms |-> 0, seq |-> 0])
        BY <3>1 DEF AtLeast
    <3> QED BY <1>6, <3>2 DEF StoredFrom
  <2>7. row \in Ties(r) \cap seen[r]
      BY <1>11, <2>5, <2>6 DEF Ties
  <2>8. row \in tail
      BY <2>2, <2>7 DEF Tails
  <2> QED BY <1>5, <2>8 DEF answer
<1> QED BY <1>10, <1>11

\* A page leaves out no row that was stored when it was read and that the next
\* `since` moves past, ties included (routes/usage.ts:251-253).
THEOREM PagesAreComplete == KeyUsageSpec => PageIsComplete
<1> DEFINE Complete ==
      \A r \in Readers :
          since'[r] # since[r] =>
              \A row \in seen[r] :
                  InScope(r, row) /\ cursorOf(row) \in (since[r] + 1) .. since'[r]
                      => row \in delivered'[r]
<1>1. PageInv /\ [KeyUsageNext]_<<ingestVars, readVars>> => Complete
  <2> SUFFICES ASSUME PageInv, [KeyUsageNext]_<<ingestVars, readVars>>,
                      NEW r \in Readers, since'[r] # since[r],
                      NEW row \in seen[r], InScope(r, row),
                      cursorOf(row) \in (since[r] + 1) .. since'[r]
               PROVE  row \in delivered'[r]
      BY DEF Complete
  <2>1. CASE UNCHANGED since
      BY <2>1
  <2>2. ASSUME NEW o \in Readers, Respond(o) PROVE row \in delivered'[r]
    <3>1. o = r
      <4>1. PICK tail \in Tails(o) : Answer(o, found[o] \cup tail)
          BY <2>2 DEF Respond
      <4>2. since \in [Readers -> Nat]
          BY DEF PageInv, ReadInv, ReadTypes
      <4> QED BY <4>1, <4>2 DEF Answer
    <3> QED BY <2>2, <3>1, LeftOutIsTied
  <2>3. (\E o \in Readers : Respond(o)) \/ UNCHANGED since
      BY DEF KeyUsageNext, ReadStep, PassIsOver, SelectPage, readVars
  <2> QED BY <2>1, <2>2, <2>3
<1> QED BY <1>1, PagesHold, PTL DEF KeyUsageSpec, PageIsComplete

-------------------------------------------------------------------------------
(* One machine.  The rows Postgres has of a machine are the first that were  *)
(* written there, so of one machine a page leaves out none below its cursor: *)
(* it takes a second machine, polled at another time, for `since` to skip.   *)

OneMachine == \A m, n \in Machines : m = n

\* A page that is being read has, with a row, every earlier one of its machine.
SeenWhole(r) ==
    \A row \in rows, q \in seen[r] :
        /\ InScope(r, row) /\ InScope(r, q)
        /\ row.machine = q.machine
        /\ cursorOf(row) <= cursorOf(q)
        => row \in seen[r]

\* The cursor a client holds is of a row it was given.
SinceGiven(r) ==
    /\ delivered[r] \subseteq StoredRows
    /\ since[r] = 0 \/ \E row \in delivered[r] : since[r] = cursorOf(row)

\* It was given every row up to it.
SkipsNothing(r) ==
    \A row \in rows :
        InScope(r, row) /\ cursorOf(row) <= since[r] => row \in delivered[r]

WholeInv ==
    /\ PageInv
    /\ BehindInv
    /\ \A r \in Readers : SeenWhole(r) /\ SinceGiven(r) /\ SkipsNothing(r)

\* A new row comes after all earlier ones of its machine.
LEMMA NewRowIsLast ==
    ASSUME BehindInv, MaxStepBack = 0, [Next]_vars,
           NEW row \in rows' \ rows, NEW q \in rows, row.machine = q.machine
    PROVE  cursorOf(row) > cursorOf(q)
<1>1. CASE ~ProxyStep
  <2>1. \A p \in Passes : PassStep(p) => rows' = rows
      BY PendingShrinks DEF BehindInv
  <2>2. \A k \in Keys : KeyStep(k) => rows' = rows
      BY PendingShrinks DEF BehindInv
  <2>3. rows' = rows
      BY <1>1, <2>1, <2>2 DEF Next, vars, ledgerVars
  <2> QED BY <2>3
<1>2. CASE ProxyStep
  <2>1. LedgerInv /\ LedgerInv' /\ Grows
    <3>1. CASE Write
        BY <3>1, WriteGrows DEF BehindInv, ChargeInv, TypeInv
    <3>2. ASSUME NEW m \in Machines, RestartProxy(m)
          PROVE  LedgerInv' /\ Grows
        BY <3>2, RestartKeepsLedger, RestartGrows
           DEF BehindInv, ChargeInv, TypeInv
    <3> QED BY <1>2, <3>1, <3>2 DEF ProxyStep, BehindInv, ChargeInv, TypeInv
  <2>2. /\ cursorOf(row) >= LowCursor(row.machine)
        /\ cursorOf(row) \in Int /\ LowCursor(row.machine) \in Int
        /\ cursorOf(q) \in Int
      BY <2>1, GrowsCursor
  <2>3. cursorOf(q) < LowCursor(q.machine)
      BY DEF BehindInv, Written
  <2> QED BY <2>2, <2>3
<1> QED BY <1>1, <1>2

\* With one row of a reader's scope the keys of all others are there.
LEMMA ScopeExists ==
    ASSUME BehindInv, NEW r \in Readers, NEW row \in rows, NEW q \in StoredRows,
           InScope(r, row), InScope(r, q)
    PROVE  Exists(row.key)
<1>1. row.key \in Keys /\ q.key \in Keys /\ ReaderKey[r] \in Keys
  <2>1. q \in rows
      BY DEF BehindInv
  <2>2. \A o \in rows : o.key \in Keys
      BY DEF BehindInv, ChargeInv, TypeInv, TypeOK, LedgerTypeOK, Row
  <2> QED BY <2>1, <2>2, KeyUsageAssumption
<1>2. Exists(q.key)
  <2>1. PICK s \in stored : s.row = q
      BY DEF StoredRows
  <2> QED BY <1>1, <2>1 DEF BehindInv, ChargeInv, GoneUncharged, ChargedBy
<1>3. \A k \in Keys : Exists(k) <=> Exists(RootOf[k])
    BY DEF BehindInv, ChargeInv, TreesWhole
<1>4. row.key = q.key \/ RootOf[row.key] = RootOf[q.key]
    BY DEF InScope
<1> QED BY <1>1, <1>2, <1>3, <1>4

\* What is stored of a machine is the first of it.
LEMMA StoredIsFirst ==
    ASSUME BehindInv, MaxStepBack = 0, NEW r \in Readers,
           NEW row \in rows, NEW q \in StoredRows,
           InScope(r, row), InScope(r, q),
           row.machine = q.machine, cursorOf(row) <= cursorOf(q)
    PROVE  row \in StoredRows
<1> SUFFICES ASSUME row \notin StoredRows PROVE FALSE
    OBVIOUS
<1>1. row \in Pending
    BY ScopeExists DEF Pending
<1>2. cursorOf(row) > cursorOf(q)
    BY <1>1 DEF BehindInv, StoredBehind
<1>3. cursorOf(row) \in Nat /\ cursorOf(q) \in Nat
    BY RowCursor DEF BehindInv, ChargeInv, TypeInv
<1> QED BY <1>2, <1>3

LEMMA WholeInit == KeyUsageInit => WholeInv
<1> SUFFICES ASSUME KeyUsageInit PROVE WholeInv
    OBVIOUS
<1>1. PageInv /\ BehindInv
    BY PageInit, BehindStarts DEF KeyUsageInit
<1>2. rows = {}
    BY DEF KeyUsageInit, Init, LedgerInit
<1> QED BY <1>1, <1>2 DEF WholeInv, KeyUsageInit, SeenWhole, SinceGiven, SkipsNothing

\* A new row is past everything a client was given or is being given.
LEMMA WholePoller ==
    ASSUME WholeInv, MaxStepBack = 0, OneMachine, [Next]_vars, UNCHANGED readVars
    PROVE  WholeInv'
<1>1. PageInv'
    BY PollerKeepsReads DEF WholeInv
<1>2. BehindInv'
  <2>1. MaxStepBack <= Overlap /\ KeepsUp /\ KeepsUp'
      BY IngestAssumption DEF KeepsUp
  <2> QED BY <2>1, BehindNext DEF WholeInv
<1>3. rows \subseteq rows' /\ StoredRows \subseteq StoredRows'
    BY PollerStep DEF WholeInv, PageInv
<1>4. UNCHANGED <<seen, since, delivered>>
    BY DEF readVars
<1>6. ASSUME NEW r \in Readers
      PROVE  /\ SeenWhole(r) /\ SinceGiven(r) /\ SkipsNothing(r)
             /\ seen[r] \subseteq rows /\ delivered[r] \subseteq rows
             /\ since[r] \in Nat
    BY DEF WholeInv, PageInv, ReadInv, ReadTypes
<1>7. ASSUME NEW row \in rows' \ rows, NEW q \in rows
      PROVE  /\ row.machine = q.machine => ~(cursorOf(row) <= cursorOf(q))
             /\ row.machine \in Machines /\ q.machine \in Machines
             /\ cursorOf(row) > 0 /\ cursorOf(row) \in Nat
  <2>1. row.machine = q.machine => cursorOf(row) > cursorOf(q)
      BY NewRowIsLast DEF WholeInv
  <2>2. cursorOf(row) \in Nat /\ cursorOf(row) > 0 /\ cursorOf(q) \in Nat
      BY <1>2, RowCursor, IdCursor
         DEF WholeInv, BehindInv, ChargeInv, TypeInv, LedgerInv, LedgerTypeOK, Row, IsId
  <2>3. row.machine \in Machines /\ q.machine \in Machines
      BY <1>2 DEF WholeInv, BehindInv, ChargeInv, TypeInv, TypeOK, LedgerTypeOK, Row
  <2> QED BY <2>1, <2>2, <2>3
<1>8. ASSUME NEW row \in rows' \ rows
      PROVE  cursorOf(row) \in Nat /\ cursorOf(row) > 0
    BY <1>2, IdCursor DEF BehindInv, ChargeInv, TypeInv, LedgerInv, LedgerTypeOK, Row, IsId
<1>9. ASSUME NEW r \in Readers
      PROVE  SeenWhole(r)' /\ SinceGiven(r)' /\ SkipsNothing(r)'
  <2>1. \A row : InScope(r, row)' = InScope(r, row)
      BY DEF InScope
  <2>2. SeenWhole(r)'
    <3> SUFFICES ASSUME NEW row \in rows', NEW q \in seen[r],
                        InScope(r, row), InScope(r, q),
                        row.machine = q.machine, cursorOf(row) <= cursorOf(q)
                 PROVE  row \in seen[r]
        BY <1>4, <2>1 DEF SeenWhole, cursorOf, PerMs
    <3>1. row \in rows
        BY <1>6, <1>7
    <3> QED BY <1>6, <3>1 DEF SeenWhole
  <2>3. SinceGiven(r)'
    <3>1. delivered'[r] \subseteq StoredRows'
        BY <1>3, <1>4, <1>6 DEF SinceGiven
    <3>2. since'[r] = 0 \/ \E row \in delivered'[r] : since'[r] = cursorOf(row)
        BY <1>4, <1>6 DEF SinceGiven
    <3> QED BY <3>1, <3>2 DEF SinceGiven, cursorOf, PerMs
  <2>4. SkipsNothing(r)'
    <3> SUFFICES ASSUME NEW row \in rows', InScope(r, row), cursorOf(row) <= since[r]
                 PROVE  row \in delivered[r]
        BY <1>4, <2>1 DEF SkipsNothing, cursorOf, PerMs
    <3>1. CASE row \in rows
        BY <1>6, <3>1 DEF SkipsNothing
    <3>2. CASE row \notin rows
      <4>1. cursorOf(row) \in Nat /\ cursorOf(row) > 0
          BY <1>8, <3>2
      <4>2. PICK q \in delivered[r] : since[r] = cursorOf(q)
          BY <1>6, <4>1 DEF SinceGiven
      <4>3. q \in rows
          BY <1>6
      <4>4. row.machine = q.machine
          BY <1>7, <3>2, <4>3 DEF OneMachine
      <4> QED BY <1>7, <3>2, <4>2, <4>3, <4>4
    <3> QED BY <3>1, <3>2
  <2> QED BY <2>2, <2>3, <2>4
<1> QED BY <1>1, <1>2, <1>9 DEF WholeInv

\* A read that leaves Postgres and the other clients alone.
LEMMA WholeOthers ==
    ASSUME WholeInv, UNCHANGED ingestVars, NEW o \in Readers,
           since'[o] = since[o], delivered'[o] = delivered[o], seen'[o] = seen[o]
    PROVE  SeenWhole(o)' /\ SinceGiven(o)' /\ SkipsNothing(o)'
<1>1. rows' = rows /\ StoredRows' = StoredRows
    BY IngestRests DEF WholeInv
<1>2. SeenWhole(o) /\ SinceGiven(o) /\ SkipsNothing(o)
    BY DEF WholeInv
<1>3. SeenWhole(o)'
    BY <1>1, <1>2 DEF SeenWhole, InScope, cursorOf, PerMs
<1>4. SinceGiven(o)'
    BY <1>1, <1>2 DEF SinceGiven, cursorOf, PerMs
<1>5. SkipsNothing(o)'
    BY <1>1, <1>2 DEF SkipsNothing, InScope, cursorOf, PerMs
<1> QED BY <1>3, <1>4, <1>5

LEMMA BehindRests ==
    ASSUME BehindInv, MaxStepBack = 0, UNCHANGED ingestVars
    PROVE  BehindInv'
<1>1. UNCHANGED vars
    BY DEF ingestVars, vars
<1>2. MaxStepBack <= Overlap /\ KeepsUp /\ KeepsUp'
    BY IngestAssumption DEF KeepsUp
<1> QED BY <1>1, <1>2, BehindNext

\* The first SELECT sees all there is of a machine up to any row it sees.
LEMMA WholeSelect ==
    ASSUME WholeInv, MaxStepBack = 0, NEW r \in Readers, SelectPage(r)
    PROVE  WholeInv'
<1>1. PageInv' /\ BehindInv'
    BY SelectKeeps, BehindRests DEF WholeInv, SelectPage
<1>2. /\ seen' = [seen EXCEPT ![r] = StoredRows]
      /\ UNCHANGED <<ingestVars, since, delivered>>
      /\ seen \in [Readers -> SUBSET rows]
    BY DEF SelectPage, WholeInv, PageInv, ReadInv, ReadTypes
<1>3. rows' = rows /\ StoredRows' = StoredRows
    BY <1>2, IngestRests DEF WholeInv
<1>4. ASSUME NEW o \in Readers, o # r
      PROVE  SeenWhole(o)' /\ SinceGiven(o)' /\ SkipsNothing(o)'
    BY <1>2, <1>4, WholeOthers
<1>5. SinceGiven(r) /\ SkipsNothing(r)
    BY DEF WholeInv
<1>6. SinceGiven(r)' /\ SkipsNothing(r)'
  <2>1. SinceGiven(r)'
      BY <1>2, <1>3, <1>5 DEF SinceGiven, cursorOf, PerMs
  <2>2. SkipsNothing(r)'
      BY <1>2, <1>3, <1>5 DEF SkipsNothing, InScope, cursorOf, PerMs
  <2> QED BY <2>1, <2>2
<1>7. SeenWhole(r)'
  <2> SUFFICES ASSUME NEW row \in rows, NEW q \in StoredRows,
                      InScope(r, row), InScope(r, q),
                      row.machine = q.machine, cursorOf(row) <= cursorOf(q)
               PROVE  row \in StoredRows
      BY <1>2, <1>3 DEF SeenWhole, InScope, cursorOf, PerMs
  <2> QED BY StoredIsFirst DEF WholeInv
<1> QED BY <1>1, <1>4, <1>6, <1>7 DEF WholeInv

\* The answer has what lies between the cursors: the first SELECT saw it, as it
\* saw the page's last row, which is of the same machine.
LEMMA WholeRespond ==
    ASSUME WholeInv, MaxStepBack = 0, OneMachine, NEW r \in Readers, Respond(r)
    PROVE  WholeInv'
<1>1. PageInv' /\ BehindInv'
    BY RespondKeeps, BehindRests DEF WholeInv, Respond
<1>2. PICK tail \in Tails(r) : Answer(r, found[r] \cup tail)
    BY DEF Respond
<1>3. /\ stage[r] = "tail" /\ seen' = [seen EXCEPT ![r] = {}]
      /\ UNCHANGED ingestVars
      /\ seen \in [Readers -> SUBSET rows] /\ since \in [Readers -> Nat]
      /\ delivered \in [Readers -> SUBSET rows]
    BY DEF Respond, WholeInv, PageInv, ReadInv, ReadTypes
<1>4. rows' = rows /\ StoredRows' = StoredRows
    BY <1>3, IngestRests DEF WholeInv
<1> DEFINE answer == found[r] \cup tail
<1>5. /\ answer \subseteq rows
      /\ \A row \in answer : InScope(r, row) /\ cursorOf(row) \in Nat
                             /\ cursorOf(row) > since[r]
    BY <1>3, AnswerIsNew DEF WholeInv
<1>6. /\ found[r] \subseteq Asked(r) /\ seen[r] \subseteq StoredRows
    BY <1>3 DEF WholeInv, PageInv, ReadInv, ReaderInv, FirstRows
<1>7. answer \subseteq StoredRows
    BY <1>6 DEF Asked, Tails, Ties, StoredFrom
<1>8. Answer(r, answer)
    BY <1>2
<1> HIDE DEF answer
<1>9. /\ since'[r] \in Nat
      /\ since'[r] # since[r] => \E row \in answer : since'[r] = cursorOf(row)
      /\ \A o \in Readers : o # r => since'[o] = since[o]
    BY <1>3, <1>5, <1>8, AnswerMoves DEF WholeInv
<1>10. delivered' = [delivered EXCEPT ![r] = @ \cup answer]
    BY <1>8 DEF Answer
<1>11. ASSUME NEW o \in Readers, o # r
       PROVE  SeenWhole(o)' /\ SinceGiven(o)' /\ SkipsNothing(o)'
    BY <1>3, <1>9, <1>10, <1>11, WholeOthers
<1>12. SeenWhole(r) /\ SinceGiven(r) /\ SkipsNothing(r)
    BY DEF WholeInv
<1>13. delivered'[r] = delivered[r] \cup answer
    BY <1>3, <1>10
<1>14. SeenWhole(r)'
    BY <1>3 DEF SeenWhole
<1>15. SinceGiven(r)'
  <2>1. delivered'[r] \subseteq StoredRows'
      BY <1>4, <1>7, <1>12, <1>13 DEF SinceGiven
  <2>2. since'[r] = 0 \/ \E row \in delivered'[r] : since'[r] = cursorOf(row)
      BY <1>9, <1>12, <1>13 DEF SinceGiven
  <2> QED BY <2>1, <2>2 DEF SinceGiven, cursorOf, PerMs
<1>16. SkipsNothing(r)'
  <2> SUFFICES ASSUME NEW row \in rows, InScope(r, row), cursorOf(row) <= since'[r]
               PROVE  row \in delivered'[r]
      BY <1>4 DEF SkipsNothing, InScope, cursorOf, PerMs
  <2>1. cursorOf(row) \in Nat /\ since[r] \in Nat
      BY <1>3, RowCursor DEF WholeInv, PageInv, TypeInv
  <2>2. CASE cursorOf(row) <= since[r]
      BY <1>12, <1>13, <2>2 DEF SkipsNothing
  <2>3. CASE cursorOf(row) > since[r]
    <3>1. since'[r] # since[r]
        BY <2>1, <2>3
    <3>2. PICK last \in LastOf(found[r]) : cursorOf(last) = since'[r]
        BY <3>1, MaxIdIsLast DEF WholeInv
    <3>3. last \in seen[r] /\ InScope(r, last)
        BY <1>6 DEF LastOf, Asked
    <3>4. row.machine = last.machine
      <4>1. last \in rows
          BY <1>3, <3>3
      <4>2. row.machine \in Machines /\ last.machine \in Machines
          BY <4>1 DEF WholeInv, PageInv, TypeInv, TypeOK, LedgerTypeOK, Row
      <4> QED BY <4>2 DEF OneMachine
    <3>5. row \in seen[r]
        BY <1>12, <3>2, <3>3, <3>4 DEF SeenWhole
    <3>6. cursorOf(row) \in (since[r] + 1) .. since'[r]
        BY <1>9, <2>1, <2>3
    <3> QED BY <3>1, <3>5, <3>6, LeftOutIsTied DEF WholeInv
  <2> QED BY <2>1, <2>2, <2>3
<1> QED BY <1>1, <1>11, <1>14, <1>15, <1>16 DEF WholeInv

LEMMA WholeNext ==
    ASSUME WholeInv, MaxStepBack = 0, OneMachine,
           [KeyUsageNext]_<<ingestVars, readVars>>
    PROVE  WholeInv'
<1>1. CASE Next /\ UNCHANGED readVars
    BY <1>1, WholePoller
<1>2. ASSUME NEW r \in Readers, NEW p \in Passes, PassIsOver(r, p)
      PROVE  WholeInv'
  <2>1. UNCHANGED <<ingestVars, seen, since, delivered>>
      BY <1>2 DEF PassIsOver
  <2>2. PageInv' /\ BehindInv'
      BY <1>2, <2>1, PageNext, BehindRests DEF WholeInv, KeyUsageNext, ReadStep
  <2>3. \A o \in Readers : SeenWhole(o)' /\ SinceGiven(o)' /\ SkipsNothing(o)'
      BY <2>1, WholeOthers
  <2> QED BY <2>2, <2>3 DEF WholeInv
<1>3. ASSUME NEW r \in Readers, SelectPage(r) PROVE WholeInv'
    BY <1>3, WholeSelect
<1>4. ASSUME NEW r \in Readers, Respond(r) PROVE WholeInv'
    BY <1>4, WholeRespond
<1>5. CASE UNCHANGED <<ingestVars, readVars>>
  <2>1. [Next]_vars /\ UNCHANGED readVars
      BY <1>5 DEF ingestVars, vars
  <2> QED BY <2>1, WholePoller
<1> QED BY <1>1, <1>2, <1>3, <1>4, <1>5 DEF KeyUsageNext, ReadStep

\* "a reader's `since` means the same thing on both" (routes/usage.ts:127-129) is
\* true of one proxy machine whose clock never reads behind its last id: every
\* row at or below the cursor was delivered.
THEOREM OneMachineSkipsNothing ==
    MaxStepBack = 0 /\ OneMachine => (KeyUsageSpec => []SinceSkipsNothing)
<1> SUFFICES ASSUME MaxStepBack = 0, OneMachine
             PROVE  KeyUsageSpec => []SinceSkipsNothing
    OBVIOUS
<1>1. KeyUsageInit => WholeInv
    BY WholeInit
<1>2. WholeInv /\ [KeyUsageNext]_<<ingestVars, readVars>> => WholeInv'
    BY WholeNext
<1>3. WholeInv => SinceSkipsNothing
    BY DEF WholeInv, SkipsNothing, SinceSkipsNothing
<1> QED BY <1>1, <1>2, <1>3, PTL DEF KeyUsageSpec
===============================================================================
