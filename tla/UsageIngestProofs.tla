--------------------------- MODULE UsageIngestProofs ---------------------------
(***************************************************************************)
(* Proofs about the poller of UsageIngest, for any number of machines,     *)
(* passes, keys and rows, any prices and budgets and any page size: what   *)
(* is stored is stored once and charged once, to the right keys, and the   *)
(* keys' status follows.                                                   *)
(***************************************************************************)
EXTENDS UsageIngest, UsageWriterProofs

-------------------------------------------------------------------------------
(* Sums.  A fold over a set is a recursive function on its subsets: that the *)
(* function exists, and that the order of the elements does not matter, is   *)
(* proved here by looking at a smallest set for which it would not hold.     *)

\* What the charges of a set cost together.
CostOf(charges) == MapThenSumSet(LAMBDA s : s.cost, charges)

\* Every family of finite sets has a member none other is part of.
LEMMA SmallestSet ==
    ASSUME NEW S, NEW F, F \subseteq FiniteSubsetsOf(S), F # {}
    PROVE  \E T \in F : \A U \in F : U \subseteq T => U = T
<1>1. \E T \in F : \A U \in F : ~ (<<U, T>> \in StrictSubsetOrdering(S))
    BY FS_StrictSubsetOrderingWellFounded, WFMin
<1>. QED
    BY <1>1 DEF StrictSubsetOrdering, FiniteSubsetsOf

\* The recursive function of the fold: it takes out any element, one by one.
OneOf(s) == CHOOSE x \in s : TRUE

IsSum(f, S) ==
    f = [s \in SUBSET S |-> IF s = {} THEN 0 ELSE OneOf(s).cost + f[s \ {OneOf(s)}]]

Sums(S) == CHOOSE f : IsSum(f, S)

\* The fold is that function.
LEMMA CostIsSum ==
    ASSUME NEW S
    PROVE  CostOf(S) = Sums(S)[S]
    BY DEF CostOf, MapThenSumSet, MapThenFoldSet, Sums, IsSum, OneOf

\* A set that is not empty has an element to take out.
LEMMA AnyIsOne ==
    ASSUME NEW S, S # {}
    PROVE  OneOf(S) \in S
    BY DEF OneOf

\* The functions of two sets agree on what is part of both.
LEMMA SumsAgree ==
    ASSUME NEW A, NEW B, NEW f, NEW g, IsSum(f, A), IsSum(g, B),
           NEW S, IsFiniteSet(S), S \subseteq A, S \subseteq B
    PROVE  f[S] = g[S]
<1>. DEFINE Bad == {s \in FiniteSubsetsOf(S) : f[s] # g[s]}
<1>1. SUFFICES ASSUME S \in Bad PROVE FALSE
    BY DEF FiniteSubsetsOf
<1>2. PICK T \in Bad : \A U \in Bad : U \subseteq T => U = T
  <2>1. Bad \subseteq FiniteSubsetsOf(S) /\ Bad # {}
    BY <1>1
  <2>. HIDE DEF Bad
  <2>. QED
    BY <2>1, SmallestSet
<1>3. /\ T \in SUBSET A /\ T \in SUBSET B /\ f[T] # g[T]
      /\ T \in FiniteSubsetsOf(S)
    BY DEF FiniteSubsetsOf
<1>4. T # {}
    BY <1>3 DEF IsSum
<1>. DEFINE u == T \ {OneOf(T)}
<1>5. f[T] = OneOf(T).cost + f[u] /\ g[T] = OneOf(T).cost + g[u]
    BY <1>3, <1>4 DEF IsSum
<1>6. u \in FiniteSubsetsOf(S) /\ u \subseteq T /\ u # T
    BY <1>3, <1>4, AnyIsOne, FS_Subset DEF FiniteSubsetsOf
<1>7. f[u] = g[u]
    BY <1>2, <1>6
<1>. QED
    BY <1>3, <1>5, <1>7

\* Of every finite set there is one.
LEMMA SumsExist ==
    ASSUME NEW S, IsFiniteSet(S)
    PROVE  IsSum(Sums(S), S)
<1>. DEFINE Bad == {s \in FiniteSubsetsOf(S) : ~ \E f : IsSum(f, s)}
<1>1. SUFFICES ASSUME S \in Bad PROVE FALSE
    BY DEF FiniteSubsetsOf, Sums
<1>2. PICK T \in Bad : \A U \in Bad : U \subseteq T => U = T
  <2>1. Bad \subseteq FiniteSubsetsOf(S) /\ Bad # {}
    BY <1>1
  <2>. HIDE DEF Bad
  <2>. QED
    BY <2>1, SmallestSet
<1>3. T \in FiniteSubsetsOf(S) /\ ~ \E f : IsSum(f, T)
    OBVIOUS
<1>4. ASSUME NEW s \in SUBSET T, s # T
      PROVE  IsSum(Sums(s), s) /\ IsFiniteSet(s)
  <2>1. s \in FiniteSubsetsOf(S)
    BY <1>3, FS_Subset DEF FiniteSubsetsOf
  <2>2. \E f : IsSum(f, s)
    BY <1>2, <1>4, <2>1
  <2>. QED
    BY <2>1, <2>2 DEF Sums, FiniteSubsetsOf
<1>. DEFINE Without(s) == s \ {OneOf(s)}
            f == [s \in SUBSET T |-> IF s = {} THEN 0
                                     ELSE OneOf(s).cost + Sums(Without(s))[Without(s)]]
<1>5. ASSUME NEW s \in SUBSET T, s # {}
      PROVE  f[Without(s)] = Sums(Without(s))[Without(s)]
  <2>. DEFINE u == Without(s)
  <2>1. u \in SUBSET T /\ u # T
    BY <1>5, AnyIsOne
  <2>2. IsSum(Sums(u), u) /\ IsFiniteSet(u)
    BY <1>4, <2>1
  <2>3. CASE u = {}
    BY <2>1, <2>2, <2>3 DEF IsSum
  <2>4. CASE u # {}
    <3>1. Without(u) \in SUBSET T /\ Without(u) # T /\ Without(u) \subseteq u
      BY <2>1, <2>4, AnyIsOne
    <3>2. IsSum(Sums(Without(u)), Without(u)) /\ IsFiniteSet(Without(u))
      BY <1>4, <3>1
    <3>3. Sums(u)[Without(u)] = Sums(Without(u))[Without(u)]
      BY <2>2, <3>1, <3>2, SumsAgree
    <3>4. Sums(u)[u] = OneOf(u).cost + Sums(u)[Without(u)]
      BY <2>2, <2>4 DEF IsSum
    <3>5. f[u] = OneOf(u).cost + Sums(Without(u))[Without(u)]
      BY <2>1, <2>4
    <3>. QED
      BY <3>3, <3>4, <3>5
  <2>. QED
    BY <2>3, <2>4
<1>6. IsSum(f, T)
  <2>1. f = [s \in SUBSET T |-> IF s = {} THEN 0 ELSE OneOf(s).cost + f[Without(s)]]
    BY <1>5
  <2>. QED
    BY <2>1 DEF IsSum
<1>. QED
    BY <1>3, <1>6

\* No charges cost nothing.
LEMMA CostOfNone == CostOf({}) = 0
<1>1. IsSum(Sums({}), {})
    BY SumsExist, FS_EmptySet
<1>. QED
    BY <1>1, CostIsSum DEF IsSum

\* So a sum is one of the costs, and the sum of the others.
LEMMA CostOfAny ==
    ASSUME NEW S, IsFiniteSet(S), S # {}
    PROVE  CostOf(S) = OneOf(S).cost + CostOf(S \ {OneOf(S)})
<1>. DEFINE u == S \ {OneOf(S)}
<1>1. IsFiniteSet(u) /\ u \subseteq S
    BY FS_Subset
<1>2. IsSum(Sums(S), S) /\ IsSum(Sums(u), u)
    BY <1>1, SumsExist
<1>3. Sums(S)[S] = OneOf(S).cost + Sums(S)[u]
    BY <1>2 DEF IsSum
<1>4. Sums(S)[u] = Sums(u)[u]
    BY <1>1, <1>2, SumsAgree
<1>. QED
    BY <1>3, <1>4, CostIsSum

\* Charges as the database keeps them.
Costly(S) == IsFiniteSet(S) /\ \A s \in S : s.cost \in Nat

\* Their sum is a number.
LEMMA CostTyped ==
    ASSUME NEW S, Costly(S)
    PROVE  CostOf(S) \in Nat
<1>. DEFINE Bad == {s \in FiniteSubsetsOf(S) : CostOf(s) \notin Nat}
<1>1. SUFFICES ASSUME S \in Bad PROVE FALSE
    BY DEF FiniteSubsetsOf, Costly
<1>2. PICK T \in Bad : \A U \in Bad : U \subseteq T => U = T
  <2>1. Bad \subseteq FiniteSubsetsOf(S) /\ Bad # {}
    BY <1>1
  <2>. HIDE DEF Bad
  <2>. QED
    BY <2>1, SmallestSet
<1>3. T \in FiniteSubsetsOf(S) /\ CostOf(T) \notin Nat
    OBVIOUS
<1>4. T # {}
    BY <1>3, CostOfNone
<1>5. OneOf(T) \in T /\ IsFiniteSet(T) /\ T \subseteq S
    BY <1>3, <1>4, AnyIsOne DEF FiniteSubsetsOf
<1>6. T \ {OneOf(T)} \in FiniteSubsetsOf(S) \ Bad
    BY <1>2, <1>5, FS_Subset DEF FiniteSubsetsOf
<1>7. CostOf(T \ {OneOf(T)}) \in Nat
    BY <1>6
<1>8. CostOf(T) = OneOf(T).cost + CostOf(T \ {OneOf(T)})
    BY <1>4, <1>5, CostOfAny
<1>9. OneOf(T).cost \in Nat
    BY <1>5 DEF Costly
<1>. QED
    BY <1>3, <1>7, <1>8, <1>9

\* Any charge can be taken out first.
LEMMA CostOfOne ==
    ASSUME NEW S, Costly(S), NEW x \in S
    PROVE  CostOf(S) = x.cost + CostOf(S \ {x})
<1>. DEFINE Bad == {s \in FiniteSubsetsOf(S) :
                      \E y \in s : CostOf(s) # y.cost + CostOf(s \ {y})}
<1>1. SUFFICES ASSUME S \in Bad PROVE FALSE
    BY DEF FiniteSubsetsOf, Costly
<1>2. PICK T \in Bad : \A U \in Bad : U \subseteq T => U = T
  <2>1. Bad \subseteq FiniteSubsetsOf(S) /\ Bad # {}
    BY <1>1
  <2>. HIDE DEF Bad
  <2>. QED
    BY <2>1, SmallestSet
<1>3. PICK y \in T : CostOf(T) # y.cost + CostOf(T \ {y})
    OBVIOUS
<1>. DEFINE z == OneOf(T)
            rest == (T \ {y}) \ {z}
<1>4. /\ T \subseteq S /\ IsFiniteSet(T) /\ z \in T
      /\ IsFiniteSet(T \ {y}) /\ IsFiniteSet(T \ {z}) /\ IsFiniteSet(rest)
    BY <1>3, AnyIsOne, FS_Subset DEF FiniteSubsetsOf
<1>5. CostOf(T) = z.cost + CostOf(T \ {z})
    BY <1>3, <1>4, CostOfAny
<1>6. y # z
    BY <1>3, <1>5
<1>7. T \ {y} \in FiniteSubsetsOf(S) \ Bad /\ T \ {z} \in FiniteSubsetsOf(S) \ Bad
    BY <1>2, <1>3, <1>4 DEF FiniteSubsetsOf
<1>8. z \in T \ {y} /\ y \in T \ {z} /\ (T \ {z}) \ {y} = rest
    BY <1>3, <1>4, <1>6
<1>9. CostOf(T \ {y}) = z.cost + CostOf(rest) /\ CostOf(T \ {z}) = y.cost + CostOf(rest)
  <2>1. \A s \in FiniteSubsetsOf(S) \ Bad : \A w \in s : CostOf(s) = w.cost + CostOf(s \ {w})
    OBVIOUS
  <2>. HIDE DEF Bad, z
  <2>. QED
    BY <2>1, <1>7, <1>8
<1>10. CostOf(rest) \in Nat /\ y.cost \in Nat /\ z.cost \in Nat
    BY <1>3, <1>4, CostTyped DEF Costly
<1>. HIDE DEF z, rest
<1>. QED
    BY <1>3, <1>5, <1>9, <1>10

\* Charges without one in common add up.
LEMMA CostOfBoth ==
    ASSUME NEW S, NEW T, Costly(S), Costly(T), S \cap T = {}
    PROVE  CostOf(S \cup T) = CostOf(S) + CostOf(T)
<1>. DEFINE Bad == {s \in FiniteSubsetsOf(T) : CostOf(S \cup s) # CostOf(S) + CostOf(s)}
<1>1. SUFFICES ASSUME T \in Bad PROVE FALSE
    BY DEF FiniteSubsetsOf, Costly
<1>2. PICK U \in Bad : \A V \in Bad : V \subseteq U => V = U
  <2>1. Bad \subseteq FiniteSubsetsOf(T) /\ Bad # {}
    BY <1>1
  <2>. HIDE DEF Bad
  <2>. QED
    BY <2>1, SmallestSet
<1>3. U \in FiniteSubsetsOf(T) /\ CostOf(S \cup U) # CostOf(S) + CostOf(U)
    OBVIOUS
<1>4. Costly(U) /\ Costly(S \cup U) /\ CostOf(S) \in Nat /\ U \subseteq T
    BY <1>3, FS_Union, CostTyped DEF FiniteSubsetsOf, Costly
<1>5. U # {}
  <2>1. S \cup {} = S
    OBVIOUS
  <2>. QED
    BY <1>3, <1>4, <2>1, CostOfNone
<1>6. PICK x : x \in U
    BY <1>5
<1>7. U \ {x} \in FiniteSubsetsOf(T) \ Bad
    BY <1>2, <1>4, <1>6, FS_Subset DEF FiniteSubsetsOf, Costly
<1>8. CostOf(S \cup (U \ {x})) = CostOf(S) + CostOf(U \ {x})
    BY <1>7
<1>9. (S \cup U) \ {x} = S \cup (U \ {x})
    BY <1>4, <1>6
<1>10. CostOf(S \cup U) = x.cost + CostOf(S \cup (U \ {x}))
    BY <1>4, <1>6, <1>9, CostOfOne
<1>11. CostOf(U) = x.cost + CostOf(U \ {x})
    BY <1>4, <1>6, CostOfOne
<1>12. Costly(U \ {x}) /\ x.cost \in Nat
    BY <1>4, <1>6, FS_Subset DEF Costly
<1>13. CostOf(U \ {x}) \in Nat
    BY <1>12, CostTyped
<1>. HIDE DEF Bad
<1>. QED
    BY <1>3, <1>4, <1>8, <1>10, <1>11, <1>12, <1>13

\* Charges of nothing cost nothing.
LEMMA CostOfFree ==
    ASSUME NEW S, Costly(S), \A s \in S : s.cost = 0
    PROVE  CostOf(S) = 0
<1>. DEFINE Bad == {s \in FiniteSubsetsOf(S) : CostOf(s) # 0}
<1>1. SUFFICES ASSUME S \in Bad PROVE FALSE
    BY DEF FiniteSubsetsOf, Costly
<1>2. PICK T \in Bad : \A U \in Bad : U \subseteq T => U = T
  <2>1. Bad \subseteq FiniteSubsetsOf(S) /\ Bad # {}
    BY <1>1
  <2>. HIDE DEF Bad
  <2>. QED
    BY <2>1, SmallestSet
<1>3. T \in FiniteSubsetsOf(S) /\ CostOf(T) # 0
    OBVIOUS
<1>4. T # {}
    BY <1>3, CostOfNone
<1>5. OneOf(T) \in T /\ IsFiniteSet(T) /\ T \subseteq S
    BY <1>3, <1>4, AnyIsOne DEF FiniteSubsetsOf
<1>6. T \ {OneOf(T)} \in FiniteSubsetsOf(S) \ Bad
    BY <1>2, <1>5, FS_Subset DEF FiniteSubsetsOf
<1>7. CostOf(T \ {OneOf(T)}) = 0
    BY <1>6
<1>8. CostOf(T) = OneOf(T).cost + CostOf(T \ {OneOf(T)})
    BY <1>4, <1>5, CostOfAny
<1>. QED
    BY <1>3, <1>5, <1>7, <1>8

-------------------------------------------------------------------------------
(* Types *)

\* The charges a transaction has made have no end in the model only if the rows
\* of its page had none.
TypeInv ==
    /\ TypeOK
    /\ LedgerInv
    /\ IsFiniteSet(stored)
    /\ \A p \in Passes : /\ IsFiniteSet(ins[p])
                         /\ \A s \in ins[p] : s.row \in rows

\* A price is a number of cents (usage-poller.ts:152-172).
LEMMA PricedIsCostly ==
    ASSUME NEW S \in SUBSET Priced, IsFiniteSet(S)
    PROVE  Costly(S)
    BY IngestAssumption DEF Costly, Priced

\* What a transaction adds to the spend of a key is a number.
LEMMA AddedTyped ==
    ASSUME NEW S \in SUBSET Priced, IsFiniteSet(S), NEW k
    PROVE  Added(S, k) \in Nat
<1>. DEFINE paid == {s \in S : k \in ChargedBy(s.row)}
<1>1. Costly(paid)
    BY PricedIsCostly, FS_Subset DEF Costly
<1>2. Added(S, k) = CostOf(paid)
    BY DEF Added, CostOf
<1>. QED
    BY <1>1, <1>2, CostTyped

\* Charges without one in common add up for every key.
LEMMA AddedToBoth ==
    ASSUME NEW S \in SUBSET Priced, IsFiniteSet(S),
           NEW T \in SUBSET Priced, IsFiniteSet(T), S \cap T = {}, NEW k
    PROVE  Added(S \cup T, k) = Added(S, k) + Added(T, k)
<1>. DEFINE paid(charges) == {s \in charges : k \in ChargedBy(s.row)}
<1>1. Costly(paid(S)) /\ Costly(paid(T))
    BY PricedIsCostly, FS_Subset DEF Costly
<1>2. paid(S \cup T) = paid(S) \cup paid(T) /\ paid(S) \cap paid(T) = {}
    OBVIOUS
<1>3. \A charges : Added(charges, k) = CostOf(paid(charges))
    BY DEF Added, CostOf
<1>. HIDE DEF paid
<1>. QED
    BY <1>1, <1>2, <1>3, CostOfBoth

\* Nothing is added to a key that pays for none of the charges.
LEMMA AddedToNobody ==
    ASSUME NEW S \in SUBSET Priced, IsFiniteSet(S), NEW k,
           \A s \in S : k \in ChargedBy(s.row) => s.cost = 0
    PROVE  Added(S, k) = 0
<1>. DEFINE paid == {s \in S : k \in ChargedBy(s.row)}
<1>1. Costly(paid)
    BY PricedIsCostly, FS_Subset DEF Costly
<1>2. Added(S, k) = CostOf(paid)
    BY DEF Added, CostOf
<1>3. \A s \in paid : s.cost = 0
    OBVIOUS
<1>. QED
    BY <1>1, <1>2, <1>3, CostOfFree

\* The cursor a pass starts from is a number (usage-poller.ts:100-124).
LEMMA StartTyped ==
    ASSUME TypeInv, NEW m \in Machines, NEW c \in StartOf(m)
    PROVE  c \in Int
<1>1. CASE StoredOf(m) = {}
    BY <1>1 DEF StartOf, NoCursor
<1>2. CASE StoredOf(m) # {}
  <2>1. PICK row \in Newest(m) : c = withOverlap(row)
    BY <1>2 DEF StartOf
  <2>2. row \in Row
    BY DEF Newest, StoredOf, StoredRows, TypeInv, TypeOK, Priced
  <2>3. row.ms \in Nat /\ Overlap \in Nat /\ Epoch \in Nat /\ MaxSeq \in Nat
    BY <2>2, IngestAssumption, IdAssumption DEF Row
  <2>4. CASE row.ms - Overlap > Epoch
    <3>. DEFINE start == [ms |-> row.ms - Overlap, seq |-> 0]
    <3>1. start.ms \in Nat /\ IsId(start)
      BY <2>3, <2>4 DEF IsId
    <3>2. cursorOf(start) \in Int
      BY <3>1, CursorOrder
    <3>. HIDE DEF start
    <3>3. withOverlap(row) = cursorOf(start) - 1
      BY <2>4 DEF withOverlap, start
    <3>. QED
      BY <2>1, <3>2, <3>3
  <2>5. CASE ~(row.ms - Overlap > Epoch)
    BY <2>1, <2>5 DEF withOverlap, NoCursor
  <2>. QED
    BY <2>4, <2>5
<1>. QED
    BY <1>1, <1>2

\* What a page and a transaction leave of their pass when they end.
Closed(p) ==
    /\ page' = [page EXCEPT ![p] = {}]
    /\ ins' = [ins EXCEPT ![p] = {}]
    /\ flips' = [flips EXCEPT ![p] = {}]

\* The initial states are typed.
LEMMA TypeInit ==
    ASSUME Init
    PROVE  TypeInv
<1>1. LedgerInv
    BY LedgerStarts DEF Init
<1>2. IsFiniteSet({})
    BY FS_EmptySet
<1>3. TypeOK
    BY <1>1 DEF Init, TypeOK, LedgerInv, Statuses, Stages, Priced
<1>. QED
    BY <1>1, <1>2, <1>3 DEF Init, TypeInv

\* Ledgers that only grow leave the database and the passes typed.
LEMMA RowsGrowTyped ==
    ASSUME TypeInv, LedgerInv', rows \subseteq rows',
           UNCHANGED <<dbVars, passVars>>
    PROVE  TypeInv'
<1>1. TypeOK'
    BY DEF TypeInv, TypeOK, LedgerInv, dbVars, passVars, txVars
<1>. QED
    BY <1>1 DEF TypeInv, dbVars, passVars, txVars

\* The charges of a transaction are one for each row of the page at most.
LEMMA InsertedTyped ==
    ASSUME TypeInv, NEW p \in Passes, NEW price \in [page[p] -> Costs],
           NEW charges,
           charges = {[row |-> row, cost |-> price[row]] :
                        row \in {q \in page[p] : /\ q \notin StoredRows
                                                 /\ Exists(q.key)}}
    PROVE  /\ charges \in SUBSET Priced /\ IsFiniteSet(charges)
           /\ \A s \in charges : s.row \in rows
<1>. DEFINE new == {q \in page[p] : q \notin StoredRows /\ Exists(q.key)}
            charge(row) == [row |-> row, cost |-> price[row]]
<1>1. page[p] \subseteq rows /\ rows \subseteq Row /\ IsFiniteSet(rows)
    BY DEF TypeInv, TypeOK, LedgerTypeOK, LedgerInv
<1>2. IsFiniteSet(new)
    BY <1>1, FS_Subset
<1>3. charges = {charge(row) : row \in new}
    OBVIOUS
<1>4. IsFiniteSet(charges)
  <2>. DEFINE g == [row \in new |-> charge(row)]
  <2>1. g \in Surjection(new, charges)
    BY <1>3 DEF Surjection
  <2>. HIDE DEF g, new
  <2>. QED
    BY <1>2, <2>1, FS_Surjection
<1>. QED
    BY <1>1, <1>3, <1>4 DEF Priced

\* Every step of a pass keeps the types.
LEMMA TypePassStep ==
    ASSUME TypeInv, NEW p \in Passes, PassStep(p)
    PROVE  TypeInv'
<1>1. UNCHANGED ledgerVars
    BY DEF PassStep, StartPass, DiscoveryFails, PollMachine, FetchPage,
           InsertRows, FlipKeys, Commit, MachineFails, AllPolled, EndPass,
           ApiRestart
<1>2. LedgerInv' /\ rows' = rows
    BY <1>1, LedgerRests DEF TypeInv, ledgerVars
<1>3. TypeOK /\ LedgerTypeOK'
    BY <1>2 DEF TypeInv, LedgerInv
<1>. USE DEF Statuses, Stages
<1>4. ASSUME NEW named \in SUBSET Machines, StartPass(p, named)
      PROVE  TypeInv'
    BY <1>2, <1>3, <1>4 DEF StartPass, TypeInv, TypeOK, dbVars, txVars
<1>5. CASE DiscoveryFails(p)
    BY <1>2, <1>3, <1>5 DEF DiscoveryFails, TypeInv, TypeOK, dbVars, txVars
<1>6. ASSUME NEW m \in Machines, PollMachine(p, m)
      PROVE  TypeInv'
  <2>1. PICK c \in StartOf(m) : after' = [after EXCEPT ![p] = c]
    BY <1>6 DEF PollMachine
  <2>2. c \in Int
    BY StartTyped
  <2>. QED
    BY <1>2, <1>3, <1>6, <2>1, <2>2 DEF PollMachine, TypeInv, TypeOK, dbVars, txVars
<1>7. CASE FetchPage(p)
  <2>1. PICK rs : /\ rs \subseteq rows
                  /\ page' = [page EXCEPT ![p] = rs]
    BY <1>7 DEF FetchPage, FirstRows
  <2>2. at' \in [Passes -> Stages] /\ after' \in [Passes -> Int]
    BY <1>3, <1>7 DEF FetchPage, TypeOK, NoCursor
  <2>. QED
    BY <1>2, <1>3, <1>7, <2>1, <2>2 DEF FetchPage, TypeInv, TypeOK, dbVars
<1>8. CASE InsertRows(p)
  <2>1. PICK price \in [page[p] -> Costs] :
          ins' = [ins EXCEPT ![p] =
                    {[row |-> row, cost |-> price[row]] :
                        row \in {q \in page[p] : /\ q \notin StoredRows
                                                 /\ Exists(q.key)}}]
    BY <1>8 DEF InsertRows
  <2>. DEFINE charges == {[row |-> row, cost |-> price[row]] :
                            row \in {q \in page[p] : /\ q \notin StoredRows
                                                     /\ Exists(q.key)}}
  <2>2. /\ charges \in SUBSET Priced /\ IsFiniteSet(charges)
        /\ \A s \in charges : s.row \in rows
    BY InsertedTyped
  <2>3. ins' = [ins EXCEPT ![p] = charges]
    BY <2>1
  <2>. HIDE DEF charges
  <2>. QED
    BY <1>2, <1>3, <1>8, <2>2, <2>3 DEF InsertRows, TypeInv, TypeOK, dbVars
<1>9. CASE FlipKeys(p)
    BY <1>2, <1>3, <1>9 DEF FlipKeys, TypeInv, TypeOK, dbVars, Charged
<1>10. CASE Commit(p)
  <2>1. ins[p] \in SUBSET Priced /\ IsFiniteSet(ins[p])
    BY <1>3 DEF TypeInv, TypeOK
  <2>2. spend' \in [Keys -> Nat]
    <3>1. \A k \in Keys : Added(ins[p], k) \in Nat
      BY <2>1, AddedTyped
    <3>. QED
      BY <1>3, <1>10, <3>1 DEF Commit, TypeOK
  <2>3. stored' \in SUBSET Priced /\ IsFiniteSet(stored')
    BY <1>3, <1>10, <2>1, FS_Union DEF Commit, TypeInv, TypeOK
  <2>4. status' \in [Keys -> Statuses]
    BY <1>3, <1>10 DEF Commit, TypeOK
  <2>5. at' \in [Passes -> Stages] /\ after' \in [Passes -> Int]
    <3>1. \A row \in page[p] : cursorOf(row) \in Int
      BY <1>3, RowTyped, CursorOrder DEF TypeInv, TypeOK
    <3>. QED
      BY <1>3, <1>10, <3>1 DEF Commit, TypeOK, NoCursor
  <2>6. TypeOK'
    BY <1>2, <1>3, <1>10, <2>2, <2>3, <2>4, <2>5 DEF Commit, TypeOK
  <2>7. \A o \in Passes : IsFiniteSet(ins[o])' /\ \A s \in ins'[o] : s.row \in rows'
    BY <1>2, <1>3, <1>10, FS_EmptySet DEF Commit, TypeInv, TypeOK
  <2>. QED
    BY <1>2, <2>3, <2>6, <2>7 DEF TypeInv
<1>11. CASE MachineFails(p)
  <2>1. \A o \in Passes : IsFiniteSet(ins[o])' /\ \A s \in ins'[o] : s.row \in rows'
    BY <1>2, <1>3, <1>11, FS_EmptySet DEF MachineFails, TypeInv, TypeOK
  <2>. QED
    BY <1>2, <1>3, <1>11, <2>1
       DEF MachineFails, TypeInv, TypeOK, dbVars, NoCursor
<1>12. CASE AllPolled(p)
    BY <1>2, <1>3, <1>12 DEF AllPolled, TypeInv, TypeOK, dbVars, txVars
<1>13. CASE EndPass(p)
    BY <1>2, <1>3, <1>13 DEF EndPass, TypeInv, TypeOK, dbVars, txVars
<1>14. CASE ApiRestart(p)
  <2>1. \A o \in Passes : IsFiniteSet(ins[o])' /\ \A s \in ins'[o] : s.row \in rows'
    BY <1>2, <1>3, <1>14, FS_EmptySet DEF ApiRestart, TypeInv, TypeOK
  <2>. QED
    BY <1>2, <1>3, <1>14, <2>1
       DEF ApiRestart, TypeInv, TypeOK, dbVars, NoCursor
<1>. QED
    BY <1>4, <1>5, <1>6, <1>7, <1>8, <1>9, <1>10, <1>11, <1>12, <1>13, <1>14
       DEF PassStep

\* And so does every other step.
LEMMA TypeNext ==
    ASSUME TypeInv, [Next]_vars
    PROVE  TypeInv'
<1>1. CASE ProxyStep
  <2>1. CASE Write
    <3>1. LedgerInv' /\ Grows
      BY <2>1, WriteGrows DEF TypeInv
    <3>. QED
      BY <1>1, <3>1, RowsGrowTyped DEF ProxyStep, Grows
  <2>2. ASSUME NEW m \in Machines, RestartProxy(m)
        PROVE  TypeInv'
    <3>1. LedgerInv' /\ rows' = rows
      BY <2>2, RestartKeepsLedger DEF TypeInv
    <3>. QED
      BY <1>1, <3>1, RowsGrowTyped DEF ProxyStep
  <2>. QED
    BY <1>1, <2>1, <2>2 DEF ProxyStep
<1>2. ASSUME NEW p \in Passes, PassStep(p)
      PROVE  TypeInv'
    BY <1>2, TypePassStep
<1>3. ASSUME NEW k \in Keys, KeyStep(k)
      PROVE  TypeInv'
  <2>1. UNCHANGED <<ledgerVars, stored, spend, passVars>>
    BY <1>3 DEF KeyStep, Revoke, SetBudget, DeleteTree
  <2>2. LedgerInv' /\ rows' = rows
    BY <2>1, LedgerRests DEF TypeInv, ledgerVars
  <2>3. /\ status' \in [Keys -> Statuses]
        /\ budget' \in [Keys -> Budgets \cup {NoBudget}]
        /\ moved' \in SUBSET Keys
    BY <1>3 DEF KeyStep, Revoke, SetBudget, DeleteTree, TypeInv, TypeOK, Statuses
  <2>4. TypeOK'
    BY <2>1, <2>2, <2>3 DEF TypeInv, TypeOK, LedgerInv, passVars, txVars
  <2>. QED
    BY <2>1, <2>2, <2>4 DEF TypeInv, passVars, txVars
<1>4. CASE UNCHANGED vars
  <2>1. LedgerInv' /\ rows' = rows
    BY <1>4, LedgerRests DEF TypeInv, vars, ledgerVars
  <2>. QED
    BY <1>4, <2>1, RowsGrowTyped DEF vars
<1>. QED
    BY <1>1, <1>2, <1>3, <1>4 DEF Next

\* Every reachable state of the poller is typed.
THEOREM IngestTypeCorrect == Spec => []TypeOK
<1>1. Init => TypeInv
    BY TypeInit
<1>2. TypeInv /\ [Next]_vars => TypeInv'
    BY TypeNext
<1>3. TypeInv => TypeOK
    BY DEF TypeInv
<1>. QED
    BY <1>1, <1>2, <1>3, PTL DEF Spec

-------------------------------------------------------------------------------
(* What is stored and charged *)

\* A transaction that has not inserted has no charges, one that has not flipped
\* has no flips.
OpenShape ==
    \A p \in Passes :
        /\ at[p] \notin {"flip", "commit"} => ins[p] = {}
        /\ at[p] # "commit" => flips[p] = {}
        /\ flips[p] \subseteq Charged(p)

\* What a transaction inserted is not stored yet, and each row once.
OpenOnce ==
    \A p \in Passes : \A s \in ins[p] :
        /\ s.row \notin StoredRows
        /\ \A t \in ins[p] : s.row = t.row => s = t

\* Two transactions have neither a row nor a charged key in common.
OpenApart ==
    \A p, o \in Passes :
        p # o => /\ \A s \in ins[p], t \in ins[o] : s.row # t.row
                 /\ Charged(p) \cap Charged(o) = {}

\* A key that is gone paid for nothing, and will not.
GoneUncharged ==
    \A k \in Keys : ~Exists(k) =>
        /\ \A s \in stored : k \notin ChargedBy(s.row)
        /\ \A p \in Passes : \A s \in ins[p] : k \notin ChargedBy(s.row)

\* A key goes with its root.
TreesWhole == \A k \in Keys : Exists(k) <=> Exists(RootOf[k])

ChargeInv ==
    /\ TypeInv
    /\ OpenShape
    /\ OpenOnce
    /\ OpenApart
    /\ GoneUncharged
    /\ TreesWhole
    /\ RowStoredOnce
    /\ SpendIsStoredCost

\* A transaction that charges keys flips those it takes to their budget, as
\* nothing it looked at can change before it commits.
FlipsRight ==
    \A p \in Passes :
        /\ \A k \in flips[p] :
              /\ status[k] = "active" /\ budget[k] # NoBudget
              /\ spend[k] + Added(ins[p], k) >= budget[k]
        /\ at[p] = "commit" =>
              \A k \in Charged(p) \ (flips[p] \cup moved) :
                 status[k] = "active" /\ budget[k] # NoBudget
                    => spend[k] + Added(ins[p], k) < budget[k]

StatusInv == ChargeInv /\ FlipsRight /\ NoNeedlessDenial /\ BudgetHolds

\* The initial states.
LEMMA StatusStarts ==
    ASSUME Init
    PROVE  StatusInv
<1>1. TypeInv
    BY TypeInit
<1>2. \A k \in Keys : Added({}, k) = 0
    BY FS_EmptySet, AddedToNobody
<1>3. ChargeInv
    BY <1>1, <1>2, WriterAssumption
       DEF Init, ChargeInv, OpenShape, OpenOnce, OpenApart, GoneUncharged,
           TreesWhole, RowStoredOnce, SpendIsStoredCost, Exists, Charged
<1>. QED
    BY <1>3 DEF Init, StatusInv, FlipsRight, NoNeedlessDenial, BudgetHolds

-------------------------------------------------------------------------------
(* The steps, as the database sees them *)

InTransaction == {"flip", "commit"}

\* A step that neither the database nor an open transaction notices.
Quiet ==
    /\ UNCHANGED <<dbVars, ins, flips>>
    /\ \A o \in Passes :
          at'[o] = at[o] \/ {at[o], at'[o]} \cap InTransaction = {}

\* The transaction of a pass, if any, is rolled back.
RollsBack(p) ==
    /\ UNCHANGED dbVars
    /\ Closed(p)
    /\ at'[p] \notin InTransaction
    /\ \A o \in Passes \ {p} : at'[o] = at[o]

\* Every step is one of these, or a statement of a transaction or of another
\* writer.
LEMMA StepKinds ==
    ASSUME TypeInv, [Next]_vars
    PROVE  \/ Quiet
           \/ \E p \in Passes :
                 RollsBack(p) \/ InsertRows(p) \/ FlipKeys(p) \/ Commit(p)
           \/ \E k \in Keys : KeyStep(k)
<1>. USE DEF InTransaction
<1>1. at \in [Passes -> Stages]
    BY DEF TypeInv, TypeOK
<1>2. CASE ProxyStep \/ UNCHANGED vars
    BY <1>2 DEF ProxyStep, vars, dbVars, passVars, txVars, Quiet
<1>3. ASSUME NEW p \in Passes, PassStep(p)
      PROVE  \/ Quiet \/ RollsBack(p)
             \/ InsertRows(p) \/ FlipKeys(p) \/ Commit(p)
  <2>1. CASE \/ \E named \in SUBSET Machines : StartPass(p, named)
             \/ DiscoveryFails(p) \/ FetchPage(p) \/ AllPolled(p) \/ EndPass(p)
    BY <1>1, <2>1 DEF StartPass, DiscoveryFails, FetchPage, AllPolled, EndPass,
                      Quiet, dbVars, txVars
  <2>2. CASE \E m \in Machines : PollMachine(p, m)
    BY <1>1, <2>2 DEF PollMachine, Quiet, dbVars, txVars
  <2>3. CASE MachineFails(p) \/ ApiRestart(p)
    BY <1>1, <2>3 DEF MachineFails, ApiRestart, RollsBack, Closed, dbVars
  <2>. QED
    BY <1>3, <2>1, <2>2, <2>3 DEF PassStep
<1>. QED
    BY <1>2, <1>3 DEF Next

\* A quiet step.
LEMMA QuietKeepsCharges ==
    ASSUME ChargeInv, TypeInv', Quiet
    PROVE  ChargeInv'
<1>1. UNCHANGED <<stored, spend, status, ins, flips>>
    BY DEF Quiet, dbVars
<1>2. OpenShape'
    BY <1>1 DEF ChargeInv, OpenShape, Quiet, InTransaction, Charged
<1>3. OpenOnce' /\ OpenApart' /\ GoneUncharged' /\ TreesWhole'
    BY <1>1 DEF ChargeInv, OpenOnce, OpenApart, GoneUncharged, TreesWhole,
                Charged, StoredRows, Exists
<1>4. RowStoredOnce' /\ SpendIsStoredCost'
    BY <1>1 DEF ChargeInv, RowStoredOnce, SpendIsStoredCost
<1>. QED
    BY <1>2, <1>3, <1>4 DEF ChargeInv

\* A transaction that is rolled back leaves no charges and no locks.
LEMMA RollbackKeepsCharges ==
    ASSUME ChargeInv, TypeInv', NEW p \in Passes, RollsBack(p)
    PROVE  ChargeInv'
<1>1. UNCHANGED <<stored, spend, status>>
    BY DEF RollsBack, dbVars
<1>2. /\ ins'[p] = {} /\ flips'[p] = {}
      /\ \A o \in Passes \ {p} : ins'[o] = ins[o] /\ flips'[o] = flips[o]
    BY DEF RollsBack, Closed, ChargeInv, TypeInv, TypeOK
<1>3. OpenShape'
    BY <1>2 DEF ChargeInv, OpenShape, RollsBack, InTransaction, Charged
<1>4. OpenOnce' /\ OpenApart' /\ GoneUncharged' /\ TreesWhole'
    BY <1>1, <1>2 DEF ChargeInv, OpenOnce, OpenApart, GoneUncharged, TreesWhole,
                      Charged, StoredRows, Exists
<1>5. RowStoredOnce' /\ SpendIsStoredCost'
    BY <1>1 DEF ChargeInv, RowStoredOnce, SpendIsStoredCost
<1>. QED
    BY <1>3, <1>4, <1>5 DEF ChargeInv

\* The INSERT and the upsert of the spend (usage-poller.ts:181-248).
LEMMA InsertKeepsCharges ==
    ASSUME ChargeInv, TypeInv', NEW p \in Passes, InsertRows(p)
    PROVE  ChargeInv'
<1>1. UNCHANGED <<stored, spend, status, flips>>
    BY DEF InsertRows, dbVars
<1>2. PICK price \in [page[p] -> Costs] :
        ins' = [ins EXCEPT ![p] =
                  {[row |-> row, cost |-> price[row]] :
                      row \in {q \in page[p] : /\ q \notin StoredRows
                                               /\ Exists(q.key)}}]
    BY DEF InsertRows
<1>3. ins \in [Passes -> SUBSET Priced]
    BY DEF ChargeInv, TypeInv, TypeOK
<1>4. \A o \in Passes \ {p} : ins'[o] = ins[o]
    BY <1>2, <1>3
<1>5. ASSUME NEW s \in ins'[p]
      PROVE  /\ s.row \in page[p] /\ s.row \notin StoredRows /\ Exists(s.row.key)
             /\ s.row \in rows /\ s.row.key \in Keys
             /\ \A t \in ins'[p] : s.row = t.row => s = t
  <2>1. ins'[p] = {[row |-> row, cost |-> price[row]] :
                      row \in {q \in page[p] : /\ q \notin StoredRows
                                               /\ Exists(q.key)}}
    BY <1>2, <1>3
  <2>2. page[p] \subseteq rows /\ rows \subseteq Row
    BY DEF ChargeInv, TypeInv, TypeOK, LedgerTypeOK
  <2>. QED
    BY <2>1, <2>2 DEF Row
<1>6. OpenShape'
    BY <1>1, <1>4 DEF ChargeInv, OpenShape, InsertRows, TypeInv, TypeOK, Charged
<1>7. OpenOnce'
    BY <1>1, <1>4, <1>5 DEF ChargeInv, OpenOnce, StoredRows
<1>8. OpenApart'
  <2>1. \A o \in Passes \ {p} :
           /\ Charged(o)' = Charged(o)
           /\ Charged(p)' \cap Charged(o) = {}
    BY <1>4 DEF InsertRows, LockedSpends, Others, Charged
  <2>2. \A o \in Passes \ {p} : \A s \in ins'[p], t \in ins[o] : s.row # t.row
    BY <1>5 DEF InsertRows, LockedRows, Others
  <2>. QED
    BY <1>4, <2>1, <2>2 DEF ChargeInv, OpenApart
<1>9. GoneUncharged'
  <2>1. \A s \in ins'[p] : \A k \in ChargedBy(s.row) : Exists(k)
    BY <1>5 DEF ChargeInv, TreesWhole, ChargedBy
  <2>. QED
    BY <1>1, <1>4, <2>1 DEF ChargeInv, GoneUncharged, Exists
<1>10. TreesWhole' /\ RowStoredOnce' /\ SpendIsStoredCost'
    BY <1>1 DEF ChargeInv, TreesWhole, RowStoredOnce, SpendIsStoredCost, Exists
<1>. QED
    BY <1>6, <1>7, <1>8, <1>9, <1>10 DEF ChargeInv

\* The UPDATE of the status takes row locks only.
LEMMA FlipKeepsCharges ==
    ASSUME ChargeInv, TypeInv', NEW p \in Passes, FlipKeys(p)
    PROVE  ChargeInv'
<1>1. UNCHANGED <<stored, spend, status, ins>>
    BY DEF FlipKeys, dbVars
<1>2. OpenShape'
    BY <1>1 DEF ChargeInv, OpenShape, FlipKeys, TypeInv, TypeOK, Charged
<1>3. OpenOnce' /\ OpenApart' /\ GoneUncharged' /\ TreesWhole'
    BY <1>1 DEF ChargeInv, OpenOnce, OpenApart, GoneUncharged, TreesWhole,
                Charged, StoredRows, Exists
<1>4. RowStoredOnce' /\ SpendIsStoredCost'
    BY <1>1 DEF ChargeInv, RowStoredOnce, SpendIsStoredCost
<1>. QED
    BY <1>2, <1>3, <1>4 DEF ChargeInv

\* A transaction of a pass charges keys that exist.
LEMMA ChargedExist ==
    ASSUME ChargeInv, NEW p \in Passes, NEW k \in Charged(p)
    PROVE  k \in Keys /\ Exists(k)
    BY DEF Charged, ChargeInv, GoneUncharged

\* What it adds to the others is nothing.
LEMMA UnchargedGetNothing ==
    ASSUME TypeInv, NEW p \in Passes, NEW k \in Keys, k \notin Charged(p)
    PROVE  Added(ins[p], k) = 0
<1>1. ins[p] \in SUBSET Priced /\ IsFiniteSet(ins[p])
    BY DEF TypeInv, TypeOK
<1>2. ASSUME NEW s \in ins[p], k \in ChargedBy(s.row)
      PROVE  s.cost = 0
  <2>1. s.cost \in Nat
    BY <1>1, IngestAssumption DEF Priced
  <2>2. ~(s.cost > 0)
    BY <1>2 DEF Charged
  <2>. QED
    BY <2>1, <2>2
<1>. QED
    BY <1>1, <1>2, AddedToNobody

\* The COMMIT makes the rows and their charges visible together.
LEMMA CommitKeepsCharges ==
    ASSUME ChargeInv, TypeInv', NEW p \in Passes, Commit(p)
    PROVE  ChargeInv'
<1>1. /\ stored' = stored \cup ins[p]
      /\ spend' = [k \in Keys |->
                     spend[k] + IF Exists(k) THEN Added(ins[p], k) ELSE 0]
      /\ status' = [k \in Keys |->
                      IF k \in flips[p] THEN "over_budget" ELSE status[k]]
    BY DEF Commit
<1>2. /\ ins'[p] = {} /\ flips'[p] = {} /\ at'[p] \notin InTransaction
      /\ \A o \in Passes \ {p} :
            ins'[o] = ins[o] /\ flips'[o] = flips[o] /\ at'[o] = at[o]
    BY DEF Commit, ChargeInv, TypeInv, TypeOK, InTransaction
<1>3. /\ stored \in SUBSET Priced /\ IsFiniteSet(stored)
      /\ ins[p] \in SUBSET Priced /\ IsFiniteSet(ins[p])
    BY DEF ChargeInv, TypeInv, TypeOK
<1>4. \A k \in Keys : Exists(k)' <=> Exists(k)
  <2>1. \A k \in flips[p] : Exists(k)
    BY ChargedExist DEF ChargeInv, OpenShape
  <2>. QED
    BY <1>1, <2>1 DEF Exists
<1>5. OpenShape'
    BY <1>2 DEF ChargeInv, OpenShape, InTransaction, Charged
<1>6. \A s \in stored' : s \in stored \/ s \in ins[p]
    BY <1>1
<1>7. OpenOnce'
  <2>1. ASSUME NEW o \in Passes \ {p}, NEW s \in ins[o], NEW t \in ins[p]
        PROVE  s.row # t.row
    BY DEF ChargeInv, OpenApart
  <2>. QED
    BY <1>1, <1>2, <2>1 DEF ChargeInv, OpenOnce, StoredRows
<1>8. OpenApart'
    BY <1>2 DEF ChargeInv, OpenApart, Charged
<1>9. GoneUncharged'
    BY <1>2, <1>4, <1>6 DEF ChargeInv, GoneUncharged
<1>10. TreesWhole'
    BY <1>4, WriterAssumption DEF ChargeInv, TreesWhole
<1>11. RowStoredOnce'
    BY <1>6 DEF ChargeInv, RowStoredOnce, OpenOnce, StoredRows
<1>12. SpendIsStoredCost'
  <2>. SUFFICES ASSUME NEW k \in Keys
                PROVE  spend'[k] = Added(stored', k)
    BY DEF SpendIsStoredCost
  <2>1. stored \cap ins[p] = {}
    BY DEF ChargeInv, OpenOnce, StoredRows
  <2>2. Added(stored', k) = Added(stored, k) + Added(ins[p], k)
    BY <1>1, <1>3, <2>1, AddedToBoth
  <2>3. spend[k] = Added(stored, k) /\ spend[k] \in Nat
    BY DEF ChargeInv, SpendIsStoredCost, TypeInv, TypeOK
  <2>4. CASE Exists(k)
    BY <1>1, <2>2, <2>3, <2>4
  <2>5. CASE ~Exists(k)
    <3>1. Added(ins[p], k) = 0
      BY <1>3, <2>5, AddedToNobody DEF ChargeInv, GoneUncharged
    <3>. QED
      BY <1>1, <2>2, <2>3, <2>5, <3>1
  <2>. QED
    BY <2>4, <2>5
<1>. QED
    BY <1>5, <1>7, <1>8, <1>9, <1>10, <1>11, <1>12 DEF ChargeInv

\* Revocations, budgets and deletions move no money; a deletion takes a tree
\* that paid for nothing (usage_log.key_id has no ON DELETE).
LEMMA KeyStepKeepsCharges ==
    ASSUME ChargeInv, TypeInv', NEW k \in Keys, KeyStep(k)
    PROVE  ChargeInv'
<1>1. UNCHANGED <<stored, spend, at, ins, flips>>
    BY DEF KeyStep, Revoke, SetBudget, DeleteTree, passVars, txVars
<1>2. OpenShape' /\ OpenOnce' /\ OpenApart'
    BY <1>1 DEF ChargeInv, OpenShape, OpenOnce, OpenApart, Charged, StoredRows
<1>3. RowStoredOnce' /\ SpendIsStoredCost'
    BY <1>1 DEF ChargeInv, RowStoredOnce, SpendIsStoredCost
<1>4. status \in [Keys -> Statuses]
    BY DEF ChargeInv, TypeInv, TypeOK
<1>5. CASE \A c \in Keys : Exists(c)' <=> Exists(c)
    BY <1>1, <1>2, <1>3, <1>5, WriterAssumption
       DEF ChargeInv, GoneUncharged, TreesWhole
<1>6. CASE Revoke(k)
    BY <1>4, <1>5, <1>6 DEF Revoke, Exists
<1>7. CASE \E b \in Budgets \cup {NoBudget} : SetBudget(k, b)
    BY <1>4, <1>5, <1>7 DEF SetBudget, Exists
<1>8. CASE DeleteTree(k)
  <2>1. \A c \in Keys : Exists(c)' <=> Exists(c) /\ RootOf[c] # k
    BY <1>4, <1>8 DEF DeleteTree, Exists, Subtree
  <2>2. TreesWhole'
    BY <2>1, WriterAssumption DEF ChargeInv, TreesWhole
  <2>3. ASSUME NEW c \in Keys, RootOf[c] = k,
               NEW s \in stored \cup UNION {ins[p] : p \in Passes}
        PROVE  c \notin ChargedBy(s.row)
    <3>1. s.row.key \in Keys
      BY DEF ChargeInv, TypeInv, TypeOK, Priced, Row
    <3>2. s.row.key # k /\ RootOf[s.row.key] # k
      BY <1>8, <3>1 DEF DeleteTree, Subtree
    <3>. QED
      BY <2>3, <3>1, <3>2, WriterAssumption DEF ChargedBy
  <2>4. GoneUncharged'
    BY <1>1, <2>1, <2>3 DEF ChargeInv, GoneUncharged
  <2>. QED
    BY <1>2, <1>3, <2>2, <2>4 DEF ChargeInv
<1>. QED
    BY <1>6, <1>7, <1>8 DEF KeyStep

\* Every step keeps what is stored and charged.
LEMMA ChargeNext ==
    ASSUME ChargeInv, [Next]_vars
    PROVE  ChargeInv'
<1>1. TypeInv'
    BY TypeNext DEF ChargeInv
<1>. QED
    BY <1>1, StepKinds, QuietKeepsCharges, RollbackKeepsCharges,
       InsertKeepsCharges, FlipKeepsCharges, CommitKeepsCharges,
       KeyStepKeepsCharges DEF ChargeInv

-------------------------------------------------------------------------------
(* The status of the keys *)

\* A quiet step, or a rollback.
LEMMA QuietKeepsStatus ==
    ASSUME StatusInv, Quiet \/ \E p \in Passes : RollsBack(p)
    PROVE  FlipsRight' /\ NoNeedlessDenial' /\ BudgetHolds'
<1>1. UNCHANGED <<stored, spend, status, budget, moved>>
    BY DEF Quiet, RollsBack, dbVars
<1>2. NoNeedlessDenial' /\ BudgetHolds'
    BY <1>1 DEF StatusInv, NoNeedlessDenial, BudgetHolds
<1>3. ASSUME Quiet
      PROVE  FlipsRight'
  <2>1. ins' = ins /\ flips' = flips /\ \A o \in Passes : Charged(o)' = Charged(o)
    BY <1>3 DEF Quiet, Charged
  <2>2. \A o \in Passes : at'[o] = "commit" => at[o] = "commit"
    BY <1>3 DEF Quiet, InTransaction
  <2>. QED
    BY <1>1, <2>1, <2>2 DEF StatusInv, FlipsRight
<1>4. ASSUME NEW p \in Passes, RollsBack(p)
      PROVE  FlipsRight'
  <2>1. /\ ins'[p] = {} /\ flips'[p] = {} /\ at'[p] \notin InTransaction
        /\ \A o \in Passes \ {p} :
              ins'[o] = ins[o] /\ flips'[o] = flips[o] /\ at'[o] = at[o]
    BY <1>4 DEF RollsBack, Closed, StatusInv, ChargeInv, TypeInv, TypeOK
  <2>. QED
    BY <1>1, <2>1 DEF StatusInv, FlipsRight, InTransaction, Charged
<1>. QED
    BY <1>2, <1>3, <1>4

\* The INSERT: nothing is flipped yet.
LEMMA InsertKeepsStatus ==
    ASSUME StatusInv, NEW p \in Passes, InsertRows(p)
    PROVE  FlipsRight' /\ NoNeedlessDenial' /\ BudgetHolds'
<1>1. UNCHANGED <<stored, spend, status, budget, moved>>
    BY DEF InsertRows, dbVars
<1>2. NoNeedlessDenial' /\ BudgetHolds'
    BY <1>1 DEF StatusInv, NoNeedlessDenial, BudgetHolds
<1>3. /\ flips' = flips /\ flips[p] = {} /\ at'[p] = "flip"
      /\ \A o \in Passes \ {p} : ins'[o] = ins[o] /\ at'[o] = at[o]
    BY DEF InsertRows, StatusInv, ChargeInv, OpenShape, TypeInv, TypeOK
<1>4. FlipsRight'
    BY <1>1, <1>3 DEF StatusInv, FlipsRight, Charged
<1>. QED
    BY <1>2, <1>4

\* The UPDATE looks at the spend it made itself (usage-poller.ts:249-260).
LEMMA FlipKeepsStatus ==
    ASSUME StatusInv, NEW p \in Passes, FlipKeys(p)
    PROVE  FlipsRight' /\ NoNeedlessDenial' /\ BudgetHolds'
<1>1. UNCHANGED <<stored, spend, status, budget, moved, ins>>
    BY DEF FlipKeys, dbVars
<1>2. NoNeedlessDenial' /\ BudgetHolds'
    BY <1>1 DEF StatusInv, NoNeedlessDenial, BudgetHolds
<1>3. /\ flips'[p] = {k \in Charged(p) :
                        /\ status[k] = "active"
                        /\ budget[k] # NoBudget
                        /\ spend[k] + Added(ins[p], k) >= budget[k]}
      /\ \A o \in Passes \ {p} : flips'[o] = flips[o] /\ at'[o] = at[o]
    BY DEF FlipKeys, StatusInv, ChargeInv, TypeInv, TypeOK
<1>4. ASSUME NEW k \in Keys
      PROVE  /\ spend[k] + Added(ins[p], k) \in Nat
             /\ budget[k] # NoBudget => budget[k] \in Nat
  <2>1. ins[p] \in SUBSET Priced /\ IsFiniteSet(ins[p])
    BY DEF StatusInv, ChargeInv, TypeInv, TypeOK
  <2>2. Added(ins[p], k) \in Nat
    BY <2>1, AddedTyped
  <2>3. spend[k] \in Nat /\ budget[k] \in Budgets \cup {NoBudget}
    BY DEF StatusInv, ChargeInv, TypeInv, TypeOK
  <2>4. spend[k] + Added(ins[p], k) \in Nat
    BY <2>2, <2>3
  <2>. QED
    BY <2>3, <2>4, IngestAssumption
<1>5. FlipsRight'
  <2>1. ASSUME NEW k \in Charged(p) \ flips'[p],
               status[k] = "active" /\ budget[k] # NoBudget
        PROVE  spend[k] + Added(ins[p], k) < budget[k]
    BY <1>3, <1>4, <2>1 DEF Charged
  <2>2. \A o \in Passes : Charged(o)' = Charged(o)
    BY <1>1 DEF Charged
  <2>. QED
    BY <1>1, <1>3, <2>1, <2>2 DEF StatusInv, FlipsRight
<1>. QED
    BY <1>2, <1>5

\* The COMMIT: a key it charged is flipped or below its budget.
LEMMA CommitKeepsStatus ==
    ASSUME StatusInv, NEW p \in Passes, Commit(p)
    PROVE  FlipsRight' /\ NoNeedlessDenial' /\ BudgetHolds'
<1>. USE DEF StatusInv
<1>1. /\ spend' = [k \in Keys |->
                     spend[k] + IF Exists(k) THEN Added(ins[p], k) ELSE 0]
      /\ status' = [k \in Keys |->
                      IF k \in flips[p] THEN "over_budget" ELSE status[k]]
      /\ budget' = budget /\ moved' = moved /\ at[p] = "commit"
    BY DEF Commit
<1>2. /\ ins'[p] = {} /\ flips'[p] = {} /\ at'[p] # "commit"
      /\ \A o \in Passes \ {p} :
            ins'[o] = ins[o] /\ flips'[o] = flips[o] /\ at'[o] = at[o]
    BY DEF Commit, ChargeInv, TypeInv, TypeOK
<1>3. flips[p] \subseteq Charged(p)
    BY DEF ChargeInv, OpenShape
<1>4. ASSUME NEW k \in Keys
      PROVE  /\ spend[k] \in Nat
             /\ Added(ins[p], k) \in Nat
             /\ budget[k] # NoBudget => budget[k] \in Nat
  <2>1. ins[p] \in SUBSET Priced /\ IsFiniteSet(ins[p])
    BY DEF ChargeInv, TypeInv, TypeOK
  <2>2. Added(ins[p], k) \in Nat
    BY <2>1, AddedTyped
  <2>. QED
    BY <2>2, IngestAssumption DEF ChargeInv, TypeInv, TypeOK
<1>5. ASSUME NEW k \in Keys \ Charged(p)
      PROVE  spend'[k] = spend[k] /\ status'[k] = status[k]
  <2>1. Added(ins[p], k) = 0
    BY UnchargedGetNothing DEF ChargeInv
  <2>. QED
    BY <1>1, <1>3, <1>4, <2>1
<1>6. ASSUME NEW k \in Charged(p)
      PROVE  k \in Keys /\ spend'[k] = spend[k] + Added(ins[p], k)
    BY <1>1, ChargedExist
<1>7. NoNeedlessDenial'
  <2>. SUFFICES ASSUME NEW k \in Keys, status'[k] = "over_budget"
                PROVE  budget[k] # NoBudget /\ spend'[k] >= budget[k]
    BY <1>1 DEF NoNeedlessDenial
  <2>1. CASE k \in flips[p]
    BY <1>3, <1>6, <2>1 DEF FlipsRight
  <2>2. CASE k \notin flips[p]
    <3>1. status[k] = "over_budget"
      BY <1>1, <2>2
    <3>2. budget[k] # NoBudget /\ spend[k] >= budget[k]
      BY <3>1 DEF NoNeedlessDenial
    <3>3. spend'[k] = spend[k] \/ spend'[k] = spend[k] + Added(ins[p], k)
      BY <1>5, <1>6
    <3>. QED
      BY <1>4, <3>2, <3>3
  <2>. QED
    BY <2>1, <2>2
<1>8. BudgetHolds'
  <2>. SUFFICES ASSUME NEW k \in Keys \ moved, status'[k] = "active",
                       budget[k] # NoBudget, spend'[k] > 0
                PROVE  spend'[k] < budget[k]
    BY <1>1 DEF BudgetHolds
  <2>1. k \notin flips[p] /\ status[k] = "active"
    BY <1>1
  <2>2. CASE k \in Charged(p)
    BY <1>1, <1>6, <2>1, <2>2 DEF FlipsRight
  <2>3. CASE k \notin Charged(p)
    BY <1>5, <2>1, <2>3 DEF BudgetHolds
  <2>. QED
    BY <2>2, <2>3
<1>9. FlipsRight'
  <2>1. ASSUME NEW o \in Passes \ {p}, NEW k \in Charged(o)
        PROVE  k \in Keys \ Charged(p)
    BY DEF ChargeInv, OpenApart, Charged
  <2>2. \A o \in Passes \ {p} : Charged(o)' = Charged(o) /\ flips[o] \subseteq Charged(o)
    BY <1>2 DEF ChargeInv, OpenShape, Charged
  <2>3. ASSUME NEW o \in Passes \ {p}, NEW k \in Charged(o)
        PROVE  spend'[k] = spend[k] /\ status'[k] = status[k]
    BY <1>5, <2>1
  <2>4. \A o \in Passes \ {p} : \A k \in flips'[o] :
           /\ status'[k] = "active" /\ budget'[k] # NoBudget
           /\ spend'[k] + Added(ins'[o], k) >= budget'[k]
    BY <1>1, <1>2, <2>2, <2>3 DEF FlipsRight
  <2>5. \A o \in Passes \ {p} : at'[o] = "commit" =>
           \A k \in Charged(o)' \ (flips'[o] \cup moved') :
              status'[k] = "active" /\ budget'[k] # NoBudget
                 => spend'[k] + Added(ins'[o], k) < budget'[k]
    BY <1>1, <1>2, <2>2, <2>3 DEF FlipsRight
  <2>. QED
    BY <1>2, <2>4, <2>5 DEF FlipsRight
<1>. QED
    BY <1>7, <1>8, <1>9

\* The other writers wait for the keys a transaction has flipped.
LEMMA KeyStepKeepsStatus ==
    ASSUME StatusInv, NEW k \in Keys, KeyStep(k)
    PROVE  FlipsRight' /\ NoNeedlessDenial' /\ BudgetHolds'
<1>. USE DEF StatusInv
<1>1. UNCHANGED <<stored, spend, at, ins, flips>>
    BY DEF KeyStep, Revoke, SetBudget, DeleteTree, passVars, txVars
<1>2. /\ status \in [Keys -> Statuses] /\ spend \in [Keys -> Nat]
      /\ budget \in [Keys -> Budgets \cup {NoBudget}]
    BY DEF ChargeInv, TypeInv, TypeOK
<1>3. \A o \in Passes : Charged(o)' = Charged(o) /\ Charged(o) \subseteq Keys
                        /\ flips[o] \subseteq Keys
    BY <1>1 DEF Charged, ChargeInv, TypeInv, TypeOK
<1>4. CASE Revoke(k) \/ DeleteTree(k)
  <2>1. /\ budget' = budget /\ moved' = moved
        /\ \A o \in Passes : \A c \in flips[o] : status'[c] = status[c]
        /\ \A c \in Keys : status'[c] = status[c] \/ status'[c] \in {"revoked", "deleted"}
    BY <1>2, <1>3, <1>4 DEF Revoke, DeleteTree, LockedKeys
  <2>2. FlipsRight'
    BY <1>1, <1>3, <2>1 DEF FlipsRight
  <2>. QED
    BY <1>1, <2>1, <2>2 DEF NoNeedlessDenial, BudgetHolds
<1>5. ASSUME NEW b \in Budgets \cup {NoBudget}, SetBudget(k, b)
      PROVE  FlipsRight' /\ NoNeedlessDenial' /\ BudgetHolds'
  <2>1. /\ \A c \in Keys \ {k} : status'[c] = status[c] /\ budget'[c] = budget[c]
        /\ budget'[k] = b
        /\ status'[k] = IF status[k] = "over_budget" /\ (b = NoBudget \/ spend[k] < b)
                        THEN "active" ELSE status[k]
        /\ moved' = moved \cup {k}
        /\ \A o \in Passes : k \notin flips[o]
    BY <1>2, <1>5 DEF SetBudget, LockedKeys
  <2>2. FlipsRight'
    BY <1>1, <1>3, <2>1 DEF FlipsRight
  <2>3. b # NoBudget => b \in Nat
    BY IngestAssumption
  <2>4. NoNeedlessDenial'
    BY <1>1, <1>2, <2>1, <2>3 DEF NoNeedlessDenial
  <2>5. BudgetHolds'
    BY <1>1, <2>1 DEF BudgetHolds
  <2>. QED
    BY <2>2, <2>4, <2>5
<1>. QED
    BY <1>4, <1>5 DEF KeyStep

\* Every step keeps the status of the keys right.
LEMMA StatusNext ==
    ASSUME StatusInv, [Next]_vars
    PROVE  StatusInv'
<1>1. ChargeInv'
    BY ChargeNext DEF StatusInv
<1>2. FlipsRight' /\ NoNeedlessDenial' /\ BudgetHolds'
    BY StepKinds, QuietKeepsStatus, InsertKeepsStatus, FlipKeepsStatus,
       CommitKeepsStatus, KeyStepKeepsStatus DEF StatusInv, ChargeInv
<1>. QED
    BY <1>1, <1>2 DEF StatusInv

\* What every reachable state has of the database and the open transactions.
LEMMA StatusAlways == Spec => []StatusInv
<1>1. Init => StatusInv
    BY StatusStarts
<1>2. StatusInv /\ [Next]_vars => StatusInv'
    BY StatusNext
<1>. QED
    BY <1>1, <1>2, PTL DEF Spec

\* No row is stored twice, whatever overlap is polled again and however many
\* api machines poll it (usage-poller.ts:9-12).
THEOREM StoredOnce == Spec => []RowStoredOnce
<1>1. StatusInv => RowStoredOnce
    BY DEF StatusInv, ChargeInv
<1>. QED
    BY <1>1, StatusAlways, PTL

\* The spend of a key is what its stored rows and those of its sub-keys cost
\* (usage-poller.ts:23-28, 221-226).
THEOREM SpendIsRight == Spec => []SpendIsStoredCost
<1>1. StatusInv => SpendIsStoredCost
    BY DEF StatusInv, ChargeInv
<1>. QED
    BY <1>1, StatusAlways, PTL

\* A key whose budget is left alone is not active at or past it
\* (usage-poller.ts:249-260).
THEOREM BudgetIsHeld == Spec => []BudgetHolds
<1>1. StatusInv => BudgetHolds
    BY DEF StatusInv
<1>. QED
    BY <1>1, StatusAlways, PTL

\* No key is refused for its budget while its spend is below it
\* (20261016150000_budget_reactivation.up.sql:2-9).
THEOREM DenialIsNeeded == Spec => []NoNeedlessDenial
<1>1. StatusInv => NoNeedlessDenial
    BY DEF StatusInv
<1>. QED
    BY <1>1, StatusAlways, PTL

\* A revoked key stays revoked until its team is deleted: a charge that is in
\* flight flips only keys it holds the row lock of (usage-poller.ts:249-260).
THEOREM RevokedStays == Spec => RevokedIsFinal
<1>1. ASSUME StatusInv, [Next]_vars, NEW k \in Keys, status[k] = "revoked"
      PROVE  status'[k] \in {"revoked", "deleted"}
  <2>1. status \in [Keys -> Statuses]
    BY <1>1 DEF StatusInv, ChargeInv, TypeInv, TypeOK
  <2>2. CASE Quiet \/ \E p \in Passes : RollsBack(p) \/ InsertRows(p) \/ FlipKeys(p)
    BY <1>1, <2>2 DEF Quiet, RollsBack, InsertRows, FlipKeys, dbVars
  <2>3. ASSUME NEW p \in Passes, Commit(p)
        PROVE  status'[k] = "revoked"
    <3>1. k \notin flips[p]
      BY <1>1 DEF StatusInv, FlipsRight
    <3>. QED
      BY <1>1, <2>3, <3>1 DEF Commit
  <2>4. ASSUME NEW c \in Keys, KeyStep(c)
        PROVE  status'[k] \in {"revoked", "deleted"}
    BY <1>1, <2>1, <2>4 DEF KeyStep, Revoke, SetBudget, DeleteTree
  <2>. QED
    BY <1>1, <2>2, <2>3, <2>4, StepKinds DEF StatusInv, ChargeInv
<1>2. StatusInv /\ [Next]_vars =>
        [\A k \in Keys : status[k] = "revoked"
            => status'[k] \in {"revoked", "deleted"}]_vars
    BY <1>1
<1>. QED
    BY <1>2, StatusAlways, PTL DEF Spec, RevokedIsFinal

-------------------------------------------------------------------------------
(* The refinement of Billing *)

\* A step that writes rows meters one of them, or none.
LEMMA MeterRefines ==
    ASSUME StatusInv, ProxyStep
    PROVE  Bill!Meter \/ UNCHANGED Bill!billingVars
<1>1. UNCHANGED <<stored, spend, status>>
    BY DEF ProxyStep, dbVars
<1>2. rows \subseteq rows' /\ \A row, other \in rows' \ rows : row = other
  <2>1. CASE Write
    BY <2>1, WriteGrows DEF StatusInv, ChargeInv, TypeInv, Grows
  <2>2. CASE \E m \in Machines : RestartProxy(m)
    BY <2>2 DEF RestartProxy
  <2>. QED
    BY <2>1, <2>2 DEF ProxyStep
<1>3. CASE rows' = rows
    BY <1>1, <1>3 DEF Bill!billingVars
<1>4. CASE rows' # rows
  <2>1. PICK row \in rows' \ rows : TRUE
    BY <1>2, <1>4
  <2>2. rows' = rows \cup {row}
    BY <1>2, <2>1
  <2>. QED
    BY <1>1, <2>1, <2>2 DEF Bill!Meter
<1>. QED
    BY <1>3, <1>4

\* Billing adds up as the poller does.
LEMMA SameSums ==
    ASSUME NEW S
    PROVE  Bill!MapThenSumSet(LAMBDA b : b.cost, S) = CostOf(S)
    BY DEF CostOf, MapThenSumSet, MapThenFoldSet,
           Bill!MapThenSumSet, Bill!MapThenFoldSet

\* The COMMIT of a page bills its rows, and is the only step that does.
LEMMA CommitRefines ==
    ASSUME StatusInv, NEW p \in Passes, Commit(p)
    PROVE  Bill!BillRows
<1>. DEFINE rs == {s.row : s \in ins[p]}
            price == [row \in rs |-> (CHOOSE s \in ins[p] : s.row = row).cost]
            bills == {[row |-> row, cost |-> price[row]] : row \in rs}
<1>1. ins[p] \subseteq Priced /\ IsFiniteSet(ins[p]) /\ \A s \in ins[p] : s.row \in rows
    BY DEF StatusInv, ChargeInv, TypeInv, TypeOK
<1>2. \A s \in ins[p] : s.row \notin StoredRows /\ \A t \in ins[p] : s.row = t.row => s = t
    BY DEF StatusInv, ChargeInv, OpenOnce
<1>3. \A s \in ins[p] : (CHOOSE t \in ins[p] : t.row = s.row) = s
    BY <1>2
<1>4. rs \in SUBSET {row \in rows : ~Bill!IsBilled(row)}
    BY <1>1, <1>2 DEF Bill!IsBilled, StoredRows
<1>5. price \in [rs -> Costs]
    BY <1>1, <1>3 DEF Priced
<1>6. bills = ins[p]
  <2>1. ASSUME NEW s \in ins[p]
        PROVE  s.row \in rs /\ s = [row |-> s.row, cost |-> price[s.row]]
    BY <1>1, <1>3 DEF Priced
  <2>2. \A row \in rs : \E s \in ins[p] : row = s.row
    OBVIOUS
  <2>. HIDE DEF rs, price
  <2>. QED
    BY <2>1, <2>2
<1>7. /\ stored' = stored \cup ins[p]
      /\ rows' = rows
      /\ spend' = [k \in Keys |->
                     spend[k] + IF Exists(k) THEN Added(ins[p], k) ELSE 0]
    BY DEF Commit, ledgerVars
<1>8. \A k \in Keys : Exists(k)' <=> Exists(k)
  <2>1. \A k \in flips[p] : Exists(k)
    BY ChargedExist DEF StatusInv, ChargeInv, OpenShape
  <2>. QED
    BY <2>1 DEF Commit, Exists
<1>. DEFINE gone == {k \in Keys : status[k] = "deleted"}
<1>9. gone' = gone
    BY <1>8 DEF Exists
<1>. DEFINE bill(k) == Bill!MapThenSumSet(LAMBDA b : b.cost,
                                          {b \in bills : k \in ChargedBy(b.row)})
<1>10. \A k \in Keys : Added(ins[p], k) = bill(k)
    BY <1>6, SameSums DEF Added, CostOf
<1>11. /\ stored' = stored \cup bills
       /\ spend' = [k \in Keys |-> spend[k] + IF k \in gone THEN 0 ELSE bill(k)]
       /\ UNCHANGED <<rows, gone>>
    BY <1>6, <1>7, <1>9, <1>10 DEF Exists
<1>. HIDE DEF rs, price
<1>. QED
    BY <1>4, <1>5, <1>11 DEF Bill!BillRows

\* The other writers of llm.keys take away keys that were charged for nothing.
LEMMA KeyStepRefines ==
    ASSUME StatusInv, StatusInv', NEW k \in Keys, KeyStep(k)
    PROVE  Bill!Remove
<1>1. UNCHANGED <<rows, stored, spend>>
    BY DEF KeyStep, Revoke, SetBudget, DeleteTree, ledgerVars
<1>2. \A c \in Keys : status[c] = "deleted" => status'[c] = "deleted"
  <2>1. status \in [Keys -> Statuses]
    BY DEF StatusInv, ChargeInv, TypeInv, TypeOK
  <2>. QED
    BY <2>1 DEF KeyStep, Revoke, SetBudget, DeleteTree, Exists
<1>3. \A s \in stored : \A c \in ChargedBy(s.row) : c \in Keys => status'[c] # "deleted"
    BY <1>1 DEF StatusInv, ChargeInv, GoneUncharged, Exists
<1>. QED
    BY <1>1, <1>2, <1>3 DEF Bill!Remove

\* Every step of the poller and of those around it is a step of Billing, or none.
THEOREM BillingImplemented == Spec => ImplementsBilling
<1>1. Init => Bill!BillingInit
    BY DEF Init, LedgerInit, Bill!BillingInit
<1>2. ASSUME StatusInv, StatusInv', [Next]_vars
      PROVE  [Bill!BillingNext]_(Bill!billingVars)
  <2>1. CASE UNCHANGED vars \/ \E p \in Passes : PassStep(p) /\ ~Commit(p)
    <3>1. UNCHANGED <<rows, stored, spend, status>>
      BY <2>1 DEF vars, ledgerVars, dbVars, PassStep, StartPass, DiscoveryFails,
                  PollMachine, FetchPage, InsertRows, FlipKeys, MachineFails,
                  AllPolled, EndPass, ApiRestart
    <3>. QED
      BY <3>1 DEF Bill!billingVars
  <2>2. CASE ProxyStep
    BY <1>2, <2>2, MeterRefines DEF Bill!BillingNext
  <2>3. CASE \E p \in Passes : Commit(p)
    BY <1>2, <2>3, CommitRefines DEF Bill!BillingNext
  <2>4. CASE \E k \in Keys : KeyStep(k)
    BY <1>2, <2>4, KeyStepRefines DEF Bill!BillingNext
  <2>. QED
    BY <1>2, <2>1, <2>2, <2>3, <2>4 DEF Next
<1>. QED
    BY <1>1, <1>2, StatusAlways, PTL DEF Spec, ImplementsBilling, Bill!BillingSpec
===============================================================================
