---------------------------- MODULE UsageIdsProofs ----------------------------
(***************************************************************************)
(* Lemmas about the ids of UsageIds, for every counter width and epoch:    *)
(* the cursor is the id order, and a generator only ever moves up.         *)
(***************************************************************************)
EXTENDS UsageIds, TLAPS

\* An id, as far as the cursor and the order look at it.
IsId(id) == id.ms \in Nat /\ id.seq \in 0 .. MaxSeq

\* The lowest id a process that booted past instant b can still issue.
LowId(g, b) == IF g.lastMs = 0 THEN [ms |-> b + 1, seq |-> 0] ELSE lowestNext(g)

\* A generator no id was issued from is the one a process boots with.
Sane(g) == g \in Generator /\ (g.lastMs = 0 => g = Fresh)

\* A product grows by at least a factor when the other grows by one.
LEMMA ProductGrows ==
    ASSUME NEW n \in Nat, NEW a \in Int, NEW b \in Int, a < b
    PROVE  a * n + n <= b * n
<1>1. b - (a + 1) \in Nat
    OBVIOUS
<1>2. 0 <= (b - (a + 1)) * n
    BY <1>1
<1>3. (b - (a + 1)) * n = b * n - (a * n + n)
    OBVIOUS
<1>. QED
    BY <1>2, <1>3

\* Cursors are ordered as the ids are (usage.go:123-128).
LEMMA CursorOrder ==
    ASSUME NEW a, NEW b, IsId(a), IsId(b)
    PROVE  /\ cursorOf(a) \in Int
           /\ AtLeast(a, b) <=> cursorOf(a) >= cursorOf(b)
<1>. DEFINE x == a.ms - Epoch
            y == b.ms - Epoch
<1>1. /\ a.ms \in Nat /\ b.ms \in Nat /\ a.seq \in 0 .. MaxSeq /\ b.seq \in 0 .. MaxSeq
      /\ MaxSeq \in Nat /\ Epoch \in Nat /\ PerMs \in Nat /\ PerMs = MaxSeq + 1
      /\ x \in Int /\ y \in Int
    BY IdAssumption DEF IsId, PerMs
<1>2. cursorOf(a) = x * PerMs + a.seq /\ cursorOf(b) = y * PerMs + b.seq
    BY DEF cursorOf
<1>3. x * PerMs \in Int /\ y * PerMs \in Int
    BY <1>1
<1>. HIDE DEF x, y
<1>4. CASE a.ms = b.ms
  <2>1. x = y
    BY <1>4 DEF x, y
  <2>. QED
    BY <1>1, <1>2, <1>3, <1>4, <2>1 DEF AtLeast
<1>5. CASE a.ms < b.ms
  <2>1. x < y
    BY <1>1, <1>5 DEF x, y
  <2>2. x * PerMs + PerMs <= y * PerMs
    BY <1>1, <2>1, ProductGrows
  <2>. QED
    BY <1>1, <1>2, <1>3, <1>5, <2>2 DEF AtLeast
<1>6. CASE a.ms > b.ms
  <2>1. y < x
    BY <1>1, <1>6 DEF x, y
  <2>2. y * PerMs + PerMs <= x * PerMs
    BY <1>1, <2>1, ProductGrows
  <2>. QED
    BY <1>1, <1>2, <1>3, <1>6, <2>2 DEF AtLeast
<1>. QED
    BY <1>1, <1>4, <1>5, <1>6

\* Division with remainder.
LEMMA DivMod ==
    ASSUME NEW n \in Nat, n > 0, NEW c \in Nat
    PROVE  /\ c \div n \in Nat
           /\ c % n \in 0 .. (n - 1)
           /\ c = n * (c \div n) + (c % n)
<1>1. c \div n \in Int /\ c \div n >= 0
    BY SMT
<1>2. c % n \in Nat /\ c % n < n
    BY SMT
<1>3. c = n * (c \div n) + (c % n)
    BY SMT
<1>. QED
    BY <1>1, <1>2, <1>3

\* usageIDAtLeast(c) is an id with cursor c (usage.go:130-138).
LEMMA CursorInverse ==
    ASSUME NEW c \in Nat
    PROVE  IsId(usageIDAtLeast(c)) /\ cursorOf(usageIDAtLeast(c)) = c
<1>1. PerMs \in Nat \ {0} /\ PerMs = MaxSeq + 1 /\ Epoch \in Nat /\ MaxSeq \in Nat
    BY IdAssumption DEF PerMs
<1>2. PICK n \in Nat : n = PerMs /\ n > 0
    BY <1>1
<1>3. PICK d \in Nat, m \in Nat :
         d = c \div n /\ m = c % n /\ m < n /\ c = n * d + m
  <2>1. /\ c \div n \in Nat /\ c % n \in 0 .. (n - 1)
        /\ c = n * (c \div n) + (c % n)
    BY <1>2, DivMod
  <2>2. c % n \in Nat /\ c % n < n
    BY <2>1, <1>2
  <2>. QED
    BY <2>1, <2>2
<1>4. usageIDAtLeast(c) = [ms |-> d + Epoch, seq |-> m]
    BY <1>2, <1>3 DEF usageIDAtLeast
<1>5. (d + Epoch) - Epoch = d
    BY <1>1, <1>3
<1>6. cursorOf(usageIDAtLeast(c)) = d * n + m
    BY <1>2, <1>4, <1>5 DEF cursorOf
<1>7. d * n = n * d
    BY <1>2, <1>3
<1>. QED
    BY <1>1, <1>2, <1>3, <1>4, <1>6, <1>7 DEF IsId

\* The id issued is at or above the lowest one left, and below it afterwards.
LEMMA UuidStep ==
    ASSUME NEW g, NEW b \in Nat, NEW now \in Nat, Sane(g),
           now > 0, g.lastMs = 0 => now > b
    PROVE  /\ Sane(uuidv7(g, now))
           /\ uuidv7(g, now).lastMs > 0
           /\ LET new == uuidv7(g, now)
                  id  == [ms |-> new.lastMs, seq |-> new.seq]
              IN  /\ IsId(id)
                  /\ AtLeast(id, LowId(g, b))
                  /\ ~AtLeast(id, LowId(new, b))
                  /\ AtLeast(LowId(new, b), LowId(g, b))
    BY IdAssumption DEF Sane, Generator, Fresh, uuidv7, LowId, lowestNext, AtLeast,
                        IsId

\* Taking a floor only moves the lowest id left up.
LEMMA FloorStep ==
    ASSUME NEW g, NEW b \in Nat, NEW now \in Nat, Sane(g),
           now > 0, g.lastMs = 0 => now > b
    PROVE  /\ Sane(floorMoves(g, now))
           /\ floorMoves(g, now).lastMs > 0
           /\ AtLeast(LowId(floorMoves(g, now), b), LowId(g, b))
    BY IdAssumption DEF Sane, Generator, Fresh, floorMoves, LowId, lowestNext, AtLeast

\* The lowest id left to a process is one (ledger.go:98-117).
LEMMA LowIsId ==
    ASSUME NEW g, NEW b \in Nat, Sane(g)
    PROVE  IsId(LowId(g, b))
    BY IdAssumption DEF Sane, Generator, Fresh, LowId, lowestNext, IsId
===============================================================================
