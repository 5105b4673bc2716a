------------------------------- MODULE UsageIds -------------------------------
(***************************************************************************)
(* The usage_id of proxy/ledger.go and the cursor proxy/usage.go derives   *)
(* from it.  A usage_id is a UUIDv7: a millisecond, a 12-bit counter and   *)
(* random bits, compared as a string, that is, lexicographically.  The     *)
(* counter width is the constant MaxSeq (0xfff in the code); the random    *)
(* bits only keep two ids apart and are a field of the row.                *)
(***************************************************************************)
EXTENDS Integers

CONSTANTS MaxSeq,     \* 0xfff
          Epoch       \* cursorEpochMs, 2026-01-01

ASSUME IdAssumption == MaxSeq \in Nat /\ Epoch \in Nat

PerMs == MaxSeq + 1   \* cursorPerMs

\* The generator a process keeps in memory: Ledger.lastMs and Ledger.seq.
Generator == [lastMs : Nat, seq : -1 .. MaxSeq]
Fresh     == [lastMs |-> 0, seq |-> 0]

\* Broken on purpose: the counter of a millisecond never wraps ...
uuidv7NoWrap(g, now) ==
    IF now > g.lastMs
    THEN [lastMs |-> now, seq |-> 0]
    ELSE [lastMs |-> g.lastMs, seq |-> g.seq + 1]

\* ... or ids follow a clock that steps back.
uuidv7FollowsClock(g, now) ==
    IF now # g.lastMs
    THEN [lastMs |-> now, seq |-> 0]
    ELSE IF g.seq < MaxSeq
         THEN [lastMs |-> now, seq |-> g.seq + 1]
         ELSE [lastMs |-> now + 1, seq |-> 0]

\* The generator after uuidv7(now); the id issued is its (lastMs, seq).
uuidv7(g, now) ==
    IF now > g.lastMs
    THEN [lastMs |-> now, seq |-> 0]
    ELSE IF g.seq < MaxSeq
         THEN [lastMs |-> g.lastMs, seq |-> g.seq + 1]
         ELSE [lastMs |-> g.lastMs + 1, seq |-> 0]

\* Broken on purpose: asking for a floor does not move it.
floorStays(g, now) == g

\* The generator after usageFloor(now): an idle process moves up to now.
floorMoves(g, now) ==
    IF now > g.lastMs THEN [lastMs |-> now, seq |-> -1] ELSE g

\* The lowest (ms, counter) a later id of that generator can have.
lowestNext(g) ==
    IF g.seq < MaxSeq
    THEN [ms |-> g.lastMs, seq |-> g.seq + 1]
    ELSE [ms |-> g.lastMs + 1, seq |-> 0]

\* usage_id order, up to the random bits.
AtLeast(a, b) == a.ms > b.ms \/ (a.ms = b.ms /\ a.seq >= b.seq)

\* The cross-machine cursor of an id, and the smallest id with a given cursor.
cursorOf(id) == (id.ms - Epoch) * PerMs + id.seq

usageIDAtLeast(cursor) ==
    [ms |-> (cursor \div PerMs) + Epoch, seq |-> cursor % PerMs]
===============================================================================
