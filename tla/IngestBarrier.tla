----------------------------- MODULE IngestBarrier -----------------------------
(***************************************************************************)
(* The ingest barrier of one api machine (usage-poller.ts: start,          *)
(* ingestNow, startUsagePoller) and its caller, the key holder's GET       *)
(* /usage (routes/usage.ts).  A pass is a promise; `running` is the one in *)
(* flight, and `queued` a promise chained to it that starts the next one.  *)
(*                                                                         *)
(* When pollAll settles, its `finally` clears `running`, and the callbacks  *)
(* on the pass, `queued`'s among them, come some microtasks later: two     *)
(* steps here.  A request calls ingestNow() in the continuation of an      *)
(* await, itself a microtask, and may do so between the two; a timer (the  *)
(* tick, the time-out of a request) is a task and comes before or after.   *)
(*                                                                         *)
(* What a pass does is UsageIngest; here it covers the rows written before *)
(* it started, if no machine failed (UsageIngest!CompletePassStoredAll).   *)
(***************************************************************************)
EXTENDS Integers, FiniteSets

CONSTANTS Readers,     \* GET /usage requests
          PassIds,     \* promises of passes; an id is reused once settled
          None,
          MaxWritten   \* bound on the rows the proxies write

ASSUME BarrierAssumption ==
    /\ None \notin PassIds
    /\ MaxWritten \in Nat

VARIABLES
    written,    \* how many rows the proxies have written
    pass,       \* of every pass: its promise, what it covers
    running,    \* the pass in `running`, or None
    queued,     \* the pass `queued` is chained to, or None
    reader      \* of every request: where it is, what it waits for

vars == <<written, pass, running, queued, reader>>

\* A pass covers the rows written when it started; Free is none.
Free == [polling |-> FALSE, covers |-> 0]
Idle == [at |-> "idle", on |-> None, called |-> 0, covers |-> 0, partial |-> FALSE]

Init ==
    /\ written = 0
    /\ pass = [i \in PassIds |-> Free]
    /\ running = None
    /\ queued = None
    /\ reader = [r \in Readers |-> Idle]

\* A proxy machine meters a request.
WriteRow ==
    /\ written < MaxWritten
    /\ written' = written + 1
    /\ UNCHANGED <<pass, running, queued, reader>>

\* Broken on purpose: a pass claims a row that is yet to be written.
StartedAhead == [polling |-> TRUE, covers |-> written + 1]

\* start(): pollAll begins, and `running` is its promise.
Started == [polling |-> TRUE, covers |-> written]

\* The pass before the queue is over, and the queue's callback is due.
CallbackPending == queued # None /\ ~pass[queued].polling

\* An id that no promise has: the queue still holds that of its pass.
IsFree(i) == ~pass[i].polling /\ queued # i

\* setInterval: a tick while a pass is in flight is skipped.
Tick(i) ==
    /\ ~CallbackPending
    /\ running = None
    /\ IsFree(i)
    /\ pass' = [pass EXCEPT ![i] = Started]
    /\ running' = i
    /\ UNCHANGED <<written, queued, reader>>

\* ingestNow() with none in `running`: the caller gets the pass it starts.
IngestNowStarts(r, i) ==
    /\ reader[r].at = "idle"
    /\ running = None
    /\ IsFree(i)
    /\ pass' = [pass EXCEPT ![i] = Started]
    /\ running' = i
    /\ reader' = [reader EXCEPT ![r] =
                    [Idle EXCEPT !.at = "onPass", !.on = i, !.called = written]]
    /\ UNCHANGED <<written, queued>>

\* Broken on purpose: the caller shares the pass that already runs.
IngestNowJoins(r) ==
    /\ reader[r].at = "idle"
    /\ running # None
    /\ reader' = [reader EXCEPT ![r] =
                    [Idle EXCEPT !.at = "onPass", !.on = running,
                                 !.called = written]]
    /\ UNCHANGED <<written, pass, running, queued>>

\* ingestNow() while a pass runs: the caller shares the one queued behind it.
IngestNowQueues(r) ==
    /\ reader[r].at = "idle"
    /\ running # None
    /\ queued' = IF queued = None THEN running ELSE queued
    /\ reader' = [reader EXCEPT ![r] =
                    [Idle EXCEPT !.at = "onQueue", !.on = queued',
                                 !.called = written]]
    /\ UNCHANGED <<written, pass, running>>

\* What the callbacks on pass i hand to the readers that wait for it.
Answered(rd, i, complete) ==
    IF rd.at = "onPass" /\ rd.on = i
    THEN [rd EXCEPT !.at = "answered", !.on = None, !.covers = pass[i].covers,
                    !.partial = ~complete]
    ELSE rd

\* Broken on purpose: `running` is cleared whichever pass it holds.
ClearedAnyway(i) == None

\* `if (running === pass) running = null`
Cleared(i) == IF running = i THEN None ELSE running

\* pollAll resolves, with the machines that failed if any: `finally`, and the
\* readers that wait for this pass.  A pass begun in this drain cannot end in it.
PassEnds(i, complete) ==
    /\ pass[i].polling
    /\ running = i => ~CallbackPending
    /\ pass' = [pass EXCEPT ![i] = Free]
    /\ running' = Cleared(i)
    /\ reader' = [r \in Readers |-> Answered(reader[r], i, complete)]
    /\ UNCHANGED <<written, queued>>

\* Broken on purpose: the callback clears `queued` and starts no pass.
QueueNotStarted(j) ==
    /\ CallbackPending
    /\ queued' = None
    /\ UNCHANGED <<written, pass, running, reader>>

\* `queued = null; return start()`, whatever is in `running` by now: the readers
\* of the queue wait for the pass j it starts.
QueuedStarts(j) ==
    /\ CallbackPending
    /\ ~pass[j].polling
    /\ queued' = None
    /\ pass' = [pass EXCEPT ![j] = Started]
    /\ running' = j
    /\ reader' = [r \in Readers |->
                    IF reader[r].at = "onQueue"
                    THEN [reader[r] EXCEPT !.at = "onPass", !.on = j]
                    ELSE reader[r]]
    /\ UNCHANGED written

\* INGEST_WAIT_MS passes first: the answer is flagged "timeout".
Timeout(r) ==
    /\ ~CallbackPending
    /\ reader[r].at \in {"onPass", "onQueue"}
    /\ reader' = [reader EXCEPT ![r].at = "answered", ![r].on = None,
                                ![r].partial = TRUE]
    /\ UNCHANGED <<written, pass, running, queued>>

\* The response is sent; the next request of this slot is a new one.
Reply(r) ==
    /\ reader[r].at = "answered"
    /\ reader' = [reader EXCEPT ![r] = Idle]
    /\ UNCHANGED <<written, pass, running, queued>>

PassReturns(i) == \E complete \in BOOLEAN : PassEnds(i, complete)

QueueRuns == \E j \in PassIds : QueuedStarts(j)

Next ==
    \/ WriteRow
    \/ QueueRuns
    \/ \E i \in PassIds :
          \/ Tick(i)
          \/ PassReturns(i)
          \/ \E r \in Readers : IngestNowStarts(r, i)
    \/ \E r \in Readers : IngestNowQueues(r) \/ Timeout(r) \/ Reply(r)

Spec == Init /\ [][Next]_vars

\* pollAll always returns: a fetch ends by its 30 s time-out; that a DNS lookup
\* and a Postgres query end, which have none of their own, is assumed.  The
\* callback on a settled promise runs.
Fairness == WF_vars(QueueRuns) /\ \A i \in PassIds : WF_vars(PassReturns(i))

FairSpec == Spec /\ Fairness

-------------------------------------------------------------------------------
(* Properties *)

TypeOK ==
    /\ written \in 0 .. MaxWritten
    /\ pass \in [PassIds -> [polling : BOOLEAN, covers : 0 .. MaxWritten]]
    /\ running \in PassIds \cup {None}
    /\ queued \in PassIds \cup {None}
    /\ reader \in [Readers ->
                     [at : {"idle", "onPass", "onQueue", "answered"},
                      on : PassIds \cup {None}, called : 0 .. MaxWritten,
                      covers : 0 .. MaxWritten, partial : BOOLEAN]]

\* Fresh by construction (routes/usage.ts:131-137): an answer that is not
\* flagged partial covers every row written before the request arrived.
FreshOrFlagged ==
    \A r \in Readers :
        reader[r].at = "answered" /\ ~reader[r].partial
            => reader[r].covers >= reader[r].called

\* The claim of ingestNow's comment (usage-poller.ts:310-312) that "the interval
\* loop and readers never poll concurrently on one api machine".
OnePassAtATime ==
    \A i, j \in PassIds :
        pass[i].polling /\ pass[j].polling => i = j

\* Nothing waits for a promise that nobody will settle or that is not its own,
\* also when passes overlap (usage-poller.ts:297-322): a reader waits for a pass
\* in flight or for the one queue there is, the queue for the pass in `running`
\* until its callback is due, and `running` never keeps a pass that is over,
\* which would have every tick skipped.
WaitsForLivePass ==
    /\ \A r \in Readers :
          /\ reader[r].at = "onPass" => pass[reader[r].on].polling
          /\ reader[r].at = "onQueue" => queued = reader[r].on
    /\ queued # None /\ pass[queued].polling => running = queued
    /\ running # None => pass[running].polling

\* Every request is answered, even when it never times out: joining the queue
\* again and again behind other callers does not starve it.
EveryReaderAnswered ==
    \A r \in Readers :
        reader[r].at \in {"onPass", "onQueue"} ~> reader[r].at = "answered"
===============================================================================
