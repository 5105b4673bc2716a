---------------------------- MODULE StatusReporter ----------------------------
(***************************************************************************)
(* The error reporter of a proxy process (proxy/kamustatus.go): errors are *)
(* buffered under a mutex, up to a number per minute, and sent in one      *)
(* envelope when the buffer is full or a timer fires.  Every flush locks   *)
(* again after the lock of what caused it was released.                    *)
(***************************************************************************)
EXTENDS Integers, FiniteSets

CONSTANTS Errors,           \* what is reported, each once
          FlushAtEvents,    \* ksFlushAtEvents
          MaxEventsPerMin   \* ksMaxEventsPerMin

ASSUME ReporterAssumption == {FlushAtEvents, MaxEventsPerMin} \subseteq Nat \ {0}

VARIABLES
    pending,     \* errors not reported yet
    buffer,      \* buffer and dropped, as one envelope
    timer,       \* nil, armed, or fired but not yet reset by a flush
    flushes,     \* calls of flush() that wait for the lock
    windowCount, \* windowCount
    windowOver,  \* a minute has passed since windowStart
    posting,     \* envelopes being sent
    posted       \* the envelopes sent, delivered or not

reporterVars == <<pending, buffer, timer, flushes, windowCount, windowOver, posting, posted>>

Nothing == [events |-> {}, dropped |-> {}]

ReporterInit ==
    /\ pending = Errors
    /\ buffer = Nothing
    /\ timer = "nil"
    /\ flushes = 0
    /\ windowCount = 0
    /\ windowOver = TRUE
    /\ posting = {}
    /\ posted = {}

\* report().  The clock is read before the lock: a minute that passed while this
\* caller waited may go unseen by it.
Window(seen) == IF seen THEN 0 ELSE windowCount

ReportDropped(e, seen) ==
    /\ e \in pending
    /\ seen => windowOver
    /\ Window(seen) >= MaxEventsPerMin
    /\ pending' = pending \ {e}
    /\ buffer' = [buffer EXCEPT !.dropped = @ \cup {e}]
    /\ UNCHANGED <<timer, flushes, windowCount, windowOver, posting, posted>>

ReportBuffered(e, seen) ==
    /\ e \in pending
    /\ seen => windowOver
    /\ Window(seen) < MaxEventsPerMin
    /\ pending' = pending \ {e}
    /\ buffer' = [buffer EXCEPT !.events = @ \cup {e}]
    /\ windowCount' = Window(seen) + 1
    /\ windowOver' = (windowOver /\ ~seen)
    /\ IF Cardinality(buffer'.events) >= FlushAtEvents
       THEN flushes' = flushes + 1 /\ UNCHANGED timer
       ELSE timer' = (IF timer = "nil" THEN "armed" ELSE timer) /\ UNCHANGED flushes
    /\ UNCHANGED <<posting, posted>>

\* AfterFunc runs flush() in a goroutine; k.timer is still set.
TimerFires ==
    /\ timer = "armed"
    /\ timer' = "fired"
    /\ flushes' = flushes + 1
    /\ UNCHANGED <<pending, buffer, windowCount, windowOver, posting, posted>>

\* flush(): the goroutine that sends gets what was in the buffer.
Flushed ==
    IF buffer = Nothing THEN UNCHANGED <<buffer, posting>>
    ELSE buffer' = Nothing /\ posting' = posting \cup {buffer}

\* Broken on purpose: the timer is stopped but not forgotten.
FlushKeepsTimer ==
    /\ flushes > 0
    /\ flushes' = flushes - 1
    /\ timer' = (IF timer = "nil" THEN "nil" ELSE "fired")
    /\ Flushed
    /\ UNCHANGED <<pending, windowCount, windowOver, posted>>

Flush ==
    /\ flushes > 0
    /\ flushes' = flushes - 1
    /\ timer' = "nil"
    /\ Flushed
    /\ UNCHANGED <<pending, windowCount, windowOver, posted>>

\* The POST ends; an envelope that failed is not sent again.
PostEnds(env) ==
    /\ env \in posting
    /\ posting' = posting \ {env}
    /\ posted' = posted \cup {env}
    /\ UNCHANGED <<pending, buffer, timer, flushes, windowCount, windowOver>>

MinutePasses ==
    /\ ~windowOver
    /\ windowOver' = TRUE
    /\ UNCHANGED <<pending, buffer, timer, flushes, windowCount, posting, posted>>

\* A process takes with it what it had not sent.
ReporterRestarts ==
    /\ pending # Errors
    /\ pending' = Errors
    /\ buffer' = Nothing /\ timer' = "nil" /\ flushes' = 0
    /\ windowCount' = 0 /\ windowOver' = TRUE
    /\ posting' = {} /\ posted' = {}

ReporterNext ==
    \/ \E e \in Errors, seen \in BOOLEAN : ReportDropped(e, seen) \/ ReportBuffered(e, seen)
    \/ TimerFires \/ Flush \/ MinutePasses \/ ReporterRestarts
    \/ \E env \in posting : PostEnds(env)

ReporterSpec == ReporterInit /\ [][ReporterNext]_reporterVars

-------------------------------------------------------------------------------
(* Properties *)

\* The reporter's variables have their types; its counter stays within the minute's.
ReporterTypeOK ==
    /\ pending \subseteq Errors
    /\ \A env \in posting \cup posted \cup {buffer} :
          env.events \subseteq Errors /\ env.dropped \subseteq Errors
    /\ timer \in {"nil", "armed", "fired"}
    /\ flushes \in Nat /\ windowOver \in BOOLEAN
    /\ windowCount \in 0 .. MaxEventsPerMin

\* The timer and a full buffer flush at once, and errors arrive in between: every
\* error is in one envelope only, as an event or in its count of dropped ones, and
\* a buffered one never waits without a timer or a flush on its way to it.
ErrorsOnTheirWay ==
    LET envelopes == posting \cup posted \cup {buffer}
        In(env)   == env.events \cup env.dropped
    IN /\ Errors \ pending = UNION {In(env) : env \in envelopes}
       /\ \A e1, e2 \in envelopes : e1 # e2 => In(e1) \cap In(e2) = {}
       /\ \A env \in envelopes : env.events \cap env.dropped = {}
       /\ buffer.events # {} => timer = "armed" \/ flushes > 0
===============================================================================
