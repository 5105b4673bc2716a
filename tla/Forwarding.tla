------------------------------ MODULE Forwarding ------------------------------
(***************************************************************************)
(* A request through a proxy machine (proxy/proxy.go): authorize, forward, *)
(* stream the answer back a chunk at a time, and meter from a copy in a    *)
(* goroutine that outlives the handler.  Upstream may break off, the       *)
(* client may leave, and the process may die, at any step.                 *)
(*                                                                         *)
(* A body is a sequence of chunks, each one event with the token counts it *)
(* reports (proxy/cost.go); an event cut in the middle does not parse, and *)
(* counts as one that did not arrive.  The input and output buckets stand  *)
(* for the four, which are read in the same way.                           *)
(***************************************************************************)
EXTENDS Integers, Sequences, FiniteSetsExt

CONSTANTS Exchanges,    \* requests of clients
          Answers       \* what upstream can answer, see Answer

Absent == -1
Event  == [in : Nat \cup {Absent}, out : Nat \cup {Absent}]
Answer == [sse : BOOLEAN, metered : BOOLEAN, perRequest : BOOLEAN, events : Seq(Event)]

ASSUME ForwardingAssumption == Answers \subseteq Answer

VARIABLES
    exchange,    \* of every request: its handler, and what its client saw
    usageRows,   \* the rows of the ledger, by request
    unrecorded   \* requests whose process died, or whose INSERT failed

forwardVars == <<exchange, usageRows, unrecorded>>

NoAnswer == [sse |-> FALSE, metered |-> FALSE, perRequest |-> FALSE, events |-> <<>>]

\* read, kept and got are counts of chunks: of the body each is a prefix.
NoExchange == [at |-> "idle", client |-> TRUE, body |-> NoAnswer, read |-> 0, kept |-> 0,
               got |-> 0, clientOK |-> TRUE, end |-> "open", meter |-> "none"]

ForwardInit ==
    /\ exchange = [x \in Exchanges |-> NoExchange]
    /\ usageRows = [x \in Exchanges |-> <<>>]
    /\ unrecorded = {}

-------------------------------------------------------------------------------
(* Usage extraction (proxy/cost.go) *)

NoUsage == [in |-> Absent, out |-> Absent]

\* The input of the last event that has one, the largest output.
extractUsageFromSSE(events) ==
    LET inputs == {i \in DOMAIN events : events[i].in # Absent}
        output == Max({0} \cup {events[i].out : i \in DOMAIN events})
    IN IF inputs = {} /\ output = 0 THEN NoUsage
       ELSE [in |-> IF inputs = {} THEN 0 ELSE events[Max(inputs)].in, out |-> output]

\* One object, which parses only when it is whole; usage needs its input.
extractUsageFromJSON(body, n) ==
    IF n < Len(body.events) \/ \A i \in DOMAIN body.events : body.events[i].in = Absent
    THEN NoUsage ELSE extractUsageFromSSE(body.events)

Usage(body, n) == IF body.sse THEN extractUsageFromSSE(SubSeq(body.events, 1, n))
                  ELSE extractUsageFromJSON(body, n)

-------------------------------------------------------------------------------
(* The handler.  ex is the record of request x after the step. *)

At(x, step) == exchange[x].at = step
To(x, ex)   == exchange' = [exchange EXCEPT ![x] = ex] /\ UNCHANGED <<usageRows, unrecorded>>

\* The client, if it is still there, sees the connection end like this.
SeesEnd(ex, how) == [ex EXCEPT !.at = "over", !.end = IF ex.client THEN how ELSE @]

Asks(x) == At(x, "idle") /\ To(x, [exchange[x] EXCEPT !.at = "authorize"])

\* 400, 401, 402, 403, 404, 413, 502, or the 500 of a lookup that failed.
Refused(x) == At(x, "authorize") /\ To(x, SeesEnd(exchange[x], "clean"))

Forwarded(x) == At(x, "authorize") /\ To(x, [exchange[x] EXCEPT !.at = "sent"])

\* 500 or 503, or nobody to answer.
Unreachable(x) == At(x, "sent") /\ To(x, SeesEnd(exchange[x], "clean"))

AnswerBegins(x, body) ==
    /\ At(x, "sent")
    /\ To(x, [exchange[x] EXCEPT !.at = "stream", !.body = body])

\* A chunk is kept, then written.  A write to a client that left fails, at once
\* or only after more of them, and the first failure is the last write.
StreamChunk(x, written) ==
    LET ex == exchange[x] IN
    /\ At(x, "stream") /\ ex.read < Len(ex.body.events)
    /\ ex.client => written
    /\ To(x, [ex EXCEPT !.read = @ + 1,
                        !.kept = IF ex.body.metered THEN @ + 1 ELSE @,
                        !.got = IF ex.clientOK /\ ex.client THEN @ + 1 ELSE @,
                        !.clientOK = @ /\ written])

Metering(ex) == [ex EXCEPT !.meter = IF ex.body.metered THEN "runs" ELSE "none"]

StreamEnds(x) ==
    /\ At(x, "stream") /\ exchange[x].read = Len(exchange[x].body.events)
    /\ To(x, SeesEnd(Metering(exchange[x]), "clean"))

\* Broken on purpose: a cut stream ends like a whole one.
BreaksQuietly(x) == At(x, "stream") /\ To(x, SeesEnd(Metering(exchange[x]), "clean"))

\* Broken on purpose: the handler aborts before it starts the metering.
BreaksUnmetered(x) == At(x, "stream") /\ To(x, SeesEnd(exchange[x], "cut"))

\* Upstream breaks off, or the context of a client that left ends the read: what
\* arrived is metered, and a client that is there is cut off as well.
StreamBreaks(x) == At(x, "stream") /\ To(x, SeesEnd(Metering(exchange[x]), "cut"))

ClientLeaves(x) ==
    /\ exchange[x].at \in {"authorize", "sent", "stream"} /\ exchange[x].client
    /\ To(x, [exchange[x] EXCEPT !.client = FALSE])

\* The goroutine: no row when nothing was reported, unless calls are billed.
Meters(x) ==
    LET ex == exchange[x]
        reported == Usage(ex.body, ex.kept)
    IN /\ ex.meter = "runs"
       /\ exchange' = [exchange EXCEPT ![x].meter = "ended"]
       /\ usageRows' = IF reported = NoUsage /\ ~ex.body.perRequest THEN usageRows
                       ELSE [usageRows EXCEPT ![x] = Append(@,
                               IF reported = NoUsage THEN [in |-> 0, out |-> 0] ELSE reported)]
       /\ UNCHANGED unrecorded

MeteringFails(x) ==
    /\ exchange[x].meter = "runs"
    /\ exchange' = [exchange EXCEPT ![x].meter = "ended"]
    /\ unrecorded' = unrecorded \cup {x}
    /\ UNCHANGED usageRows

ProxyDies ==
    LET dying == {x \in Exchanges : \/ exchange[x].at \in {"authorize", "sent", "stream"}
                                    \/ exchange[x].meter = "runs"}
    IN /\ dying # {}
       /\ exchange' = [x \in Exchanges |->
             IF x \notin dying THEN exchange[x]
             ELSE IF exchange[x].at = "over" THEN [exchange[x] EXCEPT !.meter = "ended"]
             ELSE SeesEnd(exchange[x], "cut")]
       /\ unrecorded' = unrecorded \cup dying
       /\ UNCHANGED usageRows

\* Nothing is left of a request but its row.
Forgotten(x) ==
    /\ At(x, "over") /\ exchange[x].meter # "runs"
    /\ exchange' = [exchange EXCEPT ![x] = NoExchange]
    /\ usageRows' = [usageRows EXCEPT ![x] = <<>>]
    /\ unrecorded' = unrecorded \ {x}

ForwardNext ==
    \/ \E x \in Exchanges :
          \/ Asks(x) \/ Refused(x) \/ Forwarded(x) \/ Unreachable(x)
          \/ \E body \in Answers : AnswerBegins(x, body)
          \/ \E written \in BOOLEAN : StreamChunk(x, written)
          \/ StreamEnds(x) \/ StreamBreaks(x) \/ ClientLeaves(x)
          \/ Meters(x) \/ MeteringFails(x) \/ Forgotten(x)
    \/ ProxyDies

ForwardSpec == ForwardInit /\ [][ForwardNext]_forwardVars

-------------------------------------------------------------------------------
(* Properties *)

\* Handlers, goroutines and rows are well formed.
ForwardTypeOK ==
    /\ \A x \in Exchanges :
          /\ exchange[x].at \in {"idle", "authorize", "sent", "stream", "over"}
          /\ exchange[x].end \in {"open", "clean", "cut"}
          /\ exchange[x].meter \in {"none", "runs", "ended"}
          /\ exchange[x].client \in BOOLEAN /\ exchange[x].clientOK \in BOOLEAN
          /\ exchange[x].body \in Answers \cup {NoAnswer}
          /\ {exchange[x].kept, exchange[x].got} \subseteq 0 .. exchange[x].read
          /\ exchange[x].read \in 0 .. Len(exchange[x].body.events)
          /\ usageRows[x] \in Seq([in : Nat, out : Nat])
    /\ unrecorded \subseteq Exchanges

\* A client that saw its answer end cleanly has all of it: an upstream that breaks
\* off does not look like one that finished.
CleanEndIsWhole ==
    \A x \in Exchanges :
       exchange[x].end = "clean" => exchange[x].got = Len(exchange[x].body.events)

\* What a client received of a billable answer is metered, once, whoever broke the
\* stream off and when, and never past what upstream reported in all.  Only a
\* process that died or an INSERT that failed leaves it out.
WhatArrivedIsMetered ==
    \A x \in Exchanges :
       LET ex == exchange[x]
           received == Usage(ex.body, ex.got)
           sent     == Usage([ex.body EXCEPT !.sse = TRUE], Len(ex.body.events))
       IN /\ Len(usageRows[x]) <= 1
          /\ \A i \in DOMAIN usageRows[x] :
                /\ ex.body.metered
                /\ \A b \in {"in", "out"} : usageRows[x][i][b] <= Max({0, sent[b]})
          /\ (/\ ex.at = "over" /\ ex.meter # "runs" /\ x \notin unrecorded
              /\ ex.body.metered /\ (received # NoUsage \/ ex.body.perRequest)) =>
                /\ usageRows[x] # <<>>
                /\ \A b \in {"in", "out"} : received[b] <= usageRows[x][1][b]
===============================================================================
