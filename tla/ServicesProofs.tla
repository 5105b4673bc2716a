----------------------------- MODULE ServicesProofs -----------------------------
(***************************************************************************)
(* Proofs about the parts that run beside metering: the ingest barrier,    *)
(* the migration runner and the price table of the api, the error reporter *)
(* and the streams of the proxy; then of the five as they are checked      *)
(* together.  Each has an invariant in parts, of records and lists that    *)
(* are parameters of the parts, and its initial states and its steps in    *)
(* lemmas.                                                                 *)
(***************************************************************************)
EXTENDS MC_Services, FiniteSetTheorems, SequenceTheorems, WellFoundedInduction, TLAPS

-------------------------------------------------------------------------------
(* The ingest barrier *)

\* The pass in `running` is in flight; another may be, which it forgot.
RunningIsPolling == running # None => pass[running].polling = TRUE

\* `queued` is chained to the pass in `running`, until that one is over.
QueuedBehindRunning ==
    queued # None /\ pass[queued].polling = TRUE => running = queued

\* What a request waits for, and how much of what it came for is covered.
ReaderInv(rd) ==
    /\ rd.called <= written
    /\ rd.at = "onPass" => /\ rd.on \in PassIds
                            /\ pass[rd.on].polling = TRUE
                            /\ pass[rd.on].covers >= rd.called
    /\ rd.at = "onQueue" => rd.on \in PassIds /\ queued = rd.on
    /\ rd.at = "answered" /\ rd.partial = FALSE => rd.covers >= rd.called

BarrierInv ==
    /\ TypeOK
    /\ RunningIsPolling
    /\ QueuedBehindRunning
    /\ \A r \in Readers : ReaderInv(reader[r])

\* Records of the two kinds the variables hold.
PassRecord   == [polling : BOOLEAN, covers : 0 .. MaxWritten]
ReaderRecord == [at : {"idle", "onPass", "onQueue", "answered"},
                 on : PassIds \cup {None}, called : 0 .. MaxWritten,
                 covers : 0 .. MaxWritten, partial : BOOLEAN]

LEMMA FreeIsRecord ==
    /\ Free \in PassRecord
    /\ Free.polling = FALSE
    /\ Idle \in ReaderRecord
    /\ Idle.at = "idle"
    /\ Idle.called = 0
<1>1. Free \in PassRecord /\ Free.polling = FALSE
    BY BarrierAssumption DEF Free, PassRecord
<1>2. Idle \in ReaderRecord /\ Idle.at = "idle" /\ Idle.called = 0
    BY BarrierAssumption DEF Idle, ReaderRecord
<1> QED BY <1>1, <1>2

LEMMA StartedIsRecord ==
    ASSUME written \in 0 .. MaxWritten
    PROVE  Started \in PassRecord /\ Started.polling = TRUE /\ Started.covers = written
BY DEF Started, PassRecord

\* What the callbacks on pass i make of a request that waits for it.
LEMMA AnsweredReader ==
    ASSUME NEW rd \in ReaderRecord, NEW i \in PassIds, NEW complete \in BOOLEAN,
           pass \in [PassIds -> PassRecord]
    PROVE  /\ Answered(rd, i, complete) \in ReaderRecord
           /\ rd.at = "onPass" /\ rd.on = i =>
                /\ Answered(rd, i, complete).at = "answered"
                /\ Answered(rd, i, complete).called = rd.called
                /\ Answered(rd, i, complete).covers = pass[i].covers
<1> DEFINE answer == [at |-> "answered", on |-> None, called |-> rd.called,
                      covers |-> pass[i].covers, partial |-> ~complete]
<1>1. answer \in ReaderRecord
    BY DEF ReaderRecord, PassRecord
<1>2. CASE rd.at = "onPass" /\ rd.on = i
  <2>1. Answered(rd, i, complete) = answer
    BY <1>2 DEF Answered, ReaderRecord
  <2> QED BY <2>1, <1>1
<1>3. CASE ~(rd.at = "onPass" /\ rd.on = i)
    BY <1>3 DEF Answered
<1> QED BY <1>2, <1>3

LEMMA BarrierInit == Init => BarrierInv
<1> SUFFICES ASSUME Init
             PROVE  BarrierInv
    OBVIOUS
<1>1. TypeOK
    BY BarrierAssumption, FreeIsRecord
       DEF Init, TypeOK, PassRecord, ReaderRecord
<1>2. RunningIsPolling /\ QueuedBehindRunning
    BY BarrierAssumption, FreeIsRecord
       DEF Init, RunningIsPolling, QueuedBehindRunning
<1>3. ASSUME NEW r \in Readers
      PROVE  ReaderInv(reader[r])
  <2>1. reader[r] = Idle /\ written = 0
    BY DEF Init
  <2> QED BY <2>1, FreeIsRecord DEF ReaderInv, ReaderRecord
<1> QED BY <1>1, <1>2, <1>3 DEF BarrierInv

LEMMA BarrierNext == BarrierInv /\ [Next]_vars => BarrierInv'
<1> USE BarrierAssumption, FreeIsRecord, StartedIsRecord
<1> SUFFICES ASSUME BarrierInv, [Next]_vars
             PROVE  BarrierInv'
    OBVIOUS
<1>0. /\ written \in 0 .. MaxWritten
      /\ pass \in [PassIds -> PassRecord]
      /\ running \in PassIds \cup {None}
      /\ queued \in PassIds \cup {None}
      /\ reader \in [Readers -> ReaderRecord]
      /\ \A r \in Readers : ReaderInv(reader[r])
    BY DEF BarrierInv, TypeOK, PassRecord, ReaderRecord
<1>q. /\ RunningIsPolling
      /\ QueuedBehindRunning
    BY DEF BarrierInv
<1>t. ASSUME written' \in 0 .. MaxWritten,
             pass' \in [PassIds -> PassRecord],
             running' \in PassIds \cup {None},
             queued' \in PassIds \cup {None},
             reader' \in [Readers -> ReaderRecord],
             RunningIsPolling',
             QueuedBehindRunning',
             \A r \in Readers : ReaderInv(reader[r])'
      PROVE  BarrierInv'
    BY <1>t DEF BarrierInv, TypeOK, PassRecord, ReaderRecord
<1>1. CASE WriteRow
  <2>1. written' \in 0 .. MaxWritten /\ pass' \in [PassIds -> PassRecord]
    BY <1>1, <1>0 DEF WriteRow
  <2>2. running' \in PassIds \cup {None} /\ queued' \in PassIds \cup {None}
    BY <1>1, <1>0 DEF WriteRow
  <2>3. reader' \in [Readers -> ReaderRecord]
    BY <1>1, <1>0 DEF WriteRow, ReaderRecord
  <2>4. RunningIsPolling' /\ QueuedBehindRunning'
    BY <1>1, <1>0, <1>q DEF WriteRow, RunningIsPolling, QueuedBehindRunning
  <2>5. ASSUME NEW r \in Readers
        PROVE  ReaderInv(reader[r])'
    BY <1>1, <1>0, <1>q, <2>1, <2>3 DEF WriteRow, ReaderInv, RunningIsPolling, ReaderRecord, PassRecord
  <2> QED BY <1>t, <2>1, <2>2, <2>3, <2>4, <2>5
<1>2. ASSUME NEW i \in PassIds, Tick(i)
      PROVE  BarrierInv'
  <2>1. written' \in 0 .. MaxWritten /\ pass' \in [PassIds -> PassRecord]
    BY <1>2, <1>0 DEF Tick, IsFree
  <2>2. running' \in PassIds \cup {None} /\ queued' \in PassIds \cup {None}
    BY <1>2, <1>0 DEF Tick, IsFree
  <2>3. reader' \in [Readers -> ReaderRecord]
    BY <1>2, <1>0 DEF Tick, IsFree, ReaderRecord
  <2>4. RunningIsPolling' /\ QueuedBehindRunning'
    BY <1>2, <1>0, <1>q DEF Tick, IsFree, RunningIsPolling, QueuedBehindRunning
  <2>5. ASSUME NEW r \in Readers
        PROVE  ReaderInv(reader[r])'
    BY <1>2, <1>0, <1>q, <2>1, <2>3 DEF Tick, IsFree, ReaderInv, RunningIsPolling, ReaderRecord, PassRecord
  <2> QED BY <1>t, <2>1, <2>2, <2>3, <2>4, <2>5
<1>3. ASSUME NEW i \in PassIds, NEW q \in Readers, IngestNowStarts(q, i)
      PROVE  BarrierInv'
  <2>1. written' \in 0 .. MaxWritten /\ pass' \in [PassIds -> PassRecord]
    BY <1>3, <1>0 DEF IngestNowStarts, IsFree, Idle
  <2>2. running' \in PassIds \cup {None} /\ queued' \in PassIds \cup {None}
    BY <1>3, <1>0 DEF IngestNowStarts, IsFree, Idle
  <2>3. reader' \in [Readers -> ReaderRecord]
    BY <1>3, <1>0 DEF IngestNowStarts, IsFree, Idle, ReaderRecord
  <2>4. RunningIsPolling' /\ QueuedBehindRunning'
    BY <1>3, <1>0, <1>q DEF IngestNowStarts, IsFree, Idle, RunningIsPolling, QueuedBehindRunning
  <2>5. ASSUME NEW r \in Readers
        PROVE  ReaderInv(reader[r])'
    <3>1. /\ written' = written /\ queued' = queued
          /\ pass[i].polling = FALSE
          /\ pass' = [pass EXCEPT ![i] = Started]
      BY <1>3, <1>0 DEF IngestNowStarts, IsFree, PassRecord
    <3>2. CASE r = q
      <4>1. /\ reader'[r].at = "onPass" /\ reader'[r].on = i
            /\ reader'[r].called = written
        BY <3>2, <1>3, <1>0 DEF IngestNowStarts, Idle
      <4>2. pass'[i].polling = TRUE /\ pass'[i].covers = written
        BY <3>1, <1>0 DEF Started
      <4> QED BY <4>1, <4>2, <3>1, <1>0 DEF ReaderInv
    <3>3. CASE r # q
      <4>1. reader'[r] = reader[r] /\ reader[r] \in ReaderRecord /\ ReaderInv(reader[r])
        BY <3>3, <1>3, <1>0 DEF IngestNowStarts
      <4>2. reader[r].at = "onPass" => reader[r].on # i
        BY <4>1, <3>1 DEF ReaderInv
      <4> QED BY <4>1, <4>2, <3>1, <1>0 DEF ReaderInv, ReaderRecord
    <3> QED BY <3>2, <3>3
  <2> QED BY <1>t, <2>1, <2>2, <2>3, <2>4, <2>5
<1>4. ASSUME NEW q \in Readers, IngestNowQueues(q)
      PROVE  BarrierInv'
  <2>1. written' \in 0 .. MaxWritten /\ pass' \in [PassIds -> PassRecord]
    BY <1>4, <1>0 DEF IngestNowQueues, Idle
  <2>2. running' \in PassIds \cup {None} /\ queued' \in PassIds \cup {None}
    BY <1>4, <1>0 DEF IngestNowQueues, Idle
  <2>3. reader' \in [Readers -> ReaderRecord]
    BY <1>4, <1>0 DEF IngestNowQueues, Idle, ReaderRecord
  <2>4. RunningIsPolling' /\ QueuedBehindRunning'
    BY <1>4, <1>0, <1>q DEF IngestNowQueues, Idle, RunningIsPolling, QueuedBehindRunning
  <2>5. ASSUME NEW r \in Readers
        PROVE  ReaderInv(reader[r])'
    BY <1>4, <1>0, <1>q, <2>1, <2>3 DEF IngestNowQueues, Idle, ReaderInv, RunningIsPolling, ReaderRecord, PassRecord
  <2> QED BY <1>t, <2>1, <2>2, <2>3, <2>4, <2>5
<1>5. ASSUME NEW q \in Readers, Timeout(q) \/ Reply(q)
      PROVE  BarrierInv'
  <2>1. UNCHANGED <<written, pass, running, queued>>
    BY <1>5 DEF Timeout, Reply
  <2>2. reader' \in [Readers -> ReaderRecord]
    BY <1>5, <1>0 DEF Timeout, Reply, ReaderRecord
  <2>3. ASSUME NEW r \in Readers
        PROVE  ReaderInv(reader[r])'
    BY <1>5, <1>0, <2>1, <2>2 DEF Timeout, Reply, ReaderInv, ReaderRecord
  <2> QED BY <1>t, <1>0, <1>q, <2>1, <2>2, <2>3
          DEF RunningIsPolling, QueuedBehindRunning
<1>6. ASSUME NEW i \in PassIds, NEW complete \in BOOLEAN, PassEnds(i, complete)
      PROVE  BarrierInv'
  <2>1. written' \in 0 .. MaxWritten /\ pass' \in [PassIds -> PassRecord]
    BY <1>6, <1>0 DEF PassEnds
  <2>2. running' \in PassIds \cup {None} /\ queued' \in PassIds \cup {None}
    BY <1>6, <1>0 DEF PassEnds, Cleared
  <2>3. \A r \in Readers : reader'[r] = Answered(reader[r], i, complete)
    BY <1>6 DEF PassEnds
  <2>4. reader' \in [Readers -> ReaderRecord]
    BY <1>6, <1>0, AnsweredReader DEF PassEnds
  <2>5. RunningIsPolling' /\ QueuedBehindRunning'
    BY <1>6, <1>0, <1>q DEF PassEnds, Cleared, RunningIsPolling, QueuedBehindRunning
  <2>6. ASSUME NEW r \in Readers
        PROVE  ReaderInv(reader[r])'
    <3>1. /\ UNCHANGED <<written, queued>>
          /\ \A k \in PassIds : k # i => pass'[k] = pass[k]
      BY <1>6, <1>0 DEF PassEnds
    <3>2. reader[r] \in ReaderRecord /\ reader'[r] \in ReaderRecord
      BY <2>4, <1>0
    <3>3. CASE reader[r].at = "onPass" /\ reader[r].on = i
      BY <3>1, <3>2, <3>3, <2>3, <1>0, AnsweredReader DEF ReaderInv, ReaderRecord, PassRecord
    <3>4. CASE ~(reader[r].at = "onPass" /\ reader[r].on = i)
      <4>1. reader'[r] = reader[r]
        BY <3>4, <2>3 DEF Answered
      <4> QED BY <4>1, <3>1, <3>2, <3>4, <1>0 DEF ReaderInv, ReaderRecord, PassRecord
    <3> QED BY <3>3, <3>4
  <2> QED BY <1>t, <2>1, <2>2, <2>4, <2>5, <2>6
<1>7. ASSUME NEW j \in PassIds, QueuedStarts(j)
      PROVE  BarrierInv'
  <2>0. /\ written' = written /\ queued' = None /\ running' = j
        /\ pass[j].polling = FALSE
        /\ pass' = [pass EXCEPT ![j] = Started]
    BY <1>7, <1>0 DEF QueuedStarts, PassRecord
  <2>1. written' \in 0 .. MaxWritten /\ pass' \in [PassIds -> PassRecord]
    BY <2>0, <1>0
  <2>2. running' \in PassIds \cup {None} /\ queued' \in PassIds \cup {None}
    BY <2>0
  <2>3. \A r \in Readers :
           reader'[r] = IF reader[r].at = "onQueue"
                        THEN [reader[r] EXCEPT !.at = "onPass", !.on = j]
                        ELSE reader[r]
    BY <1>7 DEF QueuedStarts
  <2>4. reader' \in [Readers -> ReaderRecord]
    BY <1>7, <1>0 DEF QueuedStarts, ReaderRecord
  <2>5. RunningIsPolling' /\ QueuedBehindRunning'
    BY <2>0, <1>0 DEF RunningIsPolling, QueuedBehindRunning
  <2>6. ASSUME NEW r \in Readers
        PROVE  ReaderInv(reader[r])'
    <3>1. pass'[j] = Started /\ \A k \in PassIds : k # j => pass'[k] = pass[k]
      BY <2>0, <1>0
    <3>2. reader[r] \in ReaderRecord /\ reader'[r] \in ReaderRecord
      BY <2>4, <1>0
    <3>3. CASE reader[r].at = "onQueue"
      <4>1. /\ reader'[r].at = "onPass" /\ reader'[r].on = j
            /\ reader'[r].called = reader[r].called
        BY <3>3, <2>3, <3>2 DEF ReaderRecord
      <4> QED BY <4>1, <3>1, <3>2, <2>0, <1>0 DEF ReaderInv, ReaderRecord
    <3>4. CASE reader[r].at # "onQueue"
      <4>1. reader'[r] = reader[r]
        BY <3>4, <2>3
      <4>2. reader[r].at = "onPass" => reader[r].on # j
        BY <2>0, <1>0 DEF ReaderInv
      <4> QED BY <4>1, <4>2, <3>4, <3>1, <3>2, <2>0, <1>0 DEF ReaderInv, ReaderRecord, PassRecord
    <3> QED BY <3>3, <3>4
  <2> QED BY <1>t, <2>1, <2>2, <2>4, <2>5, <2>6
<1>8. CASE UNCHANGED vars
  <2>1. written' \in 0 .. MaxWritten /\ pass' \in [PassIds -> PassRecord]
    BY <1>8, <1>0 DEF vars
  <2>2. running' \in PassIds \cup {None} /\ queued' \in PassIds \cup {None}
    BY <1>8, <1>0 DEF vars
  <2>3. reader' \in [Readers -> ReaderRecord]
    BY <1>8, <1>0 DEF vars, ReaderRecord
  <2>4. RunningIsPolling' /\ QueuedBehindRunning'
    BY <1>8, <1>0, <1>q DEF vars, RunningIsPolling, QueuedBehindRunning
  <2>5. ASSUME NEW r \in Readers
        PROVE  ReaderInv(reader[r])'
    BY <1>8, <1>0, <1>q, <2>1, <2>3 DEF vars, ReaderInv, RunningIsPolling, ReaderRecord, PassRecord
  <2> QED BY <1>t, <2>1, <2>2, <2>3, <2>4, <2>5
<1> QED BY <1>1, <1>2, <1>3, <1>4, <1>5, <1>6, <1>7, <1>8
       DEF Next, PassReturns, QueueRuns

LEMMA BarrierHolds == Spec => []BarrierInv
BY BarrierInit, BarrierNext, PTL DEF Spec

\* The variables have their types.
THEOREM BarrierTypeCorrect == Spec => []TypeOK
BY BarrierHolds, PTL DEF BarrierInv

\* An answer of GET /usage that is not flagged covers what was written before it.
THEOREM AnswersAreFresh == Spec => []FreshOrFlagged
<1>1. BarrierInv => FreshOrFlagged
    BY DEF BarrierInv, ReaderInv, FreshOrFlagged
<1> QED BY <1>1, BarrierHolds, PTL

\* Nothing waits for a promise that nobody will settle, though passes overlap
\* when a reader comes between the end of one and the start of the queued one.
THEOREM NobodyWaitsInVain == Spec => []WaitsForLivePass
<1>1. BarrierInv => WaitsForLivePass
    BY BarrierAssumption
       DEF BarrierInv, TypeOK, RunningIsPolling, QueuedBehindRunning, ReaderInv,
           WaitsForLivePass
<1> QED BY <1>1, BarrierHolds, PTL

-------------------------------------------------------------------------------
(* The error reporter *)

Envelope  == [events : SUBSET Errors, dropped : SUBSET Errors]
In(env)   == env.events \cup env.dropped
Sent      == posting \cup posted

\* An envelope on its way or gone shares no error with the buffer, which it may
\* equal only when both are empty: that is why an error can be added to one.
EnvelopesInv ==
    /\ pending \subseteq Errors
    /\ buffer \in Envelope
    /\ posting \subseteq Envelope
    /\ posted \subseteq Envelope
    /\ \A e \in Errors : e \notin pending <=> \E env \in Sent \cup {buffer} : e \in In(env)
    /\ \A env \in Sent : In(env) \cap In(buffer) = {}
    /\ \A e1, e2 \in Sent : e1 # e2 => In(e1) \cap In(e2) = {}
    /\ \A env \in Sent \cup {buffer} : env.events \cap env.dropped = {}

\* A timer that fired has its flush before it, so an event that finds it set may
\* leave the flushing to it.
TimerInv ==
    /\ timer \in {"nil", "armed", "fired"}
    /\ flushes \in Nat
    /\ timer = "fired" => flushes > 0
    /\ buffer.events # {} => timer = "armed" \/ flushes > 0

WindowInv == windowOver \in BOOLEAN /\ windowCount \in 0 .. MaxEventsPerMin

ReporterInv == EnvelopesInv /\ TimerInv /\ WindowInv

LEMMA ReporterInitInv == ReporterInit => ReporterInv
<1> SUFFICES ASSUME ReporterInit
             PROVE  ReporterInv
    OBVIOUS
<1>1. Nothing \in Envelope /\ In(Nothing) = {} /\ Nothing.events = {} /\ Nothing.dropped = {}
    BY DEF Nothing, Envelope, In
<1>2. EnvelopesInv
    BY <1>1 DEF ReporterInit, EnvelopesInv, Sent
<1>3. TimerInv /\ WindowInv
    BY <1>1, ReporterAssumption DEF ReporterInit, TimerInv, WindowInv
<1> QED BY <1>2, <1>3 DEF ReporterInv

\* An error joins the buffer, as an event or as a dropped one.
LEMMA ErrorBuffered ==
    ASSUME EnvelopesInv, NEW e \in pending, pending' = pending \ {e},
           UNCHANGED <<posting, posted>>, buffer' \in Envelope,
           \/ buffer'.events = buffer.events \cup {e} /\ buffer'.dropped = buffer.dropped
           \/ buffer'.events = buffer.events /\ buffer'.dropped = buffer.dropped \cup {e}
    PROVE  EnvelopesInv'
<1>1. In(buffer') = In(buffer) \cup {e}
    BY DEF In
<1>2. \A env \in Sent \cup {buffer} : e \notin In(env)
    BY DEF EnvelopesInv
<1>3. Sent' = Sent
    BY DEF Sent
<1>4. \A d \in Errors : d \notin pending' <=> \E env \in Sent' \cup {buffer'} : d \in In(env)
    BY <1>1, <1>3 DEF EnvelopesInv
<1>5. \A env \in Sent' : In(env) \cap In(buffer') = {}
    BY <1>1, <1>2, <1>3 DEF EnvelopesInv
<1>6. buffer'.events \cap buffer'.dropped = {}
    BY <1>2 DEF EnvelopesInv, In
<1> QED BY <1>3, <1>4, <1>5, <1>6 DEF EnvelopesInv

\* The buffer becomes an envelope of its own.
LEMMA BufferFlushed ==
    ASSUME EnvelopesInv, Flushed, UNCHANGED <<pending, posted>>
    PROVE  EnvelopesInv' /\ (buffer'.events = {})
<1>1. Nothing \in Envelope /\ In(Nothing) = {} /\ Nothing.events = {} /\ Nothing.dropped = {}
    BY DEF Nothing, Envelope, In
<1>2. CASE buffer = Nothing
    BY <1>1, <1>2 DEF EnvelopesInv, Flushed, Sent
<1>3. CASE buffer # Nothing
  <2>1. buffer' = Nothing /\ Sent' = Sent \cup {buffer} /\ posting' = posting \cup {buffer}
      BY <1>3 DEF Flushed, Sent
  <2>2. \A e \in Errors : e \notin pending' <=> \E env \in Sent' \cup {buffer'} : e \in In(env)
      BY <1>1, <2>1 DEF EnvelopesInv
  <2>3. \A env \in Sent' : In(env) \cap In(buffer') = {}
      BY <1>1, <2>1
  <2>4. \A e1, e2 \in Sent' : e1 # e2 => In(e1) \cap In(e2) = {}
      BY <2>1 DEF EnvelopesInv
  <2>5. \A env \in Sent' \cup {buffer'} : env.events \cap env.dropped = {}
      BY <1>1, <2>1 DEF EnvelopesInv
  <2> QED BY <1>1, <2>1, <2>2, <2>3, <2>4, <2>5 DEF EnvelopesInv
<1> QED BY <1>2, <1>3

LEMMA ReporterNextInv == ReporterInv /\ [ReporterNext]_reporterVars => ReporterInv'
<1> USE ReporterAssumption
<1> SUFFICES ASSUME ReporterInv, [ReporterNext]_reporterVars
             PROVE  ReporterInv'
    OBVIOUS
<1> USE DEF ReporterInv
<1>1. ASSUME NEW e \in Errors, NEW seen \in BOOLEAN, ReportDropped(e, seen)
      PROVE  ReporterInv'
  <2>1. /\ buffer' \in Envelope /\ buffer'.events = buffer.events
        /\ buffer'.dropped = buffer.dropped \cup {e}
    BY <1>1 DEF ReportDropped, EnvelopesInv, Envelope
  <2>2. EnvelopesInv'
    BY <1>1, <2>1, ErrorBuffered DEF ReportDropped
  <2> QED BY <1>1, <2>1, <2>2 DEF ReportDropped, TimerInv, WindowInv
<1>2. ASSUME NEW e \in Errors, NEW seen \in BOOLEAN, ReportBuffered(e, seen)
      PROVE  ReporterInv'
  <2>1. /\ buffer' \in Envelope /\ buffer'.dropped = buffer.dropped
        /\ buffer'.events = buffer.events \cup {e}
    BY <1>2 DEF ReportBuffered, EnvelopesInv, Envelope
  <2>2. EnvelopesInv'
    BY <1>2, <2>1, ErrorBuffered DEF ReportBuffered
  <2>3. TimerInv'
    BY <1>2 DEF ReportBuffered, TimerInv
  <2>4. WindowInv'
    BY <1>2 DEF ReportBuffered, WindowInv, Window
  <2> QED BY <2>2, <2>3, <2>4
<1>3. CASE TimerFires
    BY <1>3 DEF TimerFires, EnvelopesInv, Sent, TimerInv, WindowInv
<1>4. CASE Flush
  <2>1. EnvelopesInv' /\ buffer'.events = {}
    BY <1>4, BufferFlushed DEF Flush
  <2> QED BY <1>4, <2>1 DEF Flush, TimerInv, WindowInv
<1>5. ASSUME NEW env \in posting, PostEnds(env)
      PROVE  ReporterInv'
  <2>1. Sent' = Sent /\ posting' \subseteq Envelope /\ posted' \subseteq Envelope
    BY <1>5 DEF PostEnds, Sent, EnvelopesInv
  <2>2. EnvelopesInv'
    BY <1>5, <2>1 DEF PostEnds, EnvelopesInv
  <2> QED BY <1>5, <2>2 DEF PostEnds, TimerInv, WindowInv
<1>6. CASE MinutePasses
    BY <1>6 DEF MinutePasses, EnvelopesInv, Sent, TimerInv, WindowInv
<1>7. CASE ReporterRestarts
  <2>1. Nothing \in Envelope /\ In(Nothing) = {} /\ Nothing.events = {} /\ Nothing.dropped = {}
    BY DEF Nothing, Envelope, In
  <2>2. EnvelopesInv'
    BY <1>7, <2>1 DEF ReporterRestarts, EnvelopesInv, Sent
  <2> QED BY <1>7, <2>1, <2>2 DEF ReporterRestarts, TimerInv, WindowInv
<1>8. CASE UNCHANGED reporterVars
    BY <1>8 DEF reporterVars, EnvelopesInv, Sent, TimerInv, WindowInv
<1> QED BY <1>1, <1>2, <1>3, <1>4, <1>5, <1>6, <1>7, <1>8 DEF ReporterNext

LEMMA ReporterHolds == ReporterSpec => []ReporterInv
BY ReporterInitInv, ReporterNextInv, PTL DEF ReporterSpec

\* No error reported to a proxy process is lost, sent twice or stuck: it is in one
\* envelope, and a buffered event has a timer or a flush on its way to it.
THEOREM NoErrorLost == ReporterSpec => []ErrorsOnTheirWay
<1>1. ReporterInv => ErrorsOnTheirWay
  <2> SUFFICES ASSUME ReporterInv
               PROVE  ErrorsOnTheirWay
      OBVIOUS
  <2> DEFINE envelopes == posting \cup posted \cup {buffer}
             OfEnv(env) == env.events \cup env.dropped
  <2>1. Errors \ pending = UNION {OfEnv(env) : env \in envelopes}
      BY DEF ReporterInv, EnvelopesInv, Envelope, Sent, In
  <2>2. \A e1, e2 \in envelopes : e1 # e2 => OfEnv(e1) \cap OfEnv(e2) = {}
      BY DEF ReporterInv, EnvelopesInv, Sent, In
  <2>3. \A env \in envelopes : env.events \cap env.dropped = {}
      BY DEF ReporterInv, EnvelopesInv, Sent
  <2>4. buffer.events # {} => timer = "armed" \/ flushes > 0
      BY DEF ReporterInv, TimerInv
  <2> QED BY <2>1, <2>2, <2>3, <2>4 DEF ErrorsOnTheirWay
<1> QED BY <1>1, ReporterHolds, PTL

\* The reporter's variables have their types, its count stays within the minute's.
THEOREM ReporterTypeCorrect == ReporterSpec => []ReporterTypeOK
<1>1. ReporterInv => ReporterTypeOK
    BY DEF ReporterInv, EnvelopesInv, Envelope, TimerInv, WindowInv, ReporterTypeOK
<1> QED BY <1>1, ReporterHolds, PTL

-------------------------------------------------------------------------------
(* The migration runner *)

RunnerRecord ==
    [at : {"idle", "dropLlm", "dropTracking", "ensure", "applied", "verify",
           "backfill", "apply", "rollBack", "done", "failed"},
     command : {"up", "down", "reset"}, dir : Directories \cup {<<>>},
     applied : SUBSET Files, todo : SUBSET Files, alone : BOOLEAN]

MigrationsTypeInv ==
    /\ objects \in [DOMAIN objects -> Contents] /\ DOMAIN objects \subseteq Files
    /\ recorded \in [DOMAIN recorded -> Contents \cup {NoHash}]
    /\ DOMAIN recorded \subseteq Files
    /\ tracking \in BOOLEAN
    /\ ~tracking => recorded = Empty
    /\ torn \subseteq Files
    /\ runner \in [Runners -> RunnerRecord]

\* A row without a hash is of a file that may have none, and a hash is that of
\* what was applied: but of torn files, which a later deploy may apply again.
HashInv ==
    /\ \A f \in DOMAIN recorded \ Unhashed : recorded[f] # NoHash
    /\ \A f \in DOMAIN recorded \ (torn \cup Unhashed) : recorded[f] = objects[f]

\* Of these files a directory has what was applied.  Objects, rows and torn files
\* are parameters here, so that two states can be compared.
Settled(obj, rec, trn, dir, fs) ==
    \A f \in fs :
        /\ f \in DOMAIN rec
        /\ f \notin trn \cup Unhashed => rec[f] = dir[f] /\ obj[f] = dir[f]

\* What an up that was never disturbed knows, at each of its statements: the rows
\* it read are there, those it verified agree with its files, and the files it no
\* longer has to apply are settled.
UpInv(obj, rec, trn, rn) ==
    /\ rn.at = "verify" => rn.applied \subseteq DOMAIN rec
    /\ rn.at = "backfill" =>
         /\ rn.applied \subseteq DOMAIN rec
         /\ Settled(obj, rec, trn, rn.dir, rn.applied \cap DOMAIN rn.dir)
    /\ rn.at = "apply" => Settled(obj, rec, trn, rn.dir, DOMAIN rn.dir \ rn.todo)
    /\ rn.at = "done" => Settled(obj, rec, trn, rn.dir, DOMAIN rn.dir)

RunnerInv(obj, rec, trn, rn) ==
    /\ rn.at # "idle" => rn.dir \in Directories
    /\ rn.at = "backfill" => rn.todo \subseteq Unhashed
    /\ rn.at \in {"backfill", "apply"} => rn.todo \subseteq DOMAIN rn.dir
    /\ rn.at = "rollBack" => rn.command = "down"
    /\ rn.alone = TRUE /\ rn.command # "down" => UpInv(obj, rec, trn, rn)

RunnersInv == \A r \in Runners : RunnerInv(objects, recorded, torn, runner[r])

MigrationsInv == MigrationsTypeInv /\ SchemaIsRecorded /\ HashInv /\ RunnersInv

LEMMA WithIs ==
    ASSUME NEW fn, NEW f, NEW v
    PROVE  /\ DOMAIN With(fn, f, v) = DOMAIN fn \cup {f}
           /\ With(fn, f, v)[f] = v
           /\ \A g \in DOMAIN fn \ {f} : With(fn, f, v)[g] = fn[g]
           /\ With(fn, f, v) \in [DOMAIN With(fn, f, v) -> {v} \cup {fn[g] : g \in DOMAIN fn}]
BY DEF With

LEMMA WithoutIs ==
    ASSUME NEW fn, NEW fs
    PROVE  /\ DOMAIN Without(fn, fs) = DOMAIN fn \ fs
           /\ \A g \in DOMAIN fn \ fs : Without(fn, fs)[g] = fn[g]
           /\ Without(fn, fs) = [g \in DOMAIN Without(fn, fs) |-> fn[g]]
BY DEF Without, Restrict

LEMMA EmptyIs == DOMAIN Empty = {} /\ \A S : Empty \in [{} -> S]
BY DEF Empty

\* Files are finitely many: the next pending one is one of them.
LEMMA MinIsOne ==
    ASSUME NEW S \in SUBSET Files, S # {}
    PROVE  Min(S) \in S
<1>1. S \subseteq Nat
    BY MigrationsAssumption DEF Files
<1>2. \E x \in S : \A y \in S : ~(<<y, x>> \in OpToRel(<, Nat))
    BY <1>1, NatLessThanWellFounded, WFMin
<1>3. \E x \in S : \A y \in S : ~(y < x)
    BY <1>1, <1>2, Zenon DEF OpToRel
<1>4. \E x \in S : \A y \in S : x =< y
    BY <1>1, <1>3
<1> QED BY <1>4 DEF Min

LEMMA MigrationsInitInv == MigrationsInit => MigrationsInv
<1> USE MigrationsAssumption
<1> SUFFICES ASSUME MigrationsInit
             PROVE  MigrationsInv
    OBVIOUS
<1>1. runner \in [Runners -> RunnerRecord] /\ \A r \in Runners : runner[r].at = "idle"
    BY DEF MigrationsInit, NoRunner, RunnerRecord
<1>2. RunnersInv
    BY <1>1 DEF RunnersInv, RunnerInv, UpInv, RunnerRecord
<1>3. CASE objects = Empty /\ recorded = Empty /\ tracking = FALSE
    BY <1>1, <1>2, <1>3, EmptyIs
       DEF MigrationsInit, MigrationsInv, MigrationsTypeInv, SchemaIsRecorded, HashInv
<1>4. ASSUME Legacy, NEW d \in Directories, 1 \in DOMAIN d,
             objects = With(Empty, 1, d[1]), recorded = With(Empty, 1, NoHash),
             tracking = TRUE
      PROVE  MigrationsInv
  <2>1. DOMAIN objects = {1} /\ DOMAIN recorded = {1}
    BY <1>4, EmptyIs DEF With
  <2>2. objects[1] = d[1] /\ recorded[1] = NoHash
    BY <1>4, EmptyIs DEF With
  <2>5. d[1] \in Contents
    BY <1>4 DEF Contents, Range
  <2>3. objects \in [{1} -> Contents] /\ recorded \in [{1} -> Contents \cup {NoHash}]
    BY <1>4, <2>2, <2>5, EmptyIs DEF With
  <2>4. 1 \in Files /\ Unhashed = {1}
    BY <1>4 DEF Unhashed
  <2> QED BY <1>1, <1>2, <1>4, <2>1, <2>2, <2>3, <2>4
          DEF MigrationsInit, MigrationsInv, MigrationsTypeInv, SchemaIsRecorded, HashInv
<1> QED BY <1>3, <1>4 DEF MigrationsInit

\* What is recorded stays so, with its hash if it had one, and so does what was
\* applied: any step does that but a rollback's and a reset's.
RowsKept(obj, rec, trn, obj2, rec2, trn2) ==
    /\ \A f \in DOMAIN rec : f \in DOMAIN rec2 /\ (f \notin Unhashed => rec2[f] = rec[f])
    /\ \A f \in DOMAIN obj : obj2[f] = obj[f]
    /\ \A f \in DOMAIN rec \cap trn : f \in trn2

LEMMA UpKept ==
    ASSUME NEW obj, NEW rec, NEW trn, NEW obj2, NEW rec2, NEW trn2,
           \A f \in DOMAIN rec \ trn : f \in DOMAIN obj,
           RowsKept(obj, rec, trn, obj2, rec2, trn2),
           NEW rn, RunnerInv(obj, rec, trn, rn)
    PROVE  RunnerInv(obj2, rec2, trn2, rn)
<1>1. ASSUME NEW dir, NEW fs, Settled(obj, rec, trn, dir, fs)
      PROVE  Settled(obj2, rec2, trn2, dir, fs)
    BY <1>1 DEF Settled, RowsKept
<1>2. ASSUME NEW fs, fs \subseteq DOMAIN rec
      PROVE  fs \subseteq DOMAIN rec2
    BY <1>2 DEF RowsKept
<1>3. UpInv(obj, rec, trn, rn) => UpInv(obj2, rec2, trn2, rn)
    BY <1>1, <1>2 DEF UpInv
<1> QED BY <1>3 DEF RunnerInv

\* A runner goes on, and no other is disturbed.
LEMMA RunnerGoesOn ==
    ASSUME MigrationsInv, NEW r \in Runners, NEW rn \in RunnerRecord, Becomes(r, rn),
           RowsKept(objects, recorded, torn, objects', recorded', torn'),
           RunnerInv(objects', recorded', torn', rn)
    PROVE  runner' \in [Runners -> RunnerRecord] /\ RunnersInv'
<1>1. runner' \in [Runners -> RunnerRecord]
    BY DEF MigrationsInv, MigrationsTypeInv, Becomes
<1>2. \A f \in DOMAIN recorded \ torn : f \in DOMAIN objects
    BY DEF MigrationsInv, MigrationsTypeInv, SchemaIsRecorded
<1>3. ASSUME NEW q \in Runners
      PROVE  RunnerInv(objects', recorded', torn', runner'[q])
  <2>1. CASE q = r
    BY <2>1 DEF Becomes, MigrationsInv, MigrationsTypeInv
  <2>2. CASE q # r
    <3>1. runner'[q] = runner[q] /\ RunnerInv(objects, recorded, torn, runner[q])
      BY <2>2 DEF Becomes, MigrationsInv, MigrationsTypeInv, RunnersInv
    <3> QED BY <3>1, <1>2, UpKept
  <2> QED BY <2>1, <2>2
<1> QED BY <1>1, <1>3 DEF RunnersInv

\* A runner rolls back or drops, and the others know nothing any more.
LEMMA RunnerDisturbs ==
    ASSUME MigrationsInv, NEW r \in Runners, NEW rn \in RunnerRecord, Disturbed(r, rn),
           RunnerInv(objects', recorded', torn', rn)
    PROVE  runner' \in [Runners -> RunnerRecord] /\ RunnersInv'
<1>0. runner \in [Runners -> RunnerRecord]
    BY DEF MigrationsInv, MigrationsTypeInv
<1>1. \A q \in Runners :
         runner'[q] = IF q = r THEN rn ELSE [runner[q] EXCEPT !.alone = Is(q, "idle")]
    BY DEF Disturbed
<1>2. ASSUME NEW q \in Runners
      PROVE  /\ runner'[q] \in RunnerRecord
             /\ RunnerInv(objects', recorded', torn', runner'[q])
  <2>1. CASE q = r
    BY <2>1, <1>1
  <2>2. CASE q # r
    <3>1. runner[q] \in RunnerRecord /\ RunnerInv(objects, recorded, torn, runner[q])
      BY <1>0 DEF MigrationsInv, RunnersInv
    <3>2. runner'[q] = [runner[q] EXCEPT !.alone = Is(q, "idle")]
      BY <1>1, <2>2
    <3>3. /\ runner'[q] \in RunnerRecord
          /\ runner'[q].at = runner[q].at
          /\ runner'[q].dir = runner[q].dir
          /\ runner'[q].todo = runner[q].todo
          /\ runner'[q].command = runner[q].command
          /\ runner'[q].alone = TRUE => runner[q].at = "idle"
      BY <3>1, <3>2 DEF RunnerRecord, Is
    <3> QED BY <3>1, <3>3 DEF RunnerInv, UpInv
  <2> QED BY <2>1, <2>2
<1>3. runner' \in [Runners -> RunnerRecord]
    BY <1>2 DEF Disturbed
<1> QED BY <1>2, <1>3 DEF RunnersInv

\* A step that neither applies nor records anything.
LEMMA QuietStep ==
    ASSUME MigrationsInv, NEW r \in Runners, NEW rn \in RunnerRecord, Becomes(r, rn),
           UNCHANGED <<objects, recorded, torn>>, tracking' \in {tracking, TRUE},
           RunnerInv(objects, recorded, torn, rn)
    PROVE  MigrationsInv'
<1>1. RowsKept(objects, recorded, torn, objects', recorded', torn')
    BY DEF RowsKept
<1>2. runner' \in [Runners -> RunnerRecord] /\ RunnersInv'
    BY <1>1, RunnerGoesOn
<1> QED BY <1>2 DEF MigrationsInv, MigrationsTypeInv, SchemaIsRecorded, HashInv

LEMMA MigrationsNextInv == MigrationsInv /\ [MigrationsNext]_migrationVars => MigrationsInv'
<1> USE MigrationsAssumption
<1> SUFFICES ASSUME MigrationsInv, [MigrationsNext]_migrationVars
             PROVE  MigrationsInv'
    OBVIOUS
<1>t. /\ runner \in [Runners -> RunnerRecord]
      /\ MigrationsTypeInv /\ SchemaIsRecorded /\ HashInv
      /\ \A r \in Runners : runner[r] \in RunnerRecord
      /\ \A r \in Runners : RunnerInv(objects, recorded, torn, runner[r])
    BY DEF MigrationsInv, MigrationsTypeInv, RunnersInv
<1>1. ASSUME NEW r \in Runners, NEW command \in {"up", "down", "reset"},
             NEW dir \in Directories, Begins(r, command, dir)
      PROVE  MigrationsInv'
  <2> DEFINE rn == [NoRunner EXCEPT !.command = command, !.dir = dir,
                      !.at = IF command = "reset" THEN "dropLlm" ELSE "ensure"]
  <2>1. rn \in RunnerRecord /\ RunnerInv(objects, recorded, torn, rn)
    BY DEF NoRunner, RunnerRecord, RunnerInv, UpInv
  <2> QED BY <1>1, <2>1, QuietStep DEF Begins
<1>2. ASSUME NEW r \in Runners, EnsureTable(r)
      PROVE  MigrationsInv'
  <2> DEFINE rn == [runner[r] EXCEPT !.at = "applied"]
  <2>1. rn \in RunnerRecord /\ RunnerInv(objects, recorded, torn, rn)
    BY <1>2, <1>t DEF EnsureTable, Is, RunnerRecord, RunnerInv, UpInv
  <2> QED BY <1>2, <2>1, QuietStep DEF EnsureTable
<1>3. ASSUME NEW r \in Runners, ReadApplied(r)
      PROVE  MigrationsInv'
  <2> DEFINE rn == [runner[r] EXCEPT !.applied = DOMAIN recorded,
                      !.at = IF runner[r].command = "down" THEN "rollBack"
                             ELSE "verify"]
  <2>1. rn \in RunnerRecord
    BY <1>3, <1>t DEF RunnerRecord, MigrationsTypeInv
  <2>2. RunnerInv(objects, recorded, torn, rn)
    BY <1>3, <1>t DEF ReadApplied, Is, RunnerRecord, RunnerInv, UpInv
  <2> QED BY <1>3, <2>1, <2>2, QuietStep DEF ReadApplied
<1>4. ASSUME NEW r \in Runners, Verify(r)
      PROVE  MigrationsInv'
  <2> DEFINE ru == runner[r]
             rn == [ru EXCEPT !.at = "backfill",
                              !.todo = {f \in Known(r) : recorded[f] = NoHash}]
  <2>1. /\ Known(r) \subseteq Files
        /\ \A f \in Known(r) : recorded[f] = NoHash => f \in Unhashed
        /\ \A f \in Known(r) : recorded[f] \in {NoHash, ru.dir[f]}
    BY <1>4, <1>t DEF Verify, Known, MigrationsTypeInv, HashInv
  <2>2. rn \in RunnerRecord
    BY <1>4, <1>t, <2>1 DEF RunnerRecord
  <2>3. /\ rn.at = "backfill" /\ rn.dir = ru.dir /\ rn.applied = ru.applied
        /\ rn.alone = ru.alone /\ rn.command = ru.command
        /\ rn.todo = {f \in Known(r) : recorded[f] = NoHash}
    BY <1>t DEF RunnerRecord
  <2>4. Settled(objects, recorded, torn, ru.dir, Known(r))
    <3> SUFFICES ASSUME NEW f \in Known(r), f \notin torn \cup Unhashed
                 PROVE  recorded[f] = ru.dir[f] /\ objects[f] = ru.dir[f]
        BY DEF Settled, Known
    <3> QED BY <2>1, <1>t DEF HashInv, Known
  <2>5. UpInv(objects, recorded, torn, ru) => UpInv(objects, recorded, torn, rn)
    BY <1>4, <2>3, <2>4 DEF Verify, Is, UpInv, Settled, Known
  <2>6. ru.dir \in Directories
    BY <1>4, <1>t DEF Verify, Is, RunnerInv
  <2>7. RunnerInv(objects, recorded, torn, rn)
    BY <2>1, <2>3, <2>5, <2>6, <1>t DEF RunnerInv, Known
  <2> QED BY <1>4, <2>2, <2>7, QuietStep DEF Verify
<1>5. ASSUME NEW r \in Runners, ListPending(r)
      PROVE  MigrationsInv'
  <2> DEFINE ru == runner[r]
             rn == [ru EXCEPT !.at = "apply", !.applied = {},
                              !.todo = DOMAIN ru.dir \ ru.applied]
  <2>0. ru.dir \in Directories /\ DOMAIN ru.dir \subseteq Files
    BY <1>5, <1>t DEF ListPending, Is, RunnerInv
  <2>1. rn \in RunnerRecord
    BY <1>t, <2>0 DEF RunnerRecord
  <2>2. /\ rn.at = "apply" /\ rn.dir = ru.dir /\ rn.todo = DOMAIN ru.dir \ ru.applied
        /\ rn.alone = ru.alone /\ rn.command = ru.command
    BY <1>t DEF RunnerRecord
  <2>3. DOMAIN rn.dir \ rn.todo = ru.applied \cap DOMAIN ru.dir
    BY <2>2
  <2>4. RunnerInv(objects, recorded, torn, rn)
    BY <1>5, <1>t, <2>0, <2>2, <2>3 DEF ListPending, Is, RunnerInv, UpInv
  <2> QED BY <1>5, <2>1, <2>4, QuietStep DEF ListPending
<1>6. ASSUME NEW r \in Runners, UpEnds(r)
      PROVE  MigrationsInv'
  <2> DEFINE ru == runner[r]
             rn == Ended(r, "done")
  <2>1. rn \in RunnerRecord
    BY <1>t DEF Ended, RunnerRecord
  <2>2. /\ rn.at = "done" /\ rn.dir = ru.dir
        /\ rn.alone = ru.alone /\ rn.command = ru.command
    BY <1>t DEF Ended, RunnerRecord
  <2>3. DOMAIN ru.dir \ ru.todo = DOMAIN ru.dir
    BY <1>6 DEF UpEnds
  <2>4. RunnerInv(objects, recorded, torn, rn)
    BY <1>6, <1>t, <2>2, <2>3 DEF UpEnds, Is, RunnerInv, UpInv
  <2> QED BY <1>6, <2>1, <2>4, QuietStep DEF UpEnds
<1>7. ASSUME NEW r \in Runners, NothingToRollBack(r)
      PROVE  MigrationsInv'
  <2> DEFINE rn == Ended(r, "done")
  <2>1. rn \in RunnerRecord
    BY <1>t DEF Ended, RunnerRecord
  <2>2. rn.at = "done" /\ rn.dir = runner[r].dir /\ rn.command = runner[r].command
    BY <1>t DEF Ended, RunnerRecord
  <2>3. RunnerInv(objects, recorded, torn, rn)
    BY <1>7, <1>t, <2>2 DEF NothingToRollBack, Is, RunnerInv
  <2> QED BY <1>7, <2>1, <2>3, QuietStep DEF NothingToRollBack
<1>8. ASSUME NEW r \in Runners, Exits(r)
      PROVE  MigrationsInv'
  <2> DEFINE rn == Ended(r, "failed")
  <2>1. rn \in RunnerRecord /\ rn.at = "failed" /\ rn.dir = runner[r].dir
    BY <1>t DEF Ended, RunnerRecord
  <2>2. runner[r].at # "idle"
    BY <1>8 DEF Exits, CannotGoOn, Is
  <2>3. RunnerInv(objects, recorded, torn, rn)
    BY <1>t, <2>1, <2>2 DEF RunnerInv, UpInv
  <2> QED BY <1>8, <2>1, <2>3, QuietStep DEF Exits
<1>9. ASSUME NEW r \in Runners, Leaves(r)
      PROVE  MigrationsInv'
  <2>1. NoRunner \in RunnerRecord /\ RunnerInv(objects, recorded, torn, NoRunner)
    BY DEF NoRunner, RunnerRecord, RunnerInv, UpInv
  <2> QED BY <1>9, <2>1, QuietStep DEF Leaves
<1>10. ASSUME NEW r \in Runners, NEW f \in Files, Backfill(r, f)
       PROVE  MigrationsInv'
  <2> DEFINE ru == runner[r]
             rn == [ru EXCEPT !.todo = @ \ {f}]
  <2>0. /\ f \in Unhashed /\ f \in ru.todo /\ ru.at = "backfill" /\ ru.dir \in Directories
        /\ UNCHANGED <<objects, torn, tracking>> /\ tracking
    BY <1>10, <1>t DEF Backfill, Is, RunnerInv
  <2>1. rn \in RunnerRecord
    BY <1>t DEF RunnerRecord
  <2>2. RunnerInv(objects, recorded, torn, rn)
    BY <1>t, <2>0 DEF RunnerRecord, RunnerInv, UpInv
  <2>3. /\ DOMAIN recorded' = DOMAIN recorded
        /\ \A g \in DOMAIN recorded \ {f} : recorded'[g] = recorded[g]
    BY <1>10, <1>t DEF Backfill, MigrationsTypeInv
  <2>4. RowsKept(objects, recorded, torn, objects', recorded', torn')
    BY <2>0, <2>3 DEF RowsKept
  <2>5. RunnerInv(objects', recorded', torn', rn)
    <3>1. \A g \in DOMAIN recorded \ torn : g \in DOMAIN objects
      BY <1>t DEF MigrationsTypeInv, SchemaIsRecorded
    <3> QED BY <2>2, <2>4, <3>1, UpKept
  <2>6. runner' \in [Runners -> RunnerRecord] /\ RunnersInv'
    BY <1>10, <2>1, <2>4, <2>5, RunnerGoesOn DEF Backfill
  <2>7. SchemaIsRecorded' /\ HashInv'
    BY <1>t, <2>0, <2>3 DEF SchemaIsRecorded, HashInv, MigrationsTypeInv
  <2>8. recorded' \in [DOMAIN recorded -> Contents \cup {NoHash}]
    <3>1. CASE f \notin DOMAIN recorded
      BY <3>1, <1>10, <1>t DEF Backfill, MigrationsTypeInv
    <3>2. CASE f \in DOMAIN recorded
      <4>1. recorded' = [recorded EXCEPT ![f] = ru.dir[f]]
        BY <3>2, <1>10 DEF Backfill
      <4>2. f \in DOMAIN ru.dir
        BY <1>10, <2>0, <1>t DEF Backfill, RunnerInv
      <4>3. ru.dir[f] \in Contents
        BY <4>2, <2>0 DEF Contents, Range
      <4> QED BY <4>1, <4>3, <1>t DEF MigrationsTypeInv
    <3> QED BY <3>1, <3>2
  <2> QED BY <1>t, <2>0, <2>3, <2>6, <2>7, <2>8 DEF MigrationsInv, MigrationsTypeInv
<1>11. ASSUME NEW r \in Runners, Apply(r)
       PROVE  MigrationsInv'
  <2> DEFINE ru == runner[r]
             f  == NextFile(r)
             v  == ru.dir[f]
             rn == [ru EXCEPT !.todo = @ \ {f}]
  <2>0. /\ ru.at = "apply" /\ ru.dir \in Directories /\ ru.todo # {} /\ ru.todo \in SUBSET Files
        /\ tracking /\ UNCHANGED tracking
        /\ f \notin DOMAIN objects /\ f \notin DOMAIN recorded
        /\ objects' = With(objects, f, v) /\ recorded' = With(recorded, f, v)
        /\ torn' = torn \ {f} /\ Becomes(r, rn)
    BY <1>11, <1>t DEF Apply, Applicable, Is, RunnerInv, RunnerRecord
  <2>1. f \in ru.todo /\ f \in Files
    BY <2>0, MinIsOne DEF NextFile
  <2> HIDE DEF f
  <2>2. /\ DOMAIN objects' = DOMAIN objects \cup {f} /\ objects'[f] = v
        /\ DOMAIN recorded' = DOMAIN recorded \cup {f} /\ recorded'[f] = v
        /\ \A g \in DOMAIN objects : objects'[g] = objects[g]
        /\ \A g \in DOMAIN recorded : recorded'[g] = recorded[g]
    BY <2>0 DEF With
  <2>3. f \in DOMAIN ru.dir /\ v \in Contents
    BY <2>0, <2>1, <1>t DEF RunnerInv, Contents, Range
  <2>4. /\ objects' \in [DOMAIN objects' -> Contents]
        /\ recorded' \in [DOMAIN recorded' -> Contents \cup {NoHash}]
    BY <2>0, <2>2, <2>3, <1>t DEF With, MigrationsTypeInv
  <2>5. RowsKept(objects, recorded, torn, objects', recorded', torn')
    BY <2>0, <2>2 DEF RowsKept
  <2>6. rn \in RunnerRecord /\ rn.at = "apply" /\ rn.dir = ru.dir /\ rn.todo = ru.todo \ {f}
        /\ rn.alone = ru.alone /\ rn.command = ru.command
    BY <2>0, <1>t DEF RunnerRecord
  <2>7. RunnerInv(objects', recorded', torn', rn)
    <3>1. \A g \in DOMAIN recorded \ torn : g \in DOMAIN objects
      BY <1>t DEF MigrationsTypeInv, SchemaIsRecorded
    <3>2. RunnerInv(objects', recorded', torn', ru)
      BY <2>5, <3>1, <1>t, UpKept
    <3>3. Settled(objects', recorded', torn', ru.dir, DOMAIN ru.dir \ ru.todo)
            => Settled(objects', recorded', torn', ru.dir, DOMAIN ru.dir \ (ru.todo \ {f}))
      BY <2>2 DEF Settled
    <3> QED BY <2>0, <2>6, <3>2, <3>3 DEF RunnerInv, UpInv
  <2>8. runner' \in [Runners -> RunnerRecord] /\ RunnersInv'
    BY <2>0, <2>5, <2>6, <2>7, RunnerGoesOn
  <2>9. SchemaIsRecorded'
    BY <1>t, <2>0, <2>2 DEF SchemaIsRecorded
  <2>10. HashInv'
    BY <1>t, <2>0, <2>2, <2>3 DEF HashInv, SchemaIsRecorded, MigrationsTypeInv
  <2> QED BY <1>t, <2>0, <2>1, <2>2, <2>4, <2>8, <2>9, <2>10
          DEF MigrationsInv, MigrationsTypeInv
<1>12. ASSUME NEW r \in Runners, RollBack(r)
       PROVE  MigrationsInv'
  <2> DEFINE f  == Max(runner[r].applied)
             rn == Ended(r, "done")
  <2>0. /\ tracking /\ UNCHANGED tracking /\ Is(r, "rollBack")
        /\ objects' = Without(objects, {f}) /\ recorded' = Without(recorded, {f})
        /\ torn' = torn \ {f} /\ Disturbed(r, rn)
    BY <1>12 DEF RollBack, Rollbackable
  <2> HIDE DEF f
  <2>1. rn \in RunnerRecord
    BY <1>t DEF Ended, RunnerRecord
  <2>2. rn.at = "done" /\ rn.dir = runner[r].dir /\ rn.command = runner[r].command
    BY <1>t DEF Ended, RunnerRecord
  <2>3. RunnerInv(objects', recorded', torn', rn)
    BY <1>t, <2>0, <2>2 DEF Is, RunnerInv
  <2>4. runner' \in [Runners -> RunnerRecord] /\ RunnersInv'
    BY <2>0, <2>1, <2>3, RunnerDisturbs
  <2>5. /\ DOMAIN objects' = DOMAIN objects \ {f}
        /\ DOMAIN recorded' = DOMAIN recorded \ {f}
        /\ \A g \in DOMAIN objects \ {f} : objects'[g] = objects[g]
        /\ \A g \in DOMAIN recorded \ {f} : recorded'[g] = recorded[g]
    BY <2>0 DEF Without, Restrict
  <2>6. /\ objects' \in [DOMAIN objects' -> Contents]
        /\ recorded' \in [DOMAIN recorded' -> Contents \cup {NoHash}]
    BY <2>0, <1>t DEF Without, Restrict, MigrationsTypeInv
  <2>7. SchemaIsRecorded'
    BY <1>t, <2>0, <2>5 DEF SchemaIsRecorded
  <2>8. HashInv'
    BY <1>t, <2>0, <2>5 DEF HashInv, SchemaIsRecorded, MigrationsTypeInv
  <2> QED BY <1>t, <2>0, <2>4, <2>5, <2>6, <2>7, <2>8 DEF MigrationsInv, MigrationsTypeInv
<1>13. ASSUME NEW r \in Runners, DropLlm(r)
       PROVE  MigrationsInv'
  <2> DEFINE gone == DOMAIN objects \ Outside
             rn   == [runner[r] EXCEPT !.at = "dropTracking"]
  <2>0. /\ UNCHANGED <<tracking, recorded>> /\ Is(r, "dropLlm")
        /\ objects' = Without(objects, gone) /\ Disturbed(r, rn)
        /\ torn' = (torn \cup (gone \cap DOMAIN recorded)) \ (gone \ DOMAIN recorded)
    BY <1>13 DEF DropLlm
  <2>1. rn \in RunnerRecord /\ rn.at = "dropTracking" /\ rn.dir = runner[r].dir
    BY <1>t DEF RunnerRecord
  <2>2. RunnerInv(objects', recorded', torn', rn)
    BY <1>t, <2>0, <2>1 DEF Is, RunnerInv, UpInv
  <2>3. runner' \in [Runners -> RunnerRecord] /\ RunnersInv'
    BY <2>0, <2>1, <2>2, RunnerDisturbs
  <2>4. /\ DOMAIN objects' = DOMAIN objects \ gone
        /\ \A g \in DOMAIN objects \ gone : objects'[g] = objects[g]
    BY <2>0 DEF Without, Restrict
  <2>5. objects' \in [DOMAIN objects' -> Contents]
    BY <2>0, <1>t DEF Without, Restrict, MigrationsTypeInv
  <2>6. SchemaIsRecorded'
    BY <1>t, <2>0, <2>4 DEF SchemaIsRecorded
  <2>7. HashInv'
    BY <1>t, <2>0, <2>4 DEF HashInv, SchemaIsRecorded, MigrationsTypeInv
  <2> QED BY <1>t, <2>0, <2>3, <2>4, <2>5, <2>6, <2>7 DEF MigrationsInv, MigrationsTypeInv
<1>14. ASSUME NEW r \in Runners, DropTracking(r)
       PROVE  MigrationsInv'
  <2> DEFINE rn == [runner[r] EXCEPT !.at = "ensure"]
  <2>0. /\ UNCHANGED objects /\ Is(r, "dropTracking") /\ recorded' = Empty
        /\ tracking' = FALSE /\ torn' = DOMAIN objects /\ Disturbed(r, rn)
    BY <1>14 DEF DropTracking
  <2>1. rn \in RunnerRecord /\ rn.at = "ensure" /\ rn.dir = runner[r].dir
    BY <1>t DEF RunnerRecord
  <2>2. RunnerInv(objects', recorded', torn', rn)
    BY <1>t, <2>0, <2>1 DEF Is, RunnerInv, UpInv
  <2>3. runner' \in [Runners -> RunnerRecord] /\ RunnersInv'
    BY <2>0, <2>1, <2>2, RunnerDisturbs
  <2>4. DOMAIN recorded' = {} /\ recorded' \in [{} -> Contents \cup {NoHash}]
    BY <2>0, EmptyIs
  <2>5. SchemaIsRecorded' /\ HashInv'
    BY <2>0, <2>4 DEF SchemaIsRecorded, HashInv
  <2> QED BY <1>t, <2>0, <2>3, <2>4, <2>5 DEF MigrationsInv, MigrationsTypeInv
<1>15. CASE UNCHANGED migrationVars
    BY <1>15 DEF migrationVars, MigrationsInv, MigrationsTypeInv, SchemaIsRecorded,
                 HashInv, RunnersInv
<1> QED BY <1>1, <1>2, <1>3, <1>4, <1>5, <1>6, <1>7, <1>8, <1>9, <1>10, <1>11, <1>12,
           <1>13, <1>14, <1>15 DEF MigrationsNext

LEMMA MigrationsHold == MigrationsSpec => []MigrationsInv
BY MigrationsInitInv, MigrationsNextInv, PTL DEF MigrationsSpec

\* A file is recorded exactly when its objects are there, but for what a reset left.
THEOREM FilesAreRecorded == MigrationsSpec => []SchemaIsRecorded
BY MigrationsHold, PTL DEF MigrationsInv

\* An up that ended with 0, with no rollback and no reset meanwhile, left every file
\* of its directory applied, and with the content it has there: for any number of
\* commands at once, of any directories.
THEOREM UpAppliesEveryFile == MigrationsSpec => []UpLeavesAll
<1>1. MigrationsInv => UpLeavesAll
  <2> SUFFICES ASSUME MigrationsInv, NEW r \in Runners, runner[r].at = "done",
                      runner[r].command # "down", runner[r].alone
               PROVE  Settled(objects, recorded, torn, runner[r].dir, DOMAIN runner[r].dir)
    BY DEF UpLeavesAll, Settled
  <2>1. runner[r].alone = TRUE
    BY DEF MigrationsInv, MigrationsTypeInv, RunnerRecord
  <2> QED BY <2>1 DEF MigrationsInv, RunnersInv, RunnerInv, UpInv
<1> QED BY <1>1, MigrationsHold, PTL

\* The runner's tables and the commands have their types.
THEOREM MigrationsTypeCorrect == MigrationsSpec => []MigrationsTypeOK
<1>1. MigrationsInv => MigrationsTypeOK
    BY DEF MigrationsInv, MigrationsTypeInv, MigrationsTypeOK, RunnerRecord, Range
<1> QED BY <1>1, MigrationsHold, PTL

-------------------------------------------------------------------------------
(* Forwarding: what is read from the events of an answer *)

\* Every family of finite sets has a member none other is part of.
LEMMA SmallestSet ==
    ASSUME NEW S, NEW F, F \subseteq FiniteSubsetsOf(S), F # {}
    PROVE  \E T \in F : \A U \in F : U \subseteq T => U = T
<1>1. \E T \in F : \A U \in F : ~(<<U, T>> \in StrictSubsetOrdering(S))
    BY FS_StrictSubsetOrderingWellFounded, WFMin
<1> QED BY <1>1 DEF StrictSubsetOrdering, FiniteSubsetsOf

\* A finite set of integers has a greatest one: or its smallest part without one
\* would have it.
LEMMA MaxIsGreatest ==
    ASSUME NEW S, S \subseteq Int, IsFiniteSet(S), S # {}
    PROVE  Max(S) \in S /\ \A y \in S : y =< Max(S)
<1> DEFINE HasMax(T) == \E x \in T : \A y \in T : x >= y
           Bad == {T \in FiniteSubsetsOf(S) : T # {} /\ ~HasMax(T)}
<1>1. ASSUME Bad # {}
      PROVE  FALSE
  <2>1. Bad \subseteq FiniteSubsetsOf(S)
    OBVIOUS
  <2>2. PICK T \in Bad : \A U \in Bad : U \subseteq T => U = T
    <3> HIDE DEF Bad
    <3> QED BY <1>1, <2>1, SmallestSet
  <2>3. PICK x \in T : TRUE
    OBVIOUS
  <2> DEFINE U == T \ {x}
  <2>4. U \in FiniteSubsetsOf(S) /\ U \subseteq T /\ U # T /\ T \subseteq Int
    BY <2>3, FS_Subset DEF FiniteSubsetsOf
  <2>5. CASE U = {}
    <3>1. T = {x}
      BY <2>3, <2>5
    <3> QED BY <3>1, <2>4
  <2>6. CASE U # {}
    <3>1. HasMax(U)
      BY <2>2, <2>4, <2>6
    <3>2. PICK m \in U : \A y \in U : m >= y
      BY <3>1
    <3>3. HasMax(T)
      <4>1. CASE x >= m
        BY <4>1, <3>2, <2>3, <2>4
      <4>2. CASE ~(x >= m)
        BY <4>2, <3>2, <2>3, <2>4
      <4> QED BY <4>1, <4>2
    <3> QED BY <3>3
  <2> QED BY <2>5, <2>6
<1>2. HasMax(S)
    BY <1>1 DEF FiniteSubsetsOf
<1>3. Max(S) \in S /\ \A y \in S : Max(S) >= y
    BY <1>2 DEF Max
<1> QED BY <1>3

\* Input counts that go with the stream, as those of the providers do: a later
\* event never reports fewer tokens than an earlier one.
CountsUp(events) ==
    \A i, j \in DOMAIN events :
        i <= j /\ events[i].in # Absent /\ events[j].in # Absent
            => events[i].in <= events[j].in

Inputs(events)  == {i \in DOMAIN events : events[i].in # Absent}
Outputs(events) == {0} \cup {events[i].out : i \in DOMAIN events}

LEMMA EventCounts ==
    ASSUME NEW events \in Seq(Event)
    PROVE  /\ Max(Outputs(events)) \in Nat
           /\ \A i \in DOMAIN events : events[i].out <= Max(Outputs(events))
           /\ Max(Outputs(events)) \in Outputs(events)
           /\ Inputs(events) # {} =>
                /\ Max(Inputs(events)) \in Inputs(events)
                /\ \A i \in Inputs(events) : i <= Max(Inputs(events))
                /\ events[Max(Inputs(events))].in \in Nat
<1>1. DOMAIN events = 1 .. Len(events) /\ Len(events) \in Nat
    OBVIOUS
<1>2. IsFiniteSet(DOMAIN events)
    BY <1>1, FS_Interval
<1>3. ASSUME NEW i \in DOMAIN events
      PROVE  events[i].in \in Nat \cup {Absent} /\ events[i].out \in Nat \cup {Absent}
  <2>1. events[i] \in Event
    BY ElementOfSeq, <1>1
  <2> QED BY <2>1 DEF Event
<1>4. IsFiniteSet(Outputs(events)) /\ Outputs(events) \subseteq Int
  <2> DEFINE outs == {events[i].out : i \in DOMAIN events}
             f == [i \in DOMAIN events |-> events[i].out]
  <2>1. f \in Surjection(DOMAIN events, outs)
    BY DEF Surjection
  <2>2. IsFiniteSet(outs)
    BY <2>1, <1>2, FS_Surjection
  <2>3. outs \subseteq Int
    BY <1>3 DEF Absent
  <2> HIDE DEF outs
  <2>4. IsFiniteSet(outs \cup {0}) /\ {0} \cup outs = outs \cup {0}
    BY <2>2, FS_AddElement
  <2>5. {0} \cup outs \subseteq Int
    BY <2>3
  <2> QED BY <2>4, <2>5 DEF outs, Outputs
<1>5. /\ Max(Outputs(events)) \in Outputs(events)
      /\ \A y \in Outputs(events) : y <= Max(Outputs(events))
  <2> Outputs(events) # {}
    BY DEF Outputs
  <2> QED BY <1>4, MaxIsGreatest
<1>6. Max(Outputs(events)) \in Nat
    BY <1>4, <1>5 DEF Outputs
<1>7. ASSUME Inputs(events) # {}
      PROVE  /\ Max(Inputs(events)) \in Inputs(events)
             /\ \A i \in Inputs(events) : i <= Max(Inputs(events))
  <2>1. Inputs(events) \subseteq DOMAIN events
    BY DEF Inputs
  <2>2. Inputs(events) \subseteq Int /\ IsFiniteSet(Inputs(events))
    BY <2>1, <1>1, <1>2, FS_Subset
  <2> QED BY <1>7, <2>2, MaxIsGreatest
<1> QED BY <1>3, <1>5, <1>6, <1>7 DEF Inputs, Outputs

LEMMA PrefixOf ==
    ASSUME NEW events \in Seq(Event), NEW n \in 0 .. Len(events)
    PROVE  /\ SubSeq(events, 1, n) \in Seq(Event)
           /\ DOMAIN SubSeq(events, 1, n) = 1 .. n
           /\ \A i \in 1 .. n : SubSeq(events, 1, n)[i] = events[i]
           /\ SubSeq(events, 1, Len(events)) = events
<1>1. SubSeq(events, 1, n) = [i \in 1 .. n |-> events[i]]
    OBVIOUS
<1>2. \A i \in 1 .. n : events[i] \in Event
    BY ElementOfSeq
<1>3. SubSeq(events, 1, n) \in Seq(Event)
  <2> DEFINE g == [i \in 1 .. n |-> events[i]]
  <2>1. n \in Nat
    OBVIOUS
  <2>2. g \in [1 .. n -> Event]
    BY <1>2
  <2>3. g \in Seq(Event)
    BY <2>1, <2>2, SeqDef
  <2> QED BY <1>1, <2>3
<1>4. SubSeq(events, 1, Len(events)) = events
    BY DEF Seq
<1> QED BY <1>1, <1>3, <1>4

\* The counts of an event stream are at least none, and natural numbers if any.
LEMMA SSECounts ==
    ASSUME NEW events \in Seq(Event)
    PROVE  LET u == extractUsageFromSSE(events)
           IN  /\ u.in \in Nat \cup {Absent} /\ u.out \in Nat \cup {Absent}
               /\ u # NoUsage => u.in \in Nat /\ u.out \in Nat /\ u = [in |-> u.in, out |-> u.out]
<1>1. Max(Outputs(events)) \in Nat
    BY EventCounts
<1>2. Inputs(events) # {} => events[Max(Inputs(events))].in \in Nat
    BY EventCounts
<1>3. extractUsageFromSSE(events) =
        IF Inputs(events) = {} /\ Max(Outputs(events)) = 0 THEN NoUsage
        ELSE [in |-> IF Inputs(events) = {} THEN 0 ELSE events[Max(Inputs(events))].in,
              out |-> Max(Outputs(events))]
    BY DEF extractUsageFromSSE, Inputs, Outputs
<1> QED BY <1>1, <1>2, <1>3 DEF NoUsage

\* More of a stream that counts up never reports less.
LEMMA LongerReportsMore ==
    ASSUME NEW events \in Seq(Event), CountsUp(events), NEW m \in 0 .. Len(events),
           NEW n \in 0 .. m
    PROVE  LET u == extractUsageFromSSE(SubSeq(events, 1, n))
               v == extractUsageFromSSE(SubSeq(events, 1, m))
           IN  /\ u.in <= v.in /\ u.out <= v.out
               /\ u # NoUsage => v # NoUsage
<1> DEFINE p == SubSeq(events, 1, n)
           q == SubSeq(events, 1, m)
           u == extractUsageFromSSE(p)
           v == extractUsageFromSSE(q)
<1>1. /\ p \in Seq(Event) /\ DOMAIN p = 1 .. n /\ \A i \in 1 .. n : p[i] = events[i]
      /\ q \in Seq(Event) /\ DOMAIN q = 1 .. m /\ \A i \in 1 .. m : q[i] = events[i]
    BY PrefixOf
<1> HIDE DEF p, q
<1>2. /\ u = IF Inputs(p) = {} /\ Max(Outputs(p)) = 0 THEN NoUsage
             ELSE [in |-> IF Inputs(p) = {} THEN 0 ELSE p[Max(Inputs(p))].in,
                   out |-> Max(Outputs(p))]
      /\ v = IF Inputs(q) = {} /\ Max(Outputs(q)) = 0 THEN NoUsage
             ELSE [in |-> IF Inputs(q) = {} THEN 0 ELSE q[Max(Inputs(q))].in,
                   out |-> Max(Outputs(q))]
    BY DEF extractUsageFromSSE, Inputs, Outputs
<1>3. Inputs(p) \subseteq Inputs(q)
    BY <1>1 DEF Inputs
<1>4. Max(Outputs(p)) \in Nat /\ Max(Outputs(q)) \in Nat /\ Max(Outputs(p)) <= Max(Outputs(q))
  <2>1. Max(Outputs(p)) \in Outputs(p) /\ Max(Outputs(p)) \in Nat /\ Max(Outputs(q)) \in Nat
    BY <1>1, EventCounts
  <2>2. \A i \in DOMAIN q : q[i].out <= Max(Outputs(q))
    BY <1>1, EventCounts
  <2>3. CASE Max(Outputs(p)) = 0
    BY <2>1, <2>3
  <2>4. ASSUME NEW i \in DOMAIN p, Max(Outputs(p)) = p[i].out
        PROVE  Max(Outputs(p)) <= Max(Outputs(q))
    <3>1. i \in DOMAIN q /\ q[i] = p[i]
      BY <1>1
    <3> QED BY <2>2, <2>4, <3>1
  <2> QED BY <2>1, <2>3, <2>4 DEF Outputs
<1>5. ASSUME Inputs(p) # {}
      PROVE  /\ p[Max(Inputs(p))].in <= q[Max(Inputs(q))].in
             /\ p[Max(Inputs(p))].in \in Nat
  <2>1. /\ Max(Inputs(p)) \in Inputs(p) /\ Max(Inputs(q)) \in Inputs(q)
        /\ \A i \in Inputs(q) : i <= Max(Inputs(q))
        /\ p[Max(Inputs(p))].in \in Nat
    BY <1>1, <1>3, <1>5, EventCounts
  <2>2. Max(Inputs(p)) <= Max(Inputs(q))
    BY <2>1, <1>3
  <2>3. ASSUME NEW i \in Inputs(p), NEW j \in Inputs(q), i <= j
        PROVE  p[i].in <= q[j].in
    <3>1. i \in DOMAIN events /\ j \in DOMAIN events /\ p[i] = events[i] /\ q[j] = events[j]
      BY <1>1 DEF Inputs
    <3>2. events[i].in # Absent /\ events[j].in # Absent
      BY <3>1 DEF Inputs
    <3> QED BY <2>3, <3>1, <3>2 DEF CountsUp
  <2> QED BY <2>1, <2>2, <2>3
<1>6. Inputs(q) # {} => q[Max(Inputs(q))].in \in Nat
    BY <1>1, EventCounts
<1>7. NoUsage.in = -1 /\ NoUsage.out = -1 /\ \A i, o \in Nat : [in |-> i, out |-> o] # NoUsage
    BY DEF NoUsage, Absent
<1>8. u.in <= v.in /\ u.out <= v.out /\ (u # NoUsage => v # NoUsage)
  <2>1. CASE Inputs(p) = {} /\ Max(Outputs(p)) = 0
    <3>1. u = NoUsage
      BY <1>2, <2>1
    <3>2. v.in \in Nat \cup {-1} /\ v.out \in Nat \cup {-1}
      BY <1>1, SSECounts DEF Absent
    <3> QED BY <3>1, <3>2, <1>7
  <2>2. CASE ~(Inputs(p) = {} /\ Max(Outputs(p)) = 0)
    <3>1. ~(Inputs(q) = {} /\ Max(Outputs(q)) = 0)
      BY <2>2, <1>3, <1>4
    <3>2. /\ u = [in |-> IF Inputs(p) = {} THEN 0 ELSE p[Max(Inputs(p))].in,
                  out |-> Max(Outputs(p))]
          /\ v = [in |-> IF Inputs(q) = {} THEN 0 ELSE q[Max(Inputs(q))].in,
                  out |-> Max(Outputs(q))]
      BY <1>2, <2>2, <3>1
    <3>3. CASE Inputs(p) = {}
      BY <3>2, <3>3, <1>4, <1>6, <1>7
    <3>4. CASE Inputs(p) # {}
      BY <3>2, <3>4, <1>3, <1>4, <1>5, <1>6, <1>7
    <3> QED BY <3>3, <3>4
  <2> QED BY <2>1, <2>2
<1> QED BY <1>8 DEF p, q

-------------------------------------------------------------------------------
(* Forwarding: the exchanges *)

UsageRow == [in : Nat, out : Nat]

ExchangeRecord ==
    [at : {"idle", "authorize", "sent", "stream", "over"}, client : BOOLEAN,
     body : Answers \cup {NoAnswer}, read : Nat, kept : Nat, got : Nat,
     clientOK : BOOLEAN, end : {"open", "clean", "cut"}, meter : {"none", "runs", "ended"}]

\* The rows the metering of an exchange writes.
RowsOf(ex) ==
    LET reported == Usage(ex.body, ex.kept)
    IN  IF reported = NoUsage /\ ~ex.body.perRequest THEN <<>>
        ELSE <<IF reported = NoUsage THEN [in |-> 0, out |-> 0] ELSE reported>>

\* Of a request x: how far its chunks went, and what became of its metering.
ExchangeInv(x, ex, rows, lost) ==
    /\ ex.read <= Len(ex.body.events)
    /\ ex.kept = IF ex.body.metered THEN ex.read ELSE 0
    /\ ex.got <= ex.read
    /\ ex.at \in {"idle", "authorize", "sent"} => ex.body = NoAnswer
    /\ ex.at # "over" => ex.end = "open" /\ ex.meter = "none"
    /\ ex.at # "over" /\ ex.client => ex.clientOK /\ ex.got = ex.read
    /\ ex.end = "clean" => ex.got = Len(ex.body.events)
    /\ ex.meter # "none" => ex.body.metered
    /\ ex.at = "over" /\ ex.meter = "none" /\ ex.body.metered => x \in lost
    /\ ex.meter # "ended" => rows = <<>>
    /\ ex.meter = "ended" => rows = RowsOf(ex) \/ (rows = <<>> /\ x \in lost)

ForwardInv ==
    /\ exchange \in [Exchanges -> ExchangeRecord]
    /\ usageRows \in [Exchanges -> Seq(UsageRow)]
    /\ unrecorded \subseteq Exchanges
    /\ \A x \in Exchanges : ExchangeInv(x, exchange[x], usageRows[x], unrecorded)

LEMMA BodiesAreAnswers ==
    /\ NoAnswer \in Answer /\ NoAnswer.metered = FALSE /\ Len(NoAnswer.events) = 0
    /\ \A body \in Answers \cup {NoAnswer} :
          /\ body \in Answer
          /\ body.metered \in BOOLEAN /\ body.perRequest \in BOOLEAN /\ body.sse \in BOOLEAN
          /\ body.events \in Seq(Event) /\ Len(body.events) \in Nat
<1>1. NoAnswer \in Answer /\ NoAnswer.metered = FALSE /\ Len(NoAnswer.events) = 0
    BY DEF NoAnswer, Answer
<1>2. ASSUME NEW body \in Answer
      PROVE  /\ body.metered \in BOOLEAN /\ body.perRequest \in BOOLEAN /\ body.sse \in BOOLEAN
             /\ body.events \in Seq(Event) /\ Len(body.events) \in Nat
  <2>1. /\ body.metered \in BOOLEAN /\ body.perRequest \in BOOLEAN /\ body.sse \in BOOLEAN
        /\ body.events \in Seq(Event)
    BY DEF Answer
  <2> QED BY <2>1, LenProperties
<1> QED BY <1>1, <1>2, ForwardingAssumption

\* A request goes on, and nothing is recorded or lost.
LEMMA ExchangeGoesOn ==
    ASSUME ForwardInv, NEW x \in Exchanges, NEW ex \in ExchangeRecord, To(x, ex),
           ExchangeInv(x, ex, usageRows[x], unrecorded)
    PROVE  ForwardInv'
<1>1. exchange' = [exchange EXCEPT ![x] = ex] /\ UNCHANGED <<usageRows, unrecorded>>
    BY DEF To
<1>2. exchange' \in [Exchanges -> ExchangeRecord]
    BY <1>1 DEF ForwardInv
<1>3. ASSUME NEW y \in Exchanges
      PROVE  ExchangeInv(y, exchange'[y], usageRows'[y], unrecorded')
  <2>1. CASE y = x
    BY <2>1, <1>1 DEF ForwardInv
  <2>2. CASE y # x
    <3>1. exchange'[y] = exchange[y] /\ ExchangeInv(y, exchange[y], usageRows[y], unrecorded)
      BY <2>2, <1>1 DEF ForwardInv
    <3> QED BY <3>1, <1>1
  <2> QED BY <2>1, <2>2
<1> QED BY <1>1, <1>2, <1>3 DEF ForwardInv

LEMMA ForwardInitInv == ForwardInit => ForwardInv
<1> SUFFICES ASSUME ForwardInit
             PROVE  ForwardInv
    OBVIOUS
<1>1. NoExchange \in ExchangeRecord
    BY DEF NoExchange, ExchangeRecord
<1>2. \A x \in Exchanges : ExchangeInv(x, NoExchange, <<>>, unrecorded)
    BY BodiesAreAnswers DEF NoExchange, ExchangeInv
<1> QED BY <1>1, <1>2 DEF ForwardInit, ForwardInv

\* What the row of a whole exchange holds.
LEMMA RowsAreRows ==
    ASSUME NEW ex \in ExchangeRecord, ex.kept <= Len(ex.body.events)
    PROVE  RowsOf(ex) \in Seq(UsageRow) /\ Len(RowsOf(ex)) <= 1
<1> DEFINE reported == Usage(ex.body, ex.kept)
<1>0. /\ ex.body \in Answers \cup {NoAnswer} /\ ex.kept \in 0 .. Len(ex.body.events)
      /\ ex.body.events \in Seq(Event)
    BY BodiesAreAnswers DEF ExchangeRecord
<1>1. reported # NoUsage => reported \in UsageRow
  <2>1. SubSeq(ex.body.events, 1, ex.kept) \in Seq(Event)
    BY <1>0, PrefixOf
  <2>2. reported \in {NoUsage, extractUsageFromSSE(SubSeq(ex.body.events, 1, ex.kept)),
                     extractUsageFromSSE(ex.body.events)}
    BY DEF Usage, extractUsageFromJSON
  <2>3. ASSUME NEW events \in Seq(Event), extractUsageFromSSE(events) # NoUsage
        PROVE  extractUsageFromSSE(events) \in UsageRow
    BY <2>3, SSECounts DEF UsageRow
  <2> HIDE DEF reported
  <2> QED BY <1>0, <2>1, <2>2, <2>3
<1>2. [in |-> 0, out |-> 0] \in UsageRow
    BY DEF UsageRow
<1> HIDE DEF reported
<1>3. RowsOf(ex) = IF reported = NoUsage /\ ~ex.body.perRequest THEN <<>>
                   ELSE <<IF reported = NoUsage THEN [in |-> 0, out |-> 0] ELSE reported>>
    BY DEF RowsOf, reported
<1>4. \A r \in UsageRow : <<r>> \in Seq(UsageRow) /\ Len(<<r>>) = 1
    OBVIOUS
<1>5. <<>> \in Seq(UsageRow) /\ Len(<<>>) = 0
    OBVIOUS
<1> QED BY <1>1, <1>2, <1>3, <1>4, <1>5
\* A stream is over: whatever arrived is metered by the goroutine, or not at all.
LEMMA ForwardNextInv == ForwardInv /\ [ForwardNext]_forwardVars => ForwardInv'
<1> SUFFICES ASSUME ForwardInv, [ForwardNext]_forwardVars
             PROVE  ForwardInv'
    OBVIOUS
<1> USE BodiesAreAnswers
<1>t. \A x \in Exchanges : /\ exchange[x] \in ExchangeRecord
                          /\ ExchangeInv(x, exchange[x], usageRows[x], unrecorded)
    BY DEF ForwardInv
<1>1. ASSUME NEW x \in Exchanges, Asks(x)
      PROVE  ForwardInv'
  <2> DEFINE ex == [exchange[x] EXCEPT !.at = "authorize"]
  <2>1. ex \in ExchangeRecord
    BY <1>t DEF ExchangeRecord
  <2>2. ExchangeInv(x, ex, usageRows[x], unrecorded)
    BY <1>1, <1>t DEF Asks, At, ExchangeInv, ExchangeRecord
  <2> QED BY <1>1, <2>1, <2>2, ExchangeGoesOn DEF Asks
<1>2. ASSUME NEW x \in Exchanges, Refused(x) \/ Unreachable(x)
      PROVE  ForwardInv'
  <2> DEFINE ex == SeesEnd(exchange[x], "clean")
  <2>1. ex \in ExchangeRecord
    BY <1>t DEF ExchangeRecord, SeesEnd
  <2>2. ExchangeInv(x, ex, usageRows[x], unrecorded)
    BY <1>2, <1>t DEF Refused, Unreachable, At, SeesEnd, ExchangeInv, ExchangeRecord
  <2> QED BY <1>2, <2>1, <2>2, ExchangeGoesOn DEF Refused, Unreachable
<1>3. ASSUME NEW x \in Exchanges, Forwarded(x)
      PROVE  ForwardInv'
  <2> DEFINE ex == [exchange[x] EXCEPT !.at = "sent"]
  <2>1. ex \in ExchangeRecord
    BY <1>t DEF ExchangeRecord
  <2>2. ExchangeInv(x, ex, usageRows[x], unrecorded)
    BY <1>3, <1>t DEF Forwarded, At, ExchangeInv, ExchangeRecord
  <2> QED BY <1>3, <2>1, <2>2, ExchangeGoesOn DEF Forwarded
<1>4. ASSUME NEW x \in Exchanges, NEW body \in Answers, AnswerBegins(x, body)
      PROVE  ForwardInv'
  <2> DEFINE ex == [exchange[x] EXCEPT !.at = "stream", !.body = body]
  <2>1. ex \in ExchangeRecord
    BY <1>t DEF ExchangeRecord
  <2>2. ExchangeInv(x, ex, usageRows[x], unrecorded)
    BY <1>4, <1>t DEF AnswerBegins, At, ExchangeInv, ExchangeRecord
  <2> QED BY <1>4, <2>1, <2>2, ExchangeGoesOn DEF AnswerBegins
<1>5. ASSUME NEW x \in Exchanges, NEW wrote \in BOOLEAN, StreamChunk(x, wrote)
      PROVE  ForwardInv'
  <2> DEFINE old == exchange[x]
             ex == [old EXCEPT !.read = @ + 1,
                        !.kept = IF old.body.metered THEN @ + 1 ELSE @,
                        !.got = IF old.clientOK /\ old.client THEN @ + 1 ELSE @,
                        !.clientOK = @ /\ wrote]
             kept == IF old.body.metered THEN old.kept + 1 ELSE old.kept
             got  == IF old.clientOK /\ old.client THEN old.got + 1 ELSE old.got
             ok   == old.clientOK /\ wrote
  <2>0. /\ old \in ExchangeRecord /\ old.read + 1 \in Nat /\ kept \in Nat /\ got \in Nat
        /\ ok \in BOOLEAN
    BY <1>t DEF ExchangeRecord
  <2>3. ex = [old EXCEPT !.read = old.read + 1, !.kept = kept, !.got = got, !.clientOK = ok]
    OBVIOUS
  <2>1. ex \in ExchangeRecord
    <3> HIDE DEF old, ex, kept, got, ok
    <3> QED BY <2>0, <2>3 DEF ExchangeRecord
  <2>2. ExchangeInv(x, ex, usageRows[x], unrecorded)
    BY <1>5, <1>t DEF StreamChunk, At, ExchangeInv, ExchangeRecord
  <2> QED BY <1>5, <2>1, <2>2, ExchangeGoesOn DEF StreamChunk
<1>6. ASSUME NEW x \in Exchanges, StreamEnds(x)
      PROVE  ForwardInv'
  <2> DEFINE ex == SeesEnd(Metering(exchange[x]), "clean")
  <2>1. ex \in ExchangeRecord
    BY <1>t DEF ExchangeRecord, SeesEnd, Metering
  <2>2. ExchangeInv(x, ex, usageRows[x], unrecorded)
    BY <1>6, <1>t DEF StreamEnds, At, SeesEnd, Metering, ExchangeInv, ExchangeRecord
  <2> QED BY <1>6, <2>1, <2>2, ExchangeGoesOn DEF StreamEnds
<1>7. ASSUME NEW x \in Exchanges, StreamBreaks(x)
      PROVE  ForwardInv'
  <2> DEFINE ex == SeesEnd(Metering(exchange[x]), "cut")
  <2>1. ex \in ExchangeRecord
    BY <1>t DEF ExchangeRecord, SeesEnd, Metering
  <2>2. ExchangeInv(x, ex, usageRows[x], unrecorded)
    BY <1>7, <1>t DEF StreamBreaks, At, SeesEnd, Metering, ExchangeInv, ExchangeRecord
  <2> QED BY <1>7, <2>1, <2>2, ExchangeGoesOn DEF StreamBreaks
<1>8. ASSUME NEW x \in Exchanges, ClientLeaves(x)
      PROVE  ForwardInv'
  <2> DEFINE ex == [exchange[x] EXCEPT !.client = FALSE]
  <2>1. ex \in ExchangeRecord
    BY <1>t DEF ExchangeRecord
  <2>2. ExchangeInv(x, ex, usageRows[x], unrecorded)
    BY <1>8, <1>t DEF ClientLeaves, At, ExchangeInv, ExchangeRecord
  <2> QED BY <1>8, <2>1, <2>2, ExchangeGoesOn DEF ClientLeaves
<1>9. ASSUME NEW x \in Exchanges, Meters(x)
      PROVE  ForwardInv'
  <2> DEFINE ex == exchange[x]
             new == [ex EXCEPT !.meter = "ended"]
  <2>1. /\ ex \in ExchangeRecord /\ ex.meter = "runs" /\ usageRows[x] = <<>>
        /\ ExchangeInv(x, ex, <<>>, unrecorded)
    BY <1>9, <1>t DEF Meters, ExchangeInv
  <2>2. /\ new \in ExchangeRecord /\ new.meter = "ended" /\ new.at = ex.at /\ new.end = ex.end
        /\ new.client = ex.client /\ new.clientOK = ex.clientOK
        /\ new.body = ex.body /\ new.read = ex.read /\ new.kept = ex.kept /\ new.got = ex.got
    BY <2>1 DEF ExchangeRecord
  <2>3. exchange' = [exchange EXCEPT ![x] = new] /\ UNCHANGED unrecorded
    BY <1>9 DEF Meters
  <2>4. usageRows' = [usageRows EXCEPT ![x] = RowsOf(new)]
    <3> DEFINE reported == Usage(ex.body, ex.kept)
               none == reported = NoUsage /\ ~ex.body.perRequest
               row == IF reported = NoUsage THEN [in |-> 0, out |-> 0] ELSE reported
    <3>1. usageRows' = IF none THEN usageRows
                       ELSE [usageRows EXCEPT ![x] = Append(usageRows[x], row)]
      BY <1>9 DEF Meters
    <3>2. RowsOf(new) = IF none THEN <<>> ELSE <<row>>
      BY <2>2 DEF RowsOf
    <3>3. Append(<<>>, row) = <<row>>
      OBVIOUS
    <3> HIDE DEF none, row
    <3> QED BY <3>1, <3>2, <3>3, <2>1 DEF ForwardInv
  <2>5. ex.at = "over" /\ ex.kept <= Len(ex.body.events)
    BY <2>1 DEF ExchangeInv, ExchangeRecord
  <2>6. RowsOf(new) \in Seq(UsageRow)
    BY <2>2, <2>5, RowsAreRows
  <2>7. ExchangeInv(x, new, RowsOf(new), unrecorded)
    BY <2>1, <2>2 DEF ExchangeInv
  <2> HIDE DEF new
  <2>8. ASSUME NEW y \in Exchanges
        PROVE  ExchangeInv(y, exchange'[y], usageRows'[y], unrecorded')
    <3>1. CASE y = x
      <4>1. exchange'[x] = new /\ usageRows'[x] = RowsOf(new) /\ unrecorded' = unrecorded
        BY <2>3, <2>4 DEF ForwardInv
      <4> QED BY <4>1, <3>1, <2>7
    <3>2. CASE y # x
      <4>1. exchange'[y] = exchange[y] /\ usageRows'[y] = usageRows[y] /\ unrecorded' = unrecorded
        BY <3>2, <2>3, <2>4 DEF ForwardInv
      <4> QED BY <4>1, <1>t
    <3> QED BY <3>1, <3>2
  <2> QED BY <2>2, <2>3, <2>4, <2>6, <2>8 DEF ForwardInv
<1>10. ASSUME NEW x \in Exchanges, MeteringFails(x)
       PROVE  ForwardInv'
  <2> DEFINE ex == exchange[x]
             new == [ex EXCEPT !.meter = "ended"]
  <2>1. /\ ex \in ExchangeRecord /\ ex.meter = "runs" /\ usageRows[x] = <<>>
        /\ ExchangeInv(x, ex, <<>>, unrecorded)
    BY <1>10, <1>t DEF MeteringFails, ExchangeInv
  <2>2. /\ new \in ExchangeRecord /\ new.meter = "ended" /\ new.at = ex.at /\ new.end = ex.end
        /\ new.client = ex.client /\ new.clientOK = ex.clientOK
        /\ new.body = ex.body /\ new.read = ex.read /\ new.kept = ex.kept /\ new.got = ex.got
    BY <2>1 DEF ExchangeRecord
  <2>3. /\ exchange' = [exchange EXCEPT ![x] = new] /\ usageRows' = usageRows
        /\ unrecorded' = unrecorded \cup {x}
    BY <1>10 DEF MeteringFails
  <2>4. ExchangeInv(x, new, <<>>, unrecorded')
    BY <2>1, <2>2, <2>3 DEF ExchangeInv
  <2> HIDE DEF new
  <2>5. ASSUME NEW y \in Exchanges
        PROVE  ExchangeInv(y, exchange'[y], usageRows'[y], unrecorded')
    <3>1. CASE y = x
      BY <3>1, <2>1, <2>3, <2>4 DEF ForwardInv
    <3>2. CASE y # x
      <4>1. exchange'[y] = exchange[y] /\ usageRows'[y] = usageRows[y]
        BY <3>2, <2>3 DEF ForwardInv
      <4>2. y \in unrecorded' <=> y \in unrecorded
        BY <3>2, <2>3
      <4> QED BY <4>1, <4>2, <1>t DEF ExchangeInv
    <3> QED BY <3>1, <3>2
  <2> QED BY <2>2, <2>3, <2>5 DEF ForwardInv
<1>11. ASSUME NEW x \in Exchanges, Forgotten(x)
       PROVE  ForwardInv'
  <2>1. /\ exchange' = [exchange EXCEPT ![x] = NoExchange]
        /\ usageRows' = [usageRows EXCEPT ![x] = <<>>]
        /\ unrecorded' = unrecorded \ {x}
    BY <1>11 DEF Forgotten
  <2>2. NoExchange \in ExchangeRecord /\ <<>> \in Seq(UsageRow)
    BY DEF NoExchange, ExchangeRecord
  <2>3. ExchangeInv(x, NoExchange, <<>>, unrecorded')
    BY DEF NoExchange, ExchangeInv
  <2>4. ASSUME NEW y \in Exchanges
        PROVE  ExchangeInv(y, exchange'[y], usageRows'[y], unrecorded')
    <3>1. CASE y = x
      BY <3>1, <2>1, <2>3 DEF ForwardInv
    <3>2. CASE y # x
      <4>1. exchange'[y] = exchange[y] /\ usageRows'[y] = usageRows[y]
        BY <3>2, <2>1 DEF ForwardInv
      <4>2. y \in unrecorded' <=> y \in unrecorded
        BY <3>2, <2>1
      <4> QED BY <4>1, <4>2, <1>t DEF ExchangeInv
    <3> QED BY <3>1, <3>2
  <2> QED BY <2>1, <2>2, <2>4 DEF ForwardInv
<1>12. CASE ProxyDies
  <2> DEFINE dying == {x \in Exchanges : \/ exchange[x].at \in {"authorize", "sent", "stream"}
                                         \/ exchange[x].meter = "runs"}
  <2>1. /\ exchange' = [x \in Exchanges |->
             IF x \notin dying THEN exchange[x]
             ELSE IF exchange[x].at = "over" THEN [exchange[x] EXCEPT !.meter = "ended"]
             ELSE SeesEnd(exchange[x], "cut")]
        /\ unrecorded' = unrecorded \cup dying
        /\ usageRows' = usageRows
    BY <1>12 DEF ProxyDies
  <2>2. ASSUME NEW x \in Exchanges
        PROVE  /\ exchange'[x] \in ExchangeRecord
               /\ ExchangeInv(x, exchange'[x], usageRows'[x], unrecorded')
    <3>1. CASE x \notin dying
      <4>1. exchange'[x] = exchange[x] /\ usageRows'[x] = usageRows[x]
        BY <3>1, <2>1
      <4>2. x \in unrecorded' <=> x \in unrecorded
        BY <3>1, <2>1
      <4> QED BY <4>1, <4>2, <1>t DEF ExchangeInv
    <3>2. CASE x \in dying /\ exchange[x].at = "over"
      <4>1. exchange'[x] = [exchange[x] EXCEPT !.meter = "ended"] /\ x \in unrecorded'
        BY <3>2, <2>1
      <4>2. exchange'[x] \in ExchangeRecord /\ exchange[x].meter = "runs"
        BY <4>1, <3>2, <1>t DEF ExchangeRecord
      <4> QED BY <4>1, <4>2, <3>2, <2>1, <1>t DEF ExchangeInv, ExchangeRecord
    <3>3. CASE x \in dying /\ exchange[x].at # "over"
      <4>1. exchange'[x] = SeesEnd(exchange[x], "cut") /\ x \in unrecorded'
        BY <3>3, <2>1
      <4> QED BY <4>1, <3>3, <2>1, <1>t DEF SeesEnd, ExchangeInv, ExchangeRecord
    <3> QED BY <3>1, <3>2, <3>3
  <2> QED BY <2>1, <2>2 DEF ForwardInv
<1>13. CASE UNCHANGED forwardVars
    BY <1>13 DEF forwardVars, ForwardInv
<1> QED BY <1>1, <1>2, <1>3, <1>4, <1>5, <1>6, <1>7, <1>8, <1>9, <1>10, <1>11, <1>12,
           <1>13 DEF ForwardNext

LEMMA ForwardHolds == ForwardSpec => []ForwardInv
BY ForwardInitInv, ForwardNextInv, PTL DEF ForwardSpec

\* A client that saw its answer end cleanly has all of it.
THEOREM CleanAnswersAreWhole == ForwardSpec => []CleanEndIsWhole
<1>1. ForwardInv => CleanEndIsWhole
    BY DEF ForwardInv, ExchangeInv, CleanEndIsWhole
<1> QED BY <1>1, ForwardHolds, PTL

\* Handlers, goroutines and rows are well formed.
THEOREM ForwardTypeCorrect == ForwardSpec => []ForwardTypeOK
<1>1. ForwardInv => ForwardTypeOK
    BY BodiesAreAnswers
       DEF ForwardInv, ExchangeInv, ExchangeRecord, ForwardTypeOK, UsageRow
<1> QED BY <1>1, ForwardHolds, PTL

\* Event streams report input counts that go up with the stream.
StreamsCountUp == \A body \in Answers : body.sse => CountsUp(body.events)

\* Usage as its two buckets, of which a greater one is never less in either.
LEMMA UsageGrows ==
    ASSUME StreamsCountUp, NEW body \in Answers \cup {NoAnswer},
           NEW m \in 0 .. Len(body.events), NEW n \in 0 .. m
    PROVE  /\ Usage(body, n).in <= Usage(body, m).in
           /\ Usage(body, n).out <= Usage(body, m).out
           /\ Usage(body, n) # NoUsage => Usage(body, m) # NoUsage
           /\ Usage(body, m).in \in Nat \cup {Absent}
           /\ Usage(body, m).out \in Nat \cup {Absent}
<1>0. body.events \in Seq(Event) /\ Len(body.events) \in Nat
    BY BodiesAreAnswers
<1>1. NoUsage.in = -1 /\ NoUsage.out = -1 /\ Absent = -1
    BY DEF NoUsage, Absent
<1>2. ASSUME NEW events \in Seq(Event)
      PROVE  /\ extractUsageFromSSE(events).in \in Nat \cup {-1}
             /\ extractUsageFromSSE(events).out \in Nat \cup {-1}
    BY SSECounts DEF Absent
<1>3. CASE body.sse
  <2>1. CountsUp(body.events)
    BY <1>3 DEF StreamsCountUp, NoAnswer
  <2>2. \A k \in 0 .. Len(body.events) :
           Usage(body, k) = extractUsageFromSSE(SubSeq(body.events, 1, k))
    BY <1>3 DEF Usage
  <2>3. SubSeq(body.events, 1, m) \in Seq(Event) /\ n \in 0 .. Len(body.events)
    BY <1>0, PrefixOf
  <2> QED BY <1>0, <1>1, <1>2, <2>1, <2>2, <2>3, LongerReportsMore
<1>4. CASE ~body.sse
  <2> DEFINE whole == extractUsageFromSSE(body.events)
  <2>1. \A k \in 0 .. Len(body.events) :
           Usage(body, k) = IF k < Len(body.events) \/ \A i \in DOMAIN body.events : body.events[i].in = Absent
                            THEN NoUsage ELSE whole
    BY <1>4 DEF Usage, extractUsageFromJSON
  <2>2. whole.in \in Nat \cup {-1} /\ whole.out \in Nat \cup {-1}
    BY <1>0, <1>2
  <2>3. Usage(body, m) \in {NoUsage, whole}
    BY <2>1
  <2>4. Usage(body, n) = NoUsage \/ (Usage(body, n) = whole /\ Usage(body, m) = whole)
    <3>1. CASE n < Len(body.events)
      BY <3>1, <1>0, <2>1
    <3>2. CASE ~(n < Len(body.events))
      <4>1. n = m
        BY <3>2, <1>0
      <4> QED BY <4>1, <2>1
    <3> QED BY <3>1, <3>2
  <2> HIDE DEF whole
  <2> QED BY <1>1, <2>2, <2>3, <2>4
<1> QED BY <1>3, <1>4

\* Nor does any of them exceed what the answer's events report in all.
LEMMA UsageWithinReported ==
    ASSUME StreamsCountUp, NEW body \in Answers \cup {NoAnswer},
           NEW n \in 0 .. Len(body.events)
    PROVE  LET sent == Usage([body EXCEPT !.sse = TRUE], Len(body.events))
           IN  /\ Usage(body, n).in <= sent.in /\ Usage(body, n).out <= sent.out
               /\ sent.in \in Nat \cup {Absent} /\ sent.out \in Nat \cup {Absent}
<1> DEFINE sent  == Usage([body EXCEPT !.sse = TRUE], Len(body.events))
           whole == extractUsageFromSSE(body.events)
<1>0. body \in Answer /\ body.events \in Seq(Event) /\ Len(body.events) \in Nat
    BY BodiesAreAnswers
<1>1. sent = whole
  <2>1. [body EXCEPT !.sse = TRUE].sse = TRUE /\ [body EXCEPT !.sse = TRUE].events = body.events
    BY <1>0 DEF Answer
  <2>2. SubSeq(body.events, 1, Len(body.events)) = body.events
    BY <1>0, PrefixOf
  <2> QED BY <2>1, <2>2 DEF Usage
<1>2. whole.in \in Nat \cup {-1} /\ whole.out \in Nat \cup {-1}
    BY <1>0, SSECounts DEF Absent
<1>3. NoUsage.in = -1 /\ NoUsage.out = -1 /\ Absent = -1
    BY DEF NoUsage, Absent
<1>4. Usage(body, Len(body.events)) \in {NoUsage, whole}
  <2>1. SubSeq(body.events, 1, Len(body.events)) = body.events
    BY <1>0, PrefixOf
  <2> QED BY <2>1 DEF Usage, extractUsageFromJSON
<1>5. Len(body.events) \in 0 .. Len(body.events)
    BY <1>0
<1>6. /\ Usage(body, n).in <= Usage(body, Len(body.events)).in
      /\ Usage(body, n).out <= Usage(body, Len(body.events)).out
      /\ Usage(body, n).in \in Nat \cup {-1} /\ Usage(body, n).out \in Nat \cup {-1}
  <2>1. n \in 0 .. n
    BY <1>0
  <2> QED BY <1>3, <1>5, <2>1, UsageGrows
<1> HIDE DEF sent, whole
<1>7. Usage(body, n).in <= sent.in /\ Usage(body, n).out <= sent.out
    BY <1>1, <1>2, <1>3, <1>4, <1>6
<1> QED BY <1>1, <1>2, <1>3, <1>7 DEF sent

\* What a client received of a billable answer is metered, once, and never past what
\* upstream reported in all: of any answers whose streams count up.
THEOREM ArrivedIsMetered == StreamsCountUp => (ForwardSpec => []WhatArrivedIsMetered)
<1> SUFFICES ASSUME StreamsCountUp
             PROVE  ForwardSpec => []WhatArrivedIsMetered
    OBVIOUS
<1>1. ASSUME ForwardInv
      PROVE  WhatArrivedIsMetered
  <2> SUFFICES ASSUME NEW x \in Exchanges
               PROVE  LET ex == exchange[x]
                          received == Usage(ex.body, ex.got)
                          sent == Usage([ex.body EXCEPT !.sse = TRUE], Len(ex.body.events))
                      IN /\ Len(usageRows[x]) <= 1
                         /\ \A i \in DOMAIN usageRows[x] :
                               /\ ex.body.metered
                               /\ \A b \in {"in", "out"} : usageRows[x][i][b] <= Max({0, sent[b]})
                         /\ (/\ ex.at = "over" /\ ex.meter # "runs" /\ x \notin unrecorded
                             /\ ex.body.metered /\ (received # NoUsage \/ ex.body.perRequest)) =>
                              /\ usageRows[x] # <<>>
                              /\ \A b \in {"in", "out"} : received[b] <= usageRows[x][1][b]
    BY DEF WhatArrivedIsMetered
  <2> DEFINE ex == exchange[x]
             rows == usageRows[x]
             received == Usage(ex.body, ex.got)
             kept == Usage(ex.body, ex.kept)
             row == IF kept = NoUsage THEN [in |-> 0, out |-> 0] ELSE kept
             sent == Usage([ex.body EXCEPT !.sse = TRUE], Len(ex.body.events))
  <2>1. ex \in ExchangeRecord /\ ExchangeInv(x, ex, rows, unrecorded)
    BY <1>1 DEF ForwardInv
  <2>2. /\ ex.body \in Answers \cup {NoAnswer} /\ Len(ex.body.events) \in Nat
        /\ ex.kept \in 0 .. Len(ex.body.events) /\ ex.got \in 0 .. Len(ex.body.events)
        /\ ex.body.metered => ex.got \in 0 .. ex.kept
    BY <2>1, BodiesAreAnswers DEF ExchangeRecord, ExchangeInv
  <2>3. RowsOf(ex) = IF kept = NoUsage /\ ~ex.body.perRequest THEN <<>> ELSE <<row>>
    BY DEF RowsOf
  <2>4. /\ kept.in <= sent.in /\ kept.out <= sent.out
        /\ sent.in \in Nat \cup {-1} /\ sent.out \in Nat \cup {-1}
    BY <1>1, <2>2, UsageWithinReported DEF Absent
  <2>5. /\ ex.body.metered => /\ received.in <= kept.in /\ received.out <= kept.out
                              /\ received # NoUsage => kept # NoUsage
        /\ kept.in \in Nat \cup {-1} /\ kept.out \in Nat \cup {-1}
        /\ received.in \in Nat \cup {-1} /\ received.out \in Nat \cup {-1}
    <3>1. ex.got \in 0 .. ex.got /\ ex.kept \in 0 .. ex.kept
      BY <2>2
    <3> QED BY <1>1, <2>2, <3>1, UsageGrows DEF Absent
  <2>6. row.in \in Nat \cup {-1} /\ row.out \in Nat \cup {-1} /\ kept.in <= row.in /\ kept.out <= row.out
    BY <2>5 DEF NoUsage, Absent
  <2>7. ASSUME NEW s \in Nat \cup {-1}
        PROVE  Max({0, s}) \in {0, s} /\ Max({0, s}) >= 0 /\ Max({0, s}) >= s
    <3>1. {0, s} \subseteq Int /\ IsFiniteSet({0, s}) /\ {0, s} # {}
      <4>1. IsFiniteSet({0}) /\ {0} \cup {s} = {0, s}
        BY FS_Singleton
      <4> QED BY <4>1, FS_AddElement
    <3>2. \A y \in {0, s} : y =< Max({0, s})
      BY <3>1, MaxIsGreatest
    <3>3. Max({0, s}) \in {0, s}
      BY <3>1, MaxIsGreatest
    <3> QED BY <3>2, <3>3
  <2>8. row.in <= Max({0, sent.in}) /\ row.out <= Max({0, sent.out})
    <3>1. Max({0, sent.in}) \in {0, sent.in} /\ Max({0, sent.out}) \in {0, sent.out}
      BY <2>4, <2>7
    <3>2. /\ Max({0, sent.in}) >= 0 /\ Max({0, sent.in}) >= sent.in
          /\ Max({0, sent.out}) >= 0 /\ Max({0, sent.out}) >= sent.out
      BY <2>4, <2>7
    <3>3. row = [in |-> 0, out |-> 0] \/ row = kept
      OBVIOUS
    <3> HIDE DEF row, kept, sent
    <3> QED BY <2>4, <2>5, <3>1, <3>2, <3>3
  <2> HIDE DEF rows, row, kept, received, sent
  <2>9. Len(rows) <= 1 /\ \A i \in DOMAIN rows : i = 1 /\ rows[i] = row /\ ex.body.metered
    <3>1. rows = <<>> \/ (rows = <<row>> /\ ex.body.metered)
      BY <2>1, <2>3 DEF ExchangeInv
    <3>2. CASE rows = <<>>
      BY <3>2
    <3>3. CASE rows = <<row>> /\ ex.body.metered
      <4>1. Len(rows) = 1 /\ DOMAIN rows = {1} /\ rows[1] = row
        BY <3>3
      <4> QED BY <3>3, <4>1
    <3> QED BY <3>1, <3>2, <3>3
  <2>10. ASSUME ex.at = "over", ex.meter # "runs", x \notin unrecorded, ex.body.metered,
                received # NoUsage \/ ex.body.perRequest
         PROVE  rows # <<>> /\ received.in <= rows[1].in /\ received.out <= rows[1].out
    <3>1. rows = RowsOf(ex)
      BY <2>1, <2>10 DEF ExchangeInv, ExchangeRecord
    <3>2. rows = <<row>>
      BY <2>3, <2>5, <2>10, <3>1
    <3>3. rows # <<>> /\ rows[1] = row
      BY <3>2
    <3> QED BY <2>5, <2>6, <2>10, <3>3
  <2>11. ASSUME NEW i \in DOMAIN rows, NEW b \in {"in", "out"}
         PROVE  rows[i][b] <= Max({0, sent[b]})
    BY <2>8, <2>9
  <2> QED BY <2>9, <2>10, <2>11 DEF rows, received, sent
<1> QED BY <1>1, ForwardHolds, PTL

-------------------------------------------------------------------------------
(* The price table: rounding *)

\* A product grows by at least a factor when the other grows by one.
LEMMA ProductGrows ==
    ASSUME NEW n \in Nat, NEW a \in Int, NEW b \in Int, a < b
    PROVE  a * n + n <= b * n
<1>1. b - (a + 1) \in Nat
    OBVIOUS
<1>2. 0 <= (b - (a + 1)) * n
    BY <1>1
<1>3. (b - (a + 1)) * n = b * n - (a * n + n)
    OBVIOUS
<1> QED BY <1>2, <1>3

\* The quotient is the one number whose multiple is within a divisor below.
LEMMA QuotientIs ==
    ASSUME NEW n \in Nat, n > 0, NEW m \in Nat, NEW c \in Nat,
           m * n <= c, c < m * n + n
    PROVE  c \div n = m
<1>1. PICK q \in Int : q = c \div n /\ q * n <= c /\ c < q * n + n
  <2>1. c \div n \in Int /\ c = n * (c \div n) + (c % n)
    BY SMT
  <2>2. c % n \in 0 .. (n - 1)
    BY SMT
  <2>3. n * (c \div n) = (c \div n) * n
    BY <2>1
  <2> QED BY <2>1, <2>2, <2>3
<1>2. ~(q < m)
    BY <1>1, ProductGrows
<1>3. ~(m < q)
    BY <1>1, ProductGrows
<1> QED BY <1>1, <1>2, <1>3

LEMMA UnitIs ==
    /\ Unit \in Nat /\ Unit > 0 /\ MaxRate \in Nat /\ CatalogRate \in Nat
    /\ PriceTTL \in Nat /\ MaxLoad \in Nat /\ MaxPrices \in Nat /\ MaxPriceTime \in Nat
BY PriceAssumption

\* A rate is rounded to a multiple of the unit, half a unit away at most.
LEMMA RoundedIs ==
    ASSUME NEW x \in Nat
    PROVE  \E m \in Nat : /\ round6(x) = m * Unit
                          /\ 2 * (m * Unit) <= 2 * x + Unit
<1> USE UnitIs
<1> DEFINE c == 2 * x + Unit
           n == 2 * Unit
           m == c \div n
<1>1. c \in Nat /\ n \in Nat /\ n > 0
    OBVIOUS
<1> HIDE DEF c, n
<1>2. m \in Nat /\ m * n <= c
  <2>1. m \in Int /\ c = n * m + (c % n)
    BY <1>1, SMT
  <2>2. c % n \in 0 .. (n - 1)
    BY <1>1, SMT
  <2>3. m >= 0
    BY <1>1, SMT
  <2> HIDE DEF m
  <2>4. n * m = m * n /\ n * m \in Int
    BY <1>1, <2>1, <2>3
  <2> QED BY <1>1, <2>1, <2>2, <2>3, <2>4
<1>3. round6(x) = m * Unit
    BY DEF round6, c, n
<1> HIDE DEF m
<1>4. m * n = 2 * (m * Unit)
    BY <1>2 DEF n
<1> QED BY <1>2, <1>3, <1>4 DEF c

\* A multiple of the unit is rounded to itself.
LEMMA RoundedStays ==
    ASSUME NEW m \in Nat
    PROVE  round6(m * Unit) = m * Unit
<1> USE UnitIs
<1> DEFINE x == m * Unit
           c == 2 * x + Unit
           n == 2 * Unit
<1>1. x \in Nat
  <2>1. x \in Int /\ 0 <= m * Unit
    OBVIOUS
  <2> QED BY <2>1
<1>2. m * n = 2 * x
    OBVIOUS
<1>3. c \in Nat /\ n \in Nat /\ n > 0 /\ m * n <= c /\ c < m * n + n
  <2> HIDE DEF x
  <2> QED BY <1>1, <1>2
<1>4. c \div n = m
  <2> HIDE DEF c, n
  <2> QED BY <1>3, QuotientIs
<1> QED BY <1>4 DEF round6

LEMMA Rounding ==
    ASSUME NEW x \in Nat
    PROVE  /\ round6(x) \in Nat
           /\ round6(round6(x)) = round6(x)
           /\ x <= MaxRate => round6(x) <= MaxRate + Unit
<1> USE UnitIs
<1>1. PICK m \in Nat : round6(x) = m * Unit /\ 2 * (m * Unit) <= 2 * x + Unit
    BY RoundedIs
<1>2. m * Unit \in Int /\ 0 <= m * Unit
    OBVIOUS
<1>3. round6(round6(x)) = round6(x)
    BY <1>1, RoundedStays
<1> QED BY <1>1, <1>2, <1>3

-------------------------------------------------------------------------------
(* The price table: what a table holds *)

\* A table: distinct rows, by number, the newest valid_from first; they are the
\* rows there were when the query ran, so their numbers are 1 .. n.
TableOf(ps, t, n) ==
    /\ t \in [1 .. n -> 1 .. n]
    /\ \A a \in 1 .. n, b \in 1 .. n : a < b => t[a] # t[b] /\ ps[t[b]].from <= ps[t[a]].from

TableOK(ps, t) == \E n \in 0 .. Len(ps) : TableOf(ps, t, n)

\* The rows a table lacks were added at the time or later.
ReadSince(ps, t, time) == \A i \in DOMAIN ps : i \notin DOMAIN t => ps[i].made >= time

\* A table has every row whose insert this machine has finished.
HasCleared(ps, t) ==
    \A i \in DOMAIN ps : ps[i].by = "sync" /\ ps[i].cleared = TRUE => i \in DOMAIN t

\* A table has every row of the price sync.
HasSynced(ps, t) == \A i \in DOMAIN ps : ps[i].by = "sync" => i \in DOMAIN t

PriceRow == [from : 0 .. MaxPriceTime, rate : 0 .. MaxRate + Unit, by : {"admin", "sync"},
             made : Nat, checked : 0 .. MaxPriceTime, cleared : BOOLEAN]

LEMMA ListLen ==
    ASSUME NEW S, NEW n \in Nat, NEW t \in [1 .. n -> S]
    PROVE  Len(t) = n /\ DOMAIN t = 1 .. n /\ t \in Seq(S)
<1>1. t \in Seq(S)
    BY SeqDef
<1>2. Len(t) \in Nat /\ DOMAIN t = 1 .. Len(t)
    BY <1>1, LenProperties
<1>3. DOMAIN t = 1 .. n
    OBVIOUS
<1>4. Len(t) = n
    BY <1>2, <1>3, SMT
<1> QED BY <1>1, <1>3, <1>4

LEMMA TableLen ==
    ASSUME NEW n \in Nat, NEW t \in [1 .. n -> 1 .. n]
    PROVE  Len(t) = n /\ DOMAIN t = 1 .. n /\ t \in Seq(1 .. n)
BY ListLen

\* Each of the numbers is in the table.
LEMMA TableHasAll ==
    ASSUME NEW ps, NEW t, NEW n \in Nat, TableOf(ps, t, n), NEW i \in 1 .. n
    PROVE  \E a \in 1 .. n : t[a] = i
<1> DEFINE S == 1 .. n
<1>1. t \in Injection(S, S)
  <2>1. t \in [S -> S] /\ \A a \in S, b \in S : a < b => t[a] # t[b]
      BY DEF TableOf
  <2>2. ASSUME NEW a \in S, NEW b \in S, t[a] = t[b] PROVE a = b
      BY <2>1, <2>2
  <2> QED BY <2>1, <2>2 DEF Injection, IsInjective
<1>2. IsFiniteSet(S)
    BY FS_Interval
<1>3. t \in Surjection(S, S)
    BY <1>1, <1>2, FS_Injection
<1> QED BY <1>3 DEF Surjection

LEMMA MinIsLeast ==
    ASSUME NEW S, S \subseteq Nat, S # {}
    PROVE  Min(S) \in S /\ \A y \in S : Min(S) <= y
<1>1. PICK x \in S : \A y \in S : <<y, x>> \notin OpToRel(<, Nat)
    BY NatLessThanWellFounded, WFMin
<1>2. \A y \in S : x <= y
  <2> SUFFICES ASSUME NEW y \in S PROVE x <= y
      OBVIOUS
  <2>1. <<y, x>> \notin OpToRel(<, Nat)
      BY <1>1
  <2>2. x \in Nat /\ y \in Nat
      OBVIOUS
  <2>3. ~(y < x)
      BY <2>1, <2>2, Zenon DEF OpToRel
  <2> QED BY <2>2, <2>3
<1> QED BY <1>2 DEF Min

\* pickPrice: of the table's rows with valid_from <= time, one of the greatest
\* valid_from, and none only if there is none.
LEMMA PickIsGreatest ==
    ASSUME NEW t, NEW n \in Nat, TableOf(prices, t, n), NEW time \in Nat,
           \A i \in 1 .. n : prices[i].from \in Nat
    PROVE  LET p == pickPrice(t, time)
           IN  /\ p = 0 \/ (p \in 1 .. n /\ prices[p].from <= time)
               /\ \A i \in 1 .. n : prices[i].from <= time =>
                     p # 0 /\ prices[i].from <= prices[p].from
<1> DEFINE I == {i \in 1 .. n : prices[t[i]].from <= time}
           a == IF I # {} THEN Min(I) ELSE 0
           p == IF a = 0 THEN 0 ELSE t[a]
<1>0. t \in [1 .. n -> 1 .. n] /\ Len(t) = n
    BY TableLen DEF TableOf
<1>1. SelectInSeq(t, LAMBDA i : prices[i].from <= time) = a
    BY <1>0 DEF SelectInSeq
<1>2. pickPrice(t, time) = p
    BY <1>1 DEF pickPrice
<1>3. I \subseteq Nat
    OBVIOUS
<1>4. I # {} => a \in I /\ \A y \in I : a <= y
    BY <1>3, MinIsLeast
<1>5. p = 0 \/ (p \in 1 .. n /\ prices[p].from <= time)
    BY <1>0, <1>4
<1>6. ASSUME NEW i \in 1 .. n, prices[i].from <= time
      PROVE  p # 0 /\ prices[i].from <= prices[p].from
  <2>1. PICK b \in 1 .. n : t[b] = i
      BY TableHasAll
  <2>2. b \in I /\ a \in I /\ a <= b
      BY <1>4, <1>6, <2>1
  <2>3. a \in 1 .. n
      BY <2>2
  <2> HIDE DEF a, I
  <2>4. a # 0 /\ p = t[a] /\ t[a] \in 1 .. n
      BY <1>0, <2>3
  <2>5. a < b => prices[t[b]].from <= prices[t[a]].from
      BY <2>3 DEF TableOf
  <2>6. prices[t[b]].from <= prices[t[a]].from
      BY <2>2, <2>3, <2>4, <2>5
  <2> HIDE DEF p
  <2> QED BY <2>1, <2>4, <2>6
<1> QED BY <1>2, <1>5, <1>6

\* Rows stay as they were added.
SameRows(ps, ps2) ==
    /\ Len(ps) \in Nat /\ Len(ps2) \in Nat /\ Len(ps) <= Len(ps2)
    /\ DOMAIN ps = 1 .. Len(ps) /\ DOMAIN ps2 = 1 .. Len(ps2)
    /\ \A i \in DOMAIN ps : ps2[i] \in PriceRow /\ ps[i] \in PriceRow
    /\ \A i \in DOMAIN ps : ps2[i].from = ps[i].from
    /\ \A i \in DOMAIN ps : ps2[i].rate = ps[i].rate
    /\ \A i \in DOMAIN ps : ps2[i].by = ps[i].by
    /\ \A i \in DOMAIN ps : ps2[i].made = ps[i].made
    /\ \A i \in DOMAIN ps : ps2[i].checked = ps[i].checked

LEMMA TableStays ==
    ASSUME NEW ps, NEW ps2, SameRows(ps, ps2), NEW t, TableOK(ps, t)
    PROVE  TableOK(ps2, t)
<1>1. PICK n \in 0 .. Len(ps) : TableOf(ps, t, n)
    BY DEF TableOK
<1>2. n \in 0 .. Len(ps2) /\ 1 .. n \subseteq DOMAIN ps
    BY DEF SameRows
<1>3. TableOf(ps2, t, n)
    BY <1>1, <1>2 DEF TableOf, SameRows
<1> QED BY <1>2, <1>3 DEF TableOK

-------------------------------------------------------------------------------
(* The price table: the invariant *)

Tables == UNION {[1 .. n -> 1 .. n] : n \in Nat}

PriceCopy == [loaded : BOOLEAN, table : Tables, loadedAt : Nat, raced : BOOLEAN]

PriceClient == [at : {"idle", "select", "answer", "priced", "insert", "clear"},
                table : Tables, raced : BOOLEAN, began : Nat, rate : 0 .. MaxRate + Unit,
                valid_from : Dates \cup {NoDate}, checked : 0 .. MaxPriceTime]

RowsInv(ps, now) ==
    /\ ps \in Seq(PriceRow)
    /\ Len(ps) <= MaxPrices
    /\ \A i \in DOMAIN ps : ps[i].made <= now
    /\ \A i \in DOMAIN ps : round6(ps[i].rate) = ps[i].rate

\* A load takes at most MaxLoad, so a table in memory lacks no older row.
CopyInv(copy, ps, now) ==
    /\ copy \in PriceCopy
    /\ copy.loadedAt <= now
    /\ TableOK(ps, copy.table)
    /\ copy.loaded = TRUE => ReadSince(ps, copy.table, copy.loadedAt - MaxLoad)
    /\ copy.loaded = TRUE /\ copy.raced = FALSE => HasCleared(ps, copy.table)

\* Rows of the sync that would make the row it is about to add a repeat are
\* followed by another row.
AnotherSince(ps, rate, checked) ==
    \A i \in DOMAIN ps :
        ps[i].by = "sync" /\ ps[i].rate = rate /\ ps[i].from <= checked
        => \E k \in DOMAIN ps \ {i} : ps[i].from <= ps[k].from /\ ps[k].from <= checked

PriceClientInv(c, rq, ps, now) ==
    /\ rq \in PriceClient
    /\ round6(rq.rate) = rq.rate
    /\ c = "pass" => rq.at \notin {"insert", "clear"}
    /\ c = "sync" => rq.at # "priced"
    /\ TableOK(ps, rq.table)
    /\ rq.at \in {"select", "answer"} => rq.began <= now /\ now - rq.began <= MaxLoad
    /\ rq.at = "answer" => ReadSince(ps, rq.table, rq.began)
    /\ rq.at = "priced" => ReadSince(ps, rq.table, now - (PriceTTL + MaxLoad))
    /\ rq.at \in {"answer", "priced"} /\ rq.raced = FALSE => HasCleared(ps, rq.table)
    /\ c = "sync" /\ rq.at = "answer" => HasSynced(ps, rq.table)
    /\ rq.at = "insert" => AnotherSince(ps, rq.rate, rq.checked)

\* SyncRepeatsNothing, of any list of rows.
RepeatsNothing(ps) ==
    \A i \in DOMAIN ps, j \in DOMAIN ps :
        /\ i < j
        /\ ps[i].by = "sync" /\ ps[j].by = "sync"
        /\ ps[i].rate = ps[j].rate
        /\ ps[i].from <= ps[j].checked
        => \E k \in 1 .. (j - 1) \ {i} :
              ps[i].from <= ps[k].from /\ ps[k].from <= ps[j].checked

PricesInv ==
    /\ priceNow \in 0 .. MaxPriceTime
    /\ RowsInv(prices, priceNow)
    /\ CopyInv(priceCache, prices, priceNow)
    /\ client \in [Clients -> PriceClient]
    /\ \A c \in Clients : PriceClientInv(c, client[c], prices, priceNow)
    /\ RepeatsNothing(prices)

LEMMA NoRowsYet ==
    /\ <<>> \in Tables
    /\ \A ps : Len(ps) \in Nat => TableOK(ps, <<>>)
<1>1. <<>> \in [1 .. 0 -> 1 .. 0]
    BY SMT
<1>2. \A ps : TableOf(ps, <<>>, 0)
    BY <1>1 DEF TableOf
<1> QED BY <1>1, <1>2 DEF Tables, TableOK

LEMMA TableIsTable ==
    ASSUME NEW ps, NEW t, TableOK(ps, t), Len(ps) \in Nat PROVE t \in Tables
BY DEF TableOK, TableOf, Tables

LEMMA AwayIs ==
    ASSUME NEW c \in Clients, NEW ps, NEW now \in Nat, Len(ps) \in Nat
    PROVE  /\ Away \in PriceClient /\ PriceClientInv(c, Away, ps, now)
           /\ round6(0) = 0
<1>1. round6(0) = 0
    BY RoundedStays, UnitIs
<1>2. Away \in PriceClient
    BY NoRowsYet, UnitIs DEF Away, PriceClient
<1> QED BY <1>1, <1>2, NoRowsYet DEF Away, PriceClientInv

LEMMA NoTableIs ==
    ASSUME NEW ps, NEW now \in Nat, Len(ps) \in Nat
    PROVE  NoTable \in PriceCopy /\ CopyInv(NoTable, ps, now)
<1>1. NoTable \in PriceCopy
    BY NoRowsYet DEF NoTable, PriceCopy
<1> QED BY <1>1, NoRowsYet DEF NoTable, CopyInv

LEMMA PricesInitInv == PricesInit => PricesInv
<1> SUFFICES ASSUME PricesInit PROVE PricesInv
    OBVIOUS
<1>1. prices = <<>> /\ prices \in Seq(PriceRow) /\ Len(prices) = 0 /\ DOMAIN prices = {}
    BY DEF PricesInit
<1>2. priceNow = 0 /\ priceNow \in 0 .. MaxPriceTime
    BY UnitIs DEF PricesInit
<1>3. RowsInv(prices, priceNow)
    BY <1>1, UnitIs DEF RowsInv
<1>4. CopyInv(priceCache, prices, priceNow)
    BY <1>1, <1>2, NoTableIs DEF PricesInit
<1>5. \A c \in Clients : client[c] = Away /\ client[c] \in PriceClient
                         /\ PriceClientInv(c, client[c], prices, priceNow)
    BY <1>1, <1>2, AwayIs DEF PricesInit
<1>6. client \in [Clients -> PriceClient]
    BY <1>5 DEF PricesInit
<1>7. RepeatsNothing(prices)
    BY <1>1 DEF RepeatsNothing
<1> QED BY <1>2, <1>3, <1>4, <1>5, <1>6, <1>7 DEF PricesInv

\* What the rows a step adds or marks leave true of a table: nothing is read
\* off a row that is not in the list, new rows are made now and not yet cleared.
LEMMA TableKept ==
    ASSUME NEW ps, NEW ps2, SameRows(ps, ps2), NEW t, TableOK(ps, t)
    PROVE  /\ TableOK(ps2, t)
           /\ \A time \in Int : /\ ReadSince(ps, t, time)
                                /\ \A i \in DOMAIN ps2 \ DOMAIN ps : ps2[i].made >= time
                                => ReadSince(ps2, t, time)
           /\ HasSynced(ps, t) /\ (\A i \in DOMAIN ps2 \ DOMAIN ps : ps2[i].by # "sync")
              => HasSynced(ps2, t)
           /\ /\ HasCleared(ps, t)
              /\ \A i \in DOMAIN ps : ps2[i].cleared = ps[i].cleared
              /\ \A i \in DOMAIN ps2 \ DOMAIN ps : ps2[i].cleared = FALSE
              => HasCleared(ps2, t)
<1>1. TableOK(ps2, t)
    BY TableStays
<1>2. ASSUME NEW time \in Int, ReadSince(ps, t, time),
             \A i \in DOMAIN ps2 \ DOMAIN ps : ps2[i].made >= time
      PROVE  ReadSince(ps2, t, time)
    BY <1>2 DEF ReadSince, SameRows
<1>3. ASSUME HasSynced(ps, t), \A i \in DOMAIN ps2 \ DOMAIN ps : ps2[i].by # "sync"
      PROVE  HasSynced(ps2, t)
    BY <1>3 DEF HasSynced, SameRows
<1>4. ASSUME HasCleared(ps, t),
             \A i \in DOMAIN ps : ps2[i].cleared = ps[i].cleared,
             \A i \in DOMAIN ps2 \ DOMAIN ps : ps2[i].cleared = FALSE
      PROVE  HasCleared(ps2, t)
    BY <1>4 DEF HasCleared, SameRows
<1> QED BY <1>1, <1>2, <1>3, <1>4

LEMMA AnotherStays ==
    ASSUME NEW ps, NEW ps2, SameRows(ps, ps2), NEW rate, NEW checked,
           AnotherSince(ps, rate, checked),
           \A i \in DOMAIN ps2 \ DOMAIN ps : ps2[i].by # "sync"
    PROVE  AnotherSince(ps2, rate, checked)
BY DEF AnotherSince, SameRows

\* A row is added: AddPrice.
LEMMA RowAdded ==
    ASSUME NEW now \in 0 .. MaxPriceTime, NEW ps, RowsInv(ps, now), Len(ps) < MaxPrices,
           NEW row \in PriceRow, row.made = now, row.cleared = FALSE,
           round6(row.rate) = row.rate, NEW ps2, ps2 = Append(ps, row)
    PROVE  /\ RowsInv(ps2, now) /\ SameRows(ps, ps2)
           /\ Len(ps2) = Len(ps) + 1 /\ ps2[Len(ps) + 1] = row
           /\ DOMAIN ps2 \ DOMAIN ps = {Len(ps) + 1}
           /\ \A i \in DOMAIN ps : ps2[i] = ps[i]
<1> USE UnitIs
<1>1. ps \in Seq(PriceRow)
    BY DEF RowsInv
<1>2. Len(ps) \in Nat /\ DOMAIN ps = 1 .. Len(ps) /\ \A i \in DOMAIN ps : ps[i] \in PriceRow
    BY <1>1, LenProperties
<1>3. /\ ps2 \in Seq(PriceRow) /\ Len(ps2) = Len(ps) + 1
      /\ \A i \in 1 .. Len(ps) : ps2[i] = ps[i]
      /\ ps2[Len(ps) + 1] = row
    BY <1>1, AppendProperties
<1>4. DOMAIN ps2 = 1 .. (Len(ps) + 1)
    BY <1>3, LenProperties
<1> HIDE DEF PriceRow
<1>5. \A i \in DOMAIN ps2 : i \in DOMAIN ps \/ i = Len(ps) + 1
    BY <1>2, <1>4
<1>6. DOMAIN ps2 \ DOMAIN ps = {Len(ps) + 1}
    BY <1>2, <1>4
<1>7. SameRows(ps, ps2)
    BY <1>2, <1>3, <1>4 DEF SameRows
<1>8. RowsInv(ps2, now)
  <2>1. \A i \in DOMAIN ps2 : ps2[i].made <= now
      BY <1>2, <1>3, <1>5 DEF RowsInv
  <2>2. \A i \in DOMAIN ps2 : round6(ps2[i].rate) = ps2[i].rate
      BY <1>2, <1>3, <1>5 DEF RowsInv
  <2>3. Len(ps2) <= MaxPrices
      BY <1>2, <1>3
  <2> QED BY <1>3, <2>1, <2>2, <2>3 DEF RowsInv
<1> QED BY <1>2, <1>3, <1>6, <1>7, <1>8

\* What an added row leaves true of a client and of the table in memory.
LEMMA ClientSeesRow ==
    ASSUME NEW now \in Nat, NEW ps, NEW ps2, SameRows(ps, ps2),
           \A i \in DOMAIN ps2 \ DOMAIN ps : ps2[i].made = now /\ ps2[i].cleared = FALSE,
           \A i \in DOMAIN ps : ps2[i].cleared = ps[i].cleared,
           NEW c \in Clients, NEW rq, PriceClientInv(c, rq, ps, now),
           \/ \A i \in DOMAIN ps2 \ DOMAIN ps : ps2[i].by # "sync"
           \/ c = "pass"
    PROVE  PriceClientInv(c, rq, ps2, now)
<1> USE UnitIs
<1>1. /\ rq \in PriceClient /\ rq.began \in Nat /\ round6(rq.rate) = rq.rate
      /\ c = "pass" => rq.at \notin {"insert", "clear"}
      /\ c = "sync" => rq.at # "priced"
      /\ TableOK(ps, rq.table)
      /\ rq.at \in {"select", "answer"} => rq.began <= now /\ now - rq.began <= MaxLoad
    BY DEF PriceClientInv, PriceClient
<1>2. TableOK(ps2, rq.table)
    BY <1>1, TableKept
<1>3. rq.at = "answer" => ReadSince(ps2, rq.table, rq.began)
  <2> SUFFICES ASSUME rq.at = "answer" PROVE ReadSince(ps2, rq.table, rq.began)
      OBVIOUS
  <2>1. rq.began \in Int /\ now >= rq.began
      BY <1>1
  <2>2. ReadSince(ps, rq.table, rq.began)
      BY DEF PriceClientInv
  <2> QED BY <1>1, <2>1, <2>2, TableKept
<1>4. rq.at = "priced" => ReadSince(ps2, rq.table, now - (PriceTTL + MaxLoad))
  <2>1. now - (PriceTTL + MaxLoad) \in Int /\ now >= now - (PriceTTL + MaxLoad)
      OBVIOUS
  <2> QED BY <1>1, <2>1, TableKept DEF PriceClientInv
<1>5. rq.at \in {"answer", "priced"} /\ rq.raced = FALSE => HasCleared(ps2, rq.table)
    BY <1>1, TableKept DEF PriceClientInv
<1>6. c = "sync" /\ rq.at = "answer" => HasSynced(ps2, rq.table)
    BY <1>1, TableKept DEF PriceClientInv
<1>7. rq.at = "insert" => AnotherSince(ps2, rq.rate, rq.checked)
  <2>1. rq.at = "insert" => AnotherSince(ps, rq.rate, rq.checked) /\ c # "pass"
      BY <1>1 DEF PriceClientInv
  <2> QED BY <2>1, AnotherStays
<1> QED BY <1>1, <1>2, <1>3, <1>4, <1>5, <1>6, <1>7 DEF PriceClientInv

LEMMA CopySeesRow ==
    ASSUME NEW now \in Nat, NEW ps, NEW ps2, SameRows(ps, ps2),
           \A i \in DOMAIN ps2 \ DOMAIN ps : ps2[i].made = now /\ ps2[i].cleared = FALSE,
           \A i \in DOMAIN ps : ps2[i].cleared = ps[i].cleared,
           NEW copy, CopyInv(copy, ps, now)
    PROVE  CopyInv(copy, ps2, now)
<1> USE UnitIs
<1>1. /\ copy \in PriceCopy /\ copy.loadedAt \in Nat /\ copy.loadedAt <= now
      /\ TableOK(ps, copy.table)
    BY DEF CopyInv, PriceCopy
<1>2. copy.loadedAt - MaxLoad \in Int /\ now >= copy.loadedAt - MaxLoad
    BY <1>1
<1>3. copy.loaded = TRUE => ReadSince(ps2, copy.table, copy.loadedAt - MaxLoad)
    BY <1>1, <1>2, TableKept DEF CopyInv
<1>4. copy.loaded = TRUE /\ copy.raced = FALSE => HasCleared(ps2, copy.table)
    BY <1>1, TableKept DEF CopyInv
<1> QED BY <1>1, <1>3, <1>4, TableKept DEF CopyInv

LEMMA RepeatsStay ==
    ASSUME NEW ps, NEW ps2, SameRows(ps, ps2), DOMAIN ps2 = DOMAIN ps, RepeatsNothing(ps)
    PROVE  RepeatsNothing(ps2)
<1>1. \A i \in DOMAIN ps, j \in DOMAIN ps : i < j => 1 .. (j - 1) \subseteq DOMAIN ps
    BY DEF SameRows
<1> SUFFICES ASSUME NEW i \in DOMAIN ps, NEW j \in DOMAIN ps, i < j,
                    ps2[i].by = "sync", ps2[j].by = "sync", ps2[i].rate = ps2[j].rate,
                    ps2[i].from <= ps2[j].checked
             PROVE  \E k \in 1 .. (j - 1) \ {i} :
                       ps2[i].from <= ps2[k].from /\ ps2[k].from <= ps2[j].checked
    BY DEF RepeatsNothing
<1>2. PICK k \in 1 .. (j - 1) \ {i} : ps[i].from <= ps[k].from /\ ps[k].from <= ps[j].checked
    BY DEF RepeatsNothing, SameRows
<1>3. k \in DOMAIN ps
    BY <1>1
<1> QED BY <1>2, <1>3 DEF SameRows

LEMMA RepeatsNotAdded ==
    ASSUME NEW ps, NEW ps2, SameRows(ps, ps2), RepeatsNothing(ps), Len(ps2) = Len(ps) + 1,
           \A i \in DOMAIN ps : ps2[i] = ps[i],
           LET row == ps2[Len(ps) + 1]
           IN  row.by = "sync" => AnotherSince(ps, row.rate, row.checked)
    PROVE  RepeatsNothing(ps2)
<1> DEFINE n == Len(ps) + 1
<1>1. n \in Nat /\ DOMAIN ps = 1 .. (n - 1) /\ DOMAIN ps2 = 1 .. n
    BY DEF SameRows
<1> SUFFICES ASSUME NEW i \in DOMAIN ps2, NEW j \in DOMAIN ps2, i < j,
                    ps2[i].by = "sync", ps2[j].by = "sync", ps2[i].rate = ps2[j].rate,
                    ps2[i].from <= ps2[j].checked
             PROVE  \E k \in 1 .. (j - 1) \ {i} :
                       ps2[i].from <= ps2[k].from /\ ps2[k].from <= ps2[j].checked
    BY DEF RepeatsNothing
<1> HIDE DEF n
<1>2. i \in DOMAIN ps /\ 1 .. (j - 1) \subseteq DOMAIN ps
    BY <1>1
<1>3. CASE j = n
  <2>1. AnotherSince(ps, ps2[j].rate, ps2[j].checked)
      BY <1>3 DEF n
  <2>2. PICK k \in DOMAIN ps \ {i} : ps[i].from <= ps[k].from /\ ps[k].from <= ps2[j].checked
      BY <1>2, <2>1 DEF AnotherSince
  <2>3. k \in 1 .. (j - 1) \ {i}
      BY <1>1, <1>3
  <2> QED BY <1>2, <2>2, <2>3
<1>4. CASE j # n
  <2>1. j \in DOMAIN ps
      BY <1>1, <1>4
  <2>2. PICK k \in 1 .. (j - 1) \ {i} : ps[i].from <= ps[k].from /\ ps[k].from <= ps[j].checked
      BY <1>2, <2>1 DEF RepeatsNothing
  <2>3. ps2[i] = ps[i] /\ ps2[j] = ps[j] /\ ps2[k] = ps[k]
      BY <1>2, <2>1
  <2> QED BY <2>2, <2>3
<1> QED BY <1>3, <1>4

\* A step of one client that leaves the rows alone.
LEMMA ClientMoves ==
    ASSUME PricesInv, NEW c \in Clients, NEW rq, Goes(c, rq), UNCHANGED <<priceNow, prices>>,
           PriceClientInv(c, rq, prices, priceNow), CopyInv(priceCache', prices, priceNow)
    PROVE  PricesInv'
<1>1. rq \in PriceClient
    BY DEF PriceClientInv
<1>2. client \in [Clients -> PriceClient] /\ client' = [client EXCEPT ![c] = rq]
    BY DEF PricesInv, Goes
<1>3. client' \in [Clients -> PriceClient] /\ client'[c] = rq
      /\ \A d \in Clients : d # c => client'[d] = client[d]
    BY <1>1, <1>2
<1>4. \A d \in Clients : PriceClientInv(d, client'[d], prices, priceNow)
    BY <1>3 DEF PricesInv
<1> QED BY <1>3, <1>4 DEF PricesInv

\* A step that adds a row, of a form or of the sync.
LEMMA AddKeeps ==
    ASSUME PricesInv, priceNow' = priceNow, priceCache' = priceCache,
           NEW by \in {"admin", "sync"}, NEW rate \in Int,
           round6(rate) \in 0 .. MaxRate + Unit, round6(round6(rate)) = round6(rate),
           NEW valid_from \in Dates \cup {NoDate}, NEW checked \in 0 .. MaxPriceTime,
           AddPrice(by, rate, valid_from, checked),
           by = "sync" => AnotherSince(prices, round6(rate), checked)
    PROVE  /\ RowsInv(prices', priceNow) /\ RepeatsNothing(prices')
           /\ CopyInv(priceCache', prices', priceNow)
           /\ \A c \in Clients : \A rq :
                 /\ PriceClientInv(c, rq, prices, priceNow)
                 /\ by # "sync" \/ c = "pass"
                 => PriceClientInv(c, rq, prices', priceNow)
           /\ TableOK(prices, client["sync"].table) => TableOK(prices', client["sync"].table)
<1> DEFINE row == [from |-> IF valid_from = NoDate THEN priceNow ELSE valid_from,
                   rate |-> round6(rate), by |-> by, made |-> priceNow,
                   checked |-> checked, cleared |-> FALSE]
           ps2 == Append(prices, row)
<1>1. prices' = ps2 /\ Len(prices) < MaxPrices
    BY DEF AddPrice
<1>2. priceNow \in 0 .. MaxPriceTime /\ RowsInv(prices, priceNow) /\ RepeatsNothing(prices)
      /\ CopyInv(priceCache, prices, priceNow)
    BY DEF PricesInv
<1>3. row \in PriceRow
  <2>1. valid_from # NoDate => valid_from \in 0 .. MaxPriceTime
      BY PriceAssumption
  <2> QED BY <1>2, <2>1, UnitIs DEF PriceRow
<1>4. row.made = priceNow /\ row.cleared = FALSE /\ round6(row.rate) = row.rate
      /\ row.by = by /\ row.rate = round6(rate) /\ row.checked = checked
    OBVIOUS
<1>a. ps2 = Append(prices, row)
    OBVIOUS
<1> HIDE DEF row, ps2
<1>5. /\ RowsInv(ps2, priceNow) /\ SameRows(prices, ps2)
      /\ Len(ps2) = Len(prices) + 1 /\ ps2[Len(prices) + 1] = row
      /\ DOMAIN ps2 \ DOMAIN prices = {Len(prices) + 1}
      /\ \A i \in DOMAIN prices : ps2[i] = prices[i]
  <2>1. priceNow \in 0 .. MaxPriceTime /\ RowsInv(prices, priceNow) /\ Len(prices) < MaxPrices
      BY <1>1, <1>2
  <2>2. row.made = priceNow /\ row.cleared = FALSE /\ round6(row.rate) = row.rate
      BY <1>4
  <2>3. priceNow \in 0 .. MaxPriceTime
      BY <2>1
  <2>4. RowsInv(ps2, priceNow)
      BY ONLY <1>a, <1>3, <2>1, <2>2, <2>3, RowAdded
  <2>5. SameRows(prices, ps2)
      BY ONLY <1>a, <1>3, <2>1, <2>2, <2>3, RowAdded
  <2> QED BY ONLY <1>a, <1>3, <2>1, <2>2, <2>4, <2>5, RowAdded
<1>6. /\ \A i \in DOMAIN ps2 \ DOMAIN prices :
            ps2[i].made = priceNow /\ ps2[i].cleared = FALSE /\ ps2[i].by = by
      /\ \A i \in DOMAIN prices : ps2[i].cleared = prices[i].cleared
    BY <1>4, <1>5
<1>7. RepeatsNothing(ps2)
    BY <1>2, <1>4, <1>5, RepeatsNotAdded
<1>8. CopyInv(priceCache, ps2, priceNow)
  <2>1. priceNow \in Nat
      BY <1>2
  <2> QED BY <1>2, <1>5, <1>6, <2>1, CopySeesRow
<1>9. ASSUME NEW c \in Clients, NEW rq, PriceClientInv(c, rq, prices, priceNow),
             by # "sync" \/ c = "pass"
      PROVE  PriceClientInv(c, rq, ps2, priceNow)
  <2>1. priceNow \in Nat
      BY <1>2
  <2> QED BY <1>5, <1>6, <1>9, <2>1, ClientSeesRow
<1>10. \A t : TableOK(prices, t) => TableOK(ps2, t)
    BY <1>5, TableStays
<1> QED BY <1>1, <1>5, <1>7, <1>8, <1>9, <1>10

LEMMA PricesFacts ==
    ASSUME PricesInv
    PROVE  /\ priceNow \in 0 .. MaxPriceTime /\ prices \in Seq(PriceRow)
           /\ Len(prices) \in Nat /\ DOMAIN prices = 1 .. Len(prices)
           /\ \A i \in DOMAIN prices : prices[i] \in PriceRow
           /\ \A i \in DOMAIN prices : prices[i].from \in Nat /\ prices[i].from <= MaxPriceTime
           /\ \A i \in DOMAIN prices : prices[i].made \in Nat /\ prices[i].made <= priceNow
           /\ \A i \in DOMAIN prices : round6(prices[i].rate) = prices[i].rate
           /\ CopyInv(priceCache, prices, priceNow)
           /\ \A c \in Clients : /\ client[c] \in PriceClient
                                 /\ PriceClientInv(c, client[c], prices, priceNow)
<1>1. prices \in Seq(PriceRow)
    BY DEF PricesInv, RowsInv
<1>2. Len(prices) \in Nat /\ DOMAIN prices = 1 .. Len(prices)
      /\ \A i \in DOMAIN prices : prices[i] \in PriceRow
    BY <1>1, LenProperties
<1>3. ASSUME NEW row \in PriceRow PROVE row.from \in Nat /\ row.from <= MaxPriceTime /\ row.made \in Nat
  <2>1. row.from \in 0 .. MaxPriceTime /\ row.made \in Nat
      BY DEF PriceRow
  <2> QED BY <2>1, UnitIs
<1>4. \A i \in DOMAIN prices : /\ prices[i].from \in Nat /\ prices[i].from <= MaxPriceTime
                                /\ prices[i].made \in Nat
    BY <1>2, <1>3
<1> QED BY <1>1, <1>2, <1>4 DEF PricesInv, RowsInv

\* A query reads every row there is.
LEMMA LoadedIs ==
    ASSUME PricesInv, NEW table \in loadPrices
    PROVE  TableOK(prices, table) /\ DOMAIN table = DOMAIN prices
<1> DEFINE n == Len(prices)
<1>1. n \in Nat /\ DOMAIN prices = 1 .. n /\ \A i \in 1 .. n : prices[i].from \in Nat
    BY PricesFacts
<1> HIDE DEF n
<1>2. /\ table \in [1 .. n -> 1 .. n]
      /\ \A a \in DOMAIN table, b \in DOMAIN table :
            a < b => table[a] # table[b] /\ ~Newer(table[b], table[a])
    BY DEF loadPrices, n
<1>3. ASSUME NEW a \in 1 .. n, NEW b \in 1 .. n, a < b
      PROVE  table[a] # table[b] /\ prices[table[b]].from <= prices[table[a]].from
  <2>1. table[a] \in 1 .. n /\ table[b] \in 1 .. n /\ DOMAIN table = 1 .. n
      BY <1>2
  <2>2. table[a] # table[b] /\ ~(prices[table[b]].from > prices[table[a]].from)
      BY <1>2, <1>3, <2>1 DEF Newer
  <2> QED BY <1>1, <2>1, <2>2
<1>4. TableOf(prices, table, n)
    BY <1>2, <1>3 DEF TableOf
<1> QED BY <1>1, <1>2, <1>4 DEF TableOK, n

\* pickPrice in a table of the rows.
LEMMA PickIs ==
    ASSUME PricesInv, NEW t, TableOK(prices, t), NEW time \in Nat
    PROVE  LET p == pickPrice(t, time)
           IN  /\ p = 0 \/ (p \in DOMAIN prices /\ prices[p].from <= time)
               /\ \A i \in DOMAIN t : prices[i].from <= time =>
                     p # 0 /\ prices[i].from <= prices[p].from
               /\ \A i \in DOMAIN t : i \in DOMAIN prices /\ \E a \in DOMAIN t : t[a] = i
<1>1. PICK n \in 0 .. Len(prices) : TableOf(prices, t, n)
    BY DEF TableOK
<1>2. n \in Nat /\ 1 .. n \subseteq DOMAIN prices /\ DOMAIN t = 1 .. n
    BY <1>1, PricesFacts DEF TableOf
<1>3. \A i \in 1 .. n : prices[i].from \in Nat
    BY <1>2, PricesFacts
<1>4. \A i \in 1 .. n : \E a \in 1 .. n : t[a] = i
    BY <1>1, <1>2, TableHasAll
<1> HIDE DEF pickPrice
<1>5. LET p == pickPrice(t, time)
      IN  /\ p = 0 \/ (p \in 1 .. n /\ prices[p].from <= time)
          /\ \A i \in 1 .. n : prices[i].from <= time =>
                p # 0 /\ prices[i].from <= prices[p].from
    BY <1>1, <1>2, <1>3, PickIsGreatest
<1> QED BY <1>2, <1>4, <1>5

\* The answer of a load becomes the table in memory.
LEMMA StoredIs ==
    ASSUME PricesInv, NEW c \in Clients, Stored(c)
    PROVE  /\ CopyInv(priceCache', prices, priceNow)
           /\ ReadSince(prices, client[c].table, priceNow - MaxLoad)
<1> USE UnitIs
<1> DEFINE rq == client[c]
           copy == [loaded |-> TRUE, table |-> rq.table, loadedAt |-> priceNow,
                    raced |-> rq.raced]
<1>1. rq.at = "answer" /\ priceCache' = copy
    BY DEF Stored
<1>2. rq \in PriceClient /\ PriceClientInv(c, rq, prices, priceNow) /\ priceNow \in Nat
    BY PricesFacts
<1> HIDE DEF rq
<1>3. /\ rq.began \in Nat /\ priceNow - rq.began <= MaxLoad /\ rq.table \in Tables
      /\ rq.raced \in BOOLEAN /\ TableOK(prices, rq.table)
      /\ ReadSince(prices, rq.table, rq.began)
      /\ rq.raced = FALSE => HasCleared(prices, rq.table)
    BY <1>1, <1>2 DEF PriceClientInv, PriceClient
<1>4. ReadSince(prices, rq.table, priceNow - MaxLoad)
  <2>1. \A i \in DOMAIN prices : prices[i].made \in Nat
      BY PricesFacts
  <2> QED BY <1>2, <1>3, <2>1 DEF ReadSince
<1>5. copy \in PriceCopy
    BY <1>2, <1>3 DEF PriceCopy
<1>6. CopyInv(copy, prices, priceNow)
    BY <1>2, <1>3, <1>4, <1>5 DEF CopyInv
<1> QED BY <1>1, <1>4, <1>6 DEF rq

\* The price in effect is another: the last row of the sync with these rates was
\* followed by one.
LEMMA CheckedIs ==
    ASSUME PricesInv, NEW t, TableOK(prices, t), HasSynced(prices, t),
           NEW time \in Nat, NEW rate \in Nat,
           round6(effectivePrice(t, time)) # rate
    PROVE  AnotherSince(prices, rate, time)
<1> DEFINE p == pickPrice(t, time)
<1>1. /\ p = 0 \/ (p \in DOMAIN prices /\ prices[p].from <= time)
      /\ \A i \in DOMAIN t : prices[i].from <= time =>
            p # 0 /\ prices[i].from <= prices[p].from
    BY PickIs
<1>2. p # 0 => round6(prices[p].rate) # rate
    BY DEF effectivePrice, RateOf
<1> HIDE DEF p
<1>3. p # 0 => prices[p].rate # rate
    BY <1>1, <1>2, PricesFacts
<1> SUFFICES ASSUME NEW i \in DOMAIN prices, prices[i].by = "sync",
                    prices[i].rate = rate, prices[i].from <= time
             PROVE  \E k \in DOMAIN prices \ {i} :
                       prices[i].from <= prices[k].from /\ prices[k].from <= time
    BY DEF AnotherSince
<1>4. i \in DOMAIN t
    BY DEF HasSynced
<1> QED BY <1>1, <1>3, <1>4

LEMMA RateKept ==
    ASSUME NEW rate \in Int, 0 <= rate, rate <= MaxRate
    PROVE  /\ round6(rate) \in 0 .. MaxRate + Unit
           /\ round6(round6(rate)) = round6(rate)
BY Rounding, UnitIs

\* The requests of the pass.
LEMMA PassSteps ==
    ASSUME PricesInv, PassHits \/ PassReloads \/ PassPrices \/ PassGoesOn
    PROVE  PricesInv'
<1> USE UnitIs
<1>1. "pass" \in Clients /\ "pass" # "sync"
    BY DEF Clients
<1>2. /\ priceNow \in Nat /\ Len(prices) \in Nat
      /\ CopyInv(priceCache, prices, priceNow) /\ priceCache \in PriceCopy
      /\ client["pass"] \in PriceClient
      /\ PriceClientInv("pass", client["pass"], prices, priceNow)
      /\ \A i \in DOMAIN prices : prices[i].made \in Nat
  <2>1. priceNow \in 0 .. MaxPriceTime /\ Len(prices) \in Nat
        /\ \A i \in DOMAIN prices : prices[i].made \in Nat
      BY PricesFacts
  <2>2. client["pass"] \in PriceClient
        /\ PriceClientInv("pass", client["pass"], prices, priceNow)
      BY <1>1, PricesFacts
  <2>3. CopyInv(priceCache, prices, priceNow)
      BY PricesFacts
  <2>4. priceCache \in PriceCopy
      BY <2>3 DEF CopyInv
  <2> QED BY <2>1, <2>2, <2>3, <2>4
<1>3. Away \in PriceClient /\ PriceClientInv("pass", Away, prices, priceNow) /\ round6(0) = 0
    BY <1>1, <1>2, AwayIs
<1>4. CASE PassHits
  <2> DEFINE rq == [Away EXCEPT !.at = "priced", !.table = priceCache.table,
                                !.raced = priceCache.raced]
  <2>1. /\ priceCache.table \in Tables /\ priceCache.loadedAt \in Nat
        /\ priceCache.loaded \in BOOLEAN /\ priceCache.raced \in BOOLEAN
      BY <1>2 DEF PriceCopy
  <2>2. priceCache.loaded = TRUE /\ priceNow - priceCache.loadedAt <= PriceTTL
      BY <1>4, <2>1 DEF PassHits, Fresh
  <2>3. /\ TableOK(prices, priceCache.table)
        /\ ReadSince(prices, priceCache.table, priceCache.loadedAt - MaxLoad)
        /\ priceCache.raced = FALSE => HasCleared(prices, priceCache.table)
      BY <1>2, <2>2 DEF CopyInv
  <2>4. ReadSince(prices, priceCache.table, priceNow - (PriceTTL + MaxLoad))
      BY <1>2, <2>1, <2>2, <2>3 DEF ReadSince
  <2>5. rq \in PriceClient /\ rq.at = "priced" /\ rq.table = priceCache.table
        /\ rq.raced = priceCache.raced /\ rq.rate = 0
      BY <1>3, <2>1 DEF PriceClient, Away
  <2> HIDE DEF rq
  <2>6. PriceClientInv("pass", rq, prices, priceNow)
      BY <1>1, <1>2, <2>3, <2>4, <2>5, <1>3 DEF PriceClientInv
  <2>7. Goes("pass", rq) /\ UNCHANGED <<priceNow, prices, priceCache>>
      BY <1>4 DEF PassHits, rq
  <2> QED BY <1>1, <1>2, <2>6, <2>7, ClientMoves
<1>5. CASE PassReloads
  <2> DEFINE rq == Loading(Away)
  <2>1. rq \in PriceClient /\ rq.at = "select" /\ rq.began = priceNow /\ rq.rate = 0
        /\ rq.table = <<>>
      BY <1>2, <1>3 DEF PriceClient, Away, Loading
  <2>2. Goes("pass", rq) /\ UNCHANGED <<priceNow, prices, priceCache>>
      BY <1>5 DEF PassReloads
  <2> HIDE DEF rq
  <2>3. PriceClientInv("pass", rq, prices, priceNow)
      BY <1>1, <1>2, <1>3, <2>1, NoRowsYet DEF PriceClientInv
  <2> QED BY <1>1, <1>2, <2>2, <2>3, ClientMoves
<1>6. CASE PassPrices
  <2> DEFINE rq == [client["pass"] EXCEPT !.at = "priced"]
  <2>1. /\ Goes("pass", rq) /\ UNCHANGED <<priceNow, prices>>
        /\ Stored("pass") /\ client["pass"].at = "answer"
      BY <1>6 DEF PassPrices, Stored
  <2>2. /\ CopyInv(priceCache', prices, priceNow)
        /\ ReadSince(prices, client["pass"].table, priceNow - MaxLoad)
      BY <1>1, <2>1, StoredIs
  <2>3. rq \in PriceClient /\ rq.at = "priced" /\ rq.table = client["pass"].table
        /\ rq.raced = client["pass"].raced /\ rq.rate = client["pass"].rate
      BY <1>2 DEF PriceClient
  <2> HIDE DEF rq
  <2>4. ReadSince(prices, rq.table, priceNow - (PriceTTL + MaxLoad))
      BY <1>2, <2>2, <2>3 DEF ReadSince
  <2>5. /\ round6(rq.rate) = rq.rate /\ TableOK(prices, rq.table)
        /\ rq.raced = FALSE => HasCleared(prices, rq.table)
      BY <1>2, <2>1, <2>3 DEF PriceClientInv
  <2>6. PriceClientInv("pass", rq, prices, priceNow)
      BY <1>1, <2>3, <2>4, <2>5 DEF PriceClientInv
  <2> QED BY <1>1, <2>1, <2>2, <2>6, ClientMoves
<1>7. CASE PassGoesOn
  <2>1. Goes("pass", Away) /\ UNCHANGED <<priceNow, prices, priceCache>>
      BY <1>7 DEF PassGoesOn
  <2> QED BY <1>1, <1>2, <1>3, <2>1, ClientMoves
<1> QED BY <1>4, <1>5, <1>6, <1>7

\* The two halves of a load, and a query that fails.
LEMMA QuerySteps ==
    ASSUME PricesInv, NEW c \in Clients, ReadPrices(c) \/ QueryRejects(c)
    PROVE  PricesInv'
<1>1. /\ priceNow \in Nat /\ Len(prices) \in Nat
      /\ CopyInv(priceCache, prices, priceNow)
      /\ client[c] \in PriceClient /\ PriceClientInv(c, client[c], prices, priceNow)
    BY PricesFacts
<1>2. CASE ReadPrices(c)
  <2>1. PICK table \in loadPrices :
            Goes(c, [client[c] EXCEPT !.at = "answer", !.table = table])
      BY <1>2 DEF ReadPrices
  <2>2. client[c].at = "select" /\ UNCHANGED <<priceNow, prices, priceCache>>
      BY <1>2 DEF ReadPrices
  <2>3. TableOK(prices, table) /\ DOMAIN table = DOMAIN prices /\ table \in Tables
      BY <1>1, LoadedIs, TableIsTable
  <2> DEFINE rq == [client[c] EXCEPT !.at = "answer", !.table = table]
  <2>4. rq \in PriceClient /\ rq.at = "answer" /\ rq.table = table
        /\ rq.raced = client[c].raced /\ rq.rate = client[c].rate
        /\ rq.began = client[c].began
      BY <1>1, <2>3 DEF PriceClient
  <2>5. Goes(c, rq)
      BY <2>1
  <2> HIDE DEF rq
  <2>6. round6(rq.rate) = rq.rate /\ rq.began <= priceNow /\ priceNow - rq.began <= MaxLoad
      BY <1>1, <2>2, <2>4 DEF PriceClientInv
  <2>7. /\ ReadSince(prices, rq.table, rq.began) /\ HasCleared(prices, rq.table)
        /\ HasSynced(prices, rq.table)
      BY <2>3, <2>4 DEF ReadSince, HasCleared, HasSynced
  <2>8. PriceClientInv(c, rq, prices, priceNow)
      BY <2>3, <2>4, <2>6, <2>7 DEF PriceClientInv
  <2> QED BY <1>1, <2>2, <2>5, <2>8, ClientMoves
<1>3. CASE QueryRejects(c)
  <2>1. Goes(c, Away) /\ UNCHANGED <<priceNow, prices, priceCache>>
      BY <1>3 DEF QueryRejects
  <2>2. PriceClientInv(c, Away, prices, priceNow)
      BY <1>1, AwayIs
  <2> QED BY <1>1, <2>1, <2>2, ClientMoves
<1> QED BY <1>2, <1>3

\* A POST of the sync begins, and its check.
LEMMA SyncSteps ==
    ASSUME PricesInv,
           (\E rate \in Rates, valid_from \in Dates : SyncBegins(rate, valid_from)) \/ SyncChecks
    PROVE  PricesInv'
<1> USE UnitIs
<1>1. "sync" \in Clients /\ "pass" # "sync"
    BY DEF Clients
<1>2. /\ priceNow \in 0 .. MaxPriceTime /\ priceNow \in Nat /\ Len(prices) \in Nat
      /\ CopyInv(priceCache, prices, priceNow)
      /\ client["sync"] \in PriceClient
      /\ PriceClientInv("sync", client["sync"], prices, priceNow)
    BY <1>1, PricesFacts
<1>3. Away \in PriceClient /\ PriceClientInv("sync", Away, prices, priceNow)
    BY <1>1, <1>2, AwayIs
<1>4. ASSUME NEW rate \in Rates, NEW valid_from \in Dates, SyncBegins(rate, valid_from)
      PROVE  PricesInv'
  <2> DEFINE rq == [Loading(Away) EXCEPT !.rate = round6(rate), !.valid_from = valid_from]
  <2>1. rate \in Int /\ 0 <= rate /\ rate <= MaxRate
      BY <1>4, PriceAssumption DEF SyncBegins, parsePriceForm
  <2>2. round6(rate) \in 0 .. MaxRate + Unit /\ round6(round6(rate)) = round6(rate)
      BY <2>1, RateKept
  <2>3. rq \in PriceClient /\ rq.at = "select" /\ rq.began = priceNow
        /\ rq.rate = round6(rate) /\ rq.table = <<>>
      BY <1>2, <1>3, <2>2 DEF PriceClient, Away, Loading
  <2>4. Goes("sync", rq) /\ UNCHANGED <<priceNow, prices, priceCache>>
      BY <1>4 DEF SyncBegins
  <2> HIDE DEF rq
  <2>5. PriceClientInv("sync", rq, prices, priceNow)
      BY <1>1, <1>2, <2>2, <2>3, NoRowsYet DEF PriceClientInv
  <2> QED BY <1>1, <1>2, <2>4, <2>5, ClientMoves
<1>5. CASE SyncChecks
  <2> DEFINE old  == client["sync"]
             time == IF old.valid_from = NoDate THEN priceNow ELSE old.valid_from
             same == round6(effectivePrice(old.table, time)) = old.rate
             rq   == [old EXCEPT !.at = "insert", !.checked = time]
  <2>1. /\ Stored("sync") /\ UNCHANGED <<priceNow, prices>>
        /\ Goes("sync", IF same THEN Away ELSE rq) /\ old.at = "answer"
      BY <1>5 DEF SyncChecks, Stored
  <2>2. CopyInv(priceCache', prices, priceNow)
      BY <1>1, <2>1, StoredIs
  <2>3. CASE same
    <3>1. Goes("sync", Away)
        BY <2>1, <2>3
    <3> QED BY <1>1, <1>3, <2>1, <2>2, <3>1, ClientMoves
  <2>4. CASE ~same
    <3>1. Goes("sync", rq)
        BY <2>1, <2>4
    <3>2. /\ old.rate \in Nat /\ old.table \in Tables /\ TableOK(prices, old.table)
          /\ HasSynced(prices, old.table) /\ round6(old.rate) = old.rate
          /\ old.valid_from \in Dates \cup {NoDate}
        BY <1>1, <1>2, <2>1 DEF PriceClientInv, PriceClient
    <3>3. time \in 0 .. MaxPriceTime
        BY <1>2, <3>2, PriceAssumption
    <3>4. AnotherSince(prices, old.rate, time)
      <4> HIDE DEF old
      <4>1. time \in Nat /\ round6(effectivePrice(old.table, time)) # old.rate
          BY <2>4, <3>3
      <4> HIDE DEF time, same
      <4> QED BY <3>2, <4>1, CheckedIs
    <3>5. rq \in PriceClient /\ rq.at = "insert" /\ rq.rate = old.rate
          /\ rq.checked = time /\ rq.table = old.table
      <4> HIDE DEF time, same
      <4> QED BY <1>2, <3>3 DEF PriceClient
    <3> HIDE DEF rq, same, time, old
    <3>6. PriceClientInv("sync", rq, prices, priceNow)
        BY <1>1, <3>2, <3>4, <3>5 DEF PriceClientInv
    <3> QED BY <1>1, <2>1, <2>2, <3>1, <3>6, ClientMoves
  <2> QED BY <2>3, <2>4
<1> QED BY <1>4, <1>5

\* A row is added, by a form or by the sync.
LEMMA AddSteps ==
    ASSUME PricesInv,
           \/ \E rate \in Rates, valid_from \in Dates : AdminAdds(rate, valid_from)
           \/ SyncAdds
    PROVE  PricesInv'
<1> USE UnitIs
<1>1. Clients = {"pass", "sync"} /\ "pass" # "sync"
    BY DEF Clients
<1>2. /\ priceNow \in 0 .. MaxPriceTime /\ client \in [Clients -> PriceClient]
      /\ \A c \in Clients : /\ client[c] \in PriceClient
                            /\ PriceClientInv(c, client[c], prices, priceNow)
    BY PricesFacts DEF PricesInv
<1>3. ASSUME NEW rate \in Rates, NEW valid_from \in Dates, AdminAdds(rate, valid_from)
      PROVE  PricesInv'
  <2>1. /\ AddPrice("admin", rate, valid_from, 0) /\ parsePriceForm(rate)
        /\ UNCHANGED <<priceNow, priceCache, client>>
      BY <1>3 DEF AdminAdds
  <2>2. rate \in Int /\ round6(rate) \in 0 .. MaxRate + Unit
        /\ round6(round6(rate)) = round6(rate)
      BY <2>1, RateKept, PriceAssumption DEF parsePriceForm
  <2>3. valid_from \in Dates \cup {NoDate} /\ 0 \in 0 .. MaxPriceTime
      OBVIOUS
  <2>4. /\ RowsInv(prices', priceNow) /\ RepeatsNothing(prices')
        /\ CopyInv(priceCache', prices', priceNow)
        /\ \A c \in Clients : \A rq : PriceClientInv(c, rq, prices, priceNow)
                                  => PriceClientInv(c, rq, prices', priceNow)
      BY <2>1, <2>2, <2>3, AddKeeps
  <2>5. \A c \in Clients : PriceClientInv(c, client[c], prices', priceNow)
      BY <1>2, <2>4
  <2> QED BY <1>2, <2>1, <2>4, <2>5 DEF PricesInv
<1>4. CASE SyncAdds
  <2> DEFINE rq  == client["sync"]
             rq2 == [rq EXCEPT !.at = "clear"]
  <2>1. /\ rq.at = "insert" /\ AddPrice("sync", rq.rate, rq.valid_from, rq.checked)
        /\ client' = [client EXCEPT !["sync"] = rq2]
        /\ UNCHANGED <<priceNow, priceCache>>
      BY <1>4 DEF SyncAdds, Goes
  <2>2. rq \in PriceClient /\ PriceClientInv("sync", rq, prices, priceNow)
      BY <1>1, <1>2
  <2>3. rq2 \in PriceClient /\ rq2.at = "clear" /\ rq2.table = rq.table /\ rq2.rate = rq.rate
      BY <2>2 DEF PriceClient
  <2> HIDE DEF rq2, rq
  <2>4. /\ rq.rate \in 0 .. MaxRate + Unit /\ rq.valid_from \in Dates \cup {NoDate}
        /\ rq.checked \in 0 .. MaxPriceTime /\ round6(rq.rate) = rq.rate
        /\ AnotherSince(prices, rq.rate, rq.checked) /\ TableOK(prices, rq.table)
      BY <2>1, <2>2 DEF PriceClientInv, PriceClient
  <2>5. /\ rq.rate \in Int /\ round6(rq.rate) \in 0 .. MaxRate + Unit
        /\ round6(round6(rq.rate)) = round6(rq.rate)
        /\ AnotherSince(prices, round6(rq.rate), rq.checked)
      BY <2>4
  <2>6. /\ RowsInv(prices', priceNow) /\ RepeatsNothing(prices')
        /\ CopyInv(priceCache', prices', priceNow)
        /\ \A r : PriceClientInv("pass", r, prices, priceNow)
                  => PriceClientInv("pass", r, prices', priceNow)
        /\ TableOK(prices', rq.table)
    <3>1. "sync" \in {"admin", "sync"} /\ "pass" \in Clients
        BY <1>1
    <3> QED BY <2>1, <2>4, <2>5, <3>1, AddKeeps DEF rq
  <2>7. client' \in [Clients -> PriceClient] /\ client'["sync"] = rq2
        /\ client'["pass"] = client["pass"]
      BY <1>1, <1>2, <2>1, <2>3
  <2>8. PriceClientInv("pass", client["pass"], prices', priceNow)
      BY <1>1, <1>2, <2>6
  <2>9. PriceClientInv("sync", rq2, prices', priceNow)
      BY <1>1, <2>3, <2>4, <2>6 DEF PriceClientInv
  <2>10. \A c \in Clients : PriceClientInv(c, client'[c], prices', priceNow)
      BY <1>1, <2>7, <2>8, <2>9
  <2> QED BY <1>2, <2>1, <2>6, <2>7, <2>10 DEF PricesInv
<1> QED BY <1>3, <1>4

\* The sync's insert is finished: its rows are marked, the table in memory goes,
\* and who was loading or had loaded has raced.
LEMMA ClearStep == ASSUME PricesInv, SyncClears PROVE PricesInv'
<1> USE UnitIs
<1>1. Clients = {"pass", "sync"} /\ "pass" # "sync"
    BY DEF Clients
<1>2. /\ priceNow \in 0 .. MaxPriceTime /\ priceNow \in Nat /\ prices \in Seq(PriceRow)
      /\ Len(prices) \in Nat /\ DOMAIN prices = 1 .. Len(prices)
      /\ \A i \in DOMAIN prices : prices[i] \in PriceRow
    BY PricesFacts
<1>3. /\ client["pass"] \in PriceClient
      /\ PriceClientInv("pass", client["pass"], prices, priceNow)
    BY <1>1, PricesFacts
<1> DEFINE n    == Len(prices)
           Marked(i) == prices[i].cleared \/ prices[i].by = "sync"
           ps2  == [i \in DOMAIN prices |-> [prices[i] EXCEPT !.cleared = Marked(i)]]
           rq   == [client["pass"] EXCEPT !.raced = client["pass"].at # "idle"]
<1>4. /\ priceCache' = NoTable /\ prices' = ps2 /\ priceNow' = priceNow
      /\ client' = [c \in Clients |->
                      IF c = "sync" THEN Away
                      ELSE [client[c] EXCEPT !.raced = client[c].at # "idle"]]
    BY DEF SyncClears
<1>5. \A i \in 1 .. n : ps2[i] \in PriceRow
  <2> SUFFICES ASSUME NEW i \in 1 .. n PROVE ps2[i] \in PriceRow
      OBVIOUS
  <2>1. prices[i] \in PriceRow /\ Marked(i) \in BOOLEAN
        /\ ps2[i] = [prices[i] EXCEPT !.cleared = Marked(i)]
    <3>1. prices[i] \in PriceRow
        BY <1>2
    <3>2. prices[i].cleared \in BOOLEAN
        BY <3>1 DEF PriceRow
    <3>3. Marked(i) \in BOOLEAN
        BY <3>2
    <3> QED BY <1>2, <3>1, <3>3
  <2> HIDE DEF Marked, ps2
  <2> QED BY <2>1 DEF PriceRow
<1>6. ps2 \in [1 .. n -> PriceRow]
    BY <1>2, <1>5
<1>7. ps2 \in Seq(PriceRow) /\ Len(ps2) = n /\ DOMAIN ps2 = 1 .. n
  <2>1. n \in Nat
      BY <1>2
  <2> HIDE DEF ps2, n
  <2> QED BY <1>6, <2>1, ListLen
<1>8. Len(ps2) = n /\ DOMAIN ps2 = 1 .. n
    BY <1>7
<1>9. SameRows(prices, ps2)
  <2>1. \A i \in DOMAIN prices :
            /\ ps2[i].from = prices[i].from /\ ps2[i].rate = prices[i].rate
            /\ ps2[i].by = prices[i].by /\ ps2[i].made = prices[i].made
            /\ ps2[i].checked = prices[i].checked
    <3> SUFFICES ASSUME NEW i \in DOMAIN prices
                 PROVE  /\ ps2[i].from = prices[i].from /\ ps2[i].rate = prices[i].rate
                        /\ ps2[i].by = prices[i].by /\ ps2[i].made = prices[i].made
                        /\ ps2[i].checked = prices[i].checked
        OBVIOUS
    <3>1. prices[i] \in PriceRow /\ ps2[i] = [prices[i] EXCEPT !.cleared = Marked(i)]
        BY <1>2
    <3> HIDE DEF ps2, Marked
    <3> QED BY <3>1 DEF PriceRow
  <2> HIDE DEF ps2
  <2> QED BY <1>2, <1>5, <1>8, <2>1 DEF SameRows
<1> HIDE DEF ps2
<1>10. RowsInv(ps2, priceNow)
  <2>1. \A i \in DOMAIN ps2 : ps2[i].made <= priceNow
      BY <1>2, <1>8, <1>9, PricesFacts DEF SameRows
  <2>2. \A i \in DOMAIN ps2 : round6(ps2[i].rate) = ps2[i].rate
      BY <1>2, <1>8, <1>9, PricesFacts DEF SameRows
  <2>3. Len(ps2) <= MaxPrices
      BY <1>8 DEF PricesInv, RowsInv
  <2> QED BY <1>7, <2>1, <2>2, <2>3 DEF RowsInv
<1>11. RepeatsNothing(ps2)
    BY <1>2, <1>8, <1>9, RepeatsStay DEF PricesInv
<1>12. CopyInv(NoTable, ps2, priceNow)
    BY <1>2, <1>8, NoTableIs
<1>13. Away \in PriceClient /\ PriceClientInv("sync", Away, ps2, priceNow)
    BY <1>1, <1>2, <1>8, AwayIs
<1>14. rq \in PriceClient /\ rq.at = client["pass"].at /\ rq.table = client["pass"].table
       /\ rq.rate = client["pass"].rate /\ rq.began = client["pass"].began
       /\ (rq.at # "idle" => rq.raced = TRUE)
    BY <1>3 DEF PriceClient
<1> HIDE DEF rq
<1>15. PriceClientInv("pass", rq, ps2, priceNow)
  <2>1. /\ round6(rq.rate) = rq.rate /\ rq.at \notin {"insert", "clear"}
        /\ TableOK(prices, rq.table) /\ rq.began \in Nat
        /\ rq.at \in {"select", "answer"}
           => rq.began <= priceNow /\ priceNow - rq.began <= MaxLoad
        /\ rq.at = "answer" => ReadSince(prices, rq.table, rq.began)
        /\ rq.at = "priced" => ReadSince(prices, rq.table, priceNow - (PriceTTL + MaxLoad))
      BY <1>3, <1>14 DEF PriceClientInv, PriceClient
  <2>2. DOMAIN ps2 \ DOMAIN prices = {}
      BY <1>2, <1>8
  <2>3. TableOK(ps2, rq.table)
      BY <1>9, <2>1, TableKept
  <2>4. rq.at = "answer" => ReadSince(ps2, rq.table, rq.began)
    <3>1. rq.began \in Int
        BY <2>1
    <3> QED BY <1>9, <2>1, <2>2, <3>1, TableKept
  <2>5. rq.at = "priced" => ReadSince(ps2, rq.table, priceNow - (PriceTTL + MaxLoad))
    <3>1. priceNow - (PriceTTL + MaxLoad) \in Int
        BY <1>2
    <3> QED BY <1>9, <2>1, <2>2, <3>1, TableKept
  <2> QED BY <1>1, <1>14, <2>1, <2>3, <2>4, <2>5 DEF PriceClientInv
<1>16. client' \in [Clients -> PriceClient] /\ client'["sync"] = Away /\ client'["pass"] = rq
  <2>1. client' = [c \in Clients |-> IF c = "sync" THEN Away ELSE rq]
      BY <1>1, <1>4 DEF rq
  <2> QED BY <1>1, <1>13, <1>14, <2>1
<1>17. \A c \in Clients : PriceClientInv(c, client'[c], ps2, priceNow)
    BY <1>1, <1>13, <1>15, <1>16
<1> QED BY <1>2, <1>4, <1>10, <1>11, <1>12, <1>16, <1>17 DEF PricesInv

LEMMA TickStep == ASSUME PricesInv, PriceTick PROVE PricesInv'
<1> USE UnitIs
<1>1. /\ priceNow \in Nat /\ RowsInv(prices, priceNow)
      /\ \A i \in DOMAIN prices : prices[i].made \in Nat
    BY PricesFacts DEF PricesInv
<1>2. /\ priceNow' = priceNow + 1 /\ priceNow' \in 0 .. MaxPriceTime
      /\ UNCHANGED <<prices, priceCache, client>>
    BY <1>1 DEF PriceTick
<1> DEFINE now2 == priceNow + 1
<1>3. RowsInv(prices, now2)
    BY <1>1 DEF RowsInv
<1>4. CopyInv(priceCache, prices, now2)
  <2>1. CopyInv(priceCache, prices, priceNow)
      BY DEF PricesInv
  <2>2. priceCache.loadedAt \in Nat /\ priceCache.loadedAt <= priceNow
      BY <2>1 DEF CopyInv, PriceCopy
  <2>3. priceCache.loadedAt <= now2
      BY <1>1, <2>2
  <2> HIDE DEF now2
  <2> QED BY <2>1, <2>3 DEF CopyInv
<1>5. ASSUME NEW c \in Clients PROVE PriceClientInv(c, client[c], prices, now2)
  <2> DEFINE rq == client[c]
  <2>1. rq \in PriceClient /\ PriceClientInv(c, rq, prices, priceNow)
      BY PricesFacts
  <2>2. \/ rq.at \in {"idle", "insert", "clear"}
        \/ rq.at \in {"select", "answer"} /\ priceNow - rq.began < MaxLoad
      BY DEF PriceTick
  <2> HIDE DEF rq
  <2>3. rq.began \in Nat
      BY <2>1 DEF PriceClient
  <2>4. rq.at \in {"select", "answer"} => rq.began <= now2 /\ now2 - rq.began <= MaxLoad
    <3> SUFFICES ASSUME rq.at \in {"select", "answer"}
                 PROVE  rq.began <= now2 /\ now2 - rq.began <= MaxLoad
        OBVIOUS
    <3>1. rq.began <= priceNow
        BY <2>1 DEF PriceClientInv
    <3>2. priceNow - rq.began < MaxLoad
        BY <2>2
    <3> QED BY <1>1, <2>3, <3>1, <3>2
  <2>5. rq.at # "priced"
      BY <2>2
  <2> HIDE DEF now2
  <2>6. PriceClientInv(c, rq, prices, now2)
      BY <2>1, <2>4, <2>5 DEF PriceClientInv
  <2> QED BY <2>6 DEF rq
<1> QED BY <1>2, <1>3, <1>4, <1>5 DEF PricesInv

LEMMA PricesNextInv == PricesInv /\ [PricesNext]_priceVars => PricesInv'
<1> SUFFICES ASSUME PricesInv, [PricesNext]_priceVars PROVE PricesInv'
    OBVIOUS
<1>1. CASE \E rate \in Rates, valid_from \in Dates : AdminAdds(rate, valid_from)
    BY <1>1, AddSteps
<1>2. CASE \E rate \in Rates, valid_from \in Dates : SyncBegins(rate, valid_from)
    BY <1>2, SyncSteps
<1>3. CASE PassHits \/ PassReloads \/ PassPrices \/ PassGoesOn
    BY <1>3, PassSteps
<1>4. CASE \E c \in Clients : ReadPrices(c) \/ QueryRejects(c)
    BY <1>4, QuerySteps
<1>5. CASE SyncChecks
    BY <1>5, SyncSteps
<1>6. CASE SyncAdds
    BY <1>6, AddSteps
<1>7. CASE SyncClears
    BY <1>7, ClearStep
<1>8. CASE PriceApiRestart
  <2>1. priceCache' = NoTable /\ client' = [c \in Clients |-> Away]
        /\ UNCHANGED <<priceNow, prices>>
      BY <1>8 DEF PriceApiRestart
  <2>2. priceNow \in Nat /\ Len(prices) \in Nat
      BY PricesFacts
  <2>3. CopyInv(NoTable, prices, priceNow)
      BY <2>2, NoTableIs
  <2>4. \A c \in Clients : client'[c] = Away /\ Away \in PriceClient
                           /\ PriceClientInv(c, client'[c], prices, priceNow)
      BY <2>1, <2>2, AwayIs
  <2>5. client' \in [Clients -> PriceClient]
      BY <2>1, <2>4
  <2> QED BY <2>1, <2>3, <2>4, <2>5 DEF PricesInv
<1>9. CASE PriceTick
    BY <1>9, TickStep
<1>10. CASE UNCHANGED priceVars
    BY <1>10 DEF priceVars, PricesInv
<1> QED BY <1>1, <1>2, <1>3, <1>4, <1>5, <1>6, <1>7, <1>8, <1>9, <1>10 DEF PricesNext

LEMMA PricesHold == PricesSpec => []PricesInv
BY PricesInitInv, PricesNextInv, PTL DEF PricesSpec

\* Every usage row of a page is charged the row of the greatest valid_from at or
\* before its time, of the rows older than PriceTTL and a load (pricing.ts).
THEOREM ChargesAreInEffect == PricesSpec => []ChargedInEffect
<1>1. PricesInv => ChargedInEffect
  <2> SUFFICES ASSUME PricesInv, client["pass"].at = "priced",
                      NEW time \in 0 .. priceNow, NEW i \in DOMAIN prices,
                      prices[i].from <= time,
                      \/ pickPrice(client["pass"].table, time) = 0
                      \/ prices[pickPrice(client["pass"].table, time)].from < prices[i].from
               PROVE  priceNow - prices[i].made <= PriceTTL + MaxLoad
      BY DEF ChargedInEffect
  <2> USE UnitIs
  <2> DEFINE t == client["pass"].table
             p == pickPrice(t, time)
  <2>1. priceNow \in Nat /\ time \in Nat
      BY PricesFacts
  <2>2. PriceClientInv("pass", client["pass"], prices, priceNow)
      BY PricesFacts DEF Clients
  <2>3. TableOK(prices, t) /\ ReadSince(prices, t, priceNow - (PriceTTL + MaxLoad))
      BY <2>2 DEF PriceClientInv
  <2> HIDE DEF t
  <2>4. /\ p = 0 \/ p \in DOMAIN prices
        /\ \A k \in DOMAIN t : prices[k].from <= time =>
              p # 0 /\ prices[k].from <= prices[p].from
      BY <2>1, <2>3, PickIs
  <2>5. p = 0 \/ prices[p].from < prices[i].from
      BY DEF t
  <2> HIDE DEF p
  <2>6. prices[i].from \in Nat /\ prices[i].made \in Nat
        /\ (p \in DOMAIN prices => prices[p].from \in Nat)
      BY PricesFacts
  <2>7. i \notin DOMAIN t
      BY <2>4, <2>5, <2>6
  <2>8. prices[i].made >= priceNow - (PriceTTL + MaxLoad)
      BY <2>3, <2>7 DEF ReadSince
  <2> QED BY <2>1, <2>6, <2>8
<1> QED BY <1>1, PricesHold, PTL

\* A row of the price sync whose 201 was sent is in every table this machine's
\* ingest uses, but in one whose load the insert overtook (pricing.ts:101-104).
THEOREM SyncedRowsAreUsed == PricesSpec => []SyncedAtOnce
<1>1. PricesInv => SyncedAtOnce
  <2> SUFFICES ASSUME PricesInv, client["pass"].at = "priced", ~client["pass"].raced,
                      NEW i \in DOMAIN prices, prices[i].by = "sync", prices[i].cleared
               PROVE  \E a \in DOMAIN client["pass"].table : client["pass"].table[a] = i
      BY DEF SyncedAtOnce
  <2> DEFINE rq == client["pass"]
  <2>1. rq \in PriceClient /\ PriceClientInv("pass", rq, prices, priceNow)
      BY PricesFacts DEF Clients
  <2>2. rq.at = "priced" /\ rq.raced = FALSE
      BY <2>1 DEF PriceClient
  <2>3. prices[i].cleared = TRUE
      BY PricesFacts DEF PriceRow
  <2> HIDE DEF rq
  <2>4. TableOK(prices, rq.table) /\ HasCleared(prices, rq.table)
      BY <2>1, <2>2 DEF PriceClientInv
  <2>5. i \in DOMAIN rq.table
      BY <2>3, <2>4 DEF HasCleared
  <2>6. \A k \in DOMAIN rq.table : \E a \in DOMAIN rq.table : rq.table[a] = k
    <3>1. 0 \in Nat
        OBVIOUS
    <3> QED BY <2>4, <3>1, PickIs
  <2> QED BY <2>5, <2>6 DEF rq
<1> QED BY <1>1, PricesHold, PTL

\* The price sync adds no row that repeats its last one (internal.ts:91-94).
THEOREM SyncAddsNews == PricesSpec => []SyncRepeatsNothing
<1>1. PricesInv => SyncRepeatsNothing
    BY DEF PricesInv, RepeatsNothing, SyncRepeatsNothing
<1> QED BY <1>1, PricesHold, PTL

\* The variables keep the shape of the code's tables and requests.
THEOREM PricesTypeCorrect == PricesSpec => []PricesTypeOK
<1>1. PricesInv => PricesTypeOK
  <2> SUFFICES ASSUME PricesInv PROVE PricesTypeOK
      OBVIOUS
  <2> USE UnitIs
  <2>1. priceNow \in 0 .. MaxPriceTime /\ Len(prices) <= MaxPrices
      BY DEF PricesInv, RowsInv
  <2>2. ASSUME NEW i \in DOMAIN prices
        PROVE  prices[i] \in [from : 0 .. MaxPriceTime, rate : 0 .. MaxRate + Unit,
                              by : {"admin", "sync"}, made : 0 .. priceNow,
                              checked : 0 .. MaxPriceTime, cleared : BOOLEAN]
    <3>1. prices[i] \in PriceRow /\ prices[i].made \in 0 .. priceNow
        BY <2>1, PricesFacts
    <3> QED BY <3>1 DEF PriceRow
  <2>3. priceCache.loadedAt \in 0 .. priceNow
      BY <2>1 DEF PricesInv, CopyInv, PriceCopy
  <2>4. ASSUME NEW c \in Clients
        PROVE  /\ client[c].at \in {"idle", "select", "answer", "priced", "insert", "clear"}
               /\ client[c].valid_from \in Dates \cup {NoDate}
               /\ \A i \in DOMAIN client[c].table : client[c].table[i] \in DOMAIN prices
    <3>1. client[c] \in PriceClient /\ PriceClientInv(c, client[c], prices, priceNow)
        BY PricesFacts
    <3>2. PICK n \in 0 .. Len(prices) : TableOf(prices, client[c].table, n)
        BY <3>1 DEF PriceClientInv, TableOK
    <3>3. \A i \in DOMAIN client[c].table : client[c].table[i] \in DOMAIN prices
        BY <3>2, PricesFacts DEF TableOf
    <3>4. client[c].at \in {"idle", "select", "answer", "priced", "insert", "clear"}
          /\ client[c].valid_from \in Dates \cup {NoDate}
        BY <3>1 DEF PriceClient
    <3> QED BY <3>3, <3>4
  <2> QED BY <2>1, <2>2, <2>3, <2>4 DEF PricesTypeOK
<1> QED BY <1>1, PricesHold, PTL

-------------------------------------------------------------------------------
(* The five together *)

\* A step of one part, or of none, is a step or a stutter of each.
LEMMA EachPartRuns ==
    ServicesSpec => Spec /\ PricesSpec /\ MigrationsSpec /\ ForwardSpec /\ ReporterSpec
<1>1. ServicesInit => Init /\ PricesInit /\ MigrationsInit /\ ForwardInit /\ ReporterInit
    BY DEF ServicesInit
<1>2. [ServicesNext]_<<vars, priceVars, migrationVars, forwardVars, reporterVars>>
      => /\ [Next]_vars /\ [PricesNext]_priceVars /\ [MigrationsNext]_migrationVars
         /\ [ForwardNext]_forwardVars /\ [ReporterNext]_reporterVars
    BY Zenon DEF ServicesNext
<1> QED BY <1>1, <1>2, PTL
        DEF ServicesSpec, Spec, PricesSpec, MigrationsSpec, ForwardSpec, ReporterSpec

\* The variables of the five keep their shapes while one part or another moves.
THEOREM ServicesTypeCorrect == ServicesSpec => []ServicesTypesOK
<1>1. TypeOK /\ PricesTypeOK /\ MigrationsTypeOK /\ ForwardTypeOK /\ ReporterTypeOK
      => ServicesTypesOK
    BY DEF ServicesTypesOK
<1> QED BY <1>1, EachPartRuns, BarrierTypeCorrect, PricesTypeCorrect,
           MigrationsTypeCorrect, ForwardTypeCorrect, ReporterTypeCorrect, PTL

\* What each part keeps alone it keeps among the others: they share no state.
THEOREM ServicesKeep ==
    ServicesSpec =>
        [](/\ FreshOrFlagged /\ WaitsForLivePass
           /\ ChargedInEffect /\ SyncedAtOnce /\ SyncRepeatsNothing
           /\ SchemaIsRecorded /\ UpLeavesAll
           /\ CleanEndIsWhole /\ ErrorsOnTheirWay)
BY EachPartRuns, AnswersAreFresh, NobodyWaitsInVain,
   ChargesAreInEffect, SyncedRowsAreUsed, SyncAddsNews,
   FilesAreRecorded, UpAppliesEveryFile, CleanAnswersAreWhole, NoErrorLost, PTL

\* So does what depends on the provider's streams.
THEOREM ServicesMeter ==
    StreamsCountUp => (ServicesSpec => []WhatArrivedIsMetered)
BY EachPartRuns, ArrivedIsMetered, PTL
===============================================================================
