--------------------------- MODULE StreamProcessor ---------------------------
(***************************************************************************)
(* The Flink job (flink-log-processor): one partition of raw-logs, read by *)
(* one subtask that normalises the records, counts them in tumbling        *)
(* event-time windows and feeds OpenSearchBulkSink.  StreamingJob sets the *)
(* pieces up; what Flink 1.18 does with them (timers, lateness, barriers,  *)
(* recovery) is modelled from that use.                                    *)
(*                                                                         *)
(* The window operator and the sink are chained: one thread runs them, and *)
(* a full buffer or a snapshot makes it wait for OpenSearch.  The content  *)
(* of an aggregate is the set of offsets it was computed from.             *)
(***************************************************************************)
EXTENDS Integers, Sequences, FiniteSets, FiniteSetsExt

CONSTANTS
    Services,
    Unknown,    \* the service of a record that names none
    Unreadable, \* a record that is not JSON
    Unparsed,   \* the stamp of a record whose timestamp no format fits
    WindowSize, \* TumblingEventTimeWindows
    OutOfOrder, \* maxOutOfOrdernessMs
    Lateness,   \* allowedLatenessMs
    BufferSize, \* openSearchBulkActions
    MayRefuse,  \* OpenSearch may answer with an error
    Stamps,     \* event times
    Traffic,    \* the records that may be in raw-logs
    MaxRecords, \* bound of the partition
    MaxCrashes  \* bound of the failures of the job

ASSUME StreamConstants ==
    /\ Unknown \notin Services
    /\ WindowSize \in Nat \ {0}
    /\ OutOfOrder \in Nat
    /\ Lateness \in Nat
    /\ BufferSize \in Nat \ {0}
    /\ MayRefuse \in BOOLEAN
    /\ Stamps \subseteq Nat /\ IsFiniteSet(Stamps)
    /\ Traffic \subseteq [service : Services \cup {Unknown}, stamp : Stamps \cup {Unparsed}]
                      \cup {Unreadable}
    /\ MaxRecords \in Nat
    /\ MaxCrashes \in Nat

VARIABLES
    log,          \* the partition of raw-logs
    position,     \* the offset the source reads next
    seen,         \* the largest timestamp met, -1 if none
    watermark,    \* what the window operator was told last
    windows,      \* windows[k]: accumulator of a service and window, {} if none
    timers,       \* windows with an event-time timer
    buffer,       \* OpenSearchBulkSink.buffer
    snapshotting, \* the thread is in snapshotState
    pending,      \* snapshots taken and not yet acknowledged, one at most
    checkpoint,   \* the last completed checkpoint
    index,        \* logs-aggregates: the document of each key, {} if none
    crashes,
    \* history: the first three go back with a recovery
    emitted,      \* documents given to the sink
    late,         \* offsets sent to dead-letter-logs as late
    purged,       \* windows whose accumulator was cleared
    reopened,     \* windows that got a record after that
    delivered,    \* documents OpenSearch took
    refused       \* documents OpenSearch answered an error for

operatorVars == <<position, seen, watermark, windows, timers>>
sinkVars     == <<buffer, snapshotting, pending, checkpoint>>
progress     == <<emitted, late, purged>>
outcome      == <<reopened, delivered, refused>>
vars         == <<log, operatorVars, sinkVars, index, crashes, progress, outcome>>

Keys    == Services \X {stamp \div WindowSize : stamp \in Stamps}

\* The document ID: service and window start.
Key(service, stamp) == <<service, stamp \div WindowSize>>
LastStamp(k) == (k[2] + 1) * WindowSize - 1

\* forBoundedOutOfOrderness, and its value before the first record
WatermarkAt(stamp) == stamp - OutOfOrder - 1

Passed(k)  == LastStamp(k) <= watermark
Expired(k) == LastStamp(k) + Lateness <= watermark

\* What a checkpoint holds; watermarks are in none.
Snapshot ==
    [position |-> position, windows |-> windows, timers |-> timers,
     emitted |-> emitted, late |-> late, purged |-> purged]

Init ==
    /\ log = <<>>
    /\ position = 1
    /\ seen = -1
    /\ watermark = WatermarkAt(-1)
    /\ windows = [k \in Keys |-> {}]
    /\ timers = {}
    /\ buffer = <<>>
    /\ snapshotting = FALSE
    /\ index = [k \in Keys |-> {}]
    /\ crashes = 0
    /\ emitted = {}
    /\ late = {}
    /\ purged = {}
    /\ reopened = {}
    /\ delivered = {}
    /\ refused = {}
    /\ pending = {}
    /\ checkpoint = Snapshot

Publish ==
    /\ Len(log) < MaxRecords
    /\ \E r \in Traffic : log' = Append(log, r)
    /\ UNCHANGED <<operatorVars, sinkVars, index, crashes, progress, outcome>>

-----------------------------------------------------------------------------
\* The window operator

Full == Len(buffer) >= BufferSize

DueTimers  == {k \in timers : Passed(k)}
DuePurges  == {k \in Keys : windows[k] # {} /\ Expired(k)}

\* The thread may take the next record, watermark or barrier.
Free == ~Full /\ ~snapshotting /\ DueTimers = {} /\ DuePurges = {}

\* The aggregate goes to the sink's invoke; a full buffer is flushed before
\* anything else happens.
Emit(k, records) ==
    LET document == [key |-> k, records |-> records] IN
    /\ buffer' = Append(buffer, document)
    /\ emitted' = emitted \cup {document}

\* Mutation: a record that comes after its window fired waits for the timer.
NotFiredAgain(k) == UNCHANGED <<timers, buffer, emitted>>

FiredAgain(k) == Emit(k, windows'[k]) /\ UNCHANGED timers

\* ServiceWindowAggregator.add and the trigger: within the allowed lateness a
\* window that has fired fires again for every record.
Count(k) ==
    /\ windows' = [windows EXCEPT ![k] = @ \cup {position}]
    /\ reopened' = IF k \in purged THEN reopened \cup {k} ELSE reopened
    /\ \/ Passed(k) /\ FiredAgain(k)
       \/ ~Passed(k) /\ timers' = timers \cup {k} /\ UNCHANGED <<buffer, emitted>>

\* A record of a known service: late, or counted.
Assign(k) ==
    \/ Expired(k) /\ late' = late \cup {position}
       /\ UNCHANGED <<windows, timers, buffer, emitted, reopened>>
    \/ ~Expired(k) /\ Count(k) /\ UNCHANGED late

\* parseTimestampMs: what no format fits gets the time of day, whatever it is.
EventTimes(r) == IF r.stamp = Unparsed THEN Stamps ELSE {r.stamp}

\* A record that does not decode goes to the dead-letter topic, one without a
\* service is filtered out, after it moved the watermark.
Consume ==
    /\ Free
    /\ position <= Len(log)
    /\ position' = position + 1
    /\ LET r == log[position] IN
       \/ r = Unreadable /\ UNCHANGED <<seen, windows, timers, buffer, emitted, late, reopened>>
       \/ /\ r # Unreadable
          /\ \E stamp \in EventTimes(r) :
                /\ seen' = Max({seen, stamp})
                /\ \/ r.service \in Services /\ Assign(Key(r.service, stamp))
                   \/ r.service = Unknown
                      /\ UNCHANGED <<windows, timers, buffer, emitted, late, reopened>>
    /\ UNCHANGED <<log, watermark, snapshotting, pending, checkpoint, index, crashes,
                   purged, delivered, refused>>

\* Every 200 ms, if it has grown.
AdvanceWatermark ==
    /\ Free
    /\ watermark < WatermarkAt(seen)
    /\ watermark' = WatermarkAt(seen)
    /\ UNCHANGED <<log, position, seen, windows, timers, sinkVars, index, crashes,
                   progress, outcome>>

Fire(k) ==
    /\ ~Full
    /\ k \in DueTimers
    /\ timers' = timers \ {k}
    /\ Emit(k, windows[k])
    /\ UNCHANGED <<log, position, seen, watermark, windows, snapshotting, pending, checkpoint,
                   index, crashes, late, purged, outcome>>

\* Mutation: a window may be cleared before its timer fires.
Outdated == DuePurges

Clearable == DuePurges \ DueTimers

\* WindowOperator.clearAllState, once the allowed lateness is over.
Purge(k) ==
    /\ ~Full
    /\ k \in Clearable
    /\ windows' = [windows EXCEPT ![k] = {}]
    /\ purged' = purged \cup {k}
    /\ UNCHANGED <<log, position, seen, watermark, timers, sinkVars, index, crashes,
                   emitted, late, outcome>>

-----------------------------------------------------------------------------
\* The sink

\* OpenSearch indexes the documents of the request at these places of it, each
\* over the one of the same ID before it.
Index(places) ==
    /\ index' = [k \in Keys |->
                    LET own == {i \in places : buffer[i].key = k}
                    IN  IF own = {} THEN index[k] ELSE buffer[Max(own)].records]
    /\ delivered' = delivered \cup {buffer[i] : i \in places}

\* flush(): the buffer is emptied first, and an answer that is an error, for
\* the request or for documents of it, is logged.
Flush ==
    /\ Full \/ (snapshotting /\ buffer # <<>>)
    /\ buffer' = <<>>
    /\ \E places \in SUBSET DOMAIN buffer :
          /\ places = DOMAIN buffer \/ MayRefuse
          /\ Index(places)
          /\ refused' = refused \cup {buffer[i] : i \in DOMAIN buffer \ places}
    /\ UNCHANGED <<log, operatorVars, snapshotting, pending, checkpoint, crashes, progress,
                   reopened>>

\* The barrier reaches the sink: snapshotState begins.
Barrier ==
    /\ Free
    /\ pending = {}
    /\ snapshotting' = TRUE
    /\ UNCHANGED <<log, operatorVars, buffer, pending, checkpoint, index, crashes, progress,
                   outcome>>

\* Mutation: snapshotState does not flush.
MaybeUnflushed == TRUE

Flushed == buffer = <<>>

\* snapshotState returns: the buffer is empty and the state is saved.
TakeSnapshot ==
    /\ snapshotting
    /\ Flushed
    /\ snapshotting' = FALSE
    /\ pending' = {Snapshot}
    /\ UNCHANGED <<log, operatorVars, buffer, checkpoint, index, crashes, progress, outcome>>

\* The checkpoint completes, or times out and is given up.
EndCheckpoint ==
    /\ pending # {}
    /\ pending' = {}
    /\ checkpoint' \in pending \cup {checkpoint}
    /\ UNCHANGED <<log, operatorVars, buffer, snapshotting, index, crashes, progress, outcome>>

\* The job fails: it is killed, or a request throws, which may have reached
\* OpenSearch all the same; close() then flushes what it can.  It recovers from
\* the last checkpoint and without a watermark.
Fail ==
    /\ crashes < MaxCrashes
    /\ crashes' = crashes + 1
    /\ \E places \in SUBSET DOMAIN buffer : Index(places)
    /\ position' = checkpoint.position
    /\ windows' = checkpoint.windows
    /\ timers' = checkpoint.timers
    /\ emitted' = checkpoint.emitted
    /\ late' = checkpoint.late
    /\ purged' = checkpoint.purged
    /\ seen' = -1
    /\ watermark' = WatermarkAt(-1)
    /\ buffer' = <<>>
    /\ snapshotting' = FALSE
    /\ pending' = {}
    /\ UNCHANGED <<log, checkpoint, reopened, refused>>

OperatorSteps == Consume \/ AdvanceWatermark \/ \E k \in Keys : Fire(k) \/ Purge(k)
SinkSteps     == Flush \/ TakeSnapshot

Next == Publish \/ OperatorSteps \/ SinkSteps \/ Barrier \/ EndCheckpoint \/ Fail

Spec == Init /\ [][Next]_vars

\* The thread goes on, and a checkpoint is started every 30 s whatever comes in.
FairSpec == Spec /\ WF_vars(OperatorSteps \/ SinkSteps) /\ WF_vars(EndCheckpoint) /\ SF_vars(Barrier)

-----------------------------------------------------------------------------
Offsets == 1 .. Len(log)
Documents == [key : Keys, records : SUBSET Offsets]

\* Types; the buffer never holds more than one request, and a timer belongs to
\* a window that has records.
TypeOK ==
    /\ log \in Seq(Traffic)
    /\ position \in 1 .. Len(log) + 1
    /\ seen \in Stamps \cup {-1}
    /\ watermark \in {WatermarkAt(stamp) : stamp \in Stamps \cup {-1}}
    /\ windows \in [Keys -> SUBSET Offsets]
    /\ timers \subseteq {k \in Keys : windows[k] # {}}
    /\ buffer \in Seq(Documents)
    /\ Len(buffer) <= BufferSize
    /\ snapshotting \in BOOLEAN
    /\ index \in [Keys -> SUBSET Offsets]
    /\ late \in SUBSET Offsets
    /\ purged \cup reopened \in SUBSET Keys
    /\ emitted \cup delivered \cup refused \subseteq Documents
    /\ checkpoint.position <= position

\* No log record falls through the windows: what the source is past is in an
\* accumulator, in an aggregate that was emitted, or in the dead-letter topic,
\* unless it cannot be counted at all.  A window is never cleared with records
\* no aggregate has shown.
NothingSkipped ==
    \A o \in 1 .. position - 1 :
        \/ log[o] = Unreadable \/ log[o].service = Unknown
        \/ o \in late
        \/ \E k \in Keys : o \in windows[k] /\ (k \in timers \/ [key |-> k, records |-> windows[k]] \in emitted)
        \/ \E d \in emitted : o \in d.records

\* What the last checkpoint says was emitted will not be emitted again, so it
\* has to be in the index, for good.  Two ways round it: an error OpenSearch
\* answered, and a record that a recovery without watermark lets into a window
\* cleared long ago, whose document it replaces.
IndexKeepsCheckpoint ==
    \A d \in checkpoint.emitted \ refused :
        d.key \notin reopened => d.records \subseteq index[d.key]

\* "The guarantee is at-least-once": every document emitted before the
\* checkpoint has been indexed.
AtLeastOnce == checkpoint.emitted \subseteq delivered

\* A document does not wait in the buffer for ever, however low the traffic.
EmittedIsSettled ==
    emitted # {} ~> emitted \subseteq delivered \cup refused \/ crashes > 0
=============================================================================
