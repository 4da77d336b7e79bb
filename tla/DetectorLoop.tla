----------------------------- MODULE DetectorLoop -----------------------------
(***************************************************************************)
(* The hand-off from the windows of the stream processor to the anomaly    *)
(* detector: one service's windows fire, and fire again when late events   *)
(* come, into one partition of processed-logs, where every normalised      *)
(* event goes too; main() of the detector consumes it, gives windows to    *)
(* process_window, and sends the events this returns to anomaly-events.    *)
(*                                                                         *)
(* Offsets are numbered from 1.  The consumer (kafka-python 2.0.2, an      *)
(* iterator) moves its position to the record it yields and commits by     *)
(* itself: when it polls for the next batch, at most once per interval,    *)
(* and when it is closed.                                                  *)
(***************************************************************************)
EXTENDS WindowAccumulator

CONSTANTS
    Traffic,     \* the log events that may be added to a window
    TypeField,   \* the JSON field that holds the type of an aggregate
    NoOffset,    \* what the group has committed before its first commit
    MaxRecords,  \* bound of the partition
    MaxFaults    \* bound of the kills and of the commits that fail at the end

ASSUME LoopConstants ==
    /\ Traffic \subseteq Events
    /\ TypeField \in {"RECORD_TYPE", "recordType"}
    /\ NoOffset \notin Nat
    /\ {MaxRecords, MaxFaults} \subseteq Nat

VARIABLES
    window,      \* the number of the window that is open
    accumulator, \* its accumulator
    fired,       \* whether its timer has fired; late events are let in until it is cleared
    topic,       \* the partition of processed-logs
    committed,   \* the group's committed offset: the next one to read
    stage,       \* where main() is
    stop,        \* _SHUTDOWN
    position,    \* the consumer's position: the next offset it yields
    fetched,     \* the last offset of the batch
    buffer,      \* offsets whose event is in the producer's buffer
    faults,
    \* history, read by no action
    looked,      \* looked[o]: times record o was given to process_window
    dropped,     \* offsets taken with the flag up
    poisoned,    \* offsets whose features could not be read
    missed,      \* offsets before the end of the topic the group began at
    sent,        \* offsets whose event was given to the producer
    settled      \* of those, the ones written, refused by the broker or killed

windowVars  == <<window, accumulator, fired>>
processVars == <<stage, stop, position, fetched, buffer>>
history     == <<looked, dropped, poisoned, missed, sent, settled>>
loopVars    == <<windowVars, topic, committed, processVars, faults, history>>

Offsets == 1 .. MaxRecords

LoopInit ==
    /\ window = 1
    /\ accumulator = EmptyAccumulator
    /\ fired = FALSE
    /\ topic = <<>>
    /\ committed = NoOffset
    /\ stage = "down"
    /\ stop = FALSE
    /\ position = 1
    /\ fetched = 0
    /\ buffer = {}
    /\ faults = 0
    /\ looked = [o \in Offsets |-> 0]
    /\ dropped = {}
    /\ poisoned = {}
    /\ missed = {}
    /\ sent = {}
    /\ settled = {}

-----------------------------------------------------------------------------
\* The stream processor.  Each record of the topic is a normalised event or an
\* aggregate; of this, what main() tells apart.

EventRecord == [type |-> "event"]

Aggregate(a) == [type |-> "aggregate", window |-> window, p99 |-> Result(a).p99]

Write(records) ==
    /\ Len(topic) + Len(records) <= MaxRecords
    /\ topic' = topic \o records
    /\ UNCHANGED <<committed, processVars, faults, history>>

\* An event of the open window.
AddInTime(event) ==
    /\ ~fired
    /\ accumulator' \in Add(accumulator, event)
    /\ Write(<<EventRecord>>)
    /\ UNCHANGED <<window, fired>>

\* The watermark passes the end of the window.
Fire ==
    /\ ~fired
    /\ accumulator.total > 0
    /\ fired' = TRUE
    /\ Write(<<Aggregate(accumulator)>>)
    /\ UNCHANGED <<window, accumulator>>

\* An event within the allowed lateness fires the window again.
AddLate(event) ==
    /\ fired
    /\ accumulator' \in Add(accumulator, event)
    /\ Write(<<EventRecord, Aggregate(accumulator')>>)
    /\ UNCHANGED <<window, fired>>

\* The lateness is over; the next event opens another window.
Clear ==
    /\ fired
    /\ window' = window + 1
    /\ accumulator' = EmptyAccumulator
    /\ fired' = FALSE
    /\ UNCHANGED <<topic, committed, processVars, faults, history>>

-----------------------------------------------------------------------------
\* The detector.

\* A fault this run still has to give.
Fault == faults < MaxFaults /\ faults' = faults + 1

\* main() begins: a group without a commit begins at the end of the topic.
Start ==
    /\ stage = "down"
    /\ stage' = "loop"
    /\ stop' = FALSE
    /\ \/ /\ committed = NoOffset
          /\ position' = Len(topic) + 1
          /\ missed' = 1 .. Len(topic)
       \/ /\ committed # NoOffset
          /\ position' = committed
          /\ UNCHANGED missed
    /\ fetched' = position' - 1
    /\ UNCHANGED <<windowVars, topic, committed, buffer, faults, looked, dropped, poisoned, sent,
                   settled>>

\* Mutation: the commit is one too high.
ConsumedAndNext == position + 1

\* Mutation: a batch counts as consumed once it is fetched.
ConsumedBatch == fetched + 1

\* Mutation: only the first commit of the group succeeds.
ConsumedOnce == IF committed = NoOffset THEN position ELSE committed

\* What the consumer commits: everything it yielded.
Consumed == position

\* The batch is used up: maybe a commit, then another batch of any length, or none.
Poll ==
    /\ stage = "loop"
    /\ position > fetched
    /\ committed' \in {committed, Consumed}
    /\ fetched' \in fetched .. Len(topic)
    /\ UNCHANGED <<windowVars, topic, stage, stop, position, buffer, faults, history>>

\* record.get("RECORD_TYPE") = "SERVICE_WINDOW_AGGREGATE": what an aggregate has
\* under this name is its type only if the serializer wrote it there.
IsWindow(record) == record.type = "aggregate" /\ TypeField = "RECORD_TYPE"

\* The iterator yields a record: the break on the flag, the records that are no
\* windows, _extract_features raising on a null, or process_window.
Take ==
    /\ stage = "loop"
    /\ position <= fetched
    /\ position' = position + 1
    /\ LET record == topic[position] IN
       \/ /\ stop
          /\ stage' = "close_consumer"
          /\ dropped' = dropped \cup {position}
          /\ UNCHANGED poisoned
       \/ /\ ~stop
          /\ ~IsWindow(record)
          /\ UNCHANGED <<stage, dropped, poisoned>>
       \/ /\ ~stop
          /\ IsWindow(record)
          /\ record.p99 = NoLatency
          /\ stage' = "close_consumer"
          /\ poisoned' = poisoned \cup {position}
          /\ UNCHANGED dropped
       \/ /\ ~stop
          /\ IsWindow(record)
          /\ record.p99 # NoLatency
          /\ stage' = "process_window"
          /\ UNCHANGED <<dropped, poisoned>>
    /\ UNCHANGED <<windowVars, topic, committed, stop, fetched, buffer, faults, looked, missed,
                   sent, settled>>

\* process_window: no anomaly, suppressed, an exception that is logged, or an
\* event for the producer.
ProcessWindow ==
    /\ stage = "process_window"
    /\ stage' = "loop"
    /\ looked' = [looked EXCEPT ![position - 1] = @ + 1]
    /\ \/ UNCHANGED <<buffer, sent>>
       \/ /\ buffer' = buffer \cup {position - 1}
          /\ sent' = sent \cup {position - 1}
    /\ UNCHANGED <<windowVars, topic, committed, stop, position, fetched, faults, dropped,
                   poisoned, missed, settled>>

\* The producer's thread gets an answer, the event written or refused; nobody
\* looks at the future.
Deliver(o) ==
    /\ o \in buffer
    /\ buffer' = buffer \ {o}
    /\ settled' = settled \cup {o}
    /\ UNCHANGED <<windowVars, topic, committed, stage, stop, position, fetched, faults, looked,
                   dropped, poisoned, missed, sent>>

\* finally: consumer.close() commits, or logs that it could not.
CloseConsumer ==
    /\ stage = "close_consumer"
    /\ stage' = "close_emitter"
    /\ \/ committed' = Consumed /\ UNCHANGED faults
       \/ UNCHANGED committed /\ Fault
    /\ UNCHANGED <<windowVars, topic, stop, position, fetched, buffer, history>>

\* Mutation: close() without flush().
Dropped == buffer' = {}

Flushed == buffer = {} /\ UNCHANGED buffer

\* emitter.close(): flush() blocks until the buffer is empty.
CloseEmitter ==
    /\ stage = "close_emitter"
    /\ Flushed
    /\ stage' = "down"
    /\ UNCHANGED <<windowVars, topic, committed, stop, position, fetched, faults, history>>

\* SIGTERM or SIGINT: the flag is seen when the next record is yielded.
Signal ==
    /\ stage # "down"
    /\ ~stop
    /\ stop' = TRUE
    /\ UNCHANGED <<windowVars, topic, committed, stage, position, fetched, buffer, faults, history>>

\* The process is killed, with what is in the buffer.
Kill ==
    /\ stage # "down"
    /\ Fault
    /\ stage' = "down"
    /\ buffer' = {}
    /\ settled' = settled \cup buffer
    /\ UNCHANGED <<windowVars, topic, committed, stop, position, fetched, looked, dropped,
                   poisoned, missed, sent>>

Operator == Fire \/ Clear \/ \E e \in Traffic : AddInTime(e) \/ AddLate(e)

Main == Poll \/ Take \/ ProcessWindow \/ CloseConsumer \/ CloseEmitter

LoopNext == Operator \/ Start \/ Main \/ Signal \/ Kill \/ \E o \in Offsets : Deliver(o)

LoopSpec == LoopInit /\ [][LoopNext]_loopVars

\* The process goes on and is restarted when it is down (restart:
\* unless-stopped), a poll returns what there is, the broker answers.
LoopFairness ==
    /\ WF_loopVars(Start)
    /\ WF_loopVars(Poll /\ fetched' # fetched)
    /\ WF_loopVars(Take \/ ProcessWindow \/ CloseConsumer \/ CloseEmitter)
    /\ \A o \in Offsets : WF_loopVars(Deliver(o))

FairLoopSpec == LoopSpec /\ LoopFairness

-----------------------------------------------------------------------------
Stages == {"down", "loop", "process_window", "close_consumer", "close_emitter"}

\* Types, and the offsets in order: what is committed was yielded.
HandoffTypeOK ==
    /\ window \in Nat \ {0}
    /\ fired \in BOOLEAN
    /\ Len(topic) \in 0 .. MaxRecords
    /\ committed \in {NoOffset} \cup 1 .. Len(topic) + 1
    /\ stage \in Stages
    /\ stop \in BOOLEAN
    /\ position \in 1 .. fetched + 1
    /\ fetched \in 0 .. Len(topic)
    /\ committed # NoOffset /\ stage # "down" => committed <= position
    /\ buffer \subseteq sent
    /\ faults \in 0 .. MaxFaults
    /\ looked \in [Offsets -> Nat]
    /\ dropped \cup poisoned \cup missed \cup sent \cup settled \subseteq 1 .. Len(topic)

Windows == {o \in DOMAIN topic : topic[o].type = "aggregate"}

Looked(o) == looked[o] > 0

\* What main() takes for windows.
Recognised == {o \in DOMAIN topic : IsWindow(topic[o])}

\* Commits follow the iterator, so that a batch may be left in the middle, by a
\* signal or an exception, and the rest of it is read again: no window that
\* main() recognises is committed unseen but the one in hand when the flag or a
\* null ended the loop, and what came before the group began.
CommittedIsLookedAt ==
    committed # NoOffset =>
        \A o \in Recognised :
            o < committed => Looked(o) \/ o \in dropped \cup poisoned \cup missed

\* A window is put through the detector again, and counted in its baselines
\* again, only for a kill or a commit that failed: an exception or a signal
\* repeats nothing.
RepeatsAreExplained == \A o \in Offsets : looked[o] <= 1 + faults

\* The consumer is closed, and its offsets committed, before the producer is
\* flushed: an event still leaves the buffer by an answer of the broker or a
\* kill only, and none is left when the process has ended.
NoEventLostAlone ==
    /\ sent \ settled \subseteq buffer
    /\ stage = "down" => buffer = {}

\* A window whose features cannot be read ends the process, but the restarted
\* one goes on behind it: every window is looked at in the end, but that one,
\* one taken with the flag up, and those before the group began.
EveryWindowLookedAt ==
    \A o \in Offsets :
        o \in Windows ~> Looked(o) \/ o \in dropped \cup poisoned \cup missed

\* A window that begins is empty; what follows is said of every stream of up to
\* MaxStream events that may be added to it.
Begins == accumulator = EmptyAccumulator

\* Whatever events come to a window that begins: while the reservoir holds every
\* latency of the window, the percentiles and the average are those of the
\* window.  Beyond, percentiles still are values of the window, in order, but
\* the sum of all is divided by the size of the sample: the average is never
\* too near to zero, and no longer the average.
LatenciesAreTrue == Begins => UntrueLatencies = {}

\* Whatever events come to a window that begins: the error messages reported are
\* never counted too high, and while the map has room for every message of the
\* window they are the most frequent ones with their true counts.  Beyond, a
\* message that comes late may be evicted as often as it comes, however
\* frequent it is.
TopErrorsAreTrue == Begins => UntrueTopErrors = {}

\* "Anomaly detector subscribes here; record type discriminator is
\* ServiceWindowAggregate.RECORD_TYPE" (StreamingJob.java:183-184): an
\* aggregate that was consumed was looked at.
AggregatesAreRecognised ==
    committed # NoOffset =>
        \A o \in Windows : o < committed => Looked(o) \/ o \in dropped \cup poisoned \cup missed
=============================================================================
