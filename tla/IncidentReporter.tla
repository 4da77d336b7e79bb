--------------------------- MODULE IncidentReporter --------------------------
(***************************************************************************)
(* The incident-reporter process: the consumer loop of main.py over one    *)
(* partition of anomaly-events, IncidentReportPipeline.process and the     *)
(* AlertDispatcher it feeds.  The process may be killed at any point, or   *)
(* told to stop by a signal; both lose what the dispatcher has in memory.  *)
(*                                                                         *)
(* Offsets are numbered from 1.  The consumer commits by itself            *)
(* (enable_auto_commit): from poll(), what earlier polls returned, at most *)
(* once per interval, and once more from close(), which only logs a commit  *)
(* that fails.  When a batch takes longer than max.poll.interval.ms the     *)
(* consumer leaves its group; it can commit no more and its next poll()     *)
(* resumes at the committed offset.                                         *)
(***************************************************************************)
EXTENDS AlertDispatcher

CONSTANTS
    Malformed,  \* a record that is JSON but lacks the fields of an event
    Undecodable,\* a record that is not JSON
    Junk,       \* which of the two may be in the topic
    MaxRetries, \* calls of the model for one report, _MAX_RETRIES
    MaxEvents,  \* bound of the partition
    MaxFaults,  \* bound of the crashes and of the commits of close() that fail
    MaxEvictions, \* bound of the times the consumer overruns its poll interval
    MaxStops    \* bound of the times the process is told to stop

ASSUME ReporterConstants ==
    /\ Malformed # Undecodable
    /\ {Malformed, Undecodable} \cap Services = {}
    /\ Junk \subseteq {Malformed, Undecodable}
    /\ MaxRetries \in Nat \ {0}
    /\ MaxEvents \in Nat
    /\ MaxFaults \in Nat
    /\ MaxEvictions \in Nat
    /\ MaxStops \in Nat

VARIABLES
    partition,  \* the partition: the service of each event, or junk
    committed,  \* the group's committed offset: the next one to read
    stage,      \* where the process is, "down" if it does not run
    running,    \* the flag the signal handler clears
    member,     \* the consumer is a member of its group
    position,   \* the consumer's position: the offset after the last polled
    cursor,     \* the offset of the batch's next message
    event,      \* the offset being processed, 0 if none
    attempt,    \* the calls of the model that failed for its report
    crashes, evictions, stops, failedCommits,
    \* history, read by no action
    rejected,   \* offsets the loop gave up on before there was a report
    swallowed,  \* offsets for which dispatch() raised and the loop went on
    stored,     \* offsets whose report is in incident-reports
    dispatches, \* dispatches[e]: times dispatch() was called for e
    finished,   \* offsets for which a dispatch() ran to its end
    abandoned   \* offsets of batches that a signal cut short, not taken

consumerVars    == <<partition, committed, stage, running, member, position,
                     cursor, event, attempt>>
reporterHistory == <<rejected, swallowed, stored, dispatches, finished, abandoned>>
bounds          == <<crashes, evictions, stops, failedCommits>>
reporterVars    == <<consumerVars, bounds, reporterHistory>>
allVars         == <<vars, reporterVars>>

Offsets == 1..MaxEvents

ReporterInit ==
    /\ Init
    /\ partition = <<>>
    /\ committed = 1
    /\ stage = "poll"
    /\ running = TRUE
    /\ member = TRUE
    /\ position = 1
    /\ cursor = 1
    /\ event = 0
    /\ attempt = 0
    /\ crashes = 0
    /\ evictions = 0
    /\ stops = 0
    /\ failedCommits = 0
    /\ rejected = {}
    /\ swallowed = {}
    /\ stored = {}
    /\ dispatches = [e \in Offsets |-> 0]
    /\ finished = {}
    /\ abandoned = {}

-----------------------------------------------------------------------------
\* The detector publishes an event, or somebody a record that is not one.
Publish ==
    /\ Len(partition) < MaxEvents
    /\ \E s \in Services \cup Junk : partition' = Append(partition, s)
    /\ UNCHANGED <<vars, committed, stage, running, member, position,
                   cursor, event, attempt, bounds, reporterHistory>>

\* The positions poll() may move to: behind records that decode.
Batches ==
    {end \in position .. Len(partition) + 1 :
        \A o \in position .. end - 1 : partition[o] # Undecodable}

\* Mutation: the offset committed is the one after the new batch.
Committing == committed' \in {committed, position'}

MaybeCommit == committed' \in {committed, position}

\* poll(): maybe commit, then a batch of any length, or none in a second.
Poll ==
    /\ stage = "poll" /\ running /\ member
    /\ position' \in Batches
    /\ MaybeCommit
    /\ cursor' = position
    /\ stage' = "batch"
    /\ UNCHANGED <<vars, partition, running, member, event, attempt, bounds, reporterHistory>>

\* Mutation: close() does not commit.
ClosedUncommitted == UNCHANGED <<committed, failedCommits>>

\* close() commits the position, the end of the last batch; what goes wrong with
\* that is logged and the process ends all the same.
CommitAtClose ==
    \/ committed' = (IF member THEN position ELSE committed) /\ UNCHANGED failedCommits
    \/ /\ member /\ crashes + failedCommits < MaxFaults
       /\ failedCommits' = failedCommits + 1
       /\ UNCHANGED committed

\* The finally clause of main(), and the end of the process.
End ==
    /\ CommitAtClose
    /\ stage' = "down"
    /\ Restart
    /\ UNCHANGED <<partition, running, member, position, cursor, event, attempt, crashes,
                   evictions, stops, reporterHistory>>

\* poll() raises on what value_deserializer cannot decode, outside the loop's
\* try: the process ends with the exception.
PollRaises ==
    /\ stage = "poll" /\ running /\ member
    /\ Undecodable \in {partition[o] : o \in position .. Len(partition)}
    /\ End

\* Mutation: the offset to begin at is looked up in the topic, at its start or end.
FirstOffset == 1

NewestOffset == Len(partition) + 1

ResumeOffset == committed

\* poll() of a consumer that left its group: it joins again, its commit fails.
Rejoin ==
    /\ stage = "poll" /\ running /\ ~member
    /\ member' = TRUE
    /\ position' = ResumeOffset
    /\ cursor' = ResumeOffset
    /\ UNCHANGED <<vars, partition, committed, stage, running, event, attempt, bounds,
                   reporterHistory>>

\* The loop over the batch: its end, its break on the flag, its next message.
Take ==
    /\ stage = "batch"
    /\ \/ /\ cursor = position \/ ~running
          /\ stage' = "poll"
          /\ abandoned' = abandoned \cup (cursor .. position - 1)
          /\ UNCHANGED <<cursor, event>>
       \/ /\ cursor < position /\ running
          /\ stage' = "process"
          /\ event' = cursor
          /\ cursor' = cursor + 1
          /\ UNCHANGED abandoned
    /\ UNCHANGED <<vars, partition, committed, running, member, position, attempt, bounds,
                   rejected, swallowed, stored, dispatches, finished>>

\* process(): enrich() raises on a record without the fields of an event.  On
\* JSON that is no object, the loop itself does; it logs either and goes on.
Reject ==
    /\ stage = "process"
    /\ partition[event] = Malformed
    /\ rejected' = rejected \cup {event}
    /\ stage' = "batch"
    /\ event' = 0
    /\ UNCHANGED <<vars, partition, committed, running, member, position, cursor, attempt, bounds,
                   swallowed, stored, dispatches, finished, abandoned>>

\* enrich(): every query that fails gives its default, so that what is an event
\* always comes through.
Enrich ==
    /\ stage = "process"
    /\ partition[event] # Malformed
    /\ stage' = "generate"
    /\ UNCHANGED <<vars, partition, committed, running, member, position, cursor, event, attempt,
                   bounds, reporterHistory>>

\* _call_with_retry: a connection error, timeout, rate limit or server error is
\* followed by a pause and another call.
Retry ==
    /\ stage = "generate"
    /\ attempt + 1 < MaxRetries
    /\ attempt' = attempt + 1
    /\ UNCHANGED <<vars, partition, committed, stage, running, member, position, cursor, event,
                   bounds, reporterHistory>>

\* generate(): the model answered, or the fallback report takes the place of an
\* answer that is not JSON, an error not worth a retry, or the last attempt's.
Generate ==
    /\ stage = "generate"
    /\ stage' = "store"
    /\ attempt' = 0
    /\ UNCHANGED <<vars, partition, committed, running, member, position, cursor, event,
                   bounds, reporterHistory>>

\* store(): a failure is logged only, and a write that timed out may have been
\* made; the document's ID is the event's, so that a second one replaces it.
Store ==
    /\ stage = "store"
    /\ stored' \in {stored, stored \cup {event}}
    /\ stage' = "dispatch"
    /\ UNCHANGED <<vars, partition, committed, running, member, position, cursor, event, attempt,
                   bounds, rejected, swallowed, dispatches, finished, abandoned>>

\* uuid4(): a report_id not used before.
NewReportId == CHOOSE r \in Reports : info[r] = NoReport

\* The call of dispatch().  The severity is what the model answered, or the
\* event's own in a fallback report.  Reports attempt, bounds the calls.
CallDispatch ==
    /\ stage = "dispatch"
    /\ \E r \in Reports : info[r] = NoReport
    /\ \E severity \in Severities, oncall \in OncallChannels, address \in OncallAddresses :
          Dispatch(NewReportId, partition[event], severity, oncall, address)
    /\ dispatches' = [dispatches EXCEPT ![event] = @ + 1]
    /\ stage' = "dispatching"
    /\ UNCHANGED <<partition, committed, running, member, position, cursor, event, attempt, bounds,
                   rejected, swallowed, stored, finished, abandoned>>

\* dispatch() raises before it has done anything: the model's answer goes into
\* the report unchecked, and get_rule looks a list or an object up in a dict.
\* The loop logs the exception and goes on with the next message.
DispatchRaises ==
    /\ stage = "dispatch"
    /\ swallowed' = swallowed \cup {event}
    /\ stage' = "batch"
    /\ event' = 0
    /\ UNCHANGED <<vars, partition, committed, running, member, position, cursor, attempt, bounds,
                   rejected, stored, dispatches, finished, abandoned>>

\* dispatch() returns.
Dispatched ==
    /\ stage = "dispatching"
    /\ pc = "idle"
    /\ finished' = finished \cup {event}
    /\ stage' = "batch"
    /\ event' = 0
    /\ UNCHANGED <<vars, partition, committed, running, member, position, cursor, attempt, bounds,
                   rejected, swallowed, stored, dispatches, abandoned>>

-----------------------------------------------------------------------------
\* SIGTERM or SIGINT: only the flag changes.
Stop ==
    /\ stage # "down"
    /\ running
    /\ stops < MaxStops
    /\ stops' = stops + 1
    /\ running' = FALSE
    /\ UNCHANGED <<vars, partition, committed, stage, member, position, cursor, event, attempt,
                   crashes, evictions, failedCommits, reporterHistory>>

\* The loop ends.
Close ==
    /\ stage = "poll" /\ ~running
    /\ End

\* max.poll.interval.ms runs out during a batch: the heartbeat thread leaves
\* the group, the loop goes on and does not notice.
Evict ==
    /\ stage \notin {"down", "poll"}
    /\ member
    /\ evictions < MaxEvictions
    /\ evictions' = evictions + 1
    /\ member' = FALSE
    /\ UNCHANGED <<vars, partition, committed, stage, running, position, cursor, event, attempt,
                   crashes, stops, failedCommits, reporterHistory>>

Crash ==
    /\ stage # "down"
    /\ crashes + failedCommits < MaxFaults
    /\ crashes' = crashes + 1
    /\ stage' = "down"
    /\ event' = 0
    /\ attempt' = 0
    /\ Restart
    /\ UNCHANGED <<partition, committed, running, member, position, cursor,
                   evictions, stops, failedCommits, reporterHistory>>

\* The process is started again and resumes at the committed offset.
Start ==
    /\ stage = "down"
    /\ stage' = "poll"
    /\ running' = TRUE
    /\ member' = TRUE
    /\ position' = ResumeOffset
    /\ cursor' = ResumeOffset
    /\ UNCHANGED <<vars, partition, committed, event, attempt, bounds, reporterHistory>>

ReporterSteps ==
    \/ Poll \/ PollRaises \/ Rejoin \/ Take
    \/ Reject \/ Enrich \/ Retry \/ Generate \/ Store
    \/ CallDispatch \/ DispatchRaises \/ Dispatched

ReporterNext ==
    \/ Publish
    \/ ReporterSteps
    \/ DispatchSteps /\ UNCHANGED reporterVars
    \/ Clock /\ UNCHANGED reporterVars
    \/ Stop \/ Close \/ Evict \/ Crash \/ Start

ReporterSpec == ReporterInit /\ [][ReporterNext]_allVars

\* The process always takes its next step, a start included when it is down; a
\* broker that is polled again and again returns what there is.
ReporterFairness ==
    /\ SF_allVars(Poll /\ position' # position)
    /\ WF_allVars(\/ ReporterSteps \/ Close \/ Start
                  \/ DispatchSteps /\ UNCHANGED reporterVars)

FairReporterSpec == ReporterSpec /\ ReporterFairness

-----------------------------------------------------------------------------
Stages == {"down", "poll", "batch", "process", "generate", "store", "dispatch", "dispatching"}

\* Types, and the offsets in order: what is committed has been polled, unless
\* the process restarted, and the batch lies between.
ReporterTypeOK ==
    /\ partition \in Seq(Services \cup Junk)
    /\ committed \in 1 .. Len(partition) + 1
    /\ position \in committed .. Len(partition) + 1
    /\ cursor \in 1 .. position
    /\ stage # "down" => committed <= cursor
    /\ stage \in Stages
    /\ running \in BOOLEAN
    /\ member \in BOOLEAN
    /\ event \in 0 .. Len(partition)
    /\ event # 0 <=> stage \notin {"down", "poll", "batch"}
    /\ attempt \in 0 .. MaxRetries - 1
    /\ attempt # 0 => stage = "generate"
    /\ rejected \cup swallowed \cup stored \cup finished \cup abandoned \subseteq 1 .. Len(partition)

\* At least once, as far as it goes: an offset is committed only when its event
\* was rejected or went through dispatch() to the end, wherever the process is
\* killed or leaves its group.  There are two ways round: a signal breaks the
\* loop and close() commits the rest of the batch, and an exception of
\* dispatch() is swallowed, its event committed with the others.
CommittedIsHandled ==
    \A e \in 1 .. committed - 1 : e \in rejected \cup finished \cup swallowed \cup abandoned

\* An event is dispatched once, and once more for every time the process was
\* killed, overran its poll interval or ended with a commit that failed: a stop
\* whose commit the broker took duplicates no alert.
DuplicatesAreExplained ==
    \A e \in Offsets : dispatches[e] <= 1 + crashes + evictions + failedCommits

\* Whatever is published is handled in the end, crashes, evictions and restarts
\* included, unless dispatch() raised on it, a signal cut its batch short or the
\* partition holds a record that poll() raises on.
EveryEventHandled ==
    \A e \in Offsets :
        e \in DOMAIN partition ~>
            \/ e \in rejected \cup finished \cup swallowed \cup abandoned
            \/ Undecodable \in Range(partition)
=============================================================================
