# TLA+ models of the log monitoring platform

This directory holds TLA+ modules for the parts of the platform that carry its
logic, the TLC configurations that check them on small instances, and proofs of
the properties that matter most, checked by TLAPS for every value of the
constants. `PROJECT.json` maps each definition to the lines it models and lists
the runs, the mutants, the hazards, the findings and the theorems.

Contents: 1 the system, 2 the modules, 3 the runs, 4 what is proved,
5 what the models leave out, 6 where the code and its documentation part,
7 the plan.

## 1. The system

```
log-generator, Fluent Bit --> raw-logs --> Flink job --> logs-aggregates (OpenSearch)
                                              |
                                        processed-logs (events and aggregates)
                                              |
                                       anomaly-detector <----------- Redis: baselines, forests,
                                              |                            cooldowns, storm
                                        anomaly-events
                                         |          |
                          incident-reporter      API: live stream, rate limit, queries
                           |      |     |
                     OpenSearch Slack PagerDuty
```

The components talk through Kafka topics and share Redis; nothing else is
common to two processes.

| component (source) | state it keeps | operations | what is hard | what makes it correct |
|---|---|---|---|---|
| Flink job (`flink-log-processor`) | source position, watermark, window accumulators and timers, the sink's buffer, checkpoints; the index outside | normalise a record, assign it to a window, fire, fire again, clear, flush, snapshot, recover | records out of order and late; a crash anywhere between barriers; a sink that buffers outside the checkpoint | every countable record is in an aggregate, in a window still to fire, or in the dead letters; what a checkpoint calls emitted is in the index |
| window accumulator (`WindowAccumulator`, `ServiceWindowAggregator`, `WindowResultFunction`) | counters, a reservoir of 10 000 latencies, a bounded map of error messages | `add`, the result of a window with percentiles and top errors | random replacement; a map that evicts its rarest entry, maybe the newcomer; a sum of all divided by a sample's size | the result says what is true of the window, exactly while nothing overflows |
| detector loop (`anomaly-detector/main.py`, `pipeline.py`, `events/emitter.py`) | position and committed offset, the batch, the shutdown flag, the producer's buffer | iterate over `processed-logs`, `process_window`, send, signals, `close` and `flush` | commits by the iterator, a batch left in the middle, an exception that ends the process, the end of the topic as the beginning, two sides that name a field differently | no window committed unseen, none counted twice without a fault, no event lost but by an answer or a kill |
| two-tier detector (`detection/`, `baseline/`) | Redis: `first_seen`, baseline hashes, sample sets, training set, model, `last_trained` | `detect()`: about fifteen round trips to Redis per window and metric | replicas and a read-modify-write without a lock; keys that expire between two commands; two keys for one model | no alert in the cold start; the count belongs to the values; only an overtaken update is lost; a stamp has a model |
| alert suppressor (`suppression/`, `pipeline.py`, `events/`) | Redis: cooldown key per service, sorted set of alerting services, storm slot | `check_and_suppress`, `clear_storm`, emission of the event | checks and writes in separate round trips, pipelines without transactions, keys Redis evicts or loses, a replica that dies between a write and `producer.send` | no repeat under one cooldown, one announced incident per storm, no service silenced unnamed |
| rate limiter (`alert_router/rate_limiter.py`) | timestamps per service, in memory, under a lock | `check_and_record`, `current_count`, `reset`, `reset_all` | the clock is read before the lock is taken, lazy purging, the boundary of the hour | never more than N alerts in an hour, wherever it starts, by calls that lie in it |
| dispatcher, router, digest, notifiers (`alert_router/`) | digest buffer in memory; Slack and PagerDuty outside | `dispatch`, `send_digest`, `send_all_digests` | each channel may fail, one has nobody who serves it; digests are flushed by another thread than the one that adds | one channel's failure costs no other channel; a queued report is not lost silently |
| incident reporter (`incident-reporter/main.py`, `pipeline.py`) | position and committed offset, batch at hand, everything of the dispatcher | `poll`, `process` (enrich, generate with retries, store), `dispatch`, signals, `close` | offsets committed by `poll()` and `close()`, commits that fail, exceptions that are swallowed, crashes, evictions from the group, records that do not decode | no event committed before it is through, but for the losses the code has; a duplicate has a reason; everything readable is handled |
| live stream (`api/routers/stream.py`) | a bus with one bounded queue per client, a gauge, the consumer | publish, connect, get, heartbeat, disconnect, cancel, restart | cancellation at any await, full queues, replicas in one consumer group | no gap in what a client gets; nothing left in the bus or the gauge; no message committed before it is on the bus |
| API limit and acknowledgements (`api/middleware.py`, `routers/anomalies.py`) | Redis: a sorted set per subject, the loaded script, `ack:` keys; the SHA in the process | the middleware with its Lua script, `acknowledge_alert` | the clock is read before the script runs; EXISTS and SET are two commands; a restart of Redis forgets the script | no more than the limit per window; nobody refused for nothing; whoever comes after an acknowledgement is told |
| not modelled: PII scrubber, texts of reports and messages, API queries, silencing, log generator, Fluent Bit, deployment | see section 5 | | | |

## 2. The modules

| module | models | state and actions |
|---|---|---|
| `AlertPolicy` | what the suppressor promises: quiet periods opened once, one opener per storm | abstract; nothing of Redis |
| `AlertSuppressor` | `check_and_suppress` as `process_window` calls it | keys with a TTL are the time they expire at; one action per Redis command, named by the command; `pc[w]` is the command sent next; `Evict` is a key that goes before its time |
| `RateLimiter` | `RateLimiter` | `ReadClock` is the call up to the lock, one action per method what it does under it; threads come between |
| `AlertDispatcher` (extends `RateLimiter`) | `AlertDispatcher`, `AlertRouter`, `DigestBuffer`, `SlackNotifier`, `PagerDutyClient` | one action per external call, so that a failure or a second thread comes between any two |
| `IncidentReporter` (extends `AlertDispatcher`) | `main()`, `IncidentReportPipeline`, the retry loop of `ClaudeReportGenerator`, the store | `stage` is the place in the loop; the dispatcher's actions are steps of the same process; `Crash`, `Evict`, `Stop` come at any of them |
| `StreamProcessor` | `StreamingJob`, `LogNormalizationFunction`, the window operator, `OpenSearchBulkSink` | one task thread; an aggregate is the set of offsets it counts |
| `WindowAccumulator` | the Java class of that name, `ServiceWindowAggregator.add`, `WindowResultFunction.process` | operators, no state: a random draw or the order of a hash map gives a set of outcomes |
| `DetectorLoop` (extends `WindowAccumulator`) | windows that fire into `processed-logs`, `main()` of the detector, the emitter | `stage` is the place in `main()`; the records are those the window operator wrote, with the percentile `_extract_features` reads |
| `TwoTierDetector` | `TwoTierDetector`, `ZScoreDetector`, `IsolationForestDetector`, `BaselineManager` | one action per round trip; a baseline is the set of windows folded into it and a count; a model the windows it was fitted on |
| `LiveStream` | `kafka_consumer_task`, `_FanoutBus`, `_event_stream`, the lifespan | one action per stretch between two awaits or yields |
| `ApiRequests` | `RateLimitMiddleware`, `acknowledge_alert` | one action per await; the Lua script is one step, as Redis runs it |
| `MC*` | the instances TLC checks: symmetry and sets too large for a cfg | |
| `*Proofs` | the theorems of the module of that name; `AlertDispatcherProofs` has those of `RateLimiter` too | |

How they compose: `IncidentReporter` extends `AlertDispatcher`, which extends
`RateLimiter`; the reporter's run is a run of all three, and it is proved that
each implements the one it extends. `DetectorLoop` puts the accumulator of the
stream processor, the topic and the detector together, which is where the two
sides' idea of a record meets. `AlertSuppressor` implements `AlertPolicy` by
`INSTANCE ... WITH`. The other components meet only in Kafka, and each models
its side of the topic (a partition, an offset that is committed or not).

Variables marked *history* are read by no action: they record what was granted,
tried, emitted, or told, so that a property can speak of it.

Definitions that begin with a comment *Mutant* or *Mutation* are plausible bugs.
No specification uses them. Each stands before the definition it would replace,
and every property of a passing run is violated when one of them does.

## 3. The runs

Passing runs:

| run | instance | shows |
|---|---|---|
| `suppressor_race` | two services, two replicas, threshold 0, keys and window of lifetime 2, a storm slot of 1, in a clock of 3, one fault: a call that fails half-way or a key lost early | `OncePerCooldown`, `StormAnnounced`, `NoMissedAlert`, and that the replicas implement `AlertPolicy` |
| `dispatcher_failures` | one service, two reports, limit 1, window 1, clock to 3, three kinds of severity, an on-call channel and address or none, either notifier or both, every call may fail, a second thread in the limiter, digests sent by another, a restart at any point | `EveryChannelTried`, `QueuedIsKept`, `QueuedOnlyWhenFull`, `WindowExact`, `RateBound` |
| `reporter` | two records, events or junk, one crash or one commit of `close()` that fails, one eviction, one signal, two calls of the model, any `dispatch()` may raise | `CommittedIsHandled`, `DuplicatesAreExplained`, and `EveryEventHandled` under fairness |
| `stream` | three records of one service, stamps in two windows, one of them just late, unreadable and nameless records, a buffer of two, one failure, OpenSearch may refuse | `NothingSkipped`, `IndexKeepsCheckpoint`, and `EmittedIsSettled` under fairness |
| `window_handoff` | four records of the topic, events with and without a latency, one kill or failed commit, signals at will; windows of up to five events over a reservoir of three and a map of two | `CommittedIsLookedAt`, `RepeatsAreExplained`, `NoEventLostAlone`, `LatenciesAreTrue`, `TopErrorsAreTrue`, and `EveryWindowLookedAt` under fairness |
| `detector` | two replicas, one metric, three windows, keys of lifetime 2 and samples of 1 in a clock of 2, one window given up anywhere | `ColdStartHolds`, `CountIsExact`, `NothingLostAlone`, `HashOutlivesSamples`, `StampedIsStored` |
| `live_stream` | one replica, one client at a time, with or without a filter, three messages of two services or not JSON, queues of two, one failure or restart | `InOrder`, `Accounted`, `CommittedIsFanned` |
| `api_requests` | two requests at a time, limit 2, window 3, lag 1, clock to 4, one restart of Redis or the replica | `WindowLimit`, `RefusedOnlyWhenFull`, `OnlyOverlappingAcksAreFirst` |

Violation runs check one sentence of the documentation each; section 6 says what
they show: `suppressor_missed_alert`, `detector_sees_no_window`,
`stream_sink_loses`, `live_stream_replicas`.

`TypeField` is the JSON field that holds the type of an aggregate. The code's
value is `"recordType"`, and `detector_sees_no_window` runs with it. Under it no
window ever gets past `main()`'s first test (`NoWindowIsSeen`). `window_handoff` has
`"RECORD_TYPE"`, the name `main()` asks for, so that everything behind that
test is checked too: it is what the loop does once the two sides agree.

**Bounds.** Every bound is a constant whose name begins with `Max`, or the finite
set a cfg gives (`MaxSamples` and `MaxMessages` of the accumulator are the code's own
limits, 10 000 and 500 there; one of the three durations of `window_handoff` is
negative, as nothing in the code keeps a duration from being). They are chosen so that the interesting case happens. Two
replicas and two services are what a race for the storm slot needs. The
threshold of `suppressor_race` is 0, where one service makes a storm, so that two
are enough for every case of more services and a higher threshold: a winner that
finds another service in the window but no longer its own, and a loser the winner
did not see. A clock of
three passes the end of every key of lifetime two with one tick to act in. A
limiter's clock passes three windows. A topic of four records holds a window
that fired twice, or two windows, with events in between; a reservoir of three
and a map of two overflow in streams of five. A buffer of two fills and is also found
half full by a barrier. A queue of two has an order, and the third message finds
it full; a filter takes some of the three and leaves others. One client is
connected, since a second one shares with it the bus and the gauge only; the
theorems have any number of them. A second thread of the limiter is enough for a
call that waits for the lock while the list is purged by a later clock. The limit of
requests is two under a window longer than the lag, so that a stretch of more
than one tick is looked at. Six report IDs in the reporter are as many as two
events with a crash or a failed commit, and an eviction, can use.
The reporter's run has one severity and one thread in the limiter: the rest is
the dispatcher's run. The mutants show that the instances
are large enough to break each property. In the two smallest of the API's
instances (`live_stream`, `api_requests`) one replica runs: what a second would
add to a property of them is the loss described in section 6, and a second
cached SHA.

**Deadlock** is checked in every passing run but `detector`, where the windows
and the clock end.

**Fairness.** Safety is checked without any. Two specifications have some:

- `FairReporterSpec`: the loop of `main()` goes on and the process is restarted
  when it is down (`restart: unless-stopped`, and the Deployment of the chart):
  weak fairness of the process's next step, whichever it is (a step of the loop,
  of `dispatch()`, `Close` or `Start`; one of them is possible at a time or the
  process waits in `poll()`). `poll()` returns records if there are any: strong
  fairness of a `Poll` that moves the position. Nothing is assumed of digests,
  signals, evictions, crashes or failed commits, which are bounded.
- `FairLoopSpec` of `DetectorLoop`: the detector is restarted (the same restart
  policy), a poll returns records if there are any, the loop goes on, and the
  broker answers every send. Weak fairness is enough: nothing but a kill, which
  is bounded, takes a step away again.
- `FairSpec` of `StreamProcessor`: the task thread goes on; a checkpoint is
  started every 30 s (`enableCheckpointing`), whatever comes in between (strong
  fairness of `Barrier`), and is answered in the end.

The others promise nothing that must happen.

## 4. What is proved

All theorems hold for any sets of services and replicas and any values of the
other constants that satisfy the named `ASSUME`, whatever the bound of the clock.

**`AlertSuppressorProofs`**, from `SuppressorConstants` (lifetimes are positive,
the two null values are outside their sets):

- `TypeCorrect`: the types, by one step per action.
- `NoRepeatInCooldown` (`OncePerCooldown`). It is not inductive alone: it
  says nothing of a worker that is in a call and has no service. The
  inductive invariant `SuppressorInv` is `TypeOK`, *a worker in a call has a
  service*, and `OncePerCooldown`. The step that matters is `SetCooldown`: it
  adds the worker to those that recorded the service and moves that worker past
  the record, while every other worker in front of its own SET was not in the
  set, or belongs to an older key, which is replaced.
- `SuppressorImplementsPolicy` (`KeepsPolicy`). The mapping takes a quiet period
  to the cooldown key, its raises to a count of the SETs each worker ran in its life, the
  storm period to the slot, its announcers to the workers about to emit a storm
  incident. `StepKeepsPolicy` maps `SetCooldown` to `OpenQuiet` or `RaiseAgain`,
  by whether the key is alive; `WinStorm` to `OpenStorm`; `Emit` and `Abort` to
  `Announce` or a stutter; `Tick` and `ClearStorm` to `Pass` and `CloseStorm`;
  `Evict` to `CutShort`, `CloseStorm` or a stutter; the rest to stutters.
  `RaiseAgain` asks that the worker did not raise in this period before, which is where `OncePerCooldown` is needed. Raises are counted,
  so that a second one changes the mapped state: it would be a step, and no step of
  the policy takes a count from one to two. A cooldown check that reads the TTL by the
  replica's clock makes TLC find just that.
- `StormIsAnnounced` (`StormAnnounced`), inductive with the types.
- `SilenceIsExplained` (`NoMissedAlert`), from `AnswerInv`. `NoMissedAlert` lets
  any worker answer for a silenced service, which no single step preserves: the
  worker relied on may emit and leave. `AllAnswered` names the one that counts:
  the worker whose SET opened the key, and it only (`Answers`). Its part
  `Unjudged` says that no verdict of an earlier call is left when that SET is
  sent. The proof found that an earlier form of the property was wrong: it
  let only losers of the slot and failures silence a service, which two services
  under a threshold of one could not refute, and three refute without a fault:
  a winner whose own entry has left the window names the others but not itself.
  `dropped` counts it now, and the instance was changed to show it.

**`AlertDispatcherProofs`**, from the assumptions of the limiter and the
dispatcher (one of them, `NoReportIsNoRoute`, says that the null value is not a
routing decision).

- `LimiterTypeCorrect`, `WindowsAreExact`, `RateIsBounded` from one invariant,
  `LimiterInv`: the types, that windows and history are finite (a cardinality
  says nothing of an infinite set), `WindowExact` and `RateBound`. A call purges
  by the clock it read, which is no later than now, so that it drops nothing that
  counts now (`RecentShrinks`: what is recent later was recent before), and the
  list says exactly what was granted in the last window (`WindowExact`), whatever
  order the threads come in. The argument of `GrantKeepsBound`: if the new entry
  is in the hour, the hour has not ended, so that everything in it is recent
  now, in the list, and was counted.
  `RateBound` counts an alert in an hour if its call read the clock and left the
  lock in it. The bound by the reading alone (no more than the limit with
  readings in one window) is false of the code: a thread that reads its clock and
  waits for the lock while another one purges by a later clock no longer finds the
  entries its own window has. On the instance of `dispatcher_failures` TLC finds
  it: readings at 1 and 2 under a limit of one and a window of one, with a purge by
  another thread's reading of 3 in between. The second call left the lock at 3,
  after the hour that began at 1, and `RateBound` does not count it.
- `DispatcherUsesLimiter`: `Spec` implies `LimiterSpec`, because every step of
  the dispatcher is one of the limiter or leaves it alone (`StepsOfLimiter`).
  `DispatcherKeepsRate` and `DispatcherWindowsExact` follow.
- `DispatcherTypeCorrect`, `DigestKeepsQueued`, `ChannelsAreTried`,
  `QueuedWhenFull` from `DispatcherInv`. `EveryChannelTried` speaks of reports
  that are done; `Progress` says the same of the one at hand: what was tried and
  what is still in `targets` are together what the routing asks for and somebody
  serves (`Asked` without `Unserved`). The e-mail of a P1 or P2 is asked for and
  served by nobody; the property names it, so that it cannot be overlooked.

**`IncidentReporterProofs`** (extends the above), from `ReporterConstants`:

- `ReporterUsesDispatcher`: `ReporterSpec` implies `Spec`; so what is proved of
  the dispatcher holds in the process, `ReporterTriesChannels` among it.
- `ReporterTypeCorrect`, `AtLeastOnce`, `NoOtherDuplicates` from `ReporterInv`:
  `Decoded` (the batch is made of records that decode), `Behind` (everything
  before the cursor is handled, or lost in one of the two ways `CommittedIsHandled`
  names, but the event in hand) and `Counted` (what is at or behind the cursor was
  dispatched by earlier runs only, each ended by a fault: a crash, an eviction, which
  counts before it is noticed, or a commit of `close()` that failed).

**`DetectorLoopProofs`**, from `LoopConstants` and `AccumulatorConstants`:

- `LoopTypeCorrect`, `RepeatsAreFaults`, `EventsAreSettled` from `LoopInv`. The
  part that is not a type is `Repeats`: what is at or behind the position, or
  the committed offset once the process is past its commit, was looked at once
  less than what is before it.
- `CommittedWasLookedAt`, for either `TypeField`: what `main()` recognises as a
  window (`Recognised`) is not committed unseen, and nothing else is ever looked
  at (`Accounted`, `OnlyRecognised`). What it recognises depends on the name:
  all aggregates if the two sides agree, none as the code is, and
  `NoWindowIsSeen` says so: with `"recordType"` no record is ever given to
  `process_window`.
- `LatenciesReportedAreTrue` and `TopErrorsReportedAreTrue`: what the two
  invariants say of streams of up to `MaxStream` events is proved of streams of
  any length (`LatenciesAreSound`, `TopErrorsAreSound`), for any durations,
  messages, reservoir, map and K. `EveryWindowIsTrue` ties them to the loop: in
  every state the accumulator is what some stream leaves.
  `After` is a recursive function over the places of the stream. The library's
  induction takes an operator and cannot be used, so each induction is by the
  least place where the claim fails (`LeastNat`), both for the existence of the
  function (`AfterExists`, `TotalExists`) and for what it yields
  (`WindowIsFaithful`). The invariant of an `Add` has two parts. `CountsTrue`: no
  message is counted above its errors so far, and as long as the messages that
  occurred fit in the map, it is exactly their counts; an eviction shows that they
  do not fit. `SamplesTrue`: the reservoir has `min(seen, MaxSamples)` samples, all
  of them durations of the stream, and until it is full every duration as
  often as the stream has it, said by counting the ones up to any value.
  `PercentileFound` rests on `RankTaken`: the places of a sort are an injection of
  a finite set into itself, hence every rank is taken.

**`StreamProcessorProofs`**, from `StreamConstants`: `StreamTypeCorrect`,
`RecordsAreCounted`, `CheckpointIsIndexed` from `StreamInv`. A recovery takes
the state back to a checkpoint, so an invariant of the state alone is not
inductive: the same predicate, `Sound`, is said of the operator's snapshot now,
of the one that is not acknowledged, and of the last checkpoint. `Preserved`
says of the two saved ones that what they emitted is in the index. That a
later document never takes a record away needs `Growing` (aggregates of a window
grow until it is cleared), `Ordered` (the buffer has a window's documents in the
order of their emission) and `Carried`. `LastPlace`, that `Max` of a finite set
of numbers is its largest, comes from the well-foundedness of finite subsets.

**`TwoTierDetectorProofs`**, from `DetectorConstants`: `DetectorTypeCorrect`,
`CountsAreExact`, `NoAlertInColdStart`, `StampsHaveModels` from `DetectorInv`;
`LossesAreContended` and `HashesOutlive` from it with their own. `CountIsExact`
needs that no window is folded twice (`Unfolded`: a replica's window is in no
baseline, stored or read by another replica, before it is written), which needs
that replicas have different windows (`Distinct`). `Aged` carries the reading
of `is_learning` to the verdict.

**`LiveStreamProofs`**, from `StreamConstants` (the clients are finitely many):
`LiveTypeCorrect`, `CommittedWasFanned`, `ConnectionsAccounted` from `LiveInv`.
`SeenBefore` adds to the committed offsets the positions of the members, since
a rebalance commits those. `MoveKeeps` is the step of every generator
that moves between places the gauge does not tell apart.
`StreamInOrder` (`InOrder`) is from `OrderInv`, which has for every open client
two places in what its replica published: the one its generator has read to and
the one its queue ends at (`Stretch`). Both exist in every state and move apart
with a publication, together with a read; a client that falls out of the bus
keeps the second where it is. `WasSent` gives each message sent its place in
what was heard, rather than filtering one sequence into another; what a client
wants of a message it heard never changes, because topics only grow
(`TopicGrows`). Before it subscribes a client has nothing (`Blank`).

**`ApiRequestsProofs`**, from `ApiConstants`: `RequestTypeCorrect`,
`WindowIsLimited`, `OnlyOverlappingAcks`, `NoneRefusedEarly` from `RequestInv`.
`Kept` and `Backed` relate the sorted set to the history in both directions: what
was granted stays in it as long as it may count, and what is in it was granted
or is too old for any request still on its way. `NoneRefusedEarly` looks from
one window before the request's clock to the longest lag after it: the script
counts what overtook the request, later clocks included.

**Only model-checked**: liveness (`EveryEventHandled`, `EmittedIsSettled`,
`EveryWindowLookedAt`), which is out of TLAPS's reach under fairness. Every
safety invariant and action property of a passing run is also a theorem. No
module of the project declares a RECURSIVE operator.

## 5. What the models leave out

- **Data.** A log record is a service and a stamp; an event is its service; a
  report is an ID; a window's features are the window's number. z-scores, the
  forest's verdict and the model's answer are free choices. Message texts, PII
  patterns, prompts and payloads are not modelled: no property is about them.
- **Flink.** Timers, lateness, barriers and recovery are Flink's and modelled
  from how the job sets them up; the watermark is not part of a checkpoint. One
  partition at parallelism one. A snapshot that fails in its synchronous phase
  is a failure of the job (`Fail`). The three Kafka sinks are Flink's own.
  `WindowAccumulator.merge` is left out: tumbling windows never call it (it would
  add `totalLatencyMs` twice, once by itself and once in `addLatency`).
- **Numbers.** Sums and counts of a window are integers without a width: a long
  holds every sum of fewer than 2^31 durations below 2^32 ms. `Rank` is in
  integers; the doubles of the code round to the same ranks for every number of
  samples up to 10 000, the most there are.
- **Redis.** Keys are lost by expiry, by DELETE, in `ApiRequests` by a restart,
  and in `AlertSuppressor` by eviction (`allkeys-lru`) one at a time. Eviction is
  left out of `TwoTierDetector`: any baseline may vanish there by its TTL, but an
  evicted model with its stamp left behind would keep tier 2 silent for a week,
  and `StampedIsStored` holds without it only. The replicas and Redis read one
  clock. The TTL of the API's window is longer than everything in it and so
  needs no state.
- **Detector loop.** One service, one partition, one replica. A rebalance is a
  kill or a restart to it. What the verdict is, and whether the suppressor lets
  it through, is one free choice of `ProcessWindow`; the two modules for them
  say how it is made.
- **Suppressor and detector apart.** `AlertSuppressor` starts where the detector
  has a verdict; `TwoTierDetector` ends there. A window delivered again, as
  `DetectorLoop` shows it may be, counts as another window. The samples' sorted
  sets are written and never read by the code, so that only their TTL is kept. A service that comes back after its
  baseline expired has no new cold start, since `first_seen` has no TTL; the
  property `ColdStartHolds` counts from `first_seen`, as the code does.
- **Reporter.** `NewReportId` picks an unused ID, where the code draws a random
  UUID. `DispatchRaises` is an exception before `dispatch()` has done anything,
  where the severity is looked up; what comes after it catches its own. The
  deployed process has one thread that calls the limiter. The queries of
  enrichment each fall back to a default and so never stop
  an event. `Reports` bounds the calls of `dispatch`.
- **PagerDuty.** `notify` resolves an incident below a z-score of 1.5; the
  detector emits none below 3, so that branch is dead and left out.
- **E-mail.** A routing decision has its recipients, and no code sends anything to
  them; the model has the decision and no such step.
- **Live stream.** A client is a slot for one connection at a time. The consumer
  group is Kafka's: a rebalance may give a partition to any member and commits
  may fail. The task keeps the `AIOKafkaConsumer` it stopped and calls `start()`
  on it again, which that library does not promise to work: `StartConsumer` may
  happen or, since nothing is fair in this module, never. A message that is JSON but no object raises
  in the generator, which ends as `Cancel` does. A generator cancelled before its
  `try` never reaches its `finally`: its queue stays in the bus until it is full
  and, after the greeting, the gauge stays one too high. `Accounted` says that
  nothing else is left behind.
- **API.** Queries read only. `silence_service` sets a key that nothing but the
  list of services reads. A request without a valid token changes nothing.
- **Digest scheduler.** `dispatcher_failures` lets a second thread call
  `send_digest` and `send_all_digests`, as `dispatcher.py` invites. `main.py`
  has no such thread and the reporter's run has none either: there, what is
  rate-limited stays in the buffer until the process ends.

## 6. Where the code and its documentation part

- `suppressor_missed_alert`: the loser of the storm slot has set its cooldown,
  and the winner may have read the window before the loser joined it. No event
  names the loser's service. `NoMissedAlert` in `suppressor_race`, and
  `SilenceIsExplained` for every instance, show what else can do so: a call that
  fails, a winner whose own entry left the window before it read it, and nothing
  more.
- `detector_sees_no_window`: the detector looks for the field `RECORD_TYPE`,
  which is the name of a constant of `ServiceWindowAggregate`; Jackson writes the
  property of `getRecordType()` as `recordType`. Every aggregate is passed over
  and committed.
- `stream_sink_loses`: a bulk request that OpenSearch answers with an error is
  logged and dropped while the checkpoint completes; nothing is replayed.
- `live_stream_replicas`: the API's replicas share one consumer group and each
  knows only its own bus, so that a message reaches the clients of one replica.

Divergences met on the way that no run of their own shows:

- `stream.py:58` says of a client whose queue is full "drop this message for them
  rather than block". The code takes the queue out of the bus (:59-61): the client
  loses this message and every later one, while it stays connected and gets its
  heartbeats. What the comment describes is the mutant `NoneRemoved`, which
  `InOrder` refuses because it leaves a gap. That the client is silent for good is
  not a violation of `InOrder`, which speaks of what it was sent.
- `middleware.py:22` says "Atomic — no race conditions". The script is; the clock
  it is given was read before it (:98), so that requests overtake one another
  between the two, and `WindowLimit` holds of a window shorter by the longest lag only.
- `rate_limiter.py:4` says "Thread-safe via a per-instance lock". The clock is read
  before the lock (:48, :67): with several threads an hour of readings may hold
  more than the limit (section 4, `RateIsBounded`).
- `rules.py:3-4` and `SEVERITY_RULES` send P1 and P2 by e-mail, and `dispatch()`
  returns the e-mail among its `channels_dispatched` (`dispatcher.py:119`). No
  code sends one. `EveryChannelTried` says that it is the one channel asked for
  and never tried.
- `rules.py:43` says "Fallback for any unrecognised severity". A list or an
  object in the model's answer is passed on as it is (`claude_client.py:127`) and
  cannot be looked up: `get_rule` raises, `main.py:153-157` logs it, and the
  event's offset is committed with the others. `CommittedIsHandled` and
  `EveryEventHandled` make an exception for such events (`swallowed`).
- `close()` of the reporter's consumer commits, and only logs a commit that fails
  (`main.py:159`): a clean stop may repeat the events of the last batches.
  `DuplicatesAreExplained` counts those stops.
- A signal breaks the loop of the reporter in the middle of a batch, and
  `close()` commits the end of it (`incident-reporter/main.py:127-138`): the
  "draining consumer" of the log message drains nothing. `CommittedIsHandled`
  makes an exception for these events.
- `kafka/consumer-groups/anomaly-detector.properties` describes a group that
  commits after its write to `anomaly-events` and begins at the earliest offset;
  `main()` commits by itself and begins at the latest.
- `ServiceWindowAggregate.java:16-20` asks consumers to treat a late firing as an
  upsert. It is one in the index; to the detector it is another record, and the
  window is folded into its baselines again.
- The average latency of a window is the sum of all latencies over the number
  of samples kept, too far from zero beyond 10 000 (`LatenciesAreTrue` says how
  far it can be trusted).
- `events/models.py:12` says that the z-score of a system-wide incident is 0.0;
  `build_storm_event` gives it the one of the service that won the slot.

Things the models show that no document denies: the limit of the API is that of
a window shorter by the time a request takes from its clock to the script, and
requests of one millisecond with one random number count once; after a restart
of Redis every authenticated request fails until a replica is started anew,
while the health check says ok. `StreamingJob.java:169` calls `.sideOutputTag`,
which is no method of the Flink API; the model takes it for `sideOutputLateData`,
as the comment above it means it.

## 7. The plan

Done, the most important behaviour first: the suppressor with evictions, its
policy and their proofs; limiter, dispatcher and reporter, each proved to
implement the one below; stream processor; window accumulator and detector
loop; detector; live stream; API limit and acknowledgements; and for each of
them the proofs of section 4.

Left:

1. Eviction in `TwoTierDetector`, with the weaker `StampedIsStored` that holds.
2. Two replicas in `ApiRequests`, with the one that starts healing the other,
   and in `DetectorLoop`, with a rebalance between them.
3. A digest scheduler, once the program has one.
