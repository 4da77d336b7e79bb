-------------------------- MODULE WindowAccumulator --------------------------
(***************************************************************************)
(* What a one-minute window of the stream processor keeps and reports:     *)
(* WindowAccumulator, ServiceWindowAggregator.add and                      *)
(* WindowResultFunction.process.                                           *)
(*                                                                         *)
(* Two choices are not the program's own: the slot the reservoir replaces  *)
(* is drawn at random, and which of the rarest messages is evicted is up   *)
(* to the order of a HashMap.  An operation that makes one gives the set   *)
(* of its outcomes.  A message is a number that stands for its first       *)
(* MAX_MESSAGE_LENGTH characters; numbers are ordered as the texts are.    *)
(***************************************************************************)
EXTENDS Integers, Sequences, FiniteSets

CONSTANTS
    Latencies,     \* any number: no duration is refused, be it negative
    NoLatency,     \* the null of an event without latencyMs, or of a percentile
    Messages,
    Blank,         \* a message that is null or blank
    MaxSamples,    \* MAX_LATENCY_SAMPLES
    MaxMessages,   \* MAX_ERROR_MESSAGES
    TopErrorsK,    \* TOP_ERRORS_K
    MaxStream      \* bound of the events of a window the properties look at

ASSUME AccumulatorConstants ==
    /\ Latencies \subseteq Int
    /\ Messages \subseteq Nat
    /\ NoLatency \notin Int
    /\ Blank \notin Messages
    /\ {MaxSamples, MaxMessages, TopErrorsK} \subseteq Nat \ {0}
    /\ MaxStream \in Nat

Levels == {"error", "warning", "info"}

Events == [level : Levels, message : Messages \cup {Blank},
           latency : Latencies \cup {NoLatency}]

\* samples is the filled part of the reservoir, seen is latencyTotal.
EmptyAccumulator ==
    [total |-> 0, errors |-> 0, warnings |-> 0, latencySum |-> 0, seen |-> 0,
     samples |-> <<>>, counts |-> [m \in {} |-> 0]]

-----------------------------------------------------------------------------
\* addLatency: Algorithm R, the draw is among the values seen and this one.
AddLatency(acc, latency) ==
    LET counted == [acc EXCEPT !.latencySum = @ + latency, !.seen = @ + 1] IN
    IF Len(acc.samples) < MaxSamples
    THEN {[counted EXCEPT !.samples = Append(@, latency)]}
    ELSE {[counted EXCEPT !.samples = IF i <= MaxSamples THEN [@ EXCEPT ![i] = latency] ELSE @] :
             i \in 1 .. acc.seen + 1}

\* Mutation: the map is full one entry early.
FullEarly(counts) == Cardinality(DOMAIN counts) >= MaxMessages

Overfull(counts) == Cardinality(DOMAIN counts) > MaxMessages

Rarest(counts) == {m \in DOMAIN counts : \A n \in DOMAIN counts : counts[m] <= counts[n]}

\* addErrorMessage: the newcomer is counted before the rarest entry is evicted,
\* and may be that entry itself.
AddErrorMessage(acc, message) ==
    LET old == acc.counts
        counts == [m \in DOMAIN old \cup {message} |->
                      (IF m \in DOMAIN old THEN old[m] ELSE 0) + (IF m = message THEN 1 ELSE 0)]
    IN  IF message = Blank THEN {acc}
        ELSE IF Overfull(counts)
        THEN {[acc EXCEPT !.counts = [m \in DOMAIN counts \ {r} |-> counts[m]]] :
                 r \in Rarest(counts)}
        ELSE {[acc EXCEPT !.counts = counts]}

\* ServiceWindowAggregator.add
Add(acc, event) ==
    LET counted == [acc EXCEPT !.total = @ + 1,
                               !.errors = @ + (IF event.level = "error" THEN 1 ELSE 0),
                               !.warnings = @ + (IF event.level = "warning" THEN 1 ELSE 0)]
        named == IF event.level = "error" THEN AddErrorMessage(counted, event.message)
                                          ELSE {counted}
    IN  IF event.latency = NoLatency THEN named
        ELSE UNION {AddLatency(a, event.latency) : a \in named}

-----------------------------------------------------------------------------
\* Mutation: the rank is taken for an index that begins at zero.
RankFromZero(n, pct) == (pct * n) \div 100 + 1

\* ceil(pct / 100 * n), as a position that begins at one; the doubles of the
\* code round to the same integers for every n up to MAX_LATENCY_SAMPLES.
Rank(n, pct) == (pct * n + 99) \div 100

\* Where a sort puts the i-th sample
SortedAt(samples, i) ==
    Cardinality({j \in DOMAIN samples :
        samples[j] < samples[i] \/ (samples[j] = samples[i] /\ j <= i)})

Percentile(samples, pct) ==
    samples[CHOOSE i \in DOMAIN samples : SortedAt(samples, i) = Rank(Len(samples), pct)]

\* A quotient of longs is cut off toward zero.
Quotient(a, n) == IF a < 0 THEN -((-a) \div n) ELSE a \div n

\* topK: the higher count first, then the smaller message.
Precedes(counts, m, n) == counts[m] > counts[n] \/ (counts[m] = counts[n] /\ m < n)

TopK(counts) ==
    {m \in DOMAIN counts :
        Cardinality({n \in DOMAIN counts : Precedes(counts, n, m)}) < TopErrorsK}

\* WindowResultFunction.process: percentiles and average are null together.
Result(acc) ==
    LET n == Len(acc.samples)
        OrNull(value) == IF n = 0 THEN NoLatency ELSE value
    IN  [volume |-> acc.total, errors |-> acc.errors, warnings |-> acc.warnings,
         p50 |-> OrNull(Percentile(acc.samples, 50)),
         p95 |-> OrNull(Percentile(acc.samples, 95)),
         p99 |-> OrNull(Percentile(acc.samples, 99)),
         average |-> OrNull(Quotient(acc.latencySum, n)),
         topErrors |-> [m \in TopK(acc.counts) |-> acc.counts[m]]]

-----------------------------------------------------------------------------
\* What the result of a window says of the events that were added to it.

StreamsOf(events) == UNION {[1 .. n -> events] : n \in 0 .. MaxStream}

\* The accumulators a stream of events may leave.
After(stream) ==
    LET after[n \in 0 .. Len(stream)] ==
            IF n = 0 THEN {EmptyAccumulator}
                     ELSE UNION {Add(acc, stream[n]) : acc \in after[n - 1]}
    IN  after[Len(stream)]

Timed == {[level |-> "info", message |-> Blank, latency |-> l] : l \in Latencies \cup {NoLatency}}

Named == [level : {"error", "info"}, message : Messages \cup {Blank}, latency : {NoLatency}]

HasLatency(stream) == {i \in DOMAIN stream : stream[i].latency # NoLatency}

TotalLatency(stream) ==
    LET total[n \in 0 .. Len(stream)] ==
            IF n = 0 THEN 0
            ELSE total[n - 1] + (IF n \in HasLatency(stream) THEN stream[n].latency ELSE 0)
    IN  total[Len(stream)]

\* The events that take at most v
UpTo(stream, v) == Cardinality({i \in HasLatency(stream) : stream[i].latency <= v})

\* Nearest rank by counting: the least value that pct percent do not exceed.
IsNearestRank(value, stream, pct) ==
    LET Enough(v) == UpTo(stream, v) * 100 >= pct * Cardinality(HasLatency(stream))
    IN  /\ Enough(value)
        /\ \A i \in HasLatency(stream) : Enough(stream[i].latency) => value <= stream[i].latency

\* The percentiles and the average of a result against the latencies in stream.
TrueLatencies(r, stream) ==
    LET n == Cardinality(HasLatency(stream))
        total == TotalLatency(stream)
        average == Quotient(total, n)
    IN  IF n = 0
        THEN {r.p50, r.p95, r.p99, r.average} = {NoLatency}
        ELSE /\ r.p50 <= r.p95 /\ r.p95 <= r.p99
             /\ {r.p50, r.p95, r.p99} \subseteq {stream[i].latency : i \in HasLatency(stream)}
             /\ IF total < 0 THEN r.average <= average ELSE r.average >= average
             /\ n <= MaxSamples =>
                   /\ IsNearestRank(r.p50, stream, 50)
                   /\ IsNearestRank(r.p95, stream, 95)
                   /\ IsNearestRank(r.p99, stream, 99)
                   /\ r.average = average

ErrorsOf(stream, m) == {i \in DOMAIN stream : stream[i].level = "error" /\ stream[i].message = m}

Occurring(stream) == {m \in Messages : ErrorsOf(stream, m) # {}}

\* The top errors of a result against the errors in stream.
TrueTopErrors(r, stream) ==
    LET truth == [m \in Occurring(stream) |-> Cardinality(ErrorsOf(stream, m))]
    IN  /\ \A m \in DOMAIN r.topErrors : m \in Occurring(stream) /\ r.topErrors[m] <= truth[m]
        /\ Cardinality(Occurring(stream)) <= MaxMessages =>
              r.topErrors = [m \in TopK(truth) |-> truth[m]]

UntrueLatencies ==
    {stream \in StreamsOf(Timed) : \E acc \in After(stream) : ~TrueLatencies(Result(acc), stream)}

UntrueTopErrors ==
    {stream \in StreamsOf(Named) : \E acc \in After(stream) : ~TrueTopErrors(Result(acc), stream)}
=============================================================================
