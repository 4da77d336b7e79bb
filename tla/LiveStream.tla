------------------------------ MODULE LiveStream ------------------------------
(***************************************************************************)
(* GET /api/stream/anomalies: one consumer of anomaly-events per replica   *)
(* of the API, a bus with one bounded queue per client, and the generator  *)
(* that feeds each client (src/api/routers/stream.py).                     *)
(*                                                                         *)
(* A replica is one asyncio loop, so that a step is what runs from one     *)
(* await or yield to the next.  A client is a slot for one connection at a *)
(* time.  The consumer group is Kafka's, modelled from how                 *)
(* kafka_consumer_task uses it.                                            *)
(***************************************************************************)
EXTENDS Integers, Sequences, FiniteSets

CONSTANTS
    Replicas,   \* processes of the API, members of the group api-sse
    Partitions, \* of anomaly-events
    Services,
    NotJSON,    \* a message that json.loads refuses
    NoFilter,   \* the request has no ?service=
    Clients,
    NoReplica,  \* the owner of a partition nobody is assigned
    NoRequest,  \* of a client that has not connected
    Filters,    \* what the clients filter by
    QueueSize,  \* asyncio.Queue(maxsize=256)
    MaxMessages, \* bound of a partition
    MaxFailures  \* bound of the failures of consumers and replicas

ASSUME StreamConstants ==
    /\ NotJSON \notin Services
    /\ NoFilter \notin Services
    /\ NoReplica \notin Replicas
    /\ NoRequest \notin [host : Replicas, filter : Filters]
    /\ Filters \subseteq Services \cup {NoFilter}
    /\ IsFiniteSet(Clients)
    /\ QueueSize \in Nat \ {0}
    /\ MaxMessages \in Nat
    /\ MaxFailures \in Nat

\* The offset of a partition the group never committed
NoOffset == 0

VARIABLES
    topic,     \* topic[p]: what was published
    committed, \* committed[p]: the offset the group resumes at
    owner,     \* owner[p]: the member the partition is assigned to
    position,  \* position[p]: the offset its owner reads next
    consumer,  \* consumer[r]: "down" with its process, "starting", "reading"
    bus,       \* bus[r]: the clients whose queue is in _FanoutBus._queues
    gauge,     \* gauge[r]: ACTIVE_SSE_CONNECTIONS
    request,   \* request[c]: the replica that serves it, and its filter
    task,      \* task[c]: where the generator of the client is
    queue,     \* queue[c]: its asyncio.Queue
    gone,      \* clients that closed their connection
    sent,      \* history: sent[c], the messages yielded to it
    heard,     \* history: heard[c], what was published on the bus it subscribed to
    fanned,    \* history: messages published on any bus
    skipped,   \* history: messages that auto_offset_reset="latest" passed by
    failures

groupVars   == <<topic, committed, owner, position, skipped>>
replicaVars == <<consumer, bus, gauge, fanned>>
clientVars  == <<request, task, queue, gone, sent, heard>>
vars        == <<groupVars, replicaVars, clientVars, failures>>

Kinds    == Services \cup {NotJSON}
Messages == Partitions \X (1 .. MaxMessages)

\* Where a generator may be suspended; "accepted", not begun yet, and "greeting",
\* its first yield, are outside its try.
Begun == {"greeting", "checking", "waiting", "yielded"}
Live  == {"accepted"} \cup Begun

Open(c)   == task[c] \in Live
HostOf(c) == request[c].host
Members   == {r \in Replicas : consumer[r] = "reading"}

Init ==
    /\ topic = [p \in Partitions |-> <<>>]
    /\ committed = [p \in Partitions |-> NoOffset]
    /\ owner = [p \in Partitions |-> NoReplica]
    /\ position = [p \in Partitions |-> 1]
    /\ consumer = [r \in Replicas |-> "starting"]
    /\ bus = [r \in Replicas |-> {}]
    /\ gauge = [r \in Replicas |-> 0]
    /\ request = [c \in Clients |-> NoRequest]
    /\ task = [c \in Clients |-> "none"]
    /\ queue = [c \in Clients |-> <<>>]
    /\ gone = {}
    /\ sent = [c \in Clients |-> <<>>]
    /\ heard = [c \in Clients |-> <<>>]
    /\ fanned = {}
    /\ skipped = {}
    /\ failures = 0

-----------------------------------------------------------------------------
(* The topic and the consumer group.                                         *)

Produce(p) ==
    /\ Len(topic[p]) < MaxMessages
    /\ \E kind \in Kinds : topic' = [topic EXCEPT ![p] = Append(@, kind)]
    /\ UNCHANGED <<committed, owner, position, skipped, replicaVars, clientVars, failures>>

\* Where a partition is read from when it is assigned: auto_offset_reset="latest"
Resume(p, offset) == IF offset = NoOffset THEN Len(topic[p]) + 1 ELSE offset

\* The members change.  Each one gives its partitions up, committing its
\* positions where that succeeds, and every partition goes to one of them.
Rebalance(members) ==
    \E saved \in SUBSET {p \in Partitions : owner[p] # NoReplica} :
        /\ committed' = [p \in Partitions |-> IF p \in saved THEN position[p] ELSE committed[p]]
        /\ owner' \in IF members = {} THEN [Partitions -> {NoReplica}] ELSE [Partitions -> members]
        /\ position' = [p \in Partitions |-> Resume(p, committed'[p])]
        /\ skipped' = IF members = {} THEN skipped
                      ELSE skipped \cup {m \in Messages :
                               committed'[m[1]] = NoOffset /\ m[2] <= Len(topic[m[1]])}
        /\ UNCHANGED topic

\* Mutant: what was fetched is committed, not what was consumed.
Fetched(p) == Len(topic[p]) + 1

Consumed(p) == position[p]

AutoCommit(p) ==
    /\ owner[p] # NoReplica
    /\ committed' = [committed EXCEPT ![p] = Consumed(p)]
    /\ UNCHANGED <<topic, owner, position, skipped, replicaVars, clientVars, failures>>

-----------------------------------------------------------------------------
(* kafka_consumer_task and _FanoutBus.publish.                               *)

\* consumer.start() returns; while it raises, the task sleeps and tries again.
StartConsumer(r) ==
    /\ consumer[r] = "starting"
    /\ consumer' = [consumer EXCEPT ![r] = "reading"]
    /\ Rebalance(Members \cup {r})
    /\ UNCHANGED <<bus, gauge, fanned, clientVars, failures>>

\* The loop raises: consumer.stop(), a pause, and another start.
ConsumerFails(r) ==
    /\ consumer[r] = "reading"
    /\ failures < MaxFailures
    /\ failures' = failures + 1
    /\ consumer' = [consumer EXCEPT ![r] = "starting"]
    /\ Rebalance(Members \ {r})
    /\ UNCHANGED <<bus, gauge, fanned, clientVars>>

\* Mutant: queues without a maxsize.
NeverFull(r) == {}

FullQueues(r) == {c \in bus[r] : Len(queue[c]) = QueueSize}

\* Mutant: the full queue loses this message and its client stays in the bus.
NoneRemoved(r) == {}

Removed(r) == FullQueues(r)

\* Mutant: queues that give the last message first.
PutInFront(c, message) == <<message>> \o queue[c]

Put(c, message) == Append(queue[c], message)

\* The next message is put in the queue of every client of the bus; one whose
\* queue is full is taken out of the bus.  There is no await in between.
Publish(r, p) ==
    /\ consumer[r] = "reading"
    /\ owner[p] = r
    /\ position[p] <= Len(topic[p])
    /\ LET message == <<p, position[p]>>
       IN  /\ queue' = [c \in Clients |-> IF c \in bus[r] \ FullQueues(r)
                                          THEN Put(c, message) ELSE queue[c]]
           /\ bus' = [bus EXCEPT ![r] = @ \ Removed(r)]
           /\ heard' = [c \in Clients |-> IF task[c] # "none" /\ HostOf(c) = r
                                          THEN Append(heard[c], message) ELSE heard[c]]
           /\ fanned' = fanned \cup {message}
    /\ position' = [position EXCEPT ![p] = @ + 1]
    /\ UNCHANGED <<topic, committed, owner, skipped, consumer, gauge, request, task, gone, sent,
                   failures>>

-----------------------------------------------------------------------------
(* The route and its generator, _event_stream.                               *)

\* bus.subscribe(), before the response exists
Connect(c, r) ==
    /\ task[c] = "none"
    /\ consumer[r] # "down"
    /\ \E filter \in Filters :
           request' = [request EXCEPT ![c] = [host |-> r, filter |-> filter]]
    /\ task' = [task EXCEPT ![c] = "accepted"]
    /\ bus' = [bus EXCEPT ![r] = @ \cup {c}]
    /\ UNCHANGED <<groupVars, consumer, gauge, fanned, queue, gone, sent, heard, failures>>

\* The generator runs to its first yield.
Begin(c) ==
    /\ task[c] = "accepted"
    /\ task' = [task EXCEPT ![c] = "greeting"]
    /\ gauge' = [gauge EXCEPT ![HostOf(c)] = @ + 1]
    /\ UNCHANGED <<groupVars, consumer, bus, fanned, request, queue, gone, sent, heard, failures>>

\* The chunk is written, the loop comes round to is_disconnected().
Resumed(c) ==
    /\ task[c] \in {"greeting", "yielded"}
    /\ task' = [task EXCEPT ![c] = "checking"]
    /\ UNCHANGED <<groupVars, replicaVars, request, queue, gone, sent, heard, failures>>

\* What a connection leaves when its generator has ended
Forgotten(ended) ==
    /\ request' = [c \in Clients |-> IF c \in ended THEN NoRequest ELSE request[c]]
    /\ task' = [c \in Clients |-> IF c \in ended THEN "none" ELSE task[c]]
    /\ queue' = [c \in Clients |-> IF c \in ended THEN <<>> ELSE queue[c]]
    /\ sent' = [c \in Clients |-> IF c \in ended THEN <<>> ELSE sent[c]]
    /\ heard' = [c \in Clients |-> IF c \in ended THEN <<>> ELSE heard[c]]
    /\ gone' = gone \ ended

\* Mutant: the finally clause forgets the bus.
StillSubscribed(c) == bus[HostOf(c)]

Unsubscribed(c) == bus[HostOf(c)] \ {c}

\* The finally clause
Finish(c) ==
    /\ gauge' = [gauge EXCEPT ![HostOf(c)] = @ - 1]
    /\ bus' = [bus EXCEPT ![HostOf(c)] = Unsubscribed(c)]
    /\ Forgotten({c})
    /\ UNCHANGED <<groupVars, consumer, fanned, failures>>

FindDisconnected(c) ==
    /\ task[c] = "checking"
    /\ c \in gone
    /\ Finish(c)

AwaitMessage(c) ==
    /\ task[c] = "checking"
    /\ task' = [task EXCEPT ![c] = "waiting"]
    /\ UNCHANGED <<groupVars, replicaVars, request, queue, gone, sent, heard, failures>>

\* What is not JSON, or not of the service asked for, is passed over.
Wanted(c, m) ==
    LET kind == topic[m[1]][m[2]]
    IN  kind # NotJSON /\ request[c].filter \in {NoFilter, kind}

Get(c) ==
    /\ task[c] = "waiting"
    /\ queue[c] # <<>>
    /\ queue' = [queue EXCEPT ![c] = Tail(@)]
    /\ \/ /\ Wanted(c, Head(queue[c]))
          /\ task' = [task EXCEPT ![c] = "yielded"]
          /\ sent' = [sent EXCEPT ![c] = Append(@, Head(queue[c]))]
       \/ /\ ~Wanted(c, Head(queue[c]))
          /\ task' = [task EXCEPT ![c] = "checking"]
          /\ UNCHANGED sent
    /\ UNCHANGED <<groupVars, replicaVars, request, gone, heard, failures>>

\* wait_for gives up after 25 s and a heartbeat is yielded; a message put at
\* that moment stays in the queue.
Heartbeat(c) ==
    /\ task[c] = "waiting"
    /\ task' = [task EXCEPT ![c] = "yielded"]
    /\ UNCHANGED <<groupVars, replicaVars, request, queue, gone, sent, heard, failures>>

Disconnect(c) ==
    /\ Open(c)
    /\ c \notin gone
    /\ gone' = gone \cup {c}
    /\ UNCHANGED <<groupVars, replicaVars, request, task, queue, sent, heard, failures>>

\* The server cancels the response of a client that left.  A generator that
\* did not begin is never run, and one whose greeting is being written is
\* closed at a yield outside its try: neither reaches the finally clause.
Cancel(c) ==
    /\ c \in gone
    /\ \/ /\ \/ task[c] = "accepted" /\ task' = [task EXCEPT ![c] = "unstarted"]
             \/ task[c] = "greeting" /\ task' = [task EXCEPT ![c] = "abandoned"]
          /\ UNCHANGED <<groupVars, replicaVars, request, queue, gone, sent, heard, failures>>
       \/ /\ task[c] \in {"checking", "waiting", "yielded"}
          /\ Finish(c)

-----------------------------------------------------------------------------
(* The process.                                                              *)

\* It ends, by its lifespan or killed, and everything it held goes with it.
StopReplica(r) ==
    /\ consumer[r] # "down"
    /\ failures < MaxFailures
    /\ failures' = failures + 1
    /\ consumer' = [consumer EXCEPT ![r] = "down"]
    /\ IF r \in Members THEN Rebalance(Members \ {r}) ELSE UNCHANGED groupVars
    /\ bus' = [bus EXCEPT ![r] = {}]
    /\ gauge' = [gauge EXCEPT ![r] = 0]
    /\ Forgotten({c \in Clients : task[c] # "none" /\ HostOf(c) = r})
    /\ UNCHANGED fanned

StartReplica(r) ==
    /\ consumer[r] = "down"
    /\ consumer' = [consumer EXCEPT ![r] = "starting"]
    /\ UNCHANGED <<groupVars, bus, gauge, fanned, clientVars, failures>>

GroupStep(p)  == Produce(p) \/ AutoCommit(p) \/ \E r \in Replicas : Publish(r, p)
ReplicaStep(r) == StartConsumer(r) \/ ConsumerFails(r) \/ StopReplica(r) \/ StartReplica(r)
ClientStep(c) ==
    \/ \E r \in Replicas : Connect(c, r)
    \/ Begin(c) \/ Resumed(c) \/ FindDisconnected(c) \/ AwaitMessage(c) \/ Get(c) \/ Heartbeat(c)
    \/ Disconnect(c) \/ Cancel(c)

Next ==
    \/ \E p \in Partitions : GroupStep(p)
    \/ \E r \in Replicas : ReplicaStep(r)
    \/ \E c \in Clients : ClientStep(c)

Spec == Init /\ [][Next]_vars

-----------------------------------------------------------------------------
(* Properties.                                                               *)

Tasks == Live \cup {"none", "unstarted", "abandoned"}

\* Every variable has its type, and no partition is read by a replica whose
\* consumer is not up.
TypeOK ==
    /\ topic \in [Partitions -> Seq(Kinds)]
    /\ committed \in [Partitions -> 0 .. MaxMessages + 1]
    /\ owner \in [Partitions -> Members \cup {NoReplica}]
    /\ \A p \in Partitions : position[p] \in 1 .. Len(topic[p]) + 1
    /\ consumer \in [Replicas -> {"down", "starting", "reading"}]
    /\ bus \in [Replicas -> SUBSET Clients]
    /\ gauge \in [Replicas -> Nat]
    /\ request \in [Clients -> [host : Replicas, filter : Filters] \cup {NoRequest}]
    /\ task \in [Clients -> Tasks]
    /\ \A c \in Clients : task[c] = "none" <=> request[c] = NoRequest
    /\ queue \in [Clients -> Seq(Messages)]
    /\ \A c \in Clients : Len(queue[c]) <= QueueSize
    /\ gone \subseteq Clients
    /\ sent \in [Clients -> Seq(Messages)]
    /\ heard \in [Clients -> Seq(Messages)]
    /\ fanned \subseteq Messages
    /\ skipped \subseteq Messages
    /\ failures \in 0 .. MaxFailures

\* The client was sent what it wants of the first messages it heard, all of it
\* and in their order: place gives each message sent its place among them.
WasSent(c, read) ==
    \E place \in [DOMAIN sent[c] -> 1 .. read] :
        /\ \A i, j \in DOMAIN sent[c] : i < j => place[i] < place[j]
        /\ \A i \in DOMAIN sent[c] : sent[c][i] = heard[c][place[i]]
        /\ \A k \in 1 .. read :
               Wanted(c, heard[c][k]) <=> \E i \in DOMAIN sent[c] : place[i] = k

\* What a connected client was sent, and what waits in its queue, is one
\* unbroken stretch of what its replica published since it subscribed, less
\* what it does not want; while the client is in the bus the stretch is
\* complete.  A slow client falls behind and never has a gap in the middle
\* (publish, stream.py:52-61, and the loop, 133-156): it does not lose "this
\* message", as stream.py:58 says, but all from this one on.
InOrder ==
    \A c \in Clients : Open(c) =>
        \E read, put \in 0 .. Len(heard[c]) :
            /\ WasSent(c, read)
            /\ queue[c] = SubSeq(heard[c], read + 1, put)
            /\ c \in bus[HostOf(c)] => put = Len(heard[c])

\* The gauge counts the generators that began and did not reach their finally
\* clause, and a connection that did is in no bus and has no queue: what is left
\* behind is only what was cancelled before its loop (stream.py:129-130,
\* 159-161, 191).
Accounted ==
    \A r \in Replicas :
        LET served == {c \in Clients : task[c] # "none" /\ HostOf(c) = r}
        IN  /\ bus[r] \subseteq served
            /\ gauge[r] = Cardinality({c \in served : task[c] \in Begun \cup {"abandoned"}})

\* Whatever the group's offset is past was published on the bus of a replica,
\* unless "latest" had passed it by: enable_auto_commit commits a position
\* only while the message before it is out, whatever fails or is rebalanced
\* (stream.py:79-95).
CommittedIsFanned ==
    \A m \in Messages : m[2] < committed[m[1]] => m \in fanned \cup skipped

\* "A background task fans each message out to every connected client via its
\* own asyncio.Queue" (stream.py:6-8): a message that is published reaches the
\* queue of every client that is connected to a replica whose consumer is up,
\* and has room for it.
EveryClientIsServed ==
    [][\A c \in Clients :
           (/\ fanned' # fanned
            /\ Open(c) /\ consumer[HostOf(c)] = "reading"
            /\ Len(queue[c]) < QueueSize)
               => Len(queue'[c]) = Len(queue[c]) + 1]_vars
===============================================================================
