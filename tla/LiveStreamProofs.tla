---------------------------- MODULE LiveStreamProofs --------------------------
(***************************************************************************)
(* The live stream, for every number of replicas, partitions, clients and  *)
(* failures, and every queue size.                                         *)
(***************************************************************************)
EXTENDS LiveStream, FiniteSetTheorems, SequenceTheorems, TLAPS

Seen(m) == m \in fanned \cup skipped

\* The group: what lies before the position of a member, or before the
\* committed offset, was seen.
GroupTypes ==
    /\ topic \in [Partitions -> Seq(Kinds)]
    /\ \A p \in Partitions : Len(topic[p]) \in Nat /\ Len(topic[p]) <= MaxMessages
    /\ committed \in [Partitions -> Nat]
    /\ \A p \in Partitions : committed[p] <= Len(topic[p]) + 1
    /\ owner \in [Partitions -> Members \cup {NoReplica}]
    /\ position \in [Partitions -> Nat]
    /\ \A p \in Partitions : 1 <= position[p] /\ position[p] <= Len(topic[p]) + 1
    /\ skipped \subseteq Messages

SeenBefore ==
    \A m \in Messages :
        /\ m[2] < committed[m[1]] => Seen(m)
        /\ owner[m[1]] # NoReplica /\ m[2] < position[m[1]] => Seen(m)

ReplicaTypes ==
    /\ consumer \in [Replicas -> {"down", "starting", "reading"}]
    /\ bus \in [Replicas -> SUBSET Clients]
    /\ gauge \in [Replicas -> Nat]
    /\ fanned \subseteq Messages
    /\ failures \in 0 .. MaxFailures

ClientTypes ==
    /\ request \in [Clients -> [host : Replicas, filter : Filters] \cup {NoRequest}]
    /\ task \in [Clients -> Tasks]
    /\ \A c \in Clients : task[c] = "none" <=> request[c] = NoRequest
    /\ gone \subseteq Clients

QueueTypes ==
    /\ queue \in [Clients -> Seq(Messages)]
    /\ \A c \in Clients : Len(queue[c]) <= QueueSize
    /\ sent \in [Clients -> Seq(Messages)]
    /\ heard \in [Clients -> Seq(Messages)]

\* The clients a replica serves, and those its gauge counts.
Served(r) == {c \in Clients : task[c] # "none" /\ HostOf(c) = r}

InGauge(r) == {c \in Served(r) : task[c] \in Begun \cup {"abandoned"}}

Gauged == \A r \in Replicas : bus[r] \subseteq Served(r) /\ gauge[r] = Cardinality(InGauge(r))

LiveInv == GroupTypes /\ SeenBefore /\ ReplicaTypes /\ ClientTypes /\ QueueTypes /\ Gauged

-----------------------------------------------------------------------------
LEMMA LiveInvInit == Init => LiveInv
<1> SUFFICES ASSUME Init PROVE LiveInv
  OBVIOUS
<1> USE StreamConstants DEF Init
<1>1. <<>> \in Seq(Kinds) /\ <<>> \in Seq(Messages) /\ Len(<<>>) = 0
  BY EmptySeq
<1>2. GroupTypes
  BY <1>1 DEF GroupTypes, NoOffset
<1>3. SeenBefore
  <2> SUFFICES ASSUME NEW m \in Messages
               PROVE  committed[m[1]] = 0 /\ owner[m[1]] = NoReplica /\ m[2] \in Nat /\ ~(m[2] < 0)
    BY DEF SeenBefore
  <2>1. m[1] \in Partitions /\ m[2] \in 1 .. MaxMessages
    BY DEF Messages
  <2> QED
    BY <2>1 DEF NoOffset
<1>4. ReplicaTypes
  BY DEF ReplicaTypes
<1>5. ClientTypes
  BY DEF ClientTypes, Tasks
<1>6. QueueTypes
  BY <1>1 DEF QueueTypes
<1>7. Gauged
  <2>1. \A r \in Replicas : InGauge(r) = {}
    BY DEF InGauge, Served
  <2> QED
    BY <2>1, FS_EmptySet DEF Gauged
<1> QED
  BY <1>2, <1>3, <1>4, <1>5, <1>6, <1>7 DEF LiveInv

\* Clients are finitely many.
LEMMA FiniteGauge == \A r \in Replicas : IsFiniteSet(InGauge(r))
<1> SUFFICES ASSUME NEW r \in Replicas PROVE IsFiniteSet(InGauge(r))
  OBVIOUS
<1>1. InGauge(r) \subseteq Clients
  BY DEF InGauge, Served
<1> QED
  BY <1>1, StreamConstants, FS_Subset

LEMMA GaugeKept == ASSUME LiveInv, UNCHANGED <<bus, gauge, request, task>> PROVE Gauged'
<1>1. \A c \in Clients : HostOf(c)' = HostOf(c)
  BY DEF HostOf
<1>2. \A r \in Replicas : Served(r)' = Served(r)
  BY <1>1 DEF Served
<1>3. \A r \in Replicas : InGauge(r)' = InGauge(r)
  BY <1>2 DEF InGauge
<1> QED
  BY <1>2, <1>3 DEF LiveInv, Gauged

-----------------------------------------------------------------------------
\* The group.

LEMMA ProduceKeeps ==
  ASSUME LiveInv, NEW p \in Partitions, Produce(p) PROVE LiveInv'
<1>1. PICK kind \in Kinds : topic' = [topic EXCEPT ![p] = Append(@, kind)]
  BY DEF Produce
<1>2. /\ Len(topic[p]) < MaxMessages
      /\ UNCHANGED <<committed, owner, position, skipped, consumer, bus, gauge, fanned, request,
                     task, queue, gone, sent, heard, failures>>
  BY DEF Produce, replicaVars, clientVars
<1>3. GroupTypes'
  <2>1. topic[p] \in Seq(Kinds) /\ topic \in [Partitions -> Seq(Kinds)]
    BY DEF LiveInv, GroupTypes
  <2>2. Append(topic[p], kind) \in Seq(Kinds) /\ Len(Append(topic[p], kind)) = Len(topic[p]) + 1
    BY <2>1, AppendProperties
  <2>3. \A q \in Partitions : topic'[q] = IF q = p THEN Append(topic[p], kind) ELSE topic[q]
    BY <1>1, <2>1
  <2>4. topic' \in [Partitions -> Seq(Kinds)]
    BY <1>1, <2>1, <2>2
  <2>5. \A q \in Partitions : /\ Len(topic'[q]) \in Nat /\ Len(topic'[q]) <= MaxMessages
                              /\ Len(topic[q]) \in Nat /\ Len(topic[q]) <= Len(topic'[q])
    <3>1. \A q \in Partitions : Len(topic[q]) \in Nat /\ Len(topic[q]) <= MaxMessages
      BY DEF LiveInv, GroupTypes
    <3>2. Len(topic[p]) + 1 \in Nat /\ Len(topic[p]) + 1 <= MaxMessages
          /\ Len(topic[p]) <= Len(topic[p]) + 1
      BY <1>2, <3>1, StreamConstants
    <3>3. \A q \in Partitions : q # p => topic'[q] = topic[q]
      BY <2>3
    <3>4. Len(topic'[p]) = Len(topic[p]) + 1
      BY <2>2, <2>3
    <3> QED
      BY <3>1, <3>2, <3>3, <3>4
  <2>6. owner' \in [Partitions -> Members' \cup {NoReplica}]
    BY <1>2 DEF LiveInv, GroupTypes, Members
  <2>7. \A q \in Partitions : /\ committed'[q] <= Len(topic'[q]) + 1
                              /\ 1 <= position'[q] /\ position'[q] <= Len(topic'[q]) + 1
    <3> SUFFICES ASSUME NEW q \in Partitions
                 PROVE  /\ committed[q] <= Len(topic'[q]) + 1
                        /\ 1 <= position[q] /\ position[q] <= Len(topic'[q]) + 1
      BY <1>2
    <3>1. /\ committed[q] \in Nat /\ committed[q] <= Len(topic[q]) + 1
          /\ position[q] \in Nat /\ 1 <= position[q] /\ position[q] <= Len(topic[q]) + 1
      BY DEF LiveInv, GroupTypes
    <3>2. PICK m \in Nat, n \in Nat : m = Len(topic[q]) /\ n = Len(topic'[q]) /\ m <= n
      BY <2>5
    <3>3. committed[q] <= n + 1 /\ position[q] <= n + 1
      BY <3>1, <3>2
    <3> QED
      BY <3>1, <3>2, <3>3
  <2>8. committed' \in [Partitions -> Nat] /\ position' \in [Partitions -> Nat] /\ skipped' \subseteq Messages
    BY <1>2 DEF LiveInv, GroupTypes
  <2> QED
    BY <2>4, <2>5, <2>6, <2>7, <2>8 DEF GroupTypes
<1>4. SeenBefore'
  BY <1>2 DEF LiveInv, SeenBefore, Seen
<1>5. ReplicaTypes' /\ ClientTypes' /\ QueueTypes'
  BY <1>2 DEF LiveInv, ReplicaTypes, ClientTypes, QueueTypes
<1>6. Gauged'
  BY <1>2 DEF LiveInv, Gauged, InGauge, Served, HostOf
<1> QED
  BY <1>3, <1>4, <1>5, <1>6 DEF LiveInv

LEMMA AutoCommitKeeps ==
  ASSUME LiveInv, NEW p \in Partitions, AutoCommit(p) PROVE LiveInv'
<1>1. /\ owner[p] # NoReplica
      /\ committed' = [committed EXCEPT ![p] = position[p]]
      /\ UNCHANGED <<topic, owner, position, skipped, consumer, bus, gauge, fanned, request,
                     task, queue, gone, sent, heard, failures>>
  BY DEF AutoCommit, Consumed, replicaVars, clientVars
<1>2. committed \in [Partitions -> Nat] /\ position \in [Partitions -> Nat]
  BY DEF LiveInv, GroupTypes
<1>3. \A q \in Partitions : committed'[q] = IF q = p THEN position[p] ELSE committed[q]
  BY <1>1, <1>2
<1>4. GroupTypes'
  <2>1. committed' \in [Partitions -> Nat]
    BY <1>1, <1>2
  <2>2. owner' \in [Partitions -> Members' \cup {NoReplica}]
    BY <1>1 DEF LiveInv, GroupTypes, Members
  <2>3. \A q \in Partitions : committed'[q] <= Len(topic'[q]) + 1
    BY <1>1, <1>3 DEF LiveInv, GroupTypes
  <2> QED
    BY <1>1, <2>1, <2>2, <2>3 DEF LiveInv, GroupTypes
<1>5. SeenBefore'
  <2>1. \A m \in Messages : m[1] \in Partitions
    BY DEF Messages
  <2> QED
    BY <1>1, <1>3, <2>1 DEF LiveInv, SeenBefore, Seen
<1>6. ReplicaTypes' /\ ClientTypes' /\ QueueTypes'
  BY <1>1 DEF LiveInv, ReplicaTypes, ClientTypes, QueueTypes
<1>7. Gauged'
  BY <1>1 DEF LiveInv, Gauged, InGauge, Served, HostOf
<1> QED
  BY <1>4, <1>5, <1>6, <1>7 DEF LiveInv

\* A rebalance, to the members there are after the step.
LEMMA RebalanceKeeps ==
  ASSUME LiveInv, NEW members, members = Members', Rebalance(members), fanned' = fanned
  PROVE  GroupTypes' /\ SeenBefore'
<1>1. PICK saved \in SUBSET {p \in Partitions : owner[p] # NoReplica} :
        /\ committed' = [p \in Partitions |-> IF p \in saved THEN position[p] ELSE committed[p]]
        /\ owner' \in IF members = {} THEN [Partitions -> {NoReplica}] ELSE [Partitions -> members]
        /\ position' = [p \in Partitions |-> Resume(p, committed'[p])]
        /\ skipped' = IF members = {} THEN skipped
                      ELSE skipped \cup {m \in Messages :
                               committed'[m[1]] = NoOffset /\ m[2] <= Len(topic[m[1]])}
        /\ UNCHANGED topic
  BY DEF Rebalance
<1>2. \A p \in Partitions : /\ committed[p] \in Nat /\ position[p] \in Nat /\ 1 <= position[p]
                            /\ committed[p] <= Len(topic[p]) + 1
                            /\ position[p] <= Len(topic[p]) + 1
                            /\ Len(topic[p]) \in Nat
  BY DEF LiveInv, GroupTypes
<1>3. \A p \in Partitions : /\ committed'[p] \in Nat /\ committed'[p] <= Len(topic[p]) + 1
                            /\ committed'[p] = committed[p]
                               \/ (owner[p] # NoReplica /\ committed'[p] = position[p])
  BY <1>1, <1>2
<1>4. \A p \in Partitions : position'[p] = IF committed'[p] = 0 THEN Len(topic[p]) + 1 ELSE committed'[p]
  BY <1>1 DEF Resume, NoOffset
<1>5. GroupTypes'
  <2>1. committed' \in [Partitions -> Nat] /\ position' \in [Partitions -> Nat]
    <3>1. committed' \in [Partitions -> Nat]
      BY <1>1, <1>3
    <3>2. \A p \in Partitions : Resume(p, committed'[p]) \in Nat
      BY <1>2, <1>3 DEF Resume
    <3> QED
      BY <1>1, <3>1, <3>2
  <2>2. \A p \in Partitions : 1 <= position'[p] /\ position'[p] <= Len(topic[p]) + 1
    BY <1>2, <1>3, <1>4
  <2>3. owner' \in [Partitions -> Members' \cup {NoReplica}]
    BY <1>1
  <2>4. skipped' \subseteq Messages
    BY <1>1 DEF LiveInv, GroupTypes
  <2> QED
    BY <1>1, <1>3, <2>1, <2>2, <2>3, <2>4 DEF LiveInv, GroupTypes
<1>6. ASSUME NEW m \in Messages
      PROVE  /\ m[2] < committed'[m[1]] => Seen(m)'
             /\ owner'[m[1]] # NoReplica /\ m[2] < position'[m[1]] => Seen(m)'
  <2>1. m[1] \in Partitions /\ m[2] \in Nat
    BY DEF Messages
  <2>2. Seen(m) => Seen(m)'
    BY <1>1 DEF Seen
  <2>3. m[2] < committed'[m[1]] => Seen(m)'
    BY <1>3, <2>1, <2>2 DEF LiveInv, SeenBefore
  <2>4. CASE committed'[m[1]] # 0
    BY <1>4, <2>1, <2>3, <2>4
  <2>5. CASE committed'[m[1]] = 0 /\ owner'[m[1]] # NoReplica /\ m[2] < position'[m[1]]
    <3>1. members # {}
      BY <1>1, <2>1, <2>5
    <3>2. m[2] <= Len(topic[m[1]])
      BY <1>2, <1>4, <2>1, <2>5
    <3>3. m \in skipped'
      BY <1>1, <2>5, <3>1, <3>2 DEF NoOffset
    <3> QED
      BY <2>3, <3>3 DEF Seen
  <2> QED
    BY <2>3, <2>4, <2>5
<1> QED
  BY <1>5, <1>6 DEF SeenBefore

\* The group is not touched.
LEMMA GroupKept ==
  ASSUME LiveInv, Members' = Members, fanned' = fanned, UNCHANGED groupVars
  PROVE  GroupTypes' /\ SeenBefore'
<1>1. UNCHANGED <<topic, committed, owner, position, skipped>>
  BY DEF groupVars
<1>2. GroupTypes'
  BY <1>1 DEF LiveInv, GroupTypes
<1>3. SeenBefore'
  BY <1>1 DEF LiveInv, SeenBefore, Seen
<1> QED
  BY <1>2, <1>3

LEMMA ConsumerKeeps ==
  ASSUME LiveInv, NEW r \in Replicas, StartConsumer(r) \/ ConsumerFails(r) \/ StartReplica(r)
  PROVE  LiveInv'
<1>1. /\ UNCHANGED <<bus, gauge, fanned, request, task, queue, gone, sent, heard>>
      /\ \E s \in {"starting", "reading"} : consumer' = [consumer EXCEPT ![r] = s]
      /\ failures' = failures \/ (failures < MaxFailures /\ failures' = failures + 1)
  BY DEF StartConsumer, ConsumerFails, StartReplica, clientVars
<1>2. consumer \in [Replicas -> {"down", "starting", "reading"}] /\ failures \in 0 .. MaxFailures
  BY DEF LiveInv, ReplicaTypes
<1>3. GroupTypes' /\ SeenBefore'
  <2>1. CASE StartConsumer(r)
    <3>1. Members' = Members \cup {r}
      BY <1>2, <2>1 DEF StartConsumer, Members
    <3> QED
      BY <1>1, <2>1, <3>1, RebalanceKeeps DEF StartConsumer
  <2>2. CASE ConsumerFails(r)
    <3>1. Members' = Members \ {r}
      BY <1>2, <2>2 DEF ConsumerFails, Members
    <3> QED
      BY <1>1, <2>2, <3>1, RebalanceKeeps DEF ConsumerFails
  <2>3. CASE StartReplica(r)
    <3>1. Members' = Members
      BY <1>2, <2>3 DEF StartReplica, Members
    <3> QED
      BY <1>1, <2>3, <3>1, GroupKept DEF StartReplica
  <2> QED
    BY <2>1, <2>2, <2>3
<1>4. ReplicaTypes'
  BY <1>1, <1>2, StreamConstants DEF LiveInv, ReplicaTypes
<1>5. ClientTypes' /\ QueueTypes'
  BY <1>1 DEF LiveInv, ClientTypes, QueueTypes
<1>6. Gauged'
  BY <1>1 DEF LiveInv, Gauged, InGauge, Served, HostOf
<1> QED
  BY <1>3, <1>4, <1>5, <1>6 DEF LiveInv

LEMMA PublishKeeps ==
  ASSUME LiveInv, NEW r \in Replicas, NEW p \in Partitions, Publish(r, p) PROVE LiveInv'
<1> DEFINE message == <<p, position[p]>>
<1>1. /\ owner[p] = r /\ consumer[r] = "reading" /\ position[p] <= Len(topic[p])
      /\ queue' = [c \in Clients |-> IF c \in bus[r] \ FullQueues(r)
                                     THEN Append(queue[c], message) ELSE queue[c]]
      /\ bus' = [bus EXCEPT ![r] = @ \ Removed(r)]
      /\ heard' = [c \in Clients |-> IF task[c] # "none" /\ HostOf(c) = r
                                     THEN Append(heard[c], message) ELSE heard[c]]
      /\ fanned' = fanned \cup {message}
      /\ position' = [position EXCEPT ![p] = @ + 1]
      /\ UNCHANGED <<topic, committed, owner, skipped, consumer, gauge, request, task, gone, sent,
                     failures>>
  BY DEF Publish, Put
<1>2. /\ position \in [Partitions -> Nat] /\ 1 <= position[p] /\ Len(topic[p]) <= MaxMessages
      /\ Len(topic[p]) \in Nat
  BY DEF LiveInv, GroupTypes
<1>3. message \in Messages
  BY <1>1, <1>2, StreamConstants DEF Messages
<1>4. \A q \in Partitions : position'[q] = IF q = p THEN position[p] + 1 ELSE position[q]
  BY <1>1, <1>2
<1>5. GroupTypes'
  <2>1. position' \in [Partitions -> Nat]
    BY <1>1, <1>2
  <2>2. \A q \in Partitions : 1 <= position'[q] /\ position'[q] <= Len(topic[q]) + 1
    BY <1>1, <1>2, <1>4 DEF LiveInv, GroupTypes
  <2>3. owner' \in [Partitions -> Members' \cup {NoReplica}]
    BY <1>1 DEF LiveInv, GroupTypes, Members
  <2> QED
    BY <1>1, <2>1, <2>2, <2>3 DEF LiveInv, GroupTypes
<1>6. SeenBefore'
  <2> SUFFICES ASSUME NEW m \in Messages
               PROVE  /\ m[2] < committed[m[1]] => Seen(m)'
                      /\ owner[m[1]] # NoReplica /\ m[2] < position'[m[1]] => Seen(m)'
    BY <1>1 DEF SeenBefore
  <2>1. m[1] \in Partitions /\ m[2] \in Nat /\ m = <<m[1], m[2]>>
    BY DEF Messages
  <2>2. Seen(m) => Seen(m)'
    BY <1>1 DEF Seen
  <2>3. CASE m[1] = p /\ m[2] = position[p]
    <3>1. m = message
      BY <2>1, <2>3
    <3> QED
      BY <1>1, <3>1 DEF Seen
  <2>4. CASE ~(m[1] = p /\ m[2] = position[p])
    <3>1. m[2] < position'[m[1]] => m[2] < position[m[1]]
      BY <1>2, <1>4, <2>1, <2>4
    <3> QED
      BY <2>2, <3>1 DEF LiveInv, SeenBefore
  <2> QED
    BY <2>3, <2>4
<1> HIDE DEF message
<1>7. ReplicaTypes'
  <2>1. bus' \in [Replicas -> SUBSET Clients]
    BY <1>1 DEF LiveInv, ReplicaTypes
  <2> QED
    BY <1>1, <1>3, <2>1 DEF LiveInv, ReplicaTypes
<1>8. ClientTypes'
  BY <1>1 DEF LiveInv, ClientTypes
<1>9. QueueTypes'
  <2>1. ASSUME NEW c \in Clients
        PROVE  /\ queue[c] \in Seq(Messages) /\ Len(queue[c]) <= QueueSize /\ Len(queue[c]) \in Nat
               /\ heard[c] \in Seq(Messages)
    BY LenProperties DEF LiveInv, QueueTypes
  <2>2. ASSUME NEW c \in Clients
        PROVE  /\ Append(queue[c], message) \in Seq(Messages)
               /\ Len(Append(queue[c], message)) = Len(queue[c]) + 1
               /\ Append(heard[c], message) \in Seq(Messages)
    BY <1>3, <2>1, AppendProperties
  <2>3. queue' \in [Clients -> Seq(Messages)] /\ heard' \in [Clients -> Seq(Messages)]
    BY <1>1, <2>1, <2>2
  <2>4. ASSUME NEW c \in Clients PROVE Len(queue'[c]) <= QueueSize
    <3>1. CASE c \in bus[r] \ FullQueues(r)
      <4>1. queue'[c] = Append(queue[c], message)
        BY <1>1, <3>1
      <4>2. Len(queue[c]) # QueueSize
        BY <3>1 DEF FullQueues
      <4>3. Len(queue[c]) + 1 <= QueueSize
        BY <2>1, <4>2, StreamConstants
      <4> QED
        BY <2>2, <4>1, <4>3
    <3>2. CASE c \notin bus[r] \ FullQueues(r)
      BY <1>1, <2>1, <3>2
    <3> QED
      BY <3>1, <3>2
  <2> QED
    BY <1>1, <2>3, <2>4 DEF LiveInv, QueueTypes
<1>10. Gauged'
  <2>1. \A s \in Replicas : bus'[s] \subseteq bus[s]
    BY <1>1 DEF LiveInv, ReplicaTypes
  <2>2. \A s \in Replicas : Served(s)' = Served(s) /\ InGauge(s)' = InGauge(s)
    BY <1>1 DEF InGauge, Served, HostOf
  <2> QED
    BY <1>1, <2>1, <2>2 DEF LiveInv, Gauged
<1> QED
  BY <1>5, <1>6, <1>7, <1>8, <1>9, <1>10 DEF LiveInv

-----------------------------------------------------------------------------
\* The clients.

LEMMA ConnectKeeps ==
  ASSUME LiveInv, NEW c \in Clients, NEW r \in Replicas, Connect(c, r) PROVE LiveInv'
<1>1. PICK filter \in Filters : request' = [request EXCEPT ![c] = [host |-> r, filter |-> filter]]
  BY DEF Connect
<1>2. /\ task[c] = "none"
      /\ task' = [task EXCEPT ![c] = "accepted"]
      /\ bus' = [bus EXCEPT ![r] = @ \cup {c}]
      /\ UNCHANGED <<consumer, gauge, fanned, queue, gone, sent, heard, failures>>
      /\ UNCHANGED groupVars
  BY DEF Connect
<1>3. GroupTypes' /\ SeenBefore'
  BY <1>2, GroupKept DEF Members
<1>4. ReplicaTypes'
  <2>1. bus' \in [Replicas -> SUBSET Clients]
    BY <1>2 DEF LiveInv, ReplicaTypes
  <2> QED
    BY <1>2, <2>1 DEF LiveInv, ReplicaTypes
<1>5. ClientTypes'
  <2>1. [host |-> r, filter |-> filter] \in [host : Replicas, filter : Filters]
        /\ [host |-> r, filter |-> filter] # NoRequest
    BY StreamConstants
  <2>2. request' \in [Clients -> [host : Replicas, filter : Filters] \cup {NoRequest}]
    BY <1>1, <2>1 DEF LiveInv, ClientTypes
  <2>3. task' \in [Clients -> Tasks]
    BY <1>2 DEF LiveInv, ClientTypes, Tasks, Live
  <2>4. \A d \in Clients : task'[d] = "none" <=> request'[d] = NoRequest
    BY <1>1, <1>2, <2>1 DEF LiveInv, ClientTypes
  <2> QED
    BY <1>2, <2>2, <2>3, <2>4 DEF LiveInv, ClientTypes
<1>6. QueueTypes'
  BY <1>2 DEF LiveInv, QueueTypes
<1>7. Gauged'
  <2>1. /\ \A d \in Clients : d # c => task'[d] = task[d] /\ request'[d] = request[d]
        /\ task'[c] = "accepted" /\ request'[c].host = r
    BY <1>1, <1>2 DEF LiveInv, ClientTypes
  <2>2. \A s \in Replicas : Served(s)' = IF s = r THEN Served(s) \cup {c} ELSE Served(s)
    BY <1>2, <2>1 DEF Served, HostOf
  <2>3. \A s \in Replicas : InGauge(s)' = InGauge(s)
    BY <1>2, <2>1, <2>2 DEF InGauge, Begun, Served
  <2>4. \A s \in Replicas : bus'[s] = IF s = r THEN bus[s] \cup {c} ELSE bus[s]
    BY <1>2 DEF LiveInv, ReplicaTypes
  <2> QED
    BY <1>2, <2>2, <2>3, <2>4 DEF LiveInv, Gauged
<1> QED
  BY <1>3, <1>4, <1>5, <1>6, <1>7 DEF LiveInv

LEMMA BeginKeeps == ASSUME LiveInv, NEW c \in Clients, Begin(c) PROVE LiveInv'
<1> DEFINE r == HostOf(c)
<1>1. /\ task[c] = "accepted"
      /\ task' = [task EXCEPT ![c] = "greeting"]
      /\ gauge' = [gauge EXCEPT ![r] = @ + 1]
      /\ UNCHANGED <<consumer, bus, fanned, request, queue, gone, sent, heard, failures>>
      /\ UNCHANGED groupVars
  BY DEF Begin
<1>2. r \in Replicas
  BY <1>1 DEF LiveInv, ClientTypes, HostOf
<1>3. GroupTypes' /\ SeenBefore'
  BY <1>1, GroupKept DEF Members
<1> HIDE DEF r
<1>4. ReplicaTypes'
  <2>1. gauge' \in [Replicas -> Nat]
    BY <1>1, <1>2 DEF LiveInv, ReplicaTypes
  <2> QED
    BY <1>1, <2>1 DEF LiveInv, ReplicaTypes
<1>5. ClientTypes'
  BY <1>1 DEF LiveInv, ClientTypes, Tasks, Live, Begun
<1>6. QueueTypes'
  BY <1>1 DEF LiveInv, QueueTypes
<1>7. Gauged'
  <2>1. /\ \A d \in Clients : d # c => task'[d] = task[d]
        /\ task'[c] = "greeting" /\ HostOf(c) = r
        /\ \A d \in Clients : HostOf(d)' = HostOf(d)
    BY <1>1 DEF LiveInv, ClientTypes, HostOf, r
  <2>2. \A s \in Replicas : Served(s)' = Served(s)
    BY <1>1, <2>1 DEF Served
  <2>3. \A s \in Replicas : InGauge(s)' = IF s = r THEN InGauge(s) \cup {c} ELSE InGauge(s)
    BY <1>1, <2>1, <2>2 DEF InGauge, Begun, Served
  <2>4. c \notin InGauge(r)
    BY <1>1 DEF InGauge, Begun
  <2>5. Cardinality(InGauge(r) \cup {c}) = Cardinality(InGauge(r)) + 1
    BY <1>2, <2>4, FiniteGauge, FS_AddElement
  <2>6. \A s \in Replicas : gauge'[s] = IF s = r THEN gauge[r] + 1 ELSE gauge[s]
    BY <1>1, <1>2 DEF LiveInv, ReplicaTypes
  <2> QED
    BY <1>1, <1>2, <2>2, <2>3, <2>5, <2>6 DEF LiveInv, Gauged
<1> QED
  BY <1>3, <1>4, <1>5, <1>6, <1>7 DEF LiveInv

\* A generator moves between places that the gauge does not tell apart.
LEMMA MoveKeeps ==
  ASSUME LiveInv, NEW c \in Clients, NEW to \in Tasks \ {"none"}, task[c] # "none",
         task[c] \in Begun \cup {"abandoned"} <=> to \in Begun \cup {"abandoned"},
         task' = [task EXCEPT ![c] = to],
         QueueTypes',
         UNCHANGED <<groupVars, replicaVars, request, gone, failures>>
  PROVE  LiveInv'
<1>1. UNCHANGED <<consumer, bus, gauge, fanned>>
  BY DEF replicaVars
<1>2. GroupTypes' /\ SeenBefore'
  BY <1>1, GroupKept DEF Members
<1>3. ReplicaTypes'
  BY <1>1 DEF LiveInv, ReplicaTypes
<1>4. ClientTypes'
  BY DEF LiveInv, ClientTypes
<1>5. Gauged'
  <2>1. /\ \A d \in Clients : d # c => task'[d] = task[d]
        /\ task'[c] = to
        /\ \A d \in Clients : HostOf(d)' = HostOf(d)
    BY DEF LiveInv, ClientTypes, HostOf
  <2>2. \A s \in Replicas : Served(s)' = Served(s)
    BY <2>1 DEF Served
  <2>3. \A s \in Replicas : InGauge(s)' = InGauge(s)
    BY <2>1, <2>2 DEF InGauge, Served
  <2> QED
    BY <1>1, <2>2, <2>3 DEF LiveInv, Gauged
<1> QED
  BY <1>2, <1>3, <1>4, <1>5 DEF LiveInv

\* What ended connections leave is typed.
LEMMA ForgottenTyped ==
  ASSUME LiveInv, NEW ended, Forgotten(ended) PROVE ClientTypes' /\ QueueTypes'
<1>1. /\ request' = [c \in Clients |-> IF c \in ended THEN NoRequest ELSE request[c]]
      /\ task' = [c \in Clients |-> IF c \in ended THEN "none" ELSE task[c]]
      /\ queue' = [c \in Clients |-> IF c \in ended THEN <<>> ELSE queue[c]]
      /\ sent' = [c \in Clients |-> IF c \in ended THEN <<>> ELSE sent[c]]
      /\ heard' = [c \in Clients |-> IF c \in ended THEN <<>> ELSE heard[c]]
      /\ gone' = gone \ ended
  BY DEF Forgotten
<1>2. ClientTypes'
  BY <1>1 DEF LiveInv, ClientTypes, Tasks
<1>3. QueueTypes'
  <2>1. <<>> \in Seq(Messages) /\ Len(<<>>) = 0 /\ 0 <= QueueSize
    BY EmptySeq, StreamConstants
  <2> QED
    BY <1>1, <2>1 DEF LiveInv, QueueTypes
<1> QED
  BY <1>2, <1>3

LEMMA FinishKeeps ==
  ASSUME LiveInv, NEW c \in Clients, task[c] \in Begun, Finish(c) PROVE LiveInv'
<1>0. PICK r \in Replicas : r = HostOf(c) /\ task[c] # "none"
  BY DEF LiveInv, ClientTypes, HostOf, Begun
<1>1. /\ gauge' = [gauge EXCEPT ![r] = @ - 1]
      /\ bus' = [bus EXCEPT ![r] = @ \ {c}]
      /\ Forgotten({c})
      /\ UNCHANGED <<consumer, fanned, failures>>
      /\ UNCHANGED groupVars
  BY <1>0 DEF Finish, Unsubscribed
<1>3. GroupTypes' /\ SeenBefore'
  BY <1>1, GroupKept DEF Members
<1>4. ClientTypes' /\ QueueTypes'
  BY <1>1, ForgottenTyped
<1>5. c \in InGauge(r) /\ IsFiniteSet(InGauge(r))
  BY <1>0, FiniteGauge DEF InGauge, Served
<1>6. /\ Cardinality(InGauge(r) \ {c}) = Cardinality(InGauge(r)) - 1
      /\ Cardinality(InGauge(r)) \in Nat /\ Cardinality(InGauge(r) \ {c}) \in Nat
  <2>1. IsFiniteSet(InGauge(r) \ {c})
    BY <1>5, FS_Subset
  <2> QED
    BY <1>5, <2>1, FS_RemoveElement, FS_CardinalityType
<1>7. \A s \in Replicas : gauge'[s] = IF s = r THEN gauge[r] - 1 ELSE gauge[s]
  BY <1>1 DEF LiveInv, ReplicaTypes
<1>8. gauge[r] = Cardinality(InGauge(r)) /\ gauge[r] - 1 \in Nat
  BY <1>6 DEF LiveInv, Gauged
<1>9. ReplicaTypes'
  <2>1. gauge' \in [Replicas -> Nat]
    BY <1>1, <1>8 DEF LiveInv, ReplicaTypes
  <2>2. bus' \in [Replicas -> SUBSET Clients]
    BY <1>1 DEF LiveInv, ReplicaTypes
  <2> QED
    BY <1>1, <2>1, <2>2 DEF LiveInv, ReplicaTypes
<1>10. Gauged'
  <2>1. /\ \A d \in Clients : d # c => task'[d] = task[d] /\ HostOf(d)' = HostOf(d)
        /\ task'[c] = "none"
    BY <1>1 DEF Forgotten, HostOf
  <2>2. \A s \in Replicas : Served(s)' = Served(s) \ {c}
    BY <2>1 DEF Served
  <2>3. \A s \in Replicas : InGauge(s)' = InGauge(s) \ {c}
    BY <2>1, <2>2 DEF InGauge, Served
  <2>4. \A s \in Replicas : s # r => c \notin Served(s) /\ c \notin InGauge(s)
    BY <1>0 DEF Served, InGauge
  <2>5. \A s \in Replicas : s # r => Served(s)' = Served(s) /\ InGauge(s)' = InGauge(s)
    BY <2>2, <2>3, <2>4
  <2>6. \A s \in Replicas : bus'[s] = IF s = r THEN bus[r] \ {c} ELSE bus[s]
    BY <1>1 DEF LiveInv, ReplicaTypes
  <2>7. bus'[r] \subseteq Served(r)'
    <3>1. bus[r] \subseteq Served(r) /\ bus'[r] = bus[r] \ {c} /\ Served(r)' = Served(r) \ {c}
      BY <2>2, <2>6 DEF LiveInv, Gauged
    <3> QED
      BY <3>1
  <2>8. gauge'[r] = Cardinality(InGauge(r)')
    <3>1. InGauge(r)' = InGauge(r) \ {c} /\ gauge'[r] = gauge[r] - 1
      BY <1>7, <2>3
    <3>2. gauge[r] - 1 = Cardinality(InGauge(r)) - 1
      BY <1>8
    <3> QED
      BY <1>6, <3>1, <3>2
  <2>9. ASSUME NEW s \in Replicas, s # r
        PROVE  bus'[s] \subseteq Served(s)' /\ gauge'[s] = Cardinality(InGauge(s)')
    <3>1. bus'[s] = bus[s] /\ gauge'[s] = gauge[s]
      BY <1>7, <2>6, <2>9
    <3>2. Served(s)' = Served(s) /\ InGauge(s)' = InGauge(s)
      BY <2>5, <2>9
    <3>3. bus[s] \subseteq Served(s) /\ gauge[s] = Cardinality(InGauge(s))
      BY DEF LiveInv, Gauged
    <3> QED
      BY <3>1, <3>2, <3>3, Zenon
  <2>10. ASSUME NEW s \in Replicas
         PROVE  bus'[s] \subseteq Served(s)' /\ gauge'[s] = Cardinality(InGauge(s)')
    <3>1. CASE s = r
      BY <2>7, <2>8, <3>1, Zenon
    <3>2. CASE s # r
      BY <2>9, <3>2, Zenon
    <3> QED
      BY <3>1, <3>2
  <2> QED
    BY <2>10 DEF Gauged
<1> QED
  BY <1>3, <1>4, <1>9, <1>10 DEF LiveInv

LEMMA ClientKeeps ==
  ASSUME LiveInv, NEW c \in Clients,
         \/ Resumed(c) \/ FindDisconnected(c) \/ AwaitMessage(c) \/ Get(c) \/ Heartbeat(c)
         \/ Disconnect(c) \/ Cancel(c)
  PROVE  LiveInv'
<1>1. CASE Resumed(c) \/ AwaitMessage(c) \/ Heartbeat(c)
  <2>1. PICK to \in {"checking", "waiting", "yielded"} : task' = [task EXCEPT ![c] = to]
    BY <1>1 DEF Resumed, AwaitMessage, Heartbeat
  <2>2. /\ task[c] \in Begun /\ to \in Begun
        /\ UNCHANGED <<queue, sent, heard>>
        /\ UNCHANGED <<groupVars, replicaVars, request, gone, failures>>
    BY <1>1 DEF Resumed, AwaitMessage, Heartbeat, Begun
  <2>3. QueueTypes'
    BY <2>2 DEF LiveInv, QueueTypes
  <2>4. /\ to \in Tasks \ {"none"} /\ task[c] # "none"
        /\ task[c] \in Begun \cup {"abandoned"} <=> to \in Begun \cup {"abandoned"}
    BY <2>2 DEF Begun, Tasks, Live
  <2> QED
    BY <2>1, <2>2, <2>3, <2>4, MoveKeeps
<1>2. CASE Get(c)
  <2>1. PICK to \in {"checking", "yielded"} : task' = [task EXCEPT ![c] = to]
    BY <1>2 DEF Get
  <2>2. /\ task[c] = "waiting" /\ queue[c] # <<>>
        /\ queue' = [queue EXCEPT ![c] = Tail(@)]
        /\ sent' = sent \/ sent' = [sent EXCEPT ![c] = Append(@, Head(queue[c]))]
        /\ heard' = heard
        /\ UNCHANGED <<groupVars, replicaVars, request, gone, failures>>
    BY <1>2 DEF Get
  <2>3. QueueTypes'
    <3>1. queue[c] \in Seq(Messages) /\ sent[c] \in Seq(Messages) /\ Len(queue[c]) <= QueueSize
      BY DEF LiveInv, QueueTypes
    <3>2. /\ Tail(queue[c]) \in Seq(Messages) /\ Len(Tail(queue[c])) = Len(queue[c]) - 1
          /\ Head(queue[c]) \in Messages /\ Len(queue[c]) \in Nat
      BY <2>2, <3>1, HeadTailProperties, LenProperties
    <3>3. Append(sent[c], Head(queue[c])) \in Seq(Messages)
      BY <3>1, <3>2, AppendProperties
    <3>4. Len(Tail(queue[c])) <= QueueSize
      BY <3>1, <3>2, StreamConstants
    <3>5. \A d \in Clients : queue'[d] = IF d = c THEN Tail(queue[c]) ELSE queue[d]
      BY <2>2 DEF LiveInv, QueueTypes
    <3>6. queue' \in [Clients -> Seq(Messages)] /\ sent' \in [Clients -> Seq(Messages)]
      BY <2>2, <3>2, <3>3 DEF LiveInv, QueueTypes
    <3> QED
      BY <2>2, <3>4, <3>5, <3>6 DEF LiveInv, QueueTypes
  <2>4. /\ to \in Tasks \ {"none"} /\ task[c] # "none"
        /\ task[c] \in Begun \cup {"abandoned"} <=> to \in Begun \cup {"abandoned"}
    BY <2>2 DEF Begun, Tasks, Live
  <2> QED
    BY <2>1, <2>2, <2>3, <2>4, MoveKeeps
<1>3. CASE Disconnect(c)
  <2>1. /\ gone' = gone \cup {c}
        /\ UNCHANGED <<consumer, bus, gauge, fanned, request, task, queue, sent, heard, failures>>
        /\ UNCHANGED groupVars
    BY <1>3 DEF Disconnect, replicaVars
  <2>2. GroupTypes' /\ SeenBefore'
    BY <2>1, GroupKept DEF Members
  <2> QED
    BY <2>1, <2>2, GaugeKept DEF LiveInv, ReplicaTypes, ClientTypes, QueueTypes
<1>4. CASE FindDisconnected(c)
  BY <1>4, FinishKeeps DEF FindDisconnected, Begun
<1>5. CASE Cancel(c)
  <2>1. CASE task[c] \in {"checking", "waiting", "yielded"} /\ Finish(c)
    BY <2>1, FinishKeeps DEF Begun
  <2>2. CASE ~(task[c] \in {"checking", "waiting", "yielded"} /\ Finish(c))
    <3>1. PICK to \in {"unstarted", "abandoned"} :
              /\ task' = [task EXCEPT ![c] = to]
              /\ \/ task[c] = "accepted" /\ to = "unstarted"
                 \/ task[c] = "greeting" /\ to = "abandoned"
      BY <1>5, <2>2 DEF Cancel
    <3>2. UNCHANGED <<groupVars, replicaVars, request, queue, gone, sent, heard, failures>>
      BY <1>5, <2>2 DEF Cancel
    <3>3. QueueTypes'
      BY <3>2 DEF LiveInv, QueueTypes
    <3>4. /\ to \in Tasks \ {"none"} /\ task[c] # "none"
          /\ task[c] \in Begun \cup {"abandoned"} <=> to \in Begun \cup {"abandoned"}
      BY <3>1 DEF Begun, Tasks, Live
    <3> QED
      BY <3>1, <3>2, <3>3, <3>4, MoveKeeps
  <2> QED
    BY <2>1, <2>2
<1> QED
  BY <1>1, <1>2, <1>3, <1>4, <1>5

\* The process of a replica ends.
LEMMA StopKeeps == ASSUME LiveInv, NEW r \in Replicas, StopReplica(r) PROVE LiveInv'
<1> DEFINE ended == {c \in Clients : task[c] # "none" /\ HostOf(c) = r}
<1>1. /\ failures < MaxFailures /\ failures' = failures + 1
      /\ consumer' = [consumer EXCEPT ![r] = "down"]
      /\ IF r \in Members THEN Rebalance(Members \ {r}) ELSE UNCHANGED groupVars
      /\ bus' = [bus EXCEPT ![r] = {}]
      /\ gauge' = [gauge EXCEPT ![r] = 0]
      /\ Forgotten(ended)
      /\ UNCHANGED fanned
  BY DEF StopReplica
<1>2. Members' = Members \ {r}
  BY <1>1 DEF LiveInv, ReplicaTypes, Members
<1>3. GroupTypes' /\ SeenBefore'
  <2>1. CASE r \in Members
    BY <1>1, <1>2, <2>1, RebalanceKeeps
  <2>2. CASE r \notin Members
    BY <1>1, <1>2, <2>2, GroupKept
  <2> QED
    BY <2>1, <2>2
<1>4. ClientTypes' /\ QueueTypes'
  BY <1>1, ForgottenTyped
<1>5. ReplicaTypes'
  <2>1. failures' \in 0 .. MaxFailures
    BY <1>1, StreamConstants DEF LiveInv, ReplicaTypes
  <2> QED
    BY <1>1, <2>1 DEF LiveInv, ReplicaTypes
<1>6. Gauged'
  <2>1. \A d \in Clients : IF d \in ended THEN task'[d] = "none"
                           ELSE task'[d] = task[d] /\ HostOf(d)' = HostOf(d)
    BY <1>1 DEF Forgotten, HostOf
  <2>2. Served(r)' = {} /\ InGauge(r)' = {}
    BY <2>1 DEF Served, InGauge
  <2>3. \A s \in Replicas : s # r => Served(s)' = Served(s)
    BY <2>1 DEF Served
  <2>4. \A s \in Replicas : s # r => InGauge(s)' = InGauge(s)
    BY <2>1, <2>3 DEF InGauge, Served
  <2>5. \A s \in Replicas : /\ bus'[s] = IF s = r THEN {} ELSE bus[s]
                            /\ gauge'[s] = IF s = r THEN 0 ELSE gauge[s]
    BY <1>1 DEF LiveInv, ReplicaTypes
  <2>6. Cardinality({}) = 0
    BY FS_EmptySet
  <2> QED
    BY <2>2, <2>3, <2>4, <2>5, <2>6 DEF LiveInv, Gauged
<1> QED
  BY <1>3, <1>4, <1>5, <1>6 DEF LiveInv

LEMMA LiveInvStep == LiveInv /\ [Next]_vars => LiveInv'
<1> SUFFICES ASSUME LiveInv, [Next]_vars PROVE LiveInv'
  OBVIOUS
<1>1. CASE UNCHANGED vars
  <2>1. /\ UNCHANGED <<consumer, bus, gauge, fanned, request, task, queue, gone, sent, heard, failures>>
        /\ UNCHANGED groupVars
    BY <1>1 DEF vars, replicaVars, clientVars
  <2>2. GroupTypes' /\ SeenBefore'
    BY <2>1, GroupKept DEF Members
  <2> QED
    BY <2>1, <2>2, GaugeKept DEF LiveInv, ReplicaTypes, ClientTypes, QueueTypes
<1>2. CASE Next
  BY <1>2, ProduceKeeps, AutoCommitKeeps, PublishKeeps, ConsumerKeeps, StopKeeps, ConnectKeeps,
     BeginKeeps, ClientKeeps
     DEF Next, GroupStep, ReplicaStep, ClientStep
<1> QED
  BY <1>1, <1>2

LEMMA LiveInvHolds == Spec => []LiveInv
BY LiveInvInit, LiveInvStep, PTL DEF Spec

\* Type correctness of the stream.
THEOREM LiveTypeCorrect == Spec => []TypeOK
<1>1. ASSUME LiveInv PROVE TypeOK
  <2>1. ASSUME NEW p \in Partitions
        PROVE  committed[p] \in 0 .. MaxMessages + 1 /\ position[p] \in 1 .. Len(topic[p]) + 1
    BY <1>1, StreamConstants DEF LiveInv, GroupTypes
  <2>2. committed \in [Partitions -> 0 .. MaxMessages + 1]
    BY <1>1, <2>1 DEF LiveInv, GroupTypes
  <2> QED
    BY <1>1, <2>1, <2>2 DEF LiveInv, GroupTypes, ReplicaTypes, ClientTypes, QueueTypes, TypeOK
<1> QED
  BY <1>1, LiveInvHolds, PTL

\* What the group's offset is past was published on some bus, whatever fails.
THEOREM CommittedWasFanned == Spec => []CommittedIsFanned
<1>1. LiveInv => CommittedIsFanned
  BY DEF LiveInv, SeenBefore, Seen, CommittedIsFanned
<1> QED
  BY <1>1, LiveInvHolds, PTL

\* The gauge and the bus know the connections there are, and the ones that were
\* cancelled too early.
THEOREM ConnectionsAccounted == Spec => []Accounted
<1>1. LiveInv => Accounted
  BY DEF LiveInv, Gauged, InGauge, Served, Accounted
<1> QED
  BY <1>1, LiveInvHolds, PTL

-----------------------------------------------------------------------------
(* The order of what a client is sent.  A message is JSON or not, and of one *)
(* service or another, for good once it is published, so that what a client  *)
(* wants of what it heard never changes; what it heard is cut in two places, *)
(* where its generator has read to and where its queue ends.                 *)

TopicGrows ==
    \A m \in Messages : m[2] <= Len(topic[m[1]]) =>
        m[2] <= Len(topic'[m[1]]) /\ topic'[m[1]][m[2]] = topic[m[1]][m[2]]

HeardPublished(c) == \A i \in 1 .. Len(heard[c]) : heard[c][i][2] <= Len(topic[heard[c][i][1]])

Blank(c) == queue[c] = <<>> /\ sent[c] = <<>> /\ heard[c] = <<>>

\* What is between the two places is the queue of the client.
Stretch(c, read, put) ==
    /\ WasSent(c, read)
    /\ Len(queue[c]) = put - read
    /\ \A i \in 1 .. put - read : queue[c][i] = heard[c][read + i]
    /\ c \in bus[HostOf(c)] => put = Len(heard[c])

Ordered(c) ==
    /\ HeardPublished(c)
    /\ task[c] = "none" => Blank(c)
    /\ Open(c) => \E read, put \in 0 .. Len(heard[c]) : Stretch(c, read, put)

OrderInv == \A c \in Clients : Ordered(c)

LEMMA OrderInvInit == Init => OrderInv
<1> SUFFICES ASSUME Init, NEW c \in Clients PROVE Ordered(c)
  BY DEF OrderInv
<1>1. queue[c] = <<>> /\ sent[c] = <<>> /\ heard[c] = <<>> /\ task[c] = "none"
  BY DEF Init
<1>2. Len(heard[c]) = 0
  BY <1>1, EmptySeq
<1> QED
  BY <1>1, <1>2 DEF Ordered, HeardPublished, Blank, Open, Live, Begun

\* What a client has, by itself.
LEMMA ClientSequences ==
  ASSUME LiveInv, NEW c \in Clients
  PROVE  /\ queue[c] \in Seq(Messages) /\ Len(queue[c]) \in Nat
         /\ sent[c] \in Seq(Messages) /\ Len(sent[c]) \in Nat /\ DOMAIN sent[c] = 1 .. Len(sent[c])
         /\ heard[c] \in Seq(Messages) /\ Len(heard[c]) \in Nat
         /\ \A i \in 1 .. Len(heard[c]) : heard[c][i] \in Messages
<1>1. queue[c] \in Seq(Messages) /\ sent[c] \in Seq(Messages) /\ heard[c] \in Seq(Messages)
  BY DEF LiveInv, QueueTypes
<1> QED
  BY <1>1, LenProperties, ElementOfSeq

\* More is published, and heard, after the place a client has read to.
LEMMA WasSentKept ==
  ASSUME LiveInv, NEW c \in Clients, NEW read \in 0 .. Len(heard[c]), TopicGrows,
         HeardPublished(c), WasSent(c, read),
         request'[c] = request[c], sent'[c] = sent[c],
         \A k \in 1 .. read : heard'[c][k] = heard[c][k]
  PROVE  WasSent(c, read)'
<1>1. PICK place \in [DOMAIN sent[c] -> 1 .. read] :
        /\ \A i, j \in DOMAIN sent[c] : i < j => place[i] < place[j]
        /\ \A i \in DOMAIN sent[c] : sent[c][i] = heard[c][place[i]]
        /\ \A k \in 1 .. read :
               Wanted(c, heard[c][k]) <=> \E i \in DOMAIN sent[c] : place[i] = k
  BY DEF WasSent
<1>2. ASSUME NEW k \in 1 .. read PROVE Wanted(c, heard[c][k])' <=> Wanted(c, heard[c][k])
  <2>1. heard[c][k] \in Messages /\ heard[c][k][2] <= Len(topic[heard[c][k][1]])
    BY ClientSequences DEF HeardPublished
  <2>2. topic'[heard[c][k][1]][heard[c][k][2]] = topic[heard[c][k][1]][heard[c][k][2]]
    BY <2>1 DEF TopicGrows
  <2> QED
    BY <2>2, heard'[c][k] = heard[c][k] DEF Wanted
<1>3. /\ place \in [DOMAIN sent'[c] -> 1 .. read]
      /\ \A i, j \in DOMAIN sent'[c] : i < j => place[i] < place[j]
      /\ \A i \in DOMAIN sent'[c] : sent'[c][i] = heard'[c][place[i]]
  BY <1>1
<1>4. \A k \in 1 .. read :
          Wanted(c, heard[c][k])' <=> \E i \in DOMAIN sent'[c] : place[i] = k
  BY <1>1, <1>2
<1> QED
  BY <1>3, <1>4 DEF WasSent

LEMMA StretchKept ==
  ASSUME LiveInv, NEW c \in Clients,
         NEW read \in 0 .. Len(heard[c]), NEW put \in 0 .. Len(heard[c]), TopicGrows,
         HeardPublished(c), Stretch(c, read, put),
         request'[c] = request[c], sent'[c] = sent[c], queue'[c] = queue[c],
         \A k \in 1 .. Len(heard[c]) : heard'[c][k] = heard[c][k],
         c \in bus'[HostOf(c)'] => put = Len(heard'[c])
  PROVE  Stretch(c, read, put)'
<1>1. Len(heard[c]) \in Nat
  BY ClientSequences
<1>2. WasSent(c, read)'
  BY <1>1, WasSentKept DEF Stretch
<1>3. \A i \in 1 .. put - read : read + i \in 1 .. Len(heard[c])
  BY <1>1
<1> QED
  BY <1>2, <1>3 DEF Stretch

\* A step that leaves the client alone, or ends its connection.
LEMMA ClientKept ==
  ASSUME LiveInv, NEW c \in Clients, Ordered(c), TopicGrows,
         \A r \in Replicas : bus'[r] \subseteq bus[r],
         \/ /\ UNCHANGED <<request[c], queue[c], sent[c], heard[c]>>
            /\ task'[c] = "none" => task[c] = "none"
            /\ Open(c)' => Open(c)
         \/ task'[c] = "none" /\ Blank(c)'
  PROVE  Ordered(c)'
<1>1. CASE task'[c] = "none" /\ Blank(c)'
  <2>1. Len(heard'[c]) = 0
    BY <1>1, EmptySeq DEF Blank
  <2> QED
    BY <1>1, <2>1 DEF Ordered, HeardPublished, Open, Live, Begun
<1>2. CASE /\ UNCHANGED <<request[c], queue[c], sent[c], heard[c]>>
           /\ task'[c] = "none" => task[c] = "none"
           /\ Open(c)' => Open(c)
  <2>1. HeardPublished(c)'
    BY <1>2, ClientSequences DEF Ordered, HeardPublished, TopicGrows
  <2>2. task'[c] = "none" => Blank(c)'
    BY <1>2 DEF Ordered, Blank
  <2>3. ASSUME Open(c)' PROVE \E read, put \in 0 .. Len(heard'[c]) : Stretch(c, read, put)'
    <3>1. PICK read \in 0 .. Len(heard[c]), put \in 0 .. Len(heard[c]) : Stretch(c, read, put)
      BY <1>2, <2>3 DEF Ordered
    <3>2. HostOf(c)' = HostOf(c) /\ HostOf(c) \in Replicas
      BY <1>2, <2>3 DEF LiveInv, ClientTypes, HostOf, Open, Live, Begun
    <3>3. c \in bus'[HostOf(c)'] => put = Len(heard'[c])
      BY <1>2, <3>1, <3>2 DEF Stretch
    <3>4. Stretch(c, read, put)'
      BY <1>2, <3>1, <3>3, StretchKept DEF Ordered
    <3> QED
      BY <1>2, <3>4
  <2> QED
    BY <2>1, <2>2, <2>3 DEF Ordered
<1> QED
  BY <1>1, <1>2

LEMMA TopicGrowth ==
  ASSUME LiveInv, topic' = topic \/ \E p \in Partitions : Produce(p) PROVE TopicGrows
<1>1. CASE topic' = topic
  BY <1>1 DEF TopicGrows
<1>2. ASSUME NEW p \in Partitions, Produce(p) PROVE TopicGrows
  <2>1. PICK kind \in Kinds : topic' = [topic EXCEPT ![p] = Append(@, kind)]
    BY <1>2 DEF Produce
  <2>2. topic \in [Partitions -> Seq(Kinds)] /\ topic[p] \in Seq(Kinds) /\ Len(topic[p]) \in Nat
    BY DEF LiveInv, GroupTypes
  <2>3. /\ Len(Append(topic[p], kind)) = Len(topic[p]) + 1
        /\ \A i \in 1 .. Len(topic[p]) : Append(topic[p], kind)[i] = topic[p][i]
    BY <2>2, AppendProperties
  <2>4. \A q \in Partitions : topic'[q] = IF q = p THEN Append(topic[p], kind) ELSE topic[q]
    BY <2>1, <2>2
  <2>5. ASSUME NEW m \in Messages, m[2] <= Len(topic[m[1]])
        PROVE  m[2] <= Len(topic'[m[1]]) /\ topic'[m[1]][m[2]] = topic[m[1]][m[2]]
    <3>1. m[1] \in Partitions /\ m[2] \in Nat /\ 1 <= m[2]
      BY DEF Messages
    <3>2. CASE m[1] = p
      <4>1. m[2] \in 1 .. Len(topic[p])
        BY <2>2, <2>5, <3>1, <3>2
      <4>2. topic'[p] = Append(topic[p], kind)
        BY <2>4
      <4> QED
        BY <2>2, <2>3, <3>2, <4>1, <4>2
    <3>3. CASE m[1] # p
      BY <2>4, <2>5, <3>1, <3>3
    <3> QED
      BY <3>2, <3>3
  <2> QED
    BY <2>5 DEF TopicGrows
<1> QED
  BY <1>1, <1>2

\* A message reaches the queue of a client of the bus, or its place in the bus
\* is given up with it.
LEMMA PublishOrdered ==
  ASSUME LiveInv, NEW r \in Replicas, NEW p \in Partitions, Publish(r, p),
         NEW c \in Clients, Ordered(c)
  PROVE  Ordered(c)'
<1> DEFINE message == <<p, position[p]>>
<1>1. /\ position[p] <= Len(topic[p])
      /\ queue'[c] = IF c \in bus[r] \ FullQueues(r) THEN Append(queue[c], message) ELSE queue[c]
      /\ bus' = [bus EXCEPT ![r] = @ \ FullQueues(r)]
      /\ heard'[c] = IF task[c] # "none" /\ HostOf(c) = r THEN Append(heard[c], message) ELSE heard[c]
      /\ UNCHANGED <<topic, request, task, sent>>
  BY DEF Publish, Removed, Put
<1>2. message \in Messages /\ message[1] = p /\ message[2] = position[p]
  BY <1>1, StreamConstants DEF LiveInv, GroupTypes, Messages
<1> HIDE DEF message
<1>3. TopicGrows /\ HeardPublished(c)
  BY <1>1, TopicGrowth DEF Ordered
<1>4. /\ Len(Append(heard[c], message)) = Len(heard[c]) + 1
      /\ \A i \in 1 .. Len(heard[c]) : Append(heard[c], message)[i] = heard[c][i]
      /\ Append(heard[c], message)[Len(heard[c]) + 1] = message
      /\ Len(Append(queue[c], message)) = Len(queue[c]) + 1
      /\ \A i \in 1 .. Len(queue[c]) : Append(queue[c], message)[i] = queue[c][i]
      /\ Append(queue[c], message)[Len(queue[c]) + 1] = message
  BY <1>2, ClientSequences, AppendProperties
<1>5. HeardPublished(c)'
  <2>1. \A i \in 1 .. Len(heard[c]) : heard'[c][i] = heard[c][i]
    BY <1>1, <1>4
  <2>2. CASE heard'[c] = heard[c]
    BY <1>1, <1>3, <2>2 DEF HeardPublished
  <2>3. CASE heard'[c] = Append(heard[c], message)
    <3>1. ASSUME NEW i \in 1 .. Len(heard'[c])
          PROVE  heard'[c][i][2] <= Len(topic[heard'[c][i][1]])
      <4>1. CASE i = Len(heard[c]) + 1
        BY <1>1, <1>2, <1>4, <2>3, <4>1
      <4>2. CASE i # Len(heard[c]) + 1
        BY <1>3, <1>4, <2>1, <2>3, <4>2, ClientSequences DEF HeardPublished
      <4> QED
        BY <4>1, <4>2
    <3> QED
      BY <1>1, <3>1 DEF HeardPublished
  <2> QED
    BY <1>1, <2>2, <2>3
<1>6. c \in bus[r] => task[c] # "none" /\ HostOf(c) = r
  BY DEF LiveInv, Gauged, Served
<1>7. task'[c] = "none" => Blank(c)'
  BY <1>1, <1>6 DEF Ordered, Blank
<1>8. ASSUME Open(c)' PROVE \E read, put \in 0 .. Len(heard'[c]) : Stretch(c, read, put)'
  <2>1. PICK read \in 0 .. Len(heard[c]), put \in 0 .. Len(heard[c]) : Stretch(c, read, put)
    BY <1>1, <1>8 DEF Ordered, Open
  <2>2. HostOf(c)' = HostOf(c) /\ HostOf(c) \in Replicas /\ task[c] # "none"
    BY <1>1, <1>8 DEF LiveInv, ClientTypes, HostOf, Open, Live, Begun
  <2>3. /\ \A k \in 1 .. Len(heard[c]) : heard'[c][k] = heard[c][k]
        /\ read \in 0 .. Len(heard'[c]) /\ put \in 0 .. Len(heard'[c])
    BY <1>1, <1>4, ClientSequences
  <2>4. \A s \in Replicas : bus'[s] = IF s = r THEN bus[r] \ FullQueues(r) ELSE bus[s]
    BY <1>1 DEF LiveInv, ReplicaTypes
  <2>5. CASE c \in bus[r] \ FullQueues(r)
    <3>1. /\ queue'[c] = Append(queue[c], message) /\ heard'[c] = Append(heard[c], message)
          /\ put = Len(heard[c]) /\ Len(queue[c]) = put - read
      BY <1>1, <1>6, <2>1, <2>5 DEF Stretch
    <3>2. WasSent(c, read)'
      <4>1. WasSent(c, read) /\ request'[c] = request[c] /\ sent'[c] = sent[c]
        BY <1>1, <2>1 DEF Stretch
      <4>2. \A k \in 1 .. read : heard'[c][k] = heard[c][k]
        BY <2>3, ClientSequences
      <4> QED
        BY <1>3, <4>1, <4>2, WasSentKept
    <3>3. /\ Len(heard[c]) \in Nat /\ Len(queue[c]) \in Nat
          /\ read \in Nat /\ put \in Nat /\ read <= put
      BY <3>1, ClientSequences
    <3>4. ASSUME NEW i \in 1 .. (put + 1) - read PROVE queue'[c][i] = heard'[c][read + i]
      <4>1. CASE i = Len(queue[c]) + 1
        BY <1>4, <3>1, <3>3, <4>1
      <4>2. CASE i # Len(queue[c]) + 1
        <5>1. i \in 1 .. put - read
          <6>1. i # (put - read) + 1
            BY <3>1, <4>2
          <6> QED
            BY <3>3, <6>1
        <5>2. i \in 1 .. Len(queue[c]) /\ read + i \in 1 .. put
          BY <3>1, <3>3, <5>1
        <5>3. read + i \in 1 .. Len(heard[c])
          BY <3>1, <5>2
        <5>4. queue[c][i] = heard[c][read + i]
          BY <2>1, <5>1 DEF Stretch
        <5> QED
          BY <1>4, <2>3, <3>1, <5>2, <5>3, <5>4
      <4> QED
        BY <4>1, <4>2
    <3>5. put + 1 = Len(heard'[c]) /\ Len(queue'[c]) = (put + 1) - read
      BY <1>4, <3>1, <3>3
    <3>6. Stretch(c, read, put + 1)'
      BY <3>2, <3>4, <3>5 DEF Stretch
    <3>7. read \in 0 .. Len(heard'[c]) /\ put + 1 \in 0 .. Len(heard'[c])
      BY <2>3, <3>3, <3>5
    <3> QED
      BY <3>6, <3>7
  <2>6. CASE c \notin bus[r] \ FullQueues(r)
    <3>1. queue'[c] = queue[c]
      BY <1>1, <2>6
    <3>2. c \in bus'[HostOf(c)'] => put = Len(heard'[c])
      BY <1>1, <2>1, <2>2, <2>4, <2>6 DEF Stretch
    <3>3. Stretch(c, read, put)'
      BY <1>1, <1>3, <2>1, <2>3, <3>1, <3>2, StretchKept
    <3> QED
      BY <2>3, <3>3
  <2> QED
    BY <2>5, <2>6
<1> QED
  BY <1>5, <1>7, <1>8 DEF Ordered

LEMMA ConnectOrdered ==
  ASSUME LiveInv, NEW d \in Clients, NEW r \in Replicas, Connect(d, r),
         NEW c \in Clients, Ordered(c)
  PROVE  Ordered(c)'
<1>1. PICK filter \in Filters : request' = [request EXCEPT ![d] = [host |-> r, filter |-> filter]]
  BY DEF Connect
<1>2. /\ task[d] = "none"
      /\ task' = [task EXCEPT ![d] = "accepted"]
      /\ bus' = [bus EXCEPT ![r] = @ \cup {d}]
      /\ UNCHANGED <<topic, queue, sent, heard>>
  BY DEF Connect, groupVars
<1>3. TopicGrows
  BY <1>2, TopicGrowth
<1>4. CASE c = d
  <2>1. Blank(c) /\ task'[c] = "accepted"
    BY <1>2, <1>4 DEF LiveInv, ClientTypes, Ordered
  <2>2. Len(heard'[c]) = 0 /\ Len(queue'[c]) = 0 /\ DOMAIN sent'[c] = {}
    <3>1. sent'[c] = <<>> /\ DOMAIN <<>> = {}
      BY <1>2, <2>1 DEF Blank
    <3> QED
      BY <1>2, <2>1, <3>1, EmptySeq DEF Blank
  <2>3. WasSent(c, 0)'
    <3>1. PICK place \in [DOMAIN sent'[c] -> 1 .. 0] : TRUE
      <4>1. [i \in {} |-> i] \in [{} -> 1 .. 0]
        OBVIOUS
      <4> QED
        BY <2>2, <4>1
    <3>2. /\ \A i, j \in DOMAIN sent'[c] : i < j => place[i] < place[j]
          /\ \A i \in DOMAIN sent'[c] : sent'[c][i] = heard'[c][place[i]]
          /\ \A k \in 1 .. 0 : Wanted(c, heard[c][k])' <=> \E i \in DOMAIN sent'[c] : place[i] = k
      BY <2>2
    <3> QED
      BY <3>1, <3>2, Zenon DEF WasSent
  <2>4. Stretch(c, 0, 0)'
    BY <2>2, <2>3 DEF Stretch
  <2> QED
    BY <2>1, <2>2, <2>4 DEF Ordered, HeardPublished
<1>5. CASE c # d
  <2>1. UNCHANGED <<request[c], task[c], queue[c], sent[c], heard[c]>>
    BY <1>1, <1>2, <1>5 DEF LiveInv, ClientTypes
  <2>2. HeardPublished(c)' /\ (task'[c] = "none" => Blank(c)')
    BY <1>2, <2>1 DEF Ordered, HeardPublished, Blank
  <2>3. ASSUME Open(c)' PROVE \E read, put \in 0 .. Len(heard'[c]) : Stretch(c, read, put)'
    <3>1. PICK read \in 0 .. Len(heard[c]), put \in 0 .. Len(heard[c]) : Stretch(c, read, put)
      BY <2>1, <2>3 DEF Ordered, Open
    <3>2. HostOf(c)' = HostOf(c) /\ HostOf(c) \in Replicas
      BY <2>1, <2>3 DEF LiveInv, ClientTypes, HostOf, Open, Live, Begun
    <3>3. c \in bus'[HostOf(c)'] => c \in bus[HostOf(c)]
      BY <1>2, <1>5, <3>2 DEF LiveInv, ReplicaTypes
    <3>4. Stretch(c, read, put)'
      <4>1. c \in bus'[HostOf(c)'] => put = Len(heard'[c])
        BY <2>1, <3>1, <3>3 DEF Stretch
      <4> QED
        BY <1>3, <2>1, <3>1, <4>1, StretchKept DEF Ordered
    <3> QED
      BY <2>1, <3>4
  <2> QED
    BY <2>2, <2>3 DEF Ordered
<1> QED
  BY <1>4, <1>5

\* One more message sent, at one more place read.
LEMMA OneMorePlace ==
  ASSUME NEW n \in Nat, NEW read \in Nat, NEW place \in [1 .. n -> 1 .. read],
         \A i, j \in 1 .. n : i < j => place[i] < place[j]
  PROVE  \E next \in [1 .. n + 1 -> 1 .. read + 1] :
             /\ \A i, j \in 1 .. n + 1 : i < j => next[i] < next[j]
             /\ \A i \in 1 .. n : next[i] = place[i]
             /\ next[n + 1] = read + 1
             /\ \A k \in 1 .. read :
                    (\E i \in 1 .. n + 1 : next[i] = k) <=> \E i \in 1 .. n : place[i] = k
<1> DEFINE next == [i \in 1 .. n + 1 |-> IF i = n + 1 THEN read + 1 ELSE place[i]]
<1>1. ASSUME NEW i \in 1 .. n + 1
      PROVE  IF i = n + 1 THEN next[i] = read + 1
             ELSE i \in 1 .. n /\ next[i] = place[i] /\ place[i] \in 1 .. read
  OBVIOUS
<1>2. n + 1 \in 1 .. n + 1 /\ \A i \in 1 .. n : i \in 1 .. n + 1 /\ i # n + 1
  OBVIOUS
<1>3. next \in [1 .. n + 1 -> 1 .. read + 1]
  <2>1. ASSUME NEW i \in 1 .. n + 1
        PROVE  (IF i = n + 1 THEN read + 1 ELSE place[i]) \in 1 .. read + 1
    BY <1>1
  <2> QED
    BY <2>1
<1> HIDE DEF next
<1>4. \A i, j \in 1 .. n + 1 : i < j => next[i] < next[j]
  <2>1. TAKE i, j \in 1 .. n + 1
  <2>2. CASE j = n + 1
    BY <1>1, <2>2
  <2>3. CASE j # n + 1
    BY <1>1, <2>3
  <2> QED
    BY <2>2, <2>3
<1>5. ASSUME NEW k \in 1 .. read
      PROVE  (\E i \in 1 .. n + 1 : next[i] = k) <=> \E i \in 1 .. n : place[i] = k
  BY <1>1, <1>2
<1> QED
  BY <1>1, <1>2, <1>3, <1>4, <1>5

\* The generator takes the first message of its queue: it has read one more,
\* and sends it or passes it over.
LEMMA GetOrdered ==
  ASSUME LiveInv, NEW c \in Clients, Get(c), Ordered(c) PROVE Ordered(c)'
<1>1. /\ task[c] = "waiting" /\ queue[c] # <<>> /\ task'[c] \in {"yielded", "checking"}
      /\ queue'[c] = Tail(queue[c])
      /\ \/ Wanted(c, Head(queue[c])) /\ sent'[c] = Append(sent[c], Head(queue[c]))
         \/ ~Wanted(c, Head(queue[c])) /\ sent'[c] = sent[c]
      /\ UNCHANGED <<topic, bus, request, heard>>
  <2>1. task \in [Clients -> Tasks] /\ queue \in [Clients -> Seq(Messages)] /\ sent \in [Clients -> Seq(Messages)]
    BY DEF LiveInv, ClientTypes, QueueTypes
  <2> QED
    BY <2>1 DEF Get, groupVars, replicaVars
<1>2. Open(c) /\ task'[c] # "none" /\ HeardPublished(c)'
  BY <1>1 DEF Open, Live, Begun, Ordered, HeardPublished
<1>3. PICK read \in 0 .. Len(heard[c]), put \in 0 .. Len(heard[c]) : Stretch(c, read, put)
  BY <1>2 DEF Ordered
<1>4. /\ Len(queue[c]) \in Nat \ {0} /\ Len(heard[c]) \in Nat /\ Len(sent[c]) \in Nat
      /\ DOMAIN sent[c] = 1 .. Len(sent[c])
  BY <1>1, ClientSequences, EmptySeq
<1>5. /\ Len(Tail(queue[c])) = Len(queue[c]) - 1
      /\ \A i \in 1 .. Len(queue[c]) - 1 : Tail(queue[c])[i] = queue[c][i + 1]
      /\ Head(queue[c]) = queue[c][1] /\ Head(queue[c]) \in Messages
  BY <1>1, ClientSequences, HeadTailProperties
<1>6. /\ read + 1 \in 0 .. Len(heard[c]) /\ Len(queue[c]) = put - read
      /\ Head(queue[c]) = heard[c][read + 1]
  BY <1>3, <1>4, <1>5 DEF Stretch
<1>7. PICK place \in [DOMAIN sent[c] -> 1 .. read] :
        /\ \A i, j \in DOMAIN sent[c] : i < j => place[i] < place[j]
        /\ \A i \in DOMAIN sent[c] : sent[c][i] = heard[c][place[i]]
        /\ \A k \in 1 .. read :
               Wanted(c, heard[c][k]) <=> \E i \in DOMAIN sent[c] : place[i] = k
  BY <1>3 DEF Stretch, WasSent
<1>8. \A i \in DOMAIN sent[c] : place[i] \in 1 .. read
  BY <1>7
<1>9. \A k \in 1 .. read + 1 : heard'[c][k] = heard[c][k] /\ (Wanted(c, heard[c][k])' <=> Wanted(c, heard[c][k]))
  BY <1>1 DEF Wanted
<1>10. WasSent(c, read + 1)'
  <2>1. CASE ~Wanted(c, Head(queue[c])) /\ sent'[c] = sent[c]
    <3>1. /\ place \in [DOMAIN sent'[c] -> 1 .. read + 1]
          /\ \A i, j \in DOMAIN sent'[c] : i < j => place[i] < place[j]
          /\ \A i \in DOMAIN sent'[c] : sent'[c][i] = heard'[c][place[i]]
      BY <1>1, <1>7, <1>8, <2>1
    <3>2. ASSUME NEW k \in 1 .. read + 1
          PROVE  Wanted(c, heard[c][k])' <=> \E i \in DOMAIN sent'[c] : place[i] = k
      <4>1. CASE k = read + 1
        BY <1>6, <1>8, <1>9, <2>1, <4>1
      <4>2. CASE k # read + 1
        BY <1>7, <1>9, <2>1, <4>2
      <4> QED
        BY <4>1, <4>2
    <3> QED
      BY <3>1, <3>2 DEF WasSent
  <2>2. CASE Wanted(c, Head(queue[c])) /\ sent'[c] = Append(sent[c], Head(queue[c]))
    <3>1. PICK n \in Nat : n = Len(sent[c])
      BY <1>4
    <3>2. /\ DOMAIN sent'[c] = 1 .. n + 1 /\ DOMAIN sent[c] = 1 .. n
          /\ \A i \in 1 .. n : sent'[c][i] = sent[c][i]
          /\ sent'[c][n + 1] = Head(queue[c])
      BY <1>4, <1>5, <2>2, <3>1, ClientSequences, AppendProperties, LenProperties
    <3>3. read \in Nat
      BY <1>4
    <3>4. PICK next \in [1 .. n + 1 -> 1 .. read + 1] :
             /\ \A i, j \in 1 .. n + 1 : i < j => next[i] < next[j]
             /\ \A i \in 1 .. n : next[i] = place[i]
             /\ next[n + 1] = read + 1
             /\ \A k \in 1 .. read :
                    (\E i \in 1 .. n + 1 : next[i] = k) <=> \E i \in 1 .. n : place[i] = k
      <4>1. place \in [1 .. n -> 1 .. read] /\ \A i, j \in 1 .. n : i < j => place[i] < place[j]
        BY <1>7, <3>2
      <4> QED
        BY <3>3, <4>1, OneMorePlace, Zenon
    <3>5. \A i \in 1 .. n + 1 : sent'[c][i] = heard'[c][next[i]]
      <4>1. TAKE i \in 1 .. n + 1
      <4>2. CASE i = n + 1
        BY <1>1, <1>6, <3>2, <3>4, <4>2
      <4>3. CASE i # n + 1
        <5>1. i \in 1 .. n
          BY <4>3
        <5> QED
          BY <1>1, <1>7, <3>2, <3>4, <5>1
      <4> QED
        BY <4>2, <4>3
    <3>6. ASSUME NEW k \in 1 .. read + 1
          PROVE  Wanted(c, heard[c][k])' <=> \E i \in 1 .. n + 1 : next[i] = k
      <4>1. CASE k = read + 1
        <5>1. n + 1 \in 1 .. n + 1
          BY <3>1
        <5>2. Wanted(c, heard[c][k])
          BY <1>6, <2>2, <4>1
        <5> QED
          BY <1>9, <3>4, <4>1, <5>1, <5>2
      <4>2. CASE k # read + 1
        <5>1. k \in 1 .. read
          BY <3>3, <4>2
        <5>2. Wanted(c, heard[c][k])' <=> \E i \in 1 .. n : place[i] = k
          BY <1>7, <1>9, <3>2, <5>1
        <5> QED
          BY <3>4, <5>1, <5>2
      <4> QED
        BY <4>1, <4>2
    <3>7. /\ next \in [DOMAIN sent'[c] -> 1 .. read + 1]
          /\ \A i, j \in DOMAIN sent'[c] : i < j => next[i] < next[j]
          /\ \A i \in DOMAIN sent'[c] : sent'[c][i] = heard'[c][next[i]]
          /\ \A k \in 1 .. read + 1 :
                 Wanted(c, heard[c][k])' <=> \E i \in DOMAIN sent'[c] : next[i] = k
      BY <3>2, <3>4, <3>5, <3>6
    <3> QED
      BY <3>7, Zenon DEF WasSent
  <2> QED
    BY <1>1, <2>1, <2>2
<1>11. Stretch(c, read + 1, put)'
  <2>1. Len(queue'[c]) = put - (read + 1)
    BY <1>1, <1>5, <1>6
  <2>2. ASSUME NEW i \in 1 .. put - (read + 1) PROVE queue'[c][i] = heard'[c][(read + 1) + i]
    <3>1. i + 1 \in 1 .. put - read /\ i \in 1 .. Len(queue[c]) - 1 /\ (read + 1) + i = read + (i + 1)
      BY <1>6
    <3>2. queue[c][i + 1] = heard[c][read + (i + 1)]
      BY <1>3, <3>1 DEF Stretch
    <3> QED
      BY <1>1, <1>5, <3>1, <3>2
  <2>3. c \in bus'[HostOf(c)'] => put = Len(heard'[c])
    BY <1>1, <1>3 DEF Stretch, HostOf
  <2> QED
    BY <1>10, <2>1, <2>2, <2>3 DEF Stretch
<1> QED
  BY <1>1, <1>2, <1>6, <1>11 DEF Ordered

LEMMA OtherGets ==
  ASSUME LiveInv, NEW d \in Clients, Get(d), NEW c \in Clients, c # d, Ordered(c)
  PROVE  Ordered(c)'
<1>1. /\ UNCHANGED <<topic, bus, request, heard>>
      /\ queue'[c] = queue[c] /\ sent'[c] = sent[c] /\ task'[c] = task[c]
  BY DEF Get, groupVars, replicaVars, LiveInv, QueueTypes, ClientTypes
<1> QED
  BY <1>1, TopicGrowth, ClientKept DEF Open

LEMMA OrderInvStep == LiveInv /\ OrderInv /\ [Next]_vars => OrderInv'
<1> SUFFICES ASSUME LiveInv, OrderInv, [Next]_vars, NEW c \in Clients PROVE Ordered(c)'
  BY DEF OrderInv
<1>1. Ordered(c) /\ task[c] \in Tasks
  BY DEF OrderInv, LiveInv, ClientTypes
<1>2. ASSUME UNCHANGED clientVars, UNCHANGED bus,
             topic' = topic \/ \E p \in Partitions : Produce(p)
      PROVE  Ordered(c)'
  BY <1>1, <1>2, TopicGrowth, ClientKept DEF clientVars, Open
<1>3. CASE UNCHANGED vars
  BY <1>2, <1>3 DEF vars, groupVars, replicaVars
<1>4. ASSUME NEW p \in Partitions, Produce(p) \/ AutoCommit(p) PROVE Ordered(c)'
  BY <1>2, <1>4 DEF Produce, AutoCommit, replicaVars
<1>5. ASSUME NEW r \in Replicas, StartConsumer(r) \/ ConsumerFails(r) \/ StartReplica(r)
      PROVE  Ordered(c)'
  BY <1>2, <1>5 DEF StartConsumer, ConsumerFails, StartReplica, Rebalance, groupVars
<1>6. ASSUME NEW d \in Clients,
             \/ Begin(d) \/ Resumed(d) \/ AwaitMessage(d) \/ Heartbeat(d) \/ Disconnect(d)
             \/ Cancel(d) /\ ~Finish(d)
      PROVE  Ordered(c)'
  <2>1. /\ UNCHANGED <<topic, bus, request, queue, sent, heard>>
        /\ \/ task' = task
           \/ \E to \in Tasks \ {"none"} : task' = [task EXCEPT ![d] = to] /\ (to \in Live => task[d] \in Live)
    BY <1>6 DEF Begin, Resumed, AwaitMessage, Heartbeat, Disconnect, Cancel, groupVars, replicaVars,
                Tasks, Live, Begun
  <2>2. (task'[c] = "none" => task[c] = "none") /\ (Open(c)' => Open(c))
    BY <2>1 DEF LiveInv, ClientTypes, Open, Live, Begun
  <2> QED
    BY <1>1, <2>1, <2>2, TopicGrowth, ClientKept
<1>7. ASSUME NEW ended \in SUBSET Clients, Forgotten(ended),
             topic' = topic, \A r \in Replicas : bus'[r] \subseteq bus[r]
      PROVE  Ordered(c)'
  <2>1. CASE c \in ended
    <3>1. task'[c] = "none" /\ Blank(c)'
      BY <1>7, <2>1 DEF Forgotten, Blank
    <3> QED
      BY <1>1, <1>7, <3>1, TopicGrowth, ClientKept
  <2>2. CASE c \notin ended
    <3>1. UNCHANGED <<request[c], task[c], queue[c], sent[c], heard[c]>>
      BY <1>7, <2>2 DEF Forgotten
    <3> QED
      BY <1>1, <1>7, <3>1, TopicGrowth, ClientKept DEF Open
  <2> QED
    BY <2>1, <2>2
<1>8. ASSUME NEW d \in Clients, Finish(d) PROVE Ordered(c)'
  <2>1. Forgotten({d}) /\ topic' = topic /\ bus' = [bus EXCEPT ![HostOf(d)] = bus[HostOf(d)] \ {d}]
    BY <1>8 DEF Finish, Unsubscribed, groupVars
  <2>2. \A r \in Replicas : bus'[r] \subseteq bus[r]
    BY <2>1 DEF LiveInv, ReplicaTypes
  <2> QED
    BY <1>7, <2>1, <2>2
<1>9. ASSUME NEW r \in Replicas, StopReplica(r) PROVE Ordered(c)'
  <2>1. /\ topic' = topic /\ bus' = [bus EXCEPT ![r] = {}]
        /\ Forgotten({d \in Clients : task[d] # "none" /\ HostOf(d) = r})
    BY <1>9 DEF StopReplica, Rebalance, groupVars
  <2>2. \A s \in Replicas : bus'[s] \subseteq bus[s]
    BY <2>1 DEF LiveInv, ReplicaTypes
  <2> QED
    BY <1>7, <2>1, <2>2
<1>10. CASE Next
  BY <1>1, <1>4, <1>5, <1>6, <1>8, <1>9, <1>10, PublishOrdered, ConnectOrdered, GetOrdered, OtherGets
     DEF Next, GroupStep, ReplicaStep, ClientStep, FindDisconnected
<1> QED
  BY <1>3, <1>10

\* What a connected client was sent, and what waits for it, is one unbroken
\* stretch of what its replica published, whatever the other clients, the
\* replicas and the group do.
THEOREM StreamInOrder == Spec => []InOrder
<1>1. ASSUME LiveInv, OrderInv PROVE InOrder
  <2> SUFFICES ASSUME NEW c \in Clients, Open(c)
               PROVE  \E read, put \in 0 .. Len(heard[c]) :
                          /\ WasSent(c, read)
                          /\ queue[c] = SubSeq(heard[c], read + 1, put)
                          /\ c \in bus[HostOf(c)] => put = Len(heard[c])
    BY DEF InOrder
  <2>1. PICK read \in 0 .. Len(heard[c]), put \in 0 .. Len(heard[c]) : Stretch(c, read, put)
    BY <1>1 DEF OrderInv, Ordered
  <2>2. /\ queue[c] \in Seq(Messages) /\ Len(queue[c]) \in Nat /\ Len(heard[c]) \in Nat
        /\ \A i \in read + 1 .. put : heard[c][i] \in Messages
    BY <1>1, ClientSequences
  <2>3. /\ SubSeq(heard[c], read + 1, put) \in Seq(Messages)
        /\ Len(SubSeq(heard[c], read + 1, put)) = put - read
        /\ \A i \in 1 .. put - read : SubSeq(heard[c], read + 1, put)[i] = heard[c][read + i]
    <3>1. read + 1 \in Int /\ put \in Int /\ Len(queue[c]) = put - read
      BY <2>1, <2>2 DEF Stretch
    <3>2. /\ SubSeq(heard[c], read + 1, put) \in Seq(Messages)
          /\ Len(SubSeq(heard[c], read + 1, put))
               = IF read + 1 <= put THEN put - (read + 1) + 1 ELSE 0
          /\ \A i \in 1 .. put - (read + 1) + 1 :
                 SubSeq(heard[c], read + 1, put)[i] = heard[c][(read + 1) + i - 1]
      BY <2>2, <3>1, SubSeqProperties
    <3> QED
      BY <2>2, <3>1, <3>2
  <2>4. queue[c] = SubSeq(heard[c], read + 1, put)
    <3>1. PICK t \in Seq(Messages) : t = SubSeq(heard[c], read + 1, put)
      BY <2>3
    <3>2. Len(queue[c]) = Len(t) /\ \A i \in 1 .. Len(queue[c]) : queue[c][i] = t[i]
      BY <2>1, <2>3, <3>1 DEF Stretch
    <3>3. queue[c] = t
      BY <2>2, <3>2, SeqEqual
    <3> QED
      BY <3>1, <3>3
  <2> QED
    BY <2>1, <2>4 DEF Stretch
<1>2. Spec => []OrderInv
  BY OrderInvInit, OrderInvStep, LiveInvHolds, PTL DEF Spec
<1> QED
  BY <1>1, <1>2, LiveInvHolds, PTL
=============================================================================
