-------------------------- MODULE ApiRequestsProofs --------------------------
(***************************************************************************)
(* The request limit and the acknowledgements, for every number of         *)
(* replicas, requests and subjects, every limit, window and lag.           *)
(***************************************************************************)
EXTENDS ApiRequests, FiniteSetTheorems, TLAPS

\* Windows and histories are finite, so that they can be counted.
Finite ==
    \A s \in Subjects : IsFiniteSet(entries[s]) /\ IsFiniteSet(EntriesOf(granted[s]))

\* A script runs at most MaxLag after its request has read the clock.
Fresh == \A q \in Requests : step[q] = "evaluate" => now <= clock[q] + MaxLag

\* What passed the limit is in the window as long as its entry is.
Kept ==
    \A s \in Subjects : \A g \in granted[s] :
        /\ g.at <= g.entry.score + MaxLag
        /\ g.entry.score > now - Window => g.entry \in entries[s]

\* What the window holds passed the limit, unless no request can still see it.
Backed ==
    \A s \in Subjects : \A e \in entries[s] :
        e.score > now - Window - MaxLag => e \in EntriesOf(granted[s])

\* A late request is about an alert a client was told of.
Told == \A q \in late : request[q].alert \in told

RequestInv == TypeOK /\ Finite /\ Fresh /\ Kept /\ Backed /\ Told

-----------------------------------------------------------------------------
\* The initial state.
LEMMA RequestInvInit == Init => RequestInv
<1> SUFFICES ASSUME Init PROVE RequestInv
  OBVIOUS
<1> USE ApiConstants DEF Init
<1>1. IsFiniteSet({}) /\ Cardinality({}) = 0
  BY FS_EmptySet
<1>2. TypeOK
  <2>1. /\ entries \in [Subjects -> SUBSET Entry]
        /\ \A s \in Subjects : Cardinality(entries[s]) <= Limit
        /\ \A s \in Subjects : \A e \in entries[s] : e.score <= now
        /\ granted \in [Subjects -> SUBSET [at : 0 .. now, entry : Entry]]
    BY <1>1
  <2>2. /\ request \in [Requests -> [replica : Replicas, subject : Subjects,
                                     alert : Alerts \cup {NoAlert}] \cup {NoRequest}]
        /\ step \in [Requests -> Awaits \cup Answers]
        /\ \A q \in Requests : request[q] = NoRequest /\ step[q] = "none"
    BY DEF Awaits, Answers
  <2>3. /\ clock \in [Requests -> 0 .. now]
        /\ now \in 0 .. MaxTime /\ restarts \in 0 .. MaxRestarts
        /\ acks \subseteq Alerts /\ told \subseteq acks
        /\ late \subseteq Requests
    OBVIOUS
  <2>4. cached \in [Replicas -> BOOLEAN] /\ loaded \in BOOLEAN
    OBVIOUS
  <2> QED
    BY <2>1, <2>2, <2>3, <2>4 DEF TypeOK
<1>3. Finite
  BY <1>1 DEF Finite, EntriesOf
<1>4. Fresh /\ Kept /\ Backed /\ Told
  BY DEF Fresh, Kept, Backed, Told
<1> QED
  BY <1>2, <1>3, <1>4 DEF RequestInv

-----------------------------------------------------------------------------
\* Pruning takes a part of the window.
LEMMA PrunedPart ==
  ASSUME TypeOK, Finite, NEW q \in Requests, step[q] = "evaluate"
  PROVE  /\ request[q].subject \in Subjects
         /\ Pruned(q) \subseteq entries[request[q].subject]
         /\ IsFiniteSet(Pruned(q))
         /\ Cardinality(Pruned(q)) \in Nat
         /\ Cardinality(Pruned(q)) <= Limit
<1>1. request[q] \in [replica : Replicas, subject : Subjects, alert : Alerts \cup {NoAlert}]
  BY DEF TypeOK
<1>2. request[q].subject \in Subjects
  BY <1>1
<1>3. Pruned(q) \subseteq entries[request[q].subject]
  BY DEF Pruned
<1>4. IsFiniteSet(entries[request[q].subject])
  BY <1>2 DEF Finite
<1>5. /\ IsFiniteSet(Pruned(q))
      /\ Cardinality(Pruned(q)) <= Cardinality(entries[request[q].subject])
      /\ Cardinality(Pruned(q)) \in Nat
      /\ Cardinality(entries[request[q].subject]) \in Nat
  BY <1>3, <1>4, FS_Subset, FS_CardinalityType
<1>6. Cardinality(entries[request[q].subject]) <= Limit
  BY <1>2 DEF TypeOK
<1> QED
  BY <1>2, <1>3, <1>5, <1>6, ApiConstants

\* The entry a request leaves in the window, and in the history.
LEMMA AdmittedEntry ==
  ASSUME TypeOK, Finite, NEW q \in Requests, Admit(q)
  PROVE  \E s \in Subjects, e \in Entry :
           /\ s = request[q].subject
           /\ e.score = clock[q]
           /\ entries' = [entries EXCEPT ![s] = Pruned(q) \cup {e}]
           /\ granted' = [granted EXCEPT ![s] = @ \cup {[at |-> now, entry |-> e]}]
           /\ IsFiniteSet(Pruned(q) \cup {e})
           /\ Cardinality(Pruned(q) \cup {e}) <= Limit
<1>1. request[q].subject \in Subjects /\ IsFiniteSet(Pruned(q)) /\ Cardinality(Pruned(q)) \in Nat
  BY PrunedPart DEF Admit
<1>2. PICK draw \in Draws :
        LET s == request[q].subject
            e == [score |-> clock[q], draw |-> draw]
        IN  /\ entries' = [entries EXCEPT ![s] = Pruned(q) \cup {e}]
            /\ granted' = [granted EXCEPT ![s] = @ \cup {[at |-> now, entry |-> e]}]
  BY DEF Admit
<1> DEFINE e == [score |-> clock[q], draw |-> draw]
<1>3. e \in Entry
  BY ApiConstants DEF TypeOK, Entry
<1>4. /\ IsFiniteSet(Pruned(q) \cup {e})
      /\ \/ Cardinality(Pruned(q) \cup {e}) = Cardinality(Pruned(q))
         \/ Cardinality(Pruned(q) \cup {e}) = Cardinality(Pruned(q)) + 1
  BY <1>1, FS_AddElement
<1>5. Cardinality(Pruned(q) \cup {e}) <= Limit
  BY <1>1, <1>4, ApiConstants DEF Admit, HasRoom
<1> QED
  BY <1>1, <1>2, <1>3, <1>4, <1>5

-----------------------------------------------------------------------------
\* Steps that touch neither the clock, nor a window, nor its history.
Quiet == UNCHANGED <<now, entries, granted>>

\* They keep what is said of the windows.
LEMMA QuietKeeps ==
  ASSUME Finite, Kept, Backed, Quiet
  PROVE  Finite' /\ Kept' /\ Backed'
BY DEF Finite, Kept, Backed, Quiet, EntriesOf

\* The types, for the steps of a request.
LEMMA RequestTypeStep ==
  ASSUME RequestInv, NEW q \in Requests,
         \/ \E r \in Replicas : Arrive(q, r)
         \/ LoadScript(q) \/ NoScript(q) \/ RouteSteps(q) \/ Abort(q)
  PROVE  TypeOK' /\ Fresh' /\ Told' /\ Quiet
<1> USE ApiConstants DEF RequestInv, TypeOK, Fresh, Told, Quiet, Goto, Answers, Awaits, Waiting,
                redisVars, historyVars
<1>1. ASSUME NEW r \in Replicas, Arrive(q, r) PROVE TypeOK' /\ Fresh' /\ Told' /\ Quiet
  BY <1>1 DEF Arrive
<1>2. CASE LoadScript(q)
  BY <1>2 DEF LoadScript
<1>3. CASE NoScript(q)
  BY <1>3 DEF NoScript
<1>4. CASE Read(q)
  BY <1>4 DEF Read
<1>5. CASE CheckAck(q)
  BY <1>5 DEF CheckAck, Found
<1>6. CASE SetAck(q)
  BY <1>6 DEF SetAck
<1>7. CASE Abort(q)
  BY <1>7 DEF Abort
<1> QED
  BY <1>1, <1>2, <1>3, <1>4, <1>5, <1>6, <1>7 DEF RouteSteps

\* Admission keeps everything: the entry is new in both, and what is pruned was
\* out of every window that ends now or later.
LEMMA AdmitKeeps ==
  ASSUME RequestInv, NEW q \in Requests, Admit(q)
  PROVE  RequestInv'
<1> USE DEF RequestInv
<1>1. PICK s \in Subjects, e \in Entry :
        /\ s = request[q].subject
        /\ e.score = clock[q]
        /\ entries' = [entries EXCEPT ![s] = Pruned(q) \cup {e}]
        /\ granted' = [granted EXCEPT ![s] = @ \cup {[at |-> now, entry |-> e]}]
        /\ IsFiniteSet(Pruned(q) \cup {e})
        /\ Cardinality(Pruned(q) \cup {e}) <= Limit
  BY AdmittedEntry
<1>2. /\ step[q] = "evaluate"
      /\ step' = [step EXCEPT ![q] = "handle"]
      /\ UNCHANGED <<now, loaded, acks, cached, request, clock, told, late, restarts>>
  BY DEF Admit, Goto
<1>3. /\ now \in Nat /\ clock[q] \in Nat /\ clock[q] <= now /\ now <= clock[q] + MaxLag
      /\ MaxLag \in Nat /\ Window \in Nat /\ MaxLag < Window
  BY <1>2, ApiConstants DEF TypeOK, Fresh
<1>4. Pruned(q) = {f \in entries[s] : f.score > clock[q] - Window}
  BY <1>1 DEF Pruned
<1>5. /\ entries' \in [Subjects -> SUBSET Entry]
      /\ entries'[s] = Pruned(q) \cup {e}
      /\ granted'[s] = granted[s] \cup {[at |-> now, entry |-> e]}
      /\ \A t \in Subjects \ {s} : entries'[t] = entries[t] /\ granted'[t] = granted[t]
  BY <1>1, <1>4 DEF TypeOK
<1>6. TypeOK'
  <2>1. /\ \A t \in Subjects : Cardinality(entries'[t]) <= Limit
        /\ \A t \in Subjects : \A f \in entries'[t] : f.score <= now'
    BY <1>1, <1>2, <1>3, <1>4, <1>5 DEF TypeOK
  <2>2. granted' \in [Subjects -> SUBSET [at : 0 .. now', entry : Entry]]
    BY <1>1, <1>2, <1>3 DEF TypeOK
  <2>3. /\ step' \in [Requests -> Awaits \cup Answers]
        /\ \A p \in Requests : request'[p] = NoRequest <=> step'[p] = "none"
        /\ \A p \in Requests : step'[p] = "set" => request'[p].alert \in Alerts
    BY <1>2 DEF TypeOK, Awaits, Answers
  <2> QED
    BY <1>2, <1>5, <2>1, <2>2, <2>3 DEF TypeOK
<1>7. Finite'
  <2>1. EntriesOf(granted'[s]) = EntriesOf(granted[s]) \cup {e}
    <3> DEFINE new == [at |-> now, entry |-> e]
    <3>1. new.entry = e /\ granted'[s] = granted[s] \cup {new}
      BY <1>5
    <3> HIDE DEF new
    <3> QED
      BY <3>1 DEF EntriesOf
  <2>2. IsFiniteSet(EntriesOf(granted[s]) \cup {e})
    BY FS_AddElement DEF Finite
  <2> QED
    BY <1>1, <1>5, <2>1, <2>2 DEF Finite
<1>8. Fresh' /\ Told'
  BY <1>2 DEF Fresh, Told, TypeOK
<1>9. Kept'
  <2>1. ASSUME NEW t \in Subjects, NEW g \in granted'[t]
        PROVE  /\ g.at <= g.entry.score + MaxLag
               /\ g.entry.score > now - Window => g.entry \in entries'[t]
    <3>1. CASE g \in granted[t]
      <4>1. g.entry.score \in Nat
        BY <3>1 DEF TypeOK, Entry
      <4>2. g.entry.score > now - Window => g.entry.score > clock[q] - Window
        BY <1>3, <4>1
      <4> QED
        BY <1>1, <1>4, <1>5, <3>1, <4>2 DEF Kept
    <3>2. CASE t = s /\ g = [at |-> now, entry |-> e]
      BY <1>1, <1>3, <1>5, <3>2
    <3> QED
      BY <1>5, <2>1, <3>1, <3>2
  <2> QED
    BY <1>2, <2>1 DEF Kept
<1>10. Backed'
  <2>1. ASSUME NEW t \in Subjects, NEW f \in entries'[t], f.score > now - Window - MaxLag
        PROVE  \E g \in granted'[t] : g.entry = f
    <3> DEFINE new == [at |-> now, entry |-> e]
    <3>0. new.entry = e /\ granted'[s] = granted[s] \cup {new}
      BY <1>5
    <3> HIDE DEF new
    <3>1. CASE f \in entries[t]
      BY <1>5, <2>1, <3>0, <3>1 DEF Backed, EntriesOf
    <3>2. CASE t = s /\ f = e
      BY <3>0, <3>2
    <3> QED
      BY <1>4, <1>5, <2>1, <3>1, <3>2
  <2> QED
    BY <1>2, <2>1 DEF Backed, EntriesOf
<1> QED
  BY <1>6, <1>7, <1>8, <1>9, <1>10

\* A refusal prunes as an admission does.
LEMMA RefuseKeeps ==
  ASSUME RequestInv, NEW q \in Requests, Refuse(q)
  PROVE  RequestInv'
<1> USE DEF RequestInv
<1> DEFINE s == request[q].subject
<1>1. /\ s \in Subjects /\ Pruned(q) \subseteq entries[s] /\ IsFiniteSet(Pruned(q))
      /\ Cardinality(Pruned(q)) <= Limit
  BY PrunedPart DEF Refuse
<1>2. /\ step[q] = "evaluate"
      /\ entries' = [entries EXCEPT ![s] = Pruned(q)]
      /\ step' = [step EXCEPT ![q] = "limited"]
      /\ UNCHANGED <<now, loaded, acks, cached, request, clock, granted, told, late, restarts>>
  BY DEF Refuse, Goto, historyVars
<1>3. /\ now \in Nat /\ clock[q] \in Nat /\ clock[q] <= now
      /\ Window \in Nat
  BY <1>2, ApiConstants DEF TypeOK
<1>5. /\ entries' \in [Subjects -> SUBSET Entry]
      /\ entries'[s] = Pruned(q)
      /\ \A t \in Subjects \ {s} : entries'[t] = entries[t]
      /\ \A t \in Subjects : entries'[t] \subseteq entries[t]
  BY <1>1, <1>2 DEF TypeOK
<1>6. TypeOK'
  <2>1. /\ \A t \in Subjects : Cardinality(entries'[t]) <= Limit
        /\ \A t \in Subjects : \A f \in entries'[t] : f.score <= now'
    BY <1>1, <1>2, <1>5 DEF TypeOK
  <2>3. /\ step' \in [Requests -> Awaits \cup Answers]
        /\ \A p \in Requests : request'[p] = NoRequest <=> step'[p] = "none"
        /\ \A p \in Requests : step'[p] = "set" => request'[p].alert \in Alerts
    BY <1>2 DEF TypeOK, Awaits, Answers
  <2> QED
    BY <1>2, <1>5, <2>1, <2>3 DEF TypeOK
<1>7. Finite' /\ Backed'
  BY <1>1, <1>2, <1>5 DEF Finite, Backed
<1>8. Fresh' /\ Told'
  BY <1>2 DEF Fresh, Told, TypeOK
<1>9. Kept'
  <2>1. ASSUME NEW t \in Subjects, NEW g \in granted[t], g.entry.score > now - Window
        PROVE  g.entry \in entries'[t]
    <3>1. g.entry.score \in Nat /\ g.entry \in entries[t]
      BY <2>1 DEF TypeOK, Entry, Kept
    <3>2. g.entry.score > clock[q] - Window
      BY <1>3, <2>1, <3>1
    <3> QED
      BY <1>5, <3>1, <3>2 DEF Pruned
  <2> QED
    BY <1>2, <2>1 DEF Kept
<1> QED
  BY <1>6, <1>7, <1>8, <1>9

-----------------------------------------------------------------------------
\* What was said before a restart of Redis is forgotten with what it held.
LEMMA RestartsKeep ==
  ASSUME RequestInv, RestartRedis \/ \E r \in Replicas : RestartReplica(r)
  PROVE  RequestInv'
<1> USE ApiConstants DEF RequestInv
<1>1. CASE RestartRedis
  <2>1. IsFiniteSet({}) /\ Cardinality({}) = 0
    BY FS_EmptySet
  <2>2. /\ entries' = [s \in Subjects |-> {}] /\ granted' = [s \in Subjects |-> {}]
        /\ loaded' = FALSE /\ acks' = {} /\ told' = {} /\ late' = {}
        /\ restarts < MaxRestarts /\ restarts' = restarts + 1
        /\ UNCHANGED <<now, cached, request, step, clock>>
    BY <1>1 DEF RestartRedis, requestVars
  <2>3. /\ entries' \in [Subjects -> SUBSET Entry]
        /\ \A s \in Subjects : Cardinality(entries'[s]) <= Limit
        /\ \A s \in Subjects : \A e \in entries'[s] : e.score <= now'
        /\ granted' \in [Subjects -> SUBSET [at : 0 .. now', entry : Entry]]
        /\ restarts' \in 0 .. MaxRestarts
    BY <2>1, <2>2 DEF TypeOK
  <2>4. TypeOK'
    BY <2>2, <2>3 DEF TypeOK
  <2>5. \A s \in Subjects : entries'[s] = {} /\ granted'[s] = {} /\ EntriesOf(granted'[s]) = {}
    BY <2>2 DEF EntriesOf
  <2>6. Finite' /\ Kept' /\ Backed'
    BY <2>1, <2>5 DEF Finite, Kept, Backed
  <2>7. Fresh' /\ Told'
    BY <2>2 DEF Fresh, Told
  <2> QED
    BY <2>4, <2>6, <2>7
<1>2. ASSUME NEW r \in Replicas, RestartReplica(r) PROVE RequestInv'
  <2>1. Quiet
    BY <1>2 DEF RestartReplica, Quiet, redisVars, historyVars
  <2>2. /\ step' \in [Requests -> Awaits \cup Answers]
        /\ \A q \in Requests : step'[q] \in {step[q], "failed"}
        /\ \A q \in Requests : step'[q] = "failed" => step[q] = "failed" \/ Waiting(q)
    BY <1>2 DEF RestartReplica, TypeOK, Awaits, Answers
  <2>3. /\ cached' \in [Replicas -> BOOLEAN]
    BY <1>2 DEF RestartReplica, TypeOK
  <2>4. TypeOK'
    BY <1>2, <2>2, <2>3 DEF RestartReplica, TypeOK, Waiting, Awaits, redisVars, historyVars
  <2>5. Fresh' /\ Told'
    BY <1>2, <2>2 DEF RestartReplica, Fresh, Told, redisVars, historyVars
  <2> QED
    BY <2>1, <2>4, <2>5, QuietKeeps
<1> QED
  BY <1>1, <1>2

\* As time passes less is recent, and the history forgets what no request of
\* any lag can see.
LEMMA TickKeeps ==
  ASSUME RequestInv, Tick
  PROVE  RequestInv'
<1> USE ApiConstants DEF RequestInv
<1>1. /\ now < MaxTime /\ now' = now + 1
      /\ \A q \in Requests : step[q] = "evaluate" => now < clock[q] + MaxLag
      /\ granted' = [s \in Subjects |->
                        {g \in granted[s] : g.entry.score > now' - Window - MaxLag}]
      /\ UNCHANGED <<entries, loaded, acks, cached, request, step, clock, told, late, restarts>>
  BY DEF Tick, redisVars, requestVars
<1>2. now \in Nat /\ now' \in 0 .. MaxTime /\ Window \in Nat /\ MaxLag \in Nat
  BY <1>1 DEF TypeOK
<1>3. \A s \in Subjects : granted'[s] \subseteq granted[s]
  BY <1>1
<1>4. TypeOK'
  <2>1. granted' \in [Subjects -> SUBSET [at : 0 .. now', entry : Entry]]
    BY <1>1, <1>2 DEF TypeOK
  <2>2. /\ \A s \in Subjects : \A e \in entries[s] : e \in Entry /\ e.score <= now
        /\ \A q \in Requests : clock[q] \in 0 .. now
    BY DEF TypeOK
  <2>3. /\ \A s \in Subjects : \A e \in entries'[s] : e.score <= now'
    BY <1>1, <1>2, <2>2 DEF Entry
  <2>4. clock' \in [Requests -> 0 .. now']
    BY <1>1, <1>2 DEF TypeOK
  <2> QED
    BY <1>1, <1>2, <2>1, <2>3, <2>4 DEF TypeOK
<1>5. Finite'
  <2>1. \A s \in Subjects : EntriesOf(granted'[s]) \subseteq EntriesOf(granted[s])
    BY <1>3 DEF EntriesOf
  <2> QED
    BY <1>1, <2>1, FS_Subset DEF Finite
<1>6. Fresh' /\ Told'
  <2>1. \A q \in Requests : clock[q] \in Nat
    BY DEF TypeOK
  <2> QED
    BY <1>1, <1>2, <2>1 DEF Fresh, Told
<1>7. Kept'
  <2>1. \A s \in Subjects : \A g \in granted[s] : g.entry.score \in Nat
    BY DEF TypeOK, Entry
  <2> QED
    BY <1>1, <1>2, <1>3, <2>1 DEF Kept
<1>8. Backed'
  <2>1. ASSUME NEW s \in Subjects, NEW e \in entries[s], e.score > now' - Window - MaxLag
        PROVE  \E g \in granted'[s] : g.entry = e
    <3>1. e.score \in Nat
      BY DEF TypeOK, Entry
    <3>2. e.score > now - Window - MaxLag
      BY <1>1, <1>2, <2>1, <3>1
    <3>3. PICK g \in granted[s] : g.entry = e
      BY <3>2 DEF Backed, EntriesOf
    <3> QED
      BY <1>1, <2>1, <3>3
  <2> QED
    BY <1>1, <2>1 DEF Backed, EntriesOf
<1> QED
  BY <1>4, <1>5, <1>6, <1>7, <1>8

\* Every step keeps the invariant.
LEMMA RequestInvStep == RequestInv /\ [Next]_vars => RequestInv'
<1> SUFFICES ASSUME RequestInv, [Next]_vars PROVE RequestInv'
  OBVIOUS
<1>1. ASSUME NEW q \in Requests,
             \/ \E r \in Replicas : Arrive(q, r)
             \/ LoadScript(q) \/ NoScript(q) \/ RouteSteps(q) \/ Abort(q)
      PROVE  RequestInv'
  BY <1>1, RequestTypeStep, QuietKeeps DEF RequestInv
<1>2. CASE UNCHANGED vars
  BY <1>2, QuietKeeps DEF vars, redisVars, requestVars, historyVars, Quiet, RequestInv, TypeOK,
                          Fresh, Told
<1> QED
  BY <1>1, <1>2, AdmitKeeps, RefuseKeeps, RestartsKeep, TickKeeps DEF Next, LimiterSteps

-----------------------------------------------------------------------------
\* Type correctness of the requests.
THEOREM RequestTypeCorrect == Spec => []TypeOK
<1>1. RequestInv => TypeOK
  BY DEF RequestInv
<1> QED
  BY <1>1, RequestInvInit, RequestInvStep, PTL DEF Spec

\* What passed in the shorter window is still in the window of Redis.
LEMMA InvBoundsWindow == RequestInv => WindowLimit
<1> SUFFICES ASSUME RequestInv, NEW s \in Subjects
             PROVE  Cardinality(EntriesOf({g \in granted[s] :
                                              g.at > now - (Window - MaxLag)})) <= Limit
  BY DEF WindowLimit
<1> USE ApiConstants DEF RequestInv
<1> DEFINE recent == {g \in granted[s] : g.at > now - (Window - MaxLag)}
<1>1. ASSUME NEW g \in recent PROVE g.entry \in entries[s]
  <2>1. g.at \in Nat /\ g.entry.score \in Nat /\ now \in Nat /\ Window \in Nat /\ MaxLag \in Nat
    BY DEF TypeOK, Entry
  <2>2. g.at <= g.entry.score + MaxLag
    BY DEF Kept
  <2>3. g.entry.score > now - Window
    BY <2>1, <2>2
  <2> QED
    BY <2>3 DEF Kept
<1>2. EntriesOf(recent) \subseteq entries[s]
  BY <1>1 DEF EntriesOf
<1>3. /\ Cardinality(EntriesOf(recent)) <= Cardinality(entries[s])
      /\ Cardinality(EntriesOf(recent)) \in Nat /\ Cardinality(entries[s]) \in Nat
  BY <1>2, FS_Subset, FS_CardinalityType DEF Finite
<1>4. Cardinality(entries[s]) <= Limit
  BY DEF TypeOK
<1> QED
  BY <1>3, <1>4

\* However requests overtake one another between reading the clock and running
\* the script, no subject gets more than the limit in a window shorter by the
\* longest lag.
THEOREM WindowIsLimited == Spec => []WindowLimit
BY InvBoundsWindow, RequestInvInit, RequestInvStep, PTL DEF Spec

\* Whoever asks after an answer finds the alert acknowledged.
LEMMA InvAndStepOrderAcks == RequestInv /\ OnlyOverlappingAcksAreFirst /\ [Next]_vars
                                => OnlyOverlappingAcksAreFirst'
<1> SUFFICES ASSUME RequestInv, OnlyOverlappingAcksAreFirst, [Next]_vars
             PROVE  OnlyOverlappingAcksAreFirst'
  OBVIOUS
<1> USE DEF RequestInv, OnlyOverlappingAcksAreFirst
<1>0. step \in [Requests -> Awaits \cup Answers] /\ late \subseteq Requests /\ told \subseteq acks
  BY DEF TypeOK
<1>1. ASSUME NEW q \in Requests, CheckAck(q) PROVE OnlyOverlappingAcksAreFirst'
  <2>1. q \in late => Found(q)
    BY <1>0 DEF Told, Found
  <2> QED
    BY <1>0, <1>1, <2>1 DEF CheckAck, Goto
<1>2. ASSUME NEW q \in Requests, NEW r \in Replicas, Arrive(q, r)
      PROVE  OnlyOverlappingAcksAreFirst'
  BY <1>0, <1>2 DEF Arrive, Goto
<1>3. ASSUME NEW q \in Requests,
             LimiterSteps(q) \/ Read(q) \/ SetAck(q) \/ Abort(q)
      PROVE  OnlyOverlappingAcksAreFirst'
  BY <1>0, <1>3 DEF LimiterSteps, LoadScript, Admit, Refuse, NoScript, Read, SetAck, Abort, Goto,
                    historyVars
<1>4. CASE RestartRedis
  BY <1>4 DEF RestartRedis
<1>5. ASSUME NEW r \in Replicas, RestartReplica(r) PROVE OnlyOverlappingAcksAreFirst'
  BY <1>0, <1>5 DEF RestartReplica, historyVars
<1>6. CASE Tick \/ UNCHANGED vars
  BY <1>6 DEF Tick, vars, requestVars, historyVars
<1> QED
  BY <1>1, <1>2, <1>3, <1>4, <1>5, <1>6 DEF Next, RouteSteps

\* Two clients are told they were first only when their calls overlapped.
THEOREM OnlyOverlappingAcks == Spec => []OnlyOverlappingAcksAreFirst
<1>1. Init => OnlyOverlappingAcksAreFirst
  BY DEF Init, OnlyOverlappingAcksAreFirst
<1> QED
  BY <1>1, RequestInvInit, RequestInvStep, InvAndStepOrderAcks, PTL DEF Spec

-----------------------------------------------------------------------------
\* A refusal counts no more than the history does.
LEMMA RefusedWhenFull ==
  ASSUME RequestInv, NEW q \in Requests, Refuse(q)
  PROVE  Cardinality({e \in EntriesOf(granted[request[q].subject]) :
                         /\ e.score > clock[q] - Window
                         /\ e.score <= clock[q] + MaxLag}) >= Limit
<1> USE ApiConstants DEF RequestInv
<1> DEFINE s == request[q].subject
           seen == {e \in EntriesOf(granted[s]) :
                       e.score > clock[q] - Window /\ e.score <= clock[q] + MaxLag}
<1>1. step[q] = "evaluate" /\ ~HasRoom(q)
  BY DEF Refuse
<1>2. /\ s \in Subjects /\ Pruned(q) \subseteq entries[s]
      /\ IsFiniteSet(Pruned(q)) /\ Cardinality(Pruned(q)) \in Nat
  BY <1>1, PrunedPart
<1>3. ASSUME NEW e \in Pruned(q) PROVE e \in seen
  <2>1. /\ e \in entries[s] /\ e.score > clock[q] - Window /\ e.score \in Nat /\ e.score <= now
        /\ now \in Nat /\ clock[q] \in Nat /\ now <= clock[q] + MaxLag
        /\ Window \in Nat /\ MaxLag \in Nat
    BY <1>1, <1>2 DEF Pruned, TypeOK, Entry, Fresh
  <2>2. e.score > now - Window - MaxLag /\ e.score <= clock[q] + MaxLag
    BY <2>1
  <2> QED
    BY <1>2, <2>1, <2>2 DEF Backed
<1>4. IsFiniteSet(EntriesOf(granted[s]))
  BY <1>2 DEF Finite
<1>5. IsFiniteSet(seen) /\ Cardinality(seen) \in Nat
  BY <1>4, FS_Subset, FS_CardinalityType
<1>6. Cardinality(Pruned(q)) <= Cardinality(seen)
  BY <1>3, <1>5, FS_Subset
<1> QED
  BY <1>1, <1>2, <1>5, <1>6 DEF HasRoom

\* No other step answers 429.
LEMMA OnlyRefuseLimits ==
  ASSUME RequestInv, [Next]_vars, NEW q \in Requests, step[q] = "evaluate", step'[q] = "limited"
  PROVE  Refuse(q)
<1>0. step \in [Requests -> Awaits \cup Answers]
  BY DEF RequestInv, TypeOK
<1>1. ASSUME NEW p \in Requests, NEW r \in Replicas, Arrive(p, r) PROVE FALSE
  BY <1>0, <1>1 DEF Arrive, Goto, Waiting, Awaits
<1>2. ASSUME NEW p \in Requests,
             LoadScript(p) \/ Admit(p) \/ NoScript(p) \/ RouteSteps(p) \/ Abort(p)
      PROVE  FALSE
  BY <1>0, <1>2 DEF LoadScript, Admit, NoScript, RouteSteps, Read, CheckAck, SetAck, Abort, Goto
<1>3. ASSUME NEW p \in Requests, Refuse(p), p # q PROVE FALSE
  BY <1>0, <1>3 DEF Refuse, Goto
<1>4. ASSUME NEW r \in Replicas, RestartReplica(r) PROVE FALSE
  BY <1>0, <1>4 DEF RestartReplica
<1>5. CASE RestartRedis \/ Tick \/ UNCHANGED vars
  BY <1>5 DEF RestartRedis, Tick, vars, requestVars
<1> QED
  BY <1>1, <1>2, <1>3, <1>4, <1>5 DEF Next, LimiterSteps

\* Nothing older than a request's window, and nothing that did not pass, refuses
\* it; what overtook it may.
THEOREM NoneRefusedEarly == Spec => RefusedOnlyWhenFull
<1>1. RequestInv /\ [Next]_vars =>
        [\A q \in Requests :
          step[q] = "evaluate" /\ step'[q] = "limited" =>
              Cardinality({e \in EntriesOf(granted[request[q].subject]) :
                               /\ e.score > clock[q] - Window
                               /\ e.score <= clock[q] + MaxLag}) >= Limit]_vars
  BY RefusedWhenFull, OnlyRefuseLimits
<1> QED
  BY <1>1, RequestInvInit, RequestInvStep, PTL DEF Spec, RefusedOnlyWhenFull
=============================================================================
