------------------------------ MODULE ApiRequests -----------------------------
(***************************************************************************)
(* An authenticated request to the REST API: the sliding-window limit that *)
(* RateLimitMiddleware keeps in Redis (src/api/middleware.py), and the     *)
(* acknowledgement of an alert behind it (src/api/routers/anomalies.py).   *)
(*                                                                         *)
(* A replica is one asyncio loop and a step is what runs from one await to *)
(* the next, one Redis command or script included.  A request is a slot    *)
(* for one request at a time; one without a valid token goes past the      *)
(* limit to a 401 and changes nothing.                                     *)
(*                                                                         *)
(* The window's key also has a TTL.  It is set in seconds to a number of   *)
(* milliseconds, so that the key outlives every entry in it.               *)
(***************************************************************************)
EXTENDS Integers, FiniteSets

CONSTANTS
    Replicas,   \* processes of the API
    Requests,   \* slots for requests
    Subjects,   \* of their tokens
    Alerts,
    NoAlert,    \* of a request that only reads
    NoRequest,
    Limit,      \* RATE_LIMIT_REQUESTS
    Window,     \* RATE_LIMIT_WINDOW_SECONDS
    Draws,      \* what math.random(1, 1000000) may return
    MaxLag,     \* bound of the time from reading the clock to the script
    MaxTime,    \* bound of the clock
    MaxRestarts \* bound of the restarts of Redis and of replicas

ASSUME ApiConstants ==
    /\ NoAlert \notin Alerts
    /\ NoRequest \notin [replica : Replicas, subject : Subjects, alert : Alerts \cup {NoAlert}]
    /\ Limit \in Nat \ {0}
    /\ Window \in Nat
    /\ MaxLag \in 0 .. Window - 1
    /\ MaxTime \in Nat
    /\ MaxRestarts \in Nat

VARIABLES
    now,
    entries,  \* Redis: entries[s], the sorted set rl:s
    loaded,   \* Redis: it knows the script
    acks,     \* Redis: the alerts with a key ack:
    cached,   \* cached[r]: _script_sha of the replica is set
    request,  \* request[q]: what the slot was last used for
    step,     \* step[q]: the await its request is at, or its answer
    clock,    \* clock[q]: the now_ms of its request
    granted,  \* history: granted[s], when what passed the limit, while it matters
    told,     \* history: alerts a client was told are acknowledged
    late,     \* history: requests that came after their alert was told
    restarts

redisVars   == <<entries, loaded, acks>>
requestVars == <<request, step, clock>>
historyVars == <<granted, told, late>>
vars == <<now, redisVars, cached, requestVars, historyVars, restarts>>

Answers == {"none", "done", "already_set", "limited", "failed"}
Awaits  == {"load", "evaluate", "handle", "set"}
Entry   == [score : 0 .. MaxTime, draw : Draws]

Waiting(q) == step[q] \in Awaits

Init ==
    /\ now = 0
    /\ entries = [s \in Subjects |-> {}]
    /\ loaded = FALSE
    /\ acks = {}
    /\ cached = [r \in Replicas |-> FALSE]
    /\ request = [q \in Requests |-> NoRequest]
    /\ step = [q \in Requests |-> "none"]
    /\ clock = [q \in Requests |-> 0]
    /\ granted = [s \in Subjects |-> {}]
    /\ told = {}
    /\ late = {}
    /\ restarts = 0

Goto(q, place) == step' = [step EXCEPT ![q] = place]

-----------------------------------------------------------------------------
(* RateLimitMiddleware.dispatch                                              *)

\* A request comes in; the clock is read once the replica has its script.
Arrive(q, r) ==
    /\ ~Waiting(q)
    /\ \E s \in Subjects, a \in Alerts \cup {NoAlert} :
           /\ request' = [request EXCEPT ![q] = [replica |-> r, subject |-> s, alert |-> a]]
           /\ late' = IF a \in told THEN late \cup {q} ELSE late \ {q}
    /\ \/ /\ cached[r]
          /\ clock' = [clock EXCEPT ![q] = now]
          /\ Goto(q, "evaluate")
       \/ /\ ~cached[r]
          /\ Goto(q, "load")
          /\ UNCHANGED clock
    /\ UNCHANGED <<now, redisVars, cached, granted, told, restarts>>

\* _get_sha: several requests may load the script before one has its answer.
LoadScript(q) ==
    /\ step[q] = "load"
    /\ loaded' = TRUE
    /\ cached' = [cached EXCEPT ![request[q].replica] = TRUE]
    /\ clock' = [clock EXCEPT ![q] = now]
    /\ Goto(q, "evaluate")
    /\ UNCHANGED <<now, entries, acks, request, historyVars, restarts>>

\* Mutant: the script without its ZREMRANGEBYSCORE.
PrunedNever(q) == entries[request[q].subject]

\* Mutant: a window in seconds under a clock in milliseconds.
PrunedEarly(q) ==
    {e \in entries[request[q].subject] : e.score > clock[q] - 1}

\* ZREMRANGEBYSCORE key 0 (now - window)
Pruned(q) ==
    {e \in entries[request[q].subject] : e.score > clock[q] - Window}

\* Mutant: room for one more than the limit.
HasRoomForOneMore(q) == Cardinality(Pruned(q)) <= Limit

HasRoom(q) == Cardinality(Pruned(q)) < Limit

\* The script, when there is room: the entry is named by the time and a number
\* drawn, and replaces one of the same name.
Admit(q) ==
    /\ step[q] = "evaluate"
    /\ loaded
    /\ HasRoom(q)
    /\ \E draw \in Draws :
           LET s == request[q].subject
               e == [score |-> clock[q], draw |-> draw]
           IN  /\ entries' = [entries EXCEPT ![s] = Pruned(q) \cup {e}]
               /\ granted' = [granted EXCEPT ![s] = @ \cup {[at |-> now, entry |-> e]}]
    /\ Goto(q, "handle")
    /\ UNCHANGED <<now, loaded, acks, cached, request, clock, told, late, restarts>>

\* The script, when there is none: 429.
Refuse(q) ==
    /\ step[q] = "evaluate"
    /\ loaded
    /\ ~HasRoom(q)
    /\ entries' = [entries EXCEPT ![request[q].subject] = Pruned(q)]
    /\ Goto(q, "limited")
    /\ UNCHANGED <<now, loaded, acks, cached, request, clock, historyVars, restarts>>

\* Redis was restarted and answers NOSCRIPT; nothing loads the script again.
NoScript(q) ==
    /\ step[q] = "evaluate"
    /\ ~loaded
    /\ Goto(q, "failed")
    /\ UNCHANGED <<now, redisVars, cached, request, clock, historyVars, restarts>>

-----------------------------------------------------------------------------
(* The routes.                                                               *)

Read(q) ==
    /\ step[q] = "handle"
    /\ request[q].alert = NoAlert
    /\ Goto(q, "done")
    /\ UNCHANGED <<now, redisVars, cached, request, clock, historyVars, restarts>>

\* Mutant: acknowledge_alert without its EXISTS.
NeverFound(q) == FALSE

Found(q) == request[q].alert \in acks

\* acknowledge_alert: EXISTS
CheckAck(q) ==
    /\ step[q] = "handle"
    /\ request[q].alert # NoAlert
    /\ \/ Found(q) /\ Goto(q, "already_set") /\ told' = told \cup {request[q].alert}
       \/ ~Found(q) /\ Goto(q, "set") /\ UNCHANGED told
    /\ UNCHANGED <<now, redisVars, cached, request, clock, granted, late, restarts>>

\* acknowledge_alert: SET
SetAck(q) ==
    /\ step[q] = "set"
    /\ acks' = acks \cup {request[q].alert}
    /\ told' = told \cup {request[q].alert}
    /\ Goto(q, "done")
    /\ UNCHANGED <<now, entries, loaded, cached, request, clock, granted, late, restarts>>

\* The token expired meanwhile, the client left, or a call to Redis raised; the
\* last one may have been made.
Abort(q) ==
    /\ Waiting(q)
    /\ \/ UNCHANGED <<loaded, acks>>
       \/ step[q] = "load" /\ loaded' = TRUE /\ UNCHANGED acks
       \/ step[q] = "set" /\ acks' = acks \cup {request[q].alert} /\ UNCHANGED loaded
    /\ Goto(q, "failed")
    /\ UNCHANGED <<now, entries, cached, request, clock, historyVars, restarts>>

-----------------------------------------------------------------------------
(* The surroundings.                                                         *)

\* Redis keeps nothing (docker-compose.yml:351-357).  What was said before a
\* restart is no longer held against it.
RestartRedis ==
    /\ restarts < MaxRestarts
    /\ restarts' = restarts + 1
    /\ entries' = [s \in Subjects |-> {}]
    /\ loaded' = FALSE
    /\ acks' = {}
    /\ granted' = [s \in Subjects |-> {}]
    /\ told' = {}
    /\ late' = {}
    /\ UNCHANGED <<now, cached, requestVars>>

RestartReplica(r) ==
    /\ restarts < MaxRestarts
    /\ restarts' = restarts + 1
    /\ cached' = [cached EXCEPT ![r] = FALSE]
    /\ step' = [q \in Requests |-> IF Waiting(q) /\ request[q].replica = r
                                    THEN "failed" ELSE step[q]]
    /\ UNCHANGED <<now, redisVars, request, clock, historyVars>>

\* Time passes, at most MaxLag of it under a request that has read the clock.
Tick ==
    /\ now < MaxTime
    /\ \A q \in Requests : step[q] = "evaluate" => now < clock[q] + MaxLag
    /\ now' = now + 1
    /\ granted' = [s \in Subjects |->
                      {g \in granted[s] : g.entry.score > now' - Window - MaxLag}]
    /\ UNCHANGED <<redisVars, cached, requestVars, told, late, restarts>>

LimiterSteps(q) == LoadScript(q) \/ Admit(q) \/ Refuse(q) \/ NoScript(q)
RouteSteps(q)   == Read(q) \/ CheckAck(q) \/ SetAck(q)

Next ==
    \/ \E q \in Requests :
           \/ \E r \in Replicas : Arrive(q, r)
           \/ LimiterSteps(q) \/ RouteSteps(q) \/ Abort(q)
    \/ \E r \in Replicas : RestartReplica(r)
    \/ RestartRedis
    \/ Tick

Spec == Init /\ [][Next]_vars

-----------------------------------------------------------------------------
(* Properties.                                                               *)

\* Every variable has its type; a window holds no more than the limit and
\* nothing from the future, and what it holds it was given in this life of Redis.
TypeOK ==
    /\ now \in 0 .. MaxTime
    /\ entries \in [Subjects -> SUBSET Entry]
    /\ \A s \in Subjects : Cardinality(entries[s]) <= Limit
    /\ \A s \in Subjects : \A e \in entries[s] : e.score <= now
    /\ loaded \in BOOLEAN
    /\ acks \subseteq Alerts
    /\ cached \in [Replicas -> BOOLEAN]
    /\ request \in [Requests -> [replica : Replicas, subject : Subjects,
                                 alert : Alerts \cup {NoAlert}] \cup {NoRequest}]
    /\ step \in [Requests -> Awaits \cup Answers]
    /\ \A q \in Requests : request[q] = NoRequest <=> step[q] = "none"
    /\ \A q \in Requests : step[q] = "set" => request[q].alert \in Alerts
    /\ clock \in [Requests -> 0 .. now]
    /\ granted \in [Subjects -> SUBSET [at : 0 .. now, entry : Entry]]
    /\ told \subseteq acks
    /\ late \subseteq Requests
    /\ restarts \in 0 .. MaxRestarts

EntriesOf(grants) == {g.entry : g \in grants}

\* "Sliding-window rate limit: RATE_LIMIT_REQUESTS per RATE_LIMIT_WINDOW_SECONDS
\* per JWT subject" (middleware.py:66), as far as the code goes: the clock is
\* read before the script runs, so that the window is shorter by the longest lag,
\* and requests of the same time and draw count once.
WindowLimit ==
    \A s \in Subjects :
        Cardinality(EntriesOf({g \in granted[s] : g.at > now - (Window - MaxLag)})) <= Limit

\* A request is refused only when as many as the limit passed with clocks from
\* Window before its own to the longest lag after it.  The script counts what
\* overtook the request between clock and script, later clocks included, so that
\* the window is longer by that lag; but nothing that is older, and nothing that
\* did not pass, refuses anybody (middleware.py:23-35).
RefusedOnlyWhenFull ==
    [][\A q \in Requests :
          step[q] = "evaluate" /\ step'[q] = "limited" =>
              Cardinality({e \in EntriesOf(granted[request[q].subject]) :
                               /\ e.score > clock[q] - Window
                               /\ e.score <= clock[q] + MaxLag}) >= Limit]_vars

\* Two clients may both be told that they acknowledged an alert first, but only if
\* they overlapped: whoever asks after an answer finds the alert acknowledged
\* (EXISTS and SET are two commands, anomalies.py:73-75).
OnlyOverlappingAcksAreFirst ==
    \A q \in late : step[q] # "set"
===============================================================================
