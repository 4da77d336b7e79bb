--------------------------- MODULE AlertSuppressor ---------------------------
(***************************************************************************)
(* AlertSuppressor.check_and_suppress (anomaly-detector/suppression) as    *)
(* the detector's process_window calls it, run by several replicas over    *)
(* one Redis.  Every Redis command is a step of its own: pipelines are     *)
(* sent with transaction=False, so other replicas may run between their    *)
(* commands.  Python code between two round trips touches only locals and  *)
(* rides on the step before it.                                            *)
(*                                                                         *)
(* A Redis key with a TTL is modelled by the time it expires at.  Redis    *)
(* keeps nothing over a restart and evicts keys when it is full            *)
(* (docker-compose.yml:349-353): any key may go before its time.           *)
(***************************************************************************)
EXTENDS Integers, FiniteSets

CONSTANTS
    Services, Workers,
    NoService, NoWorker,  \* the service of an idle worker, the owner of no slot
    Cooldown,             \* COOLDOWN_SECONDS
    StormWindow,          \* STORM_WINDOW_SECONDS
    StormThreshold,       \* STORM_THRESHOLD
    StormCooldown,        \* STORM_COOLDOWN_SECONDS
    MayClear,             \* whether an operator may call clear_storm
    MaxFaults,            \* bound: calls that fail half-way and keys lost early
    MaxTime               \* bound of the clock

ASSUME SuppressorConstants ==
    /\ NoService \notin Services
    /\ NoWorker \notin Workers
    /\ Cooldown \in Nat \ {0}
    /\ StormWindow \in Nat \ {0}
    /\ StormThreshold \in Nat
    /\ StormCooldown \in Nat \ {0}
    /\ MayClear \in BOOLEAN
    /\ MaxFaults \in Nat
    /\ MaxTime \in Nat

VARIABLES
    now,          \* time.time(), the same for the replicas and for Redis
    cooldown,     \* suppress:cooldown:{service}: expiry, 0 if never set
    stormActive,  \* suppress:storm:active: expiry, 0 if never set or deleted
    stormAlerts,  \* suppress:storm:alerts: score of each member, 0 if absent
    pc,           \* pc[w]: the Redis command worker w sends next
    service,      \* service[w]: the argument of the call w is in
    clock,        \* clock[w]: w's last reading of time.time()
    seen,         \* seen[w]: the storm window as w read it (storm_services)
    verdict,      \* verdict[w]: SuppressResult.reason so far
    faults,       \* failed calls and lost keys so far
    \* history, read by no action
    recorded,     \* recorded[s][w]: times w ran SET in the life of s's key
    covered,      \* covered[s]: an event has named s since its key was set
    dropped,      \* services whose alert a worker dropped since their key was set
    owner,        \* the worker that set stormActive last, if it did not fail
    announced     \* whether that worker's incident has been emitted

redis   == <<cooldown, stormActive, stormAlerts>>
local   == <<pc, service, clock, seen, verdict>>
history == <<recorded, covered, dropped, owner, announced>>
vars    == <<now, redis, local, faults, history>>

Alive(expiry) == now < expiry

\* ZREMRANGEBYSCORE key 0 cutoff
Pruned(zset, cutoff) ==
    [s \in Services |-> IF zset[s] <= cutoff THEN 0 ELSE zset[s]]

\* ZRANGE key 0 -1
Members(zset) == {s \in Services : zset[s] # 0}

Steps == {"idle", "exists_cooldown", "exists_storm", "set_cooldown", "zadd",
          "record_prune", "window_prune", "window_range", "claim", "emit"}
Verdicts == {"none", "cooldown", "storm_active", "allowed", "storm"}

Init ==
    /\ now = 1
    /\ cooldown = [s \in Services |-> 0]
    /\ stormActive = 0
    /\ stormAlerts = [s \in Services |-> 0]
    /\ pc = [w \in Workers |-> "idle"]
    /\ service = [w \in Workers |-> NoService]
    /\ clock = [w \in Workers |-> 0]
    /\ seen = [w \in Workers |-> {}]
    /\ verdict = [w \in Workers |-> "none"]
    /\ faults = 0
    /\ recorded = [s \in Services |-> [w \in Workers |-> 0]]
    /\ covered = [s \in Services |-> FALSE]
    /\ dropped = {}
    /\ owner = NoWorker
    /\ announced = FALSE

-----------------------------------------------------------------------------
\* The control flow of one call: next command, and the end of the call.

Goto(w, step) == pc' = [pc EXCEPT ![w] = step]

\* Mutation: the start of the window is read where the time is meant.
ReadWindowStart(w) == clock' = [clock EXCEPT ![w] = now - StormWindow]

ReadClock(w) == clock' = [clock EXCEPT ![w] = now]

Return(w) ==
    /\ Goto(w, "idle")
    /\ service' = [service EXCEPT ![w] = NoService]
    /\ clock' = [clock EXCEPT ![w] = 0]
    /\ seen' = [seen EXCEPT ![w] = {}]
    /\ verdict' = [verdict EXCEPT ![w] = "none"]

\* process_window found service s anomalous and calls check_and_suppress.
Detect(w, s) ==
    /\ pc[w] = "idle"
    /\ Goto(w, "exists_cooldown")
    /\ service' = [service EXCEPT ![w] = s]
    /\ UNCHANGED <<now, redis, clock, seen, verdict, faults, history>>

\* The first suppression reason met; what is left is to inspect the window.
SuppressedAs(w, reason) ==
    /\ verdict' = [verdict EXCEPT ![w] = reason]
    /\ ReadClock(w)
    /\ Goto(w, "window_prune")

\* Mutation: the key counts as expired in the last second of its TTL.
InCooldownTTL(w) == now + 1 < cooldown[service[w]]

InCooldown(w) == Alive(cooldown[service[w]])

CheckCooldown(w) ==
    /\ pc[w] = "exists_cooldown"
    /\ \/ /\ InCooldown(w)
          /\ SuppressedAs(w, "cooldown")
       \/ /\ ~InCooldown(w)
          /\ Goto(w, "exists_storm")
          /\ UNCHANGED <<clock, verdict>>
    /\ UNCHANGED <<now, redis, service, seen, faults, history>>

CheckStormActive(w) ==
    /\ pc[w] = "exists_storm"
    /\ \/ /\ Alive(stormActive)
          /\ SuppressedAs(w, "storm_active")
       \/ /\ ~Alive(stormActive)
          /\ ReadClock(w)
          /\ Goto(w, "set_cooldown")
          /\ UNCHANGED verdict
    /\ UNCHANGED <<now, redis, service, seen, faults, history>>

\* _record_alert: SET cooldown NX EX; the reply is not looked at.
SetCooldown(w) ==
    LET s == service[w] IN
    /\ pc[w] = "set_cooldown"
    /\ Goto(w, "zadd")
    /\ \/ /\ Alive(cooldown[s])
          /\ recorded' = [recorded EXCEPT ![s][w] = @ + 1]
          /\ UNCHANGED <<cooldown, covered, dropped>>
       \/ /\ ~Alive(cooldown[s])
          /\ cooldown' = [cooldown EXCEPT ![s] = now + Cooldown]
          /\ recorded' = [recorded EXCEPT ![s] = [v \in Workers |-> IF v = w THEN 1 ELSE 0]]
          /\ covered' = [covered EXCEPT ![s] = FALSE]
          /\ dropped' = dropped \ {s}
    /\ UNCHANGED <<now, stormActive, stormAlerts, service, clock, seen, verdict,
                   faults, owner, announced>>

AddToWindow(w) ==
    /\ pc[w] = "zadd"
    /\ stormAlerts' = [stormAlerts EXCEPT ![service[w]] = clock[w]]
    /\ Goto(w, "record_prune")
    /\ UNCHANGED <<now, cooldown, stormActive, service, clock, seen, verdict, faults, history>>

\* ZREMRANGEBYSCORE, in _record_alert and again in _storm_window_state, which
\* reads the clock anew.
PruneWindow(w) ==
    /\ stormAlerts' = Pruned(stormAlerts, clock[w] - StormWindow)
    /\ \/ /\ pc[w] = "record_prune"
          /\ Goto(w, "window_prune")
          /\ ReadClock(w)
       \/ /\ pc[w] = "window_prune"
          /\ Goto(w, "window_range")
          /\ UNCHANGED clock
    /\ UNCHANGED <<now, cooldown, stormActive, service, seen, verdict, faults, history>>

-----------------------------------------------------------------------------
\* ZRANGE and what follows from it: suppressed, over the threshold, or allowed.

ReturnSuppressed(w) ==
    /\ pc[w] = "window_range"
    /\ verdict[w] # "none"
    /\ Return(w)
    /\ UNCHANGED <<now, redis, faults, history>>

OverThreshold(w) == Cardinality(Members(stormAlerts)) > StormThreshold

CrossThreshold(w) ==
    /\ pc[w] = "window_range"
    /\ verdict[w] = "none"
    /\ OverThreshold(w)
    /\ seen' = [seen EXCEPT ![w] = Members(stormAlerts)]
    /\ Goto(w, "claim")
    /\ UNCHANGED <<now, redis, service, clock, verdict, faults, history>>

Allow(w) ==
    /\ pc[w] = "window_range"
    /\ verdict[w] = "none"
    /\ ~OverThreshold(w)
    /\ seen' = [seen EXCEPT ![w] = Members(stormAlerts)]
    /\ verdict' = [verdict EXCEPT ![w] = "allowed"]
    /\ Goto(w, "emit")
    /\ UNCHANGED <<now, redis, service, clock, faults, history>>

\* Mutation: the slot is taken without NX.
SlotFreeWithoutNX == TRUE

SlotFree == ~Alive(stormActive)

\* SET storm:active NX EX: the winner goes on to emit the incident, which names
\* the services of the window, its own only if that was still among them.
WinStorm(w) ==
    /\ pc[w] = "claim"
    /\ SlotFree
    /\ stormActive' = now + StormCooldown
    /\ verdict' = [verdict EXCEPT ![w] = "storm"]
    /\ Goto(w, "emit")
    /\ owner' = w
    /\ announced' = FALSE
    /\ dropped' = dropped \cup ({service[w]} \ seen[w])
    /\ UNCHANGED <<now, cooldown, stormAlerts, service, clock, seen, faults, recorded, covered>>

LoseStorm(w) ==
    /\ pc[w] = "claim"
    /\ Alive(stormActive)
    /\ dropped' = dropped \cup {service[w]}
    /\ Return(w)
    /\ UNCHANGED <<now, redis, faults, recorded, covered, owner, announced>>

\* Mutation: the events come without correlated_services.
NamedUncorrelated(w) == IF verdict[w] = "allowed" THEN {service[w]} ELSE {}

\* The service of an event and its correlated_services; the service of the
\* incident of a storm is "system".
Named(w) == seen[w] \cup (IF verdict[w] = "allowed" THEN {service[w]} ELSE {})

\* Mutation: process_window drops every verdict that is not "allowed".
AnnouncesAllowed(w) == verdict[w] = "allowed" /\ owner = w

Announces(w) == verdict[w] = "storm" /\ owner = w

\* get_baselines, build_event or build_storm_event, producer.send and the
\* delivery.
Emit(w) ==
    /\ pc[w] = "emit"
    /\ covered' = [s \in Services |-> covered[s] \/ s \in Named(w)]
    /\ announced' = (announced \/ Announces(w))
    /\ Return(w)
    /\ UNCHANGED <<now, redis, faults, recorded, dropped, owner>>

-----------------------------------------------------------------------------
Fault == faults < MaxFaults /\ faults' = faults + 1

\* The replica dies, or a Redis or Kafka call raises and main() drops the
\* window; what is in Redis stays.
Abort(w) ==
    /\ pc[w] # "idle"
    /\ Fault
    /\ dropped' = dropped \cup {service[w]}
    /\ owner' = IF owner = w /\ verdict[w] = "storm" THEN NoWorker ELSE owner
    /\ Return(w)
    /\ UNCHANGED <<now, redis, recorded, covered, announced>>

\* clear_storm, the operator's override.
ClearStorm ==
    /\ MayClear
    /\ stormActive' = 0
    /\ stormAlerts' = [s \in Services |-> 0]
    /\ UNCHANGED <<now, cooldown, local, faults, history>>

\* Redis evicts a key before it expires, or restarts without it.
Evict ==
    /\ Fault
    /\ \/ /\ \E s \in Services :
                Alive(cooldown[s]) /\ cooldown' = [cooldown EXCEPT ![s] = 0]
          /\ UNCHANGED <<stormActive, stormAlerts>>
       \/ /\ Alive(stormActive)
          /\ stormActive' = 0
          /\ UNCHANGED <<cooldown, stormAlerts>>
       \/ /\ stormAlerts' = [s \in Services |-> 0]
          /\ UNCHANGED <<cooldown, stormActive>>
    /\ UNCHANGED <<now, local, history>>

Tick ==
    /\ now < MaxTime
    /\ now' = now + 1
    /\ UNCHANGED <<redis, local, faults, history>>

Step(w) ==
    \/ CheckCooldown(w)
    \/ CheckStormActive(w)
    \/ SetCooldown(w)
    \/ AddToWindow(w)
    \/ PruneWindow(w)
    \/ ReturnSuppressed(w)
    \/ CrossThreshold(w)
    \/ Allow(w)
    \/ WinStorm(w)
    \/ LoseStorm(w)
    \/ Emit(w)

Next ==
    \/ Tick
    \/ ClearStorm
    \/ Evict
    \/ \E w \in Workers : Step(w) \/ Abort(w) \/ \E s \in Services : Detect(w, s)

Spec == Init /\ [][Next]_vars

-----------------------------------------------------------------------------
\* What the code is correct for.

Counts == [Services -> [Workers -> Nat]]

\* Types of the variables; scores and expiries are times or 0.
TypeOK ==
    /\ now \in Nat \ {0}
    /\ cooldown \in [Services -> Nat]
    /\ stormActive \in Nat
    /\ stormAlerts \in [Services -> Nat]
    /\ pc \in [Workers -> Steps]
    /\ service \in [Workers -> Services \cup {NoService}]
    /\ clock \in [Workers -> Nat]
    /\ seen \in [Workers -> SUBSET Services]
    /\ verdict \in [Workers -> Verdicts]
    /\ faults \in Nat
    /\ recorded \in Counts
    /\ covered \in [Services -> BOOLEAN]
    /\ dropped \in SUBSET (Services \cup {NoService})
    /\ owner \in Workers \cup {NoWorker}
    /\ announced \in BOOLEAN

\* A worker past the cooldown check of its service, before the SET.
Unrecorded(w) == pc[w] \in {"exists_storm", "set_cooldown"}

\* The two checks and the SET are separate round trips (the TOCTOU note of
\* suppressor.py), so duplicates are possible: but a worker that already
\* recorded an alert under the live cooldown key of its service never gets
\* as far as recording it again.
OncePerCooldown ==
    \A w \in Workers :
        /\ Unrecorded(w)
        /\ recorded[service[w]][w] > 0
        => ~Alive(cooldown[service[w]])

\* The suppressor keeps the promises of AlertPolicy: at most one alert of a
\* worker and a service per cooldown, which no alert extends and nothing but
\* the loss of its key cuts short, and one winner per storm slot, whoever
\* races for it.
Policy == INSTANCE AlertPolicy WITH
    MayForget  <- MaxFaults > 0,
    quietUntil <- cooldown,
    raises     <- recorded,
    stormUntil <- stormActive,
    announcers <- {w \in Workers : pc[w] = "emit" /\ verdict[w] = "storm"}

KeepsPolicy == Policy!PolicySpec

\* While the storm slot is taken everything is suppressed, so the incident of
\* its winner is out or on its way, whoever raced for the slot, unless the
\* winner itself failed: nothing else silences every service unannounced.
StormAnnounced ==
    Alive(stormActive) /\ owner # NoWorker =>
        announced \/ (pc[owner] = "emit" /\ verdict[owner] = "storm")

\* Where a call is between its SET and the reply about the storm slot.
Undecided == {"zadd", "record_prune", "window_prune", "window_range", "claim"}

\* Worker w holds a decision about s that may still become an event, or one
\* that will name s.
Holds(w, s) ==
    \/ service[w] = s /\ pc[w] \in Undecided /\ verdict[w] = "none"
    \/ pc[w] = "emit" /\ s \in Named(w)

Pending(s) == \E w \in Workers : Holds(w, s)

Silenced(s) == Alive(cooldown[s]) /\ ~covered[s]

\* A service in its cooldown has been named by an event since the key was set,
\* or the call that silenced it is still on its way to one: no interleaving, no
\* end of a storm leaves a service silenced unnamed.  What may is a worker that
\* fails with the decision in hand, the loser of a storm slot, and a winner
\* that no longer finds itself in the window it names: its entry was cleared by
\* an operator, evicted, or older than the window when the winner read it.
NoMissedAlert == \A s \in Services : Silenced(s) => Pending(s) \/ s \in dropped

\* "correlated_services lists every service in the 60-second storm window" and
\* "duplicates are vastly preferable to missed alerts": with no worker failing,
\* every service in its cooldown is named.
EveryServiceNamed == \A s \in Services : Silenced(s) => Pending(s)
=============================================================================
