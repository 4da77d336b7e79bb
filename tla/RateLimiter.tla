----------------------------- MODULE RateLimiter -----------------------------
(***************************************************************************)
(* RateLimiter (incident-reporter/alert_router): a sliding window of       *)
(* alert times per service, in memory, behind one lock.  A call reads the  *)
(* clock first and takes the lock after that, so that the calls of several *)
(* threads may purge and record in another order than they read the clock. *)
(*                                                                         *)
(* The code keeps a list of readings.  An entry here also carries the time *)
(* it was recorded at and a number, which no decision looks at: they tell  *)
(* alerts apart and let the bound speak of when a call ran.                *)
(***************************************************************************)
EXTENDS Integers, FiniteSets

CONSTANTS
    Services,
    Callers,    \* threads that call the limiter
    MaxAlerts,  \* MAX_ALERTS_PER_WINDOW
    Window,     \* WINDOW_SECONDS
    MaxTime     \* bound of the clock

ASSUME RateLimiterConstants ==
    /\ MaxAlerts \in Nat \ {0}
    /\ Window \in Nat
    /\ MaxTime \in Nat

VARIABLES
    now,
    clock,      \* clock[c]: what the call of thread c read, 0 outside a call
    windows,    \* _windows: entries not yet purged, by service
    granted     \* history: every entry since the start or the last reset

limiterVars == <<now, clock, windows, granted>>

Entries == [at : Nat, recorded : Nat, number : Nat]

Recent(entries, time) == {e \in entries : e.at >= time - Window}

\* Mutation: _purge drops the entry that is exactly Window old.
PurgedStrictly(s, time) == {e \in windows[s] : e.at > time - Window}

\* Mutation: _purge returns the stored list.
PurgedNever(s, time) == windows[s]

\* _purge
Purged(s, time) == Recent(windows[s], time)

LimiterInit ==
    /\ now = 1
    /\ clock = [c \in Callers |-> 0]
    /\ windows = [s \in Services |-> {}]
    /\ granted = [s \in Services |-> {}]

\* now = self._now(), before the lock
ReadClock(c) ==
    /\ clock[c] = 0
    /\ clock' = [clock EXCEPT ![c] = now]
    /\ UNCHANGED <<now, windows, granted>>

\* The lock is released and the call returns.
EndCall(c) ==
    /\ clock[c] # 0
    /\ clock' = [clock EXCEPT ![c] = 0]
    /\ UNCHANGED now

\* Mutation: <= for <.
RoomForOneMore(window) == Cardinality(window) <= MaxAlerts

Room(window) == Cardinality(window) < MaxAlerts

NewEntry(c, s) == [at |-> clock[c], recorded |-> now, number |-> Cardinality(granted[s])]

\* check_and_record returning (True, False)
Grant(c, s) ==
    LET window == Purged(s, clock[c]) IN
    /\ Room(window)
    /\ windows' = [windows EXCEPT ![s] = window \cup {NewEntry(c, s)}]
    /\ granted' = [granted EXCEPT ![s] = @ \cup {NewEntry(c, s)}]
    /\ EndCall(c)

Purge(c, s) ==
    /\ windows' = [windows EXCEPT ![s] = Purged(s, clock[c])]
    /\ UNCHANGED granted
    /\ EndCall(c)

\* check_and_record returning (False, True)
Refuse(c, s) ==
    /\ ~Room(Purged(s, clock[c]))
    /\ Purge(c, s)

\* current_count purges as well
CurrentCount(c, s) == Purge(c, s)

\* The operator's override; the history restarts with the window.
Reset(s) ==
    /\ windows' = [windows EXCEPT ![s] = {}]
    /\ granted' = [granted EXCEPT ![s] = {}]
    /\ UNCHANGED <<now, clock>>

ForgetAll ==
    /\ windows' = [s \in Services |-> {}]
    /\ granted' = [s \in Services |-> {}]
    /\ UNCHANGED now

\* reset_all
ResetAll == ForgetAll /\ UNCHANGED clock

\* Another process, with a limiter of its own
NewLimiter == ForgetAll /\ clock' = [c \in Callers |-> 0]

Tick ==
    /\ now < MaxTime
    /\ now' = now + 1
    /\ UNCHANGED <<clock, windows, granted>>

LimiterNext ==
    \/ Tick
    \/ ResetAll
    \/ NewLimiter
    \/ \E s \in Services : Reset(s)
    \/ \E c \in Callers :
          ReadClock(c) \/ \E s \in Services : Grant(c, s) \/ Refuse(c, s) \/ CurrentCount(c, s)

LimiterSpec == LimiterInit /\ [][LimiterNext]_limiterVars

-----------------------------------------------------------------------------
\* Types; no reading and no entry is in the future, windows hold granted
\* entries only, and the number of an entry is below their count.
LimiterTypeOK ==
    /\ now \in Nat \ {0}
    /\ clock \in [Callers -> 0 .. now]
    /\ windows \in [Services -> SUBSET Entries]
    /\ granted \in [Services -> SUBSET Entries]
    /\ \A s \in Services :
          /\ windows[s] \subseteq granted[s]
          /\ \A e \in granted[s] :
                e.at <= e.recorded /\ e.recorded <= now /\ e.number < Cardinality(granted[s])

\* Purging loses no alert that still counts and invents none, though a call
\* purges by the time it read and not by the time it is: what the window says
\* of the last Window seconds is what was granted in them.
WindowExact ==
    \A s \in Services : Recent(windows[s], now) = Recent(granted[s], now)

\* The alerts whose calls read their clock and left the lock in the hour from
\* start on, its last instant included.
Hour(start, entries) == {f \in entries : start <= f.at /\ f.recorded <= start + Window}

\* "max N alerts per service per hour", wherever the hour starts.  A call that
\* began in the hour but waited for the lock past its end is not counted: it may
\* be let in over the limit, for another thread may have purged by a later clock
\* what this one should have counted.
RateBound ==
    \A s \in Services : \A start \in 0 .. now :
        Cardinality(Hour(start, granted[s])) <= MaxAlerts
=============================================================================
