------------------------ MODULE AlertDispatcherProofs ------------------------
(***************************************************************************)
(* The dispatcher, for every set of services, reports, on-call channels    *)
(* and deployments, and every limit and window of the rate limiter.        *)
(* First the limiter alone, by its own specification, then the dispatcher, *)
(* which implements it.                                                    *)
(***************************************************************************)
EXTENDS AlertDispatcher, FiniteSetTheorems, SequenceTheorems, TLAPS

-----------------------------------------------------------------------------
(* The sliding-window limit.                                                 *)

\* The types are kept by every step.
LEMMA LimiterTypeInit == LimiterInit => LimiterTypeOK
BY DEF LimiterInit, LimiterTypeOK, Entries

\* Counting the entries of a finite window gives a number.
FiniteGrants == \A s \in Services : IsFiniteSet(granted[s]) /\ IsFiniteSet(windows[s])

LimiterInv == LimiterTypeOK /\ FiniteGrants /\ WindowExact /\ RateBound

\* The entry a grant records is a new one.
LEMMA GrantedEntry ==
  ASSUME LimiterTypeOK, FiniteGrants, NEW c \in Callers, NEW s \in Services, Grant(c, s)
  PROVE  \E entry \in Entries :
           /\ entry.at = clock[c] /\ entry.recorded = now
           /\ entry.number = Cardinality(granted[s])
           /\ entry \notin granted[s]
           /\ windows' = [windows EXCEPT ![s] = Purged(s, clock[c]) \cup {entry}]
           /\ granted' = [granted EXCEPT ![s] = @ \cup {entry}]
           /\ clock' = [clock EXCEPT ![c] = 0]
           /\ now' = now
           /\ Cardinality(Purged(s, clock[c])) < MaxAlerts
<1> DEFINE entry == [at |-> clock[c], recorded |-> now, number |-> Cardinality(granted[s])]
<1>1. Cardinality(granted[s]) \in Nat
  BY FS_CardinalityType DEF FiniteGrants
<1>2. clock[c] \in Nat /\ now \in Nat
  BY DEF LimiterTypeOK
<1>3. entry \in Entries /\ entry.at = clock[c] /\ entry.recorded = now
      /\ entry.number = Cardinality(granted[s])
  BY <1>1, <1>2 DEF Entries
<1>4. entry \notin granted[s]
  BY <1>1, <1>3 DEF LimiterTypeOK
<1>5. /\ windows' = [windows EXCEPT ![s] = Purged(s, clock[c]) \cup {entry}]
      /\ granted' = [granted EXCEPT ![s] = @ \cup {entry}]
      /\ clock' = [clock EXCEPT ![c] = 0]
      /\ now' = now
      /\ Cardinality(Purged(s, clock[c])) < MaxAlerts
  BY DEF Grant, Room, NewEntry, EndCall
<1> HIDE DEF entry
<1> QED
  BY <1>3, <1>4, <1>5

\* What the type invariant says of the entries of one service.
EntriesOK(s) ==
    /\ windows[s] \in SUBSET Entries /\ granted[s] \in SUBSET Entries
    /\ windows[s] \subseteq granted[s]
    /\ IsFiniteSet(granted[s]) /\ IsFiniteSet(windows[s])
    /\ \A e \in granted[s] :
          e.at <= e.recorded /\ e.recorded <= now /\ e.number < Cardinality(granted[s])

ClockOK == now \in Nat \ {0} /\ clock \in [Callers -> 0 .. now]

WindowTypes ==
    windows \in [Services -> SUBSET Entries] /\ granted \in [Services -> SUBSET Entries]

LEMMA LimiterTypesInParts ==
  LimiterTypeOK /\ FiniteGrants <=> ClockOK /\ WindowTypes /\ \A s \in Services : EntriesOK(s)
BY DEF LimiterTypeOK, FiniteGrants, ClockOK, WindowTypes, EntriesOK

\* A step changes a window by purging, by granting or by emptying it.
LEMMA LimiterTypeStep ==
  ASSUME LimiterTypeOK, FiniteGrants, [LimiterNext]_limiterVars
  PROVE  LimiterTypeOK' /\ FiniteGrants'
<1>0. ClockOK /\ WindowTypes /\ \A s \in Services : EntriesOK(s)
  BY LimiterTypesInParts
<1> SUFFICES ClockOK' /\ WindowTypes' /\ \A s \in Services : EntriesOK(s)'
  <2>1. (LimiterTypeOK /\ FiniteGrants
           <=> ClockOK /\ WindowTypes /\ \A s \in Services : EntriesOK(s))'
    BY LimiterTypesInParts, PTL
  <2> QED
    BY <2>1
<1>1. CASE Tick
  <2>1. now' = now + 1 /\ UNCHANGED <<clock, windows, granted>>
    BY <1>1 DEF Tick
  <2>2. ClockOK'
    BY <1>0, <2>1 DEF ClockOK
  <2>3. ASSUME NEW s \in Services PROVE EntriesOK(s)'
    <3>1. \A e \in granted[s] : e.recorded <= now + 1
      BY <1>0 DEF EntriesOK, Entries, ClockOK
    <3> QED
      BY <1>0, <2>1, <3>1 DEF EntriesOK
  <2> QED
    BY <1>0, <2>1, <2>2, <2>3 DEF WindowTypes
<1>2. ASSUME UNCHANGED <<windows, granted, now>>, clock' \in [Callers -> 0 .. now]
      PROVE  ClockOK' /\ WindowTypes' /\ \A s \in Services : EntriesOK(s)'
  BY <1>0, <1>2 DEF ClockOK, WindowTypes, EntriesOK
<1>3. ASSUME NEW c \in Callers, NEW s \in Services, Grant(c, s)
      PROVE  ClockOK' /\ WindowTypes' /\ \A t \in Services : EntriesOK(t)'
  <2>1. PICK entry \in Entries :
           /\ entry.at = clock[c] /\ entry.recorded = now
           /\ entry.number = Cardinality(granted[s])
           /\ entry \notin granted[s]
           /\ windows' = [windows EXCEPT ![s] = Purged(s, clock[c]) \cup {entry}]
           /\ granted' = [granted EXCEPT ![s] = @ \cup {entry}]
           /\ clock' = [clock EXCEPT ![c] = 0]
           /\ now' = now
    BY <1>3, GrantedEntry
  <2>2. Purged(s, clock[c]) \subseteq windows[s] /\ IsFiniteSet(Purged(s, clock[c]))
    BY <1>0, FS_Subset DEF Purged, Recent, EntriesOK
  <2>3. /\ IsFiniteSet(Purged(s, clock[c]) \cup {entry})
        /\ IsFiniteSet(granted[s] \cup {entry})
        /\ Cardinality(granted[s] \cup {entry}) = Cardinality(granted[s]) + 1
    BY <1>0, <2>1, <2>2, FS_AddElement DEF EntriesOK
  <2>4. Cardinality(granted[s]) \in Nat
    BY <1>0, FS_CardinalityType DEF EntriesOK
  <2>5. ClockOK'
    BY <1>0, <2>1 DEF ClockOK
  <2>6. /\ windows'[s] = Purged(s, clock[c]) \cup {entry} /\ granted'[s] = granted[s] \cup {entry}
        /\ \A t \in Services \ {s} : windows'[t] = windows[t] /\ granted'[t] = granted[t]
    BY <1>0, <2>1 DEF WindowTypes
  <2>7. windows'[s] \in SUBSET Entries /\ granted'[s] \in SUBSET Entries
        /\ windows'[s] \subseteq granted'[s]
    BY <1>0, <2>1, <2>2, <2>6 DEF EntriesOK
  <2>8. WindowTypes'
    BY <1>0, <2>1, <2>2, <2>6, <2>7 DEF WindowTypes
  <2>9. ASSUME NEW e \in granted'[s]
        PROVE  e.at <= e.recorded /\ e.recorded <= now' /\ e.number < Cardinality(granted'[s])
    <3>1. clock[c] <= now
      BY <1>0 DEF ClockOK
    <3>2. e.number \in Nat
      BY <2>7, <2>9 DEF Entries
    <3>3. Cardinality(granted'[s]) = Cardinality(granted[s]) + 1
      BY <2>3, <2>6, Zenon
    <3>4. entry.at = clock[c] /\ entry.recorded = now /\ entry.number = Cardinality(granted[s])
      BY <2>1
    <3>5. now' = now /\ now \in Nat
      BY <1>0, <2>1 DEF ClockOK
    <3>6. clock[c] \in Nat
      BY <1>0 DEF ClockOK
    <3>7. CASE e = entry
      BY <2>4, <3>1, <3>7, <3>3, <3>4, <3>5, <3>6
    <3>8. CASE e \in granted[s]
      <4>1. e.at <= e.recorded /\ e.recorded <= now /\ e.number < Cardinality(granted[s])
        BY <1>0, <3>8 DEF EntriesOK
      <4> QED
        BY <2>4, <3>2, <3>3, <3>5, <4>1
    <3> QED
      BY <2>6, <2>9, <3>7, <3>8
  <2>10. EntriesOK(s)'
    BY <2>3, <2>6, <2>7, <2>9 DEF EntriesOK
  <2>11. ASSUME NEW t \in Services \ {s} PROVE EntriesOK(t)'
    BY <1>0, <2>1, <2>6 DEF EntriesOK
  <2> QED
    BY <2>5, <2>8, <2>10, <2>11
<1>4. ASSUME NEW c \in Callers, NEW s \in Services, Purge(c, s)
      PROVE  ClockOK' /\ WindowTypes' /\ \A t \in Services : EntriesOK(t)'
  <2>1. /\ windows' = [windows EXCEPT ![s] = Purged(s, clock[c])] /\ granted' = granted
        /\ clock' = [clock EXCEPT ![c] = 0] /\ now' = now
    BY <1>4 DEF Purge, EndCall
  <2>2. Purged(s, clock[c]) \subseteq windows[s] /\ IsFiniteSet(Purged(s, clock[c]))
    BY <1>0, FS_Subset DEF Purged, Recent, EntriesOK
  <2>3. ClockOK' /\ WindowTypes'
    BY <1>0, <2>1, <2>2 DEF ClockOK, WindowTypes
  <2>4. ASSUME NEW t \in Services PROVE EntriesOK(t)'
    <3>1. windows'[t] \subseteq windows[t] /\ IsFiniteSet(windows'[t])
      BY <1>0, <2>1, <2>2 DEF WindowTypes, EntriesOK
    <3> QED
      BY <1>0, <2>1, <3>1 DEF EntriesOK
  <2> QED
    BY <2>3, <2>4
<1>5. ASSUME NEW s \in Services, Reset(s)
      PROVE  ClockOK' /\ WindowTypes' /\ \A t \in Services : EntriesOK(t)'
  <2>1. IsFiniteSet({})
    BY FS_EmptySet
  <2>2. /\ windows' = [windows EXCEPT ![s] = {}] /\ granted' = [granted EXCEPT ![s] = {}]
        /\ clock' = clock /\ now' = now
    BY <1>5 DEF Reset
  <2>3. ClockOK' /\ WindowTypes'
    BY <1>0, <2>2 DEF ClockOK, WindowTypes
  <2>4. ASSUME NEW t \in Services PROVE EntriesOK(t)'
    BY <1>0, <2>1, <2>2 DEF WindowTypes, EntriesOK
  <2> QED
    BY <2>3, <2>4
<1>6. ASSUME ForgetAll, clock' \in [Callers -> 0 .. now]
      PROVE  ClockOK' /\ WindowTypes' /\ \A s \in Services : EntriesOK(s)'
  <2>1. IsFiniteSet({})
    BY FS_EmptySet
  <2> QED
    BY <1>0, <1>6, <2>1 DEF ForgetAll, ClockOK, WindowTypes, EntriesOK
<1>7. 0 \in 0 .. now /\ now \in 0 .. now /\ clock \in [Callers -> 0 .. now]
  BY <1>0 DEF ClockOK
<1>8. CASE ResetAll
  BY <1>6, <1>7, <1>8 DEF ResetAll
<1>9. CASE NewLimiter
  BY <1>6, <1>7, <1>9 DEF NewLimiter
<1>10. ASSUME NEW c \in Callers, ReadClock(c)
       PROVE  ClockOK' /\ WindowTypes' /\ \A s \in Services : EntriesOK(s)'
  BY <1>2, <1>7, <1>10 DEF ReadClock
<1>11. CASE UNCHANGED limiterVars
  BY <1>2, <1>7, <1>11 DEF limiterVars
<1> QED
  BY <1>1, <1>3, <1>4, <1>5, <1>8, <1>9, <1>10, <1>11 DEF LimiterNext, Refuse, CurrentCount

\* A purge keeps every granted entry that a purge by a later clock could keep.
LEMMA RecentShrinks ==
  ASSUME NEW old \in Nat, NEW new \in Nat, old <= new, NEW A \in SUBSET Entries
  PROVE  /\ Recent(Recent(A, old), new) = Recent(A, new)
         /\ \A B \in SUBSET Entries :
               Recent(A, old) = Recent(B, old) => Recent(A, new) = Recent(B, new)
<1>1. \A e \in Entries : e.at >= new - Window => e.at >= old - Window
  BY RateLimiterConstants DEF Entries
<1> QED
  BY <1>1 DEF Recent

\* Windows stay exact, though a call may purge by a clock others have passed.
LEMMA WindowExactStep ==
  ASSUME LimiterTypeOK, FiniteGrants, WindowExact, [LimiterNext]_limiterVars
  PROVE  WindowExact'
<1> USE DEF WindowExact
<1>0. now \in Nat /\ \A s \in Services : windows[s] \in SUBSET Entries
                                      /\ granted[s] \in SUBSET Entries
  BY DEF LimiterTypeOK
<1>1. CASE Tick
  <2>1. now' \in Nat /\ now <= now' /\ UNCHANGED <<windows, granted>>
    BY <1>0, <1>1 DEF Tick
  <2> QED
    BY <1>0, <2>1, RecentShrinks
<1>2. CASE ResetAll \/ NewLimiter
  BY <1>2 DEF ResetAll, NewLimiter, ForgetAll
<1>3. ASSUME NEW c \in Callers, NEW s \in Services
      PROVE  Recent(Purged(s, clock[c]), now) = Recent(granted[s], now)
  <2>1. clock[c] \in Nat /\ clock[c] <= now
    BY DEF LimiterTypeOK
  <2>2. Recent(Purged(s, clock[c]), now) = Recent(windows[s], now)
    BY <1>0, <2>1, RecentShrinks DEF Purged
  <2> QED
    BY <2>2
<1>4. ASSUME NEW c \in Callers, NEW s \in Services, Grant(c, s) PROVE WindowExact'
  <2>1. PICK entry \in Entries :
           /\ windows' = [windows EXCEPT ![s] = Purged(s, clock[c]) \cup {entry}]
           /\ granted' = [granted EXCEPT ![s] = @ \cup {entry}]
           /\ now' = now
    BY <1>4, GrantedEntry
  <2>2. Recent(Purged(s, clock[c]) \cup {entry}, now) = Recent(granted[s] \cup {entry}, now)
    BY <1>3 DEF Recent
  <2> QED
    BY <2>1, <2>2 DEF LimiterTypeOK
<1>5. ASSUME NEW c \in Callers, NEW s \in Services, Purge(c, s) PROVE WindowExact'
  BY <1>3, <1>5 DEF Purge, EndCall, LimiterTypeOK
<1>6. ASSUME NEW s \in Services, Reset(s) PROVE WindowExact'
  BY <1>6 DEF Reset, LimiterTypeOK
<1>7. CASE UNCHANGED <<now, windows, granted>>
  BY <1>7
<1> QED
  BY <1>1, <1>2, <1>4, <1>5, <1>6, <1>7
     DEF LimiterNext, Refuse, CurrentCount, ReadClock, limiterVars

\* A grant keeps the bound: an hour that holds the new entry holds, beside it,
\* only entries that the purged window holds too, fewer than MaxAlerts.
LEMMA GrantKeepsBound ==
  ASSUME LimiterTypeOK, FiniteGrants, WindowExact, RateBound,
         NEW c \in Callers, NEW s \in Services, NEW entry \in Entries,
         entry.at = clock[c], entry.recorded = now,
         Cardinality(Purged(s, clock[c])) < MaxAlerts,
         NEW start \in 0 .. now
  PROVE  Cardinality(Hour(start, granted[s] \cup {entry})) <= MaxAlerts
<1> DEFINE window == Purged(s, clock[c])
           hour   == Hour(start, granted[s] \cup {entry})
<1>0. /\ now \in Nat /\ Window \in Nat /\ MaxAlerts \in Nat /\ start \in Nat
      /\ granted[s] \subseteq Entries /\ IsFiniteSet(granted[s])
      /\ windows[s] \subseteq granted[s]
      /\ clock[c] \in Nat /\ clock[c] <= now
  BY RateLimiterConstants DEF LimiterTypeOK, FiniteGrants
<1>1. CASE entry \notin hour
  <2>1. hour = Hour(start, granted[s])
    BY <1>1 DEF Hour
  <2> QED
    BY <2>1 DEF RateBound
<1>2. CASE entry \in hour
  <2>1. start <= clock[c] /\ now <= start + Window
    BY <1>2 DEF Hour
  <2>2. ASSUME NEW f \in granted[s], start <= f.at PROVE f \in window
    <3>1. f.at \in Nat
      BY <1>0 DEF Entries
    <3>2. f.at >= now - Window /\ f.at >= clock[c] - Window
      BY <1>0, <2>1, <2>2, <3>1
    <3>3. f \in Recent(granted[s], now)
      BY <3>2 DEF Recent
    <3>4. f \in windows[s]
      BY <3>3 DEF WindowExact, Recent
    <3> QED
      BY <3>2, <3>4 DEF Purged, Recent
  <2>3. hour \subseteq window \cup {entry}
    BY <2>2 DEF Hour
  <2>4. IsFiniteSet(window)
    BY <1>0, FS_Subset DEF Purged, Recent
  <2> HIDE DEF window, hour
  <2>5. /\ IsFiniteSet(window \cup {entry})
        /\ \/ Cardinality(window \cup {entry}) = Cardinality(window)
           \/ Cardinality(window \cup {entry}) = Cardinality(window) + 1
    BY <2>4, FS_AddElement
  <2>6. Cardinality(window) \in Nat
    BY <2>4, FS_CardinalityType
  <2>7. /\ Cardinality(hour) <= Cardinality(window \cup {entry})
        /\ Cardinality(hour) \in Nat
        /\ Cardinality(window \cup {entry}) \in Nat
    BY <2>3, <2>5, FS_Subset, FS_CardinalityType
  <2>8. Cardinality(window) < MaxAlerts
    BY DEF window
  <2>9. Cardinality(hour) <= MaxAlerts
    BY <1>0, <2>5, <2>6, <2>7, <2>8
  <2> QED
    BY <2>9 DEF hour
<1> QED
  BY <1>1, <1>2

\* The bound is inductive together with the exactness of the windows.
LEMMA RateBoundStep ==
  ASSUME LimiterInv, [LimiterNext]_limiterVars
  PROVE  RateBound'
<1> USE DEF LimiterInv
<1>0. Cardinality({}) = 0 /\ MaxAlerts \in Nat
  BY FS_EmptySet, RateLimiterConstants
<1>1. CASE Tick
  <2>1. now \in Nat /\ now' = now + 1 /\ granted' = granted
    BY <1>1 DEF Tick, LimiterTypeOK
  <2>2. ASSUME NEW s \in Services PROVE Hour(now + 1, granted[s]) = {}
    <3>1. \A e \in granted[s] : e.at \in Nat /\ e.recorded \in Nat
                             /\ e.at <= e.recorded /\ e.recorded <= now
      BY DEF LimiterTypeOK, Entries
    <3> QED
      BY <2>1, <3>1 DEF Hour
  <2>3. 0 .. now' = 0 .. now \cup {now + 1}
    BY <2>1
  <2>4. ASSUME NEW s \in Services, NEW start \in 0 .. now'
        PROVE  Cardinality(Hour(start, granted[s])) <= MaxAlerts
    <3>1. CASE start \in 0 .. now
      BY <3>1 DEF RateBound
    <3>2. CASE start = now + 1
      <4>1. Cardinality(Hour(start, granted[s])) = 0
        BY <1>0, <2>2, <3>2, Zenon
      <4> QED
        BY <1>0, <4>1
    <3> QED
      BY <2>3, <2>4, <3>1, <3>2
  <2> QED
    BY <2>1, <2>4 DEF RateBound, Hour
<1>2. CASE UNCHANGED <<now, granted>>
  BY <1>2 DEF RateBound, Hour
<1>3. CASE ResetAll \/ NewLimiter
  <2>1. now' = now /\ \A s \in Services : granted'[s] = {}
    BY <1>3 DEF ResetAll, NewLimiter, ForgetAll
  <2>2. \A start \in 0 .. now : Hour(start, {}) = {}
    BY DEF Hour
  <2> QED
    BY <1>0, <2>1, <2>2 DEF RateBound, Hour
<1>4. ASSUME NEW c \in Callers, NEW s \in Services, Grant(c, s) PROVE RateBound'
  <2>1. PICK entry \in Entries :
           /\ entry.at = clock[c] /\ entry.recorded = now
           /\ granted' = [granted EXCEPT ![s] = @ \cup {entry}]
           /\ now' = now
           /\ Cardinality(Purged(s, clock[c])) < MaxAlerts
    BY <1>4, GrantedEntry
  <2>2. \A start \in 0 .. now : Cardinality(Hour(start, granted[s] \cup {entry})) <= MaxAlerts
    BY <2>1, GrantKeepsBound
  <2>3. granted'[s] = granted[s] \cup {entry}
        /\ \A t \in Services : t # s => granted'[t] = granted[t]
    BY <2>1 DEF LimiterTypeOK
  <2> QED
    BY <2>1, <2>2, <2>3 DEF RateBound, Hour
<1>5. ASSUME NEW s \in Services, Reset(s) PROVE RateBound'
  <2>1. /\ now' = now /\ granted'[s] = {}
        /\ \A t \in Services : t # s => granted'[t] = granted[t]
    BY <1>5 DEF Reset, LimiterTypeOK
  <2>2. \A start \in 0 .. now : Hour(start, {}) = {}
    BY DEF Hour
  <2> QED
    BY <1>0, <2>1, <2>2 DEF RateBound, Hour
<1> QED
  BY <1>1, <1>2, <1>3, <1>4, <1>5
     DEF LimiterNext, Refuse, CurrentCount, Purge, EndCall, ReadClock, limiterVars

\* All parts of the invariant hold at the start.
LEMMA LimiterInvInit == LimiterInit => LimiterInv
<1> SUFFICES ASSUME LimiterInit PROVE LimiterInv
  OBVIOUS
<1>1. LimiterTypeOK
  BY LimiterTypeInit
<1>2. FiniteGrants
  BY FS_EmptySet DEF LimiterInit, FiniteGrants
<1>3. RateBound
  <2>1. Cardinality({}) = 0 /\ MaxAlerts \in Nat
    BY FS_EmptySet, RateLimiterConstants
  <2>2. \A start \in 0 .. now : Hour(start, {}) = {}
    BY DEF Hour
  <2> QED
    BY <2>1, <2>2 DEF LimiterInit, RateBound
<1> QED
  BY <1>1, <1>2, <1>3 DEF LimiterInit, LimiterInv, WindowExact

\* And are kept.
LEMMA LimiterInvStep == LimiterInv /\ [LimiterNext]_limiterVars => LimiterInv'
BY LimiterTypeStep, WindowExactStep, RateBoundStep DEF LimiterInv

\* Type correctness of the limiter.
THEOREM LimiterTypeCorrect == LimiterSpec => []LimiterTypeOK
<1>1. LimiterInv => LimiterTypeOK
  BY DEF LimiterInv
<1> QED
  BY <1>1, LimiterInvInit, LimiterInvStep, PTL DEF LimiterSpec

\* No purge forgets an alert that still counts.
THEOREM WindowsAreExact == LimiterSpec => []WindowExact
<1>1. LimiterInv => WindowExact
  BY DEF LimiterInv
<1> QED
  BY <1>1, LimiterInvInit, LimiterInvStep, PTL DEF LimiterSpec

\* Of the calls that lie within any Window seconds a service gets no more than
\* MaxAlerts alerts, in whatever order their threads purge.
THEOREM RateIsBounded == LimiterSpec => []RateBound
<1>1. LimiterInv => RateBound
  BY DEF LimiterInv
<1> QED
  BY <1>1, LimiterInvInit, LimiterInvStep, PTL DEF LimiterSpec

-----------------------------------------------------------------------------
(* The dispatcher.                                                           *)

\* The channels of r that dispatch() has a notifier for.
Wanted(r) ==
    (IF "pagerduty" \in info[r].channels /\ PagerDutyOn THEN {"pagerduty"} ELSE {})
        \cup (IF SlackOn THEN ToSet(info[r].targets) ELSE {})

ChannelsWanted ==
    \A r \in Reports :
        Done(r) /\ r \notin queued \cup interrupted => tried[r] = Wanted(r)

\* The report at hand, and the channels of it that are still to try.
Progress ==
    /\ \A r \in Reports : info[r] = NoReport =>
          tried[r] = {} /\ r # current /\ r \notin queued \cup interrupted
    /\ current # NoReport => info[current] # NoReport /\ current \notin queued \cup interrupted
    /\ pc \in {"check", "queue", "page"} => tried[current] = {} /\ targets = info[current].targets
    /\ pc \in {"post", "thread"} =>
          SlackOn /\ tried[current] \cup ToSet(targets) = Wanted(current)
    /\ pc = "thread" => Head(targets) \in tried[current]

DispatcherInv == LimiterInv /\ TypeOK /\ QueuedIsKept /\ ChannelsWanted /\ Progress

\* What the limiter is not told of.
CallTypes ==
    /\ notifiers \in Deployments
    /\ info \in [Reports -> Routes \cup {NoReport}]
    /\ pc \in {"idle", "check", "queue", "page", "post", "thread"}
    /\ current \in Reports \cup {NoReport}
    /\ targets \in Seq(Channels)
    /\ tried \in [Reports -> SUBSET Channels]
    /\ posted \in [Reports -> SUBSET Channels]
    /\ pc = "idle" <=> current = NoReport
    /\ pc = "idle" <=> targets = <<>>

DigestTypes ==
    /\ digest \in [Services -> SUBSET Reports]
    /\ todo \in SUBSET Services
    /\ held \in SUBSET Reports
    /\ lastDigest \in {"none", "empty", "no_notifier", "posted", "failed"}
    /\ queued \in SUBSET Reports
    /\ surfaced \in SUBSET Reports
    /\ lost \in SUBSET Reports
    /\ interrupted \in SUBSET Reports

LEMMA TypesInTwo == TypeOK <=> LimiterTypeOK /\ CallTypes /\ DigestTypes
BY DEF TypeOK, CallTypes, DigestTypes

-----------------------------------------------------------------------------
\* A report that is checked has its decision, hence its service.
LEMMA CheckedReport ==
  ASSUME CallTypes, Progress, CheckRate
  PROVE  current \in Reports /\ info[current] \in Routes /\ info[current].service \in Services
<1>1. pc = "check"
  BY DEF CheckRate
<1>2. current \in Reports /\ info[current] \in Routes
  BY <1>1 DEF CallTypes, Progress
<1>3. PICK s \in Services, v \in Severities, o \in OncallChannels, a \in OncallAddresses :
         info[current] = Route(s, v, o, a)
  BY <1>2 DEF Routes
<1>4. info[current].service = s
  BY <1>3 DEF Route
<1> QED
  BY <1>2, <1>4

\* Every step of the dispatcher is one of its limiter, or none.
LEMMA StepsOfLimiter ==
  ASSUME CallTypes, Progress, [Next]_vars
  PROVE  [LimiterNext]_limiterVars
<1> SUFFICES ASSUME Next PROVE [LimiterNext]_limiterVars
  BY DEF vars
<1> USE DEF limiterVars
<1>1. CASE Clock
  BY <1>1 DEF Clock, LimiterNext
<1>2. CASE UseLimiter
  BY <1>2 DEF UseLimiter, LimiterNext
<1>3. CASE NewReport
  BY <1>3, DispatcherConstants DEF NewReport, Dispatch, LimiterNext
<1>4. CASE CheckRate
  <2>1. info[current].service \in Services
    BY <1>4, CheckedReport
  <2> QED
    BY <1>4, <2>1, DispatcherConstants DEF CheckRate, LimiterNext
<1>5. CASE Queue \/ Page \/ Post \/ Thread
  BY <1>5 DEF Queue, Page, Post, Thread
<1>6. CASE DigestSteps
  BY <1>6 DEF DigestSteps, SendAllDigests, PostDigest, SendDigest, FlushDigest
<1>7. CASE Restart
  BY <1>7 DEF Restart, LimiterNext
<1> QED
  BY <1>1, <1>2, <1>3, <1>4, <1>5, <1>6, <1>7 DEF Next, DispatchSteps

\* A list of channels is its first one and the rest.
LEMMA ChannelsSplit ==
  ASSUME NEW list \in Seq(Channels), list # <<>>
  PROVE  /\ Head(list) \in Channels /\ Tail(list) \in Seq(Channels)
         /\ ToSet(list) = {Head(list)} \cup ToSet(Tail(list))
         /\ Len(list) = 1 => ToSet(list) = {Head(list)}
         /\ Len(list) > 1 => Tail(list) # <<>>
         /\ Len(list) \in Nat /\ Len(list) >= 1
<1>1. /\ Len(list) \in Nat /\ Len(list) >= 1 /\ Head(list) = list[1]
      /\ Head(list) \in Channels /\ Tail(list) \in Seq(Channels)
      /\ Len(Tail(list)) = Len(list) - 1
      /\ DOMAIN list = 1 .. Len(list) /\ DOMAIN Tail(list) = 1 .. Len(list) - 1
      /\ \A i \in 1 .. Len(list) - 1 : Tail(list)[i] = list[i + 1]
  OBVIOUS
<1>2. ToSet(list) \subseteq {Head(list)} \cup ToSet(Tail(list))
  <2> SUFFICES ASSUME NEW i \in 1 .. Len(list), i # 1 PROVE list[i] \in ToSet(Tail(list))
    BY <1>1 DEF ToSet
  <2>1. i - 1 \in 1 .. Len(list) - 1 /\ Tail(list)[i - 1] = list[i]
    BY <1>1
  <2> QED
    BY <1>1, <2>1 DEF ToSet
<1>3. {Head(list)} \cup ToSet(Tail(list)) \subseteq ToSet(list)
  BY <1>1 DEF ToSet
<1>4. Len(list) = 1 => ToSet(Tail(list)) = {}
  BY <1>1 DEF ToSet
<1>5. Len(list) > 1 => Tail(list) # <<>>
  <2>1. Len(list) > 1 => Len(Tail(list)) # 0
    BY <1>1
  <2>2. Tail(list) = <<>> => Len(Tail(list)) = 0
    BY EmptySeq, Zenon
  <2> QED
    BY <2>1, <2>2, Zenon
<1> QED
  BY <1>1, <1>2, <1>3, <1>4, <1>5

\* A routing decision is one of Routes, and no report.
LEMMA RouteType ==
  ASSUME NEW s \in Services, NEW severity \in Severities, NEW oncall \in OncallChannels,
         NEW address \in OncallAddresses
  PROVE  LET d == Route(s, severity, oncall, address)
         IN  d \in Routes /\ d # NoReport /\ d.targets \in Seq(Channels) /\ d.targets # <<>>
<1> DEFINE d == Route(s, severity, oncall, address)
           rule == SlackChannel(severity)
<1>1. rule \in Channels /\ oncall \in Channels
  BY DEF SlackChannel, Channels
<1> HIDE DEF rule
<1>2. d.targets = IF oncall \in {Unset, rule} THEN <<rule>> ELSE <<rule, oncall>>
  BY DEF Route, rule
<1>3. d.targets \in Seq(Channels) /\ d.targets # <<>>
  <2>1. <<rule>> \in Seq(Channels) /\ <<rule, oncall>> \in Seq(Channels)
    BY <1>1
  <2>2. Len(<<rule>>) = 1 /\ Len(<<rule, oncall>>) = 2
    OBVIOUS
  <2>3. <<rule>> # <<>> /\ <<rule, oncall>> # <<>>
    BY <2>1, <2>2, EmptySeq
  <2> QED
    BY <1>2, <2>1, <2>3
<1>4. d \in Routes
  BY DEF Routes
<1> QED
  BY <1>3, <1>4, NoReportIsNoRoute

-----------------------------------------------------------------------------
LEMMA DispatcherInvInit == Init => DispatcherInv
<1> SUFFICES ASSUME Init PROVE DispatcherInv
  OBVIOUS
<1>1. LimiterInv
  BY LimiterInvInit DEF Init
<1>2. CallTypes
  <2>1. <<>> \in Seq(Channels)
    BY EmptySeq
  <2> QED
    BY <2>1 DEF Init, CallTypes
<1>3. DigestTypes
  BY DEF Init, DigestTypes
<1>4. QueuedIsKept /\ ChannelsWanted /\ Progress
  BY DispatcherConstants DEF Init, QueuedIsKept, ChannelsWanted, Done, Progress
<1> QED
  BY <1>1, <1>2, <1>3, <1>4, TypesInTwo DEF DispatcherInv, LimiterInv

\* The types and the progress of a call, when a report comes.
LEMMA DispatchKeeps ==
  ASSUME DispatcherInv, NewReport
  PROVE  CallTypes' /\ DigestTypes' /\ QueuedIsKept' /\ ChannelsWanted' /\ Progress'
<1> PICK r \in Reports, s \in Services, severity \in Severities, oncall \in OncallChannels,
         address \in OncallAddresses : Dispatch(r, s, severity, oncall, address)
  BY DEF NewReport
<1> DEFINE d == Route(s, severity, oncall, address)
<1>1. d \in Routes /\ d # NoReport /\ d.targets \in Seq(Channels) /\ d.targets # <<>>
  BY RouteType
<1>2. /\ pc = "idle" /\ info[r] = NoReport /\ info' = [info EXCEPT ![r] = d]
      /\ pc' = "check" /\ current' = r /\ targets' = d.targets
      /\ UNCHANGED <<notifiers, digest, todo, held, lastDigest, interrupted, queued, surfaced,
                     lost, tried, posted>>
  BY DEF Dispatch, digestVars, history
<1> HIDE DEF d
<1>3. CallTypes /\ DigestTypes
  BY TypesInTwo DEF DispatcherInv
<1>4. CallTypes'
  BY <1>1, <1>2, <1>3, DispatcherConstants DEF CallTypes
<1>5. DigestTypes'
  BY <1>2, <1>3 DEF DigestTypes
<1>6. QueuedIsKept'
  BY <1>2, <1>3 DEF DispatcherInv, QueuedIsKept, DigestTypes
<1>7. info'[r] = d /\ \A q \in Reports \ {r} : info'[q] = info[q]
  BY <1>2, <1>3 DEF CallTypes
<1>8. current = NoReport /\ NoReport \notin Reports /\ tried[r] = {} /\ r \notin queued \cup interrupted
  BY <1>2, <1>3, DispatcherConstants DEF CallTypes, DispatcherInv, Progress
<1>9. SlackOn' = SlackOn /\ PagerDutyOn' = PagerDutyOn
  BY <1>2 DEF SlackOn, PagerDutyOn
<1>10. \A q \in Reports \ {r} : Wanted(q)' = Wanted(q)
  BY <1>7, <1>9 DEF Wanted
<1>11. ChannelsWanted'
  <2> SUFFICES ASSUME NEW q \in Reports, Done(q)', q \notin (queued \cup interrupted)'
               PROVE  tried'[q] = Wanted(q)'
    BY DEF ChannelsWanted
  <2>1. q # r
    BY <1>2 DEF Done
  <2> QED
    BY <1>2, <1>7, <1>8, <1>10, <2>1 DEF DispatcherInv, ChannelsWanted, Done
<1>12. Progress'
  BY <1>1, <1>2, <1>7, <1>8 DEF DispatcherInv, Progress
<1> QED
  BY <1>4, <1>5, <1>6, <1>11, <1>12

\* The limiter's answer changes nothing of the call but what comes next.
LEMMA CheckKeeps ==
  ASSUME DispatcherInv, CheckRate
  PROVE  CallTypes' /\ DigestTypes' /\ QueuedIsKept' /\ ChannelsWanted' /\ Progress'
<1>1. CallTypes /\ DigestTypes /\ QueuedIsKept
  BY TypesInTwo DEF DispatcherInv
<1>2. /\ pc = "check" /\ pc' \in {"queue", "page"}
      /\ UNCHANGED <<notifiers, info, current, targets, digest, todo, held, lastDigest, interrupted,
                     queued, surfaced, lost, tried, posted>>
  BY DEF CheckRate, digestVars, history
<1>3. CallTypes'
  BY <1>1, <1>2 DEF CallTypes
<1>4. DigestTypes' /\ QueuedIsKept'
  BY <1>1, <1>2 DEF DigestTypes, QueuedIsKept
<1>5. \A r \in Reports : Wanted(r)' = Wanted(r)
  BY <1>2 DEF Wanted, PagerDutyOn, SlackOn
<1>6. ChannelsWanted'
  BY <1>2, <1>5 DEF DispatcherInv, ChannelsWanted, Done
<1>7. Progress'
  BY <1>2 DEF DispatcherInv, Progress
<1> QED
  BY <1>3, <1>4, <1>6, <1>7

\* A report that is queued is in the digest, and the call is done with it.
LEMMA QueueKeeps ==
  ASSUME DispatcherInv, Queue
  PROVE  CallTypes' /\ DigestTypes' /\ QueuedIsKept' /\ ChannelsWanted' /\ Progress'
<1> DEFINE s == info[current].service
<1>1. CallTypes /\ DigestTypes /\ QueuedIsKept /\ NoReport \notin Reports
  BY TypesInTwo, DispatcherConstants DEF DispatcherInv
<1>2. /\ pc = "queue" /\ pc' = "idle" /\ current' = NoReport /\ targets' = <<>>
      /\ digest' = [digest EXCEPT ![s] = @ \cup {current}]
      /\ queued' = queued \cup {current}
      /\ UNCHANGED <<notifiers, info, todo, held, lastDigest, interrupted, surfaced, lost, tried,
                     posted>>
  BY DEF Queue, Finish, AddToDigest
<1>3. current \in Reports /\ info[current] # NoReport /\ info[current] \in Routes
  BY <1>1, <1>2 DEF CallTypes, DispatcherInv, Progress
<1>4. s \in Services
  <2>1. PICK t \in Services, v \in Severities, o \in OncallChannels, a \in OncallAddresses :
           info[current] = Route(t, v, o, a)
    BY <1>3 DEF Routes
  <2> QED
    BY <2>1 DEF Route
<1> HIDE DEF s
<1>5. CallTypes'
  <2>1. <<>> \in Seq(Channels)
    BY EmptySeq
  <2> QED
    BY <1>1, <1>2, <2>1 DEF CallTypes
<1>6. DigestTypes'
  BY <1>1, <1>2, <1>3, <1>4 DEF DigestTypes
<1>7. QueuedIsKept'
  <2>1. current \in digest'[s] /\ \A t \in Services : digest[t] \subseteq digest'[t]
    BY <1>1, <1>2, <1>4 DEF DigestTypes
  <2> QED
    BY <1>1, <1>2, <1>4, <2>1 DEF QueuedIsKept
<1>8. \A r \in Reports : Wanted(r)' = Wanted(r)
  BY <1>2 DEF Wanted, PagerDutyOn, SlackOn
<1>9. ChannelsWanted'
  BY <1>2, <1>8 DEF DispatcherInv, ChannelsWanted, Done
<1>10. Progress'
  BY <1>1, <1>2, <1>3 DEF DispatcherInv, Progress
<1> QED
  BY <1>5, <1>6, <1>7, <1>9, <1>10

\* One step of dispatch() with the report it works on: what is left to try
\* shrinks by what was tried.
LEMMA CallKeeps ==
  ASSUME DispatcherInv, Page \/ Post \/ Thread
  PROVE  CallTypes' /\ ChannelsWanted' /\ Progress'
<1>1. CallTypes
  BY TypesInTwo DEF DispatcherInv
<1>2. current \in Reports /\ targets \in Seq(Channels) /\ targets # <<>>
  BY <1>1 DEF CallTypes, Page, Post, Thread
<1>3. NoReport \notin Reports
  BY DispatcherConstants
<1>4. UNCHANGED <<notifiers, info, queued, interrupted>>
  BY DEF Page, Post, Thread, dispatchVars, history
<1>5. \A r \in Reports : Wanted(r)' = Wanted(r)
  BY <1>4 DEF Wanted, PagerDutyOn, SlackOn
<1>6. info[current] # NoReport /\ current \notin queued \cup interrupted
  BY <1>2, <1>3 DEF DispatcherInv, Progress
<1>7. ASSUME NEW more \in SUBSET Channels,
             tried' = [tried EXCEPT ![current] = @ \cup more],
             posted' \in [Reports -> SUBSET Channels],
             \/ Finish /\ tried'[current] = Wanted(current)
             \/ /\ pc' \in {"post", "thread"} /\ current' = current
                /\ targets' \in Seq(Channels) /\ targets' # <<>>
                /\ SlackOn /\ tried'[current] \cup ToSet(targets') = Wanted(current)
                /\ pc' = "thread" => Head(targets') \in tried'[current]
      PROVE  CallTypes' /\ ChannelsWanted' /\ Progress'
  <2>1. tried'[current] = tried[current] \cup more
    BY <1>1, <1>2, <1>7 DEF CallTypes
  <2>2. \A r \in Reports \ {current} : tried'[r] = tried[r]
    BY <1>1, <1>2, <1>7 DEF CallTypes
  <2>3. tried' \in [Reports -> SUBSET Channels]
    BY <1>1, <1>2, <1>7 DEF CallTypes
  <2>4. CASE Finish /\ tried'[current] = Wanted(current)
    <3>1. pc' = "idle" /\ current' = NoReport /\ targets' = <<>>
      BY <2>4 DEF Finish
    <3>2. CallTypes'
      <4>1. <<>> \in Seq(Channels)
        BY EmptySeq
      <4> QED
        BY <1>1, <1>4, <1>7, <2>3, <3>1, <4>1 DEF CallTypes
    <3>3. ChannelsWanted'
      BY <1>3, <1>4, <1>5, <2>2, <2>4, <3>1 DEF DispatcherInv, ChannelsWanted, Done
    <3>4. Progress'
      BY <1>3, <1>4, <1>6, <2>2, <3>1 DEF DispatcherInv, Progress
    <3> QED
      BY <3>2, <3>3, <3>4
  <2>5. CASE ~(Finish /\ tried'[current] = Wanted(current))
    <3>1. /\ pc' \in {"post", "thread"} /\ current' = current
          /\ targets' \in Seq(Channels) /\ targets' # <<>>
          /\ SlackOn /\ tried'[current] \cup ToSet(targets') = Wanted(current)
          /\ pc' = "thread" => Head(targets') \in tried'[current]
      BY <1>7, <2>5
    <3>2. CallTypes'
      BY <1>1, <1>2, <1>3, <1>4, <1>7, <2>3, <3>1 DEF CallTypes
    <3>3. ChannelsWanted'
      BY <1>4, <1>5, <2>2, <3>1 DEF DispatcherInv, ChannelsWanted, Done
    <3>4. SlackOn' = SlackOn /\ ToSet(targets)' = ToSet(targets')
      BY <1>4 DEF SlackOn, ToSet
    <3>5. Progress'
      BY <1>2, <1>4, <1>5, <1>6, <2>2, <3>1, <3>4 DEF DispatcherInv, Progress
    <3> QED
      BY <3>2, <3>3, <3>5
  <2> QED
    BY <2>4, <2>5
<1>8. CASE Page
  <2>1. /\ pc = "page" /\ tried[current] = {} /\ targets = info[current].targets
    BY <1>8 DEF Page, DispatcherInv, Progress
  <2> DEFINE more == IF "pagerduty" \in info[current].channels /\ PagerDutyOn THEN {"pagerduty"} ELSE {}
  <2>2. tried' = [tried EXCEPT ![current] = @ \cup more]
    BY <1>1, <1>8 DEF Page, Try, CallTypes
  <2>3. posted' \in [Reports -> SUBSET Channels]
    BY <1>1, <1>2, <1>8 DEF Page, Show, CallTypes, Channels
  <2>4. Wanted(current) = more \cup (IF SlackOn THEN ToSet(targets) ELSE {})
    BY <2>1 DEF Wanted
  <2>5. tried'[current] = more
    BY <1>1, <1>2, <2>1, <2>2 DEF CallTypes
  <2>6. more \in SUBSET Channels
    BY DEF Channels
  <2> HIDE DEF more
  <2>7. CASE SlackOn
    <3>1. pc' = "post" /\ current' = current /\ targets' = targets
      BY <1>8, <2>7 DEF Page
    <3> QED
      BY <1>2, <1>7, <2>2, <2>3, <2>4, <2>5, <2>6, <2>7, <3>1
  <2>8. CASE ~SlackOn
    <3>1. Finish
      BY <1>8, <2>8 DEF Page
    <3> QED
      BY <1>7, <2>2, <2>3, <2>4, <2>5, <2>6, <2>8, <3>1
  <2> QED
    BY <2>7, <2>8
<1>9. ASSUME NextTarget, NEW more \in SUBSET Channels,
             tried' = [tried EXCEPT ![current] = @ \cup more],
             posted' \in [Reports -> SUBSET Channels],
             pc \in {"post", "thread"}, Head(targets) \in tried[current] \cup more,
             more \subseteq {Head(targets)}
      PROVE  CallTypes' /\ ChannelsWanted' /\ Progress'
  <2>1. SlackOn /\ tried[current] \cup ToSet(targets) = Wanted(current)
    BY <1>9 DEF DispatcherInv, Progress
  <2>2. tried'[current] = tried[current] \cup more
    BY <1>1, <1>2, <1>9 DEF CallTypes
  <2>3. /\ Tail(targets) \in Seq(Channels)
        /\ ToSet(targets) = {Head(targets)} \cup ToSet(Tail(targets))
        /\ Len(targets) = 1 => ToSet(targets) = {Head(targets)}
        /\ Len(targets) > 1 => Tail(targets) # <<>>
    BY <1>2, ChannelsSplit
  <2>4. CASE Len(targets) > 1 /\ pc' = "post" /\ targets' = Tail(targets) /\ UNCHANGED current
    <3>1. tried'[current] \cup ToSet(targets') = Wanted(current)
      BY <1>9, <2>1, <2>2, <2>3, <2>4
    <3> QED
      BY <1>7, <1>9, <2>1, <2>3, <2>4, <3>1
  <2>5. CASE Len(targets) = 1 /\ Finish
    <3>1. tried'[current] = Wanted(current)
      BY <1>9, <2>1, <2>2, <2>3, <2>5
    <3> QED
      BY <1>7, <1>9, <2>5, <3>1
  <2> QED
    BY <1>9, <2>4, <2>5 DEF NextTarget
<1>10. CASE Post
  <2>1. /\ pc = "post" /\ tried' = [tried EXCEPT ![current] = @ \cup {Head(targets)}]
        /\ \/ /\ posted' = [posted EXCEPT ![current] = @ \cup {Head(targets)}]
              /\ pc' = "thread" /\ UNCHANGED <<current, targets>>
           \/ NextTarget /\ UNCHANGED posted
    BY <1>10 DEF Post, Try, Show, FailedPost
  <2>2. Head(targets) \in Channels /\ Head(targets) \in ToSet(targets)
    BY <1>2, ChannelsSplit
  <2>3. posted' \in [Reports -> SUBSET Channels]
    BY <1>1, <1>2, <2>1, <2>2 DEF CallTypes
  <2>4. CASE NextTarget
    BY <1>9, <2>1, <2>2, <2>3, <2>4
  <2>5. CASE ~NextTarget
    <3>1. pc' = "thread" /\ current' = current /\ targets' = targets
      BY <2>1, <2>5
    <3>2. tried'[current] = tried[current] \cup {Head(targets)}
      BY <1>1, <1>2, <2>1 DEF CallTypes
    <3>3. SlackOn /\ tried[current] \cup ToSet(targets) = Wanted(current)
      BY <2>1 DEF DispatcherInv, Progress
    <3>4. tried'[current] \cup ToSet(targets') = Wanted(current)
      BY <2>2, <3>1, <3>2, <3>3
    <3>5. Head(targets') \in tried'[current]
      BY <3>1, <3>2
    <3>6. {Head(targets)} \in SUBSET Channels
      BY <2>2
    <3>7. targets' \in Seq(Channels) /\ targets' # <<>> /\ pc' \in {"post", "thread"}
      BY <1>2, <3>1
    <3> QED
      BY <1>7, <2>1, <2>3, <3>1, <3>3, <3>4, <3>5, <3>6, <3>7
  <2> QED
    BY <2>4, <2>5
<1>11. CASE Thread
  <2>1. pc = "thread" /\ NextTarget /\ tried' = tried /\ posted' = posted
    BY <1>11 DEF Thread, history
  <2>2. Head(targets) \in tried[current]
    BY <2>1 DEF DispatcherInv, Progress
  <2>3. tried' = [tried EXCEPT ![current] = @ \cup {}]
    BY <1>1, <2>1 DEF CallTypes
  <2>4. posted' \in [Reports -> SUBSET Channels]
    BY <1>1, <2>1 DEF CallTypes
  <2>5. /\ {} \in SUBSET Channels /\ {} \subseteq {Head(targets)}
        /\ Head(targets) \in tried[current] \cup {} /\ pc \in {"post", "thread"}
    BY <2>1, <2>2
  <2> QED
    BY <1>9, <2>1, <2>3, <2>4, <2>5
<1> QED
  BY <1>8, <1>10, <1>11

\* A step that leaves the call alone, and one that leaves the digest alone.
LEMMA CallUntouched ==
  ASSUME DispatcherInv, UNCHANGED <<dispatchVars, queued, interrupted, tried, posted>>
  PROVE  CallTypes' /\ ChannelsWanted' /\ Progress'
<1>1. CallTypes
  BY TypesInTwo DEF DispatcherInv
<1>2. \A r \in Reports : Wanted(r)' = Wanted(r)
  BY DEF Wanted, PagerDutyOn, SlackOn, dispatchVars
<1>3. ChannelsWanted'
  BY <1>2 DEF DispatcherInv, ChannelsWanted, Done, dispatchVars
<1>4. ToSet(targets)' = ToSet(targets) /\ SlackOn' = SlackOn
  BY DEF ToSet, SlackOn, dispatchVars
<1>5. pc \in {"post", "thread"} => Wanted(current)' = Wanted(current)
  BY DEF Wanted, PagerDutyOn, SlackOn, dispatchVars
<1>6. Progress'
  BY <1>4, <1>5 DEF DispatcherInv, Progress, dispatchVars
<1> QED
  BY <1>1, <1>3, <1>6 DEF CallTypes, dispatchVars

LEMMA DigestUntouched ==
  ASSUME DispatcherInv, UNCHANGED <<digestVars, queued, surfaced, lost, interrupted>>
  PROVE  DigestTypes' /\ QueuedIsKept'
<1>1. DigestTypes /\ QueuedIsKept
  BY TypesInTwo DEF DispatcherInv
<1> QED
  BY <1>1 DEF DigestTypes, QueuedIsKept, digestVars

\* The scheduler's thread: what is flushed is held, and then posted or lost.
LEMMA DigestKeeps ==
  ASSUME DispatcherInv, DigestSteps
  PROVE  DigestTypes' /\ QueuedIsKept'
<1> USE DEF DigestTypes, QueuedIsKept
<1>1. DigestTypes /\ QueuedIsKept
  BY TypesInTwo DEF DispatcherInv
<1>2. CASE SendAllDigests
  BY <1>1, <1>2 DEF SendAllDigests, ListPending, Pending, history
<1>3. ASSUME NEW s \in Services, SendDigest(s) PROVE DigestTypes' /\ QueuedIsKept'
  BY <1>1, <1>3 DEF SendDigest, history
<1>4. ASSUME NEW s \in Services, FlushDigest(s) PROVE DigestTypes' /\ QueuedIsKept'
  <2>1. /\ held = {} /\ digest' = [digest EXCEPT ![s] = {}] /\ todo' = todo \ {s}
        /\ UNCHANGED <<interrupted, queued, surfaced>>
        /\ \/ digest[s] = {} /\ lastDigest' = "empty" /\ UNCHANGED <<held, lost>>
           \/ /\ lastDigest' = "no_notifier" /\ lost' = lost \cup digest[s] /\ UNCHANGED held
           \/ held' = digest[s] /\ UNCHANGED <<lastDigest, lost>>
    BY <1>4 DEF FlushDigest, Flush
  <2>2. DigestTypes'
    BY <1>1, <2>1
  <2>3. \A t \in Services \ {s} : digest'[t] = digest[t]
    BY <1>1, <2>1
  <2>4. digest[s] \subseteq lost' \cup held' /\ lost \subseteq lost'
    BY <1>1, <2>1
  <2>5. QueuedIsKept'
    BY <1>1, <2>1, <2>3, <2>4
  <2> QED
    BY <2>2, <2>5
<1>5. CASE PostDigest
  BY <1>1, <1>5 DEF PostDigest
<1> QED
  BY <1>2, <1>3, <1>4, <1>5 DEF DigestSteps

\* A restart: what was in memory is lost, what was queued is counted as lost.
LEMMA RestartKeeps ==
  ASSUME DispatcherInv, Restart
  PROVE  CallTypes' /\ DigestTypes' /\ QueuedIsKept' /\ ChannelsWanted' /\ Progress'
<1>1. CallTypes /\ DigestTypes /\ QueuedIsKept /\ NoReport \notin Reports
  BY TypesInTwo, DispatcherConstants DEF DispatcherInv
<1>2. /\ pc' = "idle" /\ current' = NoReport /\ targets' = <<>>
      /\ digest' = [s \in Services |-> {}] /\ todo' = {} /\ held' = {} /\ lastDigest' = "none"
      /\ interrupted' = interrupted \cup ({current} \cap Reports)
      /\ lost' = lost \cup held \cup UNION {digest[s] : s \in Services}
      /\ UNCHANGED <<notifiers, info, queued, surfaced, tried, posted>>
  BY DEF Restart, Finish
<1>3. <<>> \in Seq(Channels)
  BY EmptySeq
<1>4. CallTypes'
  BY <1>1, <1>2, <1>3 DEF CallTypes
<1>5. UNION {digest[s] : s \in Services} \subseteq Reports
  BY <1>1 DEF DigestTypes
<1>6. DigestTypes'
  BY <1>1, <1>2, <1>5 DEF DigestTypes
<1>7. QueuedIsKept'
  BY <1>1, <1>2 DEF QueuedIsKept
<1>8. \A r \in Reports : Wanted(r)' = Wanted(r)
  BY <1>2 DEF Wanted, PagerDutyOn, SlackOn
<1>9. ChannelsWanted'
  BY <1>1, <1>2, <1>8 DEF DispatcherInv, ChannelsWanted, Done
<1>10. Progress'
  BY <1>1, <1>2 DEF DispatcherInv, Progress
<1> QED
  BY <1>4, <1>6, <1>7, <1>9, <1>10

LEMMA DispatcherInvStep == DispatcherInv /\ [Next]_vars => DispatcherInv'
<1> SUFFICES ASSUME DispatcherInv, [Next]_vars PROVE DispatcherInv'
  OBVIOUS
<1>1. LimiterInv'
  <2>1. CallTypes /\ Progress
    BY TypesInTwo DEF DispatcherInv
  <2> QED
    BY <2>1, StepsOfLimiter, LimiterInvStep DEF DispatcherInv
<1>2. CallTypes' /\ DigestTypes' /\ QueuedIsKept' /\ ChannelsWanted' /\ Progress'
  <2>1. CASE NewReport
    BY <2>1, DispatchKeeps
  <2>2. CASE DispatchSteps
    <3>1. CASE Page \/ Post \/ Thread
      <4>1. UNCHANGED <<digestVars, queued, surfaced, lost, interrupted>>
        BY <3>1 DEF Page, Post, Thread, history
      <4> QED
        BY <3>1, <4>1, CallKeeps, DigestUntouched
    <3>2. CASE CheckRate \/ Queue
      BY <3>2, CheckKeeps, QueueKeeps
    <3> QED
      BY <2>2, <3>1, <3>2 DEF DispatchSteps
  <2>3. CASE DigestSteps
    <3>1. UNCHANGED <<dispatchVars, queued, interrupted, tried, posted>>
      BY <2>3 DEF DigestSteps, SendAllDigests, PostDigest, SendDigest, FlushDigest, history
    <3> QED
      BY <2>3, <3>1, CallUntouched, DigestKeeps
  <2>4. CASE Clock \/ UseLimiter \/ UNCHANGED vars
    <3>1. UNCHANGED <<dispatchVars, digestVars, history>>
      BY <2>4 DEF Clock, UseLimiter, vars
    <3>2. /\ UNCHANGED <<dispatchVars, queued, interrupted, tried, posted>>
          /\ UNCHANGED <<digestVars, queued, surfaced, lost, interrupted>>
      BY <3>1 DEF history
    <3> QED
      BY <3>2, CallUntouched, DigestUntouched
  <2>5. CASE Restart
    BY <2>5, RestartKeeps
  <2> QED
    BY <2>1, <2>2, <2>3, <2>4, <2>5 DEF Next
<1>3. TypeOK'
  <2>1. (TypeOK <=> LimiterTypeOK /\ CallTypes /\ DigestTypes)'
    BY TypesInTwo, PTL
  <2> QED
    BY <1>1, <1>2, <2>1 DEF LimiterInv
<1> QED
  BY <1>1, <1>2, <1>3 DEF DispatcherInv

-----------------------------------------------------------------------------
\* The dispatcher uses its limiter as the limiter is specified, whatever its
\* callers and the scheduler do.
THEOREM DispatcherUsesLimiter == Spec => LimiterSpec
<1>1. Init => LimiterInit
  BY DEF Init
<1>2. DispatcherInv /\ [Next]_vars => [LimiterNext]_limiterVars
  BY TypesInTwo, StepsOfLimiter DEF DispatcherInv
<1> QED
  BY <1>1, <1>2, DispatcherInvInit, DispatcherInvStep, PTL DEF Spec, LimiterSpec

\* So the bound of the hour holds of it, though current_count purges beside it,
THEOREM DispatcherKeepsRate == Spec => []RateBound
BY DispatcherUsesLimiter, RateIsBounded, PTL

\* and no purge forgets an alert that still counts.
THEOREM DispatcherWindowsExact == Spec => []WindowExact
BY DispatcherUsesLimiter, WindowsAreExact, PTL

\* Type correctness of the dispatcher.
THEOREM DispatcherTypeCorrect == Spec => []TypeOK
<1>1. DispatcherInv => TypeOK
  BY DEF DispatcherInv
<1> QED
  BY <1>1, DispatcherInvInit, DispatcherInvStep, PTL DEF Spec

\* A report that was limited is in the digest, in a post, or accounted for.
THEOREM DigestKeepsQueued == Spec => []QueuedIsKept
<1>1. DispatcherInv => QueuedIsKept
  BY DEF DispatcherInv
<1> QED
  BY <1>1, DispatcherInvInit, DispatcherInvStep, PTL DEF Spec

\* What a routing decision asks for and somebody serves.
LEMMA ServedIsWanted ==
  ASSUME NEW r \in Reports, info[r] \in Routes
  PROVE  Asked(r) \ Unserved(r) = Wanted(r)
<1>1. PICK s \in Services, v \in Severities, o \in OncallChannels, a \in OncallAddresses :
         info[r] = Route(s, v, o, a)
  BY DEF Routes
<1>2. {"pagerduty", "email"} \cap ToSet(info[r].targets) = {}
  <2> DEFINE rule == SlackChannel(v)
  <2>1. rule \in {"#incidents", "#alerts", "#monitoring"}
    BY DEF SlackChannel
  <2> HIDE DEF rule
  <2>2. info[r].targets = IF o \in {Unset, rule} THEN <<rule>> ELSE <<rule, o>>
    BY <1>1 DEF Route, rule
  <2>3. ToSet(<<rule>>) = {rule} /\ ToSet(<<rule, o>>) = {rule, o}
    BY DEF ToSet
  <2>4. o \notin {"pagerduty", "email"}
    BY DispatcherConstants
  <2> QED
    BY <2>1, <2>2, <2>3, <2>4
<1> QED
  BY <1>2, Zenon DEF Asked, Unserved, Wanted

\* Whatever channels fail, all the others are tried, but for the e-mail, and no
\* other is.
THEOREM ChannelsAreTried == Spec => []EveryChannelTried
<1>1. DispatcherInv => EveryChannelTried
  <2> SUFFICES ASSUME DispatcherInv, NEW r \in Reports, Done(r), r \notin queued \cup interrupted
               PROVE  tried[r] = Asked(r) \ Unserved(r)
    BY DEF EveryChannelTried
  <2>1. info[r] \in Routes
    BY TypesInTwo DEF DispatcherInv, CallTypes, Done
  <2> QED
    BY <2>1, ServedIsWanted DEF DispatcherInv, ChannelsWanted
<1> QED
  BY <1>1, DispatcherInvInit, DispatcherInvStep, PTL DEF Spec

\* Only a service that used up its alerts is left to the digest.
THEOREM QueuedWhenFull == Spec => QueuedOnlyWhenFull
<1> DEFINE recent == Recent(granted[info[current].service], clock["dispatch"])
           Full == pc = "check" /\ pc' = "queue" => Cardinality(recent) >= MaxAlerts
<1>1. DispatcherInv /\ [Next]_vars => [Full]_vars
  <2> SUFFICES ASSUME DispatcherInv, Next, pc = "check", pc' = "queue"
               PROVE  Cardinality(recent) >= MaxAlerts
    OBVIOUS
  <2>1. CallTypes /\ Progress /\ FiniteGrants /\ LimiterTypeOK
    BY TypesInTwo DEF DispatcherInv, LimiterInv
  <2>2. ~Clock /\ ~UseLimiter /\ ~NewReport /\ ~DigestSteps /\ ~Restart
    BY DEF Clock, UseLimiter, NewReport, Dispatch, DigestSteps, SendAllDigests, PostDigest,
           SendDigest, FlushDigest, Restart, Finish, dispatchVars
  <2>3. CheckRate
    BY <2>2 DEF Next, DispatchSteps, Queue, Page, Post, Thread
  <2> DEFINE s == info[current].service
             window == Purged(s, clock["dispatch"])
  <2>4. s \in Services
    BY <2>1, <2>3, CheckedReport
  <2>5. ~(Cardinality(window) < MaxAlerts)
    BY <2>3 DEF CheckRate, Refuse, Room
  <2>6. window \subseteq recent /\ IsFiniteSet(recent) /\ IsFiniteSet(window)
    <3>1. windows[s] \subseteq granted[s] /\ IsFiniteSet(granted[s])
      BY <2>1, <2>4 DEF LimiterTypeOK, FiniteGrants
    <3>2. window \subseteq recent /\ recent \subseteq granted[s]
      BY <3>1 DEF Purged, Recent
    <3> QED
      BY <3>1, <3>2, FS_Subset
  <2> HIDE DEF s, window, recent
  <2>7. /\ Cardinality(window) <= Cardinality(recent)
        /\ Cardinality(window) \in Nat /\ Cardinality(recent) \in Nat
    BY <2>6, FS_Subset, FS_CardinalityType
  <2> QED
    BY <2>5, <2>7, RateLimiterConstants
<1> QED
  BY <1>1, DispatcherInvInit, DispatcherInvStep, PTL DEF Spec, QueuedOnlyWhenFull
=============================================================================
