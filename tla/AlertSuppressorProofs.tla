------------------------ MODULE AlertSuppressorProofs ------------------------
(***************************************************************************)
(* Theorems about AlertSuppressor, for every set of services and of        *)
(* replicas and every value of the cooldowns, windows and bounds.          *)
(***************************************************************************)
EXTENDS AlertSuppressor, TLAPS

-----------------------------------------------------------------------------
\* The initial state has the types of TypeOK.
LEMMA TypeCorrectInit == Init => TypeOK
<1> SUFFICES ASSUME Init PROVE TypeOK
  OBVIOUS
<1>1. /\ covered \in [Services -> BOOLEAN]
      /\ announced \in BOOLEAN
  BY Zenon DEF Init
<1>2. now \in Nat \ {0} /\ stormActive \in Nat /\ owner \in Workers \cup {NoWorker}
      /\ recorded \in Counts
  BY DEF Init, Counts
<1> QED
  BY <1>1, <1>2 DEF Init, TypeOK, Steps, Verdicts

\* No step of the suppressor leaves the types, one action at a time.
LEMMA TypeCorrectStep == TypeOK /\ [Next]_vars => TypeOK'
<1> SUFFICES ASSUME TypeOK, [Next]_vars PROVE TypeOK'
  OBVIOUS
<1> USE SuppressorConstants
     DEF TypeOK, Steps, Verdicts, Fault, Goto, ReadClock, Return, redis, local, history
<1>1. CASE Tick
  BY <1>1 DEF Tick
<1>2. CASE ClearStorm
  BY <1>2 DEF ClearStorm
<1>3. ASSUME NEW w \in Workers, NEW s \in Services, Detect(w, s) PROVE TypeOK'
  BY <1>3 DEF Detect
<1>4. ASSUME NEW w \in Workers, CheckCooldown(w) PROVE TypeOK'
  BY <1>4 DEF CheckCooldown, SuppressedAs
<1>5. ASSUME NEW w \in Workers, CheckStormActive(w) PROVE TypeOK'
  BY <1>5 DEF CheckStormActive, SuppressedAs
<1>6. ASSUME NEW w \in Workers, SetCooldown(w) PROVE TypeOK'
  <2>1. now + Cooldown \in Nat
    OBVIOUS
  <2>2. covered' \in [Services -> BOOLEAN]
    BY <1>6, Zenon DEF SetCooldown
  <2>3. recorded' \in Counts
    <3> DEFINE s == service[w]
               first == [v \in Workers |-> IF v = w THEN 1 ELSE 0]
    <3>1. first \in [Workers -> Nat]
      OBVIOUS
    <3> HIDE DEF first
    <3>2. CASE recorded' = [recorded EXCEPT ![s] = first]
      BY <3>1, <3>2 DEF Counts
    <3>3. CASE recorded' = [recorded EXCEPT ![s][w] = @ + 1]
      <4> DEFINE again == [recorded[s] EXCEPT ![w] = @ + 1]
      <4>1. s \in Services => again \in [Workers -> Nat]
        BY DEF Counts
      <4>2. recorded' = [recorded EXCEPT ![s] = again]
        BY <3>3, Zenon
      <4> HIDE DEF again
      <4> QED
        BY <4>1, <4>2 DEF Counts
    <3> QED
      BY <1>6, <3>2, <3>3 DEF SetCooldown, first
  <2> QED
    BY <1>6, <2>1, <2>2, <2>3 DEF SetCooldown
<1>7. ASSUME NEW w \in Workers, AddToWindow(w) PROVE TypeOK'
  BY <1>7 DEF AddToWindow
<1>8. ASSUME NEW w \in Workers, PruneWindow(w) PROVE TypeOK'
  <2>1. Pruned(stormAlerts, clock[w] - StormWindow) \in [Services -> Nat]
    BY DEF Pruned
  <2> QED
    BY <1>8, <2>1 DEF PruneWindow
<1>9. ASSUME NEW w \in Workers, ReturnSuppressed(w) PROVE TypeOK'
  BY <1>9 DEF ReturnSuppressed
<1>10. ASSUME NEW w \in Workers, CrossThreshold(w) PROVE TypeOK'
  BY <1>10 DEF CrossThreshold, Members
<1>11. ASSUME NEW w \in Workers, Allow(w) PROVE TypeOK'
  BY <1>11 DEF Allow, Members
<1>12. ASSUME NEW w \in Workers, WinStorm(w) PROVE TypeOK'
  <2>1. now + StormCooldown \in Nat
    OBVIOUS
  <2> QED
    BY <1>12, <2>1 DEF WinStorm
<1>13. ASSUME NEW w \in Workers, LoseStorm(w) PROVE TypeOK'
  BY <1>13 DEF LoseStorm
<1>14. ASSUME NEW w \in Workers, Emit(w) PROVE TypeOK'
  <2>1. covered' \in [Services -> BOOLEAN] /\ announced' \in BOOLEAN
    BY <1>14 DEF Emit
  <2> QED
    BY <1>14, <2>1 DEF Emit
<1>15. ASSUME NEW w \in Workers, Abort(w) PROVE TypeOK'
  BY <1>15 DEF Abort
<1>16. CASE Evict
  BY <1>16 DEF Evict
<1>17. CASE UNCHANGED vars
  BY <1>17 DEF vars
<1> QED
  BY <1>1, <1>2, <1>3, <1>4, <1>5, <1>6, <1>7, <1>8, <1>9, <1>10, <1>11,
     <1>12, <1>13, <1>14, <1>15, <1>16, <1>17 DEF Next, Step

\* Type correctness of every reachable state.
THEOREM TypeCorrect == Spec => []TypeOK
BY TypeCorrectInit, TypeCorrectStep, PTL DEF Spec

-----------------------------------------------------------------------------
\* A worker in a call has a service: only an idle one has none.
BusyHasService == \A w \in Workers : pc[w] # "idle" => service[w] \in Services

\* OncePerCooldown is inductive once this and the types are known.
SuppressorInv == TypeOK /\ BusyHasService /\ OncePerCooldown

\* SuppressorInv holds in the initial state: no worker is busy.
LEMMA InvInit == Init => SuppressorInv
<1> SUFFICES ASSUME Init PROVE SuppressorInv
  OBVIOUS
<1>1. TypeOK
  BY TypeCorrectInit
<1>2. BusyHasService /\ OncePerCooldown
  BY DEF Init, BusyHasService, OncePerCooldown, Unrecorded
<1> QED
  BY <1>1, <1>2 DEF SuppressorInv

\* SuppressorInv is preserved by every step: a worker enters the steps before
\* the SET only past a key that has expired, and the SET moves it out of them.
LEMMA InvStep == SuppressorInv /\ [Next]_vars => SuppressorInv'
<1> SUFFICES ASSUME SuppressorInv, [Next]_vars PROVE SuppressorInv'
  OBVIOUS
<1>1. TypeOK'
  BY TypeCorrectStep DEF SuppressorInv
<1> USE <1>1 DEF SuppressorInv, BusyHasService, OncePerCooldown, Unrecorded, Alive,
                Goto, ReadClock, Return, redis, local, history
<1>2. CASE Tick
  <2>1. now' = now + 1 /\ now \in Nat /\ UNCHANGED <<cooldown, pc, service, recorded>>
    BY <1>2 DEF Tick, TypeOK
  <2>2. BusyHasService'
    BY <2>1
  <2>3. OncePerCooldown'
    <3> SUFFICES ASSUME NEW w \in Workers, pc[w] \in {"exists_storm", "set_cooldown"},
                        recorded[service[w]][w] > 0
                 PROVE  ~(now + 1 < cooldown[service[w]])
      BY <2>1
    <3>1. service[w] \in Services /\ ~(now < cooldown[service[w]])
      OBVIOUS
    <3>2. cooldown[service[w]] \in Nat
      BY <3>1 DEF TypeOK
    <3> QED
      BY <3>1, <3>2, <2>1
  <2> QED
    BY <2>2, <2>3
<1>3. CASE ClearStorm
  BY <1>3 DEF ClearStorm
<1>4. ASSUME NEW w \in Workers, NEW s \in Services, Detect(w, s) PROVE SuppressorInv'
  BY <1>4 DEF Detect, TypeOK
<1>5. ASSUME NEW w \in Workers, CheckCooldown(w) PROVE SuppressorInv'
  BY <1>5 DEF CheckCooldown, InCooldown, SuppressedAs, TypeOK
<1>6. ASSUME NEW w \in Workers, CheckStormActive(w) PROVE SuppressorInv'
  BY <1>6 DEF CheckStormActive, SuppressedAs, TypeOK
<1>7. ASSUME NEW w \in Workers, SetCooldown(w) PROVE SuppressorInv'
  <2> DEFINE s == service[w]
  <2>1. /\ s \in Services /\ pc[w] = "set_cooldown"
        /\ pc' = [pc EXCEPT ![w] = "zadd"]
        /\ UNCHANGED <<now, service>>
    BY <1>7 DEF SetCooldown, TypeOK
  <2>2. BusyHasService'
    BY <2>1 DEF TypeOK
  <2>3. OncePerCooldown'
    <3> SUFFICES ASSUME NEW v \in Workers, pc'[v] \in {"exists_storm", "set_cooldown"},
                        recorded'[service[v]][v] > 0
                 PROVE  ~(now < cooldown'[service[v]])
      BY <2>1
    <3>1. v # w /\ pc[v] = pc'[v] /\ service[v] \in Services
      BY <2>1 DEF TypeOK
    <3>2. CASE Alive(cooldown[s])
      <4>1. cooldown' = cooldown /\ recorded' = [recorded EXCEPT ![s][w] = @ + 1]
        BY <1>7, <3>2 DEF SetCooldown
      <4>2. recorded[service[v]][v] > 0
        BY <4>1, <3>1 DEF TypeOK, Counts
      <4> QED
        BY <4>1, <4>2, <3>1
    <3>3. CASE ~Alive(cooldown[s])
      <4>1. /\ cooldown' = [cooldown EXCEPT ![s] = now + Cooldown]
            /\ recorded' = [recorded EXCEPT ![s] = [u \in Workers |-> IF u = w THEN 1 ELSE 0]]
        BY <1>7, <3>3 DEF SetCooldown
      <4>2. service[v] # s
        BY <4>1, <3>1, <2>1 DEF TypeOK, Counts
      <4> QED
        BY <4>1, <4>2, <3>1, <2>1 DEF TypeOK, Counts
    <3> QED
      BY <3>2, <3>3
  <2> QED
    BY <2>2, <2>3
<1>8. ASSUME NEW w \in Workers, AddToWindow(w) PROVE SuppressorInv'
  BY <1>8 DEF AddToWindow, TypeOK
<1>9. ASSUME NEW w \in Workers, PruneWindow(w) PROVE SuppressorInv'
  BY <1>9 DEF PruneWindow, TypeOK
<1>10. ASSUME NEW w \in Workers, ReturnSuppressed(w) PROVE SuppressorInv'
  BY <1>10 DEF ReturnSuppressed, TypeOK
<1>11. ASSUME NEW w \in Workers, CrossThreshold(w) PROVE SuppressorInv'
  BY <1>11 DEF CrossThreshold, TypeOK
<1>12. ASSUME NEW w \in Workers, Allow(w) PROVE SuppressorInv'
  BY <1>12 DEF Allow, TypeOK
<1>13. ASSUME NEW w \in Workers, WinStorm(w) PROVE SuppressorInv'
  BY <1>13 DEF WinStorm, TypeOK
<1>14. ASSUME NEW w \in Workers, LoseStorm(w) PROVE SuppressorInv'
  BY <1>14 DEF LoseStorm, TypeOK
<1>15. ASSUME NEW w \in Workers, Emit(w) PROVE SuppressorInv'
  BY <1>15 DEF Emit, TypeOK
<1>16. ASSUME NEW w \in Workers, Abort(w) PROVE SuppressorInv'
  BY <1>16 DEF Abort, TypeOK
<1>17. CASE Evict
  <2>1. UNCHANGED <<now, pc, service, recorded>>
    BY <1>17 DEF Evict
  <2>2. BusyHasService'
    BY <2>1
  <2>3. OncePerCooldown'
    <3> SUFFICES ASSUME NEW w \in Workers, pc[w] \in {"exists_storm", "set_cooldown"},
                        recorded[service[w]][w] > 0
                 PROVE  ~(now < cooldown'[service[w]])
      BY <2>1
    <3>1. service[w] \in Services /\ ~(now < cooldown[service[w]])
      OBVIOUS
    <3>2. cooldown'[service[w]] \in {0, cooldown[service[w]]}
      BY <1>17, <3>1 DEF Evict, TypeOK
    <3> QED
      BY <3>1, <3>2 DEF TypeOK
  <2> QED
    BY <2>2, <2>3
<1>18. CASE UNCHANGED vars
  BY <1>18 DEF vars
<1> QED
  BY <1>2, <1>3, <1>4, <1>5, <1>6, <1>7, <1>8, <1>9, <1>10, <1>11, <1>12, <1>13,
     <1>14, <1>15, <1>16, <1>17, <1>18 DEF Next, Step

\* No replica records a second alert of a service under the cooldown key it
\* recorded the first one under.
THEOREM NoRepeatInCooldown == Spec => []OncePerCooldown
<1>1. SuppressorInv => OncePerCooldown
  BY DEF SuppressorInv
<1> QED
  BY InvInit, InvStep, <1>1, PTL DEF Spec

-----------------------------------------------------------------------------
\* One step of the suppressor is one step of the policy, or none.
LEMMA StepKeepsPolicy ==
  SuppressorInv /\ [Next]_vars => [Policy!PolicyNext]_(Policy!policyVars)
<1> SUFFICES ASSUME SuppressorInv, [Next]_vars
             PROVE  Policy!PolicyNext \/ UNCHANGED (Policy!policyVars)
  OBVIOUS
<1> DEFINE openers == {w \in Workers : pc[w] = "emit" /\ verdict[w] = "storm"}
<1> USE DEF SuppressorInv, Goto, ReadClock, Return, redis, local, history
<1>1. ASSUME UNCHANGED <<now, cooldown, recorded, stormActive>>, openers' = openers
      PROVE  UNCHANGED (Policy!policyVars)
  BY <1>1 DEF Policy!policyVars
<1>2. CASE Tick
  BY <1>2 DEF Tick, Policy!PolicyNext, Policy!Pass
<1>3. CASE ClearStorm
  BY <1>3 DEF ClearStorm, Policy!PolicyNext, Policy!CloseStorm
<1>4. ASSUME NEW w \in Workers, NEW s \in Services, Detect(w, s)
      PROVE  UNCHANGED (Policy!policyVars)
  <2>1. openers' = openers
    BY <1>4 DEF Detect, TypeOK
  <2> QED
    BY <1>1, <1>4, <2>1 DEF Detect
<1>5. ASSUME NEW w \in Workers, CheckCooldown(w)
      PROVE  UNCHANGED (Policy!policyVars)
  <2>1. openers' = openers
    BY <1>5 DEF CheckCooldown, InCooldown, SuppressedAs, TypeOK
  <2> QED
    BY <1>1, <1>5, <2>1 DEF CheckCooldown
<1>6. ASSUME NEW w \in Workers, CheckStormActive(w)
      PROVE  UNCHANGED (Policy!policyVars)
  <2>1. openers' = openers
    BY <1>6 DEF CheckStormActive, SuppressedAs, TypeOK
  <2> QED
    BY <1>1, <1>6, <2>1 DEF CheckStormActive
<1>7. ASSUME NEW w \in Workers, SetCooldown(w) PROVE Policy!PolicyNext
  <2> DEFINE s == service[w]
  <2>1. s \in Services /\ pc[w] = "set_cooldown"
    BY <1>7 DEF SetCooldown, BusyHasService
  <2>2. openers' = openers /\ UNCHANGED <<now, stormActive>>
    BY <1>7 DEF SetCooldown, TypeOK
  <2>3. CASE Alive(cooldown[s])
    <3>1. recorded[s][w] = 0
      BY <2>1, <2>3 DEF OncePerCooldown, Unrecorded, TypeOK, Counts
    <3>2. cooldown' = cooldown /\ recorded' = [recorded EXCEPT ![s][w] = @ + 1]
      BY <1>7, <2>3 DEF SetCooldown
    <3>3. Policy!RaiseAgain(w, s)
      BY <2>2, <2>3, <3>1, <3>2 DEF Policy!RaiseAgain, Alive
    <3> QED
      BY <2>1, <3>3 DEF Policy!PolicyNext
  <2>4. CASE ~Alive(cooldown[s])
    <3>1. /\ cooldown' = [cooldown EXCEPT ![s] = now + Cooldown]
          /\ recorded' = [recorded EXCEPT ![s] = [u \in Workers |-> IF u = w THEN 1 ELSE 0]]
      BY <1>7, <2>4 DEF SetCooldown
    <3>2. now >= cooldown[s]
      BY <2>1, <2>4 DEF Alive, TypeOK
    <3>3. Policy!OpenQuiet(w, s)
      BY <2>2, <3>1, <3>2 DEF Policy!OpenQuiet
    <3> QED
      BY <2>1, <3>3 DEF Policy!PolicyNext
  <2> QED
    BY <2>3, <2>4
<1>8. ASSUME NEW w \in Workers, AddToWindow(w) \/ PruneWindow(w) \/ CrossThreshold(w)
                                \/ Allow(w)
      PROVE  UNCHANGED (Policy!policyVars)
  <2>1. openers' = openers
    BY <1>8 DEF AddToWindow, PruneWindow, CrossThreshold, Allow, TypeOK
  <2> QED
    BY <1>1, <1>8, <2>1 DEF AddToWindow, PruneWindow, CrossThreshold, Allow
<1>9. ASSUME NEW w \in Workers, ReturnSuppressed(w) \/ LoseStorm(w)
      PROVE  UNCHANGED (Policy!policyVars)
  <2>1. openers' = openers
    BY <1>9 DEF ReturnSuppressed, LoseStorm, TypeOK
  <2> QED
    BY <1>1, <1>9, <2>1 DEF ReturnSuppressed, LoseStorm
<1>10. ASSUME NEW w \in Workers, WinStorm(w) PROVE Policy!PolicyNext
  <2>1. openers' = openers \cup {w} /\ w \notin openers
    BY <1>10 DEF WinStorm, TypeOK
  <2>2. now >= stormActive
    BY <1>10 DEF WinStorm, SlotFree, Alive, TypeOK
  <2>3. Policy!OpenStorm(w)
    BY <1>10, <2>1, <2>2 DEF WinStorm, Policy!OpenStorm
  <2> QED
    BY <2>3 DEF Policy!PolicyNext
<1>11. ASSUME NEW w \in Workers, Emit(w) \/ Abort(w)
       PROVE  Policy!PolicyNext \/ UNCHANGED (Policy!policyVars)
  <2>1. UNCHANGED <<now, cooldown, recorded, stormActive>>
    BY <1>11 DEF Emit, Abort
  <2>2. openers' = openers \ {w}
    BY <1>11 DEF Emit, Abort, TypeOK
  <2>3. CASE w \in openers
    <3>1. Policy!Announce(w)
      BY <2>1, <2>2, <2>3 DEF Policy!Announce
    <3> QED
      BY <3>1 DEF Policy!PolicyNext
  <2>4. CASE w \notin openers
    BY <1>1, <2>1, <2>2, <2>4
  <2> QED
    BY <2>3, <2>4
<1>12. CASE Evict
  <2>1. openers' = openers /\ UNCHANGED <<now, recorded>>
    BY <1>12 DEF Evict
  <2>2. ASSUME NEW s \in Services, cooldown' = [cooldown EXCEPT ![s] = 0],
               UNCHANGED stormActive
        PROVE  Policy!PolicyNext
    <3>1. MaxFaults > 0
      BY <1>12, SuppressorConstants DEF Evict, Fault, TypeOK
    <3>2. Policy!CutShort(s)
      BY <2>1, <2>2, <3>1 DEF Policy!CutShort
    <3> QED
      BY <3>2 DEF Policy!PolicyNext
  <2>3. CASE stormActive' = 0 /\ UNCHANGED cooldown
    BY <2>1, <2>3 DEF Policy!PolicyNext, Policy!CloseStorm
  <2>4. CASE UNCHANGED <<cooldown, stormActive>>
    BY <1>1, <2>1, <2>4
  <2> QED
    BY <1>12, <2>2, <2>3, <2>4 DEF Evict
<1>13. CASE UNCHANGED vars
  BY <1>1, <1>13 DEF vars
<1> QED
  BY <1>2, <1>3, <1>4, <1>5, <1>6, <1>7, <1>8, <1>9, <1>10, <1>11, <1>12, <1>13
     DEF Next, Step

\* The suppressor implements its abstract specification: one opener per storm
\* slot and at most one alert of a replica and a service per cooldown, under
\* every interleaving of the replicas' Redis calls.
THEOREM SuppressorImplementsPolicy == Spec => KeepsPolicy
<1>1. Init => Policy!PolicyInit
  BY DEF Init, Policy!PolicyInit
<1> QED
  BY <1>1, InvInit, InvStep, StepKeepsPolicy, PTL
     DEF Spec, KeepsPolicy, Policy!PolicySpec

-----------------------------------------------------------------------------
\* The slot is never held for an incident that was dropped without a failure:
\* whoever finds the storm active may rely on it.
THEOREM StormIsAnnounced == Spec => []StormAnnounced
<1>1. Init => StormAnnounced
  BY DEF Init, StormAnnounced, Alive
<1>2. TypeOK /\ StormAnnounced /\ [Next]_vars => StormAnnounced'
  <2> SUFFICES ASSUME TypeOK, StormAnnounced, [Next]_vars PROVE StormAnnounced'
    OBVIOUS
  <2> USE SuppressorConstants DEF StormAnnounced, Alive, Goto, ReadClock, Return, redis, local, history
  <2>1. CASE Tick
    BY <2>1 DEF Tick, TypeOK
  <2>2. CASE ClearStorm
    BY <2>2 DEF ClearStorm, TypeOK
  <2>3. ASSUME NEW w \in Workers, \E s \in Services : Detect(w, s) PROVE StormAnnounced'
    BY <2>3 DEF Detect, TypeOK
  <2>4. ASSUME NEW w \in Workers,
               CheckCooldown(w) \/ CheckStormActive(w) \/ SetCooldown(w) \/ AddToWindow(w)
        PROVE  StormAnnounced'
    BY <2>4 DEF CheckCooldown, CheckStormActive, SuppressedAs, SetCooldown,
                AddToWindow, TypeOK
  <2>5. ASSUME NEW w \in Workers,
               PruneWindow(w) \/ ReturnSuppressed(w) \/ CrossThreshold(w) \/ Allow(w)
               \/ LoseStorm(w)
        PROVE  StormAnnounced'
    BY <2>5 DEF PruneWindow, ReturnSuppressed, CrossThreshold, Allow, LoseStorm, TypeOK
  <2>6. ASSUME NEW w \in Workers, WinStorm(w) PROVE StormAnnounced'
    BY <2>6 DEF WinStorm, TypeOK
  <2>7. ASSUME NEW w \in Workers, Emit(w) PROVE StormAnnounced'
    BY <2>7 DEF Emit, Announces, TypeOK
  <2>8. ASSUME NEW w \in Workers, Abort(w) PROVE StormAnnounced'
    BY <2>8 DEF Abort, TypeOK
  <2>9. CASE Evict
    BY <2>9 DEF Evict, TypeOK
  <2>10. CASE UNCHANGED vars
    BY <2>10 DEF vars
  <2> QED
    BY <2>1, <2>2, <2>3, <2>4, <2>5, <2>6, <2>7, <2>8, <2>9, <2>10 DEF Next, Step
<1> QED
  BY <1>1, <1>2, TypeCorrect, PTL DEF Spec

-----------------------------------------------------------------------------
\* The call that silenced a service answers for it, until its event is out, it
\* has failed, or it has lost the service on the way.  Other calls may name the
\* service too, but nothing relies on them.
Answers(w, s) == service[w] = s /\ Holds(w, s)

AllAnswered == \A s \in Services : Silenced(s) => s \in dropped \/ \E w \in Workers : Answers(w, s)

\* No verdict is left from an earlier call when the SET is sent.
Unjudged ==
    \A w \in Workers :
        pc[w] \in {"idle", "exists_cooldown", "exists_storm", "set_cooldown"} => verdict[w] = "none"

AnswerInv == SuppressorInv /\ Unjudged /\ AllAnswered

\* A step of worker w that opens no cooldown: what w answered for it still
\* answers for, or it has been named or dropped.
LEMMA AnswersPassOn ==
  ASSUME TypeOK, AllAnswered, NEW w \in Workers,
         UNCHANGED <<now, cooldown>>, dropped \subseteq dropped',
         \A v \in Workers \ {w} : /\ pc'[v] = pc[v] /\ service'[v] = service[v]
                                  /\ verdict'[v] = verdict[v] /\ seen'[v] = seen[v],
         \A s \in Services : covered[s] => covered'[s],
         \A s \in Services : Answers(w, s) => Answers(w, s)' \/ covered'[s] \/ s \in dropped'
  PROVE  AllAnswered'
<1> SUFFICES ASSUME NEW s \in Services, Silenced(s)', s \notin dropped'
             PROVE  \E v \in Workers : Answers(v, s)'
  BY DEF AllAnswered
<1>1. Silenced(s) /\ s \notin dropped /\ ~covered'[s]
  BY DEF Silenced, Alive
<1>2. PICK v \in Workers : Answers(v, s)
  BY <1>1 DEF AllAnswered
<1>3. CASE v = w
  BY <1>1, <1>2, <1>3
<1>4. CASE v # w
  BY <1>2, <1>4 DEF Answers, Holds, Named
<1> QED
  BY <1>3, <1>4

\* Time, an operator or the store may end a cooldown; they open none.
LEMMA AnswersOutlast ==
  ASSUME TypeOK, AllAnswered, UNCHANGED <<local, covered, dropped>>,
         \A s \in Services : Alive(cooldown[s])' => Alive(cooldown[s])
  PROVE  AllAnswered'
<1> SUFFICES ASSUME NEW s \in Services, Silenced(s)', s \notin dropped'
             PROVE  \E v \in Workers : Answers(v, s)'
  BY DEF AllAnswered
<1>1. Silenced(s) /\ s \notin dropped
  BY DEF Silenced
<1>2. PICK v \in Workers : Answers(v, s)
  BY <1>1 DEF AllAnswered
<1> QED
  BY <1>2 DEF Answers, Holds, Named, local

\* The SET makes its worker answer for the service, whether it opened the
\* cooldown or found one that another call answers for.
LEMMA SetAnswers ==
  ASSUME AnswerInv, NEW w \in Workers, SetCooldown(w) PROVE AllAnswered'
<1> DEFINE s == service[w]
<1>1. /\ TypeOK /\ AllAnswered /\ s \in Services /\ verdict[w] = "none" /\ pc[w] = "set_cooldown"
  BY DEF AnswerInv, SuppressorInv, BusyHasService, Unjudged, SetCooldown
<1>2. /\ pc' = [pc EXCEPT ![w] = "zadd"]
      /\ UNCHANGED <<now, service, seen, verdict>>
  BY DEF SetCooldown, Goto
<1>3. Answers(w, s)'
  BY <1>1, <1>2 DEF Answers, Holds, Undecided, TypeOK
<1>4. ASSUME NEW t \in Services, t # s, Silenced(t)', t \notin dropped'
      PROVE  \E v \in Workers : Answers(v, t)'
  <2>1. Silenced(t) /\ t \notin dropped
    BY <1>1, <1>2, <1>4 DEF SetCooldown, Silenced, Alive, TypeOK
  <2>2. PICK v \in Workers : Answers(v, t)
    BY <1>1, <1>4, <2>1 DEF AllAnswered
  <2>3. v # w
    BY <1>4, <2>2 DEF Answers
  <2> QED
    BY <1>1, <1>2, <2>2, <2>3 DEF Answers, Holds, Named, TypeOK
<1> QED
  BY <1>1, <1>2, <1>3, <1>4 DEF AllAnswered

LEMMA AnswerInvInit == Init => AnswerInv
<1> SUFFICES ASSUME Init PROVE AnswerInv
  OBVIOUS
<1>1. Unjudged /\ AllAnswered
  BY DEF Init, Unjudged, AllAnswered, Silenced, Alive
<1> QED
  BY <1>1, InvInit DEF AnswerInv

\* The steps that keep the verdict where Unjudged looks.
LEMMA UnjudgedStep == AnswerInv /\ [Next]_vars => Unjudged'
<1> SUFFICES ASSUME TypeOK, Unjudged, [Next]_vars PROVE Unjudged'
  BY DEF AnswerInv, SuppressorInv
<1> USE DEF Unjudged, TypeOK, Goto, Return, redis, local, history
<1>1. CASE Tick \/ ClearStorm \/ Evict \/ UNCHANGED vars
  BY <1>1 DEF Tick, ClearStorm, Evict, vars
<1>2. ASSUME NEW w \in Workers, NEW s \in Services, Detect(w, s) PROVE Unjudged'
  BY <1>2 DEF Detect
<1>3. ASSUME NEW w \in Workers, CheckCooldown(w) \/ CheckStormActive(w) PROVE Unjudged'
  BY <1>3 DEF CheckCooldown, CheckStormActive, SuppressedAs, ReadClock
<1>4. ASSUME NEW w \in Workers,
             SetCooldown(w) \/ AddToWindow(w) \/ PruneWindow(w) \/ CrossThreshold(w)
      PROVE  Unjudged'
  BY <1>4 DEF SetCooldown, AddToWindow, PruneWindow, CrossThreshold
<1>5. ASSUME NEW w \in Workers, Allow(w) \/ WinStorm(w) PROVE Unjudged'
  BY <1>5 DEF Allow, WinStorm
<1>6. ASSUME NEW w \in Workers, ReturnSuppressed(w) \/ LoseStorm(w) \/ Emit(w) \/ Abort(w)
      PROVE  Unjudged'
  BY <1>6 DEF ReturnSuppressed, LoseStorm, Emit, Abort
<1> QED
  BY <1>1, <1>2, <1>3, <1>4, <1>5, <1>6 DEF Next, Step

LEMMA AnsweredStep == AnswerInv /\ [Next]_vars => AllAnswered'
<1> SUFFICES ASSUME AnswerInv, [Next]_vars PROVE AllAnswered'
  OBVIOUS
<1>0. TypeOK /\ Unjudged /\ AllAnswered
  BY DEF AnswerInv, SuppressorInv
<1> USE <1>0 DEF Goto, Return, redis, local, history
<1>1. CASE Tick
  <2>1. \A s \in Services : cooldown[s] \in Nat
    BY DEF TypeOK
  <2>2. now' = now + 1 /\ now \in Nat /\ UNCHANGED <<cooldown, local, covered, dropped>>
    BY <1>1 DEF Tick, TypeOK
  <2> QED
    BY <2>1, <2>2, AnswersOutlast DEF Alive
<1>2. CASE ClearStorm
  BY <1>2, AnswersOutlast DEF ClearStorm, Alive
<1>3. CASE Evict
  <2>1. \A s \in Services : cooldown[s] \in Nat /\ cooldown'[s] \in {0, cooldown[s]}
    BY <1>3 DEF Evict, TypeOK
  <2>2. now \in Nat /\ UNCHANGED <<now, local, covered, dropped>>
    BY <1>3 DEF Evict, TypeOK
  <2> QED
    BY <2>1, <2>2, AnswersOutlast DEF Alive
<1>4. ASSUME NEW w \in Workers, NEW s \in Services, Detect(w, s) PROVE AllAnswered'
  <2>1. \A t \in Services : ~Answers(w, t)
    BY <1>4 DEF Detect, Answers, Holds, Undecided
  <2>2. \A v \in Workers \ {w} : pc'[v] = pc[v] /\ service'[v] = service[v]
    BY <1>4 DEF Detect, TypeOK
  <2> QED
    BY <1>4, <2>1, <2>2, AnswersPassOn DEF Detect
<1>5. ASSUME NEW w \in Workers, CheckCooldown(w) \/ CheckStormActive(w) PROVE AllAnswered'
  <2>1. \A t \in Services : ~Answers(w, t)
    BY <1>5 DEF CheckCooldown, CheckStormActive, Answers, Holds, Undecided
  <2>2. \A v \in Workers \ {w} : pc'[v] = pc[v] /\ verdict'[v] = verdict[v]
    BY <1>5 DEF CheckCooldown, CheckStormActive, SuppressedAs, TypeOK
  <2> QED
    BY <1>5, <2>1, <2>2, AnswersPassOn DEF CheckCooldown, CheckStormActive
<1>6. ASSUME NEW w \in Workers, SetCooldown(w) PROVE AllAnswered'
  BY <1>6, SetAnswers
<1>7. ASSUME NEW w \in Workers, AddToWindow(w) \/ PruneWindow(w) PROVE AllAnswered'
  <2>1. \A v \in Workers \ {w} : pc'[v] = pc[v]
    BY <1>7 DEF AddToWindow, PruneWindow, TypeOK
  <2>2. \A t \in Services : Answers(w, t) => Answers(w, t)'
    BY <1>7 DEF AddToWindow, PruneWindow, Answers, Holds, Undecided, TypeOK
  <2> QED
    BY <1>7, <2>1, <2>2, AnswersPassOn DEF AddToWindow, PruneWindow
<1>8. ASSUME NEW w \in Workers, CrossThreshold(w) PROVE AllAnswered'
  <2>1. \A v \in Workers \ {w} : pc'[v] = pc[v] /\ seen'[v] = seen[v]
    BY <1>8 DEF CrossThreshold, TypeOK
  <2>2. \A t \in Services : Answers(w, t) => Answers(w, t)'
    BY <1>8 DEF CrossThreshold, Answers, Holds, Undecided, TypeOK
  <2> QED
    BY <1>8, <2>1, <2>2, AnswersPassOn DEF CrossThreshold
<1>9. ASSUME NEW w \in Workers, Allow(w) PROVE AllAnswered'
  <2>1. \A v \in Workers \ {w} : pc'[v] = pc[v] /\ seen'[v] = seen[v] /\ verdict'[v] = verdict[v]
    BY <1>9 DEF Allow, TypeOK
  <2>2. \A t \in Services : Answers(w, t) => Answers(w, t)'
    BY <1>9 DEF Allow, Answers, Holds, Undecided, Named, TypeOK
  <2> QED
    BY <1>9, <2>1, <2>2, AnswersPassOn DEF Allow
<1>10. ASSUME NEW w \in Workers, WinStorm(w) PROVE AllAnswered'
  <2>1. \A v \in Workers \ {w} : pc'[v] = pc[v] /\ verdict'[v] = verdict[v]
    BY <1>10 DEF WinStorm, TypeOK
  <2>2. pc'[w] = "emit" /\ UNCHANGED <<seen, service>>
        /\ dropped' = dropped \cup ({service[w]} \ seen[w])
    BY <1>10 DEF WinStorm, TypeOK
  <2>3. \A t \in Services : Answers(w, t) => Answers(w, t)' \/ t \in dropped'
    BY <2>2 DEF Answers, Holds, Named
  <2> QED
    BY <1>10, <2>1, <2>2, <2>3, AnswersPassOn DEF WinStorm
<1>11. ASSUME NEW w \in Workers, ReturnSuppressed(w) \/ LoseStorm(w) \/ Emit(w) \/ Abort(w)
       PROVE  AllAnswered'
  <2>1. \A v \in Workers \ {w} : /\ pc'[v] = pc[v] /\ service'[v] = service[v]
                                 /\ verdict'[v] = verdict[v] /\ seen'[v] = seen[v]
    BY <1>11 DEF ReturnSuppressed, LoseStorm, Emit, Abort, TypeOK
  <2>2. /\ UNCHANGED <<now, cooldown>> /\ dropped \subseteq dropped'
        /\ \A t \in Services : covered[t] => covered'[t]
    BY <1>11 DEF ReturnSuppressed, LoseStorm, Emit, Abort
  <2>3. \A t \in Services : Answers(w, t) => covered'[t] \/ t \in dropped'
    <3>1. CASE ReturnSuppressed(w)
      BY <3>1 DEF ReturnSuppressed, Answers, Holds
    <3>2. CASE LoseStorm(w) \/ Abort(w)
      BY <3>2 DEF LoseStorm, Abort, Answers
    <3>3. CASE Emit(w)
      BY <3>3 DEF Emit, Answers, Holds, Undecided
    <3> QED
      BY <1>11, <3>1, <3>2, <3>3
  <2> QED
    BY <2>1, <2>2, <2>3, AnswersPassOn
<1>12. CASE UNCHANGED vars
  BY <1>12, AnswersOutlast DEF vars, Alive
<1> QED
  BY <1>1, <1>2, <1>3, <1>4, <1>5, <1>6, <1>7, <1>8, <1>9, <1>10, <1>11, <1>12
     DEF Next, Step

\* A service in its cooldown was named, or a call that will name it is on its
\* way, or a call dropped it in one of the three ways NoMissedAlert lists: no
\* number of replicas and no interleaving adds another.
THEOREM SilenceIsExplained == Spec => []NoMissedAlert
<1>1. AnswerInv /\ [Next]_vars => AnswerInv'
  BY InvStep, UnjudgedStep, AnsweredStep DEF AnswerInv
<1>2. AnswerInv => NoMissedAlert
  BY DEF AnswerInv, AllAnswered, NoMissedAlert, Pending, Answers
<1> QED
  BY AnswerInvInit, <1>1, <1>2, PTL DEF Spec
=============================================================================
