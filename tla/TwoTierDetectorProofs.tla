------------------------ MODULE TwoTierDetectorProofs ------------------------
(***************************************************************************)
(* The detector, for every number of replicas, metrics and windows and for *)
(* every setting of its times.                                             *)
(***************************************************************************)
EXTENDS TwoTierDetector, FiniteSetTheorems, TLAPS

\* Steps with a metric at hand.
Tier1Steps == {"register", "add_sample", "read_existing", "write_baseline", "expire_baseline"}

\* What a replica holds at the step it is at.
Placed ==
    \A w \in Replicas :
        /\ pc[w] = "idle" => todo[w] = {}
        /\ pc[w] # "idle" => window[w] \in 1 .. windows
        /\ IF pc[w] \in Tier1Steps THEN metric[w] \in Metrics ELSE metric[w] = NoMetric
        /\ metric[w] \notin todo[w]
        /\ pc[w] # "write_baseline" => existing[w] = NoBaseline

\* No two replicas work on the same window.
Distinct ==
    \A w, v \in Replicas : w # v /\ pc[w] # "idle" /\ pc[v] # "idle" => window[w] # window[v]

\* A baseline counts what it is made of.
Counts(b) == b.folded \subseteq 1 .. windows /\ b.samples = Cardinality(b.folded)

Exact ==
    /\ \A m \in Metrics : Counts(baseline[m])
    /\ \A w \in Replicas : Counts(existing[w])

\* Replica w has its update of m still to write.
ToWrite(w, m) ==
    /\ pc[w] # "idle"
    /\ \/ m \in todo[w]
       \/ metric[w] = m /\ pc[w] \in Tier1Steps \ {"expire_baseline"}

\* Until then no baseline of m, written or about to be, has its window.
Unfolded ==
    \A w \in Replicas, m \in Metrics : ToWrite(w, m) =>
        /\ window[w] \notin baseline[m].folded
        /\ \A v \in Replicas : metric[v] = m => window[w] \notin existing[v].folded

\* A model is there before its stamp is set.
Saved ==
    /\ StampedIsStored
    /\ \A w \in Replicas :
          /\ pc[w] = "set_model" => vectors[w] # {}
          /\ pc[w] = "set_stamp" => model # {}

\* A replica that is past is_learning knows how old the service is.
Aged ==
    \A w \in Replicas : pc[w] \notin {"idle", "is_learning"} /\ ~learning[w] =>
        firstSeen # Never /\ now - firstSeen >= ColdStart

DetectorInv == TypeOK /\ Placed /\ Distinct /\ Exact /\ Unfolded /\ Saved /\ Aged

-----------------------------------------------------------------------------
\* The initial state.
LEMMA DetectorInvInit == Init => DetectorInv
<1> SUFFICES ASSUME Init PROVE DetectorInv
  OBVIOUS
<1> USE DetectorConstants DEF Init
<1>1. NoBaseline \in Baselines
  BY DEF NoBaseline, Baselines
<1>2. /\ now \in 0 .. MaxTime /\ windows \in 0 .. MaxWindows /\ aborts \in 0 .. MaxAborts
      /\ firstSeen \in {Never} \cup 0 .. now /\ lastTrained \in {Never} \cup 0 .. now
      /\ baseline \in [Metrics -> Baselines] /\ baselineUntil \in [Metrics -> 0 .. Forever]
      /\ \A m \in Metrics : baseline[m] = NoBaseline /\ baselineUntil[m] = 0
      /\ samplesUntil \in [Metrics -> 0 .. now + KeyLife] /\ trainingUntil \in 0 .. now + KeyLife
      /\ training \subseteq [window : Windows, at : 0 .. now] /\ model \subseteq Windows
  BY <1>1 DEF Forever
<1>3. /\ pc \in [Replicas -> Steps] /\ clock \in [Replicas -> 0 .. now]
      /\ window \in [Replicas -> 0 .. windows]
      /\ todo \in [Replicas -> SUBSET Metrics] /\ metric \in [Replicas -> Metrics \cup {NoMetric}]
      /\ reference \in [Replicas -> Baselines] /\ existing \in [Replicas -> Baselines]
      /\ zscore \in [Replicas -> ZLevels] /\ vectors \in [Replicas -> SUBSET Windows]
  BY <1>1 DEF Steps, ZLevels
<1>4. learning \in [Replicas -> BOOLEAN] /\ outlier \in [Replicas -> BOOLEAN]
  OBVIOUS
<1>5. counted \in [Metrics -> SUBSET Windows] /\ contended \subseteq Metrics /\ torn \subseteq Metrics
  OBVIOUS
<1>6. TypeOK
  BY <1>2, <1>3, <1>4, <1>5 DEF TypeOK
<1>7. Cardinality({}) = 0
  BY FS_EmptySet
<1>8. Placed /\ Distinct
  BY DEF Placed, Distinct, Tier1Steps
<1>9. Exact
  BY <1>7 DEF Exact, Counts, NoBaseline
<1>10. Unfolded
  BY DEF Unfolded, ToWrite
<1>11. Saved /\ Aged
  BY DEF Saved, Aged, StampedIsStored
<1> QED
  BY <1>6, <1>8, <1>9, <1>10, <1>11 DEF DetectorInv

-----------------------------------------------------------------------------
\* One more window in a baseline is one more sample.
LEMMA FoldCounts ==
  ASSUME DetectorInv, NEW w \in Replicas, pc[w] = "write_baseline"
  PROVE  LET b == [folded  |-> existing[w].folded \cup {window[w]}, samples |-> NextCount(w)]
         IN  Counts(b) /\ b \in Baselines /\ b # NoBaseline
<1> USE DetectorConstants DEF DetectorInv
<1>1. /\ existing[w].folded \subseteq 1 .. windows
      /\ existing[w].samples = Cardinality(existing[w].folded)
  BY DEF Exact, Counts
<1>2. window[w] \in 1 .. windows /\ metric[w] \in Metrics
  BY DEF Placed, Tier1Steps
<1>3. window[w] \notin existing[w].folded
  BY <1>2 DEF Unfolded, ToWrite, Tier1Steps
<1>4. windows \in Nat /\ windows <= MaxWindows
  BY DEF TypeOK
<1>5. IsFiniteSet(1 .. windows) /\ Cardinality(1 .. windows) = windows
  BY <1>4, FS_Interval
<1>6. IsFiniteSet(existing[w].folded)
  BY <1>1, <1>5, FS_Subset
<1> DEFINE folded == existing[w].folded \cup {window[w]}
<1>7. Cardinality(folded) = Cardinality(existing[w].folded) + 1
  BY <1>3, <1>6, FS_AddElement
<1>8. folded \subseteq 1 .. windows
  BY <1>1, <1>2
<1>9. Cardinality(folded) \in 0 .. MaxWindows
  BY <1>4, <1>5, <1>8, FS_Subset, FS_CardinalityType
<1>10. folded \subseteq Windows /\ folded # {}
  BY <1>4, <1>8 DEF Windows
<1> QED
  BY <1>1, <1>7, <1>8, <1>9, <1>10 DEF NextCount, Counts, Baselines, NoBaseline

-----------------------------------------------------------------------------
\* The types are kept, step by step.
LEMMA DetectorTypeStep ==
  ASSUME DetectorInv, [Next]_vars
  PROVE  TypeOK'
<1> USE DetectorConstants DEF DetectorInv, TypeOK, redisVars, baselineVars, forestVars, modelVars,
        windowVars, tier1Vars, tier2Vars, historyVars
<1>0. /\ MaxTime \in Nat /\ KeyLife \in Nat /\ MaxWindows \in Nat /\ MaxAborts \in Nat
      /\ \A t \in 0 .. now : t <= now
  BY DEF TypeOK
<1>1. ASSUME NEW w \in Replicas, NEW step \in Steps, Goto(w, step), now' = now
      PROVE  pc' \in [Replicas -> Steps] /\ clock' \in [Replicas -> 0 .. now']
  BY <1>1 DEF Goto
<1>2. NoBaseline \in Baselines
  BY DEF NoBaseline, Baselines
<1>3. ASSUME NEW w \in Replicas, Detect(w) PROVE TypeOK'
  <2>1. "is_learning" \in Steps
    BY DEF Steps
  <2>2. windows' \in 0 .. MaxWindows /\ window' \in [Replicas -> 0 .. windows']
    BY <1>3 DEF Detect
  <2> QED
    BY <1>1, <1>3, <2>1, <2>2 DEF Detect
<1>4. ASSUME NEW w \in Replicas, IsLearning(w) PROVE TypeOK'
  <2>1. {"store_training", "read_reference"} \subseteq Steps
    BY DEF Steps, Stamping
  <2>2. learning' \in [Replicas -> BOOLEAN]
    BY <1>4 DEF IsLearning, Learning
  <2> QED
    BY <1>1, <1>4, <2>1, <2>2 DEF IsLearning
<1>5. ASSUME NEW w \in Replicas, ReadReference(w) PROVE TypeOK'
  <2>1. "register" \in Steps
    BY DEF Steps, Stamping
  <2> QED
    BY <1>1, <1>5, <2>1 DEF ReadReference
<1>6. ASSUME NEW w \in Replicas, Register(w) PROVE TypeOK'
  <2>1. "add_sample" \in Steps
    BY DEF Steps
  <2> QED
    BY <1>1, <1>6, <2>1 DEF Register
<1>7. ASSUME NEW w \in Replicas, AddSample(w) PROVE TypeOK'
  <2>1. "read_existing" \in Steps
    BY DEF Steps
  <2>2. samplesUntil' \in [Metrics -> 0 .. now' + KeyLife]
    <3>1. samplesUntil' = [samplesUntil EXCEPT ![metric[w]] = now + KeyLife] /\ now' = now
      BY <1>7 DEF AddSample
    <3>2. now + KeyLife \in 0 .. now + KeyLife
      BY <1>0
    <3> QED
      BY <3>1, <3>2
  <2> QED
    BY <1>1, <1>7, <2>1, <2>2 DEF AddSample
<1>8. ASSUME NEW w \in Replicas, ReadExisting(w) PROVE TypeOK'
  <2>1. "write_baseline" \in Steps
    BY DEF Steps
  <2>2. existing' \in [Replicas -> Baselines]
    BY <1>8 DEF ReadExisting, Reread, Placed, Tier1Steps
  <2> QED
    BY <1>1, <1>8, <2>1, <2>2 DEF ReadExisting
<1>9. ASSUME NEW w \in Replicas, WriteBaseline(w) PROVE TypeOK'
  <2> DEFINE b == [folded  |-> existing[w].folded \cup {window[w]}, samples |-> NextCount(w)]
  <2>1. "expire_baseline" \in Steps /\ metric[w] \in Metrics
    BY <1>9 DEF Steps, WriteBaseline, Placed, Tier1Steps
  <2>2. pc[w] = "write_baseline"
    BY <1>9 DEF WriteBaseline
  <2>3. b \in Baselines /\ b # NoBaseline
    BY <2>2, FoldCounts
  <2>4. baseline' = [baseline EXCEPT ![metric[w]] = b]
    BY <1>9 DEF WriteBaseline
  <2> HIDE DEF b
  <2>5. baseline' \in [Metrics -> Baselines]
    BY <2>1, <2>3, <2>4
  <2>6. Forever \in Nat /\ Forever # 0
    BY <1>0 DEF Forever
  <2>7. /\ baselineUntil' \in [Metrics -> 0 .. Forever]
        /\ \A m \in Metrics : baseline'[m] = NoBaseline <=> baselineUntil'[m] = 0
    <3>1. baselineUntil' = [baselineUntil EXCEPT ![metric[w]] =
                               IF baseline[metric[w]] = NoBaseline THEN Forever ELSE @]
      BY <1>9 DEF WriteBaseline
    <3>2. baselineUntil' \in [Metrics -> 0 .. Forever]
      BY <2>1, <2>6, <3>1
    <3>3. baseline'[metric[w]] # NoBaseline /\ baselineUntil'[metric[w]] # 0
      BY <2>1, <2>3, <2>4, <2>6, <3>1
    <3>4. \A m \in Metrics \ {metric[w]} :
             baseline'[m] = baseline[m] /\ baselineUntil'[m] = baselineUntil[m]
      BY <2>1, <2>4, <3>1
    <3> QED
      BY <3>2, <3>3, <3>4
  <2>8. counted' \in [Metrics -> SUBSET Windows] /\ contended' \subseteq Metrics
    BY <1>9, <2>1 DEF WriteBaseline, Windows, Placed
  <2>9. existing' \in [Replicas -> Baselines]
    BY <1>2, <1>9 DEF WriteBaseline
  <2> QED
    BY <1>1, <1>9, <2>1, <2>5, <2>7, <2>8, <2>9 DEF WriteBaseline
<1>10. ASSUME NEW w \in Replicas, ExpireBaseline(w) PROVE TypeOK'
  <2>1. {"store_training", "read_reference"} \subseteq Steps /\ metric[w] \in Metrics
    BY <1>10 DEF Steps, Stamping, ExpireBaseline, Placed, Tier1Steps
  <2>2. zscore' \in [Replicas -> ZLevels]
    BY <1>10 DEF ExpireBaseline, ZScores, Worse, ZLevels
  <2>3. /\ now + KeyLife \in 0 .. Forever
        /\ now + KeyLife # 0
    BY <1>0 DEF Forever
  <2>4. /\ baselineUntil' \in [Metrics -> 0 .. Forever]
        /\ \A m \in Metrics : baseline'[m] = NoBaseline <=> baselineUntil'[m] = 0
    BY <1>10, <2>1, <2>3 DEF ExpireBaseline, Expired
  <2>5. reference' \in [Replicas -> Baselines] /\ torn' \subseteq Metrics
    BY <1>2, <1>10, <2>1 DEF ExpireBaseline
  <2> QED
    BY <1>1, <1>10, <2>1, <2>2, <2>4, <2>5 DEF ExpireBaseline
<1>11. ASSUME NEW w \in Replicas, StoreTraining(w) PROVE TypeOK'
  <2>1. "read_stamp" \in Steps /\ window[w] \in Windows /\ clock[w] \in 0 .. now
    BY <1>11 DEF Steps, StoreTraining, Placed, Windows
  <2>2. training' \subseteq [window : Windows, at : 0 .. now']
    BY <1>11, <2>1 DEF StoreTraining
  <2>3. trainingUntil' \in 0 .. now' + KeyLife
    BY <1>0, <1>11 DEF StoreTraining
  <2> QED
    BY <1>1, <1>11, <2>1, <2>2, <2>3 DEF StoreTraining
<1>12. ASSUME NEW w \in Replicas, ReadStamp(w) PROVE TypeOK'
  <2>1. {"load_model", "read_vectors"} \subseteq Steps
    BY DEF Steps
  <2> QED
    BY <1>1, <1>12, <2>1 DEF ReadStamp
<1>13. ASSUME NEW w \in Replicas, ReadVectors(w) PROVE TypeOK'
  <2>1. {"load_model", "set_model"} \subseteq Steps
    BY DEF Steps
  <2>2. {s.window : s \in training} \subseteq Windows
    OBVIOUS
  <2>3. vectors' \in [Replicas -> SUBSET Windows]
    BY <1>13, <2>2 DEF ReadVectors
  <2> QED
    BY <1>1, <1>13, <2>1, <2>3 DEF ReadVectors, FirstSaved
<1>14. ASSUME NEW w \in Replicas, SetModel(w) PROVE TypeOK'
  <2>1. "set_stamp" \in Steps
    BY DEF Steps, Stamping
  <2> QED
    BY <1>1, <1>14, <2>1 DEF SetModel
<1>15. ASSUME NEW w \in Replicas, SetStamp(w) PROVE TypeOK'
  <2>1. "load_model" \in Steps
    BY DEF Steps
  <2> QED
    BY <1>1, <1>15, <2>1 DEF SetStamp
<1>16. ASSUME NEW w \in Replicas, LoadModel(w) PROVE TypeOK'
  <2>1. "verdict" \in Steps
    BY DEF Steps
  <2>2. outlier' \in [Replicas -> BOOLEAN]
    BY <1>16 DEF LoadModel
  <2> QED
    BY <1>1, <1>16, <2>1, <2>2 DEF LoadModel
<1>17. ASSUME NEW w \in Replicas, Verdict(w) \/ Abort(w) PROVE TypeOK'
  <2>1. "idle" \in Steps /\ "low" \in ZLevels
    BY DEF Steps, ZLevels
  <2>2. Return(w) /\ now' = now
    BY <1>17 DEF Verdict, Abort, Return
  <2>3. learning' \in [Replicas -> BOOLEAN] /\ outlier' \in [Replicas -> BOOLEAN]
    BY <2>2 DEF Return
  <2>4. /\ window' \in [Replicas -> 0 .. windows] /\ todo' \in [Replicas -> SUBSET Metrics]
        /\ metric' \in [Replicas -> Metrics \cup {NoMetric}]
        /\ reference' \in [Replicas -> Baselines] /\ existing' \in [Replicas -> Baselines]
        /\ zscore' \in [Replicas -> ZLevels] /\ vectors' \in [Replicas -> SUBSET Windows]
    BY <1>2, <2>1, <2>2 DEF Return
  <2>5. torn' \subseteq Metrics /\ aborts' \in 0 .. MaxAborts
    BY <1>17 DEF Verdict, Abort, Updating, Placed, Tier1Steps
  <2>6. pc' \in [Replicas -> Steps] /\ clock' \in [Replicas -> 0 .. now']
    BY <1>1, <2>1, <2>2 DEF Return
  <2> QED
    BY <2>2, <2>3, <2>4, <2>5, <2>6 DEF Return
<1>18. CASE Tick
  <2> DEFINE gone == {m \in Metrics : baselineUntil[m] <= now'}
  <2>1. /\ now' = now + 1 /\ now' \in 0 .. MaxTime
        /\ baseline' = [m \in Metrics |-> IF m \in gone THEN NoBaseline ELSE baseline[m]]
        /\ baselineUntil' = [m \in Metrics |-> IF m \in gone THEN 0 ELSE baselineUntil[m]]
        /\ counted' = [m \in Metrics |-> IF m \in gone THEN {} ELSE counted[m]]
        /\ contended' = contended \ gone
        /\ samplesUntil' = [m \in Metrics |->
                               IF samplesUntil[m] <= now' THEN 0 ELSE samplesUntil[m]]
        /\ training' = IF trainingUntil <= now' THEN {} ELSE training
        /\ trainingUntil' = IF trainingUntil <= now' THEN 0 ELSE trainingUntil
        /\ UNCHANGED <<windows, firstSeen, model, lastTrained, pc, clock, window, learning, todo,
                       metric, reference, existing, zscore, vectors, outlier, torn, aborts>>
    BY <1>18 DEF Tick
  <2>2. gone \subseteq Metrics
    OBVIOUS
  <2> HIDE DEF gone
  <2>3. 0 .. now \subseteq 0 .. now' /\ 0 .. now + KeyLife \subseteq 0 .. now' + KeyLife
    BY <1>0, <2>1
  <2>4. /\ firstSeen' \in {Never} \cup 0 .. now' /\ lastTrained' \in {Never} \cup 0 .. now'
        /\ clock' \in [Replicas -> 0 .. now']
        /\ training' \subseteq [window : Windows, at : 0 .. now']
        /\ trainingUntil' \in 0 .. now' + KeyLife
    BY <2>1, <2>3
  <2>5. samplesUntil' \in [Metrics -> 0 .. now' + KeyLife]
    BY <1>0, <2>1, <2>3
  <2>6. /\ baseline' \in [Metrics -> Baselines] /\ baselineUntil' \in [Metrics -> 0 .. Forever]
        /\ \A m \in Metrics : baseline'[m] = NoBaseline <=> baselineUntil'[m] = 0
        /\ counted' \in [Metrics -> SUBSET Windows] /\ contended' \subseteq Metrics
    BY <1>2, <2>1 DEF Forever
  <2> QED
    BY <2>1, <2>4, <2>5, <2>6
<1>19. CASE UNCHANGED vars
  BY <1>19 DEF vars
<1> QED
  BY <1>3, <1>4, <1>5, <1>6, <1>7, <1>8, <1>9, <1>10, <1>11, <1>12, <1>13, <1>14, <1>15, <1>16,
     <1>17, <1>18, <1>19 DEF Next, Tier1, Tier2

-----------------------------------------------------------------------------
\* The other parts of the invariant look at what follows from the types.
Simple ==
    /\ windows \in Nat /\ now \in Nat
    /\ pc \in [Replicas -> Steps] /\ window \in [Replicas -> 0 .. windows]
    /\ todo \in [Replicas -> SUBSET Metrics] /\ metric \in [Replicas -> Metrics \cup {NoMetric}]
    /\ existing \in [Replicas -> Baselines] /\ vectors \in [Replicas -> SUBSET Windows]
    /\ learning \in [Replicas -> BOOLEAN] /\ clock \in [Replicas -> 0 .. now]
    /\ baseline \in [Metrics -> Baselines] /\ firstSeen \in {Never} \cup 0 .. now
    /\ NoMetric \notin Metrics

LEMMA TypesAreSimple == TypeOK => Simple
BY DetectorConstants DEF TypeOK, Simple

\* What a replica holds stays in place, and no window is taken twice.
LEMMA PlacedStep ==
  ASSUME Simple, Placed, Distinct, [Next]_vars
  PROVE  Placed' /\ Distinct'
<1> USE DEF Simple, Placed, Distinct, Tier1Steps, Goto, redisVars, baselineVars, forestVars,
        modelVars, windowVars, tier1Vars, tier2Vars, historyVars
<1>1. ASSUME NEW w \in Replicas, Detect(w) PROVE Placed' /\ Distinct'
  <2>1. /\ windows' = windows + 1
        /\ window' = [window EXCEPT ![w] = windows + 1]
        /\ pc' = [pc EXCEPT ![w] = "is_learning"] /\ pc[w] = "idle"
        /\ todo' = [todo EXCEPT ![w] = Metrics]
        /\ UNCHANGED <<metric, existing>>
    BY <1>1 DEF Detect
  <2>2. metric[w] \notin Metrics
    BY <1>1 DEF Detect
  <2>3. Placed'
    BY <2>1, <2>2
  <2>4. Distinct'
    BY <2>1
  <2> QED
    BY <2>3, <2>4
<1>2. ASSUME NEW w \in Replicas, IsLearning(w) PROVE Placed' /\ Distinct'
  BY <1>2 DEF IsLearning
<1>3. ASSUME NEW w \in Replicas, ReadReference(w) PROVE Placed' /\ Distinct'
  BY <1>3 DEF ReadReference
<1>4. ASSUME NEW w \in Replicas, Register(w) \/ AddSample(w) PROVE Placed' /\ Distinct'
  BY <1>4 DEF Register, AddSample
<1>5. ASSUME NEW w \in Replicas, ReadExisting(w) PROVE Placed' /\ Distinct'
  BY <1>5 DEF ReadExisting
<1>6. ASSUME NEW w \in Replicas, WriteBaseline(w) PROVE Placed' /\ Distinct'
  BY <1>6 DEF WriteBaseline
<1>7. ASSUME NEW w \in Replicas, ExpireBaseline(w) PROVE Placed' /\ Distinct'
  BY <1>7 DEF ExpireBaseline
<1>8. ASSUME NEW w \in Replicas, Tier2(w) PROVE Placed' /\ Distinct'
  <2>1. PICK step \in Steps \ (Tier1Steps \cup {"idle"}) : pc' = [pc EXCEPT ![w] = step]
    BY <1>8 DEF Tier2, StoreTraining, ReadStamp, ReadVectors, FirstSaved, SetModel, SetStamp,
                LoadModel, Steps, Stamping
  <2>2. pc[w] \in Steps \ (Tier1Steps \cup {"idle"})
    BY <1>8 DEF Tier2, StoreTraining, ReadStamp, ReadVectors, SetModel, SetStamp, LoadModel, Steps,
                Stamping
  <2>3. UNCHANGED <<windows, window, todo, metric, existing>>
    BY <1>8 DEF Tier2, StoreTraining, ReadStamp, ReadVectors, SetModel, SetStamp, LoadModel
  <2> QED
    BY <2>1, <2>2, <2>3
<1>9. ASSUME NEW w \in Replicas, Verdict(w) \/ Abort(w) PROVE Placed' /\ Distinct'
  <2>1. Return(w)
    BY <1>9 DEF Verdict, Abort
  <2>2. /\ pc' = [pc EXCEPT ![w] = "idle"] /\ window' = [window EXCEPT ![w] = 0]
        /\ todo' = [todo EXCEPT ![w] = {}] /\ metric' = [metric EXCEPT ![w] = NoMetric]
        /\ existing' = [existing EXCEPT ![w] = NoBaseline] /\ windows' = windows
    BY <2>1 DEF Return
  <2> QED
    BY <2>2
<1>10. CASE Tick \/ UNCHANGED vars
  BY <1>10 DEF Tick, vars
<1> QED
  BY <1>1, <1>2, <1>3, <1>4, <1>5, <1>6, <1>7, <1>8, <1>9, <1>10 DEF Next, Tier1

\* Steps of the second tier, and those that only read or stamp: no baseline
\* changes, no window is taken, and what is still to write stays so.
LEMMA OtherSteps ==
  ASSUME Simple, Placed, NEW w \in Replicas,
         IsLearning(w) \/ Register(w) \/ AddSample(w) \/ ExpireBaseline(w) \/ Tier2(w)
  PROVE  /\ UNCHANGED <<windows, window, baseline, existing, todo>>
         /\ \A v \in Replicas : metric'[v] \in {metric[v], NoMetric}
         /\ \A v \in Replicas, m \in Metrics : ToWrite(v, m)' => ToWrite(v, m)
<1> USE DEF redisVars, baselineVars, forestVars, modelVars, windowVars, tier1Vars, tier2Vars,
            historyVars
<1>1. UNCHANGED <<windows, window, baseline, existing, todo>>
  BY DEF IsLearning, Register, AddSample, ExpireBaseline, Tier2, StoreTraining, ReadStamp,
         ReadVectors, SetModel, SetStamp, LoadModel
<1>2. metric' = metric \/ metric' = [metric EXCEPT ![w] = NoMetric]
  BY DEF IsLearning, Register, AddSample, ExpireBaseline, Tier2, StoreTraining, ReadStamp,
         ReadVectors, SetModel, SetStamp, LoadModel
<1>3. \E step : pc' = [pc EXCEPT ![w] = step] /\
         \/ pc[w] \in {"register", "add_sample"}
         \/ pc[w] # "idle" /\ step \notin Tier1Steps \ {"expire_baseline"}
  <2> DEFINE Next2 == {"read_reference", "store_training", "read_stamp", "load_model",
                       "read_vectors", "set_model", "set_stamp", "verdict"}
  <2>1. CASE Register(w) \/ AddSample(w)
    BY <2>1 DEF Register, AddSample, Goto
  <2>2. CASE IsLearning(w) \/ ExpireBaseline(w)
    <3>1. pc[w] # "idle" /\ \E step \in Next2 : pc' = [pc EXCEPT ![w] = step]
      BY <2>2 DEF IsLearning, ExpireBaseline, Goto
    <3> QED
      BY <3>1 DEF Tier1Steps
  <2>3. CASE Tier2(w)
    <3>1. pc[w] # "idle" /\ \E step \in Next2 : pc' = [pc EXCEPT ![w] = step]
      BY <2>3 DEF Tier2, StoreTraining, ReadStamp, ReadVectors, FirstSaved, SetModel, SetStamp,
                  LoadModel, Goto
    <3> QED
      BY <3>1 DEF Tier1Steps
  <2> QED
    BY <2>1, <2>2, <2>3
<1>4. \A v \in Replicas : metric'[v] \in {metric[v], NoMetric}
  BY <1>2 DEF Simple
<1>5. ASSUME NEW v \in Replicas, NEW m \in Metrics, ToWrite(v, m)' PROVE ToWrite(v, m)
  <2>1. PICK step : /\ pc' = [pc EXCEPT ![w] = step]
                    /\ \/ pc[w] \in {"register", "add_sample"}
                       \/ pc[w] # "idle" /\ step \notin Tier1Steps \ {"expire_baseline"}
    BY <1>3
  <2>2. m # NoMetric
    BY DetectorConstants
  <2>3. metric'[v] = m => metric[v] = m
    BY <1>4, <2>2
  <2>4. CASE v # w
    <3>1. pc'[v] = pc[v]
      BY <2>1, <2>4 DEF Simple
    <3> QED
      BY <1>1, <1>5, <2>3, <3>1 DEF ToWrite
  <2>5. CASE v = w
    <3>1. pc'[w] = step
      BY <2>1 DEF Simple
    <3> QED
      BY <1>1, <1>5, <2>1, <2>3, <2>5, <3>1 DEF ToWrite, Tier1Steps
  <2> QED
    BY <2>4, <2>5
<1> QED
  BY <1>1, <1>4, <1>5

LEMMA ExactStep ==
  ASSUME DetectorInv, Simple, [Next]_vars
  PROVE  Exact' /\ Unfolded'
<1> USE DEF DetectorInv, redisVars, baselineVars, windowVars, tier1Vars, tier2Vars, historyVars
<1>0. IsFiniteSet({}) /\ Cardinality({}) = 0
  BY FS_EmptySet
<1>1. ASSUME NEW w \in Replicas, Detect(w) PROVE Exact' /\ Unfolded'
  <2>1. /\ windows' = windows + 1
        /\ window' = [window EXCEPT ![w] = windows + 1]
        /\ pc' = [pc EXCEPT ![w] = "is_learning"] /\ pc[w] = "idle"
        /\ todo' = [todo EXCEPT ![w] = Metrics]
        /\ UNCHANGED <<baseline, metric, existing>>
    BY <1>1 DEF Detect, Goto
  <2>2. Exact'
    BY <2>1 DEF Exact, Counts, Simple
  <2>3. /\ \A m \in Metrics : windows + 1 \notin baseline[m].folded
        /\ \A v \in Replicas : windows + 1 \notin existing[v].folded
    BY DEF Exact, Counts, Simple
  <2>4. Unfolded'
    BY <2>1, <2>3 DEF Unfolded, ToWrite, Simple
  <2> QED
    BY <2>2, <2>4
<1>2. ASSUME NEW w \in Replicas,
             IsLearning(w) \/ Register(w) \/ AddSample(w) \/ ExpireBaseline(w) \/ Tier2(w)
      PROVE  Exact' /\ Unfolded'
  <2>1. Exact'
    BY <1>2, OtherSteps DEF Exact, Counts
  <2>2. Unfolded'
    BY <1>2, OtherSteps DEF Unfolded, Simple
  <2> QED
    BY <2>1, <2>2
<1>3. ASSUME NEW w \in Replicas, ReadReference(w) PROVE Exact' /\ Unfolded'
  <2>1. PICK m \in todo[w] :
           /\ metric' = [metric EXCEPT ![w] = m]
           /\ todo' = [todo EXCEPT ![w] = @ \ {m}]
    BY <1>3 DEF ReadReference
  <2>2. /\ pc[w] = "read_reference" /\ pc' = [pc EXCEPT ![w] = "register"]
        /\ UNCHANGED <<windows, window, baseline, existing>>
    BY <1>3 DEF ReadReference, Goto
  <2>3. Exact'
    BY <2>2 DEF Exact, Counts
  <2>4. existing[w].folded = {}
    BY <2>2 DEF Placed, NoBaseline
  <2>5. \A v \in Replicas, n \in Metrics : ToWrite(v, n)' => ToWrite(v, n)
    BY <2>1, <2>2 DEF ToWrite, Simple
  <2>6. Unfolded'
    BY <2>1, <2>2, <2>4, <2>5 DEF Unfolded, Simple
  <2> QED
    BY <2>3, <2>6
<1>4. ASSUME NEW w \in Replicas, ReadExisting(w) PROVE Exact' /\ Unfolded'
  <2>1. /\ pc[w] = "read_existing" /\ pc' = [pc EXCEPT ![w] = "write_baseline"]
        /\ existing' = [existing EXCEPT ![w] = baseline[metric[w]]]
        /\ UNCHANGED <<windows, window, baseline, metric, todo>>
        /\ metric[w] \in Metrics
    BY <1>4 DEF ReadExisting, Reread, Goto, Placed, Tier1Steps
  <2>2. Exact'
    BY <2>1 DEF Exact, Counts, Simple
  <2>3. \A v \in Replicas, n \in Metrics : ToWrite(v, n)' => ToWrite(v, n)
    BY <2>1 DEF ToWrite, Simple, Tier1Steps
  <2>4. Unfolded'
    BY <2>1, <2>3 DEF Unfolded, Simple
  <2> QED
    BY <2>2, <2>4
<1>5. ASSUME NEW w \in Replicas, WriteBaseline(w) PROVE Exact' /\ Unfolded'
  <2> DEFINE b == [folded  |-> existing[w].folded \cup {window[w]}, samples |-> NextCount(w)]
  <2>1. /\ pc[w] = "write_baseline" /\ pc' = [pc EXCEPT ![w] = "expire_baseline"]
        /\ baseline' = [baseline EXCEPT ![metric[w]] = b]
        /\ existing' = [existing EXCEPT ![w] = NoBaseline]
        /\ UNCHANGED <<windows, window, metric, todo>>
    BY <1>5 DEF WriteBaseline, Goto
  <2>2. metric[w] \in Metrics /\ metric[w] \notin todo[w]
    BY <2>1 DEF Placed, Tier1Steps
  <2>3. Counts(b) /\ b.folded = existing[w].folded \cup {window[w]}
    BY <2>1, FoldCounts
  <2> HIDE DEF b
  <2>4. Counts(NoBaseline) /\ NoBaseline.folded = {}
    BY <1>0 DEF Counts, NoBaseline
  <2>5. Exact'
    BY <2>1, <2>2, <2>3, <2>4 DEF Exact, Counts, Simple
  <2>6. ASSUME NEW v \in Replicas, NEW n \in Metrics, ToWrite(v, n)'
        PROVE  ToWrite(v, n) /\ (n = metric[w] => v # w)
    BY <2>1, <2>2, <2>6 DEF ToWrite, Simple, Tier1Steps
  <2>7. ASSUME NEW v \in Replicas, NEW n \in Metrics, ToWrite(v, n)'
        PROVE  window[v] \notin baseline'[n].folded
    <3>1. CASE n = metric[w]
      <4>1. window[v] # window[w]
        BY <2>1, <2>6, <2>7, <3>1 DEF Distinct, ToWrite
      <4>2. window[v] \notin existing[w].folded
        BY <2>6, <2>7, <3>1 DEF Unfolded
      <4> QED
        BY <2>1, <2>2, <2>3, <3>1, <4>1, <4>2 DEF Simple
    <3>2. CASE n # metric[w]
      BY <2>1, <2>6, <2>7, <3>2 DEF Unfolded, Simple
    <3> QED
      BY <3>1, <3>2
  <2>8. Unfolded'
    BY <2>1, <2>4, <2>6, <2>7 DEF Unfolded, Simple
  <2> QED
    BY <2>5, <2>8
<1>6. ASSUME NEW w \in Replicas, Verdict(w) \/ Abort(w) PROVE Exact' /\ Unfolded'
  <2>1. Return(w)
    BY <1>6 DEF Verdict, Abort
  <2>2. /\ pc' = [pc EXCEPT ![w] = "idle"] /\ window' = [window EXCEPT ![w] = 0]
        /\ todo' = [todo EXCEPT ![w] = {}] /\ metric' = [metric EXCEPT ![w] = NoMetric]
        /\ existing' = [existing EXCEPT ![w] = NoBaseline]
        /\ UNCHANGED <<windows, baseline>>
    BY <2>1 DEF Return, Goto
  <2>3. Counts(NoBaseline) /\ NoBaseline.folded = {}
    BY <1>0 DEF Counts, NoBaseline
  <2>4. Exact'
    BY <2>2, <2>3 DEF Exact, Counts, Simple
  <2>5. Unfolded'
    BY <2>2, <2>3 DEF Unfolded, ToWrite, Simple
  <2> QED
    BY <2>4, <2>5
<1>7. CASE Tick
  <2>1. /\ \A m \in Metrics : baseline'[m] \in {baseline[m], NoBaseline}
        /\ UNCHANGED <<windows, pc, window, todo, metric, existing>>
    BY <1>7 DEF Tick
  <2>2. Counts(NoBaseline) /\ NoBaseline.folded = {}
    BY <1>0 DEF Counts, NoBaseline
  <2>3. Exact'
    BY <2>1, <2>2 DEF Exact, Counts
  <2>4. Unfolded'
    BY <2>1, <2>2 DEF Unfolded, ToWrite
  <2> QED
    BY <2>3, <2>4
<1>8. CASE UNCHANGED vars
  BY <1>8 DEF vars, Exact, Counts, Unfolded, ToWrite
<1> QED
  BY <1>1, <1>2, <1>3, <1>4, <1>5, <1>6, <1>7, <1>8 DEF Next, Tier1

LEMMA SomethingFitted ==
  ASSUME NEW samples, samples # {} PROVE {s.window : s \in samples} # {}
<1>1. PICK s \in samples : TRUE
  OBVIOUS
<1>2. s.window \in {t.window : t \in samples}
  BY <1>1
<1> QED
  BY <1>2

\* Without samples nothing is fitted.
LEMMA NothingIsTooFew == Cardinality({}) < MinSamples
BY FS_EmptySet, DetectorConstants

\* A model is saved before its stamp.
LEMMA SavedStep ==
  ASSUME Simple, Saved, [Next]_vars, training \subseteq [window : Windows, at : 0 .. now]
  PROVE  Saved'
<1> USE DEF Saved, StampedIsStored, Simple, Goto, redisVars, baselineVars, forestVars, modelVars,
        windowVars, tier1Vars, tier2Vars, historyVars
<1>1. ASSUME NEW w \in Replicas, ReadVectors(w) PROVE Saved'
  <2>1. CASE Cardinality(training) < MinSamples
    BY <1>1, <2>1 DEF ReadVectors
  <2>2. CASE ~(Cardinality(training) < MinSamples)
    <3>1. training # {}
      BY <2>2, NothingIsTooFew, Zenon
    <3>2. vectors' = [vectors EXCEPT ![w] = {s.window : s \in training}]
      BY <1>1, <2>2 DEF ReadVectors
    <3>3. vectors'[w] # {}
      <4> DEFINE fitted == {s.window : s \in training}
      <4>1. fitted # {}
        BY <3>1, SomethingFitted
      <4>2. vectors' = [vectors EXCEPT ![w] = fitted]
        BY <3>2
      <4> HIDE DEF fitted
      <4> QED
        BY <4>1, <4>2
    <3>4. /\ pc[w] = "read_vectors" /\ pc' = [pc EXCEPT ![w] = "set_model"]
          /\ UNCHANGED <<model, lastTrained>>
      BY <1>1, <2>2 DEF ReadVectors, FirstSaved
    <3>5. \A v \in Replicas : v # w => pc'[v] = pc[v] /\ vectors'[v] = vectors[v]
      BY <3>2, <3>4
    <3>6. pc'[w] = "set_model"
      BY <3>4
    <3>7. \A v \in Replicas : pc'[v] = "set_model" => vectors'[v] # {}
      BY <3>3, <3>5
    <3>8. \A v \in Replicas : pc'[v] = "set_stamp" => model' # {}
      BY <3>4, <3>5, <3>6
    <3>9. StampedIsStored'
      BY <3>4
    <3> QED
      BY <3>7, <3>8, <3>9
  <2> QED
    BY <2>1, <2>2
<1>2. ASSUME NEW w \in Replicas, SetModel(w) PROVE Saved'
  BY <1>2 DEF SetModel
<1>3. ASSUME NEW w \in Replicas, SetStamp(w) PROVE Saved'
  BY <1>3 DEF SetStamp
<1>4. ASSUME NEW w \in Replicas, Detect(w) \/ IsLearning(w) \/ Tier1(w) PROVE Saved'
  BY <1>4 DEF Detect, IsLearning, Tier1, ReadReference, Register, AddSample, ReadExisting,
              WriteBaseline, ExpireBaseline
<1>5. ASSUME NEW w \in Replicas, StoreTraining(w) \/ ReadStamp(w) \/ LoadModel(w) PROVE Saved'
  BY <1>5 DEF StoreTraining, ReadStamp, LoadModel
<1>6. ASSUME NEW w \in Replicas, Verdict(w) \/ Abort(w) PROVE Saved'
  <2>1. Return(w)
    BY <1>6 DEF Verdict, Abort
  <2> QED
    BY <2>1 DEF Return
<1>7. CASE Tick \/ UNCHANGED vars
  BY <1>7 DEF Tick, vars
<1> HIDE DEF Saved, StampedIsStored, Simple, Goto, redisVars, baselineVars, forestVars, modelVars,
             windowVars, tier1Vars, tier2Vars, historyVars
<1> QED
  BY <1>1, <1>2, <1>3, <1>4, <1>5, <1>6, <1>7 DEF Next, Tier2

\* What learning[w] says of the age of the service stays true, since
\* first_seen is set once.
LEMMA AgedStep ==
  ASSUME Simple, Aged, [Next]_vars
  PROVE  Aged'
<1> USE DetectorConstants DEF Aged, Simple, Goto, redisVars, baselineVars, forestVars, modelVars,
        windowVars, tier1Vars, tier2Vars, historyVars
<1>1. ASSUME NEW w \in Replicas, IsLearning(w) PROVE Aged'
  <2>1. UNCHANGED <<firstSeen, now>> /\ \A v \in Replicas : v # w => pc'[v] = pc[v]
    BY <1>1 DEF IsLearning
  <2>2. learning' = [learning EXCEPT ![w] = Learning]
    BY <1>1 DEF IsLearning
  <2>3. \A v \in Replicas : v # w => learning'[v] = learning[v]
    BY <2>2
  <2>4. learning'[w] = Learning
    BY <2>2
  <2>5. CASE Learning
    <3>1. learning'[w]
      BY <2>4, <2>5, Zenon
    <3> QED
      BY <2>1, <2>3, <3>1
  <2>6. CASE ~Learning
    <3>1. firstSeen # Never /\ now - firstSeen >= ColdStart
      BY <2>6 DEF Learning
    <3> QED
      BY <2>1, <2>3, <3>1
  <2> QED
    BY <2>5, <2>6
<1>2. ASSUME NEW w \in Replicas, Detect(w) PROVE Aged'
  BY <1>2 DEF Detect
<1>3. ASSUME NEW w \in Replicas, Register(w) PROVE Aged'
  BY <1>3 DEF Register
<1>4. ASSUME NEW w \in Replicas, Tier1(w), ~Register(w) PROVE Aged'
  BY <1>4 DEF Tier1, ReadReference, AddSample, ReadExisting, WriteBaseline, ExpireBaseline
<1>5. ASSUME NEW w \in Replicas, Tier2(w) PROVE Aged'
  BY <1>5 DEF Tier2, StoreTraining, ReadStamp, ReadVectors, SetModel, SetStamp, LoadModel
<1>6. ASSUME NEW w \in Replicas, Verdict(w) \/ Abort(w) PROVE Aged'
  <2>1. Return(w)
    BY <1>6 DEF Verdict, Abort
  <2> QED
    BY <2>1 DEF Return
<1>7. CASE Tick
  <2>1. now' = now + 1 /\ UNCHANGED <<firstSeen, pc, learning>>
    BY <1>7 DEF Tick
  <2>2. ColdStart \in Nat /\ (firstSeen # Never => firstSeen \in Nat)
    OBVIOUS
  <2> QED
    BY <2>1, <2>2
<1>8. CASE UNCHANGED vars
  BY <1>8 DEF vars
<1> QED
  BY <1>1, <1>2, <1>3, <1>4, <1>5, <1>6, <1>7, <1>8 DEF Next

LEMMA DetectorInvStep == DetectorInv /\ [Next]_vars => DetectorInv'
<1> SUFFICES ASSUME DetectorInv, [Next]_vars PROVE DetectorInv'
  OBVIOUS
<1>1. Simple /\ training \subseteq [window : Windows, at : 0 .. now]
  BY TypesAreSimple DEF DetectorInv, TypeOK
<1>2. TypeOK'
  BY DetectorTypeStep
<1>3. Placed' /\ Distinct' /\ Exact' /\ Unfolded' /\ Saved' /\ Aged'
  BY <1>1, PlacedStep, ExactStep, SavedStep, AgedStep DEF DetectorInv
<1> QED
  BY <1>2, <1>3 DEF DetectorInv

-----------------------------------------------------------------------------
\* What was counted is also in what a replica is about to write.
Alone ==
    \A m \in Metrics \ contended :
        /\ counted[m] \subseteq baseline[m].folded
        /\ \A w \in Replicas : pc[w] = "write_baseline" /\ metric[w] = m =>
               counted[m] \subseteq existing[w].folded

LEMMA AloneStep ==
  ASSUME DetectorInv, Alone, [Next]_vars
  PROVE  Alone'
<1> USE DEF Simple, redisVars, baselineVars, windowVars, tier1Vars, tier2Vars, historyVars
<1>0. /\ Simple /\ Placed /\ counted \in [Metrics -> SUBSET Windows]
      /\ contended \in SUBSET Metrics
  BY TypesAreSimple DEF DetectorInv, TypeOK
<1>1. ASSUME NEW w \in Replicas, WriteBaseline(w) PROVE Alone'
  <2> DEFINE b == [folded  |-> existing[w].folded \cup {window[w]}, samples |-> NextCount(w)]
  <2>1. /\ pc[w] = "write_baseline" /\ pc' = [pc EXCEPT ![w] = "expire_baseline"]
        /\ baseline' = [baseline EXCEPT ![metric[w]] = b]
        /\ counted' = [counted EXCEPT ![metric[w]] = @ \cup {window[w]}]
        /\ existing' = [existing EXCEPT ![w] = NoBaseline]
        /\ contended' = IF Overtaking(w) THEN contended \cup {metric[w]} ELSE contended
        /\ UNCHANGED metric
    BY <1>1 DEF WriteBaseline, Goto
  <2>2. metric[w] \in Metrics
    BY <1>0, <2>1 DEF Placed, Tier1Steps
  <2>3. b.folded = existing[w].folded \cup {window[w]}
    OBVIOUS
  <2> HIDE DEF b
  <2> SUFFICES ASSUME NEW m \in Metrics \ contended'
               PROVE  /\ counted'[m] \subseteq baseline'[m].folded
                      /\ \A v \in Replicas : pc'[v] = "write_baseline" /\ metric'[v] = m =>
                             counted'[m] \subseteq existing'[v].folded
    BY DEF Alone
  <2>4. m \in Metrics \ contended
    BY <2>1
  <2>5. CASE m = metric[w]
    <3>1. counted'[m] \subseteq baseline'[m].folded
      BY <1>0, <2>1, <2>3, <2>4, <2>5 DEF Alone
    <3>2. ~Overtaking(w)
      BY <2>1, <2>2, <2>5
    <3>3. \A v \in Replicas : ~(pc'[v] = "write_baseline" /\ metric'[v] = m)
      BY <1>0, <2>1, <2>5, <3>2 DEF Overtaking
    <3> QED
      BY <3>1, <3>3
  <2>6. CASE m # metric[w]
    BY <1>0, <2>1, <2>4, <2>6 DEF Alone
  <2> QED
    BY <2>5, <2>6
<1>2. ASSUME NEW w \in Replicas, ReadExisting(w) PROVE Alone'
  <2>1. /\ existing' = [existing EXCEPT ![w] = baseline[metric[w]]]
        /\ pc' = [pc EXCEPT ![w] = "write_baseline"]
        /\ UNCHANGED <<baseline, counted, contended, metric>>
    BY <1>2 DEF ReadExisting, Reread, Goto
  <2> QED
    BY <1>0, <2>1 DEF Alone
<1>3. ASSUME NEW w \in Replicas, ReadReference(w) PROVE Alone'
  <2>1. /\ \E m \in todo[w] : metric' = [metric EXCEPT ![w] = m]
        /\ pc' = [pc EXCEPT ![w] = "register"]
        /\ UNCHANGED <<baseline, counted, contended, existing>>
    BY <1>3 DEF ReadReference, Goto
  <2> QED
    BY <1>0, <2>1 DEF Alone
<1>4. ASSUME NEW w \in Replicas,
             IsLearning(w) \/ Register(w) \/ AddSample(w) \/ ExpireBaseline(w) \/ Tier2(w)
      PROVE  Alone'
  <2>1. /\ \E step \in Steps \ {"write_baseline"} : pc' = [pc EXCEPT ![w] = step]
        /\ UNCHANGED <<counted, contended>>
    BY <1>0, <1>4 DEF IsLearning, Register, AddSample, ExpireBaseline, Tier2, StoreTraining,
          ReadStamp, ReadVectors, FirstSaved, SetModel, SetStamp, LoadModel, Goto, Steps, Stamping
  <2>2. /\ UNCHANGED <<baseline, existing>>
        /\ \A v \in Replicas : metric'[v] \in {metric[v], NoMetric}
    BY <1>0, <1>4, OtherSteps
  <2> QED
    BY <1>0, <2>1, <2>2 DEF Alone
<1>5. ASSUME NEW w \in Replicas, Detect(w) \/ Verdict(w) \/ Abort(w) PROVE Alone'
  <2>1. /\ \E step \in Steps \ {"write_baseline"} : pc' = [pc EXCEPT ![w] = step]
        /\ UNCHANGED <<baseline, counted, contended>>
        /\ metric' \in {metric, [metric EXCEPT ![w] = NoMetric]}
        /\ existing' \in {existing, [existing EXCEPT ![w] = NoBaseline]}
    BY <1>5 DEF Detect, Verdict, Abort, Return, Goto, Steps, Stamping
  <2> QED
    BY <1>0, <2>1 DEF Alone
<1>6. CASE Tick
  <2> DEFINE gone == {m \in Metrics : baselineUntil[m] <= now'}
  <2>1. /\ \A m \in Metrics : counted'[m] = IF m \in gone THEN {} ELSE counted[m]
        /\ \A m \in Metrics \ gone : baseline'[m] = baseline[m]
        /\ contended' = contended \ gone
        /\ UNCHANGED <<pc, metric, existing>>
    BY <1>6 DEF Tick
  <2> HIDE DEF gone
  <2> SUFFICES ASSUME NEW m \in Metrics \ contended'
               PROVE  /\ counted'[m] \subseteq baseline'[m].folded
                      /\ \A v \in Replicas : pc'[v] = "write_baseline" /\ metric'[v] = m =>
                             counted'[m] \subseteq existing'[v].folded
    BY DEF Alone
  <2>2. CASE m \in gone
    BY <2>1, <2>2
  <2>3. CASE m \notin gone
    BY <2>1, <2>3 DEF Alone
  <2> QED
    BY <2>2, <2>3
<1>7. CASE UNCHANGED vars
  BY <1>7 DEF vars, Alone
<1> QED
  BY <1>1, <1>2, <1>3, <1>4, <1>5, <1>6, <1>7 DEF Next, Tier1

\* While an update is under way the order of the two times is open; its last
\* command, the EXPIRE, restores it.
LEMMA OutlivesStep ==
  ASSUME DetectorInv, HashOutlivesSamples, [Next]_vars
  PROVE  HashOutlivesSamples'
<1> USE DetectorConstants DEF Simple, Updating, redisVars, baselineVars, windowVars, tier1Vars,
        tier2Vars, historyVars
<1>0. /\ Simple /\ Placed /\ torn \in SUBSET Metrics
      /\ baselineUntil \in [Metrics -> 0 .. Forever]
      /\ samplesUntil \in [Metrics -> 0 .. now + KeyLife]
  BY TypesAreSimple DEF DetectorInv, TypeOK
<1>1. ASSUME NEW w \in Replicas, AddSample(w) PROVE HashOutlivesSamples'
  <2>1. /\ pc' = [pc EXCEPT ![w] = "read_existing"]
        /\ samplesUntil' = [samplesUntil EXCEPT ![metric[w]] = now + KeyLife]
        /\ UNCHANGED <<baselineUntil, torn, metric>> /\ pc[w] = "add_sample"
    BY <1>1 DEF AddSample, Goto
  <2> SUFFICES ASSUME NEW m \in Metrics \ torn, samplesUntil'[m] > baselineUntil'[m],
                      \A v \in Replicas : ~(Updating(v) /\ metric[v] = m)'
               PROVE  FALSE
    BY <1>0, <2>1 DEF HashOutlivesSamples
  <2>2. metric[w] # m
    BY <1>0, <2>1
  <2>3. samplesUntil'[m] = samplesUntil[m] /\ baselineUntil'[m] = baselineUntil[m]
    BY <1>0, <2>1, <2>2
  <2>4. \A v \in Replicas : ~(Updating(v) /\ metric[v] = m)
    BY <1>0, <2>1
  <2>5. samplesUntil[m] <= baselineUntil[m]
    BY <2>4 DEF HashOutlivesSamples
  <2> QED
    BY <1>0, <2>3, <2>5
<1>2. ASSUME NEW w \in Replicas, WriteBaseline(w) PROVE HashOutlivesSamples'
  <2>1. /\ pc' = [pc EXCEPT ![w] = "expire_baseline"] /\ pc[w] = "write_baseline"
        /\ \E t : baselineUntil' = [baselineUntil EXCEPT ![metric[w]] = t]
        /\ UNCHANGED <<samplesUntil, torn, metric>>
    BY <1>2 DEF WriteBaseline, Goto
  <2> QED
    BY <1>0, <2>1 DEF HashOutlivesSamples
<1>3. ASSUME NEW w \in Replicas, ExpireBaseline(w) PROVE HashOutlivesSamples'
  <2>1. /\ \E step \in {"store_training", "read_reference"} : pc' = [pc EXCEPT ![w] = step]
        /\ pc[w] = "expire_baseline"
        /\ baselineUntil' = [baselineUntil EXCEPT ![metric[w]] = Expired(metric[w])]
        /\ torn' = IF baseline[metric[w]] = NoBaseline THEN torn \cup {metric[w]}
                   ELSE torn \ {metric[w]}
        /\ metric' = [metric EXCEPT ![w] = NoMetric]
        /\ UNCHANGED samplesUntil
    BY <1>3 DEF ExpireBaseline, Goto
  <2>2. metric[w] \in Metrics
    BY <1>0, <2>1 DEF Placed, Tier1Steps
  <2> SUFFICES ASSUME NEW m \in Metrics \ torn',
                      \A v \in Replicas : ~(Updating(v) /\ metric[v] = m)'
               PROVE  samplesUntil'[m] <= baselineUntil'[m]
    BY DEF HashOutlivesSamples
  <2>3. CASE m = metric[w]
    <3>1. baselineUntil'[m] = now + KeyLife
      BY <1>0, <2>1, <2>2, <2>3 DEF Expired
    <3> QED
      BY <1>0, <2>1, <3>1
  <2>4. CASE m # metric[w]
    <3>1. baselineUntil'[m] = baselineUntil[m] /\ m \notin torn
      BY <1>0, <2>1, <2>4
    <3>2. \A v \in Replicas : ~(Updating(v) /\ metric[v] = m)
      BY <1>0, <2>1, <2>4
    <3> QED
      BY <2>1, <3>1, <3>2 DEF HashOutlivesSamples
  <2> QED
    BY <2>3, <2>4
<1>4. ASSUME NEW w \in Replicas, Verdict(w) \/ Abort(w) PROVE HashOutlivesSamples'
  <2>1. /\ pc' = [pc EXCEPT ![w] = "idle"] /\ metric' = [metric EXCEPT ![w] = NoMetric]
        /\ torn' = torn \/ torn' = torn \cup {metric[w]}
        /\ Updating(w) => metric[w] \in torn' \/ pc[w] = "verdict"
        /\ torn \subseteq torn'
        /\ UNCHANGED <<samplesUntil, baselineUntil>>
    BY <1>4 DEF Verdict, Abort, Return, Goto
  <2> QED
    BY <1>0, <2>1 DEF HashOutlivesSamples
<1>5. ASSUME NEW w \in Replicas,
             IsLearning(w) \/ Register(w) \/ ReadReference(w) \/ ReadExisting(w) \/ Detect(w)
      PROVE  HashOutlivesSamples'
  <2>1. /\ \E step : pc' = [pc EXCEPT ![w] = step]
        /\ \/ Updating(w)' /\ Updating(w)
           \/ ~Updating(w)' /\ ~Updating(w)
        /\ UNCHANGED <<samplesUntil, baselineUntil, torn>>
    BY <1>0, <1>5 DEF IsLearning, Register, ReadReference, ReadExisting, Detect, Goto
  <2>2. UNCHANGED metric \/ (~Updating(w)' /\ \E m : metric' = [metric EXCEPT ![w] = m])
    BY <1>0, <1>5 DEF IsLearning, Register, ReadReference, ReadExisting, Detect, Goto
  <2> QED
    BY <1>0, <2>1, <2>2 DEF HashOutlivesSamples
<1>6. ASSUME NEW w \in Replicas, Tier2(w) PROVE HashOutlivesSamples'
  <2>1. /\ ~Updating(w)
        /\ UNCHANGED <<samplesUntil, baselineUntil, torn, metric>>
    BY <1>6 DEF Tier2, StoreTraining, ReadStamp, ReadVectors, SetModel, SetStamp, LoadModel,
                forestVars, modelVars
  <2>2. \E step : Goto(w, step)
    BY <1>6 DEF Tier2, StoreTraining, ReadStamp, ReadVectors, SetModel, SetStamp, LoadModel
  <2>3. \E step : pc' = [pc EXCEPT ![w] = step]
    BY <2>2 DEF Goto
  <2> QED
    BY <1>0, <2>1, <2>3 DEF HashOutlivesSamples
<1>7. CASE Tick
  <2> SUFFICES ASSUME NEW m \in Metrics \ torn,
                      \A v \in Replicas : ~(Updating(v) /\ metric[v] = m)
               PROVE  samplesUntil'[m] <= baselineUntil'[m]
    BY <1>7 DEF HashOutlivesSamples, Tick
  <2>1. samplesUntil[m] <= baselineUntil[m]
    BY DEF HashOutlivesSamples
  <2>2. /\ baselineUntil'[m] = IF baselineUntil[m] <= now' THEN 0 ELSE baselineUntil[m]
        /\ samplesUntil'[m] = IF samplesUntil[m] <= now' THEN 0 ELSE samplesUntil[m]
        /\ now' = now + 1
    BY <1>7 DEF Tick
  <2>3. samplesUntil[m] \in Nat /\ baselineUntil[m] \in Nat /\ now \in Nat
    BY <1>0 DEF Forever
  <2> QED
    BY <2>1, <2>2, <2>3
<1>8. CASE UNCHANGED vars
  BY <1>8 DEF vars, HashOutlivesSamples
<1> QED
  BY <1>1, <1>2, <1>3, <1>4, <1>5, <1>6, <1>7, <1>8 DEF Next, Tier1

-----------------------------------------------------------------------------
\* Type correctness of the detector; a key has a TTL if and only if it is there.
THEOREM DetectorTypeCorrect == Spec => []TypeOK
<1>1. DetectorInv => TypeOK
  BY DEF DetectorInv
<1> QED
  BY <1>1, DetectorInvInit, DetectorInvStep, PTL DEF Spec

\* The count of a baseline is that of the windows in it, whatever updates
\* replicas lose to one another.
THEOREM CountsAreExact == Spec => []CountIsExact
<1>1. DetectorInv => CountIsExact
  BY DEF DetectorInv, Exact, Counts, CountIsExact
<1> QED
  BY <1>1, DetectorInvInit, DetectorInvStep, PTL DEF Spec

\* Only another replica's write can lose an observation.
THEOREM LossesAreContended == Spec => []NothingLostAlone
<1>1. Init => DetectorInv /\ Alone
  BY DetectorInvInit DEF Init, Alone
<1>2. DetectorInv /\ Alone /\ [Next]_vars => (DetectorInv /\ Alone)'
  BY DetectorInvStep, AloneStep
<1>3. Alone => NothingLostAlone
  BY DEF Alone, NothingLostAlone
<1> QED
  BY <1>1, <1>2, <1>3, PTL DEF Spec

\* Between updates no baseline's key expires before its samples'.
THEOREM HashesOutlive == Spec => []HashOutlivesSamples
<1>1. Init => DetectorInv /\ HashOutlivesSamples
  BY DetectorInvInit DEF Init, HashOutlivesSamples
<1>2. DetectorInv /\ HashOutlivesSamples /\ [Next]_vars => (DetectorInv /\ HashOutlivesSamples)'
  BY DetectorInvStep, OutlivesStep
<1> QED
  BY <1>1, <1>2, PTL DEF Spec

\* No alert in the cold start.
THEOREM NoAlertInColdStart == Spec => []ColdStartHolds
<1>1. DetectorInv => ColdStartHolds
  BY DEF DetectorInv, Aged, ColdStartHolds, IsAnomaly
<1> QED
  BY <1>1, DetectorInvInit, DetectorInvStep, PTL DEF Spec

\* A stamp always has its model, whenever a replica dies.
THEOREM StampsHaveModels == Spec => []StampedIsStored
<1>1. DetectorInv => StampedIsStored
  BY DEF DetectorInv, Saved
<1> QED
  BY <1>1, DetectorInvInit, DetectorInvStep, PTL DEF Spec
=============================================================================
