--------------------------- MODULE TwoTierDetector ---------------------------
(***************************************************************************)
(* TwoTierDetector.detect for one service: replicas of the anomaly         *)
(* detector take its windows, keep its baselines and its isolation forest  *)
(* in Redis, and reach a verdict (src/anomaly-detector: detection/,        *)
(* baseline/manager.py).  The keys of two services have nothing in common. *)
(*                                                                         *)
(* A step is one round trip to Redis.  A window stands for its feature     *)
(* vector, a baseline for the windows folded into it, a model for the      *)
(* windows it was fitted on; what a z-score or the forest says of a window *)
(* that has something to be compared with is free.                         *)
(***************************************************************************)
EXTENDS Integers, FiniteSets

CONSTANTS
    Replicas,
    Metrics,     \* the numeric features
    NoMetric,
    ColdStart,   \* cold_start_seconds
    KeyLife,     \* window_seconds + 3600, the TTL of all keys that have one
    SampleLife,  \* WINDOW_SECONDS of tier2_isolation.py
    RetrainAfter, \* retrain_interval
    MinSamples,  \* min_training_samples
    MaxWindows,  \* bound of the windows taken
    MaxTime,     \* bound of the clock
    MaxAborts    \* bound of the windows given up

ASSUME DetectorConstants ==
    /\ NoMetric \notin Metrics
    /\ IsFiniteSet(Metrics)
    /\ ColdStart \in Nat \ {0}
    /\ SampleLife \in Nat \ {0}
    /\ KeyLife \in Nat /\ KeyLife > SampleLife
    /\ RetrainAfter \in Nat \ {0}
    /\ MinSamples \in Nat \ {0}
    /\ MaxWindows \in Nat
    /\ MaxTime \in Nat
    /\ MaxAborts \in Nat

VARIABLES
    now,
    windows,       \* windows taken so far; the last one's number
    \* Redis
    firstSeen,     \* svc:{service}:first_seen, Never if absent
    baseline,      \* svc:{service}:baseline:{metric}, NoBaseline if absent
    baselineUntil, \* when that key expires
    samplesUntil,  \* when svc:{service}:samples:{metric} expires, 0 if absent
    training,      \* if_model:{service}:training: windows with their scores
    trainingUntil, \* when that key expires, 0 if absent
    model,         \* if_model:{service}:blob, {} if absent
    lastTrained,   \* if_model:{service}:last_trained, Never if absent
    \* a replica in detect()
    pc,
    clock,         \* its last time.time()
    window,        \* the window at hand, 0 if none
    learning,
    todo,          \* metrics not checked yet
    metric,        \* the one at hand
    reference,     \* old_baseline of check
    existing,      \* existing of update_baseline
    zscore,        \* max_z_score so far
    vectors,       \* what the model is being fitted on
    outlier,       \* tier 2 fired
    \* history
    counted,       \* counted[m]: windows whose update of m was written
    contended,     \* metrics with a write that another replica did not read
    torn,          \* metrics whose last EXPIRE was not sent, or found no key
    aborts

baselineVars == <<baseline, baselineUntil>>
modelVars    == <<model, lastTrained>>
forestVars   == <<training, trainingUntil, modelVars>>
redisVars    == <<firstSeen, baselineVars, samplesUntil, forestVars>>
windowVars   == <<window, learning>>
tier1Vars    == <<todo, metric, reference, existing, zscore>>
tier2Vars    == <<vectors, outlier>>
historyVars  == <<counted, contended, torn>>
vars         == <<now, windows, redisVars, pc, clock, windowVars, tier1Vars, tier2Vars,
                  historyVars, aborts>>

Never      == -1
Forever    == MaxTime + KeyLife + 1
NoBaseline == [folded |-> {}, samples |-> 0]

ZLevels == {"low", "high", "critical"}

\* Steps that send a time read before them
Stamping == {"register", "store_training", "set_stamp"}

Steps ==
    Stamping \cup
    {"idle", "is_learning", "read_reference", "add_sample", "read_existing", "write_baseline",
     "expire_baseline", "read_stamp", "read_vectors", "set_model", "load_model", "verdict"}

Init ==
    /\ now = 0
    /\ windows = 0
    /\ firstSeen = Never
    /\ baseline = [m \in Metrics |-> NoBaseline]
    /\ baselineUntil = [m \in Metrics |-> 0]
    /\ samplesUntil = [m \in Metrics |-> 0]
    /\ training = {}
    /\ trainingUntil = 0
    /\ model = {}
    /\ lastTrained = Never
    /\ pc = [w \in Replicas |-> "idle"]
    /\ clock = [w \in Replicas |-> 0]
    /\ window = [w \in Replicas |-> 0]
    /\ learning = [w \in Replicas |-> FALSE]
    /\ todo = [w \in Replicas |-> {}]
    /\ metric = [w \in Replicas |-> NoMetric]
    /\ reference = [w \in Replicas |-> NoBaseline]
    /\ existing = [w \in Replicas |-> NoBaseline]
    /\ zscore = [w \in Replicas |-> "low"]
    /\ vectors = [w \in Replicas |-> {}]
    /\ outlier = [w \in Replicas |-> FALSE]
    /\ counted = [m \in Metrics |-> {}]
    /\ contended = {}
    /\ torn = {}
    /\ aborts = 0

\* The replica's next round trip; time.time() is read on the way to some.
Goto(w, step) ==
    /\ pc' = [pc EXCEPT ![w] = step]
    /\ clock' = [clock EXCEPT ![w] = IF step \in Stamping THEN now ELSE 0]

-----------------------------------------------------------------------------
(* TwoTierDetector.detect                                                    *)

\* A SERVICE_WINDOW_AGGREGATE of the service comes out of the consumer.
Detect(w) ==
    /\ pc[w] = "idle"
    /\ windows < MaxWindows
    /\ windows' = windows + 1
    /\ window' = [window EXCEPT ![w] = windows']
    /\ todo' = [todo EXCEPT ![w] = Metrics]
    /\ Goto(w, "is_learning")
    /\ UNCHANGED <<now, redisVars, learning, metric, reference, existing, zscore, tier2Vars,
                   historyVars, aborts>>

\* Mutant: a service never seen is not learning.
LearningOnceSeen == firstSeen # Never /\ now - firstSeen < ColdStart

\* is_learning; a service never seen is learning.
Learning == firstSeen = Never \/ now - firstSeen < ColdStart

IsLearning(w) ==
    /\ pc[w] = "is_learning"
    /\ learning' = [learning EXCEPT ![w] = Learning]
    /\ Goto(w, IF todo[w] = {} THEN "store_training" ELSE "read_reference")
    /\ UNCHANGED <<now, windows, redisVars, window, tier1Vars, tier2Vars, historyVars, aborts>>

-----------------------------------------------------------------------------
(* ZScoreDetector.check and BaselineManager.update_baseline                  *)

ReadReference(w) ==
    /\ pc[w] = "read_reference"
    /\ \E m \in todo[w] :
           /\ metric' = [metric EXCEPT ![w] = m]
           /\ todo' = [todo EXCEPT ![w] = @ \ {m}]
           /\ reference' = [reference EXCEPT ![w] = baseline[m]]
    /\ Goto(w, "register")
    /\ UNCHANGED <<now, windows, redisVars, windowVars, existing, zscore, tier2Vars, historyVars,
                   aborts>>

\* SETNX
Register(w) ==
    /\ pc[w] = "register"
    /\ firstSeen' = IF firstSeen = Never THEN clock[w] ELSE firstSeen
    /\ Goto(w, "add_sample")
    /\ UNCHANGED <<now, windows, baselineVars, samplesUntil, forestVars, windowVars, tier1Vars,
                   tier2Vars, historyVars, aborts>>

\* One pipeline; what the ZSET holds is never read, only its life matters.
AddSample(w) ==
    /\ pc[w] = "add_sample"
    /\ samplesUntil' = [samplesUntil EXCEPT ![metric[w]] = now + KeyLife]
    /\ Goto(w, "read_existing")
    /\ UNCHANGED <<now, windows, firstSeen, baselineVars, forestVars, windowVars, tier1Vars,
                   tier2Vars, historyVars, aborts>>

\* Mutant: the baseline that check() has read is used again.
ReferenceAgain(w) == reference[w]

Reread(w) == baseline[metric[w]]

ReadExisting(w) ==
    /\ pc[w] = "read_existing"
    /\ existing' = [existing EXCEPT ![w] = Reread(w)]
    /\ Goto(w, "write_baseline")
    /\ UNCHANGED <<now, windows, redisVars, windowVars, todo, metric, reference, zscore,
                   tier2Vars, historyVars, aborts>>

\* Another replica is about to write what it computed without this update.
Overtaking(w) ==
    \E v \in Replicas \ {w} : pc[v] = "write_baseline" /\ metric[v] = metric[w]

\* Mutant: the count is incremented in Redis, the other fields are set.
CountInRedis(w) == baseline[metric[w]].samples + 1

NextCount(w) == existing[w].samples + 1

\* HSET of all the fields: it keeps the TTL of a key that has one.
WriteBaseline(w) ==
    LET m == metric[w]
    IN  /\ pc[w] = "write_baseline"
        /\ baseline' = [baseline EXCEPT ![m] = [folded  |-> existing[w].folded \cup {window[w]},
                                                samples |-> NextCount(w)]]
        /\ baselineUntil' = [baselineUntil EXCEPT ![m] =
                                 IF baseline[m] = NoBaseline THEN Forever ELSE @]
        /\ counted' = [counted EXCEPT ![m] = @ \cup {window[w]}]
        /\ contended' = IF Overtaking(w) THEN contended \cup {m} ELSE contended
        /\ existing' = [existing EXCEPT ![w] = NoBaseline]
        /\ Goto(w, "expire_baseline")
        /\ UNCHANGED <<now, windows, firstSeen, samplesUntil, forestVars, windowVars, todo,
                       metric, reference, zscore, tier2Vars, torn, aborts>>

\* Without history, or with one sample and so no variance, z is 0.
ZScores(ref) == IF ref.samples <= 1 THEN {"low"} ELSE ZLevels

Worse(y, z) == IF "critical" \in {y, z} THEN "critical" ELSE IF "high" \in {y, z} THEN "high" ELSE "low"

\* Mutant: the TTL is set with the first sample only.
FirstExpired(m) == IF baseline[m].samples = 1 THEN now + KeyLife ELSE baselineUntil[m]

\* Mutant: the TTL is kept beside the key, whether it exists or not.
AlwaysExpired(m) == now + KeyLife

Expired(m) == IF baseline[m] = NoBaseline THEN baselineUntil[m] ELSE now + KeyLife

\* EXPIRE of a key that may be gone by now, then z and the next metric.
ExpireBaseline(w) ==
    LET m == metric[w]
    IN  /\ pc[w] = "expire_baseline"
        /\ baselineUntil' = [baselineUntil EXCEPT ![m] = Expired(m)]
        /\ torn' = IF baseline[m] = NoBaseline THEN torn \cup {m} ELSE torn \ {m}
        /\ \E z \in ZScores(reference[w]) : zscore' = [zscore EXCEPT ![w] = Worse(@, z)]
        /\ metric' = [metric EXCEPT ![w] = NoMetric]
        /\ reference' = [reference EXCEPT ![w] = NoBaseline]
        /\ Goto(w, IF todo[w] = {} THEN "store_training" ELSE "read_reference")
        /\ UNCHANGED <<now, windows, firstSeen, baseline, samplesUntil, forestVars, windowVars,
                       todo, existing, tier2Vars, counted, contended, aborts>>

-----------------------------------------------------------------------------
(* IsolationForestDetector                                                   *)

\* store_training_sample: one pipeline of ZADD, ZREMRANGEBYSCORE and EXPIRE
StoreTraining(w) ==
    /\ pc[w] = "store_training"
    /\ training' = {s \in training \cup {[window |-> window[w], at |-> clock[w]]} :
                       s.at > clock[w] - SampleLife}
    /\ trainingUntil' = now + KeyLife
    /\ Goto(w, "read_stamp")
    /\ UNCHANGED <<now, windows, firstSeen, baselineVars, samplesUntil, modelVars, windowVars,
                   tier1Vars, tier2Vars, historyVars, aborts>>

\* maybe_retrain: the model is fresh,
ReadStamp(w) ==
    /\ pc[w] = "read_stamp"
    /\ Goto(w, IF lastTrained # Never /\ now - lastTrained < RetrainAfter
               THEN "load_model" ELSE "read_vectors")
    /\ UNCHANGED <<now, windows, redisVars, windowVars, tier1Vars, tier2Vars, historyVars, aborts>>

\* Mutant: the stamp is saved, the model is not.
StampOnly == "set_stamp"

FirstSaved == "set_model"

\* or there is not enough to fit one on, or one is fitted
ReadVectors(w) ==
    /\ pc[w] = "read_vectors"
    /\ IF Cardinality(training) < MinSamples
       THEN Goto(w, "load_model") /\ UNCHANGED vectors
       ELSE /\ vectors' = [vectors EXCEPT ![w] = {s.window : s \in training}]
            /\ Goto(w, FirstSaved)
    /\ UNCHANGED <<now, windows, redisVars, windowVars, tier1Vars, outlier, historyVars, aborts>>

\* and saved, with two commands.
SetModel(w) ==
    /\ pc[w] = "set_model"
    /\ model' = vectors[w]
    /\ vectors' = [vectors EXCEPT ![w] = {}]
    /\ Goto(w, "set_stamp")
    /\ UNCHANGED <<now, windows, firstSeen, baselineVars, samplesUntil, training, trainingUntil,
                   lastTrained, windowVars, tier1Vars, outlier, historyVars, aborts>>

SetStamp(w) ==
    /\ pc[w] = "set_stamp"
    /\ lastTrained' = clock[w]
    /\ Goto(w, "load_model")
    /\ UNCHANGED <<now, windows, firstSeen, baselineVars, samplesUntil, training, trainingUntil,
                   model, windowVars, tier1Vars, tier2Vars, historyVars, aborts>>

\* Without a model tier 2 does not fire.
LoadModel(w) ==
    /\ pc[w] = "load_model"
    /\ \E fired \in IF model = {} THEN {FALSE} ELSE BOOLEAN :
           outlier' = [outlier EXCEPT ![w] = fired]
    /\ Goto(w, "verdict")
    /\ UNCHANGED <<now, windows, redisVars, windowVars, tier1Vars, vectors, historyVars, aborts>>

-----------------------------------------------------------------------------
(* The verdict, and the end of the call.                                     *)

IsAnomaly(w) ==
    /\ ~learning[w]
    /\ zscore[w] = "critical" \/ (zscore[w] = "high" /\ outlier[w])

Return(w) ==
    /\ Goto(w, "idle")
    /\ window' = [window EXCEPT ![w] = 0]
    /\ learning' = [learning EXCEPT ![w] = FALSE]
    /\ todo' = [todo EXCEPT ![w] = {}]
    /\ metric' = [metric EXCEPT ![w] = NoMetric]
    /\ reference' = [reference EXCEPT ![w] = NoBaseline]
    /\ existing' = [existing EXCEPT ![w] = NoBaseline]
    /\ zscore' = [zscore EXCEPT ![w] = "low"]
    /\ vectors' = [vectors EXCEPT ![w] = {}]
    /\ outlier' = [outlier EXCEPT ![w] = FALSE]
    /\ UNCHANGED <<now, windows, redisVars, counted, contended>>

\* process_window goes on to the suppressor, or returns.
Verdict(w) ==
    /\ pc[w] = "verdict"
    /\ Return(w)
    /\ UNCHANGED <<torn, aborts>>

Updating(w) == pc[w] \in {"read_existing", "write_baseline", "expire_baseline"}

\* Redis raises and main() drops the window, or the process dies.
Abort(w) ==
    /\ pc[w] # "idle"
    /\ aborts < MaxAborts
    /\ aborts' = aborts + 1
    /\ torn' = IF Updating(w) THEN torn \cup {metric[w]} ELSE torn
    /\ Return(w)

\* Redis drops what has expired.
Tick ==
    /\ now < MaxTime
    /\ now' = now + 1
    /\ LET gone == {m \in Metrics : baselineUntil[m] <= now'}
       IN  /\ baseline' = [m \in Metrics |-> IF m \in gone THEN NoBaseline ELSE baseline[m]]
           /\ baselineUntil' = [m \in Metrics |-> IF m \in gone THEN 0 ELSE baselineUntil[m]]
           /\ counted' = [m \in Metrics |-> IF m \in gone THEN {} ELSE counted[m]]
           /\ contended' = contended \ gone
    /\ samplesUntil' = [m \in Metrics |-> IF samplesUntil[m] <= now' THEN 0 ELSE samplesUntil[m]]
    /\ training' = IF trainingUntil <= now' THEN {} ELSE training
    /\ trainingUntil' = IF trainingUntil <= now' THEN 0 ELSE trainingUntil
    /\ UNCHANGED <<windows, firstSeen, modelVars, pc, clock, windowVars, tier1Vars, tier2Vars,
                   torn, aborts>>

Tier1(w) ==
    \/ ReadReference(w) \/ Register(w) \/ AddSample(w)
    \/ ReadExisting(w) \/ WriteBaseline(w) \/ ExpireBaseline(w)

Tier2(w) ==
    \/ StoreTraining(w)
    \/ ReadStamp(w) \/ ReadVectors(w) \/ SetModel(w) \/ SetStamp(w)
    \/ LoadModel(w)

Next ==
    \/ \E w \in Replicas :
           Detect(w) \/ IsLearning(w) \/ Tier1(w) \/ Tier2(w) \/ Verdict(w) \/ Abort(w)
    \/ Tick

Spec == Init /\ [][Next]_vars

-----------------------------------------------------------------------------
(* Properties.                                                               *)

Windows == 1 .. MaxWindows

Baselines == [folded : SUBSET Windows, samples : 0 .. MaxWindows]

\* Every variable has its type; a key has a TTL if and only if it is there.
TypeOK ==
    /\ now \in 0 .. MaxTime
    /\ windows \in 0 .. MaxWindows
    /\ firstSeen \in {Never} \cup 0 .. now
    /\ baseline \in [Metrics -> Baselines]
    /\ baselineUntil \in [Metrics -> 0 .. Forever]
    /\ \A m \in Metrics : baseline[m] = NoBaseline <=> baselineUntil[m] = 0
    /\ samplesUntil \in [Metrics -> 0 .. now + KeyLife]
    /\ training \subseteq [window : Windows, at : 0 .. now]
    /\ trainingUntil \in 0 .. now + KeyLife
    /\ model \subseteq Windows
    /\ lastTrained \in {Never} \cup 0 .. now
    /\ pc \in [Replicas -> Steps]
    /\ clock \in [Replicas -> 0 .. now]
    /\ window \in [Replicas -> 0 .. windows]
    /\ learning \in [Replicas -> BOOLEAN]
    /\ todo \in [Replicas -> SUBSET Metrics]
    /\ metric \in [Replicas -> Metrics \cup {NoMetric}]
    /\ reference \in [Replicas -> Baselines]
    /\ existing \in [Replicas -> Baselines]
    /\ zscore \in [Replicas -> ZLevels]
    /\ vectors \in [Replicas -> SUBSET Windows]
    /\ outlier \in [Replicas -> BOOLEAN]
    /\ counted \in [Metrics -> SUBSET Windows]
    /\ contended \subseteq Metrics
    /\ torn \subseteq Metrics
    /\ aborts \in 0 .. MaxAborts

\* No window is called an anomaly before ColdStart has passed since the service
\* was first seen, whichever replicas registered it and fed its baselines
\* meanwhile (is_learning, manager.py:71-80, and detector.py:49, 64).
ColdStartHolds ==
    \A w \in Replicas : (pc[w] = "verdict" /\ IsAnomaly(w)) =>
        firstSeen # Never /\ now - firstSeen >= ColdStart

\* sample_count is the number of observations that mean, ewma and std_dev are
\* made of, also when replicas overwrite each other (manager.py:125-176).
CountIsExact ==
    \A m \in Metrics : baseline[m].samples = Cardinality(baseline[m].folded)

\* An observation whose update was written stays in the baseline as long as
\* the baseline lives, unless a replica wrote what it had computed before it:
\* a crash, an expired key or a window given up loses no other observation
\* (update_baseline, manager.py:99-180).
NothingLostAlone ==
    \A m \in Metrics \ contended : counted[m] \subseteq baseline[m].folded

\* "Expire slightly beyond the window so the Hash outlives its samples"
\* (manager.py:177): between updates the baseline's key lives at least as long
\* as the samples', unless the last EXPIRE was not sent or came too late.
HashOutlivesSamples ==
    \A m \in Metrics \ torn :
        (\A w \in Replicas : ~(Updating(w) /\ metric[w] = m)) => samplesUntil[m] <= baselineUntil[m]

\* Where there is a stamp there is a model, whenever a replica dies: a model
\* that is thought fresh for a week can be loaded (_save_model,
\* tier2_isolation.py:77-81).
StampedIsStored == lastTrained # Never => model # {}
=============================================================================
