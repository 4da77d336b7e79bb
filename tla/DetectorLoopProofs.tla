-------------------------- MODULE DetectorLoopProofs --------------------------
(***************************************************************************)
(* The detector's consumer loop, for every number of records, kills and    *)
(* failed commits, and whatever the windows hold; and what a window        *)
(* reports, for every number and kind of events and every size of the      *)
(* reservoir and the map.                                                  *)
(***************************************************************************)
EXTENDS DetectorLoop, SequenceTheorems, FiniteSetTheorems, WellFoundedInduction, TLAPS

\* The topic is a sequence of some records, at most MaxRecords of them.
TopicOK == Len(topic) \in 0 .. MaxRecords /\ \E S : topic \in Seq(S)

\* The offsets that bound one another.
OffsetsOK ==
    /\ committed \in {NoOffset} \cup Nat
    /\ committed # NoOffset => 1 <= committed /\ committed <= Len(topic) + 1
    /\ position \in Nat /\ fetched \in Nat
    /\ 1 <= position /\ position <= fetched + 1 /\ fetched <= Len(topic)
    /\ committed # NoOffset /\ stage # "down" => committed <= position
    /\ stage = "process_window" => 2 <= position

\* The rest of the types.
LoopTypes ==
    /\ window \in Nat \ {0}
    /\ fired \in BOOLEAN
    /\ stage \in Stages
    /\ stop \in BOOLEAN
    /\ buffer \subseteq sent
    /\ faults \in 0 .. MaxFaults
    /\ looked \in [Offsets -> Nat]
    /\ dropped \cup poisoned \cup missed \cup sent \cup settled \subseteq 1 .. Len(topic)

\* What is behind the position was looked at already, as often as there were
\* faults, and what is before it once less; a process that is down or past its
\* commit begins at the committed offset.
Before(n) == \A o \in Offsets : o >= n => looked[o] <= faults

Repeats ==
    /\ \A o \in Offsets : looked[o] <= 1 + faults
    /\ \A o \in Offsets : o > Len(topic) => looked[o] = 0
    /\ stage \in {"loop", "close_consumer"} => Before(position)
    /\ stage = "process_window" => Before(position - 1)
    /\ stage \in {"close_emitter", "down"} /\ committed # NoOffset => Before(committed)

LoopInv == TopicOK /\ OffsetsOK /\ LoopTypes /\ Repeats /\ NoEventLostAlone

-----------------------------------------------------------------------------
LEMMA LoopInvInit == LoopInit => LoopInv
<1> SUFFICES ASSUME LoopInit PROVE LoopInv
  OBVIOUS
<1> USE LoopConstants DEF LoopInit
<1>1. Len(topic) = 0 /\ topic \in Seq({})
  BY EmptySeq
<1>2. TopicOK
  BY <1>1 DEF TopicOK
<1>3. OffsetsOK
  BY <1>1 DEF OffsetsOK
<1>4. LoopTypes
  <2>1. 0 \in 0 .. MaxFaults
    OBVIOUS
  <2>2. looked \in [Offsets -> Nat]
    OBVIOUS
  <2>3. dropped \cup poisoned \cup missed \cup sent \cup settled \subseteq 1 .. Len(topic)
    OBVIOUS
  <2>4. window \in Nat \ {0}
    BY SMT DEF LoopInit
  <2>5. fired \in BOOLEAN /\ stop \in BOOLEAN
    BY Zenon
  <2>6. stage \in Stages /\ buffer \subseteq sent /\ faults \in 0 .. MaxFaults
    BY <2>1, Zenon DEF Stages
  <2> QED
    BY <2>2, <2>3, <2>4, <2>5, <2>6, Zenon DEF LoopTypes
<1>5. Repeats
  BY DEF Repeats, Before
<1>6. NoEventLostAlone
  BY DEF NoEventLostAlone
<1> QED
  BY <1>2, <1>3, <1>4, <1>5, <1>6 DEF LoopInv

LEMMA LoopInvTyped == LoopInv => HandoffTypeOK
BY DEF LoopInv, TopicOK, OffsetsOK, LoopTypes, HandoffTypeOK

\* What a write does to the topic: it grows at its end.
LEMMA WriteGrows ==
  ASSUME TopicOK, NEW records, NEW R, records \in Seq(R), Write(records)
  PROVE  /\ TopicOK'
         /\ Len(topic) <= Len(topic')
         /\ \A o \in 1 .. Len(topic) : topic'[o] = topic[o]
<1>1. PICK S : topic \in Seq(S)
  BY DEF TopicOK
<1>2. topic \in Seq(S \cup R) /\ records \in Seq(S \cup R)
  BY <1>1, SeqMonotonic
<1>3. Len(topic) \in Nat /\ Len(records) \in Nat
  BY <1>2, LenProperties
<1>4. /\ topic' \in Seq(S \cup R)
      /\ Len(topic') = Len(topic) + Len(records)
      /\ \A o \in 1 .. Len(topic) : topic'[o] = topic[o]
  BY <1>2, <1>3, ConcatProperties DEF Write
<1>5. Len(topic') <= MaxRecords
  BY <1>4 DEF Write
<1> QED
  BY <1>3, <1>4, <1>5, LoopConstants DEF TopicOK

\* A step of the stream processor: its window and the topic only.
LEMMA OperatorStep ==
  ASSUME TopicOK, LoopTypes, Operator
  PROVE  /\ TopicOK'
         /\ Len(topic) <= Len(topic')
         /\ \A o \in 1 .. Len(topic) : topic'[o] = topic[o]
         /\ window' \in Nat \ {0} /\ fired' \in BOOLEAN
         /\ UNCHANGED <<committed, processVars, faults, history>>
<1>1. CASE Fire
  <2>1. <<Aggregate(accumulator)>> \in Seq({Aggregate(accumulator)})
    OBVIOUS
  <2> QED
    BY <1>1, <2>1, WriteGrows DEF Fire, Write, LoopTypes
<1>2. CASE Clear
  <2>1. topic' = topic /\ window' = window + 1 /\ fired' = FALSE
        /\ UNCHANGED <<committed, processVars, faults, history>>
    BY <1>2, Zenon DEF Clear
  <2>2. TopicOK' /\ Len(topic) \in Nat
    BY <2>1 DEF TopicOK
  <2>3. Len(topic) <= Len(topic') /\ window' \in Nat \ {0}
    BY <2>1, <2>2, SMT DEF LoopTypes
  <2>4. fired' \in BOOLEAN /\ \A o \in 1 .. Len(topic) : topic'[o] = topic[o]
    BY <2>1, Zenon
  <2> QED
    BY <2>1, <2>2, <2>3, <2>4, Zenon
<1>3. ASSUME NEW e \in Traffic, AddInTime(e) PROVE Write(<<EventRecord>>) /\ UNCHANGED <<window, fired>>
  BY <1>3 DEF AddInTime
<1>4. ASSUME NEW e \in Traffic, AddLate(e)
      PROVE  Write(<<EventRecord, Aggregate(accumulator')>>) /\ UNCHANGED <<window, fired>>
  BY <1>4 DEF AddLate
<1>5. CASE \E e \in Traffic : AddInTime(e)
  <2>1. <<EventRecord>> \in Seq({EventRecord})
    OBVIOUS
  <2> QED
    BY <1>3, <1>5, <2>1, WriteGrows DEF Write, LoopTypes
<1>6. CASE \E e \in Traffic : AddLate(e)
  <2>1. <<EventRecord, Aggregate(accumulator')>> \in Seq({EventRecord, Aggregate(accumulator')})
    OBVIOUS
  <2> QED
    BY <1>4, <1>6, <2>1, WriteGrows DEF Write, LoopTypes
<1> QED
  BY <1>1, <1>2, <1>5, <1>6 DEF Operator

-----------------------------------------------------------------------------
LEMMA OperatorKeeps == ASSUME LoopInv, Operator PROVE LoopInv'
<1> USE DEF LoopInv
<1>1. /\ TopicOK' /\ Len(topic) <= Len(topic') /\ Len(topic) \in Nat /\ Len(topic') \in Nat
      /\ window' \in Nat \ {0} /\ fired' \in BOOLEAN
      /\ UNCHANGED <<committed, stage, stop, position, fetched, buffer, faults, looked, dropped,
                     poisoned, missed, sent, settled>>
  BY OperatorStep DEF processVars, history, TopicOK
<1>2. OffsetsOK'
  BY <1>1 DEF OffsetsOK
<1>3. LoopTypes'
  BY <1>1 DEF LoopTypes
<1>4. Repeats'
  BY <1>1 DEF Repeats, Before, Offsets
<1>5. NoEventLostAlone'
  BY <1>1 DEF NoEventLostAlone
<1> QED
  BY <1>1, <1>2, <1>3, <1>4, <1>5

LEMMA StartKeeps == ASSUME LoopInv, Start PROVE LoopInv'
<1> USE DEF LoopInv
<1>1. /\ stage = "down" /\ stage' = "loop" /\ stop' = FALSE
      /\ UNCHANGED <<window, fired, topic, committed, buffer, faults, looked, dropped, poisoned,
                     sent, settled>>
      /\ position' = IF committed = NoOffset THEN Len(topic) + 1 ELSE committed
      /\ missed' \in {missed, 1 .. Len(topic)}
      /\ fetched' = position' - 1
  BY DEF Start, windowVars
<1>2. TopicOK' /\ Len(topic) \in Nat
  BY <1>1 DEF TopicOK
<1>3. OffsetsOK'
  <2>1. position' \in Nat /\ 1 <= position' /\ position' <= Len(topic) + 1
    BY <1>1, <1>2 DEF OffsetsOK
  <2> QED
    BY <1>1, <1>2, <2>1 DEF OffsetsOK
<1>4. LoopTypes'
  BY <1>1, <1>2 DEF LoopTypes, Stages
<1>5. Repeats'
  <2>1. ASSUME NEW o \in Offsets, o >= position' PROVE looked[o] <= faults
    <3>1. CASE committed = NoOffset
      BY <1>1, <1>2, <2>1, <3>1 DEF Repeats, LoopTypes, Offsets
    <3>2. CASE committed # NoOffset
      BY <1>1, <2>1, <3>2 DEF Repeats, Before
    <3> QED
      BY <3>1, <3>2
  <2> QED
    BY <1>1, <2>1 DEF Repeats, Before
<1>6. NoEventLostAlone'
  BY <1>1 DEF NoEventLostAlone
<1> QED
  BY <1>2, <1>3, <1>4, <1>5, <1>6

LEMMA PollKeeps == ASSUME LoopInv, Poll PROVE LoopInv'
<1> USE DEF LoopInv
<1>1. /\ stage = "loop" /\ position > fetched
      /\ UNCHANGED <<window, fired, topic, stage, stop, position, buffer, faults, looked, dropped,
                     poisoned, missed, sent, settled>>
      /\ committed' \in {committed, position}
      /\ fetched' \in fetched .. Len(topic)
  BY DEF Poll, windowVars, history, Consumed
<1>2. TopicOK' /\ Len(topic) \in Nat
  BY <1>1 DEF TopicOK
<1>3. OffsetsOK'
  <2>1. /\ fetched' \in Nat /\ fetched <= fetched' /\ fetched' <= Len(topic)
        /\ position \in Nat /\ 1 <= position /\ position <= fetched + 1 /\ fetched \in Nat
    BY <1>1, <1>2 DEF OffsetsOK
  <2>2. /\ committed' \in {NoOffset} \cup Nat
        /\ committed' # NoOffset =>
              1 <= committed' /\ committed' <= Len(topic) + 1 /\ committed' <= position
    BY <1>1, <1>2, <2>1 DEF OffsetsOK
  <2>3. position <= fetched' + 1
    <3>1. \A a, b, c \in Nat : a <= b + 1 /\ b <= c => a <= c + 1
      OBVIOUS
    <3> QED
      BY <2>1, <3>1, Zenon
  <2>4. position' = position /\ topic' = topic /\ stage' = stage /\ stage = "loop"
    BY <1>1
  <2> QED
    BY <2>1, <2>2, <2>3, <2>4 DEF OffsetsOK
<1>4. LoopTypes'
  BY <1>1 DEF LoopTypes
<1>5. Repeats'
  BY <1>1 DEF Repeats, Before
<1>6. NoEventLostAlone'
  BY <1>1 DEF NoEventLostAlone
<1> QED
  BY <1>2, <1>3, <1>4, <1>5, <1>6

LEMMA TakeKeeps == ASSUME LoopInv, Take PROVE LoopInv'
<1> USE DEF LoopInv
<1>1. /\ stage = "loop" /\ position <= fetched /\ position' = position + 1
      /\ stage' \in {"loop", "process_window", "close_consumer"}
      /\ dropped' \in {dropped, dropped \cup {position}}
      /\ poisoned' \in {poisoned, poisoned \cup {position}}
      /\ UNCHANGED <<window, fired, topic, committed, stop, fetched, buffer, faults, looked,
                     missed, sent, settled>>
  BY DEF Take, windowVars
<1>2. TopicOK' /\ Len(topic) \in Nat
  BY <1>1 DEF TopicOK
<1>3. OffsetsOK'
  BY <1>1, <1>2, LoopConstants DEF OffsetsOK
<1>4. LoopTypes'
  <2>1. position \in 1 .. Len(topic)
    BY <1>1, <1>2 DEF OffsetsOK
  <2> QED
    BY <1>1, <2>1 DEF LoopTypes, Stages
<1>5. Repeats'
  BY <1>1 DEF Repeats, Before, OffsetsOK, Offsets
<1>6. NoEventLostAlone'
  BY <1>1 DEF NoEventLostAlone
<1> QED
  BY <1>2, <1>3, <1>4, <1>5, <1>6

LEMMA ProcessKeeps == ASSUME LoopInv, ProcessWindow PROVE LoopInv'
<1> USE DEF LoopInv
<1> DEFINE o == position - 1
<1>1. /\ stage = "process_window" /\ stage' = "loop"
      /\ looked' = [looked EXCEPT ![o] = @ + 1]
      /\ \/ UNCHANGED <<buffer, sent>>
         \/ buffer' = buffer \cup {o} /\ sent' = sent \cup {o}
      /\ UNCHANGED <<window, fired, topic, committed, stop, position, fetched, faults, dropped,
                     poisoned, missed, settled>>
  BY DEF ProcessWindow, windowVars
<1>2. TopicOK' /\ Len(topic) \in Nat /\ Len(topic) <= MaxRecords /\ MaxRecords \in Nat
  BY <1>1, LoopConstants DEF TopicOK
<1>3. OffsetsOK'
  BY <1>1, <1>2 DEF OffsetsOK
<1>4. o \in 1 .. Len(topic) /\ o \in Offsets /\ position \in Nat /\ faults \in Nat
  BY <1>1, <1>2 DEF OffsetsOK, Offsets, LoopTypes
<1> HIDE DEF o
<1>5. LoopTypes'
  BY <1>1, <1>4 DEF LoopTypes, Stages
<1>6. Repeats'
  <2>1. o = position - 1
    BY DEF o
  <2>2. looked[o] \in Nat /\ looked[o] <= faults
    BY <1>1, <1>4, <2>1 DEF Repeats, Before, LoopTypes
  <2>3. looked'[o] = looked[o] + 1 /\ \A p \in Offsets : p # o => looked'[p] = looked[p]
    BY <1>1, <1>4 DEF LoopTypes
  <2>4. \A p \in Offsets : looked'[p] <= 1 + faults
    BY <2>2, <2>3, <1>4 DEF Repeats
  <2>5. \A p \in Offsets : p > Len(topic) => looked'[p] = 0
    BY <1>4, <1>2, <2>3 DEF Repeats, Offsets
  <2>6. \A p \in Offsets : p >= position => looked'[p] <= faults
    BY <1>1, <1>4, <2>1, <2>3 DEF Repeats, Before, Offsets
  <2> QED
    BY <1>1, <2>4, <2>5, <2>6 DEF Repeats, Before
<1>7. NoEventLostAlone'
  BY <1>1 DEF NoEventLostAlone
<1> QED
  BY <1>2, <1>3, <1>5, <1>6, <1>7

\* The steps that end the process, and the producer's thread.
LEMMA EndKeeps ==
  ASSUME LoopInv, \/ CloseConsumer \/ CloseEmitter \/ Signal \/ Kill
                  \/ \E o \in Offsets : Deliver(o)
  PROVE  LoopInv'
<1> USE DEF LoopInv
<1>1. /\ UNCHANGED <<window, fired, topic, position, fetched, looked, dropped, poisoned, missed,
                     sent>>
      /\ stop' \in {stop, TRUE}
      /\ stage # "down" \/ (stage' = stage /\ UNCHANGED <<committed, faults>>)
  <2>1. CASE CloseConsumer \/ CloseEmitter \/ Signal \/ Kill
    BY <2>1 DEF CloseConsumer, CloseEmitter, Signal, Kill, windowVars, history
  <2>2. CASE \E o \in Offsets : Deliver(o)
    BY <2>2 DEF Deliver, windowVars
  <2> QED
    BY <2>1, <2>2
<1>2. \/ stage' = stage /\ committed' = committed /\ faults' = faults
      \/ /\ stage = "close_consumer" /\ stage' = "close_emitter"
         /\ committed' = position /\ faults' = faults
      \/ /\ stage = "close_emitter" /\ stage' = "down"
         /\ committed' = committed /\ faults' = faults
      \/ /\ stage # "down" /\ stage' \in {"close_emitter", "down"} /\ committed' = committed
         /\ faults' = faults + 1 /\ faults < MaxFaults
  <2>1. CASE CloseConsumer
    BY <2>1 DEF CloseConsumer, Consumed, Fault
  <2>2. CASE CloseEmitter \/ Signal \/ Kill
    BY <2>2 DEF CloseEmitter, Signal, Kill, Fault
  <2>3. CASE \E o \in Offsets : Deliver(o)
    BY <2>3 DEF Deliver
  <2> QED
    BY <2>1, <2>2, <2>3
<1>3. TopicOK' /\ Len(topic) \in Nat /\ faults \in Nat /\ MaxFaults \in Nat
  BY <1>1, LoopConstants DEF TopicOK, LoopTypes
<1>4. OffsetsOK'
  BY <1>1, <1>2, <1>3 DEF OffsetsOK
<1>5. /\ buffer' \subseteq buffer
      /\ settled' \subseteq settled \cup buffer
      /\ sent \ settled' \subseteq buffer'
      /\ stage' = "down" => buffer' = {}
  <2>1. CASE CloseConsumer \/ Signal
    BY <2>1 DEF CloseConsumer, Signal, history, NoEventLostAlone
  <2>2. CASE CloseEmitter
    BY <2>2 DEF CloseEmitter, Flushed, history, NoEventLostAlone
  <2>3. CASE Kill
    BY <2>3 DEF Kill, NoEventLostAlone
  <2>4. CASE \E o \in Offsets : Deliver(o)
    BY <2>4 DEF Deliver, NoEventLostAlone
  <2> QED
    BY <2>1, <2>2, <2>3, <2>4
<1>6. LoopTypes'
  <2>1. faults' \in 0 .. MaxFaults
    BY <1>2, <1>3 DEF LoopTypes
  <2>2. stage' \in Stages
    BY <1>2 DEF LoopTypes, Stages
  <2> QED
    BY <1>1, <1>5, <2>1, <2>2 DEF LoopTypes
<1>7. Repeats'
  <2>1. CASE faults' = faults
    BY <1>1, <1>2, <1>3, <2>1 DEF Repeats, Before
  <2>2. CASE faults' = faults + 1 /\ stage' \in {"close_emitter", "down"}
    <3>1. \A o \in Offsets : looked'[o] <= faults' /\ looked'[o] <= 1 + faults'
      BY <1>1, <1>3, <2>2 DEF Repeats, LoopTypes
    <3>2. \A o \in Offsets : o > Len(topic') => looked'[o] = 0
      BY <1>1 DEF Repeats
    <3> QED
      BY <2>2, <3>1, <3>2 DEF Repeats, Before
  <2> QED
    BY <1>2, <2>1, <2>2
<1>8. NoEventLostAlone'
  BY <1>1, <1>5 DEF NoEventLostAlone
<1> QED
  BY <1>3, <1>4, <1>6, <1>7, <1>8

LEMMA LoopInvStep == LoopInv /\ [LoopNext]_loopVars => LoopInv'
<1> SUFFICES ASSUME LoopInv, [LoopNext]_loopVars PROVE LoopInv'
  OBVIOUS
<1>1. CASE UNCHANGED loopVars
  <2>1. UNCHANGED <<window, fired, topic, committed, stage, stop, position, fetched, buffer,
                    faults, looked, dropped, poisoned, missed, sent, settled>>
    BY <1>1 DEF loopVars, windowVars, processVars, history
  <2> QED
    BY <2>1 DEF LoopInv, TopicOK, OffsetsOK, LoopTypes, Repeats, Before, NoEventLostAlone
<1>2. CASE LoopNext
  BY <1>2, OperatorKeeps, StartKeeps, PollKeeps, TakeKeeps, ProcessKeeps, EndKeeps
     DEF LoopNext, Main
<1> QED
  BY <1>1, <1>2

\* Type correctness, and the order of the offsets.
THEOREM LoopTypeCorrect == LoopSpec => []HandoffTypeOK
BY LoopInvInit, LoopInvStep, LoopInvTyped, PTL DEF LoopSpec

\* A window goes through the detector, and into its baselines, once more for
\* each kill and each commit that failed, and for nothing else.
THEOREM RepeatsAreFaults == LoopSpec => []RepeatsAreExplained
<1>1. LoopInv => RepeatsAreExplained
  BY DEF LoopInv, Repeats, RepeatsAreExplained
<1> QED
  BY <1>1, LoopInvInit, LoopInvStep, PTL DEF LoopSpec

\* An event leaves the producer's buffer by the broker's answer or a kill.
THEOREM EventsAreSettled == LoopSpec => []NoEventLostAlone
<1>1. LoopInv => NoEventLostAlone
  BY DEF LoopInv
<1> QED
  BY <1>1, LoopInvInit, LoopInvStep, PTL DEF LoopSpec

-----------------------------------------------------------------------------
\* Recognised windows are accounted for as far as the position, or the one before
\* it while it is in hand.
AccountedTo(n) ==
    \A o \in Recognised : o < n => Looked(o) \/ o \in dropped \cup poisoned \cup missed

Accounted ==
    /\ committed # NoOffset => AccountedTo(committed)
    /\ stage \in {"loop", "close_consumer"} => AccountedTo(position)
    /\ stage = "process_window" => AccountedTo(position - 1)

LEMMA AccountedStep ==
  ASSUME LoopInv, LoopInv', Accounted, [LoopNext]_loopVars
  PROVE  Accounted'
<1> USE DEF Accounted, AccountedTo, Looked
<1>1. /\ TopicOK /\ OffsetsOK /\ LoopTypes /\ OffsetsOK' /\ LoopTypes'
      /\ DOMAIN topic = 1 .. Len(topic) /\ Len(topic) \in Nat
  BY LenProperties DEF LoopInv, TopicOK
<1>2. CASE Operator
  <2>1. /\ \A o \in 1 .. Len(topic) : topic'[o] = topic[o]
        /\ UNCHANGED <<committed, stage, position, looked, dropped, poisoned, missed>>
    BY <1>1, <1>2, OperatorStep DEF processVars, history
  <2>2. DOMAIN topic' = 1 .. Len(topic') /\ Len(topic') \in Nat
    BY LenProperties DEF LoopInv, TopicOK
  <2>3. \A o \in Recognised' : o <= Len(topic) => o \in Recognised
    BY <1>1, <2>1, <2>2 DEF Recognised
  <2>4. \A o \in Recognised' : o \in Nat
    BY <2>2 DEF Recognised
  <2>5. /\ committed # NoOffset => committed \in Nat /\ committed <= Len(topic) + 1
        /\ position \in Nat /\ position <= Len(topic) + 1
    BY <1>1 DEF OffsetsOK
  <2>6. \A o \in Recognised' : /\ committed # NoOffset /\ o < committed => o \in Recognised
                               /\ o < position => o \in Recognised
                               /\ o < position - 1 => o \in Recognised
    BY <1>1, <2>3, <2>4, <2>5
  <2> QED
    BY <2>1, <2>6
<1>3. CASE Start
  <2>1. /\ stage' = "loop" /\ UNCHANGED <<topic, committed, looked, dropped, poisoned>>
        /\ \/ committed = NoOffset /\ missed' = 1 .. Len(topic)
           \/ committed # NoOffset /\ position' = committed /\ missed' = missed
    BY <1>3 DEF Start
  <2>2. Recognised' = Recognised /\ Recognised \subseteq 1 .. Len(topic)
    BY <1>1, <2>1 DEF Recognised
  <2> QED
    BY <2>1, <2>2
<1>4. CASE Poll
  <2>1. /\ stage = "loop" /\ committed' \in {committed, position}
        /\ UNCHANGED <<topic, stage, position, looked, dropped, poisoned, missed>>
    BY <1>4 DEF Poll, Consumed, history
  <2>2. Recognised' = Recognised
    BY <2>1 DEF Recognised
  <2> QED
    BY <2>1, <2>2
<1>5. CASE Take
  <2>1. /\ stage = "loop" /\ position' = position + 1 /\ position \in Nat
        /\ UNCHANGED <<topic, committed, looked, missed>>
        /\ stage' \in {"loop", "process_window", "close_consumer"}
    BY <1>1, <1>5 DEF Take, OffsetsOK
  <2>2. dropped \subseteq dropped' /\ poisoned \subseteq poisoned'
    BY <1>5 DEF Take
  <2>3. Recognised' = Recognised /\ Recognised \subseteq 1 .. Len(topic)
    BY <1>1, <2>1 DEF Recognised
  <2>4. stage' # "process_window" =>
           position \notin Recognised \/ position \in dropped' \cup poisoned'
    BY <1>5 DEF Take, Recognised
  <2>5. \A o \in Recognised : o < position => Looked(o) \/ o \in dropped' \cup poisoned' \cup missed
    BY <2>1, <2>2
  <2>6. \A o \in Recognised : o < position + 1 => o < position \/ o = position
    BY <1>1, <2>1, <2>3
  <2>7. (committed # NoOffset => AccountedTo(committed))'
    BY <2>1, <2>2, <2>3
  <2>8. (stage = "process_window" => AccountedTo(position - 1))'
    BY <2>1, <2>3, <2>5
  <2>9. (stage \in {"loop", "close_consumer"} => AccountedTo(position))'
    BY <2>1, <2>3, <2>4, <2>5, <2>6
  <2> QED
    BY <2>7, <2>8, <2>9
<1>6. CASE ProcessWindow
  <2>1. /\ stage' = "loop" /\ stage = "process_window"
        /\ looked' = [looked EXCEPT ![position - 1] = @ + 1]
        /\ UNCHANGED <<topic, committed, position, dropped, poisoned, missed>>
    BY <1>6 DEF ProcessWindow
  <2>2. Recognised' = Recognised /\ Recognised \subseteq 1 .. Len(topic)
    BY <1>1, <2>1 DEF Recognised
  <2>3. position - 1 \in Offsets /\ position \in Nat
    BY <1>1, <2>1, LoopConstants DEF OffsetsOK, Offsets, LoopTypes, TopicOK
  <2>4. \A o \in Offsets : Looked(o) \/ o = position - 1 => looked'[o] > 0
    BY <1>1, <2>1, <2>3 DEF LoopTypes
  <2>5. Recognised \subseteq Offsets
    BY <1>1, <2>2, LoopConstants DEF TopicOK, Offsets
  <2>6. \A o \in Recognised : o < position => o < position - 1 \/ o = position - 1
    BY <2>2, <2>3, <1>1
  <2>7. \A o \in Recognised : Looked(o) => Looked(o)'
    BY <2>4, <2>5
  <2>8. (committed # NoOffset => AccountedTo(committed))'
    BY <2>1, <2>2, <2>7
  <2>9. AccountedTo(position)'
    BY <2>1, <2>2, <2>4, <2>5, <2>6
  <2> QED
    BY <2>1, <2>8, <2>9
<1>7. CASE CloseConsumer \/ CloseEmitter \/ Signal \/ Kill \/ \E o \in Offsets : Deliver(o)
  <2>1. /\ UNCHANGED <<topic, position, looked, dropped, poisoned, missed>>
        /\ \/ stage' = stage /\ committed' = committed
           \/ /\ stage' \notin {"loop", "process_window", "close_consumer"}
              /\ committed' = committed \/ (stage = "close_consumer" /\ committed' = position)
    <3>1. CASE CloseConsumer \/ CloseEmitter \/ Signal \/ Kill
      BY <3>1 DEF CloseConsumer, CloseEmitter, Signal, Kill, Consumed, history
    <3>2. CASE \E o \in Offsets : Deliver(o)
      BY <3>2 DEF Deliver
    <3> QED
      BY <1>7, <3>1, <3>2
  <2>2. Recognised' = Recognised
    BY <2>1 DEF Recognised
  <2> QED
    BY <2>1, <2>2
<1>8. CASE UNCHANGED loopVars
  <2>1. UNCHANGED <<topic, committed, stage, position, looked, dropped, poisoned, missed>>
    BY <1>8 DEF loopVars, processVars, history
  <2>2. Recognised' = Recognised
    BY <2>1 DEF Recognised
  <2> QED
    BY <2>1, <2>2
<1> QED
  BY <1>2, <1>3, <1>4, <1>5, <1>6, <1>7, <1>8 DEF LoopNext, Main

\* What is in hand is a recognised window, and so is all that was looked at.
OnlyRecognised ==
    /\ \A o \in Offsets : Looked(o) => o \in Recognised
    /\ stage = "process_window" => position - 1 \in Recognised

LEMMA OnlyRecognisedStep ==
  ASSUME LoopInv, LoopInv', OnlyRecognised, [LoopNext]_loopVars
  PROVE  OnlyRecognised'
<1> USE DEF OnlyRecognised, Looked
<1>1. /\ TopicOK /\ OffsetsOK /\ LoopTypes
      /\ DOMAIN topic = 1 .. Len(topic) /\ Len(topic) \in Nat
      /\ DOMAIN topic' = 1 .. Len(topic') /\ Len(topic') \in Nat
  BY LenProperties DEF LoopInv, TopicOK
<1>2. CASE Operator
  <2>1. /\ \A o \in 1 .. Len(topic) : topic'[o] = topic[o]
        /\ Len(topic) <= Len(topic')
        /\ UNCHANGED <<stage, position, looked>>
    BY <1>1, <1>2, OperatorStep DEF processVars, history
  <2>2. Recognised \subseteq Recognised'
    BY <1>1, <2>1 DEF Recognised
  <2> QED
    BY <2>1, <2>2
<1>3. CASE Take
  <2>1. /\ position' = position + 1 /\ position \in Nat /\ position <= Len(topic)
        /\ UNCHANGED <<topic, looked>>
        /\ stage' = "process_window" => IsWindow(topic[position])
    BY <1>1, <1>3 DEF Take, OffsetsOK
  <2>2. Recognised' = Recognised
    BY <2>1 DEF Recognised
  <2>3. stage' = "process_window" => position \in Recognised
    BY <1>1, <2>1 DEF Recognised, OffsetsOK
  <2> QED
    BY <2>1, <2>2, <2>3
<1>4. CASE ProcessWindow
  <2>1. /\ stage' = "loop" /\ stage = "process_window"
        /\ looked' = [looked EXCEPT ![position - 1] = @ + 1]
        /\ UNCHANGED topic
    BY <1>4 DEF ProcessWindow
  <2>2. Recognised' = Recognised
    BY <2>1 DEF Recognised
  <2>3. \A o \in Offsets : looked'[o] > 0 => Looked(o) \/ o = position - 1
    BY <1>1, <2>1 DEF LoopTypes
  <2> QED
    BY <2>1, <2>2, <2>3
<1>5. CASE Start \/ Poll \/ CloseConsumer \/ CloseEmitter \/ Signal \/ Kill
           \/ (\E o \in Offsets : Deliver(o)) \/ UNCHANGED loopVars
  <2>1. /\ UNCHANGED <<topic, looked>>
        /\ stage' # "process_window" \/ (stage' = stage /\ position' = position)
    <3>1. CASE Start \/ Poll \/ CloseConsumer \/ CloseEmitter \/ Signal \/ Kill
      BY <3>1 DEF Start, Poll, CloseConsumer, CloseEmitter, Signal, Kill, history
    <3>2. CASE \E o \in Offsets : Deliver(o)
      BY <3>2 DEF Deliver
    <3>3. CASE UNCHANGED loopVars
      BY <3>3 DEF loopVars, processVars, history
    <3> QED
      BY <1>5, <3>1, <3>2, <3>3
  <2>2. Recognised' = Recognised
    BY <2>1 DEF Recognised
  <2> QED
    BY <2>1, <2>2
<1> QED
  BY <1>2, <1>3, <1>4, <1>5 DEF LoopNext, Main

LEMMA NoWindowYet == LoopInit => Accounted /\ OnlyRecognised
BY DEF LoopInit, Accounted, OnlyRecognised, Looked

\* Whatever name the aggregates carry their type under: what is looked at was
\* recognised, and nothing recognised is committed unseen.
THEOREM CommittedWasLookedAt ==
  LoopSpec => [](CommittedIsLookedAt /\ \A o \in Offsets : Looked(o) => o \in Recognised)
<1>1. LoopInv /\ LoopInv' /\ Accounted /\ [LoopNext]_loopVars => Accounted'
  BY AccountedStep
<1>2. LoopInv /\ LoopInv' /\ OnlyRecognised /\ [LoopNext]_loopVars => OnlyRecognised'
  BY OnlyRecognisedStep
<1>3. Accounted /\ OnlyRecognised
        => CommittedIsLookedAt /\ \A o \in Offsets : Looked(o) => o \in Recognised
  BY DEF Accounted, AccountedTo, CommittedIsLookedAt, OnlyRecognised
<1> QED
  BY <1>1, <1>2, <1>3, NoWindowYet, LoopInvInit, LoopInvStep, PTL DEF LoopSpec

\* What the code does: the serializer writes the type as recordType, main() looks
\* under RECORD_TYPE, and no record is ever given to process_window.
THEOREM NoWindowIsSeen ==
  TypeField = "recordType" => (LoopSpec => [](\A o \in Offsets : looked[o] = 0))
<1> SUFFICES ASSUME TypeField = "recordType"
             PROVE  LoopSpec => [](\A o \in Offsets : looked[o] = 0)
  OBVIOUS
<1>1. LoopInv /\ LoopInv' /\ OnlyRecognised /\ [LoopNext]_loopVars => OnlyRecognised'
  BY OnlyRecognisedStep
<1>2. Recognised = {}
  BY DEF Recognised, IsWindow
<1>3. LoopInv /\ OnlyRecognised => \A o \in Offsets : looked[o] = 0
  BY <1>2 DEF OnlyRecognised, Looked, LoopInv, LoopTypes
<1> QED
  BY <1>1, <1>3, NoWindowYet, LoopInvInit, LoopInvStep, PTL DEF LoopSpec

-----------------------------------------------------------------------------
(* What a window reports, for every stream of events it may be given.  What  *)
(* holds of an empty accumulator, and is passed on by Add, holds of what any *)
(* stream leaves: the least place where it would fail has one before it.     *)

LEMMA LeastNat ==
  ASSUME NEW T \in SUBSET Nat, T # {} PROVE \E n \in T : \A m \in T : n <= m
<1> DEFINE R == {ss \in Nat \X Nat : ss[1] < ss[2]}
<1>1. IsWellFoundedOn(R, Nat)
  BY NatLessThanWellFounded DEF OpToRel
<1> HIDE DEF R
<1>2. PICK n \in T : \A m \in T : <<m, n>> \notin R
  BY <1>1, WFMin
<1>3. \A m \in T : ~(m < n)
  BY <1>2 DEF R
<1> QED
  BY <1>3

\* The accumulators after each of the first n events.
IsAfter(f, stream, n) ==
    f = [k \in 0 .. n |-> IF k = 0 THEN {EmptyAccumulator}
                          ELSE UNION {Add(acc, stream[k]) : acc \in f[k - 1]}]

LEMMA AfterExists ==
  ASSUME NEW stream, NEW n \in Nat PROVE \E f : IsAfter(f, stream, n)
<1> DEFINE Bad == {k \in Nat : ~ \E f : IsAfter(f, stream, k)}
<1>1. SUFFICES ASSUME Bad # {} PROVE FALSE
  OBVIOUS
<1>2. PICK k \in Bad : \A j \in Bad : k <= j
  BY <1>1, LeastNat
<1>3. k \in Nat
  OBVIOUS
<1>4. CASE k = 0
  <2> DEFINE f == [i \in 0 .. 0 |-> {EmptyAccumulator}]
  <2>1. f = [i \in 0 .. 0 |-> IF i = 0 THEN {EmptyAccumulator}
                              ELSE UNION {Add(acc, stream[i]) : acc \in f[i - 1]}]
    OBVIOUS
  <2> QED
    BY <1>4, <2>1 DEF IsAfter
<1>5. CASE k # 0
  <2>1. k - 1 \in Nat /\ k - 1 \notin Bad
    BY <1>2, <1>3, <1>5
  <2>2. PICK f : IsAfter(f, stream, k - 1)
    BY <2>1
  <2> DEFINE last == UNION {Add(acc, stream[k]) : acc \in f[k - 1]}
  <2> DEFINE g == [i \in 0 .. k |-> IF i = k THEN last ELSE f[i]]
  <2>3. ASSUME NEW i \in 0 .. k
        PROVE  (IF i = k THEN last ELSE f[i])
                 = IF i = 0 THEN {EmptyAccumulator}
                   ELSE UNION {Add(acc, stream[i]) : acc \in g[i - 1]}
    <3>1. CASE i = k
      <4>1. g[k - 1] = f[k - 1]
        BY <1>3, <1>5
      <4> QED
        BY <1>5, <3>1, <4>1
    <3>2. CASE i # k
      <4>1. i \in 0 .. k - 1
        BY <1>3, <3>2
      <4>2. f[i] = IF i = 0 THEN {EmptyAccumulator}
                   ELSE UNION {Add(acc, stream[i]) : acc \in f[i - 1]}
        BY <2>2, <4>1, Zenon DEF IsAfter
      <4>3. i # 0 => g[i - 1] = f[i - 1]
        BY <1>3, <4>1
      <4> QED
        BY <3>2, <4>2, <4>3
    <3> QED
      BY <3>1, <3>2
  <2>4. g = [i \in 0 .. k |-> IF i = 0 THEN {EmptyAccumulator}
                              ELSE UNION {Add(acc, stream[i]) : acc \in g[i - 1]}]
    BY <2>3, Zenon
  <2>5. IsAfter(g, stream, k)
    BY <2>4 DEF IsAfter
  <2> QED
    BY <2>5
<1> QED
  BY <1>4, <1>5

LEMMA AfterUnfolds ==
  ASSUME NEW stream, Len(stream) \in Nat
  PROVE  \E f : IsAfter(f, stream, Len(stream)) /\ After(stream) = f[Len(stream)]
<1> DEFINE after == CHOOSE f : IsAfter(f, stream, Len(stream))
<1>1. IsAfter(after, stream, Len(stream))
  BY AfterExists
<1>2. After(stream) = after[Len(stream)]
  BY DEF After, IsAfter
<1> QED
  BY <1>1, <1>2

\* The milliseconds after each of the first n events.
IsTotal(f, stream, n) ==
    f = [k \in 0 .. n |-> IF k = 0 THEN 0
                          ELSE f[k - 1] + (IF k \in HasLatency(stream) THEN stream[k].latency ELSE 0)]

LEMMA TotalExists ==
  ASSUME NEW stream, NEW n \in Nat PROVE \E f : IsTotal(f, stream, n)
<1> DEFINE Bad == {k \in Nat : ~ \E f : IsTotal(f, stream, k)}
<1> DEFINE taken(k) == IF k \in HasLatency(stream) THEN stream[k].latency ELSE 0
<1>1. SUFFICES ASSUME Bad # {} PROVE FALSE
  OBVIOUS
<1>2. PICK k \in Bad : \A j \in Bad : k <= j
  BY <1>1, LeastNat
<1>3. k \in Nat
  OBVIOUS
<1>4. CASE k = 0
  <2> DEFINE f == [i \in 0 .. 0 |-> 0]
  <2>1. f = [i \in 0 .. 0 |-> IF i = 0 THEN 0 ELSE f[i - 1] + taken(i)]
    OBVIOUS
  <2> QED
    BY <1>4, <2>1 DEF IsTotal
<1>5. CASE k # 0
  <2>1. k - 1 \in Nat /\ k - 1 \notin Bad
    BY <1>2, <1>3, <1>5
  <2>2. PICK f : IsTotal(f, stream, k - 1)
    BY <2>1
  <2> DEFINE g == [i \in 0 .. k |-> IF i = k THEN f[k - 1] + taken(k) ELSE f[i]]
  <2>3. ASSUME NEW i \in 0 .. k
        PROVE  (IF i = k THEN f[k - 1] + taken(k) ELSE f[i])
                 = IF i = 0 THEN 0 ELSE g[i - 1] + taken(i)
    <3> HIDE DEF taken
    <3>1. CASE i = k
      <4>1. g[k - 1] = f[k - 1]
        BY <1>3, <1>5
      <4> QED
        BY <1>5, <3>1, <4>1
    <3>2. CASE i # k
      <4>1. i \in 0 .. k - 1
        BY <1>3, <3>2
      <4>2. f[i] = IF i = 0 THEN 0 ELSE f[i - 1] + taken(i)
        BY <2>2, <4>1, Zenon DEF IsTotal, taken
      <4>3. i # 0 => g[i - 1] = f[i - 1]
        BY <1>3, <4>1
      <4> QED
        BY <3>2, <4>2, <4>3
    <3> QED
      BY <3>1, <3>2
  <2>4. g = [i \in 0 .. k |-> IF i = 0 THEN 0 ELSE g[i - 1] + taken(i)]
    BY <2>3, Zenon
  <2>5. IsTotal(g, stream, k)
    BY <2>4 DEF IsTotal
  <2> QED
    BY <2>5
<1> QED
  BY <1>4, <1>5

LEMMA TotalUnfolds ==
  ASSUME NEW stream, Len(stream) \in Nat
  PROVE  \E f : IsTotal(f, stream, Len(stream)) /\ TotalLatency(stream) = f[Len(stream)]
<1> DEFINE total == CHOOSE f : IsTotal(f, stream, Len(stream))
<1>1. IsTotal(total, stream, Len(stream))
  BY TotalExists
<1>2. TotalLatency(stream) = total[Len(stream)]
  BY DEF TotalLatency, IsTotal
<1> QED
  BY <1>1, <1>2

-----------------------------------------------------------------------------
\* What one event does to an accumulator, its error messages and its latencies
\* apart.

Counters == UNION {[D -> Nat] : D \in SUBSET Messages}

Accumulators ==
    [total : Nat, errors : Nat, warnings : Nat, latencySum : Int, seen : Nat,
     samples : Seq(Latencies), counts : Counters]

Bumped(counts, message) ==
    [m \in DOMAIN counts \cup {message} |->
        (IF m \in DOMAIN counts THEN counts[m] ELSE 0) + (IF m = message THEN 1 ELSE 0)]

Merged(old, new, message) ==
    \/ message = Blank /\ new = old
    \/ /\ message # Blank
       /\ \/ ~Overfull(Bumped(old, message)) /\ new = Bumped(old, message)
          \/ /\ Overfull(Bumped(old, message))
             /\ \E r \in DOMAIN Bumped(old, message) :
                    new = [m \in DOMAIN Bumped(old, message) \ {r} |-> Bumped(old, message)[m]]

CountsAfter(old, new, event) ==
    IF event.level = "error" THEN Merged(old, new, event.message) ELSE new = old

LatenciesAfter(a, b, event) ==
    \/ event.latency = NoLatency /\ b.samples = a.samples /\ b.seen = a.seen /\ b.latencySum = a.latencySum
    \/ /\ event.latency # NoLatency
       /\ b.seen = a.seen + 1 /\ b.latencySum = a.latencySum + event.latency
       /\ \/ Len(a.samples) < MaxSamples /\ b.samples = Append(a.samples, event.latency)
          \/ /\ ~(Len(a.samples) < MaxSamples)
             /\ \/ b.samples = a.samples
                \/ \E i \in 1 .. MaxSamples : b.samples = [a.samples EXCEPT ![i] = event.latency]

LEMMA BumpedTyped ==
  ASSUME NEW counts \in Counters, NEW message \in Messages
  PROVE  /\ Bumped(counts, message) \in Counters
         /\ DOMAIN Bumped(counts, message) = DOMAIN counts \cup {message}
         /\ \A m \in DOMAIN counts \cup {message} : Bumped(counts, message)[m] \in Nat
<1>1. PICK D \in SUBSET Messages : counts \in [D -> Nat]
  BY DEF Counters
<1>2. Bumped(counts, message) \in [D \cup {message} -> Nat]
  BY <1>1 DEF Bumped
<1> QED
  BY <1>1, <1>2 DEF Counters

LEMMA AccumulatorFields ==
  ASSUME NEW acc \in Accumulators
  PROVE  /\ acc.total \in Nat /\ acc.errors \in Nat /\ acc.warnings \in Nat
         /\ acc.latencySum \in Int /\ acc.seen \in Nat
         /\ acc.samples \in Seq(Latencies) /\ acc.counts \in Counters
BY DEF Accumulators

LEMMA VolumeSet ==
  ASSUME NEW acc \in Accumulators, NEW x \in Nat, NEW b,
         \/ b = [acc EXCEPT !.total = x]
         \/ b = [acc EXCEPT !.errors = x]
         \/ b = [acc EXCEPT !.warnings = x]
  PROVE  /\ b \in Accumulators
         /\ b.latencySum = acc.latencySum /\ b.seen = acc.seen
         /\ b.samples = acc.samples /\ b.counts = acc.counts
<1>1. CASE b = [acc EXCEPT !.total = x]
  BY <1>1 DEF Accumulators
<1>2. CASE b = [acc EXCEPT !.errors = x]
  BY <1>2 DEF Accumulators
<1>3. CASE b = [acc EXCEPT !.warnings = x]
  BY <1>3 DEF Accumulators
<1> QED
  BY <1>1, <1>2, <1>3

LEMMA ErrorMessageAdded ==
  ASSUME NEW acc \in Accumulators, NEW message \in Messages \cup {Blank},
         NEW b \in AddErrorMessage(acc, message)
  PROVE  /\ b \in Accumulators
         /\ b.samples = acc.samples /\ b.seen = acc.seen /\ b.latencySum = acc.latencySum
         /\ Merged(acc.counts, b.counts, message)
<1> DEFINE c == Bumped(acc.counts, message)
<1>1. CASE message = Blank
  BY <1>1 DEF AddErrorMessage, Merged
<1>2. CASE message # Blank
  <2>1. message \in Messages /\ acc.counts \in Counters
    BY <1>2 DEF Accumulators
  <2>2. c \in Counters /\ DOMAIN c = DOMAIN acc.counts \cup {message} /\ DOMAIN c \subseteq Messages
        /\ \A m \in DOMAIN c : c[m] \in Nat
    <3>1. c \in Counters /\ DOMAIN c = DOMAIN acc.counts \cup {message}
          /\ \A m \in DOMAIN c : c[m] \in Nat
      BY <2>1, BumpedTyped
    <3> HIDE DEF c
    <3> QED
      BY <3>1 DEF Counters
  <2>3. AddErrorMessage(acc, message)
          = IF Overfull(c)
            THEN {[acc EXCEPT !.counts = [m \in DOMAIN c \ {r} |-> c[m]]] : r \in Rarest(c)}
            ELSE {[acc EXCEPT !.counts = c]}
    BY <1>2, Zenon DEF AddErrorMessage, Bumped
  <2> HIDE DEF c
  <2>4. PICK new : /\ b = [acc EXCEPT !.counts = new]
                   /\ \/ ~Overfull(c) /\ new = c
                      \/ Overfull(c) /\ \E r \in DOMAIN c : new = [m \in DOMAIN c \ {r} |-> c[m]]
    BY <2>3 DEF Rarest
  <2>5. new \in Counters
    <3>1. CASE new = c
      BY <2>2, <3>1
    <3>2. ASSUME NEW r \in DOMAIN c, new = [m \in DOMAIN c \ {r} |-> c[m]] PROVE new \in Counters
      <4>1. new \in [DOMAIN c \ {r} -> Nat]
        BY <2>2, <3>2
      <4>2. DOMAIN c \ {r} \in SUBSET Messages
        BY <2>2
      <4> QED
        BY <4>1, <4>2 DEF Counters
    <3> QED
      BY <2>4, <3>1, <3>2
  <2>6. b \in Accumulators /\ b.counts = new /\ b.samples = acc.samples /\ b.seen = acc.seen
        /\ b.latencySum = acc.latencySum
    BY <2>4, <2>5 DEF Accumulators
  <2>7. Merged(acc.counts, b.counts, message)
    BY <1>2, <2>4, <2>6, Zenon DEF Merged, c
  <2> QED
    BY <2>6, <2>7
<1> QED
  BY <1>1, <1>2

LEMMA LatencyAdded ==
  ASSUME NEW acc \in Accumulators, NEW latency \in Latencies, NEW b \in AddLatency(acc, latency)
  PROVE  /\ b \in Accumulators /\ b.counts = acc.counts
         /\ b.seen = acc.seen + 1 /\ b.latencySum = acc.latencySum + latency
         /\ \/ Len(acc.samples) < MaxSamples /\ b.samples = Append(acc.samples, latency)
            \/ /\ ~(Len(acc.samples) < MaxSamples)
               /\ \/ b.samples = acc.samples
                  \/ \E i \in 1 .. MaxSamples : b.samples = [acc.samples EXCEPT ![i] = latency]
<1> DEFINE counted == [acc EXCEPT !.latencySum = @ + latency, !.seen = @ + 1]
<1>1. /\ counted \in Accumulators /\ counted.samples = acc.samples /\ counted.counts = acc.counts
      /\ counted.seen = acc.seen + 1 /\ counted.latencySum = acc.latencySum + latency
      /\ acc.samples \in Seq(Latencies)
  <2>1. acc.latencySum + latency \in Int /\ acc.seen + 1 \in Nat
    BY AccumulatorFields, AccumulatorConstants
  <2>2. PICK x \in Int, y \in Nat : x = acc.latencySum + latency /\ y = acc.seen + 1
    BY <2>1
  <2>3. PICK a1 : a1 = [acc EXCEPT !.latencySum = x]
    OBVIOUS
  <2>4. PICK a : a = [a1 EXCEPT !.seen = y]
    OBVIOUS
  <2>5. counted = a
    BY <2>2, <2>3, <2>4
  <2>6. /\ a \in Accumulators /\ a.samples = acc.samples /\ a.counts = acc.counts
        /\ a.seen = y /\ a.latencySum = x
    <3>1. a1 \in Accumulators /\ a1.latencySum = x /\ a1.samples = acc.samples /\ a1.counts = acc.counts
      BY <2>3 DEF Accumulators
    <3> QED
      BY <2>4, <3>1 DEF Accumulators
  <2> HIDE DEF counted
  <2> QED
    BY <2>2, <2>5, <2>6, AccumulatorFields
<1>2. AddLatency(acc, latency)
        = IF Len(acc.samples) < MaxSamples
          THEN {[counted EXCEPT !.samples = Append(@, latency)]}
          ELSE {[counted EXCEPT !.samples = IF i <= MaxSamples THEN [@ EXCEPT ![i] = latency] ELSE @] :
                   i \in 1 .. acc.seen + 1}
  BY Zenon DEF AddLatency
<1> HIDE DEF counted
<1>3. PICK new : /\ b = [counted EXCEPT !.samples = new]
                 /\ \/ Len(acc.samples) < MaxSamples /\ new = Append(acc.samples, latency)
                    \/ /\ ~(Len(acc.samples) < MaxSamples)
                       /\ \/ new = acc.samples
                          \/ \E i \in 1 .. MaxSamples : new = [acc.samples EXCEPT ![i] = latency]
  <2>1. CASE Len(acc.samples) < MaxSamples
    BY <1>1, <1>2, <2>1
  <2>2. CASE ~(Len(acc.samples) < MaxSamples)
    <3>1. PICK i \in 1 .. acc.seen + 1 :
             b = [counted EXCEPT !.samples = IF i <= MaxSamples THEN [@ EXCEPT ![i] = latency] ELSE @]
      BY <1>2, <2>2
    <3>2. MaxSamples \in Nat /\ acc.seen \in Nat
      BY AccumulatorConstants DEF Accumulators
    <3>3. CASE i <= MaxSamples
      <4>1. i \in 1 .. MaxSamples
        BY <3>2, <3>3
      <4>2. b = [counted EXCEPT !.samples = [acc.samples EXCEPT ![i] = latency]]
        BY <1>1, <3>1, <3>3
      <4> QED
        BY <2>2, <4>1, <4>2
    <3>4. CASE ~(i <= MaxSamples)
      BY <1>1, <2>2, <3>1, <3>4
    <3> QED
      BY <3>3, <3>4
  <2> QED
    BY <2>1, <2>2
<1>4. new \in Seq(Latencies)
  <2>1. CASE new = Append(acc.samples, latency)
    BY <1>1, <2>1, AppendProperties
  <2>2. ASSUME NEW i, new = [acc.samples EXCEPT ![i] = latency] PROVE new \in Seq(Latencies)
    <3>1. Len(acc.samples) \in Nat /\ acc.samples \in [1 .. Len(acc.samples) -> Latencies]
      BY <1>1, LenProperties
    <3>2. new \in [1 .. Len(acc.samples) -> Latencies]
      BY <2>2, <3>1
    <3> QED
      BY <3>1, <3>2, SeqDef
  <2> QED
    BY <1>1, <1>3, <2>1, <2>2
<1> QED
  BY <1>1, <1>3, <1>4 DEF Accumulators

LEMMA EventAdded ==
  ASSUME NEW acc \in Accumulators, NEW event \in Events, NEW b \in Add(acc, event)
  PROVE  /\ b \in Accumulators
         /\ CountsAfter(acc.counts, b.counts, event)
         /\ LatenciesAfter(acc, b, event)
<1> DEFINE counted == [acc EXCEPT !.total = @ + 1,
                                  !.errors = @ + (IF event.level = "error" THEN 1 ELSE 0),
                                  !.warnings = @ + (IF event.level = "warning" THEN 1 ELSE 0)]
<1> DEFINE named == IF event.level = "error" THEN AddErrorMessage(counted, event.message)
                                             ELSE {counted}
<1>1. /\ counted \in Accumulators /\ counted.counts = acc.counts
      /\ counted.samples = acc.samples /\ counted.seen = acc.seen /\ counted.latencySum = acc.latencySum
  <2> DEFINE one(level) == IF event.level = level THEN 1 ELSE 0
  <2>1. acc.total + 1 \in Nat /\ acc.errors + one("error") \in Nat /\ acc.warnings + one("warning") \in Nat
    BY AccumulatorFields
  <2>2. PICK a1 : a1 = [acc EXCEPT !.total = acc.total + 1]
    OBVIOUS
  <2>3. PICK a2 : a2 = [a1 EXCEPT !.errors = acc.errors + one("error")]
    OBVIOUS
  <2>4. PICK a3 : a3 = [a2 EXCEPT !.warnings = acc.warnings + one("warning")]
    OBVIOUS
  <2>5. counted = a3
    BY <2>2, <2>3, <2>4, Zenon
  <2> HIDE DEF counted, one
  <2>6. /\ a1 \in Accumulators /\ a1.latencySum = acc.latencySum /\ a1.seen = acc.seen
        /\ a1.samples = acc.samples /\ a1.counts = acc.counts
    BY <2>1, <2>2, VolumeSet
  <2>7. /\ a2 \in Accumulators /\ a2.latencySum = acc.latencySum /\ a2.seen = acc.seen
        /\ a2.samples = acc.samples /\ a2.counts = acc.counts
    BY <2>1, <2>3, <2>6, VolumeSet
  <2> QED
    BY <2>1, <2>4, <2>5, <2>7, VolumeSet
<1>2. event.message \in Messages \cup {Blank} /\ event.latency \in Latencies \cup {NoLatency}
  BY DEF Events
<1>3. Add(acc, event) = IF event.latency = NoLatency THEN named
                        ELSE UNION {AddLatency(a, event.latency) : a \in named}
  BY DEF Add
<1> HIDE DEF counted
<1>4. ASSUME NEW a \in named
      PROVE  /\ a \in Accumulators /\ CountsAfter(acc.counts, a.counts, event)
             /\ a.samples = acc.samples /\ a.seen = acc.seen /\ a.latencySum = acc.latencySum
  <2>1. CASE event.level = "error"
    BY <1>1, <1>2, <2>1, ErrorMessageAdded DEF CountsAfter
  <2>2. CASE event.level # "error"
    BY <1>1, <2>2 DEF CountsAfter
  <2> QED
    BY <2>1, <2>2
<1> HIDE DEF named
<1>5. CASE event.latency = NoLatency
  BY <1>3, <1>4, <1>5 DEF LatenciesAfter
<1>6. CASE event.latency # NoLatency
  <2>1. PICK a \in named : b \in AddLatency(a, event.latency)
    BY <1>3, <1>6
  <2>2. event.latency \in Latencies
    BY <1>2, <1>6
  <2>3. /\ b \in Accumulators /\ b.counts = a.counts
        /\ b.seen = a.seen + 1 /\ b.latencySum = a.latencySum + event.latency
        /\ \/ Len(a.samples) < MaxSamples /\ b.samples = Append(a.samples, event.latency)
           \/ /\ ~(Len(a.samples) < MaxSamples)
              /\ \/ b.samples = a.samples
                 \/ \E i \in 1 .. MaxSamples : b.samples = [a.samples EXCEPT ![i] = event.latency]
    BY <1>4, <2>1, <2>2, LatencyAdded
  <2> QED
    BY <1>4, <1>6, <2>3 DEF LatenciesAfter
<1> QED
  BY <1>5, <1>6

-----------------------------------------------------------------------------
\* The error messages: what the map holds after n events.

ErrorsTo(stream, n, m) == {i \in 1 .. n : stream[i].level = "error" /\ stream[i].message = m}

OccurringTo(stream, n) == {m \in Messages : ErrorsTo(stream, n, m) # {}}

Truth(stream, n) == [m \in OccurringTo(stream, n) |-> Cardinality(ErrorsTo(stream, n, m))]

CountsTrue(counts, stream, n) ==
    /\ \A m \in DOMAIN counts :
          m \in OccurringTo(stream, n) /\ counts[m] <= Cardinality(ErrorsTo(stream, n, m))
    /\ Cardinality(OccurringTo(stream, n)) <= MaxMessages => counts = Truth(stream, n)

LEMMA ErrorsFinite ==
  ASSUME NEW stream, NEW n \in Nat
  PROVE  /\ \A m : IsFiniteSet(ErrorsTo(stream, n, m)) /\ Cardinality(ErrorsTo(stream, n, m)) \in Nat
         /\ IsFiniteSet(OccurringTo(stream, n))
         /\ Cardinality(OccurringTo(stream, n)) \in Nat
<1>1. IsFiniteSet(1 .. n)
  BY FS_Interval
<1>2. ASSUME NEW m PROVE IsFiniteSet(ErrorsTo(stream, n, m))
  BY <1>1, FS_Subset DEF ErrorsTo
<1>3. IsFiniteSet({stream[i].message : i \in 1 .. n})
  <2> DEFINE T == {stream[i].message : i \in 1 .. n}
  <2> DEFINE f == [i \in 1 .. n |-> stream[i].message]
  <2>1. f \in Surjection(1 .. n, T)
    BY DEF Surjection
  <2> HIDE DEF T, f
  <2>2. IsFiniteSet(T)
    BY <1>1, <2>1, FS_Surjection
  <2> QED
    BY <2>2 DEF T
<1>4. OccurringTo(stream, n) \subseteq {stream[i].message : i \in 1 .. n}
  BY DEF OccurringTo, ErrorsTo
<1>5. IsFiniteSet(OccurringTo(stream, n))
  BY <1>3, <1>4, FS_Subset
<1> QED
  BY <1>2, <1>5, FS_CardinalityType

LEMMA ErrorsStep ==
  ASSUME NEW stream, NEW n \in Nat \ {0}, NEW m
  PROVE  IF stream[n].level = "error" /\ stream[n].message = m
         THEN /\ ErrorsTo(stream, n, m) # {}
              /\ Cardinality(ErrorsTo(stream, n, m)) = Cardinality(ErrorsTo(stream, n - 1, m)) + 1
         ELSE ErrorsTo(stream, n, m) = ErrorsTo(stream, n - 1, m)
<1>1. 1 .. n = (1 .. n - 1) \cup {n}
  OBVIOUS
<1>2. CASE stream[n].level = "error" /\ stream[n].message = m
  <2>1. ErrorsTo(stream, n, m) = ErrorsTo(stream, n - 1, m) \cup {n}
    BY <1>1, <1>2 DEF ErrorsTo
  <2>2. n \notin ErrorsTo(stream, n - 1, m)
    BY DEF ErrorsTo
  <2>3. n - 1 \in Nat
    OBVIOUS
  <2>4. IsFiniteSet(ErrorsTo(stream, n - 1, m))
    BY <2>3, ErrorsFinite
  <2> QED
    BY <1>2, <2>1, <2>2, <2>4, FS_AddElement
<1>3. CASE ~(stream[n].level = "error" /\ stream[n].message = m)
  BY <1>1, <1>3 DEF ErrorsTo
<1> QED
  BY <1>2, <1>3

LEMMA CountsStep ==
  ASSUME NEW stream, NEW n \in Nat \ {0}, stream[n] \in Events,
         NEW old \in Counters, NEW new, CountsAfter(old, new, stream[n]),
         CountsTrue(old, stream, n - 1)
  PROVE  CountsTrue(new, stream, n)
<1> DEFINE message == stream[n].message
<1>1. /\ message \in Messages \cup {Blank} /\ MaxMessages \in Nat /\ Blank \notin Messages
      /\ n - 1 \in Nat
  BY AccumulatorConstants DEF Events
<1>2. DOMAIN old \subseteq Messages /\ \A m \in DOMAIN old : old[m] \in Nat
  BY DEF Counters
<1> DEFINE E(m) == Cardinality(ErrorsTo(stream, n, m))
           F(m) == Cardinality(ErrorsTo(stream, n - 1, m))
           O == OccurringTo(stream, n)
           P == OccurringTo(stream, n - 1)
<1>3. /\ \A m : E(m) \in Nat /\ F(m) \in Nat
      /\ IsFiniteSet(O) /\ IsFiniteSet(P) /\ Cardinality(O) \in Nat /\ Cardinality(P) \in Nat
  BY <1>1, ErrorsFinite
<1>4. CASE ~(stream[n].level = "error" /\ message \in Messages)
  <2>1. new = old
    BY <1>1, <1>4 DEF CountsAfter, Merged
  <2>2. \A m \in Messages : ErrorsTo(stream, n, m) = ErrorsTo(stream, n - 1, m)
    BY <1>4, ErrorsStep
  <2>3. O = P
    BY <2>2 DEF OccurringTo
  <2>4. Truth(stream, n) = Truth(stream, n - 1)
    BY <2>2, <2>3 DEF Truth, OccurringTo
  <2> QED
    BY <1>2, <2>1, <2>2, <2>3, <2>4 DEF CountsTrue
<1>5. CASE stream[n].level = "error" /\ message \in Messages
  <2> DEFINE c == Bumped(old, message)
  <2>1. E(message) = F(message) + 1 /\ message \in O
    BY <1>5, ErrorsStep DEF OccurringTo
  <2>2. \A m : m # message => ErrorsTo(stream, n, m) = ErrorsTo(stream, n - 1, m)
    BY ErrorsStep
  <2>3. O = P \cup {message}
    BY <1>5, <2>1, <2>2 DEF OccurringTo
  <2>4. message \notin P => F(message) = 0
    BY <1>5, FS_EmptySet DEF OccurringTo
  <2>5. /\ DOMAIN c = DOMAIN old \cup {message}
        /\ \A m \in DOMAIN c : c[m] = (IF m \in DOMAIN old THEN old[m] ELSE 0) + (IF m = message THEN 1 ELSE 0)
    BY DEF Bumped
  <2>6. \A m \in DOMAIN old : m \in P /\ old[m] <= F(m)
    BY DEF CountsTrue
  <2>7. ASSUME NEW m \in DOMAIN c PROVE m \in O /\ c[m] <= E(m)
    <3>1. m \in O
      BY <2>3, <2>5, <2>6
    <3>2. CASE m = message
      <4>1. m \in DOMAIN old => c[m] = old[m] + 1 /\ old[m] \in Nat /\ old[m] <= F(m)
        BY <1>2, <2>5, <2>6, <3>2
      <4>2. m \notin DOMAIN old => c[m] = 1
        BY <2>5, <3>2
      <4>3. F(m) \in Nat /\ E(m) = F(m) + 1
        BY <1>3, <2>1, <3>2
      <4> HIDE DEF E, F, c
      <4> QED
        BY <3>1, <4>1, <4>2, <4>3
    <3>3. CASE m # message
      <4>1. m \in DOMAIN old /\ c[m] = old[m] /\ E(m) = F(m)
        BY <1>2, <2>2, <2>5, <3>3
      <4> QED
        BY <2>6, <3>1, <4>1
    <3> QED
      BY <3>2, <3>3
  <2>8. CASE ~Overfull(c) /\ new = c
    <3>1. ASSUME Cardinality(O) <= MaxMessages PROVE new = Truth(stream, n)
      <4>1. Cardinality(P) <= MaxMessages
        <5>1. Cardinality(P) <= Cardinality(O)
          BY <1>3, <2>3, FS_Subset
        <5> HIDE DEF O, P
        <5> QED
          BY <1>1, <1>3, <3>1, <5>1
      <4>2. old = Truth(stream, n - 1)
        BY <4>1 DEF CountsTrue
      <4>3. DOMAIN old = P /\ \A m \in P : old[m] = F(m)
        BY <4>2 DEF Truth
      <4>4. ASSUME NEW m \in O PROVE c[m] = E(m)
        <5>1. CASE m = message
          <6>1. m \in P => c[m] = F(m) + 1
            BY <2>5, <4>3, <5>1
          <6>2. m \notin P => c[m] = 1
            BY <2>5, <4>3, <5>1
          <6> QED
            BY <2>1, <2>4, <5>1, <6>1, <6>2
        <5>2. CASE m # message
          <6>1. m \in P /\ c[m] = F(m) + 0
            BY <2>3, <2>5, <4>3, <5>2
          <6>2. E(m) = F(m) /\ F(m) \in Nat
            BY <1>3, <2>2, <5>2
          <6> HIDE DEF E, F, c
          <6> QED
            BY <6>1, <6>2
        <5> QED
          BY <5>1, <5>2
      <4>5. DOMAIN c = O
        BY <2>3, <2>5, <4>3
      <4>6. c = [m \in DOMAIN c |-> c[m]]
        BY DEF Bumped
      <4> HIDE DEF c
      <4> QED
        BY <2>8, <4>4, <4>5, <4>6 DEF Truth
    <3> HIDE DEF c
    <3> QED
      BY <2>7, <2>8, <3>1 DEF CountsTrue
  <2>9. CASE Overfull(c) /\ \E r \in DOMAIN c : new = [m \in DOMAIN c \ {r} |-> c[m]]
    <3>1. DOMAIN c \subseteq O
      BY <2>7
    <3>2. Cardinality(DOMAIN c) <= Cardinality(O) /\ Cardinality(DOMAIN c) \in Nat
      BY <1>3, <3>1, FS_Subset, FS_CardinalityType
    <3>3. ~(Cardinality(O) <= MaxMessages)
      <4> HIDE DEF c, O
      <4> QED
        BY <1>1, <1>3, <2>9, <3>2 DEF Overfull
    <3>4. \A m \in DOMAIN new : m \in DOMAIN c /\ new[m] = c[m]
      <4> HIDE DEF c
      <4> QED
        BY <2>9
    <3> HIDE DEF c
    <3> QED
      BY <2>7, <3>3, <3>4 DEF CountsTrue
  <2> QED
    BY <1>1, <1>5, <2>8, <2>9, Zenon DEF CountsAfter, Merged
<1> QED
  BY <1>4, <1>5

LEMMA CountsBegin == ASSUME NEW stream PROVE CountsTrue(EmptyAccumulator.counts, stream, 0)
<1>1. OccurringTo(stream, 0) = {}
  BY DEF OccurringTo, ErrorsTo
<1>2. DOMAIN EmptyAccumulator.counts = {}
  BY DEF EmptyAccumulator
<1>3. EmptyAccumulator.counts = Truth(stream, 0)
  BY <1>1 DEF EmptyAccumulator, Truth
<1> QED
  BY <1>1, <1>2, <1>3 DEF CountsTrue

LEMMA EmptyTyped == EmptyAccumulator \in Accumulators
<1>1. <<>> \in Seq(Latencies)
  BY EmptySeq
<1>2. [m \in {} |-> 0] \in [{} -> Nat]
  OBVIOUS
<1>3. [m \in {} |-> 0] \in Counters
  BY <1>2 DEF Counters
<1> QED
  BY <1>1, <1>3 DEF EmptyAccumulator, Accumulators

-----------------------------------------------------------------------------
\* The latencies: what the reservoir holds after n events.

TimedTo(stream, n) == {i \in 1 .. n : stream[i].latency # NoLatency}

TakesTo(stream, n, v) == {i \in TimedTo(stream, n) : stream[i].latency <= v}

SamplesTo(samples, v) == {i \in 1 .. Len(samples) : samples[i] <= v}

SamplesTrue(acc, stream, n) ==
    /\ acc.seen = Cardinality(TimedTo(stream, n))
    /\ Len(acc.samples) = IF acc.seen <= MaxSamples THEN acc.seen ELSE MaxSamples
    /\ \A i \in 1 .. Len(acc.samples) :
          \E j \in TimedTo(stream, n) : acc.samples[i] = stream[j].latency
    /\ acc.seen <= MaxSamples =>
          \A v \in Int : Cardinality(SamplesTo(acc.samples, v)) = Cardinality(TakesTo(stream, n, v))

LEMMA TimedFinite ==
  ASSUME NEW stream, NEW n \in Nat
  PROVE  /\ IsFiniteSet(TimedTo(stream, n)) /\ Cardinality(TimedTo(stream, n)) \in Nat
         /\ \A v : IsFiniteSet(TakesTo(stream, n, v)) /\ Cardinality(TakesTo(stream, n, v)) \in Nat
<1>1. IsFiniteSet(1 .. n)
  BY FS_Interval
<1>2. IsFiniteSet(TimedTo(stream, n))
  BY <1>1, FS_Subset DEF TimedTo
<1>3. \A v : IsFiniteSet(TakesTo(stream, n, v))
  BY <1>2, FS_Subset DEF TakesTo
<1> QED
  BY <1>2, <1>3, FS_CardinalityType

LEMMA SamplesFinite ==
  ASSUME NEW samples \in Seq(Int), NEW v
  PROVE  IsFiniteSet(SamplesTo(samples, v)) /\ Cardinality(SamplesTo(samples, v)) \in Nat
<1>1. IsFiniteSet(1 .. Len(samples))
  BY LenProperties, FS_Interval
<1>2. IsFiniteSet(SamplesTo(samples, v))
  BY <1>1, FS_Subset DEF SamplesTo
<1> QED
  BY <1>2, FS_CardinalityType

LEMMA TimedStep ==
  ASSUME NEW stream, NEW n \in Nat \ {0}, NEW v
  PROVE  IF stream[n].latency = NoLatency
         THEN /\ TimedTo(stream, n) = TimedTo(stream, n - 1)
              /\ TakesTo(stream, n, v) = TakesTo(stream, n - 1, v)
         ELSE /\ n \in TimedTo(stream, n) /\ TimedTo(stream, n - 1) \subseteq TimedTo(stream, n)
              /\ Cardinality(TimedTo(stream, n)) = Cardinality(TimedTo(stream, n - 1)) + 1
              /\ Cardinality(TakesTo(stream, n, v))
                   = Cardinality(TakesTo(stream, n - 1, v)) + (IF stream[n].latency <= v THEN 1 ELSE 0)
<1>1. 1 .. n = (1 .. n - 1) \cup {n} /\ n - 1 \in Nat
  OBVIOUS
<1>2. CASE stream[n].latency = NoLatency
  <2>1. TimedTo(stream, n) = TimedTo(stream, n - 1)
    BY <1>1, <1>2 DEF TimedTo
  <2> QED
    BY <1>2, <2>1 DEF TakesTo
<1>3. CASE stream[n].latency # NoLatency
  <2>1. TimedTo(stream, n) = TimedTo(stream, n - 1) \cup {n}
    BY <1>1, <1>3 DEF TimedTo
  <2>2. n \notin TimedTo(stream, n - 1) /\ n \notin TakesTo(stream, n - 1, v)
    BY DEF TimedTo, TakesTo
  <2>3. IsFiniteSet(TimedTo(stream, n - 1)) /\ IsFiniteSet(TakesTo(stream, n - 1, v))
        /\ Cardinality(TakesTo(stream, n - 1, v)) \in Nat
    BY <1>1, TimedFinite
  <2>4. Cardinality(TimedTo(stream, n)) = Cardinality(TimedTo(stream, n - 1)) + 1
    BY <2>1, <2>2, <2>3, FS_AddElement
  <2>5. CASE stream[n].latency <= v
    <3>1. TakesTo(stream, n, v) = TakesTo(stream, n - 1, v) \cup {n}
      BY <2>1, <2>5 DEF TakesTo
    <3>2. Cardinality(TakesTo(stream, n, v)) = Cardinality(TakesTo(stream, n - 1, v)) + 1
      BY <2>2, <2>3, <3>1, FS_AddElement
    <3> QED
      BY <1>3, <2>1, <2>4, <2>5, <3>2
  <2>6. CASE ~(stream[n].latency <= v)
    <3>1. TakesTo(stream, n, v) = TakesTo(stream, n - 1, v)
      BY <2>1, <2>6 DEF TakesTo
    <3> QED
      BY <1>3, <2>1, <2>3, <2>4, <2>6, <3>1
  <2> QED
    BY <2>5, <2>6
<1> QED
  BY <1>2, <1>3

LEMMA FunctionIsSeq ==
  ASSUME NEW S, NEW n \in Nat, NEW f \in [1 .. n -> S] PROVE f \in Seq(S) /\ Len(f) = n
<1>1. f \in Seq(S)
  BY SeqDef
<1>2. DOMAIN f = 1 .. Len(f) /\ Len(f) \in Nat
  BY <1>1, LenProperties
<1>3. DOMAIN f = 1 .. n
  OBVIOUS
<1> QED
  BY <1>1, <1>2, <1>3

LEMMA SampleAppended ==
  ASSUME NEW samples \in Seq(Int), NEW latency \in Int, NEW v
  PROVE  Cardinality(SamplesTo(Append(samples, latency), v))
           = Cardinality(SamplesTo(samples, v)) + (IF latency <= v THEN 1 ELSE 0)
<1> DEFINE n == Len(samples)
<1> DEFINE new == Append(samples, latency)
<1>1. /\ n \in Nat /\ Len(new) = n + 1 /\ new[n + 1] = latency
      /\ \A i \in 1 .. n : new[i] = samples[i]
  BY LenProperties, AppendProperties
<1>2. 1 .. n + 1 = (1 .. n) \cup {n + 1}
  BY <1>1
<1>3. n + 1 \notin SamplesTo(samples, v)
  BY <1>1 DEF SamplesTo
<1>4. IsFiniteSet(SamplesTo(samples, v)) /\ Cardinality(SamplesTo(samples, v)) \in Nat
  BY SamplesFinite
<1> HIDE DEF new
<1>5. CASE latency <= v
  <2>1. SamplesTo(new, v) = SamplesTo(samples, v) \cup {n + 1}
    BY <1>1, <1>2, <1>5 DEF SamplesTo
  <2>2. Cardinality(SamplesTo(new, v)) = Cardinality(SamplesTo(samples, v)) + 1
    BY <1>3, <1>4, <2>1, FS_AddElement
  <2> QED
    BY <1>5, <2>2 DEF new
<1>6. CASE ~(latency <= v)
  <2>1. SamplesTo(new, v) = SamplesTo(samples, v)
    BY <1>1, <1>2, <1>6 DEF SamplesTo
  <2> QED
    BY <1>4, <1>6, <2>1 DEF new
<1> QED
  BY <1>5, <1>6

LEMMA SamplesStep ==
  ASSUME NEW stream, NEW n \in Nat \ {0}, stream[n] \in Events,
         NEW a \in Accumulators, NEW b \in Accumulators, LatenciesAfter(a, b, stream[n]),
         SamplesTrue(a, stream, n - 1)
  PROVE  SamplesTrue(b, stream, n)
<1> DEFINE latency == stream[n].latency
<1>1. /\ latency \in Latencies \cup {NoLatency} /\ Latencies \subseteq Int /\ MaxSamples \in Nat
      /\ a.samples \in Seq(Int) /\ a.seen \in Nat /\ Len(a.samples) \in Nat /\ n - 1 \in Nat
  <2>1. a.samples \in Seq(Latencies) /\ a.seen \in Nat
    BY AccumulatorFields
  <2>2. a.samples \in Seq(Int)
    <3>1. Len(a.samples) \in Nat /\ a.samples \in [1 .. Len(a.samples) -> Latencies]
      BY <2>1, LenProperties
    <3>2. a.samples \in [1 .. Len(a.samples) -> Int]
      BY <3>1, AccumulatorConstants
    <3> QED
      BY <3>1, <3>2, FunctionIsSeq
  <2> QED
    BY <2>1, <2>2, LenProperties, AccumulatorConstants DEF Events
<1>2. CASE latency = NoLatency
  <2>1. b.samples = a.samples /\ b.seen = a.seen
    BY <1>2 DEF LatenciesAfter
  <2>2. TimedTo(stream, n) = TimedTo(stream, n - 1)
        /\ \A v : TakesTo(stream, n, v) = TakesTo(stream, n - 1, v)
    BY <1>2, TimedStep
  <2> QED
    BY <2>1, <2>2 DEF SamplesTrue
<1>3. CASE latency # NoLatency
  <2>1. b.seen = a.seen + 1 /\ latency \in Int
    BY <1>1, <1>3 DEF LatenciesAfter
  <2>2. /\ n \in TimedTo(stream, n) /\ TimedTo(stream, n - 1) \subseteq TimedTo(stream, n)
        /\ Cardinality(TimedTo(stream, n)) = Cardinality(TimedTo(stream, n - 1)) + 1
    BY <1>3, TimedStep
  <2>3. b.seen = Cardinality(TimedTo(stream, n))
    BY <2>1, <2>2 DEF SamplesTrue
  <2>4. /\ Len(a.samples) = IF a.seen <= MaxSamples THEN a.seen ELSE MaxSamples
        /\ \A i \in 1 .. Len(a.samples) :
              \E j \in TimedTo(stream, n) : a.samples[i] = stream[j].latency
    BY <2>2 DEF SamplesTrue
  <2>5. CASE Len(a.samples) < MaxSamples /\ b.samples = Append(a.samples, latency)
    <3>1. a.seen = Len(a.samples) /\ a.seen <= MaxSamples /\ b.seen <= MaxSamples
      BY <1>1, <2>1, <2>4, <2>5
    <3>2. /\ Len(b.samples) = Len(a.samples) + 1 /\ b.samples[Len(a.samples) + 1] = latency
          /\ \A i \in 1 .. Len(a.samples) : b.samples[i] = a.samples[i]
      BY <1>1, <2>1, <2>5, AppendProperties
    <3>3. \A i \in 1 .. Len(b.samples) : \E j \in TimedTo(stream, n) : b.samples[i] = stream[j].latency
      <4>1. \A i \in 1 .. Len(b.samples) : i = Len(a.samples) + 1 \/ i \in 1 .. Len(a.samples)
        BY <1>1, <3>2
      <4> QED
        BY <2>2, <2>4, <3>2, <4>1
    <3>4. ASSUME NEW v \in Int
          PROVE  Cardinality(SamplesTo(b.samples, v)) = Cardinality(TakesTo(stream, n, v))
      <4>1. Cardinality(SamplesTo(b.samples, v))
              = Cardinality(SamplesTo(a.samples, v)) + (IF latency <= v THEN 1 ELSE 0)
        BY <1>1, <2>1, <2>5, SampleAppended
      <4>2. Cardinality(TakesTo(stream, n, v))
              = Cardinality(TakesTo(stream, n - 1, v)) + (IF latency <= v THEN 1 ELSE 0)
        BY <1>3, TimedStep
      <4>3. Cardinality(SamplesTo(a.samples, v)) = Cardinality(TakesTo(stream, n - 1, v))
        BY <3>1 DEF SamplesTrue
      <4> QED
        BY <4>1, <4>2, <4>3
    <3> QED
      BY <2>1, <2>3, <3>1, <3>2, <3>3, <3>4 DEF SamplesTrue
  <2>6. CASE /\ ~(Len(a.samples) < MaxSamples)
             /\ \/ b.samples = a.samples
                \/ \E i \in 1 .. MaxSamples : b.samples = [a.samples EXCEPT ![i] = latency]
    <3>1. Len(a.samples) = MaxSamples /\ ~(b.seen <= MaxSamples)
      BY <1>1, <2>1, <2>4, <2>6
    <3>2. /\ Len(b.samples) = Len(a.samples)
          /\ \A i \in 1 .. Len(a.samples) : b.samples[i] = a.samples[i] \/ b.samples[i] = latency
      <4>1. CASE b.samples = a.samples
        BY <4>1
      <4>2. ASSUME NEW i, b.samples = [a.samples EXCEPT ![i] = latency] PROVE <3>2
        <5>1. a.samples \in [1 .. Len(a.samples) -> Int]
          BY <1>1, LenProperties
        <5>2. b.samples \in [1 .. Len(a.samples) -> Int]
          BY <2>1, <4>2, <5>1
        <5>3. Len(b.samples) = Len(a.samples)
          BY <1>1, <5>2, FunctionIsSeq
        <5> QED
          BY <4>2, <5>1, <5>3
      <4> QED
        BY <2>6, <4>1, <4>2
    <3>3. \A i \in 1 .. Len(b.samples) : \E j \in TimedTo(stream, n) : b.samples[i] = stream[j].latency
      BY <2>2, <2>4, <3>2
    <3> QED
      BY <2>3, <3>1, <3>2, <3>3 DEF SamplesTrue
  <2> QED
    BY <1>3, <2>5, <2>6 DEF LatenciesAfter
<1> QED
  BY <1>2, <1>3

LEMMA SamplesBegin == ASSUME NEW stream PROVE SamplesTrue(EmptyAccumulator, stream, 0)
<1>1. TimedTo(stream, 0) = {} /\ \A v : TakesTo(stream, 0, v) = {}
  BY DEF TimedTo, TakesTo
<1>2. EmptyAccumulator.samples = <<>> /\ Len(<<>>) = 0 /\ EmptyAccumulator.seen = 0
  BY EmptySeq DEF EmptyAccumulator
<1>3. \A v : SamplesTo(<<>>, v) = {}
  BY <1>2 DEF SamplesTo
<1>4. MaxSamples \in Nat /\ Cardinality({}) = 0
  BY AccumulatorConstants, FS_EmptySet
<1>5. Cardinality(TimedTo(stream, 0)) = 0 /\ 1 .. 0 = {}
  BY <1>1, <1>4
<1>6. \A v : Cardinality(SamplesTo(<<>>, v)) = 0 /\ Cardinality(TakesTo(stream, 0, v)) = 0
  BY <1>1, <1>3, <1>4
<1> QED
  BY <1>2, <1>4, <1>5, <1>6 DEF SamplesTrue

-----------------------------------------------------------------------------
\* What Percentile finds: the positions of a sort are a permutation, so that one
\* sample has the rank, and as many samples are no larger than it.

Sorted(samples, i) ==
    {j \in DOMAIN samples : samples[j] < samples[i] \/ (samples[j] = samples[i] /\ j <= i)}

LEMMA RankTaken ==
  ASSUME NEW n \in Nat, NEW samples \in [1 .. n -> Int], NEW k \in 1 .. n
  PROVE  \E i \in DOMAIN samples : SortedAt(samples, i) = k
<1> DEFINE D == 1 .. n
<1> DEFINE f == [i \in D |-> SortedAt(samples, i)]
<1>1. DOMAIN samples = D /\ \A i \in D : samples[i] \in Int /\ i \in Nat
  OBVIOUS
<1>2. IsFiniteSet(D) /\ Cardinality(D) = n
  BY FS_Interval
<1>3. \A i \in D : SortedAt(samples, i) = Cardinality(Sorted(samples, i))
  BY DEF SortedAt, Sorted
<1>4. \A i \in D : Sorted(samples, i) \subseteq D
  BY <1>1 DEF Sorted
<1>5. ASSUME NEW i \in D PROVE SortedAt(samples, i) \in D
  <2>1. i \in Sorted(samples, i)
    BY <1>1 DEF Sorted
  <2>2. IsFiniteSet(Sorted(samples, i))
    BY <1>2, <1>4, FS_Subset
  <2>3. Cardinality(Sorted(samples, i)) \in Nat /\ Cardinality(Sorted(samples, i)) <= n
    BY <1>2, <1>4, <2>2, FS_Subset, FS_CardinalityType
  <2>4. Cardinality(Sorted(samples, i)) # 0
    BY <2>1, <2>2, FS_EmptySet
  <2> QED
    BY <1>1, <1>3, <2>3, <2>4
<1>6. ASSUME NEW i \in D, NEW j \in D, i # j,
             samples[i] < samples[j] \/ (samples[i] = samples[j] /\ i <= j)
      PROVE  SortedAt(samples, i) # SortedAt(samples, j)
  <2>0. /\ samples[i] \in Int /\ samples[j] \in Int /\ i \in Nat /\ j \in Nat
        /\ \A g, h : h \in Sorted(samples, g) <=>
               h \in D /\ (samples[h] < samples[g] \/ (samples[h] = samples[g] /\ h <= g))
    BY <1>1 DEF Sorted
  <2>1. j \in Sorted(samples, j) /\ j \notin Sorted(samples, i)
    <3>1. samples[j] = samples[j] /\ j <= j
      BY <2>0
    <3>2. ~(samples[j] < samples[i] \/ (samples[j] = samples[i] /\ j <= i))
      BY <1>6, <2>0
    <3> QED
      BY <2>0, <3>1, <3>2, Zenon
  <2>2. ASSUME NEW h \in Sorted(samples, i) PROVE h \in Sorted(samples, j)
    <3>1. /\ h \in D /\ samples[h] \in Int /\ h \in Nat
          /\ samples[h] < samples[i] \/ (samples[h] = samples[i] /\ h <= i)
      BY <1>1, <2>0
    <3>2. samples[h] < samples[j] \/ (samples[h] = samples[j] /\ h <= j)
      BY <1>6, <2>0, <3>1
    <3> QED
      BY <2>0, <3>1, <3>2
  <2>3. IsFiniteSet(Sorted(samples, j))
    BY <1>2, <1>4, FS_Subset
  <2>4. Cardinality(Sorted(samples, i)) # Cardinality(Sorted(samples, j))
    BY <2>1, <2>2, <2>3, FS_Subset
  <2> QED
    BY <1>3, <2>4
<1>7. f \in Injection(D, D)
  <2>1. \A i, j \in D : i = j \/ samples[i] < samples[j] \/ (samples[i] = samples[j] /\ i <= j)
                         \/ samples[j] < samples[i] \/ (samples[j] = samples[i] /\ j <= i)
    BY <1>1
  <2>2. ASSUME NEW i \in D, NEW j \in D, f[i] = f[j] PROVE i = j
    <3>1. SortedAt(samples, i) = SortedAt(samples, j)
      BY <2>2
    <3> HIDE DEF f, D
    <3> QED
      BY <1>6, <2>1, <3>1, Zenon
  <2>3. f \in [D -> D]
    BY <1>5
  <2> HIDE DEF f, D
  <2> QED
    BY <2>2, <2>3 DEF Injection, IsInjective
<1>8. f \in Surjection(D, D)
  <2> HIDE DEF f, D
  <2> QED
    BY <1>2, <1>7, FS_Injection
<1>9. \E i \in D : f[i] = k
  <2> HIDE DEF f
  <2> QED
    BY <1>8 DEF Surjection
<1> QED
  BY <1>1, <1>9

LEMMA PercentileFound ==
  ASSUME NEW n \in Nat, NEW samples \in [1 .. n -> Int], Len(samples) = n,
         NEW pct, Rank(n, pct) \in 1 .. n
  PROVE  /\ \E i \in 1 .. n : Percentile(samples, pct) = samples[i]
         /\ Percentile(samples, pct) \in Int
         /\ Cardinality(SamplesTo(samples, Percentile(samples, pct))) >= Rank(n, pct)
         /\ \A w \in Int : w < Percentile(samples, pct) =>
               Cardinality(SamplesTo(samples, w)) < Rank(n, pct)
<1> DEFINE k == Rank(n, pct)
<1>1. PICK i \in DOMAIN samples : SortedAt(samples, i) = k /\ Percentile(samples, pct) = samples[i]
  <2> DEFINE P(i) == i \in DOMAIN samples /\ SortedAt(samples, i) = k
  <2>1. \E i : P(i)
    <3>1. k \in 1 .. n
      OBVIOUS
    <3> HIDE DEF k
    <3>2. \E i \in DOMAIN samples : SortedAt(samples, i) = k
      BY <3>1, RankTaken
    <3> QED
      BY <3>2
  <2>2. P(CHOOSE i : P(i))
    BY <2>1, Zenon
  <2> QED
    BY <2>2, Zenon DEF Percentile
<1>2. DOMAIN samples = 1 .. n /\ \A j \in DOMAIN samples : samples[j] \in Int /\ j \in Nat
  OBVIOUS
<1>3. k = Cardinality(Sorted(samples, i)) /\ k \in Nat
  BY <1>1, <1>2 DEF SortedAt, Sorted
<1>4. Sorted(samples, i) \subseteq SamplesTo(samples, samples[i])
  <2>1. ASSUME NEW j \in Sorted(samples, i) PROVE j \in DOMAIN samples /\ samples[j] <= samples[i]
    <3>1. j \in DOMAIN samples /\ (samples[j] < samples[i] \/ samples[j] = samples[i])
      BY DEF Sorted
    <3>2. samples[j] \in Int /\ samples[i] \in Int
      BY <1>2, <3>1
    <3> QED
      BY <3>1, <3>2
  <2> QED
    BY <1>2, <2>1 DEF SamplesTo
<1>5. /\ \A w : IsFiniteSet(SamplesTo(samples, w)) /\ Cardinality(SamplesTo(samples, w)) \in Nat
      /\ IsFiniteSet(Sorted(samples, i))
  <2>1. \A w : IsFiniteSet(SamplesTo(samples, w)) /\ Cardinality(SamplesTo(samples, w)) \in Nat
    BY FunctionIsSeq, SamplesFinite
  <2> QED
    BY <1>4, <2>1, FS_Subset
<1>6. Cardinality(SamplesTo(samples, samples[i])) >= k
  <2>1. Cardinality(Sorted(samples, i)) <= Cardinality(SamplesTo(samples, samples[i]))
    BY <1>4, <1>5, FS_Subset
  <2> QED
    BY <1>3, <1>5, <2>1
<1>7. ASSUME NEW w \in Int, w < samples[i] PROVE Cardinality(SamplesTo(samples, w)) < k
  <2>1. SamplesTo(samples, w) \subseteq Sorted(samples, i)
    BY <1>1, <1>2, <1>7 DEF Sorted, SamplesTo
  <2>2. i \in Sorted(samples, i) /\ i \notin SamplesTo(samples, w)
    BY <1>1, <1>2, <1>7 DEF Sorted, SamplesTo
  <2>3. /\ Cardinality(SamplesTo(samples, w)) <= Cardinality(Sorted(samples, i))
        /\ Cardinality(SamplesTo(samples, w)) # Cardinality(Sorted(samples, i))
    BY <1>5, <2>1, <2>2, FS_Subset
  <2> QED
    BY <1>3, <1>5, <2>3
<1> QED
  BY <1>1, <1>2, <1>6, <1>7

LEMMA RankBounds ==
  ASSUME NEW n \in Nat \ {0}, NEW pct \in {50, 95, 99}
  PROVE  /\ Rank(n, pct) \in 1 .. n
         /\ 100 * Rank(n, pct) >= pct * n
         /\ 100 * (Rank(n, pct) - 1) < pct * n
BY DEF Rank

LEMMA RankRises ==
  ASSUME NEW n \in Nat \ {0}
  PROVE  Rank(n, 50) <= Rank(n, 95) /\ Rank(n, 95) <= Rank(n, 99)
BY DEF Rank

\* A larger part of the values is no lower.
LEMMA PercentileRises ==
  ASSUME NEW n \in Nat, NEW samples \in [1 .. n -> Int], Len(samples) = n, NEW p, NEW q,
         Rank(n, p) \in 1 .. n, Rank(n, q) \in 1 .. n,
         Rank(n, p) <= Rank(n, q)
  PROVE  Percentile(samples, p) <= Percentile(samples, q)
<1> DEFINE v == Percentile(samples, p)
           w == Percentile(samples, q)
<1>1. /\ v \in Int /\ w \in Int
      /\ w < v => Cardinality(SamplesTo(samples, w)) < Rank(n, p)
      /\ Cardinality(SamplesTo(samples, w)) >= Rank(n, q)
  BY PercentileFound
<1>2. Cardinality(SamplesTo(samples, w)) \in Nat
  BY FunctionIsSeq, SamplesFinite
<1> HIDE DEF v, w
<1>3. v <= w
  BY <1>1, <1>2 DEF Rank
<1> QED
  BY <1>3 DEF v, w

LEMMA QuotientFalls ==
  ASSUME NEW s \in Nat, NEW m \in Nat \ {0}, NEW n \in Nat, m <= n PROVE s \div m >= s \div n
<1> DEFINE q == s \div n
           r == s \div m
<1>1. q \in Nat /\ n * q <= s
  OBVIOUS
<1>2. r \in Nat /\ s < m * (r + 1)
  OBVIOUS
<1> HIDE DEF q, r
<1>3. SUFFICES ASSUME r < q PROVE FALSE
  BY <1>1, <1>2 DEF q, r
<1>4. PICK d \in Nat : q = r + 1 + d
  <2>1. q - r - 1 \in Nat
    BY <1>1, <1>2, <1>3
  <2> QED
    BY <1>1, <1>2, <2>1
<1>5. PICK e \in Nat : n = m + e
  <2>1. n - m \in Nat
    OBVIOUS
  <2> QED
    BY <2>1
<1>6. n * q = m * (r + 1) + m * d + e * q
  BY <1>1, <1>2, <1>4, <1>5
<1>7. m * d \in Nat /\ e * q \in Nat /\ m * (r + 1) \in Nat
  BY <1>1, <1>2
<1> QED
  BY <1>1, <1>2, <1>6, <1>7

-----------------------------------------------------------------------------
\* What holds of every accumulator that a stream may leave.

Faithful(acc, stream, n, sum) ==
    /\ acc \in Accumulators
    /\ CountsTrue(acc.counts, stream, n)
    /\ SamplesTrue(acc, stream, n)
    /\ acc.latencySum = sum

LEMMA WindowIsFaithful ==
  ASSUME NEW stream \in Seq(Events), NEW acc \in After(stream)
  PROVE  Faithful(acc, stream, Len(stream), TotalLatency(stream))
<1> DEFINE n == Len(stream)
<1>1. /\ n \in Nat /\ DOMAIN stream = 1 .. n
      /\ \A k \in 1 .. n : stream[k] \in Events
  BY LenProperties
<1>2. PICK f : IsAfter(f, stream, n) /\ After(stream) = f[n]
  BY <1>1, AfterUnfolds
<1>3. PICK g : IsTotal(g, stream, n) /\ TotalLatency(stream) = g[n]
  BY <1>1, TotalUnfolds
<1> DEFINE Bad == {k \in 0 .. n : \E a \in f[k] : ~Faithful(a, stream, k, g[k])}
<1>4. Bad = {}
  <2>1. SUFFICES ASSUME Bad # {} PROVE FALSE
    OBVIOUS
  <2>2. PICK k \in Bad : \A j \in Bad : k <= j
    <3>1. Bad \in SUBSET Nat
      BY <1>1
    <3> HIDE DEF Bad
    <3> QED
      BY <2>1, <3>1, LeastNat
  <2>3. k \in 0 .. n
    OBVIOUS
  <2>4. PICK a \in f[k] : ~Faithful(a, stream, k, g[k])
    BY <2>2
  <2>5. f[k] = IF k = 0 THEN {EmptyAccumulator} ELSE UNION {Add(old, stream[k]) : old \in f[k - 1]}
    BY <1>2, <2>3, Zenon DEF IsAfter
  <2>6. g[k] = IF k = 0 THEN 0 ELSE g[k - 1] + (IF k \in HasLatency(stream) THEN stream[k].latency ELSE 0)
    BY <1>3, <2>3, Zenon DEF IsTotal
  <2>7. CASE k = 0
    <3>1. a = EmptyAccumulator /\ g[k] = 0
      BY <2>4, <2>5, <2>6, <2>7
    <3>2. EmptyAccumulator.latencySum = 0
      BY DEF EmptyAccumulator
    <3> QED
      BY <2>4, <2>7, <3>1, <3>2, EmptyTyped, CountsBegin, SamplesBegin DEF Faithful
  <2>8. CASE k # 0
    <3>1. k \in Nat \ {0} /\ k \in 1 .. n /\ k - 1 \in 0 .. n /\ k - 1 \notin Bad
      <4>1. k \in Nat \ {0} /\ k \in 1 .. n /\ k - 1 \in 0 .. n
        BY <1>1, <2>3, <2>8
      <4>2. ~(k <= k - 1)
        BY <2>3
      <4> HIDE DEF Bad
      <4> QED
        BY <2>2, <4>1, <4>2
    <3>2. stream[k] \in Events
      BY <1>1, <3>1
    <3>3. PICK old \in f[k - 1] : a \in Add(old, stream[k])
      BY <2>4, <2>5, <2>8
    <3>4. Faithful(old, stream, k - 1, g[k - 1])
      BY <3>1, <3>3
    <3> HIDE DEF Bad
    <3>5. old \in Accumulators /\ old.counts \in Counters
      BY <3>4, AccumulatorFields DEF Faithful
    <3>6. a \in Accumulators /\ CountsAfter(old.counts, a.counts, stream[k]) /\ LatenciesAfter(old, a, stream[k])
      BY <3>2, <3>3, <3>5, EventAdded
    <3>7. CountsTrue(a.counts, stream, k)
      BY <3>1, <3>2, <3>4, <3>5, <3>6, CountsStep DEF Faithful
    <3>8. SamplesTrue(a, stream, k)
      BY <3>1, <3>2, <3>4, <3>5, <3>6, SamplesStep DEF Faithful
    <3>9. a.latencySum = g[k]
      <4>1. k \in HasLatency(stream) <=> stream[k].latency # NoLatency
        BY <1>1, <3>1 DEF HasLatency
      <4>2. old.latencySum = g[k - 1] /\ old.latencySum \in Int
        BY <3>4, <3>5, AccumulatorFields DEF Faithful
      <4>3. CASE stream[k].latency = NoLatency
        BY <2>6, <2>8, <3>6, <4>1, <4>2, <4>3 DEF LatenciesAfter
      <4>4. CASE stream[k].latency # NoLatency
        BY <2>6, <2>8, <3>6, <4>1, <4>2, <4>4 DEF LatenciesAfter
      <4> QED
        BY <4>3, <4>4
    <3> QED
      BY <2>4, <3>6, <3>7, <3>8, <3>9 DEF Faithful
  <2> QED
    BY <2>7, <2>8
<1> QED
  BY <1>1, <1>2, <1>3, <1>4

\* The top errors of a window of any length.
LEMMA TopErrorsAreSound ==
  ASSUME NEW stream \in Seq(Events), NEW acc \in After(stream)
  PROVE  TrueTopErrors(Result(acc), stream)
<1> DEFINE n == Len(stream)
<1>1. n \in Nat /\ DOMAIN stream = 1 .. n
  BY LenProperties
<1>2. \A m : ErrorsOf(stream, m) = ErrorsTo(stream, n, m)
  BY <1>1 DEF ErrorsOf, ErrorsTo
<1>3. Occurring(stream) = OccurringTo(stream, n)
  BY <1>2 DEF Occurring, OccurringTo
<1> DEFINE truth == [m \in Occurring(stream) |-> Cardinality(ErrorsOf(stream, m))]
<1>4. truth = Truth(stream, n)
  BY <1>2, <1>3 DEF Truth
<1> DEFINE counts == acc.counts
<1>5. CountsTrue(counts, stream, n)
  BY WindowIsFaithful DEF Faithful
<1>6. Result(acc).topErrors = [m \in TopK(counts) |-> counts[m]]
  BY DEF Result
<1>7. TopK(counts) \subseteq DOMAIN counts
  BY DEF TopK
<1> DEFINE top == Result(acc).topErrors
<1> HIDE DEF counts, truth, top
<1>8. ASSUME NEW m \in DOMAIN top PROVE m \in Occurring(stream) /\ top[m] <= truth[m]
  <2>1. m \in DOMAIN counts /\ top[m] = counts[m]
    BY <1>6, <1>7 DEF top
  <2>2. m \in OccurringTo(stream, n) /\ counts[m] <= Cardinality(ErrorsTo(stream, n, m))
    BY <1>5, <2>1 DEF CountsTrue
  <2>3. truth[m] = Cardinality(ErrorsTo(stream, n, m))
    BY <1>4, <2>2 DEF Truth
  <2> QED
    BY <1>3, <2>1, <2>2, <2>3
<1>9. Cardinality(Occurring(stream)) <= MaxMessages => top = [m \in TopK(truth) |-> truth[m]]
  BY <1>3, <1>4, <1>5, <1>6 DEF CountsTrue, top
<1> QED
  BY <1>8, <1>9, Zenon DEF TrueTopErrors, truth, top

\* A larger divisor takes a quotient nearer to zero.
LEMMA QuotientShrinks ==
  ASSUME NEW s \in Int, NEW m \in Nat \ {0}, NEW n \in Nat, m <= n
  PROVE  IF s < 0 THEN Quotient(s, m) <= Quotient(s, n) ELSE Quotient(s, m) >= Quotient(s, n)
<1>1. CASE s < 0
  <2>1. PICK t \in Nat : t = -s
    BY <1>1
  <2>2. t \div m >= t \div n
    BY QuotientFalls
  <2>3. Quotient(s, m) = -(t \div m) /\ Quotient(s, n) = -(t \div n)
    BY <1>1, <2>1 DEF Quotient
  <2>4. t \div m \in Int /\ t \div n \in Int
    OBVIOUS
  <2> QED
    BY <1>1, <2>2, <2>3, <2>4
<1>2. CASE ~(s < 0)
  <2>1. s \in Nat
    BY <1>2
  <2>2. s \div m >= s \div n
    BY <2>1, QuotientFalls
  <2> QED
    BY <1>2, <2>2 DEF Quotient
<1> QED
  BY <1>1, <1>2

\* Percentiles and average of a window of any length.
LEMMA LatenciesAreSound ==
  ASSUME NEW stream \in Seq(Events), NEW acc \in After(stream)
  PROVE  TrueLatencies(Result(acc), stream)
<1> DEFINE timed == HasLatency(stream)
           n == Cardinality(timed)
           samples == acc.samples
           m == Len(samples)
           r == Result(acc)
           P(pct) == Percentile(samples, pct)
<1>1. Len(stream) \in Nat /\ DOMAIN stream = 1 .. Len(stream) /\ \A i \in 1 .. Len(stream) : stream[i] \in Events
  BY LenProperties
<1>2. /\ timed = TimedTo(stream, Len(stream))
      /\ \A v : UpTo(stream, v) = Cardinality(TakesTo(stream, Len(stream), v))
  BY <1>1 DEF HasLatency, TimedTo, TakesTo, UpTo
<1>3. acc \in Accumulators /\ SamplesTrue(acc, stream, Len(stream)) /\ acc.latencySum = TotalLatency(stream)
  BY WindowIsFaithful DEF Faithful
<1>4. n \in Nat /\ \A v : UpTo(stream, v) \in Nat
  BY <1>1, <1>2, TimedFinite
<1>5. MaxSamples \in Nat \ {0} /\ Latencies \subseteq Int
  BY AccumulatorConstants
<1>6. acc.latencySum \in Int /\ samples \in Seq(Latencies)
  BY <1>3, AccumulatorFields
<1>7. m \in Nat /\ samples \in [1 .. m -> Int]
  <2>1. m \in Nat /\ samples \in [1 .. m -> Latencies]
    BY <1>6, LenProperties
  <2> QED
    BY <1>5, <2>1
<1>8. /\ m = IF n <= MaxSamples THEN n ELSE MaxSamples
      /\ \A i \in 1 .. m : \E j \in timed : samples[i] = stream[j].latency
      /\ n <= MaxSamples => \A v \in Int : Cardinality(SamplesTo(samples, v)) = UpTo(stream, v)
  BY <1>2, <1>3 DEF SamplesTrue
<1>9. r.p50 = (IF m = 0 THEN NoLatency ELSE P(50)) /\ r.p95 = (IF m = 0 THEN NoLatency ELSE P(95))
      /\ r.p99 = (IF m = 0 THEN NoLatency ELSE P(99))
      /\ r.average = (IF m = 0 THEN NoLatency ELSE Quotient(acc.latencySum, m))
  BY DEF Result
<1>10. \A j \in timed : stream[j].latency \in Int
  BY <1>1, <1>5 DEF HasLatency, Events
<1> HIDE DEF timed, n, samples, m, r, P
<1>11. CASE n = 0
  <2>1. m = 0
    BY <1>5, <1>8, <1>11
  <2>2. r.p50 = NoLatency /\ r.p95 = NoLatency /\ r.p99 = NoLatency /\ r.average = NoLatency
    BY <1>9, <2>1
  <2>3. {r.p50, r.p95, r.p99, r.average} = {NoLatency}
    BY <2>2
  <2> QED
    BY <1>11, <2>3, Zenon DEF TrueLatencies, n, r, timed
<1>12. CASE n # 0
  <2>1. m \in Nat \ {0} /\ m <= n /\ (n <= MaxSamples => m = n) /\ n \in Nat \ {0}
    BY <1>4, <1>5, <1>8, <1>12
  <2>2. /\ Rank(m, 50) \in 1 .. m /\ Rank(m, 95) \in 1 .. m /\ Rank(m, 99) \in 1 .. m
        /\ Rank(m, 50) <= Rank(m, 95) /\ Rank(m, 95) <= Rank(m, 99)
    BY <2>1, RankBounds, RankRises
  <2>3. P(50) <= P(95) /\ P(95) <= P(99)
    BY <1>7, <2>2, PercentileRises DEF P, m
  <2>4. ASSUME NEW pct \in {50, 95, 99}
        PROVE  /\ P(pct) \in {stream[i].latency : i \in timed}
               /\ n <= MaxSamples => IsNearestRank(P(pct), stream, pct)
    <3>1. /\ \E i \in 1 .. m : P(pct) = samples[i]
          /\ P(pct) \in Int
          /\ Cardinality(SamplesTo(samples, P(pct))) >= Rank(m, pct)
          /\ \A w \in Int : w < P(pct) => Cardinality(SamplesTo(samples, w)) < Rank(m, pct)
      <4>1. Rank(m, pct) \in 1 .. m /\ Len(samples) = m
        BY <2>2 DEF m
      <4> QED
        BY <1>7, <4>1, PercentileFound DEF P
    <3>2. P(pct) \in {stream[i].latency : i \in timed}
      BY <1>8, <3>1
    <3>3. ASSUME n <= MaxSamples PROVE IsNearestRank(P(pct), stream, pct)
      <4>1. /\ 100 * Rank(n, pct) >= pct * n /\ 100 * (Rank(n, pct) - 1) < pct * n /\ Rank(n, pct) \in Nat
        BY <2>1, RankBounds DEF Rank
      <4>2. UpTo(stream, P(pct)) >= Rank(n, pct)
        BY <1>8, <2>1, <3>1, <3>3
      <4>3. UpTo(stream, P(pct)) * 100 >= pct * n
        BY <1>4, <4>1, <4>2
      <4>4. ASSUME NEW i \in timed, UpTo(stream, stream[i].latency) * 100 >= pct * n
            PROVE  P(pct) <= stream[i].latency
        <5>1. SUFFICES ASSUME stream[i].latency < P(pct) PROVE FALSE
          BY <1>10, <3>1
        <5>2. UpTo(stream, stream[i].latency) < Rank(n, pct)
          BY <1>8, <1>10, <2>1, <3>1, <3>3, <5>1
        <5>3. UpTo(stream, stream[i].latency) \in Nat
          BY <1>4
        <5>4. pct * n \in Nat
          BY <1>4
        <5> QED
          BY <4>1, <4>4, <5>2, <5>3, <5>4
      <4> QED
        BY <4>3, <4>4, Zenon DEF IsNearestRank, n, timed
    <3> QED
      BY <3>2, <3>3
  <2>5. IF acc.latencySum < 0
        THEN Quotient(acc.latencySum, m) <= Quotient(acc.latencySum, n)
        ELSE Quotient(acc.latencySum, m) >= Quotient(acc.latencySum, n)
    BY <1>6, <2>1, QuotientShrinks
  <2>6. r.p50 = P(50) /\ r.p95 = P(95) /\ r.p99 = P(99) /\ r.average = Quotient(acc.latencySum, m)
    BY <1>9, <2>1
  <2> DEFINE total == TotalLatency(stream)
             average == Quotient(total, n)
  <2>7. /\ IF total < 0 THEN r.average <= average ELSE r.average >= average
        /\ n <= MaxSamples => r.average = average
    BY <1>3, <2>1, <2>5, <2>6
  <2>8. {r.p50, r.p95, r.p99} \subseteq {stream[i].latency : i \in timed}
    BY <2>4, <2>6
  <2>9. n <= MaxSamples => /\ IsNearestRank(r.p50, stream, 50) /\ IsNearestRank(r.p95, stream, 95)
                           /\ IsNearestRank(r.p99, stream, 99)
    BY <2>4, <2>6
  <2>10. r.p50 <= r.p95 /\ r.p95 <= r.p99
    BY <2>3, <2>6
  <2> QED
    BY <1>12, <2>7, <2>8, <2>9, <2>10, Zenon DEF TrueLatencies, n, r, timed
<1> QED
  BY <1>11, <1>12

\* In every state, and for every number of events a window may get, what it
\* reports of them is true: percentiles and averages
\* (WindowResultFunction.process, WindowAccumulator.addLatency).
THEOREM LatenciesReportedAreTrue == LoopSpec => []LatenciesAreTrue
<1>1. ASSUME NEW stream \in StreamsOf(Timed) PROVE stream \in Seq(Events)
  <2>1. PICK n \in Nat : stream \in [1 .. n -> Timed]
    BY AccumulatorConstants DEF StreamsOf
  <2>2. Timed \subseteq Events
    BY DEF Timed, Events, Levels
  <2>3. stream \in [1 .. n -> Events]
    BY <2>1, <2>2
  <2> QED
    BY <2>3, FunctionIsSeq
<1>2. UntrueLatencies = {}
  BY <1>1, LatenciesAreSound, Zenon DEF UntrueLatencies
<1>3. LatenciesAreTrue
  BY <1>2, Zenon DEF LatenciesAreTrue
<1> QED
  BY <1>3, PTL

\* The same of the most frequent error messages
\* (WindowAccumulator.addErrorMessage, WindowResultFunction.topK).
THEOREM TopErrorsReportedAreTrue == LoopSpec => []TopErrorsAreTrue
<1>1. ASSUME NEW stream \in StreamsOf(Named) PROVE stream \in Seq(Events)
  <2>1. PICK n \in Nat : stream \in [1 .. n -> Named]
    BY AccumulatorConstants DEF StreamsOf
  <2>2. Named \subseteq Events
    BY DEF Named, Events, Levels
  <2>3. stream \in [1 .. n -> Events]
    BY <2>1, <2>2
  <2> QED
    BY <2>3, FunctionIsSeq
<1>2. UntrueTopErrors = {}
  BY <1>1, TopErrorsAreSound, Zenon DEF UntrueTopErrors
<1>3. TopErrorsAreTrue
  BY <1>2, Zenon DEF TopErrorsAreTrue
<1> QED
  BY <1>3, PTL

-----------------------------------------------------------------------------
(* The window that is open is one of those: its accumulator is what some     *)
(* stream of events leaves, however long.                                    *)

LEMMA AfterAppend ==
  ASSUME NEW stream \in Seq(Events), NEW event \in Events, NEW acc \in After(stream),
         NEW b \in Add(acc, event)
  PROVE  b \in After(Append(stream, event))
<1> DEFINE n == Len(stream)
           longer == Append(stream, event)
<1>1. /\ n \in Nat /\ Len(longer) = n + 1 /\ longer[n + 1] = event
      /\ \A k \in 1 .. n : longer[k] = stream[k]
  BY LenProperties, AppendProperties
<1> HIDE DEF longer
<1>2. PICK f : IsAfter(f, stream, n) /\ After(stream) = f[n]
  BY <1>1, AfterUnfolds
<1>3. PICK g : IsAfter(g, longer, n + 1) /\ After(longer) = g[n + 1]
  <2>1. Len(longer) \in Nat
    BY <1>1
  <2> QED
    BY <1>1, <2>1, AfterUnfolds
<1> DEFINE Bad == {k \in 0 .. n : f[k] # g[k]}
<1>4. Bad = {}
  <2>1. SUFFICES ASSUME Bad # {} PROVE FALSE
    OBVIOUS
  <2>2. PICK k \in Bad : \A j \in Bad : k <= j
    <3>1. Bad \in SUBSET Nat
      BY <1>1
    <3> HIDE DEF Bad
    <3> QED
      BY <2>1, <3>1, LeastNat
  <2>3. k \in 0 .. n /\ f[k] # g[k] /\ k \in 0 .. n + 1
    BY <1>1
  <2>4. f[k] = IF k = 0 THEN {EmptyAccumulator} ELSE UNION {Add(a, stream[k]) : a \in f[k - 1]}
    BY <1>2, <2>3, Zenon DEF IsAfter
  <2>5. g[k] = IF k = 0 THEN {EmptyAccumulator} ELSE UNION {Add(a, longer[k]) : a \in g[k - 1]}
    BY <1>3, <2>3, Zenon DEF IsAfter
  <2>6. k # 0 => f[k - 1] = g[k - 1] /\ longer[k] = stream[k]
    <3>1. k # 0 => k - 1 \in 0 .. n /\ k \in 1 .. n /\ ~(k <= k - 1)
      BY <1>1, <2>3
    <3>2. k # 0 => k - 1 \notin Bad
      <4> HIDE DEF Bad
      <4> QED
        BY <2>2, <3>1
    <3> QED
      BY <1>1, <3>1, <3>2
  <2>7. k # 0 => f[k] = UNION {Add(a, stream[k]) : a \in f[k - 1]}
                 /\ g[k] = UNION {Add(a, stream[k]) : a \in f[k - 1]}
    BY <2>4, <2>5, <2>6
  <2> QED
    BY <2>3, <2>4, <2>5, <2>7
<1>5. acc \in g[n]
  BY <1>1, <1>2, <1>4
<1>6. g[n + 1] = UNION {Add(a, longer[n + 1]) : a \in g[n]}
  <2>1. PICK k \in 0 .. n + 1 : k = n + 1
    BY <1>1
  <2>2. k # 0 /\ k - 1 = n
    BY <1>1, <2>1
  <2>3. g[k] = IF k = 0 THEN {EmptyAccumulator} ELSE UNION {Add(a, longer[k]) : a \in g[k - 1]}
    BY <1>3, Zenon DEF IsAfter
  <2>4. g[k] = UNION {Add(a, longer[k]) : a \in g[n]}
    BY <2>2, <2>3
  <2> QED
    BY <2>1, <2>4, Zenon
<1> QED
  BY <1>1, <1>3, <1>5, <1>6 DEF longer

LEMMA EmptyIsAfterNothing == EmptyAccumulator \in After(<<>>)
<1>1. <<>> \in Seq(Events) /\ Len(<<>>) = 0
  BY EmptySeq
<1>2. PICK f : IsAfter(f, <<>>, 0) /\ After(<<>>) = f[0]
  BY <1>1, AfterUnfolds
<1>3. f[0] = {EmptyAccumulator}
  <2>1. 0 \in 0 .. 0
    OBVIOUS
  <2> QED
    BY <1>2, <2>1, Zenon DEF IsAfter
<1> QED
  BY <1>2, <1>3

OfAStream == \E stream \in Seq(Events) : accumulator \in After(stream)

\* The window that is open, or lets late events in, reports the truth about the
\* events that were added to it.
WindowIsTrue ==
    \E stream \in Seq(Events) :
        /\ accumulator \in After(stream)
        /\ TrueLatencies(Result(accumulator), stream)
        /\ TrueTopErrors(Result(accumulator), stream)

LEMMA OfAStreamStep == OfAStream /\ [LoopNext]_loopVars => OfAStream'
<1> SUFFICES ASSUME OfAStream, [LoopNext]_loopVars PROVE OfAStream'
  OBVIOUS
<1>1. \/ \E e \in Traffic : accumulator' \in Add(accumulator, e)
      \/ accumulator' = EmptyAccumulator
      \/ accumulator' = accumulator
  <2>1. CASE Operator
    BY <2>1 DEF Operator, Fire, Clear, AddInTime, AddLate
  <2>2. CASE Start \/ Poll \/ Take
    BY <2>2 DEF Start, Poll, Take, windowVars
  <2>3. CASE ProcessWindow \/ CloseConsumer \/ CloseEmitter
    BY <2>3 DEF ProcessWindow, CloseConsumer, CloseEmitter, windowVars
  <2>4. CASE Signal \/ Kill \/ \E o \in Offsets : Deliver(o)
    BY <2>4 DEF Signal, Kill, Deliver, windowVars
  <2>5. CASE UNCHANGED loopVars
    BY <2>5 DEF loopVars, windowVars
  <2> QED
    BY <2>1, <2>2, <2>3, <2>4, <2>5 DEF LoopNext, Main
<1>2. ASSUME NEW e \in Traffic, accumulator' \in Add(accumulator, e) PROVE OfAStream'
  <2>1. PICK stream \in Seq(Events) : accumulator \in After(stream)
    BY DEF OfAStream
  <2>2. e \in Events
    BY LoopConstants
  <2>3. Append(stream, e) \in Seq(Events)
    BY <2>2, AppendProperties
  <2>4. accumulator' \in After(Append(stream, e))
    BY <1>2, <2>1, <2>2, AfterAppend
  <2> QED
    BY <2>3, <2>4 DEF OfAStream
<1>3. CASE accumulator' = EmptyAccumulator
  BY <1>3, EmptyIsAfterNothing, EmptySeq DEF OfAStream
<1>4. CASE accumulator' = accumulator
  BY <1>4 DEF OfAStream
<1> QED
  BY <1>1, <1>2, <1>3, <1>4

\* Every window of the loop, after any number of events in time and late, has a
\* stream whose percentiles, average and top errors it reports truly
\* (ServiceWindowAggregator.add, WindowResultFunction.process).
THEOREM EveryWindowIsTrue == LoopSpec => []WindowIsTrue
<1>1. LoopInit => OfAStream
  BY EmptyIsAfterNothing, EmptySeq DEF LoopInit, OfAStream
<1>2. OfAStream => WindowIsTrue
  BY LatenciesAreSound, TopErrorsAreSound, Zenon DEF OfAStream, WindowIsTrue
<1> QED
  BY <1>1, <1>2, OfAStreamStep, PTL DEF LoopSpec
=============================================================================
