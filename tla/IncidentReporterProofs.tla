------------------------ MODULE IncidentReporterProofs -----------------------
(***************************************************************************)
(* The reporter process, for every number of events, crashes, evictions,   *)
(* stops and commits that fail, and every setting of its dispatcher.       *)
(***************************************************************************)
EXTENDS IncidentReporter, AlertDispatcherProofs

Handled(e) == e \in rejected \cup finished \cup swallowed \cup abandoned

\* Calls of dispatch() that a crash or an eviction, other than the one the
\* consumer has not noticed yet, may have made before this run.
Earlier == crashes + evictions + failedCommits - (IF member THEN 0 ELSE 1)

\* The batch is made of records that decode, and what is past process() is an
\* event of a service.
Decoded ==
    /\ \A o \in cursor .. position - 1 : partition[o] # Undecodable
    /\ event # 0 => event < cursor /\ partition[event] # Undecodable
    /\ stage \in {"generate", "store", "dispatch", "dispatching"} => partition[event] # Malformed

\* What comes before the cursor is handled or in hand.
Behind ==
    /\ \A e \in 1 .. committed - 1 : Handled(e)
    /\ stage # "down" => \A e \in 1 .. cursor - 1 : Handled(e) \/ e = event
    /\ stage = "poll" => \A e \in 1 .. position - 1 : Handled(e)

\* What is before the process was dispatched by earlier ones only.
Counted ==
    /\ \A e \in Offsets : dispatches[e] <= 1 + crashes + evictions + failedCommits
    /\ stage = "down" =>
          \A e \in Offsets : e >= committed => dispatches[e] <= crashes + evictions + failedCommits
    /\ stage # "down" =>
          /\ \A e \in Offsets : dispatches[e] <= 1 + Earlier
          /\ \A e \in Offsets : e >= cursor => dispatches[e] <= Earlier
    /\ stage \in {"process", "generate", "store", "dispatch"} => dispatches[event] <= Earlier

Bounded ==
    /\ Len(partition) <= MaxEvents
    /\ crashes \in Nat /\ evictions \in Nat /\ failedCommits \in Nat
    /\ dispatches \in [Offsets -> Nat]

ReporterInv == ReporterTypeOK /\ Decoded /\ Behind /\ Counted /\ Bounded

-----------------------------------------------------------------------------
LEMMA ReporterInvInit == ReporterInit => ReporterInv
<1> SUFFICES ASSUME ReporterInit PROVE ReporterInv
  OBVIOUS
<1> USE ReporterConstants DEF ReporterInit
<1>1. Len(partition) = 0 /\ partition \in Seq(Services \cup Junk)
  BY EmptySeq
<1>2. ReporterTypeOK
  BY <1>1 DEF ReporterTypeOK, Stages
<1>3. Bounded
  BY <1>1 DEF Bounded
<1>4. Decoded /\ Behind
  BY DEF Decoded, Behind
<1>5. Counted
  BY DEF Counted, Earlier
<1> QED
  BY <1>2, <1>3, <1>4, <1>5 DEF ReporterInv

\* The type of what the steps of an event leave alone.
Offered ==
    /\ partition \in Seq(Services \cup Junk) /\ Len(partition) \in Nat
    /\ committed \in Nat /\ position \in Nat /\ cursor \in Nat /\ event \in Nat
    /\ 1 <= committed /\ committed <= position /\ 1 <= cursor /\ cursor <= position
    /\ position <= Len(partition) + 1 /\ event <= Len(partition)
    /\ stage # "down" => committed <= cursor
    /\ running \in BOOLEAN
    /\ member \in BOOLEAN

OfferedAndTyped ==
    /\ stage \in Stages
    /\ event # 0 <=> stage \notin {"down", "poll", "batch"}
    /\ attempt \in 0 .. MaxRetries - 1
    /\ attempt # 0 => stage = "generate"
    /\ rejected \cup swallowed \cup stored \cup finished \cup abandoned \subseteq 1 .. Len(partition)

LEMMA TypeInTwo == ReporterTypeOK <=> Offered /\ OfferedAndTyped
<1>1. ASSUME ReporterTypeOK PROVE Offered /\ OfferedAndTyped
  <2>1. Len(partition) \in Nat
    BY <1>1, LenProperties DEF ReporterTypeOK
  <2>2. Offered
    BY <1>1, <2>1 DEF ReporterTypeOK, Offered
  <2> QED
    BY <1>1, <2>2 DEF ReporterTypeOK, OfferedAndTyped
<1>2. ASSUME Offered, OfferedAndTyped PROVE ReporterTypeOK
  BY <1>2 DEF ReporterTypeOK, Offered, OfferedAndTyped
<1> QED
  BY <1>1, <1>2

-----------------------------------------------------------------------------
\* A step of the event in hand, none of which touches the consumer.
LEMMA EventSteps ==
  ASSUME ReporterInv,
         \/ Reject \/ Enrich \/ Retry \/ Generate \/ Store
         \/ CallDispatch \/ DispatchRaises \/ Dispatched
  PROVE  ReporterInv'
<1> USE DEF ReporterInv, bounds, reporterHistory
<1>1. Offered /\ OfferedAndTyped /\ Bounded
  BY TypeInTwo
<1>2. UNCHANGED <<partition, committed, running, member, position, cursor, crashes, evictions,
                  failedCommits, abandoned>>
  BY DEF Reject, Enrich, Retry, Generate, Store, CallDispatch, DispatchRaises, Dispatched
<1>3. /\ stage \in {"process", "generate", "store", "dispatch", "dispatching"}
      /\ stage' \in {"batch", "generate", "store", "dispatch", "dispatching"}
      /\ stage' = "batch" <=> event' = 0
      /\ event' \in {0, event} /\ event # 0
      /\ stage' # "batch" /\ stage = "process" => partition[event] # Malformed
      /\ stage = "dispatching" => stage' = "batch"
      /\ stage' = "batch" => event \in rejected' \cup finished' \cup swallowed'
  BY <1>1 DEF Reject, Enrich, Retry, Generate, Store, CallDispatch, DispatchRaises, Dispatched,
              OfferedAndTyped
<1>4. /\ rejected \subseteq rejected' /\ finished \subseteq finished' /\ swallowed \subseteq swallowed'
      /\ rejected' \cup swallowed' \cup stored' \cup finished' \subseteq 1 .. Len(partition)
  BY <1>1 DEF Reject, Enrich, Retry, Generate, Store, CallDispatch, DispatchRaises, Dispatched,
              OfferedAndTyped, Offered
<1>5. attempt' \in 0 .. MaxRetries - 1 /\ (attempt' # 0 => stage' = "generate")
  BY <1>1, ReporterConstants
     DEF Reject, Enrich, Retry, Generate, Store, CallDispatch, DispatchRaises, Dispatched,
         OfferedAndTyped
<1>6. ReporterTypeOK'
  <2>1. Offered'
    <3>1. event' \in Nat /\ event' <= Len(partition)
      BY <1>1, <1>3 DEF Offered
    <3>2. (stage # "down" => committed <= cursor)'
      BY <1>1, <1>2, <1>3 DEF Offered
    <3> QED
      BY <1>1, <1>2, <3>1, <3>2 DEF Offered
  <2>2. OfferedAndTyped'
    <3>1. (event # 0 <=> stage \notin {"down", "poll", "batch"})'
      BY <1>3
    <3>2. (rejected \cup swallowed \cup stored \cup finished \cup abandoned \subseteq 1 .. Len(partition))'
      BY <1>1, <1>2, <1>4 DEF OfferedAndTyped
    <3>3. stage' \in Stages
      BY <1>3 DEF Stages
    <3> QED
      BY <1>5, <3>1, <3>2, <3>3 DEF OfferedAndTyped
  <2>3. (ReporterTypeOK <=> Offered /\ OfferedAndTyped)'
    BY TypeInTwo, PTL
  <2> QED
    BY <2>1, <2>2, <2>3
<1>7. Decoded'
  BY <1>2, <1>3 DEF Decoded
<1>8. Behind'
  <2> DEFINE handled == rejected \cup finished \cup swallowed \cup abandoned
  <2>1. handled \subseteq handled'
    BY <1>2, <1>4
  <2>2. stage' = "batch" => event \in handled'
    BY <1>3
  <2>3. \A e \in 1 .. committed - 1 : e \in handled
    BY DEF Behind, Handled
  <2>4. \A e \in 1 .. cursor - 1 : e \in handled \/ e = event
    BY <1>3 DEF Behind, Handled
  <2>5. \A e \in 1 .. cursor - 1 : e \in handled' \/ e = event'
    BY <1>3, <2>1, <2>2, <2>4
  <2> QED
    BY <1>2, <1>3, <2>1, <2>3, <2>5 DEF Behind, Handled
<1>9. Counted' /\ Bounded'
  <2>1. Earlier' = Earlier /\ Earlier \in Int /\ event \in Offsets
    <3>1. Earlier' = Earlier
      BY <1>2 DEF Earlier
    <3>2. Earlier \in Int
      BY <1>1 DEF Earlier, Bounded
    <3>3. event \in Offsets
      BY <1>1, <1>3, ReporterConstants DEF Bounded, Offered, Offsets
    <3> QED
      BY <3>1, <3>2, <3>3
  <2>2. CASE CallDispatch
    <3>1. dispatches' = [dispatches EXCEPT ![event] = @ + 1] /\ stage = "dispatch"
          /\ stage' = "dispatching" /\ event' = event
      BY <2>2 DEF CallDispatch
    <3>2. dispatches[event] <= Earlier /\ event < cursor
      BY <1>3, <3>1 DEF Counted, Decoded
    <3>3. Earlier <= crashes + evictions + failedCommits
      BY <1>1 DEF Earlier, Bounded
    <3>4. dispatches'[event] = dispatches[event] + 1
      BY <1>1, <2>1, <3>1 DEF Bounded
    <3>5. \A e \in Offsets \ {event} : dispatches'[e] = dispatches[e]
      BY <1>1, <2>1, <3>1 DEF Bounded
    <3>6. Bounded'
      BY <1>1, <1>2, <2>1, <3>1 DEF Bounded
    <3>7. Counted'
      <4>1. ASSUME NEW e \in Offsets
            PROVE  /\ dispatches'[e] <= 1 + crashes + evictions + failedCommits
                   /\ dispatches'[e] <= 1 + Earlier
                   /\ e >= cursor => dispatches'[e] <= Earlier
        <5>1. CASE e = event
          BY <1>1, <2>1, <3>2, <3>3, <3>4, <5>1 DEF Bounded, Offered
        <5>2. CASE e # event
          BY <3>1, <3>5, <5>2 DEF Counted
        <5> QED
          BY <5>1, <5>2
      <4> QED
        BY <1>2, <2>1, <3>1, <4>1 DEF Counted
    <3> QED
      BY <3>6, <3>7
  <2>3. CASE ~CallDispatch
    <3>1. UNCHANGED dispatches
      BY <2>3 DEF Reject, Enrich, Retry, Generate, Store, DispatchRaises, Dispatched
    <3>2. stage' \in {"generate", "store", "dispatch"} => stage \in {"process", "generate", "store", "dispatch"}
                                                      /\ event' = event
      BY <1>3
    <3> QED
      BY <1>1, <1>2, <1>3, <2>1, <3>1, <3>2 DEF Counted, Bounded
  <2> QED
    BY <2>2, <2>3
<1> QED
  BY <1>6, <1>7, <1>8, <1>9

\* The parts of the invariant in the next state are the invariant.
LEMMA PartsOfInv ==
  ASSUME Offered', OfferedAndTyped', Decoded', Behind', Counted', Bounded'
  PROVE  ReporterInv'
<1>1. (ReporterTypeOK <=> Offered /\ OfferedAndTyped)'
  BY TypeInTwo, PTL
<1> QED
  BY <1>1 DEF ReporterInv

\* More is published.
LEMMA PublishStep == ASSUME ReporterInv, Publish PROVE ReporterInv'
<1> USE DEF ReporterInv, bounds, reporterHistory
<1>1. Offered /\ OfferedAndTyped /\ Bounded
  BY TypeInTwo
<1>2. PICK s \in Services \cup Junk : partition' = Append(partition, s)
  BY DEF Publish
<1>3. /\ UNCHANGED <<committed, stage, running, member, position, cursor, event, attempt, crashes,
                     evictions, failedCommits, rejected, swallowed, stored, dispatches, finished, abandoned>>
      /\ Len(partition) < MaxEvents
  BY DEF Publish
<1>4. /\ Len(partition') = Len(partition) + 1 /\ partition' \in Seq(Services \cup Junk)
      /\ \A o \in 1 .. Len(partition) : partition'[o] = partition[o]
  BY <1>1, <1>2 DEF Offered
<1>5. Offered' /\ Bounded'
  BY <1>1, <1>3, <1>4, ReporterConstants DEF Offered, Bounded
<1>6. OfferedAndTyped'
  BY <1>1, <1>3, <1>4 DEF OfferedAndTyped, Offered
<1>7. Decoded'
  <2>1. event # 0 => event \in 1 .. Len(partition)
    BY <1>1 DEF Offered
  <2>2. cursor .. position - 1 \subseteq 1 .. Len(partition)
    BY <1>1 DEF Offered
  <2>3. stage \in {"generate", "store", "dispatch", "dispatching"} => event # 0
    BY <1>1 DEF OfferedAndTyped
  <2> QED
    BY <1>3, <1>4, <2>1, <2>2, <2>3 DEF Decoded
<1>8. Behind'
  BY <1>3 DEF Behind, Handled
<1>9. Counted'
  BY <1>3 DEF Counted, Earlier
<1> QED
  BY <1>5, <1>6, <1>7, <1>8, <1>9, PartsOfInv

\* The loop asks for a batch, or goes through it.
LEMMA PollStep == ASSUME ReporterInv, Poll PROVE ReporterInv'
<1> USE DEF ReporterInv, bounds, reporterHistory
<1>1. Offered /\ OfferedAndTyped /\ Bounded
  BY TypeInTwo
<1>2. /\ stage = "poll" /\ stage' = "batch" /\ event = 0 /\ cursor' = position
      /\ committed' \in {committed, position}
      /\ position' \in position .. Len(partition) + 1
      /\ \A o \in position .. position' - 1 : partition[o] # Undecodable
      /\ UNCHANGED <<partition, running, member, event, attempt, crashes, evictions, failedCommits,
                     rejected, swallowed, stored, dispatches, finished, abandoned>>
  BY <1>1 DEF Poll, Batches, MaybeCommit, OfferedAndTyped
<1>3. Offered'
  BY <1>1, <1>2 DEF Offered
<1>4. OfferedAndTyped'
  BY <1>1, <1>2 DEF OfferedAndTyped, Stages
<1>5. Decoded' /\ Bounded'
  BY <1>1, <1>2 DEF Decoded, Bounded
<1>6. Behind'
  BY <1>1, <1>2 DEF Behind, Handled, Offered
<1>7. Counted'
  <2>1. Earlier' = Earlier
    BY <1>2 DEF Earlier
  <2>2. \A e \in Offsets : e >= position => e >= cursor
    BY <1>1 DEF Offered, Offsets
  <2> QED
    BY <1>2, <2>1, <2>2 DEF Counted
<1> QED
  BY <1>3, <1>4, <1>5, <1>6, <1>7, PartsOfInv

LEMMA TakeStep == ASSUME ReporterInv, Take PROVE ReporterInv'
<1> USE DEF ReporterInv, bounds, reporterHistory
<1>1. Offered /\ OfferedAndTyped /\ Bounded
  BY TypeInTwo
<1>2. /\ stage = "batch" /\ event = 0
      /\ UNCHANGED <<partition, committed, running, member, position, attempt, crashes,
                     evictions, failedCommits, rejected, swallowed, stored, dispatches,
                     finished>>
  BY <1>1 DEF Take, OfferedAndTyped
<1>3. Bounded' /\ Earlier' = Earlier
  BY <1>1, <1>2 DEF Bounded, Earlier
<1>4. CASE stage' = "poll"
  <2>1. abandoned' = abandoned \cup (cursor .. position - 1) /\ UNCHANGED <<cursor, event>>
    BY <1>4 DEF Take
  <2>2. Offered'
    BY <1>1, <1>2, <1>4, <2>1 DEF Offered
  <2>3. OfferedAndTyped'
    <3>1. cursor .. position - 1 \subseteq 1 .. Len(partition)
      BY <1>1 DEF Offered
    <3> QED
      BY <1>1, <1>2, <1>4, <2>1, <3>1 DEF OfferedAndTyped, Stages
  <2>4. Decoded'
    BY <1>2, <1>4, <2>1 DEF Decoded
  <2>5. Behind'
    <3>1. \A e \in 1 .. position - 1 : e \in 1 .. cursor - 1 \/ e \in cursor .. position - 1
      BY <1>1 DEF Offered
    <3>2. \A e \in 1 .. cursor - 1 : e \in rejected \cup finished \cup swallowed \cup abandoned
      BY <1>2 DEF Behind, Handled
    <3> QED
      BY <1>2, <1>4, <2>1, <3>1, <3>2 DEF Behind, Handled
  <2>6. Counted'
    BY <1>2, <1>3, <1>4, <2>1 DEF Counted
  <2> QED
    BY <1>3, <2>2, <2>3, <2>4, <2>5, <2>6, PartsOfInv
<1>5. CASE stage' # "poll"
  <2>1. /\ cursor < position /\ stage' = "process" /\ event' = cursor /\ cursor' = cursor + 1
        /\ UNCHANGED abandoned
    BY <1>5 DEF Take
  <2>2. Offered'
    BY <1>1, <1>2, <2>1 DEF Offered
  <2>3. OfferedAndTyped'
    BY <1>1, <1>2, <2>1 DEF OfferedAndTyped, Offered, Stages
  <2>4. Decoded'
    BY <1>1, <1>2, <2>1 DEF Decoded, Offered
  <2>5. Behind'
    BY <1>1, <1>2, <2>1 DEF Behind, Handled, Offered
  <2>6. Counted'
    <3>1. cursor \in Offsets /\ dispatches[cursor] <= Earlier
      BY <1>1, <1>2, <2>1, ReporterConstants DEF Counted, Offered, Bounded, Offsets
    <3>2. \A e \in Offsets : e >= cursor + 1 => e >= cursor
      BY <1>1 DEF Offsets, Offered
    <3> QED
      BY <1>2, <1>3, <2>1, <3>1, <3>2 DEF Counted
  <2> QED
    BY <1>3, <2>2, <2>3, <2>4, <2>5, <2>6, PartsOfInv
<1> QED
  BY <1>4, <1>5

\* The process ends: closed, by an exception of poll(), or killed.
LEMMA EndStep == ASSUME ReporterInv, PollRaises \/ Close \/ Crash PROVE ReporterInv'
<1> USE DEF ReporterInv, bounds, reporterHistory
<1>1. Offered /\ OfferedAndTyped /\ Bounded
  BY TypeInTwo
<1>2. /\ stage # "down" /\ stage' = "down" /\ event' = 0 /\ attempt' = 0
      /\ UNCHANGED <<partition, running, member, position, cursor, evictions, rejected,
                     swallowed, stored, dispatches, finished, abandoned>>
      /\ \/ /\ stage = "poll" /\ member /\ committed' = position
            /\ crashes' = crashes /\ failedCommits' = failedCommits
         \/ /\ committed' = committed
            /\ \/ crashes' = crashes /\ failedCommits' = failedCommits /\ ~member
               \/ crashes' = crashes + 1 /\ failedCommits' = failedCommits
               \/ crashes' = crashes /\ failedCommits' = failedCommits + 1
  <2>1. CASE PollRaises \/ Close
    <3>1. stage = "poll" /\ event = 0 /\ attempt = 0
      BY <1>1, <2>1 DEF PollRaises, Close, OfferedAndTyped
    <3> QED
      BY <2>1, <3>1 DEF PollRaises, Close, End, CommitAtClose
  <2>2. CASE Crash
    BY <2>2 DEF Crash
  <2> QED
    BY <2>1, <2>2
<1>3. Offered' /\ Bounded'
  <2>1. committed' \in {committed, position} /\ crashes' \in {crashes, crashes + 1}
        /\ failedCommits' \in {failedCommits, failedCommits + 1}
    BY <1>2
  <2>2. committed' \in Nat /\ 1 <= committed' /\ committed' <= position /\ crashes' \in Nat
        /\ failedCommits' \in Nat
    BY <1>1, <2>1 DEF Offered, Bounded
  <2>3. Offered'
    BY <1>1, <1>2, <2>2 DEF Offered
  <2> QED
    BY <1>1, <1>2, <2>2, <2>3 DEF Bounded
<1>4. OfferedAndTyped' /\ Decoded'
  BY <1>1, <1>2, ReporterConstants DEF OfferedAndTyped, Decoded, Stages
<1>5. Behind'
  BY <1>2 DEF Behind, Handled
<1>6. Counted'
  <2>1. ASSUME NEW e \in Offsets
        PROVE  /\ dispatches[e] <= 1 + crashes' + evictions + failedCommits'
               /\ e >= committed' => dispatches[e] <= crashes' + evictions + failedCommits'
    <3>1. /\ dispatches[e] \in Nat /\ dispatches[e] <= 1 + Earlier
          /\ e >= cursor => dispatches[e] <= Earlier
      BY <1>1, <1>2 DEF Counted, Bounded
    <3>2. \/ Earlier = crashes + evictions + failedCommits
          \/ ~member /\ Earlier = crashes + evictions + failedCommits - 1
      BY <1>1 DEF Earlier, Bounded
    <3>3. /\ crashes \in Nat /\ evictions \in Nat /\ failedCommits \in Nat
          /\ e \in Nat /\ cursor \in Nat /\ position \in Nat
      BY <1>1 DEF Bounded, Offered, Offsets
    <3>4. CASE /\ stage = "poll" /\ member /\ committed' = position
               /\ crashes' = crashes /\ failedCommits' = failedCommits
      <4>1. cursor <= position
        BY <1>1 DEF Offered
      <4> QED
        BY <3>1, <3>2, <3>3, <3>4, <4>1
    <3>5. CASE crashes' = crashes /\ failedCommits' = failedCommits /\ ~member
      BY <3>1, <3>2, <3>3, <3>5 DEF Earlier
    <3>6. CASE \/ crashes' = crashes + 1 /\ failedCommits' = failedCommits
               \/ crashes' = crashes /\ failedCommits' = failedCommits + 1
      BY <3>1, <3>2, <3>3, <3>6
    <3> QED
      BY <1>2, <3>4, <3>5, <3>6
  <2> QED
    BY <1>2, <2>1 DEF Counted
<1> QED
  BY <1>3, <1>4, <1>5, <1>6, PartsOfInv

\* It begins at the committed offset, again or in a new process.
LEMMA ResumeStep == ASSUME ReporterInv, Rejoin \/ Start PROVE ReporterInv'
<1> USE DEF ReporterInv, bounds, reporterHistory
<1>1. Offered /\ OfferedAndTyped /\ Bounded
  BY TypeInTwo
<1>2. /\ stage \in {"poll", "down"} /\ stage' = "poll" /\ event = 0 /\ member' = TRUE
      /\ position' = committed /\ cursor' = committed /\ running' \in BOOLEAN
      /\ stage = "poll" => ~member
      /\ UNCHANGED <<partition, committed, event, attempt, crashes, evictions, failedCommits,
                     rejected, swallowed, stored, dispatches, finished, abandoned>>
  BY <1>1 DEF Rejoin, Start, ResumeOffset, OfferedAndTyped, Offered
<1>3. Offered' /\ Bounded'
  BY <1>1, <1>2 DEF Offered, Bounded
<1>4. OfferedAndTyped' /\ Decoded'
  BY <1>1, <1>2 DEF OfferedAndTyped, Decoded, Stages, Offered
<1>5. Behind'
  BY <1>2 DEF Behind, Handled
<1>6. Counted'
  <2>1. Earlier' = crashes + evictions + failedCommits
    BY <1>1, <1>2 DEF Earlier, Bounded
  <2>2. ASSUME NEW e \in Offsets
        PROVE  /\ dispatches[e] <= 1 + crashes + evictions + failedCommits
               /\ e >= committed => dispatches[e] <= crashes + evictions + failedCommits
    <3>1. stage = "poll" => dispatches[e] <= 1 + (crashes + evictions + failedCommits - 1)
      BY <1>2 DEF Counted, Earlier
    <3>2. dispatches[e] \in Nat
      BY <1>1 DEF Bounded
    <3> QED
      BY <1>1, <1>2, <3>1, <3>2 DEF Counted, Bounded
  <2> QED
    BY <1>1, <1>2, <2>1, <2>2 DEF Counted, Bounded
<1> QED
  BY <1>3, <1>4, <1>5, <1>6, PartsOfInv

\* A signal, or an eviction the loop does not notice.
LEMMA OutsideStep == ASSUME ReporterInv, Stop \/ Evict PROVE ReporterInv'
<1> USE DEF ReporterInv, bounds, reporterHistory
<1>1. Offered /\ OfferedAndTyped /\ Bounded
  BY TypeInTwo
<1>2. /\ UNCHANGED <<partition, committed, stage, position, cursor, event, attempt, crashes,
                     failedCommits, rejected, swallowed, stored, dispatches, finished, abandoned>>
      /\ running' \in BOOLEAN /\ member' \in BOOLEAN /\ stage # "down"
      /\ \/ member' = member /\ evictions' = evictions
         \/ member /\ ~member' /\ evictions' = evictions + 1
  BY <1>1 DEF Stop, Evict, Offered
<1>3. Offered' /\ Bounded'
  BY <1>1, <1>2 DEF Offered, Bounded
<1>4. OfferedAndTyped' /\ Decoded' /\ Behind'
  BY <1>1, <1>2 DEF OfferedAndTyped, Decoded, Behind, Handled
<1>5. Earlier' = Earlier
  BY <1>1, <1>2 DEF Earlier, Bounded
<1>6. Counted'
  <2>1. ASSUME NEW e \in Offsets PROVE dispatches[e] <= 1 + crashes + evictions' + failedCommits
    BY <1>1, <1>2 DEF Counted, Bounded
  <2> QED
    BY <1>2, <1>5, <2>1 DEF Counted
<1> QED
  BY <1>3, <1>4, <1>5, <1>6, PartsOfInv

LEMMA ReporterInvStep == ReporterInv /\ [ReporterNext]_allVars => ReporterInv'
<1> SUFFICES ASSUME ReporterInv, [ReporterNext]_allVars PROVE ReporterInv'
  OBVIOUS
<1>1. CASE UNCHANGED reporterVars
  <2>1. UNCHANGED <<partition, committed, stage, running, member, position, cursor, event, attempt,
                    crashes, evictions, failedCommits, rejected, swallowed, stored, dispatches,
                    finished, abandoned>>
    BY <1>1 DEF reporterVars, consumerVars, bounds, reporterHistory
  <2> QED
    BY <2>1 DEF ReporterInv, ReporterTypeOK, Decoded, Behind, Handled, Counted, Earlier, Bounded
<1>2. CASE ~UNCHANGED reporterVars
  <2>1. ReporterNext /\ ~(DispatchSteps /\ UNCHANGED reporterVars)
                     /\ ~(Clock /\ UNCHANGED reporterVars)
    BY <1>2 DEF allVars
  <2> QED
    BY <2>1, PublishStep, PollStep, TakeStep, EndStep, ResumeStep, OutsideStep, EventSteps
       DEF ReporterNext, ReporterSteps
<1> QED
  BY <1>1, <1>2

-----------------------------------------------------------------------------
\* Every step of the process is one of its dispatcher, or none.
LEMMA StepsOfDispatcher == ReporterInv /\ [ReporterNext]_allVars => [Next]_vars
<1> SUFFICES ASSUME ReporterInv, [ReporterNext]_allVars PROVE [Next]_vars
  OBVIOUS
<1>1. CASE CallDispatch
  <2>1. NewReportId \in Reports
    BY <1>1 DEF CallDispatch, NewReportId
  <2>2. partition[event] \in Services
    <3>1. Offered /\ OfferedAndTyped /\ stage = "dispatch"
      BY <1>1, TypeInTwo DEF ReporterInv, CallDispatch
    <3>2. partition[event] \in Services \cup Junk
      BY <3>1 DEF Offered, OfferedAndTyped
    <3>3. partition[event] \notin {Malformed, Undecodable}
      BY <3>1 DEF ReporterInv, Decoded, OfferedAndTyped
    <3> QED
      BY <3>2, <3>3, ReporterConstants
  <2>3. NewReport
    BY <1>1, <2>1, <2>2 DEF CallDispatch, NewReport
  <2> QED
    BY <2>3 DEF Next
<1>2. CASE ~CallDispatch
  BY <1>2 DEF ReporterNext, ReporterSteps, Publish, Poll, PollRaises, Rejoin, Take, Reject, Enrich,
              Retry, Generate, Store, DispatchRaises, Dispatched, Stop, Close, End, Evict, Crash,
              Start, Next, allVars
<1> QED
  BY <1>1, <1>2

\* The process uses its dispatcher as the dispatcher is specified: what is
\* proved of the dispatcher's calls is true of the calls main() makes.
THEOREM ReporterUsesDispatcher == ReporterSpec => Spec
<1>1. ReporterInit => Init
  BY DEF ReporterInit
<1> QED
  BY <1>1, ReporterInvInit, ReporterInvStep, StepsOfDispatcher, PTL DEF ReporterSpec, Spec

\* So the process, too, tries every channel of a report.
THEOREM ReporterTriesChannels == ReporterSpec => []EveryChannelTried
BY ReporterUsesDispatcher, ChannelsAreTried, PTL

\* Type correctness of the process, and the order of its offsets.
THEOREM ReporterTypeCorrect == ReporterSpec => []ReporterTypeOK
<1>1. ReporterInv => ReporterTypeOK
  BY DEF ReporterInv
<1> QED
  BY <1>1, ReporterInvInit, ReporterInvStep, PTL DEF ReporterSpec

\* At least once, wherever the process is killed or leaves its group, but for a
\* batch that a signal cut short and an event on which dispatch() raised.
THEOREM AtLeastOnce == ReporterSpec => []CommittedIsHandled
<1>1. ReporterInv => CommittedIsHandled
  BY DEF ReporterInv, Behind, Handled, CommittedIsHandled
<1> QED
  BY <1>1, ReporterInvInit, ReporterInvStep, PTL DEF ReporterSpec

\* And no more often than crashes, evictions and commits that failed explain.
THEOREM NoOtherDuplicates == ReporterSpec => []DuplicatesAreExplained
<1>1. ReporterInv => DuplicatesAreExplained
  BY DEF ReporterInv, Counted, DuplicatesAreExplained
<1> QED
  BY <1>1, ReporterInvInit, ReporterInvStep, PTL DEF ReporterSpec
=============================================================================
