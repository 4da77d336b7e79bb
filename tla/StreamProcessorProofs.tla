------------------------- MODULE StreamProcessorProofs ------------------------
(***************************************************************************)
(* The stream processor and its sink, for every partition, window size,    *)
(* lateness, buffer size and number of failures.                           *)
(***************************************************************************)
EXTENDS StreamProcessor, FiniteSetTheorems, SequenceTheorems, WellFoundedInduction, TLAPS

\* What is said of the operator's state now, of the snapshot that is not
\* acknowledged and of the last checkpoint alike: x is one of them, l the
\* partition, r the windows that were opened again.

SnapshotTyped(x, l) ==
    /\ x.position \in 1 .. Len(l) + 1
    /\ x.windows \in [Keys -> SUBSET (1 .. Len(l))]
    /\ x.timers \subseteq {k \in Keys : x.windows[k] # {}}
    /\ x.emitted \subseteq [key : Keys, records : SUBSET (1 .. Len(l))]
    /\ x.late \subseteq 1 .. Len(l)
    /\ x.purged \subseteq Keys

\* What the source is past is somewhere.
InWindow(x, o, k) ==
    /\ o \in x.windows[k]
    /\ k \in x.timers \/ [key |-> k, records |-> x.windows[k]] \in x.emitted

Found(x, l, o) ==
    \/ l[o] = Unreadable \/ l[o].service = Unknown
    \/ o \in x.late
    \/ \E k \in Keys : InWindow(x, o, k)
    \/ \E d \in x.emitted : o \in d.records

Skipless(x, l) == \A o \in 1 .. x.position - 1 : Found(x, l, o)

\* Aggregates of a window only grow, until it is cleared.
Growing(x, r) ==
    \A d \in x.emitted : d.key \notin r /\ d.key \notin x.purged => d.records \subseteq x.windows[d.key]

Cleared(x, r) == \A k \in x.purged : k \notin r => x.windows[k] = {}

Sound(x, l, r) == SnapshotTyped(x, l) /\ Skipless(x, l) /\ Growing(x, r) /\ Cleared(x, r)

\* A document's key was not opened again.
Kept(d) == d.key \notin reopened

InBuffer(d) == \E i \in DOMAIN buffer : buffer[i] = d

\* What was emitted is in the index or in the buffer.
Carried == \A d \in emitted \ refused : Kept(d) => d.records \subseteq index[d.key] \/ InBuffer(d)

\* A document in the buffer has the records of those before it.
Ordered ==
    \A d \in emitted, j \in DOMAIN buffer :
        Kept(d) /\ buffer[j].key = d.key =>
            d.records \subseteq buffer[j].records \/ \E i \in DOMAIN buffer : i > j /\ buffer[i] = d

\* What a snapshot has emitted is in the index, and no document of the buffer
\* has less.
Saved == pending \cup {checkpoint}

Preserved(x) ==
    /\ x.position <= position
    /\ x.emitted \subseteq emitted
    /\ \A d \in x.emitted : Kept(d) =>
          /\ d \notin refused => d.records \subseteq index[d.key]
          /\ \A j \in DOMAIN buffer : buffer[j].key = d.key => d.records \subseteq buffer[j].records

Typed ==
    /\ log \in Seq(Traffic)
    /\ seen \in Stamps \cup {-1}
    /\ watermark \in {WatermarkAt(stamp) : stamp \in Stamps \cup {-1}}
    /\ buffer \in Seq(Documents)
    /\ Len(buffer) <= BufferSize
    /\ \A i \in DOMAIN buffer : buffer[i] \in emitted
    /\ snapshotting \in BOOLEAN
    /\ index \in [Keys -> SUBSET Offsets]
    /\ reopened \subseteq Keys
    /\ delivered \cup refused \subseteq Documents

StreamInv ==
    /\ Typed
    /\ Sound(Snapshot, log, reopened)
    /\ \A x \in Saved : Sound(x, log, reopened) /\ Preserved(x)
    /\ Carried
    /\ Ordered

-----------------------------------------------------------------------------
\* A set of numbers up to n has a largest one, and Max gives it: its elements
\* with those above them are finite sets, and one of these is the least.
LEMMA LastPlace ==
  ASSUME NEW n \in Nat, NEW S, S \subseteq 1 .. n, S # {}
  PROVE  Max(S) \in S /\ \A i \in S : i <= Max(S)
<1> DEFINE above(i) == {j \in S : j >= i}
<1> DEFINE T == {above(i) : i \in S}
<1>1. T # {} /\ T \subseteq SUBSET S
  OBVIOUS
<1>2. IsFiniteSet(S)
  <2>1. IsFiniteSet(1 .. n)
    BY FS_Interval
  <2> QED
    BY <2>1, FS_Subset
<1>3. IsWellFoundedOn(StrictSubsetOrdering(S), FiniteSubsetsOf(S)) /\ T \subseteq FiniteSubsetsOf(S)
  BY <1>1, <1>2, FS_StrictSubsetOrderingWellFounded, FS_FiniteSubsetsOfFinite
<1> HIDE DEF T
<1>4. PICK a \in T : \A b \in T : <<b, a>> \notin StrictSubsetOrdering(S)
  BY <1>1, <1>3, WFMin
<1> USE DEF T
<1>5. PICK i \in S : a = above(i)
  BY <1>4
<1>6. \A j \in S : j <= i
  <2> SUFFICES ASSUME NEW j \in S, j > i PROVE FALSE
    OBVIOUS
  <2>0. j > i
    OBVIOUS
  <2>1. above(j) \in T /\ above(j) \subseteq a /\ i \in a /\ i \notin above(j)
    <3>1. i \in Nat /\ j \in Nat /\ \A e \in S : e \in Nat
      OBVIOUS
    <3>2. i >= i /\ ~(i >= j) /\ \A e \in S : e >= j => e >= i
      BY <2>0, <3>1
    <3>3. above(j) \subseteq above(i) /\ i \in above(i) /\ i \notin above(j)
      BY <3>2, Zenon
    <3> QED
      BY <1>5, <3>3
  <2>2. <<above(j), a>> \in (SUBSET S) \X (SUBSET S)
    BY <1>1, <1>4, <2>1
  <2> QED
    BY <1>4, <2>1, <2>2 DEF StrictSubsetOrdering
<1>7. \E x \in S : \A y \in S : x >= y
  BY <1>6
<1>8. Max(S) \in S /\ \A y \in S : Max(S) >= y
  BY <1>7, Zenon DEF Max
<1> QED
  BY <1>8

LEMMA KeyTypes ==
  /\ \A k \in Keys : LastStamp(k) \in Int
  /\ \A s \in Services, stamp \in Stamps : Key(s, stamp) \in Keys
  /\ Lateness \in Nat
  /\ \A stamp \in Stamps \cup {-1} : WatermarkAt(stamp) \in Int
<1>1. Lateness \in Nat /\ WindowSize \in Nat /\ WindowSize > 0 /\ OutOfOrder \in Nat /\ Stamps \subseteq Nat
  BY StreamConstants
<1>2. \A k \in Keys : LastStamp(k) \in Int
  <2> SUFFICES ASSUME NEW k \in Keys PROVE LastStamp(k) \in Int
    OBVIOUS
  <2>1. k[2] \in {stamp \div WindowSize : stamp \in Stamps}
    BY DEF Keys
  <2>2. PICK stamp \in Stamps : k[2] = stamp \div WindowSize
    BY <2>1
  <2>3. k[2] \in Int
    BY <1>1, <2>2
  <2> QED
    BY <1>1, <2>3 DEF LastStamp
<1>3. \A s \in Services, stamp \in Stamps : Key(s, stamp) \in Keys
  BY DEF Key, Keys
<1>4. \A stamp \in Stamps \cup {-1} : WatermarkAt(stamp) \in Int
  BY <1>1 DEF WatermarkAt
<1> QED
  BY <1>1, <1>2, <1>3, <1>4

\* A longer partition and more windows opened again change nothing.
LEMMA SoundStays ==
  ASSUME NEW x, NEW l, NEW r, Sound(x, l, r), NEW m, NEW q, r \subseteq q,
         Len(l) \in Nat, Len(m) \in Nat, Len(l) <= Len(m),
         \A o \in 1 .. Len(l) : m[o] = l[o]
  PROVE  Sound(x, m, q)
<1>1. 1 .. Len(l) \subseteq 1 .. Len(m) /\ 1 .. Len(l) + 1 \subseteq 1 .. Len(m) + 1
  OBVIOUS
<1>2. SnapshotTyped(x, m)
  BY <1>1 DEF Sound, SnapshotTyped
<1>3. \A o \in 1 .. x.position - 1 : m[o] = l[o]
  BY <1>1 DEF Sound, SnapshotTyped
<1>4. Skipless(x, m)
  BY <1>3 DEF Sound, Skipless, Found
<1>5. Growing(x, q) /\ Cleared(x, q)
  BY DEF Sound, Growing, Cleared
<1> QED
  BY <1>2, <1>4, <1>5 DEF Sound

\* What a request does to the index: a document that is there, or among the
\* places that succeed, keeps its records there.
LEMMA IndexKeeps ==
  ASSUME buffer \in Seq(Documents), NEW places, places \subseteq DOMAIN buffer, Index(places),
         NEW d, d.key \in Keys,
         d.records \subseteq index[d.key] \/ \E i \in places : buffer[i] = d,
         \A j \in places : buffer[j].key = d.key =>
             d.records \subseteq buffer[j].records \/ \E i \in places : i > j /\ buffer[i] = d
  PROVE  d.records \subseteq index'[d.key]
<1> DEFINE own == {i \in places : buffer[i].key = d.key}
<1>1. index'[d.key] = IF own = {} THEN index[d.key] ELSE buffer[Max(own)].records
  BY DEF Index
<1>2. CASE own = {}
  BY <1>1, <1>2
<1>3. CASE own # {}
  <2>1. Len(buffer) \in Nat /\ own \subseteq 1 .. Len(buffer)
    BY LenProperties
  <2>2. Max(own) \in own /\ \A i \in own : i <= Max(own)
    BY <1>3, <2>1, LastPlace
  <2>3. ASSUME NEW i \in places, i > Max(own), buffer[i] = d PROVE FALSE
    <3>1. i \in own
      BY <2>3
    <3>2. i \in Nat /\ Max(own) \in Nat /\ i <= Max(own)
      BY <2>1, <2>2, <3>1
    <3> QED
      BY <2>3, <3>2
  <2> QED
    BY <1>1, <1>3, <2>2, <2>3
<1> QED
  BY <1>2, <1>3

LEMMA IndexTyped ==
  ASSUME Typed, NEW places, places \subseteq DOMAIN buffer, Index(places)
  PROVE  /\ index' \in [Keys -> SUBSET Offsets]
         /\ delivered' \subseteq Documents
<1>1. Len(buffer) \in Nat /\ DOMAIN buffer = 1 .. Len(buffer)
      /\ \A i \in DOMAIN buffer : buffer[i] \in Documents
  BY LenProperties, ElementOfSeq DEF Typed
<1>2. ASSUME NEW k \in Keys
      PROVE  LET own == {i \in places : buffer[i].key = k}
             IN  (IF own = {} THEN index[k] ELSE buffer[Max(own)].records) \in SUBSET Offsets
  <2> DEFINE own == {i \in places : buffer[i].key = k}
  <2>1. own # {} => Max(own) \in DOMAIN buffer
    BY <1>1, LastPlace
  <2> HIDE DEF own
  <2>2. own # {} => buffer[Max(own)].records \in SUBSET Offsets
    BY <1>1, <2>1 DEF Documents
  <2>3. index[k] \in SUBSET Offsets
    BY DEF Typed
  <2> QED
    BY <2>2, <2>3 DEF own
<1>3. index' \in [Keys -> SUBSET Offsets]
  BY <1>2 DEF Index
<1>4. delivered' \subseteq Documents
  BY <1>1 DEF Index, Typed
<1> QED
  BY <1>3, <1>4

-----------------------------------------------------------------------------
LEMMA StreamInvInit == Init => StreamInv
<1> SUFFICES ASSUME Init PROVE StreamInv
  OBVIOUS
<1> USE StreamConstants DEF Init
<1>1. log \in Seq(Traffic) /\ Len(log) = 0 /\ buffer \in Seq(Documents) /\ Len(buffer) = 0
      /\ DOMAIN buffer = {}
  BY EmptySeq
<1>2. /\ checkpoint = Snapshot /\ pending = {} /\ emitted = {} /\ purged = {} /\ position = 1
      /\ late = {} /\ timers = {} /\ windows = [k \in Keys |-> {}] /\ refused = {}
  BY Zenon
<1>3. Sound(Snapshot, log, reopened)
  <2>1. SnapshotTyped(Snapshot, log)
    BY <1>1, <1>2 DEF SnapshotTyped, Snapshot
  <2>2. Skipless(Snapshot, log)
    BY <1>2 DEF Skipless, Snapshot
  <2>3. Growing(Snapshot, reopened) /\ Cleared(Snapshot, reopened)
    BY <1>2 DEF Growing, Cleared, Snapshot
  <2> QED
    BY <2>1, <2>2, <2>3 DEF Sound
<1>4. Preserved(Snapshot)
  BY <1>2 DEF Preserved, Snapshot
<1>5. Carried /\ Ordered
  BY <1>2 DEF Carried, Ordered
<1>6. Typed
  <2>1. watermark \in {WatermarkAt(stamp) : stamp \in Stamps \cup {-1}} /\ seen \in Stamps \cup {-1}
    BY Zenon
  <2>2. Len(buffer) <= BufferSize
    BY <1>1
  <2>3. snapshotting \in BOOLEAN
    BY Zenon
  <2>4. index \in [Keys -> SUBSET Offsets]
    OBVIOUS
  <2>5. reopened \subseteq Keys /\ delivered \cup refused \subseteq Documents
    OBVIOUS
  <2> QED
    BY <1>1, <2>1, <2>2, <2>3, <2>4, <2>5, Zenon DEF Typed
<1> QED
  BY <1>2, <1>3, <1>4, <1>5, <1>6 DEF StreamInv, Saved

\* A new document at the end of the buffer, with the records of all before it.
LEMMA EmitKeeps ==
  ASSUME StreamInv, NEW k \in Keys, NEW w \in SUBSET Offsets, Emit(k, w), ~Full,
         reopened \subseteq reopened', position <= position', position' \in Int,
         \A d \in emitted : d.key = k /\ k \notin reopened' => d.records \subseteq w,
         UNCHANGED <<log, refused, index, pending, checkpoint>>
  PROVE  /\ buffer' \in Seq(Documents) /\ Len(buffer') <= BufferSize
         /\ \A i \in DOMAIN buffer' : buffer'[i] \in emitted'
         /\ Carried' /\ Ordered'
         /\ \A x \in Saved' : Sound(x, log', reopened') /\ Preserved(x)'
<1> DEFINE document == [key |-> k, records |-> w]
           n == Len(buffer)
<1>1. buffer \in Seq(Documents) /\ n \in Nat /\ DOMAIN buffer = 1 .. n /\ document \in Documents
  BY LenProperties DEF StreamInv, Typed, Documents
<1>2. emitted' = emitted \cup {document} /\ buffer' = Append(buffer, document)
  BY DEF Emit
<1> HIDE DEF document
<1>3. /\ buffer' \in Seq(Documents) /\ Len(buffer') = n + 1 /\ DOMAIN buffer' = 1 .. n + 1
      /\ \A i \in 1 .. n : buffer'[i] = buffer[i]
      /\ buffer'[n + 1] = document
  BY <1>1, <1>2, AppendProperties, LenProperties
<1>4. document.key = k /\ document.records = w
  BY DEF document
<1> HIDE DEF n
<1>5. \A i \in DOMAIN buffer' : i \in DOMAIN buffer \/ i = n + 1
  BY <1>1, <1>3
<1>6. n + 1 \in DOMAIN buffer' /\ DOMAIN buffer \subseteq DOMAIN buffer'
      /\ \A i \in DOMAIN buffer : buffer'[i] = buffer[i] /\ n + 1 > i
  BY <1>1, <1>3
<1>7. Len(buffer') <= BufferSize
  BY <1>1, <1>3, StreamConstants DEF Full, n
<1>8. \A i \in DOMAIN buffer' : buffer'[i] \in emitted'
  BY <1>2, <1>3, <1>5, <1>6 DEF StreamInv, Typed
<1>9. Carried'
  <2>1. \A d \in emitted \ refused : Kept(d)' => Kept(d)
    BY DEF Kept
  <2>2. InBuffer(document)' /\ \A d \in emitted : InBuffer(d) => InBuffer(d)'
    BY <1>3, <1>6 DEF InBuffer
  <2> QED
    BY <1>2, <2>1, <2>2 DEF StreamInv, Carried
<1>10. Ordered'
  <2> SUFFICES ASSUME NEW d \in emitted', NEW j \in DOMAIN buffer', Kept(d)', buffer'[j].key = d.key
               PROVE  d.records \subseteq buffer'[j].records
                      \/ \E i \in DOMAIN buffer' : i > j /\ buffer'[i] = d
    BY DEF Ordered
  <2>1. Kept(d)
    BY DEF Kept
  <2>2. CASE j = n + 1
    <3>1. buffer'[j] = document /\ d.key = k
      BY <1>3, <1>4, <2>2
    <3>2. d = document \/ d.records \subseteq w
      BY <1>2, <3>1 DEF Kept
    <3> QED
      BY <1>4, <3>1, <3>2
  <2>3. CASE j \in DOMAIN buffer
    <3>1. buffer'[j] = buffer[j] /\ n + 1 > j
      BY <1>6, <2>3
    <3>2. CASE d = document
      BY <1>3, <1>6, <3>1, <3>2
    <3>3. CASE d \in emitted
      <4>1. d.records \subseteq buffer[j].records \/ \E i \in DOMAIN buffer : i > j /\ buffer[i] = d
        BY <2>1, <2>3, <3>1, <3>3 DEF StreamInv, Ordered
      <4> QED
        BY <1>6, <3>1, <4>1
    <3> QED
      BY <1>2, <3>2, <3>3
  <2> QED
    BY <1>5, <2>2, <2>3
<1>11. ASSUME NEW x \in Saved' PROVE Sound(x, log', reopened') /\ Preserved(x)'
  <2>1. x \in Saved /\ Sound(x, log, reopened) /\ Preserved(x)
    BY <1>11 DEF Saved, StreamInv
  <2>2. Sound(x, log', reopened')
    <3>1. Len(log) \in Nat
      BY LenProperties DEF StreamInv, Typed
    <3> QED
      BY <2>1, <3>1, SoundStays
  <2>3. x.position <= position' /\ x.emitted \subseteq emitted'
    <3>1. x.position \in Int /\ position \in Int
      BY <2>1 DEF Sound, SnapshotTyped, StreamInv, Snapshot
    <3> QED
      BY <1>2, <2>1, <3>1 DEF Preserved
  <2>4. ASSUME NEW d \in x.emitted, Kept(d)'
        PROVE  /\ d \notin refused' => d.records \subseteq index'[d.key]
               /\ \A j \in DOMAIN buffer' : buffer'[j].key = d.key => d.records \subseteq buffer'[j].records
    <3>1. Kept(d) /\ d \in emitted
      BY <2>1, <2>4 DEF Kept, Preserved
    <3>2. ASSUME NEW j \in DOMAIN buffer', buffer'[j].key = d.key PROVE d.records \subseteq buffer'[j].records
      <4>1. CASE j \in DOMAIN buffer
        BY <1>6, <2>1, <3>1, <3>2, <4>1 DEF Preserved
      <4>2. CASE j = n + 1
        BY <1>3, <1>4, <2>4, <3>1, <3>2, <4>2 DEF Kept
      <4> QED
        BY <1>5, <4>1, <4>2
    <3> QED
      BY <2>1, <3>1, <3>2 DEF Preserved
  <2> QED
    BY <2>2, <2>3, <2>4 DEF Preserved
<1> QED
  BY <1>3, <1>7, <1>8, <1>9, <1>10, <1>11

\* A step that emits nothing.
LEMMA QuietKeeps ==
  ASSUME StreamInv, reopened \subseteq reopened', position <= position', position' \in Int,
         log' \in Seq(Traffic), Len(log) <= Len(log'), \A o \in 1 .. Len(log) : log'[o] = log[o],
         UNCHANGED <<buffer, emitted, refused, index, pending, checkpoint>>
  PROVE  /\ Carried' /\ Ordered'
         /\ \A x \in Saved' : Sound(x, log', reopened') /\ Preserved(x)'
<1>1. \A d : Kept(d)' => Kept(d)
  BY DEF Kept
<1>2. Carried'
  BY <1>1 DEF StreamInv, Carried, InBuffer
<1>3. Ordered'
  BY <1>1 DEF StreamInv, Ordered
<1>4. ASSUME NEW x \in Saved' PROVE Sound(x, log', reopened') /\ Preserved(x)'
  <2>1. x \in Saved /\ Sound(x, log, reopened) /\ Preserved(x)
    BY <1>4 DEF Saved, StreamInv
  <2>2. Sound(x, log', reopened')
    <3>1. Len(log) \in Nat /\ Len(log') \in Nat
      BY LenProperties DEF StreamInv, Typed
    <3> QED
      BY <2>1, <3>1, SoundStays
  <2>3. x.position <= position'
    <3>1. x.position \in Int /\ position \in Int
      BY <2>1 DEF Sound, SnapshotTyped, StreamInv, Snapshot
    <3> QED
      BY <2>1, <3>1 DEF Preserved
  <2> QED
    BY <1>1, <2>1, <2>2, <2>3 DEF Preserved
<1> QED
  BY <1>2, <1>3, <1>4

-----------------------------------------------------------------------------
\* What the invariant says of the operator's state.
LEMMA Current ==
  ASSUME StreamInv
  PROVE  /\ log \in Seq(Traffic) /\ Len(log) \in Nat /\ DOMAIN log = Offsets
         /\ position \in Nat /\ 1 <= position /\ position <= Len(log) + 1
         /\ windows \in [Keys -> SUBSET Offsets]
         /\ timers \subseteq {k \in Keys : windows[k] # {}}
         /\ emitted \subseteq Documents
         /\ late \subseteq Offsets
         /\ purged \subseteq Keys /\ reopened \subseteq Keys
         /\ \A o \in 1 .. position - 1 : Found(Snapshot, log, o)
         /\ \A d \in emitted : d.key \notin reopened \cup purged => d.records \subseteq windows[d.key]
         /\ \A k \in purged \ reopened : windows[k] = {} /\ k \notin timers
<1>1. log \in Seq(Traffic) /\ Len(log) \in Nat /\ DOMAIN log = Offsets /\ reopened \subseteq Keys
  BY LenProperties DEF StreamInv, Typed, Offsets
<1>2. /\ SnapshotTyped(Snapshot, log) /\ Skipless(Snapshot, log)
      /\ Growing(Snapshot, reopened) /\ Cleared(Snapshot, reopened)
  BY DEF StreamInv, Sound
<1>3. /\ position \in 1 .. Len(log) + 1
      /\ windows \in [Keys -> SUBSET Offsets]
      /\ timers \subseteq {k \in Keys : windows[k] # {}}
      /\ emitted \subseteq Documents
      /\ late \subseteq Offsets
      /\ purged \subseteq Keys
  BY <1>2 DEF SnapshotTyped, Snapshot, Offsets, Documents
<1>4. \A o \in 1 .. position - 1 : Found(Snapshot, log, o)
  BY <1>2 DEF Skipless, Snapshot
<1>5. \A d \in emitted : d.key \notin reopened \cup purged => d.records \subseteq windows[d.key]
  BY <1>2 DEF Growing, Snapshot
<1>6. \A k \in purged \ reopened : windows[k] = {} /\ k \notin timers
  BY <1>2, <1>3 DEF Cleared, Snapshot
<1> QED
  BY <1>1, <1>3, <1>4, <1>5, <1>6

\* And what it takes for the state after a step.
LEMMA CurrentSound ==
  ASSUME position' \in 1 .. Len(log') + 1,
         windows' \in [Keys -> SUBSET Offsets'],
         timers' \subseteq {k \in Keys : windows'[k] # {}},
         emitted' \subseteq Documents', late' \subseteq Offsets', purged' \subseteq Keys,
         \A o \in 1 .. position' - 1 : Found(Snapshot', log', o),
         \A d \in emitted' : d.key \notin reopened' \cup purged' => d.records \subseteq windows'[d.key],
         \A k \in purged' \ reopened' : windows'[k] = {}
  PROVE  Sound(Snapshot', log', reopened')
<1>1. SnapshotTyped(Snapshot', log')
  BY DEF SnapshotTyped, Snapshot, Offsets, Documents
<1>2. Skipless(Snapshot', log')
  BY DEF Skipless, Snapshot
<1>3. Growing(Snapshot', reopened') /\ Cleared(Snapshot', reopened')
  BY DEF Growing, Cleared, Snapshot
<1> QED
  BY <1>1, <1>2, <1>3 DEF Sound

LEMMA PublishKeeps == ASSUME StreamInv, Publish PROVE StreamInv'
<1>1. /\ UNCHANGED <<position, seen, watermark, windows, timers, buffer, snapshotting, pending,
                     checkpoint, index, emitted, late, purged, reopened, delivered, refused>>
      /\ \E r \in Traffic : log' = Append(log, r)
  BY DEF Publish, operatorVars, sinkVars, progress, outcome
<1>2. /\ log' \in Seq(Traffic) /\ Len(log') = Len(log) + 1
      /\ \A o \in 1 .. Len(log) : log'[o] = log[o]
  BY <1>1, Current, AppendProperties
<1>3. Carried' /\ Ordered' /\ \A x \in Saved' : Sound(x, log', reopened') /\ Preserved(x)'
  BY <1>1, <1>2, QuietKeeps, Current
<1>4. Sound(Snapshot', log', reopened')
  <2>1. Snapshot' = Snapshot
    BY <1>1 DEF Snapshot
  <2>2. Sound(Snapshot, log, reopened)
    BY DEF StreamInv
  <2>3. Len(log) \in Nat /\ Len(log') \in Nat /\ Len(log) <= Len(log')
    BY <1>2, Current
  <2>4. Sound(Snapshot, log', reopened)
    BY <1>2, <2>2, <2>3, SoundStays
  <2> QED
    BY <1>1, <2>1, <2>4
<1>5. Typed'
  <2>1. Offsets \subseteq Offsets'
    BY <1>2, Current DEF Offsets
  <2>2. Documents \subseteq Documents'
    BY <2>1 DEF Documents
  <2>3. buffer \in Seq(Documents')
    BY <2>2, SeqMonotonic DEF StreamInv, Typed
  <2>4. index \in [Keys -> SUBSET Offsets']
    BY <2>1 DEF StreamInv, Typed
  <2> QED
    BY <1>1, <1>2, <2>2, <2>3, <2>4 DEF StreamInv, Typed
<1> QED
  BY <1>3, <1>4, <1>5 DEF StreamInv

LEMMA AdvanceKeeps == ASSUME StreamInv, AdvanceWatermark PROVE StreamInv'
<1>1. /\ UNCHANGED <<log, position, seen, windows, timers, buffer, snapshotting, pending,
                     checkpoint, index, emitted, late, purged, reopened, delivered, refused>>
      /\ watermark' = WatermarkAt(seen)
  BY DEF AdvanceWatermark, sinkVars, progress, outcome
<1>2. Carried' /\ Ordered' /\ \A x \in Saved' : Sound(x, log', reopened') /\ Preserved(x)'
  BY <1>1, QuietKeeps, Current
<1>3. Snapshot' = Snapshot
  BY <1>1 DEF Snapshot
<1>4. Typed'
  BY <1>1 DEF StreamInv, Typed, Offsets, Documents
<1> QED
  BY <1>1, <1>2, <1>3, <1>4 DEF StreamInv

\* Expired windows have passed.
LEMMA ExpiredPassed == ASSUME StreamInv, NEW k \in Keys, Expired(k) PROVE Passed(k)
<1>1. watermark \in Int
  BY KeyTypes DEF StreamInv, Typed
<1> QED
  BY <1>1, KeyTypes DEF Expired, Passed

LEMMA FireKeeps == ASSUME StreamInv, NEW k \in Keys, Fire(k) PROVE StreamInv'
<1>1. /\ ~Full /\ k \in timers /\ timers' = timers \ {k} /\ Emit(k, windows[k])
      /\ UNCHANGED <<log, position, seen, watermark, windows, snapshotting, pending, checkpoint,
                     index, late, purged, reopened, delivered, refused>>
  BY DEF Fire, DueTimers, outcome
<1>2. windows[k] \in SUBSET Offsets /\ windows[k] # {} /\ k \in Keys
  BY <1>1, Current
<1>3. \A d \in emitted : d.key = k /\ k \notin reopened' => d.records \subseteq windows[k]
  BY <1>1, <1>2, Current
<1>4. /\ buffer' \in Seq(Documents) /\ Len(buffer') <= BufferSize
      /\ \A i \in DOMAIN buffer' : buffer'[i] \in emitted'
      /\ Carried' /\ Ordered'
      /\ \A x \in Saved' : Sound(x, log', reopened') /\ Preserved(x)'
  BY <1>1, <1>2, <1>3, EmitKeeps, Current
<1>5. Sound(Snapshot', log', reopened')
  <2> DEFINE document == [key |-> k, records |-> windows[k]]
  <2>1. emitted' = emitted \cup {document} /\ document \in Documents
    BY <1>1, <1>2 DEF Emit, Documents
  <2>2. ASSUME NEW o \in 1 .. position - 1 PROVE Found(Snapshot', log, o)
    <3>1. Found(Snapshot, log, o)
      BY Current
    <3>2. CASE \E j \in Keys : InWindow(Snapshot, o, j)
      <4>1. PICK j \in Keys : InWindow(Snapshot, o, j)
        BY <3>2
      <4>2. o \in windows'[j] /\ (j \in timers' \/ [key |-> j, records |-> windows'[j]] \in emitted')
        BY <1>1, <2>1, <4>1 DEF InWindow, Snapshot
      <4>3. InWindow(Snapshot', o, j)
        BY <4>2 DEF InWindow, Snapshot
      <4> QED
        BY <4>3 DEF Found
    <3>3. CASE \/ log[o] = Unreadable \/ log[o].service = Unknown \/ o \in late
               \/ \E d \in emitted : o \in d.records
      BY <1>1, <2>1, <3>3 DEF Found, Snapshot
    <3> QED
      BY <3>1, <3>2, <3>3 DEF Found, Snapshot
  <2>3. \A d \in emitted' : d.key \notin reopened \cup purged => d.records \subseteq windows[d.key]
    BY <2>1, Current
  <2> HIDE DEF document
  <2>4. emitted' \subseteq Documents' /\ Offsets' = Offsets
    BY <1>1, <2>1, Current DEF Offsets, Documents
  <2>5. timers' \subseteq {j \in Keys : windows'[j] # {}}
    BY <1>1, Current
  <2>6. position' \in 1 .. Len(log') + 1 /\ windows' \in [Keys -> SUBSET Offsets']
    BY <1>1, <2>4, Current
  <2>7. /\ late' \subseteq Offsets' /\ purged' \subseteq Keys
        /\ \A j \in purged' \ reopened' : windows'[j] = {}
    BY <1>1, <2>4, Current
  <2>8. \A o \in 1 .. position' - 1 : Found(Snapshot', log', o)
    BY <1>1, <2>2
  <2> QED
    BY <1>1, <2>3, <2>4, <2>5, <2>6, <2>7, <2>8, CurrentSound
<1>6. Typed'
  BY <1>1, <1>4 DEF StreamInv, Typed, Offsets, Documents
<1> QED
  BY <1>4, <1>5, <1>6 DEF StreamInv

LEMMA PurgeKeeps == ASSUME StreamInv, NEW k \in Keys, Purge(k) PROVE StreamInv'
<1>1. /\ Expired(k) /\ k \notin DueTimers
      /\ windows' = [windows EXCEPT ![k] = {}] /\ purged' = purged \cup {k}
      /\ UNCHANGED <<log, position, seen, watermark, timers, buffer, snapshotting, pending,
                     checkpoint, index, emitted, late, reopened, delivered, refused>>
  BY DEF Purge, Clearable, DuePurges, sinkVars, outcome
<1>2. k \notin timers
  BY <1>1, ExpiredPassed DEF DueTimers
<1>3. Carried' /\ Ordered' /\ \A x \in Saved' : Sound(x, log', reopened') /\ Preserved(x)'
  BY <1>1, QuietKeeps, Current
<1>4. windows'[k] = {} /\ windows' \in [Keys -> SUBSET Offsets]
      /\ \A j \in Keys : j # k => windows'[j] = windows[j]
  BY <1>1, Current
<1>5. ASSUME NEW o \in 1 .. position - 1 PROVE Found(Snapshot', log, o)
  <2>1. Found(Snapshot, log, o)
    BY Current
  <2>2. CASE \E j \in Keys : InWindow(Snapshot, o, j)
    <3>1. PICK j \in Keys : InWindow(Snapshot, o, j)
      BY <2>2
    <3>2. CASE j = k
      <4>1. [key |-> k, records |-> windows[k]] \in emitted /\ o \in windows[k]
        BY <1>2, <3>1, <3>2 DEF InWindow, Snapshot
      <4>2. \E d \in emitted' : o \in d.records
        BY <1>1, <4>1
      <4> QED
        BY <4>2 DEF Found, Snapshot
    <3>3. CASE j # k
      <4>1. InWindow(Snapshot', o, j)
        BY <1>1, <1>4, <3>1, <3>3 DEF InWindow, Snapshot
      <4> QED
        BY <4>1 DEF Found
    <3> QED
      BY <3>2, <3>3
  <2>3. CASE \/ log[o] = Unreadable \/ log[o].service = Unknown \/ o \in late
             \/ \E d \in emitted : o \in d.records
    BY <1>1, <2>3 DEF Found, Snapshot
  <2> QED
    BY <2>1, <2>2, <2>3 DEF Found, Snapshot
<1>6. timers' \subseteq {j \in Keys : windows'[j] # {}}
  BY <1>1, <1>2, <1>4, Current
<1>7. \A d \in emitted' : d.key \notin reopened \cup purged' => d.records \subseteq windows'[d.key]
  <2>1. \A d \in emitted : d.key \in Keys
    BY Current DEF Documents
  <2> QED
    BY <1>1, <1>4, <2>1, Current
<1>8. \A j \in purged' \ reopened : windows'[j] = {}
  BY <1>1, <1>4, Current
<1>9. Sound(Snapshot', log', reopened')
  BY <1>1, <1>4, <1>5, <1>6, <1>7, <1>8, Current, CurrentSound DEF Offsets, Documents
<1>10. Typed'
  BY <1>1 DEF StreamInv, Typed, Offsets, Documents
<1> QED
  BY <1>3, <1>9, <1>10 DEF StreamInv

-----------------------------------------------------------------------------
\* A record that is put in no window.
LEMMA SkipKeeps ==
  ASSUME StreamInv, position <= Len(log), position' = position + 1,
         seen' \in Stamps \cup {-1},
         late' \in {late, late \cup {position}},
         \/ log[position] = Unreadable \/ log[position].service = Unknown
         \/ position \in late',
         UNCHANGED <<log, watermark, windows, timers, buffer, snapshotting, pending, checkpoint,
                     index, emitted, purged, reopened, delivered, refused>>
  PROVE  StreamInv'
<1>1. Carried' /\ Ordered' /\ \A x \in Saved' : Sound(x, log', reopened') /\ Preserved(x)'
  BY QuietKeeps, Current
<1>2. ASSUME NEW o \in 1 .. position PROVE Found(Snapshot', log, o)
  <2>1. CASE o = position
    BY <2>1 DEF Found, Snapshot
  <2>2. CASE o # position
    <3>1. o \in 1 .. position - 1
      BY <2>2, Current
    <3>2. Found(Snapshot, log, o)
      BY <3>1, Current
    <3>3. \A k \in Keys : InWindow(Snapshot, o, k) => InWindow(Snapshot', o, k)
      BY DEF InWindow, Snapshot
    <3>4. Snapshot'.emitted = Snapshot.emitted /\ Snapshot.late \subseteq Snapshot'.late
      BY DEF Snapshot
    <3> QED
      BY <3>2, <3>3, <3>4 DEF Found
  <2> QED
    BY <2>1, <2>2
<1>3. Sound(Snapshot', log', reopened')
  <2>1. Offsets' = Offsets /\ Documents' = Documents
    BY DEF Offsets, Documents
  <2>2. position' \in 1 .. Len(log') + 1 /\ late' \subseteq Offsets'
        /\ \A o \in 1 .. position' - 1 : Found(Snapshot', log', o)
    BY <1>2, <2>1, Current DEF Offsets
  <2>3. /\ windows' \in [Keys -> SUBSET Offsets'] /\ emitted' \subseteq Documents'
        /\ timers' \subseteq {k \in Keys : windows'[k] # {}} /\ purged' \subseteq Keys
    BY <2>1, Current
  <2>4. /\ \A d \in emitted' : d.key \notin reopened' \cup purged' => d.records \subseteq windows'[d.key]
        /\ \A k \in purged' \ reopened' : windows'[k] = {}
    BY Current
  <2> QED
    BY <2>2, <2>3, <2>4, CurrentSound
<1>4. Typed'
  BY DEF StreamInv, Typed, Offsets, Documents
<1> QED
  BY <1>1, <1>3, <1>4 DEF StreamInv

\* A record that is counted in a window, which fires again if it has fired.
LEMMA CountKeeps ==
  ASSUME StreamInv, ~Full, position <= Len(log), position' = position + 1,
         seen' \in Stamps \cup {-1},
         NEW k \in Keys, Count(k),
         UNCHANGED <<log, watermark, snapshotting, pending, checkpoint, index, late, purged,
                     delivered, refused>>
  PROVE  StreamInv'
<1> DEFINE w == windows[k] \cup {position}
<1>1. /\ windows' = [windows EXCEPT ![k] = w]
      /\ reopened' = IF k \in purged THEN reopened \cup {k} ELSE reopened
      /\ \/ Emit(k, w) /\ timers' = timers
         \/ timers' = timers \cup {k} /\ UNCHANGED <<buffer, emitted>>
  <2>1. windows' = [windows EXCEPT ![k] = w] /\ windows'[k] = w
    BY Current DEF Count
  <2> QED
    BY <2>1 DEF Count, FiredAgain
<1>2. /\ position \in Offsets /\ w \in SUBSET Offsets /\ w # {} /\ position \in w
      /\ windows[k] \subseteq w
  BY Current DEF Offsets
<1> HIDE DEF w
<1>3. windows' \in [Keys -> SUBSET Offsets] /\ windows'[k] = w
      /\ \A j \in Keys : j # k => windows'[j] = windows[j]
  BY <1>1, <1>2, Current
<1>4. reopened \subseteq reopened' /\ reopened' \subseteq Keys /\ (k \notin reopened' => k \notin purged)
  BY <1>1, Current
<1>5. \A d \in emitted : d.key = k /\ k \notin reopened' => d.records \subseteq w
  BY <1>2, <1>4, Current
<1>6. /\ emitted \subseteq emitted' /\ timers \subseteq timers' /\ emitted' \subseteq Documents
      /\ \A d \in emitted' : d \in emitted \/ d = [key |-> k, records |-> w]
      /\ timers' \subseteq timers \cup {k}
      /\ k \in timers' \/ [key |-> k, records |-> w] \in emitted'
  BY <1>1, <1>2, Current DEF Emit, Documents
<1>7. /\ buffer' \in Seq(Documents) /\ Len(buffer') <= BufferSize
      /\ \A i \in DOMAIN buffer' : buffer'[i] \in emitted'
      /\ Carried' /\ Ordered'
      /\ \A x \in Saved' : Sound(x, log', reopened') /\ Preserved(x)'
  <2>1. CASE Emit(k, w)
    BY <1>2, <1>4, <1>5, <2>1, EmitKeeps, Current
  <2>2. CASE UNCHANGED <<buffer, emitted>>
    <3>1. Carried' /\ Ordered' /\ \A x \in Saved' : Sound(x, log', reopened') /\ Preserved(x)'
      BY <1>4, <2>2, QuietKeeps, Current
    <3> QED
      BY <2>2, <3>1 DEF StreamInv, Typed
  <2> QED
    BY <1>1, <2>1, <2>2
<1>8. ASSUME NEW o \in 1 .. position PROVE Found(Snapshot', log, o)
  <2>1. CASE o = position
    <3>1. o \in windows'[k] /\ (k \in timers' \/ [key |-> k, records |-> windows'[k]] \in emitted')
      BY <1>2, <1>3, <1>6, <2>1, Zenon
    <3>2. InWindow(Snapshot', o, k)
      BY <3>1 DEF InWindow, Snapshot
    <3> QED
      BY <3>2 DEF Found
  <2>2. CASE o # position
    <3>1. o \in 1 .. position - 1
      BY <2>2, Current
    <3>2. Found(Snapshot, log, o)
      BY <3>1, Current
    <3>3. CASE \E j \in Keys : InWindow(Snapshot, o, j)
      <4>1. PICK j \in Keys : InWindow(Snapshot, o, j)
        BY <3>3
      <4>2. CASE j = k
        <5>1. o \in windows'[k] /\ (k \in timers' \/ [key |-> k, records |-> windows'[k]] \in emitted')
          BY <1>2, <1>3, <1>6, <4>1, <4>2 DEF InWindow, Snapshot
        <5>2. InWindow(Snapshot', o, k)
          BY <5>1 DEF InWindow, Snapshot
        <5> QED
          BY <5>2 DEF Found
      <4>3. CASE j # k
        <5>1. o \in windows'[j] /\ (j \in timers' \/ [key |-> j, records |-> windows'[j]] \in emitted')
          BY <1>3, <1>6, <4>1, <4>3 DEF InWindow, Snapshot
        <5>2. InWindow(Snapshot', o, j)
          BY <5>1 DEF InWindow, Snapshot
        <5> QED
          BY <5>2 DEF Found
      <4> QED
        BY <4>2, <4>3
    <3>4. CASE \/ log[o] = Unreadable \/ log[o].service = Unknown \/ o \in late
               \/ \E d \in emitted : o \in d.records
      BY <1>6, <3>4 DEF Found, Snapshot
    <3> QED
      BY <3>2, <3>3, <3>4 DEF Found, Snapshot
  <2> QED
    BY <2>1, <2>2
<1>9. Sound(Snapshot', log', reopened')
  <2>1. Offsets' = Offsets /\ Documents' = Documents
    BY DEF Offsets, Documents
  <2>2. position' \in 1 .. Len(log') + 1 /\ late' \subseteq Offsets'
        /\ \A o \in 1 .. position' - 1 : Found(Snapshot', log', o)
    BY <1>8, <2>1, Current DEF Offsets
  <2>3. /\ windows' \in [Keys -> SUBSET Offsets'] /\ emitted' \subseteq Documents'
        /\ timers' \subseteq {j \in Keys : windows'[j] # {}} /\ purged' \subseteq Keys
    <3>1. ASSUME NEW j \in timers' PROVE j \in Keys /\ windows'[j] # {}
      <4>1. CASE j = k
        BY <1>2, <1>3, <4>1, Zenon
      <4>2. CASE j \in timers /\ j # k
        BY <1>3, <4>2, Current
      <4> QED
        BY <1>6, <3>1, <4>1, <4>2
    <3> QED
      BY <1>3, <1>6, <2>1, <3>1, Current
  <2>4. \A d \in emitted' : d.key \notin reopened' \cup purged' => d.records \subseteq windows'[d.key]
    <3>1. ASSUME NEW d \in emitted, d.key \notin reopened' \cup purged'
          PROVE  d.records \subseteq windows'[d.key]
      <4>1. d.key \in Keys
        BY Current DEF Documents
      <4> QED
        BY <1>3, <1>4, <1>5, <3>1, <4>1, Current
    <3>2. ASSUME NEW d, d = [key |-> k, records |-> w] PROVE d.records \subseteq windows'[d.key]
      <4>1. d.key = k /\ d.records = w
        BY <3>2
      <4> QED
        BY <1>3, <4>1, Zenon
    <3> QED
      BY <1>6, <3>1, <3>2, Zenon
  <2>5. \A j \in purged' \ reopened' : windows'[j] = {}
    BY <1>3, <1>4, Current
  <2> QED
    BY <2>2, <2>3, <2>4, <2>5, CurrentSound
<1>10. Typed'
  BY <1>4, <1>7 DEF StreamInv, Typed, Offsets, Documents
<1> QED
  BY <1>7, <1>9, <1>10 DEF StreamInv

LEMMA ConsumeKeeps == ASSUME StreamInv, Consume PROVE StreamInv'
<1> DEFINE r == log[position]
<1>1. /\ ~Full /\ position <= Len(log) /\ position' = position + 1
      /\ UNCHANGED <<log, watermark, snapshotting, pending, checkpoint, index, purged, delivered,
                     refused>>
  BY DEF Consume, Free
<1>2. r \in Traffic
  BY <1>1, Current, ElementOfSeq
<1>3. CASE /\ r = Unreadable
           /\ UNCHANGED <<seen, windows, timers, buffer, emitted, late, reopened>>
  BY <1>1, <1>3, SkipKeeps DEF StreamInv, Typed
<1>4. ASSUME NEW stamp \in EventTimes(r), r # Unreadable, seen' = Max({seen, stamp}),
             \/ r.service \in Services /\ Assign(Key(r.service, stamp))
             \/ /\ r.service = Unknown
                /\ UNCHANGED <<windows, timers, buffer, emitted, late, reopened>>
      PROVE  StreamInv'
  <2>1. stamp \in Stamps
    BY <1>2, <1>4, StreamConstants DEF EventTimes
  <2>2. seen' \in Stamps \cup {-1}
    <3>1. seen \in Int /\ stamp \in Int /\ seen \in Stamps \cup {-1}
      BY <2>1, StreamConstants DEF StreamInv, Typed
    <3>2. \E x \in {seen, stamp} : \A y \in {seen, stamp} : x >= y
      BY <3>1
    <3>3. Max({seen, stamp}) \in {seen, stamp}
      BY <3>2, Zenon DEF Max
    <3> QED
      BY <1>4, <2>1, <3>1, <3>3
  <2>3. CASE r.service = Unknown /\ UNCHANGED <<windows, timers, buffer, emitted, late, reopened>>
    BY <1>1, <2>2, <2>3, SkipKeeps
  <2>4. CASE r.service \in Services /\ Assign(Key(r.service, stamp))
    <3>1. Key(r.service, stamp) \in Keys
      BY <2>1, <2>4, KeyTypes
    <3>2. CASE /\ late' = late \cup {position}
               /\ UNCHANGED <<windows, timers, buffer, emitted, reopened>>
      BY <1>1, <2>2, <3>2, SkipKeeps
    <3>3. CASE Count(Key(r.service, stamp)) /\ UNCHANGED late
      BY <1>1, <2>2, <3>1, <3>3, CountKeeps
    <3> QED
      BY <2>4, <3>2, <3>3 DEF Assign
  <2> QED
    BY <1>4, <2>3, <2>4
<1> QED
  BY <1>3, <1>4 DEF Consume

-----------------------------------------------------------------------------
LEMMA FlushKeeps == ASSUME StreamInv, Flush PROVE StreamInv'
<1>1. PICK places \in SUBSET DOMAIN buffer :
          /\ Index(places)
          /\ refused' = refused \cup {buffer[i] : i \in DOMAIN buffer \ places}
  BY DEF Flush
<1>2. /\ buffer' = <<>>
      /\ UNCHANGED <<log, position, seen, watermark, windows, timers, snapshotting, pending,
                     checkpoint, emitted, late, purged, reopened>>
  BY DEF Flush, operatorVars, progress
<1>3. /\ buffer \in Seq(Documents) /\ DOMAIN buffer = 1 .. Len(buffer) /\ Len(buffer) \in Nat
      /\ \A i \in DOMAIN buffer : buffer[i] \in emitted /\ buffer[i] \in Documents
  BY LenProperties, ElementOfSeq DEF StreamInv, Typed
<1>4. buffer' \in Seq(Documents) /\ Len(buffer') = 0 /\ DOMAIN buffer' = {}
  BY <1>2, EmptySeq
<1>5. refused \subseteq refused' /\ \A i \in DOMAIN buffer : buffer[i] \in refused' \/ i \in places
  BY <1>1
<1>6. ASSUME NEW d \in emitted, d \notin refused', Kept(d)
      PROVE  d.records \subseteq index'[d.key]
  <2>1. d.key \in Keys
    BY Current DEF Documents
  <2>2. d.records \subseteq index[d.key] \/ \E i \in places : buffer[i] = d
    BY <1>5, <1>6 DEF StreamInv, Carried, InBuffer
  <2>3. ASSUME NEW j \in places, buffer[j].key = d.key
        PROVE  d.records \subseteq buffer[j].records \/ \E i \in places : i > j /\ buffer[i] = d
    BY <1>5, <1>6, <2>3 DEF StreamInv, Ordered
  <2> QED
    BY <1>1, <1>3, <2>1, <2>2, <2>3, IndexKeeps
<1>7. Carried' /\ Ordered'
  BY <1>2, <1>4, <1>6 DEF Carried, Ordered, Kept
<1>8. ASSUME NEW x \in Saved' PROVE Sound(x, log', reopened') /\ Preserved(x)'
  <2>1. x \in Saved /\ Sound(x, log, reopened) /\ Preserved(x)
    BY <1>2, <1>8 DEF Saved, StreamInv
  <2>2. ASSUME NEW d \in x.emitted, Kept(d), d \notin refused' PROVE d.records \subseteq index'[d.key]
    BY <1>6, <2>1, <2>2 DEF Preserved
  <2> QED
    BY <1>2, <1>4, <2>1, <2>2 DEF Preserved, Kept
<1>9. Sound(Snapshot', log', reopened')
  <2>1. Snapshot' = Snapshot
    BY <1>2 DEF Snapshot
  <2> QED
    BY <1>2, <2>1 DEF StreamInv
<1>10. Typed'
  <2>1. index' \in [Keys -> SUBSET Offsets] /\ delivered' \subseteq Documents
    BY <1>1, IndexTyped DEF StreamInv
  <2>2. refused' \subseteq Documents
    BY <1>1, <1>3 DEF StreamInv, Typed
  <2>3. Offsets' = Offsets /\ Documents' = Documents
    BY <1>2 DEF Offsets, Documents
  <2>4. Len(buffer') <= BufferSize
    BY <1>4, StreamConstants
  <2> QED
    BY <1>2, <1>4, <2>1, <2>2, <2>3, <2>4 DEF StreamInv, Typed
<1> QED
  BY <1>7, <1>8, <1>9, <1>10 DEF StreamInv

LEMMA BarrierKeeps == ASSUME StreamInv, Barrier PROVE StreamInv'
<1>1. /\ UNCHANGED <<log, position, seen, watermark, windows, timers, buffer, pending, checkpoint,
                     index, emitted, late, purged, reopened, delivered, refused>>
      /\ snapshotting' = TRUE
  BY DEF Barrier, operatorVars, progress, outcome
<1>2. Carried' /\ Ordered' /\ \A x \in Saved' : Sound(x, log', reopened') /\ Preserved(x)'
  BY <1>1, QuietKeeps, Current
<1>3. Snapshot' = Snapshot
  BY <1>1 DEF Snapshot
<1>4. Typed'
  BY <1>1 DEF StreamInv, Typed, Offsets, Documents
<1> QED
  BY <1>1, <1>2, <1>3, <1>4 DEF StreamInv

LEMMA TakeSnapshotKeeps == ASSUME StreamInv, TakeSnapshot PROVE StreamInv'
<1>1. /\ UNCHANGED <<log, position, seen, watermark, windows, timers, buffer, checkpoint,
                     index, emitted, late, purged, reopened, delivered, refused>>
      /\ snapshotting' = FALSE /\ buffer = <<>> /\ pending' = {Snapshot}
  BY DEF TakeSnapshot, Flushed, operatorVars, progress, outcome
<1>2. Carried' /\ Ordered'
  BY <1>1 DEF StreamInv, Carried, Ordered, Kept, InBuffer
<1>3. Snapshot' = Snapshot
  BY <1>1 DEF Snapshot
<1>4. ASSUME NEW x, x = Snapshot PROVE Sound(x, log', reopened') /\ Preserved(x)'
  <2>1. Snapshot.position = position /\ Snapshot.emitted = emitted /\ position \in Nat
    BY Current DEF Snapshot
  <2>2. DOMAIN buffer = {}
    BY <1>1
  <2>3. \A d \in emitted \ refused : Kept(d) => d.records \subseteq index[d.key]
    BY <2>2 DEF StreamInv, Carried, InBuffer
  <2>4. Sound(x, log, reopened) /\ Preserved(x)
    BY <1>4, <2>1, <2>2, <2>3 DEF StreamInv, Preserved
  <2> QED
    BY <1>1, <2>4 DEF Preserved, Kept
<1>5. ASSUME NEW x, x = checkpoint PROVE Sound(x, log', reopened') /\ Preserved(x)'
  <2>1. Sound(x, log, reopened) /\ Preserved(x)
    BY <1>5 DEF StreamInv, Saved
  <2> QED
    BY <1>1, <2>1 DEF Preserved, Kept
<1>6. \A x \in Saved' : Sound(x, log', reopened') /\ Preserved(x)'
  <2>1. \A x \in Saved' : x = Snapshot \/ x = checkpoint
    BY <1>1 DEF Saved
  <2> QED
    BY <1>4, <1>5, <2>1
<1>7. Typed'
  BY <1>1 DEF StreamInv, Typed, Offsets, Documents
<1> QED
  BY <1>1, <1>2, <1>3, <1>6, <1>7 DEF StreamInv

LEMMA EndCheckpointKeeps == ASSUME StreamInv, EndCheckpoint PROVE StreamInv'
<1>1. /\ UNCHANGED <<log, position, seen, watermark, windows, timers, buffer, snapshotting,
                     index, emitted, late, purged, reopened, delivered, refused>>
      /\ pending' = {} /\ checkpoint' \in Saved
  BY DEF EndCheckpoint, operatorVars, progress, outcome, Saved
<1>2. Carried' /\ Ordered'
  BY <1>1 DEF StreamInv, Carried, Ordered, Kept, InBuffer
<1>3. Snapshot' = Snapshot
  BY <1>1 DEF Snapshot
<1>4. \A x \in Saved' : Sound(x, log', reopened') /\ Preserved(x)'
  <2>1. Saved' = {checkpoint'}
    BY <1>1 DEF Saved
  <2>2. ASSUME NEW x \in Saved PROVE Sound(x, log', reopened') /\ Preserved(x)'
    BY <1>1 DEF StreamInv, Preserved, Kept
  <2>3. \A x \in Saved' : x \in Saved
    BY <1>1, <2>1
  <2> QED
    BY <2>2, <2>3
<1>5. Typed'
  BY <1>1 DEF StreamInv, Typed, Offsets, Documents
<1> QED
  BY <1>1, <1>2, <1>3, <1>4, <1>5 DEF StreamInv

LEMMA FailKeeps == ASSUME StreamInv, Fail PROVE StreamInv'
<1>1. PICK places \in SUBSET DOMAIN buffer : Index(places)
  BY DEF Fail
<1>2. /\ position' = checkpoint.position /\ windows' = checkpoint.windows
      /\ timers' = checkpoint.timers /\ emitted' = checkpoint.emitted
      /\ late' = checkpoint.late /\ purged' = checkpoint.purged
      /\ seen' = -1 /\ watermark' = WatermarkAt(-1)
      /\ buffer' = <<>> /\ snapshotting' = FALSE /\ pending' = {}
      /\ UNCHANGED <<log, checkpoint, reopened, refused>>
  BY DEF Fail
<1>3. Sound(checkpoint, log, reopened) /\ Preserved(checkpoint)
  BY DEF StreamInv, Saved
<1>4. Sound(Snapshot', log', reopened')
  <2>1. /\ Snapshot'.position = checkpoint.position /\ Snapshot'.windows = checkpoint.windows
        /\ Snapshot'.timers = checkpoint.timers /\ Snapshot'.emitted = checkpoint.emitted
        /\ Snapshot'.late = checkpoint.late /\ Snapshot'.purged = checkpoint.purged
    BY <1>2 DEF Snapshot
  <2>2. SnapshotTyped(Snapshot', log)
    BY <1>3, <2>1 DEF Sound, SnapshotTyped
  <2>3. Skipless(Snapshot', log)
    <3>1. \A o : Found(checkpoint, log, o) => Found(Snapshot', log, o)
      BY <2>1 DEF Found, InWindow
    <3> QED
      BY <1>3, <2>1, <3>1 DEF Sound, Skipless
  <2>4. Growing(Snapshot', reopened) /\ Cleared(Snapshot', reopened)
    BY <1>3, <2>1 DEF Sound, Growing, Cleared
  <2> QED
    BY <1>2, <2>2, <2>3, <2>4 DEF Sound
<1>5. buffer' \in Seq(Documents) /\ Len(buffer') = 0 /\ DOMAIN buffer' = {}
  BY <1>2, EmptySeq
<1>6. ASSUME NEW d \in checkpoint.emitted, Kept(d), d \notin refused
      PROVE  d.records \subseteq index'[d.key]
  <2>1. d.key \in Keys
    BY <1>3 DEF Preserved, Sound, SnapshotTyped
  <2>2. /\ d.records \subseteq index[d.key]
        /\ \A j \in DOMAIN buffer : buffer[j].key = d.key => d.records \subseteq buffer[j].records
    BY <1>3, <1>6 DEF Preserved
  <2>3. buffer \in Seq(Documents)
    BY DEF StreamInv, Typed
  <2> QED
    BY <1>1, <2>1, <2>2, <2>3, IndexKeeps
<1>7. Carried' /\ Ordered'
  BY <1>2, <1>5, <1>6 DEF Carried, Ordered, Kept
<1>8. \A x \in Saved' : Sound(x, log', reopened') /\ Preserved(x)'
  <2>1. Saved' = {checkpoint}
    BY <1>2 DEF Saved
  <2>2. checkpoint.position \in Int
    BY <1>3 DEF Sound, SnapshotTyped
  <2>3. Preserved(checkpoint)'
    BY <1>2, <1>5, <1>6, <2>2 DEF Preserved, Kept
  <2>4. Sound(checkpoint, log', reopened')
    BY <1>2, <1>3
  <2> QED
    BY <1>2, <2>1, <2>3, <2>4 DEF Preserved, Kept
<1>9. Typed'
  <2>1. index' \in [Keys -> SUBSET Offsets] /\ delivered' \subseteq Documents
    BY <1>1, IndexTyped DEF StreamInv
  <2>2. Offsets' = Offsets /\ Documents' = Documents
    BY <1>2 DEF Offsets, Documents
  <2>3. Len(buffer') <= BufferSize
    BY <1>5, StreamConstants
  <2> QED
    BY <1>2, <1>5, <2>1, <2>2, <2>3 DEF StreamInv, Typed
<1> QED
  BY <1>4, <1>7, <1>8, <1>9 DEF StreamInv

-----------------------------------------------------------------------------
LEMMA StreamInvStep == StreamInv /\ [Next]_vars => StreamInv'
<1> SUFFICES ASSUME StreamInv, [Next]_vars PROVE StreamInv'
  OBVIOUS
<1>1. CASE UNCHANGED vars
  <2>1. UNCHANGED <<log, position, seen, watermark, windows, timers, buffer, snapshotting, pending,
                    checkpoint, index, emitted, late, purged, reopened, delivered, refused>>
    BY <1>1 DEF vars, operatorVars, sinkVars, progress, outcome
  <2>2. Carried' /\ Ordered' /\ \A x \in Saved' : Sound(x, log', reopened') /\ Preserved(x)'
    BY <2>1, QuietKeeps, Current
  <2>3. Snapshot' = Snapshot
    BY <2>1 DEF Snapshot
  <2>4. Typed'
    BY <2>1 DEF StreamInv, Typed, Offsets, Documents
  <2> QED
    BY <2>1, <2>2, <2>3, <2>4 DEF StreamInv
<1>2. CASE Next
  BY <1>2, PublishKeeps, ConsumeKeeps, AdvanceKeeps, FireKeeps, PurgeKeeps, FlushKeeps,
     BarrierKeeps, TakeSnapshotKeeps, EndCheckpointKeeps, FailKeeps
     DEF Next, OperatorSteps, SinkSteps
<1> QED
  BY <1>1, <1>2

LEMMA StreamInvHolds == Spec => []StreamInv
BY StreamInvInit, StreamInvStep, PTL DEF Spec

\* Type correctness of the job.
THEOREM StreamTypeCorrect == Spec => []TypeOK
<1>1. ASSUME StreamInv PROVE TypeOK
  <2>1. checkpoint.position <= position
    BY <1>1 DEF StreamInv, Saved, Preserved
  <2>2. position \in 1 .. Len(log) + 1
    BY <1>1, Current
  <2> QED
    BY <1>1, <2>1, <2>2, Current DEF StreamInv, Typed, TypeOK
<1> QED
  BY <1>1, StreamInvHolds, PTL

\* No record falls through the windows, wherever the job fails.
THEOREM RecordsAreCounted == Spec => []NothingSkipped
<1>1. ASSUME StreamInv PROVE NothingSkipped
  <2> SUFFICES ASSUME NEW o \in 1 .. position - 1
               PROVE  \/ log[o] = Unreadable \/ log[o].service = Unknown
                      \/ o \in late
                      \/ \E k \in Keys : /\ o \in windows[k]
                                         /\ \/ k \in timers
                                            \/ [key |-> k, records |-> windows[k]] \in emitted
                      \/ \E d \in emitted : o \in d.records
    BY DEF NothingSkipped
  <2>1. Found(Snapshot, log, o)
    BY <1>1, Current
  <2> QED
    BY <2>1 DEF Found, InWindow, Snapshot
<1> QED
  BY <1>1, StreamInvHolds, PTL

\* What a checkpoint says was emitted is in the index, whatever fails later.
THEOREM CheckpointIsIndexed == Spec => []IndexKeepsCheckpoint
<1>1. ASSUME StreamInv PROVE IndexKeepsCheckpoint
  BY <1>1 DEF StreamInv, Saved, Preserved, Kept, IndexKeepsCheckpoint
<1> QED
  BY <1>1, StreamInvHolds, PTL
=============================================================================
