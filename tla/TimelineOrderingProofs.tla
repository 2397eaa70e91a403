----------------------- MODULE TimelineOrderingProofs -----------------------
(***************************************************************************)
(* Proofs about check 2 for any number of sessions, entries and edits.     *)
(* ScanInv is the invariant of the two loops: what the entries before next *)
(* satisfy, and what last_seq knows about them.                            *)
(***************************************************************************)
EXTENDS TimelineOrdering, CaseTimelineProofs

\* The entries up to n are in timestamp order.
TimesUpTo(n) ==
    \A i, j \in 1..n : i < j => timeline[i].ts <= timeline[j].ts

\* The sequenced actions up to n of one session are in order.
SequencesUpTo(n) ==
    \A i, j \in 1..n :
        (/\ i < j
         /\ Sequenced(timeline[i]) /\ Sequenced(timeline[j])
         /\ timeline[i].session = timeline[j].session)
            => timeline[i].seq < timeline[j].seq

\* last_seq holds the largest number seen in the session, if any was.
LastSeqUpTo(n) ==
    /\ \A i \in 1..n : Sequenced(timeline[i]) =>
         /\ lastSeq[timeline[i].session] # None
         /\ timeline[i].seq <= lastSeq[timeline[i].session]
    /\ \A s \in Session : lastSeq[s] # None =>
         \E i \in 1..n : /\ Sequenced(timeline[i]) /\ timeline[i].session = s
                         /\ timeline[i].seq = lastSeq[s]

TimestampLoop ==
    /\ next \in 1..(Len(timeline) + 1)
    /\ Len(timeline) > 0 => next <= Len(timeline) /\ TimesUpTo(next)
    /\ lastSeq = NoneSeen

SequenceLoop ==
    /\ next \in 1..(Len(timeline) + 1)
    /\ TimestampsOrdered(timeline)
    /\ SequencesUpTo(next - 1)
    /\ LastSeqUpTo(next - 1)

ScanInv ==
    /\ ~exported => loop = "timestamps" /\ next = 1 /\ lastSeq = NoneSeen
                    /\ result = None
    /\ Scanning("timestamps") => TimestampLoop
    /\ Scanning("sequences") => SequenceLoop
    /\ VerdictIsOrder

-----------------------------------------------------------------------------
(* Type correctness.                                                       *)

\* The entries of a well-typed document that the sequence loop compares belong
\* to a session and carry a number.
LEMMA SequencedEntry ==
    ASSUME SourceTypeOK, NEW i \in 1..Len(timeline), Sequenced(timeline[i])
    PROVE  timeline[i].session \in Session /\ timeline[i].seq \in Int
BY DEF SourceTypeOK, TimelineOK, EntryOK, Sequenced, OptionalSession

\* Timestamps are natural numbers.
LEMMA EntryTimes ==
    ASSUME SourceTypeOK
    PROVE  /\ Len(timeline) \in Nat /\ DOMAIN timeline = 1..Len(timeline)
           /\ \A i \in 1..Len(timeline) : timeline[i].ts \in Nat
BY DEF SourceTypeOK, TimelineOK, EntryOK

\* The variables of check 2 and its document keep their types.
THEOREM OrderingTypeCorrect == Spec => []TypeOK
<1> USE NoneAssumption, ResultAssumption DEF TypeOK
<1>1. Init => TypeOK
  BY SourceInitTypes DEF Init, NoneSeen
<1>2. TypeOK /\ [Next]_vars => TypeOK'
  <2> SUFFICES ASSUME TypeOK, [Next]_vars PROVE TypeOK'
    OBVIOUS
  <2>1. CASE Source
    BY <2>1, SourceKeepsTypes DEF Source, scanVars
  <2>2. CASE Submit
    BY <2>2, SourceStaysTyped DEF Submit, scanVars
  <2>3. CASE CompareTimestamps
    BY <2>3, SourceStaysTyped DEF CompareTimestamps, Failure, Results
  <2>4. CASE EndTimestamps
    BY <2>4, SourceStaysTyped DEF EndTimestamps
  <2>5. CASE SkipEntry
    BY <2>5, SourceStaysTyped DEF SkipEntry
  <2>6. CASE CompareSequence
    <3>1. next \in 1..Len(timeline) /\ Sequenced(timeline[next])
      BY <2>6, EntryTimes DEF CompareSequence, InSequences
    <3>2. timeline[next].session \in Session /\ timeline[next].seq \in Int
      BY <3>1, SequencedEntry
    <3> QED
      BY <2>6, <3>2, SourceStaysTyped DEF CompareSequence, Failure, Results
  <2>7. CASE Finish
    BY <2>7, SourceStaysTyped DEF Finish, Results
  <2>8. CASE UNCHANGED vars
    BY <2>8, SourceStaysTyped DEF vars, scanVars
  <2> QED
    BY <2>1, <2>2, <2>3, <2>4, <2>5, <2>6, <2>7, <2>8 DEF Next, Scan
<1> QED
  BY <1>1, <1>2, PTL DEF Spec

-----------------------------------------------------------------------------
(* The invariant of the two loops.                                         *)

\* One window in order extends the ordered prefix by one entry: this is where
\* comparing neighbours becomes an order of all pairs.
LEMMA TimesExtend ==
    ASSUME SourceTypeOK, NEW n \in 1..Len(timeline), n < Len(timeline),
           TimesUpTo(n), ~(timeline[n + 1].ts < timeline[n].ts)
    PROVE  TimesUpTo(n + 1)
<1> SUFFICES ASSUME NEW i \in 1..(n + 1), NEW j \in 1..(n + 1), i < j
             PROVE  timeline[i].ts <= timeline[j].ts
  BY DEF TimesUpTo
<1>1. /\ timeline[i].ts \in Nat /\ timeline[j].ts \in Nat
      /\ timeline[n].ts \in Nat /\ timeline[n + 1].ts \in Nat
  BY EntryTimes
<1>2. CASE j = n + 1
  <2>1. i = n \/ timeline[i].ts <= timeline[n].ts
    BY <1>2, EntryTimes DEF TimesUpTo
  <2>2. timeline[n].ts <= timeline[n + 1].ts
    BY <1>1
  <2> QED
    BY <1>1, <1>2, <2>1, <2>2
<1>3. CASE j # n + 1
  BY <1>3, EntryTimes DEF TimesUpTo
<1> QED
  BY <1>2, <1>3

\* Every step keeps the invariant of the two loops.
LEMMA ScanInvStep ==
    ASSUME TypeOK, ScanInv, [Next]_vars
    PROVE  ScanInv'
<1> USE NoneAssumption, ResultAssumption DEF ScanInv, VerdictIsOrder
<1>0. /\ SourceTypeOK /\ Len(timeline) \in Nat
      /\ DOMAIN timeline = 1..Len(timeline) /\ next \in Nat \ {0}
  BY EntryTimes DEF TypeOK
<1>1. CASE Source
  BY <1>1 DEF Source, Record, Edit, scanVars, Scanning
<1>2. CASE Submit
  <2>1. /\ ~exported /\ exported' /\ timeline' = timeline
        /\ loop' = "timestamps" /\ next' = 1 /\ lastSeq' = NoneSeen
        /\ result' = None
    BY <1>2 DEF Submit, Export, scanVars
  <2>2. TimestampLoop'
    BY <1>0, <2>1 DEF TimestampLoop, TimesUpTo
  <2> QED
    BY <2>1, <2>2 DEF Scanning
<1>3. CASE CompareTimestamps
  <2>1. /\ exported /\ exported' = exported /\ timeline' = timeline
        /\ loop = "timestamps" /\ loop' = loop /\ lastSeq' = lastSeq
        /\ result = None /\ next < Len(timeline)
        /\ TimestampLoop
    BY <1>3 DEF CompareTimestamps, Scanning, sourceVars
  <2>2. CASE timeline[next + 1].ts < timeline[next].ts
    <3>1. result' = Failure(next + 1, "timestamp")
      BY <1>3, <2>2 DEF CompareTimestamps
    <3>2. result'.verdict = "fail" /\ result' # None
      BY <3>1, <1>0 DEF Failure, Results
    <3>3. next \in DOMAIN timeline /\ next + 1 \in DOMAIN timeline
      BY <1>0, <2>1
    <3>4. ~TimestampsOrdered(timeline)
      BY <1>0, <2>2, <3>3, EntryTimes DEF TimestampsOrdered
    <3> QED
      BY <2>1, <3>2, <3>4 DEF Scanning, Ordered
  <2>3. CASE ~(timeline[next + 1].ts < timeline[next].ts)
    <3>1. next' = next + 1 /\ result' = None
      BY <1>3, <2>1, <2>3 DEF CompareTimestamps
    <3>2. TimesUpTo(next + 1)
      BY <1>0, <2>1, <2>3, TimesExtend DEF TimestampLoop
    <3>3. TimestampLoop'
      BY <1>0, <2>1, <3>1, <3>2 DEF TimestampLoop, TimesUpTo
    <3> QED
      BY <2>1, <3>1, <3>3 DEF Scanning
  <2> QED
    BY <2>2, <2>3
<1>4. CASE EndTimestamps
  <2>1. /\ exported /\ exported' = exported /\ timeline' = timeline
        /\ loop' = "sequences" /\ next' = 1 /\ lastSeq' = lastSeq
        /\ result' = None /\ next >= Len(timeline)
        /\ TimestampLoop
    BY <1>4 DEF EndTimestamps, Scanning, sourceVars
  <2>2. TimestampsOrdered(timeline)
    BY <1>0, <2>1 DEF TimestampLoop, TimesUpTo, TimestampsOrdered
  <2>3. SequenceLoop'
    BY <1>0, <2>1, <2>2
       DEF SequenceLoop, TimestampLoop, SequencesUpTo, LastSeqUpTo, NoneSeen
  <2> QED
    BY <2>1, <2>3 DEF Scanning
<1>5. CASE SkipEntry
  <2>1. /\ exported' = exported /\ timeline' = timeline
        /\ loop = "sequences" /\ loop' = loop /\ lastSeq' = lastSeq
        /\ result' = None /\ next <= Len(timeline)
        /\ ~Sequenced(timeline[next]) /\ next' = next + 1
        /\ SequenceLoop
    BY <1>5 DEF SkipEntry, InSequences, Scanning, sourceVars
  <2>2. SequencesUpTo(next)
    BY <1>0, <2>1 DEF SequenceLoop, SequencesUpTo
  <2>3. LastSeqUpTo(next)
    BY <1>0, <2>1 DEF SequenceLoop, LastSeqUpTo
  <2>4. SequenceLoop'
    BY <1>0, <2>1, <2>2, <2>3 DEF SequenceLoop, SequencesUpTo, LastSeqUpTo
  <2> QED
    BY <2>1, <2>4 DEF Scanning
<1>6. CASE CompareSequence
  <2> DEFINE e == timeline[next]
             prev == lastSeq[e.session]
  <2>1. /\ exported /\ exported' = exported /\ timeline' = timeline
        /\ loop = "sequences" /\ loop' = loop
        /\ result = None /\ next <= Len(timeline)
        /\ Sequenced(e)
        /\ SequenceLoop
    BY <1>6 DEF CompareSequence, InSequences, Scanning, sourceVars
  <2>2. next \in 1..Len(timeline)
    BY <1>0, <2>1
  <2>3. e.session \in Session /\ e.seq \in Int
    BY <1>0, <2>1, <2>2, SequencedEntry
  <2>4. \A i \in 1..Len(timeline) : Sequenced(timeline[i]) =>
            timeline[i].session \in Session /\ timeline[i].seq \in Int
    BY <1>0, SequencedEntry
  <2>5. CASE prev # None /\ e.seq <= prev
    <3>1. result' = Failure(next, "sequence")
      BY <1>6, <2>5 DEF CompareSequence
    <3>2. result'.verdict = "fail" /\ result' # None
      BY <3>1, <1>0 DEF Failure, Results
    <3>3. PICK i \in 1..(next - 1) : /\ Sequenced(timeline[i])
                                     /\ timeline[i].session = e.session
                                     /\ timeline[i].seq = prev
      BY <2>1, <2>3, <2>5 DEF SequenceLoop, LastSeqUpTo
    <3>4. i \in DOMAIN timeline /\ next \in DOMAIN timeline /\ i < next
      BY <1>0, <2>2
    <3>5. timeline[i].seq \in Int /\ ~(timeline[i].seq < timeline[next].seq)
      BY <1>0, <2>3, <2>4, <2>5, <3>3, <3>4
    <3>6. ~SequencesOrdered(timeline)
      BY <2>1, <3>3, <3>4, <3>5 DEF SequencesOrdered
    <3> QED
      BY <2>1, <3>2, <3>6 DEF Scanning, Ordered
  <2>6. CASE ~(prev # None /\ e.seq <= prev)
    <3>1. /\ lastSeq' = [lastSeq EXCEPT ![e.session] = e.seq]
          /\ next' = next + 1 /\ result' = None
      BY <1>6, <2>1, <2>6 DEF CompareSequence
    <3>2. lastSeq \in [Session -> Int \cup {None}]
      BY DEF TypeOK
    <3>3. \A i \in 1..(next - 1) :
            Sequenced(timeline[i]) /\ timeline[i].session = e.session
                => timeline[i].seq < e.seq
      <4> SUFFICES ASSUME NEW i \in 1..(next - 1), Sequenced(timeline[i]),
                          timeline[i].session = e.session
                   PROVE  timeline[i].seq < e.seq
        OBVIOUS
      <4>1. prev # None /\ timeline[i].seq <= prev
        BY <2>1 DEF SequenceLoop, LastSeqUpTo
      <4>2. prev \in Int /\ timeline[i].seq \in Int
        BY <1>0, <2>2, <2>3, <2>4, <3>2, <4>1
      <4> QED
        BY <2>3, <2>6, <4>1, <4>2
    <3>4. SequencesUpTo(next)
      <4> SUFFICES ASSUME NEW i \in 1..next, NEW j \in 1..next, i < j,
                          Sequenced(timeline[i]), Sequenced(timeline[j]),
                          timeline[i].session = timeline[j].session
                   PROVE  timeline[i].seq < timeline[j].seq
        BY DEF SequencesUpTo
      <4>1. CASE j = next
        BY <1>0, <3>3, <4>1
      <4>2. CASE j # next
        BY <1>0, <2>1, <4>2 DEF SequenceLoop, SequencesUpTo
      <4> QED
        BY <4>1, <4>2
    <3>5. /\ \A i \in 1..next : Sequenced(timeline[i]) =>
               /\ lastSeq'[timeline[i].session] # None
               /\ timeline[i].seq <= lastSeq'[timeline[i].session]
          /\ \A s \in Session : lastSeq'[s] # None =>
               \E i \in 1..next : /\ Sequenced(timeline[i])
                                  /\ timeline[i].session = s
                                  /\ timeline[i].seq = lastSeq'[s]
      <4>1. ASSUME NEW i \in 1..next, Sequenced(timeline[i])
            PROVE  /\ lastSeq'[timeline[i].session] # None
                   /\ timeline[i].seq <= lastSeq'[timeline[i].session]
        <5>0. i \in 1..Len(timeline) /\ timeline[i].session \in Session
              /\ timeline[i].seq \in Int
          BY <1>0, <2>2, <2>4, <4>1
        <5>1. CASE timeline[i].session = e.session
          <6>1. i = next \/ timeline[i].seq < e.seq
            BY <1>0, <3>3, <4>1, <5>1
          <6> QED
            BY <2>3, <3>1, <3>2, <5>0, <5>1, <6>1
        <5>2. CASE timeline[i].session # e.session
          <6>1. i \in 1..(next - 1)
            BY <1>0, <4>1, <5>2
          <6> QED
            BY <2>1, <3>1, <3>2, <4>1, <5>0, <5>2, <6>1 DEF SequenceLoop, LastSeqUpTo
        <5> QED
          BY <5>1, <5>2
      <4>2. ASSUME NEW s \in Session, lastSeq'[s] # None
            PROVE  \E i \in 1..next : /\ Sequenced(timeline[i])
                                       /\ timeline[i].session = s
                                       /\ timeline[i].seq = lastSeq'[s]
        <5>1. CASE s = e.session
          BY <1>0, <2>1, <2>3, <3>1, <3>2, <5>1
        <5>2. CASE s # e.session
          <6>1. lastSeq'[s] = lastSeq[s]
            BY <3>1, <3>2, <5>2
          <6>2. PICK i \in 1..(next - 1) : /\ Sequenced(timeline[i])
                                           /\ timeline[i].session = s
                                           /\ timeline[i].seq = lastSeq[s]
            BY <2>1, <4>2, <6>1 DEF SequenceLoop, LastSeqUpTo
          <6>3. i \in 1..next
            BY <1>0
          <6> QED
            BY <6>1, <6>2, <6>3
        <5> QED
          BY <5>1, <5>2
      <4> QED
        BY <4>1, <4>2
    <3>6. SequenceLoop'
      <4>1. next' - 1 = next /\ next' \in 1..(Len(timeline) + 1)
        BY <1>0, <2>2, <3>1
      <4>2. SequencesUpTo(next - 1)'
        BY <2>1, <3>4, <4>1 DEF SequencesUpTo
      <4>3. LastSeqUpTo(next - 1)'
        BY <2>1, <3>5, <4>1 DEF LastSeqUpTo
      <4> QED
        BY <2>1, <4>1, <4>2, <4>3 DEF SequenceLoop
    <3> QED
      BY <2>1, <3>1, <3>6 DEF Scanning
  <2> QED
    BY <2>5, <2>6
<1>7. CASE Finish
  <2>1. /\ exported' = exported /\ timeline' = timeline
        /\ exported /\ loop' = "sequences" /\ result' = Pass
        /\ next > Len(timeline) /\ SequenceLoop
    BY <1>7 DEF Finish, Scanning, sourceVars
  <2>2. next - 1 = Len(timeline)
    BY <1>0, <2>1 DEF SequenceLoop
  <2>3. Ordered(timeline)
    BY <1>0, <2>1, <2>2 DEF SequenceLoop, SequencesUpTo, Ordered, SequencesOrdered
  <2>4. result' # None /\ result'.verdict = "pass"
    BY <2>1 DEF Pass, Results
  <2> QED
    BY <2>1, <2>3, <2>4 DEF Scanning
<1>8. CASE UNCHANGED vars
  <2>1. UNCHANGED <<timeline, exported, loop, next, lastSeq, result>>
    BY <1>8 DEF vars, sourceVars, scanVars
  <2> QED
    BY <2>1 DEF Scanning, TimestampLoop, SequenceLoop, TimesUpTo, SequencesUpTo,
                LastSeqUpTo
<1> QED
  BY <1>1, <1>2, <1>3, <1>4, <1>5, <1>6, <1>7, <1>8 DEF Next, Scan

\* What check 2 has established of the entries it has passed.
THEOREM ScanInvariant == Spec => [](TypeOK /\ ScanInv)
<1>1. Init => ScanInv
  BY DEF Init, SourceInit, ScanInv, VerdictIsOrder, Scanning
<1>2. TypeOK /\ ScanInv /\ [Next]_vars => ScanInv'
  BY ScanInvStep
<1> QED
  BY <1>1, <1>2, OrderingTypeCorrect, PTL DEF Spec

\* Check 2 passes exactly when all pairs of the timeline are in order.
THEOREM OrderingCorrect == Spec => []VerdictIsOrder
<1>1. ScanInv => VerdictIsOrder
  BY DEF ScanInv
<1> QED
  BY <1>1, ScanInvariant, PTL

-----------------------------------------------------------------------------
(* Where a failure is located, and what a pass means to check 4.           *)

\* What the loop has passed is in order, what it refuses is not: one step of the scan
\* names the first inversion.
LEMMA FirstInversionStep ==
    ASSUME TypeOK, ScanInv, FailureIsFirstInversion, [Next]_vars
    PROVE  FailureIsFirstInversion'
<1> USE NoneAssumption, ResultAssumption
<1>0. /\ SourceTypeOK /\ Len(timeline) \in Nat
      /\ DOMAIN timeline = 1..Len(timeline) /\ next \in Nat \ {0}
  BY EntryTimes DEF TypeOK
<1>1. CASE UNCHANGED <<timeline, result>>
  BY <1>1 DEF FailureIsFirstInversion
<1>2. CASE result' \in {None, Pass}
  BY <1>2 DEF FailureIsFirstInversion, Pass
<1>3. CASE CompareTimestamps /\ result' # None
  <2> DEFINE UpTo(n) == [i \in 1..n |-> timeline[i]]
             before == UpTo(next)
             upTo == UpTo(next + 1)
  <2>1. /\ timeline' = timeline /\ result' = Failure(next + 1, "timestamp")
        /\ next < Len(timeline) /\ TimestampLoop
        /\ timeline[next + 1].ts < timeline[next].ts
    BY <1>3 DEF CompareTimestamps, Scanning, sourceVars, ScanInv
  <2>2. /\ DOMAIN before = 1..next /\ \A i \in 1..next : before[i] = timeline[i]
        /\ DOMAIN upTo = 1..(next + 1) /\ \A i \in 1..(next + 1) : upTo[i] = timeline[i]
    OBVIOUS
  <2> HIDE DEF before, upTo
  <2>3. TimestampsOrdered(before)
    BY <1>0, <2>1, <2>2 DEF TimestampLoop, TimesUpTo, TimestampsOrdered
  <2>4. ~TimestampsOrdered(upTo)
    BY <1>0, <2>1, <2>2, EntryTimes DEF TimestampsOrdered
  <2>5. result'.at = next + 1 /\ result'.reason = "timestamp" /\ (next + 1) - 1 = next
    BY <1>0, <2>1 DEF Failure
  <2> QED
    BY <2>1, <2>3, <2>4, <2>5 DEF FailureIsFirstInversion, before, upTo
<1>4. CASE CompareSequence /\ result' # None
  <2> DEFINE e == timeline[next]
             prev == lastSeq[e.session]
             UpTo(n) == [i \in 1..n |-> timeline[i]]
             before == UpTo(next - 1)
             upTo == UpTo(next)
  <2>1. /\ timeline' = timeline /\ result' = Failure(next, "sequence")
        /\ next <= Len(timeline) /\ SequenceLoop /\ Sequenced(e)
        /\ prev # None /\ e.seq <= prev
    BY <1>4 DEF CompareSequence, InSequences, Scanning, sourceVars, ScanInv
  <2>2. next \in 1..Len(timeline) /\ next - 1 \in 0..Len(timeline)
    BY <1>0, <2>1
  <2>3. /\ DOMAIN before = 1..(next - 1) /\ \A i \in 1..(next - 1) : before[i] = timeline[i]
        /\ DOMAIN upTo = 1..next /\ \A i \in 1..next : upTo[i] = timeline[i]
    OBVIOUS
  <2>4. /\ e.session \in Session /\ e.seq \in Int
        /\ \A i \in 1..Len(timeline) : Sequenced(timeline[i]) => timeline[i].seq \in Int
    BY <1>0, <2>1, <2>2, SequencedEntry
  <2>5. PICK i \in 1..(next - 1) : /\ Sequenced(timeline[i])
                                   /\ timeline[i].session = e.session
                                   /\ timeline[i].seq = prev
    BY <2>1, <2>4 DEF SequenceLoop, LastSeqUpTo
  <2>6. /\ i \in 1..next /\ next \in 1..next /\ i < next
        /\ ~(timeline[i].seq < timeline[next].seq)
    BY <1>0, <2>1, <2>2, <2>4, <2>5
  <2> HIDE DEF before, upTo
  <2>7. SequencesOrdered(before)
    BY <2>1, <2>3 DEF SequenceLoop, SequencesUpTo, SequencesOrdered
  <2>8. ~SequencesOrdered(upTo)
    BY <2>1, <2>3, <2>5, <2>6 DEF SequencesOrdered
  <2>9. result'.at = next /\ result'.reason = "sequence"
    BY <2>1 DEF Failure
  <2> QED
    BY <2>1, <2>7, <2>8, <2>9 DEF FailureIsFirstInversion, before, upTo
<1>5. CASE Source \/ Submit
  BY <1>2, <1>5 DEF Source, Submit, Record, Edit, Export, scanVars, ScanInv
<1>6. CASE CompareTimestamps \/ CompareSequence
  BY <1>2, <1>3, <1>4, <1>6
<1>7. CASE EndTimestamps \/ SkipEntry \/ Finish
  BY <1>1, <1>2, <1>7 DEF EndTimestamps, SkipEntry, Finish, sourceVars
<1>8. CASE UNCHANGED vars
  BY <1>1, <1>8 DEF vars, sourceVars, scanVars
<1> QED
  BY <1>5, <1>6, <1>7, <1>8 DEF Next, Scan

\* A failure of check 2 names the first entry that is out of order, in either loop.
THEOREM OrderingFailureLocated == Spec => []FailureIsFirstInversion
<1>1. Init => FailureIsFirstInversion
  BY DEF Init, FailureIsFirstInversion
<1>2. TypeOK /\ ScanInv /\ FailureIsFirstInversion /\ [Next]_vars => FailureIsFirstInversion'
  BY FirstInversionStep
<1> QED
  BY <1>1, <1>2, ScanInvariant, PTL DEF Spec

\* On a timeline that passes check 2, check 4 walks a fully numbered session in the
\* order of the timeline, although it reads the numbers differently.
THEOREM WalkFollows == Spec => []WalkFollowsTimeline
<1>1. TypeOK /\ ScanInv => WalkFollowsTimeline
  <2> SUFFICES ASSUME TypeOK, ScanInv, result # None, result.verdict = "pass",
                      NEW s \in Session,
                      \A i \in ActionsOf(timeline, s) : timeline[i].seq # None,
                      NEW j \in 1..ChainLen(timeline, s), NEW k \in 1..ChainLen(timeline, s),
                      j < k
               PROVE  ChainOrder(timeline, s)[j] < ChainOrder(timeline, s)[k]
    BY DEF WalkFollowsTimeline
  <2> USE NoneAssumption
  <2> DEFINE a == ChainOrder(timeline, s)[j]
             b == ChainOrder(timeline, s)[k]
             n == Len(timeline)
  <2>1. SourceTypeOK /\ n \in Nat /\ DOMAIN timeline = 1..n
    BY EntryTimes DEF TypeOK
  <2>2. Sortable(timeline, n)
    BY <2>1 DEF Sortable, SortKey, SourceTypeOK, TimelineOK, EntryOK
  <2>3. /\ a \in ActionsOf(timeline, s) /\ Rank(timeline, s, a) = j
        /\ b \in ActionsOf(timeline, s) /\ Rank(timeline, s, b) = k
    BY <2>1, <2>2, ChainOrderRanks
  <2> HIDE DEF a, b
  <2>4. /\ a \in 1..n /\ b \in 1..n /\ Sequenced(timeline[a]) /\ Sequenced(timeline[b])
        /\ timeline[a].session = timeline[b].session
    BY <2>1, <2>3 DEF ActionsOf, Sequenced
  <2>5. /\ timeline[a].seq \in Int /\ timeline[b].seq \in Int
        /\ SortKey(timeline[a]) = timeline[a].seq /\ SortKey(timeline[b]) = timeline[b].seq
    BY <2>1, <2>4, SequencedEntry DEF SortKey
  <2>6. SequencesOrdered(timeline)
    BY DEF ScanInv, VerdictIsOrder, Ordered
  <2>7. CASE b < a
    <3>1. Precedes(timeline, b, a)
      BY <2>1, <2>4, <2>5, <2>6, <2>7 DEF SequencesOrdered, Precedes
    <3>2. b # a
      BY <2>4, <2>7
    <3>3. k < j
      BY <2>1, <2>2, <2>3, <3>1, <3>2, RankRises
    <3> QED
      BY <3>3
  <2>8. a # b
    BY <2>3
  <2> QED
    BY <2>1, <2>4, <2>7, <2>8 DEF a, b
<1> QED
  BY <1>1, ScanInvariant, PTL
-----------------------------------------------------------------------------
(* Both loops end.                                                         *)

\* A failure at an entry is a result.
LEMMA FailureIsResult ==
    ASSUME NEW i \in Nat \ {0}, NEW r \in {"timestamp", "sequence"}
    PROVE  Failure(i, r) \in Results /\ Failure(i, r) # None
BY ResultAssumption DEF Failure, Results

\* What is left of the two loops: at most one step for each entry and one more for
\* the end of each.
StepsLeft ==
    IF result # None THEN 0
    ELSE IF loop = "timestamps" THEN 2 * Len(timeline) + 4 - next
    ELSE Len(timeline) + 2 - next

\* Every step taken while check 2 runs leaves less to do, whatever the timeline, and
\* nothing but the loops takes one: check 2 makes at most 2 Len + 3 steps.
THEOREM OrderingDescends ==
    Spec => [][exported /\ result = None =>
                 StepsLeft \in Nat /\ StepsLeft' \in Nat /\ StepsLeft' < StepsLeft]_vars
<1> USE NoneAssumption, ResultAssumption
<1>1. ASSUME TypeOK, ScanInv, TypeOK', ScanInv', Next, exported, result = None
      PROVE  StepsLeft \in Nat /\ StepsLeft' \in Nat /\ StepsLeft' < StepsLeft
  <2>0. /\ SourceTypeOK /\ Len(timeline) \in Nat
        /\ loop \in {"timestamps", "sequences"} /\ loop' \in {"timestamps", "sequences"}
    BY <1>1, EntryTimes DEF TypeOK
  <2>1. next \in 1..(Len(timeline) + 1)
    BY <1>1, <2>0 DEF ScanInv, Scanning, TimestampLoop, SequenceLoop
  <2>2. StepsLeft \in Nat /\ StepsLeft > 0
    BY <1>1, <2>0, <2>1 DEF StepsLeft
  <2>3. Scan /\ UNCHANGED sourceVars
    BY <1>1 DEF Next, Source, Submit, Record, Edit, Export, Scan, CompareTimestamps,
                EndTimestamps, SkipEntry, CompareSequence, Finish
  <2>4. timeline' = timeline /\ exported'
    BY <1>1, <2>3 DEF sourceVars
  <2>5. CASE result' # None
    <3>1. StepsLeft' = 0
      BY <2>5 DEF StepsLeft
    <3> QED
      BY <2>2, <3>1
  <2>6. CASE result' = None
    <3>1. next' \in 1..(Len(timeline) + 1)
      BY <1>1, <2>0, <2>4, <2>6 DEF ScanInv, Scanning, TimestampLoop, SequenceLoop
    <3>2. (loop' = loop /\ next' = next + 1) \/ (loop = "timestamps" /\ loop' = "sequences")
      <4>1. CASE CompareTimestamps
        BY <2>1, <2>6, <4>1, FailureIsResult DEF CompareTimestamps
      <4>2. CASE CompareSequence
        BY <2>1, <2>6, <4>2, FailureIsResult DEF CompareSequence
      <4>3. CASE Finish
        BY <2>6, <4>3 DEF Finish, Results
      <4>4. CASE EndTimestamps \/ SkipEntry
        BY <4>4 DEF EndTimestamps, SkipEntry, Scanning
      <4> QED
        BY <2>3, <4>1, <4>2, <4>3, <4>4 DEF Scan
    <3>3. StepsLeft' = IF loop' = "timestamps" THEN 2 * Len(timeline) + 4 - next'
                       ELSE Len(timeline) + 2 - next'
      BY <2>4, <2>6 DEF StepsLeft
    <3>4. StepsLeft = IF loop = "timestamps" THEN 2 * Len(timeline) + 4 - next
                      ELSE Len(timeline) + 2 - next
      BY <1>1 DEF StepsLeft
    <3>5. CASE loop' = loop /\ next' = next + 1
      BY <2>0, <2>1, <3>1, <3>3, <3>4, <3>5
    <3>6. CASE loop = "timestamps" /\ loop' = "sequences"
      BY <2>0, <2>1, <3>1, <3>3, <3>4, <3>6
    <3> QED
      BY <3>2, <3>5, <3>6
  <2> QED
    BY <2>2, <2>5, <2>6
<1>2. TypeOK /\ ScanInv /\ TypeOK' /\ ScanInv' /\ [Next]_vars =>
        [exported /\ result = None =>
            StepsLeft \in Nat /\ StepsLeft' \in Nat /\ StepsLeft' < StepsLeft]_vars
  BY <1>1
<1> QED
  BY <1>2, ScanInvariant, PTL DEF Spec

\* Until check 2 has a result the guard of one of the steps of its loops holds: they
\* never wait.
LEMMA OrderingNeverWaits ==
    ASSUME TypeOK, exported, result = None
    PROVE  \/ Scanning("timestamps") /\ next < Len(timeline)
           \/ Scanning("timestamps") /\ next >= Len(timeline)
           \/ InSequences /\ ~Sequenced(timeline[next])
           \/ InSequences /\ Sequenced(timeline[next])
           \/ Scanning("sequences") /\ next > Len(timeline)
BY EntryTimes DEF TypeOK, InSequences, Scanning

-----------------------------------------------------------------------------
(* The result is a function of the timeline.                               *)

UpTo(tl, n) == [i \in 1..n |-> tl[i]]

\* The first entry that is earlier than one before it, and the first sequenced
\* action whose number does not exceed one before it in its session.
FirstTimeInversion(tl) ==
    CHOOSE n \in 1..Len(tl) : /\ TimestampsOrdered(UpTo(tl, n - 1))
                              /\ ~TimestampsOrdered(UpTo(tl, n))

FirstSequenceInversion(tl) ==
    CHOOSE n \in 1..Len(tl) : /\ SequencesOrdered(UpTo(tl, n - 1))
                              /\ ~SequencesOrdered(UpTo(tl, n))

\* What check 2 is to report of a timeline.
DueResult(tl) ==
    IF ~TimestampsOrdered(tl) THEN Failure(FirstTimeInversion(tl), "timestamp")
    ELSE IF ~SequencesOrdered(tl) THEN Failure(FirstSequenceInversion(tl), "sequence")
    ELSE Pass

\* A failure names an entry, and a failure in the second loop means that the first
\* loop accepted the timeline.
LoopsInOrder ==
    (result # None /\ result.verdict = "fail") =>
        /\ result = Failure(result.at, result.reason)
        /\ result.at \in 1..Len(timeline)
        /\ result.reason = "timestamp" => ~TimestampsOrdered(timeline)
        /\ result.reason = "sequence" => TimestampsOrdered(timeline)
        /\ result.reason \in {"timestamp", "sequence"}

\* A timeline has one first inversion of each kind.
LEMMA OneFirstInversion ==
    ASSUME NEW tl, NEW n \in Nat \ {0}, NEW m \in Nat \ {0}, n < m
    PROVE  /\ TimestampsOrdered(UpTo(tl, m - 1)) => TimestampsOrdered(UpTo(tl, n))
           /\ SequencesOrdered(UpTo(tl, m - 1)) => SequencesOrdered(UpTo(tl, n))
<1> DEFINE a == UpTo(tl, m - 1)
           b == UpTo(tl, n)
<1>1. /\ DOMAIN a = 1..(m - 1) /\ \A i \in 1..(m - 1) : a[i] = tl[i]
      /\ DOMAIN b = 1..n /\ \A i \in 1..n : b[i] = tl[i]
  BY DEF UpTo
<1>2. \A i \in 1..n : i \in 1..(m - 1) /\ a[i] = b[i]
  BY <1>1
<1> HIDE DEF a, b
<1>3. TimestampsOrdered(a) => TimestampsOrdered(b)
  BY <1>1, <1>2 DEF TimestampsOrdered
<1>4. SequencesOrdered(a) => SequencesOrdered(b)
  BY <1>1, <1>2 DEF SequencesOrdered
<1> QED
  BY <1>3, <1>4 DEF a, b

\* A failing step of a loop leaves what LoopsInOrder says of it.
LEMMA LoopsInOrderStep ==
    ASSUME TypeOK, ScanInv, LoopsInOrder, [Next]_vars
    PROVE  LoopsInOrder'
<1> USE NoneAssumption, ResultAssumption
<1>0. /\ SourceTypeOK /\ Len(timeline) \in Nat
      /\ DOMAIN timeline = 1..Len(timeline) /\ next \in Nat \ {0}
  BY EntryTimes DEF TypeOK
<1>1. CASE UNCHANGED <<timeline, result>>
  BY <1>1 DEF LoopsInOrder
<1>2. CASE result' \in {None, Pass}
  BY <1>2 DEF LoopsInOrder, Pass
<1>3. CASE CompareTimestamps /\ result' # None
  <2>1. /\ timeline' = timeline /\ result' = Failure(next + 1, "timestamp")
        /\ next < Len(timeline) /\ timeline[next + 1].ts < timeline[next].ts
    BY <1>3 DEF CompareTimestamps, Scanning, sourceVars
  <2>2. next \in 1..Len(timeline) /\ next + 1 \in 1..Len(timeline)
    BY <1>0, <2>1
  <2>3. ~TimestampsOrdered(timeline)
    BY <1>0, <2>1, <2>2, EntryTimes DEF TimestampsOrdered
  <2>4. /\ result'.at = next + 1 /\ result'.reason = "timestamp"
        /\ result' = Failure(result'.at, result'.reason)
    BY <2>1 DEF Failure
  <2> QED
    BY <2>1, <2>2, <2>3, <2>4 DEF LoopsInOrder
<1>4. CASE CompareSequence /\ result' # None
  <2>1. /\ timeline' = timeline /\ result' = Failure(next, "sequence")
        /\ next <= Len(timeline) /\ SequenceLoop
    BY <1>4 DEF CompareSequence, InSequences, Scanning, sourceVars, ScanInv
  <2>2. next \in 1..Len(timeline) /\ TimestampsOrdered(timeline)
    BY <1>0, <2>1 DEF SequenceLoop
  <2>3. /\ result'.at = next /\ result'.reason = "sequence"
        /\ result' = Failure(result'.at, result'.reason)
    BY <2>1 DEF Failure
  <2> QED
    BY <2>1, <2>2, <2>3 DEF LoopsInOrder
<1>5. CASE Source \/ Submit
  BY <1>2, <1>5 DEF Source, Submit, Record, Edit, Export, scanVars, ScanInv
<1>6. CASE CompareTimestamps \/ CompareSequence
  BY <1>2, <1>3, <1>4, <1>6
<1>7. CASE EndTimestamps \/ SkipEntry \/ Finish
  BY <1>1, <1>2, <1>7 DEF EndTimestamps, SkipEntry, Finish, sourceVars
<1>8. CASE UNCHANGED vars
  BY <1>1, <1>8 DEF vars, sourceVars, scanVars
<1> QED
  BY <1>5, <1>6, <1>7, <1>8 DEF Next, Scan

\* The result of check 2, the entry and the reason for a failure included, is a
\* function of the timeline: it names the first inversion of the timestamps if there
\* is one, and the first inversion of the sequence numbers only if there is none.
THEOREM OrderingReportDetermined == Spec => [](result # None => result = DueResult(timeline))
<1> USE NoneAssumption, ResultAssumption
<1>1. Init => LoopsInOrder
  BY DEF Init, LoopsInOrder
<1>2. TypeOK /\ ScanInv /\ LoopsInOrder /\ [Next]_vars => LoopsInOrder'
  BY LoopsInOrderStep
<1>3. ASSUME TypeOK, ScanInv, LoopsInOrder, FailureIsFirstInversion, result # None
      PROVE  result = DueResult(timeline)
  <2>1. CASE result.verdict = "pass"
    <3>1. result = Pass
      BY <1>3, <2>1 DEF TypeOK, Results, Pass
    <3> QED
      BY <1>3, <2>1, <3>1 DEF ScanInv, VerdictIsOrder, Ordered, DueResult
  <2>2. CASE result.verdict = "fail"
    <3> DEFINE n == result.at
    <3>0. Len(timeline) \in Nat
      BY <1>3, EntryTimes DEF TypeOK
    <3>1. /\ result = Failure(n, result.reason) /\ n \in 1..Len(timeline)
          /\ result.reason \in {"timestamp", "sequence"}
      BY <1>3, <2>2 DEF LoopsInOrder
    <3>2. ASSUME NEW m \in 1..Len(timeline), NEW k \in 1..Len(timeline),
                 m # k
          PROVE  /\ ~(/\ TimestampsOrdered(UpTo(timeline, m - 1))
                      /\ ~TimestampsOrdered(UpTo(timeline, m))
                      /\ TimestampsOrdered(UpTo(timeline, k - 1))
                      /\ ~TimestampsOrdered(UpTo(timeline, k)))
                 /\ ~(/\ SequencesOrdered(UpTo(timeline, m - 1))
                      /\ ~SequencesOrdered(UpTo(timeline, m))
                      /\ SequencesOrdered(UpTo(timeline, k - 1))
                      /\ ~SequencesOrdered(UpTo(timeline, k)))
      <4>1. m \in Nat \ {0} /\ k \in Nat \ {0} /\ (m < k \/ k < m)
        BY <3>0, <3>2
      <4> QED
        BY <4>1, OneFirstInversion
    <3>3. CASE result.reason = "timestamp"
      <4>1. /\ TimestampsOrdered(UpTo(timeline, n - 1))
            /\ ~TimestampsOrdered(UpTo(timeline, n)) /\ ~TimestampsOrdered(timeline)
        BY <1>3, <2>2, <3>3 DEF FailureIsFirstInversion, LoopsInOrder, UpTo
      <4>2. FirstTimeInversion(timeline) = n
        BY <3>1, <3>2, <4>1 DEF FirstTimeInversion
      <4> QED
        BY <3>1, <3>3, <4>1, <4>2 DEF DueResult
    <3>4. CASE result.reason = "sequence"
      <4>1. /\ SequencesOrdered(UpTo(timeline, n - 1))
            /\ ~SequencesOrdered(UpTo(timeline, n)) /\ TimestampsOrdered(timeline)
        BY <1>3, <2>2, <3>4 DEF FailureIsFirstInversion, LoopsInOrder, UpTo
      <4>2. ~SequencesOrdered(timeline)
        BY <1>3, <2>2, <4>1 DEF ScanInv, VerdictIsOrder, Ordered
      <4>3. FirstSequenceInversion(timeline) = n
        BY <3>1, <3>2, <4>1 DEF FirstSequenceInversion
      <4> QED
        BY <3>1, <3>4, <4>1, <4>2, <4>3 DEF DueResult
    <3> QED
      BY <3>1, <3>3, <3>4
  <2> QED
    BY <1>3, <2>1, <2>2 DEF TypeOK, Results, Pass
<1> QED
  BY <1>1, <1>2, <1>3, ScanInvariant, OrderingFailureLocated, PTL DEF Spec
=============================================================================
