-------------------------- MODULE TimelineOrdering --------------------------
(***************************************************************************)
(* Check 2 of the verifier, check_timeline_ordering: one loop over the     *)
(* windows of two entries compares timestamps, a second one over the       *)
(* entries compares each sequenced action with the last sequence number    *)
(* seen in its session.                                                    *)
(*                                                                         *)
(* Timestamps are compared as strings; ts stands for the place of the      *)
(* string in that order.                                                   *)
(***************************************************************************)
EXTENDS CaseTimeline

VARIABLES
    loop,       \* "timestamps" or "sequences": the loop that runs
    next,       \* the entry the loop looks at next
    lastSeq,    \* last_seq: per session, None until a sequence is seen
    result      \* None while the check runs, then its result

scanVars == <<loop, next, lastSeq, result>>

vars == <<sourceVars, scanVars>>

Pass == [verdict |-> "pass"]

Failure(i, reason) == [verdict |-> "fail", at |-> i, reason |-> reason]

Results == {Pass} \cup [verdict : {"fail"}, at : Nat \ {0},
                       reason : {"timestamp", "sequence"}]

ASSUME ResultAssumption == None \notin Results

NoneSeen == [s \in Session |-> None]

Init == /\ SourceInit
        /\ loop = "timestamps" /\ next = 1 /\ lastSeq = NoneSeen
        /\ result = None

Submit == /\ Export
          /\ UNCHANGED scanVars

Scanning(l) == exported /\ result = None /\ loop = l

-----------------------------------------------------------------------------
(* for w in entries.windows(2)                                             *)

\* Broken variant of CompareTimestamps: the first entry of the window is
\* reported.
CompareTimestampsBlamesFirst ==
    /\ Scanning("timestamps") /\ next < Len(timeline)
    /\ IF timeline[next + 1].ts < timeline[next].ts
       THEN result' = Failure(next, "timestamp") /\ UNCHANGED next
       ELSE next' = next + 1 /\ UNCHANGED result
    /\ UNCHANGED <<sourceVars, loop, lastSeq>>

CompareTimestamps ==
    /\ Scanning("timestamps") /\ next < Len(timeline)
    /\ IF timeline[next + 1].ts < timeline[next].ts
       THEN result' = Failure(next + 1, "timestamp") /\ UNCHANGED next
       ELSE next' = next + 1 /\ UNCHANGED result
    /\ UNCHANGED <<sourceVars, loop, lastSeq>>

\* Broken variant of EndTimestamps: the second loop starts at index 0.
EndTimestampsAtZero ==
    /\ Scanning("timestamps") /\ next >= Len(timeline)
    /\ loop' = "sequences" /\ next' = 0
    /\ UNCHANGED <<sourceVars, lastSeq, result>>

EndTimestamps ==
    /\ Scanning("timestamps") /\ next >= Len(timeline)
    /\ loop' = "sequences"
    /\ next' = 1
    /\ UNCHANGED <<sourceVars, lastSeq, result>>

-----------------------------------------------------------------------------
(* for e in entries                                                        *)

InSequences == Scanning("sequences") /\ next <= Len(timeline)

SkipEntry ==
    /\ InSequences /\ ~Sequenced(timeline[next])
    /\ next' = next + 1
    /\ UNCHANGED <<sourceVars, loop, lastSeq, result>>

\* Broken variants of CompareSequence: a repeated number is accepted, and only a
\* repeated number is refused.
CompareSequenceLoosely ==
    /\ InSequences /\ Sequenced(timeline[next])
    /\ LET e == timeline[next]
           prev == lastSeq[e.session]
       IN  IF prev # None /\ e.seq < prev
           THEN result' = Failure(next, "sequence") /\ UNCHANGED <<next, lastSeq>>
           ELSE /\ lastSeq' = [lastSeq EXCEPT ![e.session] = e.seq]
                /\ next' = next + 1 /\ UNCHANGED result
    /\ UNCHANGED <<sourceVars, loop>>

CompareSequenceRepeats ==
    /\ InSequences /\ Sequenced(timeline[next])
    /\ LET e == timeline[next]
       IN  IF e.seq = lastSeq[e.session]
           THEN result' = Failure(next, "sequence") /\ UNCHANGED <<next, lastSeq>>
           ELSE /\ lastSeq' = [lastSeq EXCEPT ![e.session] = e.seq]
                /\ next' = next + 1 /\ UNCHANGED result
    /\ UNCHANGED <<sourceVars, loop>>

CompareSequence ==
    /\ InSequences /\ Sequenced(timeline[next])
    /\ LET e == timeline[next]
           prev == lastSeq[e.session]
       IN  IF prev # None /\ e.seq <= prev
           THEN /\ result' = Failure(next, "sequence")
                /\ UNCHANGED <<next, lastSeq>>
           ELSE /\ lastSeq' = [lastSeq EXCEPT ![e.session] = e.seq]
                /\ next' = next + 1
                /\ UNCHANGED result
    /\ UNCHANGED <<sourceVars, loop>>

Finish ==
    /\ Scanning("sequences") /\ next > Len(timeline)
    /\ result' = Pass
    /\ UNCHANGED <<sourceVars, loop, next, lastSeq>>

Scan == CompareTimestamps \/ EndTimestamps \/ SkipEntry \/ CompareSequence \/ Finish

Source == (Record \/ Edit) /\ UNCHANGED scanVars

Next == Source \/ Submit \/ Scan

Spec == Init /\ [][Next]_vars

-----------------------------------------------------------------------------
(* Properties.                                                             *)

\* The types of check 2's variables.
TypeOK == /\ SourceTypeOK
          /\ loop \in {"timestamps", "sequences"}
          /\ next \in Nat \ {0}
          /\ lastSeq \in [Session -> Int \cup {None}]
          /\ result \in Results \cup {None}

Ordered(tl) == TimestampsOrdered(tl) /\ SequencesOrdered(tl)

\* Comparing neighbours and remembering one number per session is enough: the
\* check passes exactly when every two entries of the timeline, however far
\* apart and whatever lies between them, are in order.
VerdictIsOrder ==
    result # None => (result.verdict = "pass" <=> Ordered(timeline))

\* The entry a failure names is the first one that is out of order: without
\* it and what follows, the loop that failed would have passed.
FailureIsFirstInversion ==
    (result # None /\ result.verdict = "fail") =>
        LET UpTo(n) == [i \in 1..n |-> timeline[i]]
            before == UpTo(result.at - 1)
            upTo == UpTo(result.at)
        IN  IF result.reason = "timestamp"
            THEN TimestampsOrdered(before) /\ ~TimestampsOrdered(upTo)
            ELSE SequencesOrdered(before) /\ ~SequencesOrdered(upTo)

\* Checks 2 and 4 read sequence numbers differently (absent is skipped here and
\* 0 there).  On a timeline that passes check 2 the order in which check 4 walks
\* a session is still the order of the timeline, unless a number is absent.
WalkFollowsTimeline ==
    (result # None /\ result.verdict = "pass") =>
        \A s \in Session :
            (\A i \in ActionsOf(timeline, s) : timeline[i].seq # None) =>
                \A j, k \in 1..ChainLen(timeline, s) :
                    j < k => ChainOrder(timeline, s)[j] < ChainOrder(timeline, s)[k]

=============================================================================
