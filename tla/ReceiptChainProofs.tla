------------------------- MODULE ReceiptChainProofs -------------------------
(***************************************************************************)
(* Proofs about check 4 for any number of sessions, receipts, entries,     *)
(* edits and invocations.  The walk is a loop over a set of sessions with  *)
(* a loop over a chain inside; WalkInv is the invariant of both loops.     *)
(***************************************************************************)
EXTENDS ReceiptChain, CaseTimelineProofs

\* Every session of the timeline that is neither waiting nor being walked has
\* been walked to its end; the one being walked links up to pos, and the prior
\* the walk expects next is the commitment of the entry before pos.
WalkedSessions == SessionsOf(timeline) \ (todo \cup {current})

PriorAt(tl, s, k) == IF k = 1 THEN None ELSE ChainEntry(tl, s, k - 1).commitment

CurrentInv ==
    current # None =>
        /\ current \in SessionsOf(timeline)
        /\ \A k \in 1..(pos - 1) : LinkedAt(timeline, current, k)
        /\ expectedPrior = PriorAt(timeline, current, pos)

WalkInv ==
    /\ ~exported => todo = {} /\ current = None /\ report = None
    /\ exported => /\ todo \subseteq SessionsOf(timeline)
                   /\ \A s \in WalkedSessions : SessionLinked(timeline, s)
    /\ CurrentInv
    /\ VerdictIsLinkage
    /\ FailureIsFirstBreak

-----------------------------------------------------------------------------
(* The loop body.                                                          *)

\* The checks of one loop body accept an entry exactly when it links, given
\* that the walk expects the right prior.
LEMMA FaultMeansUnlinked ==
    ASSUME expectedPrior = PriorAt(timeline, current, pos)
    PROVE  EntryFault = None <=> LinkedAt(timeline, current, pos)
<1> DEFINE e == ChainEntry(timeline, current, pos)
<1>1. None \notin Reasons /\ None # Malformed
  BY ReportAssumption, NoneAssumption
<1>2. LinkedAt(timeline, current, pos) <=>
        /\ Decodes(e) /\ e.prior = expectedPrior
        /\ e.commitment = ChainHash(e.prior, e.receipt)
  BY DEF LinkedAt, PriorAt
<1>3. PriorFault = None <=> e.prior # Malformed /\ e.prior = expectedPrior
  <2>1. CASE e.prior # None
    BY <1>1, <2>1 DEF PriorFault, Entry, Reasons
  <2>2. CASE e.prior = None
    BY <1>1, <2>2 DEF PriorFault, Entry, Reasons
  <2> QED
    BY <2>1, <2>2
<1>4. EntryFault = None <=>
        /\ e.receipt # Malformed /\ PriorFault = None
        /\ e.commitment # Malformed
        /\ e.commitment = ChainHash(expectedPrior, e.receipt)
  BY <1>1 DEF EntryFault, Entry, Reasons
<1> QED
  BY <1>2, <1>3, <1>4 DEF Decodes

\* A faulty entry is reported with one of the six reasons.
LEMMA FaultIsReason == EntryFault # None => EntryFault \in Reasons
  BY DEF EntryFault, PriorFault, Reasons

-----------------------------------------------------------------------------
(* Type correctness.                                                       *)

\* The variables of check 4 and its document keep their types.
THEOREM TypeCorrect == Spec => []TypeOK
<1> USE NoneAssumption, ReportAssumption
<1>1. Init => TypeOK
  <2>1. <<>> \in Seq(Reports)
    OBVIOUS
  <2> QED
    BY <2>1, SourceInitTypes DEF Init, TypeOK, OptionalSession
<1>2. TypeOK /\ [Next]_vars => TypeOK'
  <2> SUFFICES ASSUME TypeOK, [Next]_vars PROVE TypeOK'
    OBVIOUS
  <2> USE DEF TypeOK, OptionalSession
  <2>1. CASE Source
    BY <2>1, SourceKeepsTypes DEF Source, walkVars
  <2>2. CASE Submit
    BY <2>2, SourceStaysTyped DEF Submit, SessionsOf
  <2>3. CASE \E s \in Session : PickSession(s)
    BY <2>3, SourceStaysTyped DEF PickSession
  <2>4. CASE AcceptEntry
    BY <2>4, SourceStaysTyped DEF AcceptEntry
  <2>5. CASE RejectEntry
    <3>1. report' \in Reports
      BY <2>5, FaultIsReason DEF RejectEntry, Walking, Failure, Reports
    <3> QED
      BY <2>5, <3>1, SourceStaysTyped DEF RejectEntry
  <2>6. CASE EndSession
    BY <2>6, SourceStaysTyped DEF EndSession
  <2>7. CASE Finish
    BY <2>7, SourceStaysTyped DEF Finish, Reports
  <2>8. CASE Rerun
    BY <2>8, SourceStaysTyped DEF Rerun, SessionsOf
  <2>9. CASE UNCHANGED vars
    BY <2>9, SourceStaysTyped DEF vars, walkVars
  <2> QED
    BY <2>1, <2>2, <2>3, <2>4, <2>5, <2>6, <2>7, <2>8, <2>9 DEF Next, Walk
<1> QED
  BY <1>1, <1>2, PTL DEF Spec

-----------------------------------------------------------------------------
(* The invariant of the two loops.                                         *)

\* Facts about the chain being walked that every step of the walk uses.
LEMMA CurrentChain ==
    ASSUME TypeOK, current # None
    PROVE  ChainLen(timeline, current) \in Nat
BY ChainLenNat DEF TypeOK, SourceTypeOK, TimelineOK

\* Every step keeps the invariant of the walk.
LEMMA WalkInvStep ==
    ASSUME TypeOK, WalkInv, [Next]_vars
    PROVE  WalkInv'
<1> USE NoneAssumption, ReportAssumption
<1> USE DEF WalkInv, VerdictIsLinkage, FailureIsFirstBreak
<1>1. CASE Source
  <2>1. ~exported /\ ~exported' /\ UNCHANGED walkVars
    BY <1>1 DEF Source, Record, Edit
  <2> QED
    BY <2>1 DEF walkVars, CurrentInv
<1>2. CASE Submit
  <2>1. /\ ~exported /\ exported' /\ timeline' = timeline
        /\ todo' = SessionsOf(timeline)
        /\ current' = None /\ report' = None
    BY <1>2 DEF Submit, Export
  <2> QED
    BY <2>1 DEF WalkedSessions, CurrentInv
<1>3. CASE \E s \in Session : PickSession(s)
  <2>1. PICK s \in Session : PickSession(s)
    BY <1>3
  <2>2. /\ exported /\ exported' = exported /\ timeline' = timeline
        /\ report = None /\ report' = None /\ current = None
        /\ s \in todo /\ todo' = todo \ {s} /\ current' = s
        /\ pos' = 1 /\ expectedPrior' = None
    BY <2>1 DEF PickSession, sourceVars
  <2>3. WalkedSessions' \subseteq WalkedSessions
    BY <2>2 DEF WalkedSessions, SessionsOf
  <2>4. CurrentInv'
    BY <2>2 DEF CurrentInv, PriorAt
  <2> QED
    BY <2>2, <2>3, <2>4
<1>4. CASE AcceptEntry
  <2>1. /\ exported' = exported /\ timeline' = timeline
        /\ todo' = todo /\ current' = current
        /\ report = None /\ report' = None
        /\ current # None /\ pos <= ChainLen(timeline, current)
        /\ EntryFault = None
        /\ expectedPrior' = ChainHash(expectedPrior, Entry.receipt)
        /\ pos' = pos + 1
    BY <1>4 DEF AcceptEntry, Walking, sourceVars
  <2>2. LinkedAt(timeline, current, pos)
    BY <2>1, FaultMeansUnlinked DEF CurrentInv
  <2>3. expectedPrior' = ChainEntry(timeline, current, pos).commitment
    BY <2>1, <2>2 DEF LinkedAt, CurrentInv, PriorAt, Entry
  <2>4. \A k \in 1..pos : LinkedAt(timeline, current, k)
    BY <2>1, <2>2 DEF CurrentInv, TypeOK
  <2>5. CurrentInv'
    BY <2>1, <2>3, <2>4 DEF CurrentInv, PriorAt, TypeOK
  <2> QED
    BY <2>1, <2>5 DEF WalkedSessions
<1>5. CASE RejectEntry
  <2>1. /\ exported /\ exported' = exported /\ timeline' = timeline
        /\ todo' = todo /\ current' = current
        /\ pos' = pos /\ expectedPrior' = expectedPrior
        /\ current # None /\ pos <= ChainLen(timeline, current)
        /\ EntryFault # None
        /\ report' = Failure(current, pos, EntryFault)
    BY <1>5 DEF RejectEntry, Walking, sourceVars
  <2>2. ~LinkedAt(timeline, current, pos)
    BY <2>1, FaultMeansUnlinked DEF CurrentInv
  <2>3. pos \in 1..ChainLen(timeline, current)
    BY <2>1, CurrentChain DEF TypeOK
  <2>4. ~AllLinked(timeline)
    BY <2>1, <2>2, <2>3 DEF CurrentInv, AllLinked, SessionLinked
  <2>5. /\ report'.verdict = "fail" /\ report'.session = current
        /\ report'.at = pos
    BY <2>1 DEF Failure
  <2>6. VerdictIsLinkage'
    BY <2>1, <2>4, <2>5
  <2>7. FailureIsFirstBreak'
    BY <2>1, <2>2, <2>3, <2>5 DEF CurrentInv
  <2>8. CurrentInv' /\ WalkedSessions' = WalkedSessions
    BY <2>1 DEF CurrentInv, WalkedSessions
  <2> QED
    BY <2>1, <2>6, <2>7, <2>8
<1>6. CASE EndSession
  <2>1. /\ exported /\ exported' = exported /\ timeline' = timeline
        /\ todo' = todo /\ current' = None
        /\ report = None /\ report' = None
        /\ current # None /\ pos > ChainLen(timeline, current)
    BY <1>6 DEF EndSession, sourceVars
  <2>2. SessionLinked(timeline, current)
    BY <2>1, CurrentChain DEF CurrentInv, SessionLinked, TypeOK
  <2>3. WalkedSessions' \subseteq WalkedSessions \cup {current}
    BY <2>1 DEF WalkedSessions
  <2> QED
    BY <2>1, <2>2, <2>3 DEF CurrentInv
<1>7. CASE Finish
  <2>1. /\ exported /\ exported' = exported /\ timeline' = timeline
        /\ todo = {} /\ todo' = todo /\ current = None /\ current' = None
        /\ report' = Pass
    BY <1>7 DEF Finish, sourceVars
  <2>2. AllLinked(timeline)
    <3>1. WalkedSessions = SessionsOf(timeline)
      BY <2>1 DEF WalkedSessions, SessionsOf
    <3> QED
      BY <2>1, <3>1 DEF AllLinked
  <2>3. report'.verdict = "pass"
    BY <2>1 DEF Pass
  <2> QED
    BY <2>1, <2>2, <2>3 DEF WalkedSessions, CurrentInv
<1>8. CASE Rerun
  <2>1. /\ exported' = exported /\ timeline' = timeline
        /\ todo' = SessionsOf(timeline) /\ current' = None
        /\ report # None /\ report' = None
    BY <1>8 DEF Rerun, sourceVars
  <2> QED
    BY <2>1 DEF WalkedSessions, CurrentInv
<1>9. CASE UNCHANGED vars
  <2>1. UNCHANGED <<timeline, exported, todo, current, pos, expectedPrior, report>>
    BY <1>9 DEF vars, sourceVars, walkVars
  <2>2. CurrentInv' /\ WalkedSessions' = WalkedSessions
    BY <2>1 DEF CurrentInv, WalkedSessions
  <2> QED
    BY <2>1, <2>2
<1> QED
  BY <1>1, <1>2, <1>3, <1>4, <1>5, <1>6, <1>7, <1>8, <1>9 DEF Next, Walk

\* What check 4 has established of the chains and entries it has walked.
THEOREM WalkInvariant == Spec => [](TypeOK /\ WalkInv)
<1>1. Init => WalkInv
  BY DEF Init, SourceInit, WalkInv, CurrentInv, VerdictIsLinkage, FailureIsFirstBreak
<1>2. TypeOK /\ WalkInv /\ [Next]_vars => WalkInv'
  BY WalkInvStep
<1> QED
  BY <1>1, <1>2, TypeCorrect, PTL DEF Spec

\* The verdict of check 4 is "pass" exactly when every session's actions form
\* a hash chain: in particular it does not depend on the map's order.
THEOREM VerdictCorrect == Spec => []VerdictIsLinkage
<1>1. WalkInv => VerdictIsLinkage
  BY DEF WalkInv
<1> QED
  BY <1>1, WalkInvariant, PTL

\* The entry a failure of check 4 names is the first unlinked one of its chain.
THEOREM FailureLocated == Spec => []FailureIsFirstBreak
<1>1. WalkInv => FailureIsFirstBreak
  BY DEF WalkInv
<1> QED
  BY <1>1, WalkInvariant, PTL

-----------------------------------------------------------------------------
(* The document against what the backend recorded.                         *)

\* Whatever has been done to the document, the hashes in it are the backend's.
THEOREM HistoryInvariant == Spec => []History
<1>1. Init => History
  BY HistoryInit DEF Init
<1>2. TypeOK /\ History /\ [Next]_vars => History'
  <2> SUFFICES ASSUME TypeOK, History, [Next]_vars PROVE History'
    OBVIOUS
  <2>1. CASE Source
    BY <2>1, HistoryOfRecord, HistoryOfEdit DEF Source, TypeOK
  <2>2. CASE Submit
    BY <2>2, HistoryStays DEF Submit, Export
  <2>3. CASE Walk \/ Rerun \/ UNCHANGED vars
    <3>1. UNCHANGED <<recorded, timeline, edits>>
      BY <2>3 DEF Walk, PickSession, AcceptEntry, RejectEntry, EndSession, Finish, Rerun,
                  vars, sourceVars
    <3> QED
      BY <3>1, HistoryStays
  <2> QED
    BY <2>1, <2>2, <2>3 DEF Next
<1> QED
  BY <1>1, <1>2, TypeCorrect, PTL DEF Spec

\* A document that nobody edited is linked: each chain is the recorder's.
LEMMA FaithfulIsLinked ==
    ASSUME HashesDecode, SourceTypeOK, History, edits = 0
    PROVE  AllLinked(timeline)
<1>1. PICK h : Witnessed(h) /\ Faithful(h)
  BY DEF History
<1>2. ASSUME NEW s \in Session, NEW k \in 1..ChainLen(timeline, s)
      PROVE  LinkedAt(timeline, s, k)
  <2> DEFINE e == ChainEntry(timeline, s, k)
             m == ChainLen(timeline, s)
  <2>1. /\ m = Len(recorded[s]) /\ recorded[s] \in Seq(Receipt)
        /\ e.receipt = recorded[s][k] /\ e.prior = h[s][k - 1] /\ e.commitment = h[s][k]
    BY <1>1 DEF Faithful, SourceTypeOK, OptionalSession
  <2>2. /\ h[s][0] = None
        /\ \A j \in 1..m : h[s][j] = <<h[s][j - 1], recorded[s][j]>>
    BY <1>1, <2>1 DEF Witnessed, HashesOf
  <2>3. \A j \in 1..m : h[s][j] # Malformed
    BY <2>2 DEF HashesDecode, ChainHash
  <2>4. m \in Nat /\ e.receipt # Malformed
    BY <2>1, NoneAssumption
  <2>5. e.commitment # Malformed /\ e.commitment = ChainHash(e.prior, e.receipt)
    BY <2>1, <2>2, <2>3 DEF ChainHash
  <2>6. CASE k = 1
    <3>1. e.prior = None
      BY <2>1, <2>2, <2>6
    <3> QED
      BY <2>4, <2>5, <2>6, <3>1, NoneAssumption DEF LinkedAt, Decodes
  <2>7. CASE k # 1
    <3>1. k - 1 \in 1..m
      BY <2>4, <2>7
    <3>2. ChainEntry(timeline, s, k - 1).commitment = h[s][k - 1]
      BY <1>1, <3>1 DEF Faithful
    <3>3. e.prior # Malformed
      BY <2>1, <2>3, <3>1
    <3> QED
      BY <2>1, <2>4, <2>5, <2>7, <3>2, <3>3 DEF LinkedAt, Decodes
  <2> QED
    BY <2>6, <2>7
<1> QED
  BY <1>2 DEF AllLinked, SessionLinked, SessionsOf

\* An export that nobody edited passes check 4.
THEOREM UntouchedDocumentsPass ==
    ASSUME HashesDecode
    PROVE  Spec => []UntouchedPasses
<1>1. TypeOK /\ WalkInv /\ History => UntouchedPasses
  BY FaithfulIsLinked DEF TypeOK, WalkInv, VerdictIsLinkage, UntouchedPasses
<1> QED
  BY <1>1, WalkInvariant, HistoryInvariant, PTL

-----------------------------------------------------------------------------
(* Tamper evidence.                                                        *)

\* The receipts of a linked chain are hashed, in order, by its last commitment.
LEMMA LinkedChainHashes ==
    ASSUME NEW s, SessionLinked(timeline, s), ChainLen(timeline, s) \in Nat
    PROVE  HashesOf([k \in 0..ChainLen(timeline, s) |-> PriorAt(timeline, s, k + 1)],
                    [k \in 1..ChainLen(timeline, s) |-> ChainEntry(timeline, s, k).receipt],
                    ChainLen(timeline, s), None)
<1> DEFINE m == ChainLen(timeline, s)
           c == [k \in 0..m |-> PriorAt(timeline, s, k + 1)]
           p == [k \in 1..m |-> ChainEntry(timeline, s, k).receipt]
<1>1. c[0] = None
  BY DEF PriorAt
<1>2. ASSUME NEW k \in 1..m PROVE c[k] = <<c[k - 1], p[k]>>
  <2>1. LinkedAt(timeline, s, k)
    BY DEF SessionLinked
  <2>2. k + 1 # 1 /\ k + 1 - 1 = k /\ k - 1 + 1 = k /\ k \in 0..m /\ k - 1 \in 0..m
    OBVIOUS
  <2>3. /\ c[k] = ChainEntry(timeline, s, k).commitment
        /\ c[k - 1] = PriorAt(timeline, s, k)
    BY <2>2 DEF PriorAt
  <2> QED
    BY <2>1, <2>3 DEF LinkedAt, PriorAt, ChainHash
<1> QED
  BY <1>1, <1>2 DEF HashesOf

\* The receipts of a linked chain were recorded in this order, for one session
\* from its first action on, or as one action outside any.
LEMMA LinkedIsRecorded ==
    ASSUME HashesDecode, SourceTypeOK, History,
           NEW s \in SessionsOf(timeline), SessionLinked(timeline, s)
    PROVE  LET verified == [k \in 1..ChainLen(timeline, s) |->
                               ChainEntry(timeline, s, k).receipt]
           IN  \/ \E t \in Session : IsPrefix(verified, recorded[t])
               \/ \E r \in ToSet(recorded[None]) : verified = <<r>>
<1> DEFINE m == ChainLen(timeline, s)
           c == [k \in 0..m |-> PriorAt(timeline, s, k + 1)]
           p == [k \in 1..m |-> ChainEntry(timeline, s, k).receipt]
<1>1. PICK h : Witnessed(h)
  BY DEF History
<1>2. m \in Nat /\ m # 0
  <2>1. DOMAIN timeline = 1..Len(timeline) /\ Len(timeline) \in Nat
    BY DEF SourceTypeOK, TimelineOK
  <2>2. IsFiniteSet(ActionsOf(timeline, s))
    <3>1. IsFiniteSet(1..Len(timeline)) /\ ActionsOf(timeline, s) \in SUBSET (1..Len(timeline))
      BY <2>1, FS_Interval DEF ActionsOf
    <3> QED
      BY <3>1, FS_Subset
  <2> QED
    BY <2>1, <2>2, ChainLenNat, FS_EmptySet DEF ChainLen, SessionsOf
<1>3. HashesOf(c, p, m, None)
  BY <1>2, LinkedChainHashes
<1>4. c[m] # Malformed /\ Published(h, c[m])
  <2>1. m \in 1..m /\ m + 1 # 1 /\ m + 1 - 1 = m /\ m \in 0..m
    BY <1>2
  <2>2. c[m] = ChainEntry(timeline, s, m).commitment
    BY <2>1 DEF PriorAt
  <2>3. LinkedAt(timeline, s, m)
    BY <2>1 DEF SessionLinked
  <2>4. ChainOrder(timeline, s)[m] \in ActionsOf(timeline, s)
    BY <2>1, TimelineSortable, ChainOrderRanks
  <2> QED
    BY <1>1, <2>2, <2>3, <2>4 DEF LinkedAt, Decodes, Witnessed, ChainEntry, ActionsOf
<1>5. \A x, y : <<x, y>> # None
  BY DEF HashesDecode, ChainHash
<1>8. c[m] \notin Receipt
  <2>1. m \in 1..m
    BY <1>2
  <2>2. c[m] = <<c[m - 1], p[m]>>
    BY <1>3, <2>1 DEF HashesOf
  <2> QED
    BY <2>2 DEF HashesDecode, ChainHash
<1>6. CASE \E j \in 1..Len(recorded[None]) : c[m] = ChainHash(None, recorded[None][j])
  <2>1. PICK j \in 1..Len(recorded[None]) : c[m] = ChainHash(None, recorded[None][j])
    BY <1>6
  <2> DEFINE r == recorded[None][j]
             g == [k \in 0..1 |-> IF k = 0 THEN None ELSE <<None, r>>]
  <2>2. HashesOf(g, <<r>>, 1, None) /\ g[1] = c[m]
    BY <2>1 DEF HashesOf, ChainHash
  <2>3. m = 1 /\ \A k \in 1..m : p[k] = <<r>>[k]
    <3> HIDE DEF m, c, p, r, g
    <3> QED
      BY <1>2, <1>3, <1>5, <2>2, SameHashSameChain
  <2>4. p = <<r>>
    BY <2>3
  <2>5. r \in ToSet(recorded[None])
    BY DEF ToSet, SourceTypeOK, OptionalSession
  <2> QED
    BY <2>4, <2>5
<1>7. CASE \E t \in Session : \E k \in 1..Len(recorded[t]) : c[m] = h[t][k]
  <2>1. PICK t \in Session : \E k \in 1..Len(recorded[t]) : c[m] = h[t][k]
    BY <1>7
  <2>2. PICK k \in 1..Len(recorded[t]) : c[m] = h[t][k]
    BY <2>1
  <2>3. recorded[t] \in Seq(Receipt) /\ k \in Nat
    BY DEF SourceTypeOK, OptionalSession
  <2>4. HashesOf(h[t], recorded[t], k, None)
    <3>1. HashesOf(h[t], recorded[t], Len(recorded[t]), None)
      BY <1>1 DEF Witnessed
    <3>2. \A i \in 1..k : i \in 1..Len(recorded[t])
      BY <2>3
    <3> QED
      BY <3>1, <3>2 DEF HashesOf
  <2>5. m = k /\ \A i \in 1..m : p[i] = recorded[t][i]
    <3> HIDE DEF m, c, p
    <3> QED
      BY <1>2, <1>3, <1>5, <2>2, <2>3, <2>4, SameHashSameChain
  <2>6. p \in Seq(Receipt) /\ Len(p) = m
    BY <1>2, <2>3, <2>5
  <2>7. IsPrefix(p, recorded[t])
    <3> HIDE DEF m, p
    <3> QED
      BY <1>2, <2>2, <2>3, <2>5, <2>6 DEF IsPrefix
  <2> QED
    BY <2>7
<1> QED
  BY <1>4, <1>6, <1>7, <1>8 DEF Published

\* What check 4 passes is what the backend recorded, or a prefix of it: no edit
\* that makes no hash gets another chain of receipts past it.
THEOREM PassedChainsAreRecorded ==
    ASSUME HashesDecode
    PROVE  Spec => []VerifiedIsRecorded
<1>1. TypeOK /\ WalkInv /\ History => VerifiedIsRecorded
  <2> SUFFICES ASSUME TypeOK, WalkInv, History, report # None, report.verdict = "pass",
                      NEW s \in SessionsOf(timeline)
               PROVE  LET verified == [k \in 1..ChainLen(timeline, s) |->
                                          ChainEntry(timeline, s, k).receipt]
                      IN  \/ \E t \in Session : IsPrefix(verified, recorded[t])
                          \/ \E r \in ToSet(recorded[None]) : verified = <<r>>
    BY DEF VerifiedIsRecorded
  <2>1. SessionLinked(timeline, s)
    BY DEF WalkInv, VerdictIsLinkage, AllLinked
  <2> QED
    BY <2>1, LinkedIsRecorded DEF TypeOK
<1> QED
  BY <1>1, WalkInvariant, HistoryInvariant, PTL

-----------------------------------------------------------------------------
(* The two walkers of the crate.                                           *)

\* walk of VerifyChain, as far as n.
IsWalk(f, actions, n) ==
    f = [i \in 0..n |-> IF i = 0 THEN [prior |-> None, break |-> None]
                        ELSE OfflineStep(f[i - 1], actions[i], i)]

\* The recursive function of VerifyChain exists, for a chain of any length.
LEMMA WalkExists ==
    ASSUME NEW actions, NEW n \in Nat
    PROVE  \E f : IsWalk(f, actions, n)
<1> DEFINE Missing == {m \in Nat : ~\E f : IsWalk(f, actions, m)}
<1>1. SUFFICES ASSUME Missing # {} PROVE FALSE
  OBVIOUS
<1>2. PICK m \in Missing : \A j \in Missing : m <= j
  <2>1. Missing \in SUBSET Nat
    OBVIOUS
  <2> HIDE DEF Missing
  <2> QED
    BY <1>1, <2>1, LeastNatural
<1>3. m # 0
  <2>1. IsWalk([i \in 0..0 |-> [prior |-> None, break |-> None]], actions, 0)
    BY DEF IsWalk
  <2> QED
    BY <1>2, <2>1
<1>4. m - 1 \in Nat /\ m - 1 \notin Missing
  BY <1>2, <1>3
<1>5. PICK f : IsWalk(f, actions, m - 1)
  BY <1>4
<1> DEFINE start == [prior |-> None, break |-> None]
           last == OfflineStep(f[m - 1], actions[m], m)
           g == [i \in 0..m |-> IF i < m THEN f[i] ELSE last]
<1> HIDE DEF last, start
<1>6. \A i \in 0..(m - 1) : g[i] = f[i]
  BY <1>4
<1>7. \A i \in 0..(m - 1) :
        f[i] = IF i = 0 THEN start ELSE OfflineStep(f[i - 1], actions[i], i)
  BY <1>5 DEF IsWalk, start
<1>8. ASSUME NEW i \in 0..m
      PROVE  g[i] = IF i = 0 THEN start ELSE OfflineStep(g[i - 1], actions[i], i)
  <2>1. i # 0 => i - 1 \in 0..(m - 1)
    BY <1>4
  <2>2. i # 0 => g[i - 1] = f[i - 1]
    BY <1>6, <2>1
  <2>3. CASE i = m
    <3>1. g[i] = last
      BY <1>4, <2>3
    <3> HIDE DEF g
    <3> QED
      BY <1>3, <2>2, <2>3, <3>1 DEF last
  <2>4. CASE i # m
    <3>1. i \in 0..(m - 1) /\ g[i] = f[i]
      BY <1>6, <2>4
    <3> HIDE DEF g
    <3> QED
      BY <1>7, <2>2, <3>1
  <2> QED
    BY <2>3, <2>4
<1>9. IsWalk(g, actions, m)
  <2>1. g = [i \in 0..m |-> g[i]]
    OBVIOUS
  <2> HIDE DEF g
  <2> QED
    BY <1>8, <2>1 DEF IsWalk, start
<1> QED
  BY <1>2, <1>9

\* Entry k of an offline chain continues it.
Continues(actions, k) ==
    /\ actions[k].prior = IF k = 1 THEN None ELSE actions[k - 1].this
    /\ actions[k].this = ChainHash(actions[k].prior, actions[k].receipt)

\* verify_chain accepts a chain of which every entry continues it, and breaks at
\* the first entry that does not.
LEMMA OfflineVerdict ==
    ASSUME NEW actions, Len(actions) \in Nat
    PROVE  /\ (\A k \in 1..Len(actions) : Continues(actions, k))
                => VerifyChain(actions) = None
           /\ \A b \in 1..Len(actions) :
                ~Continues(actions, b) /\ (\A k \in 1..(b - 1) : Continues(actions, k))
                    => VerifyChain(actions) # None /\ VerifyChain(actions).at = b
<1> DEFINE n == Len(actions)
           f == CHOOSE f : IsWalk(f, actions, n)
<1>1. IsWalk(f, actions, n)
  BY WalkExists
<1>2. VerifyChain(actions) = f[n].break
  BY DEF VerifyChain, IsWalk
<1> HIDE DEF f
<1>3. \A i \in 0..n : f[i] = IF i = 0 THEN [prior |-> None, break |-> None]
                             ELSE OfflineStep(f[i - 1], actions[i], i)
  BY <1>1 DEF IsWalk
<1> DEFINE Before(i) == [prior |-> IF i = 0 THEN None ELSE actions[i].this, break |-> None]
<1>4. ASSUME NEW m \in 0..n, \A k \in 1..m : Continues(actions, k)
      PROVE  f[m] = Before(m)
  <2> DEFINE Failing == {i \in 0..m : f[i] # Before(i)}
  <2>1. SUFFICES ASSUME Failing # {} PROVE FALSE
    OBVIOUS
  <2>2. PICK i \in Failing : \A j \in Failing : i <= j
    <3>1. Failing \in SUBSET Nat
      OBVIOUS
    <3> HIDE DEF Failing
    <3> QED
      BY <2>1, <3>1, LeastNatural
  <2>3. i # 0
    BY <1>3, <2>2
  <2>4. i \in 1..m /\ i - 1 \in 0..m /\ i - 1 \notin Failing /\ (i - 1 = 0 <=> i = 1)
    BY <2>2, <2>3
  <2>5. f[i - 1].break = None /\ f[i - 1].prior = IF i = 1 THEN None ELSE actions[i - 1].this
    BY <2>4
  <2>6. Continues(actions, i) /\ f[i] = OfflineStep(f[i - 1], actions[i], i)
    BY <1>3, <1>4, <2>3, <2>4
  <2>7. f[i] = [f[i - 1] EXCEPT !.prior = actions[i].this]
    BY <2>5, <2>6 DEF OfflineStep, Continues
  <2>8. f[i] = Before(i)
    BY <2>3, <2>4, <2>7
  <2> QED
    BY <2>2, <2>8
<1>5. ASSUME \A k \in 1..n : Continues(actions, k)
      PROVE  VerifyChain(actions) = None
  <2>1. n \in 0..n
    OBVIOUS
  <2>2. f[n] = Before(n)
    BY <1>4, <1>5, <2>1
  <2> QED
    BY <1>2, <2>2
<1>6. ASSUME NEW b \in 1..n, ~Continues(actions, b), \A k \in 1..(b - 1) : Continues(actions, k)
      PROVE  VerifyChain(actions) # None /\ VerifyChain(actions).at = b
  <2>1. b \in Nat /\ b - 1 \in 0..n /\ (b - 1 = 0 <=> b = 1) /\ b # 0
    OBVIOUS
  <2>2. f[b - 1] = Before(b - 1)
    BY <1>4, <1>6, <2>1
  <2>3. f[b - 1].break = None /\ f[b - 1].prior = IF b = 1 THEN None ELSE actions[b - 1].this
    BY <2>1, <2>2
  <2>4. f[b] = OfflineStep(f[b - 1], actions[b], b)
    BY <1>3, <2>1
  <2>5. \E reason \in {"prior_action_hash mismatch", "this_action_hash mismatch"} :
            f[b] = [f[b - 1] EXCEPT !.break = [at |-> b, reason |-> reason]]
    <3>1. CASE actions[b].prior # f[b - 1].prior
      BY <2>3, <2>4, <3>1 DEF OfflineStep
    <3>2. CASE actions[b].prior = f[b - 1].prior
      <4>1. actions[b].this # ChainHash(actions[b].prior, actions[b].receipt)
        BY <1>6, <2>3, <3>2 DEF Continues
      <4> QED
        BY <2>3, <2>4, <3>2, <4>1 DEF OfflineStep
    <3> QED
      BY <3>1, <3>2
  <2>6. f[b].break \in Breaks /\ f[b].break.at = b
    <3>1. PICK reason \in {"prior_action_hash mismatch", "this_action_hash mismatch"} :
              f[b] = [f[b - 1] EXCEPT !.break = [at |-> b, reason |-> reason]]
      BY <2>5
    <3> DEFINE prior == IF b - 1 = 0 THEN None ELSE actions[b - 1].this
               broken == [at |-> b, reason |-> reason]
    <3>2. f[b - 1] = [prior |-> prior, break |-> None]
      BY <2>2
    <3> HIDE DEF prior
    <3>3. f[b].break = broken
      BY <3>1, <3>2
    <3>4. broken \in Breaks /\ broken.at = b
      BY <2>1 DEF Breaks
    <3> HIDE DEF broken
    <3> QED
      BY <3>3, <3>4
  <2> DEFINE Failing == {i \in b..n : f[i].break # f[b].break}
  <2>7. Failing = {}
    <3>1. SUFFICES ASSUME Failing # {} PROVE FALSE
      OBVIOUS
    <3>2. PICK i \in Failing : \A j \in Failing : i <= j
      <4>1. Failing \in SUBSET Nat
        OBVIOUS
      <4> HIDE DEF Failing
      <4> QED
        BY <3>1, <4>1, LeastNatural
    <3>3. i # b
      BY <3>2
    <3>4. i - 1 \in b..n /\ i - 1 \notin Failing /\ i \in 0..n /\ i # 0
      BY <3>2, <3>3
    <3>5. f[i - 1].break = f[b].break /\ f[b].break # None
      BY <2>6, <3>4, ReportAssumption
    <3>6. f[i] = OfflineStep(f[i - 1], actions[i], i)
      BY <1>3, <3>4
    <3>7. f[i] = f[i - 1]
      BY <3>5, <3>6 DEF OfflineStep
    <3> QED
      BY <3>2, <3>5, <3>7
  <2>8. f[n].break = f[b].break
    BY <2>7
  <2> QED
    BY <1>2, <2>6, <2>8, ReportAssumption
<1> QED
  BY <1>5, <1>6

\* Check 4 and verify_chain agree on every document whose fields decode: whether it
\* passes and, if not, at which entry of the session that check 4 names.
THEOREM WalkersAlwaysAgree == Spec => []WalkersAgree
<1>1. ASSUME TypeOK, NEW s
      PROVE  /\ ChainLen(timeline, s) \in Nat
             /\ Len(OfflineEntries(timeline, s)) = ChainLen(timeline, s)
             /\ \A k \in 1..ChainLen(timeline, s) :
                    LinkedAt(timeline, s, k) <=>
                        /\ Decodes(ChainEntry(timeline, s, k))
                        /\ Continues(OfflineEntries(timeline, s), k)
  <2>1. ChainLen(timeline, s) \in Nat
    BY <1>1, ChainLenNat DEF TypeOK, SourceTypeOK, TimelineOK
  <2>2. Len(OfflineEntries(timeline, s)) = ChainLen(timeline, s)
    BY <2>1 DEF OfflineEntries
  <2>3. \A k \in 1..ChainLen(timeline, s) :
            /\ OfflineEntries(timeline, s)[k].prior = ChainEntry(timeline, s, k).prior
            /\ OfflineEntries(timeline, s)[k].receipt = ChainEntry(timeline, s, k).receipt
            /\ OfflineEntries(timeline, s)[k].this = ChainEntry(timeline, s, k).commitment
    BY DEF OfflineEntries
  <2>4. ASSUME NEW k \in 1..ChainLen(timeline, s), k # 1
        PROVE  k - 1 \in 1..ChainLen(timeline, s)
    BY <2>1, <2>4
  <2> QED
    BY <2>1, <2>2, <2>3, <2>4 DEF LinkedAt, Continues
<1>2. ASSUME TypeOK, WalkInv, report # None, report.verdict = "pass", NEW s \in Session
      PROVE  VerifyChain(OfflineEntries(timeline, s)) = None
  <2>1. ASSUME NEW k \in 1..ChainLen(timeline, s)
        PROVE  LinkedAt(timeline, s, k)
    <3>1. s \in SessionsOf(timeline)
      <4>1. SUFFICES ASSUME ActionsOf(timeline, s) = {} PROVE FALSE
        BY DEF SessionsOf
      <4>2. ChainLen(timeline, s) = 0
        BY <4>1, FS_EmptySet DEF ChainLen
      <4> QED
        BY <2>1, <4>2
    <3> QED
      BY <1>2, <3>1 DEF WalkInv, VerdictIsLinkage, AllLinked, SessionLinked
  <2> QED
    BY <1>1, <1>2, <2>1, OfflineVerdict
<1>3. ASSUME TypeOK, WalkInv, report # None, report.verdict # "pass",
             \A k \in 1..ChainLen(timeline, report.session) :
                Decodes(ChainEntry(timeline, report.session, k))
      PROVE  LET break == VerifyChain(OfflineEntries(timeline, report.session))
             IN  break # None /\ break.at = report.at
  <2>1. report.verdict = "fail"
    BY <1>3 DEF TypeOK, Reports, Pass
  <2>2. /\ report.at \in 1..ChainLen(timeline, report.session)
        /\ ~LinkedAt(timeline, report.session, report.at)
        /\ \A k \in 1..(report.at - 1) : LinkedAt(timeline, report.session, k)
    BY <1>3, <2>1 DEF WalkInv, FailureIsFirstBreak
  <2>3. ~Continues(OfflineEntries(timeline, report.session), report.at)
    BY <1>1, <1>3, <2>2
  <2>4. \A k \in 1..(report.at - 1) : k \in 1..ChainLen(timeline, report.session)
    BY <1>1, <1>3, <2>2
  <2>5. \A k \in 1..(report.at - 1) : Continues(OfflineEntries(timeline, report.session), k)
    BY <1>1, <1>3, <2>2, <2>4
  <2> QED
    BY <1>1, <1>3, <2>2, <2>3, <2>5, OfflineVerdict
<1>4. TypeOK /\ WalkInv => WalkersAgree
  BY <1>2, <1>3 DEF WalkersAgree
<1> QED
  BY <1>4, WalkInvariant, PTL

-----------------------------------------------------------------------------
(* Several invocations on one document.                                    *)

\* The reason check 4 gives for entry k of session s, from the document alone.
ReasonAt(tl, s, k) ==
    LET e == ChainEntry(tl, s, k)
        prior == PriorAt(tl, s, k)
        priorFault == IF e.prior # None
                      THEN IF e.prior = Malformed THEN "prior malformed"
                           ELSE IF e.prior # prior THEN "prior mismatch" ELSE None
                      ELSE IF prior # None THEN "prior missing" ELSE None
    IN  IF e.receipt = Malformed THEN "receipt malformed"
        ELSE IF priorFault # None THEN priorFault
        ELSE IF e.commitment = Malformed THEN "commitment malformed"
        ELSE IF e.commitment # ChainHash(prior, e.receipt) THEN "hash mismatch" ELSE None

FirstBreak(tl, s, k) == /\ k \in 1..ChainLen(tl, s)
                        /\ ~LinkedAt(tl, s, k)
                        /\ \A j \in 1..(k - 1) : LinkedAt(tl, s, j)

\* The reports that one document can get.
Deserved(tl, r) ==
    \/ r = Pass /\ AllLinked(tl)
    \/ \E s \in SessionsOf(tl) : \E k \in 1..ChainLen(tl, s) :
            FirstBreak(tl, s, k) /\ r = Failure(s, k, ReasonAt(tl, s, k))

ReportedInv ==
    /\ ~exported => earlier = <<>>
    /\ report # None => Deserved(timeline, report)
    /\ \A i \in DOMAIN earlier : Deserved(timeline, earlier[i])

\* The reason depends on how the walk came to the entry only by what it expects.
LEMMA ReasonOfFault ==
    ASSUME current # None, expectedPrior = PriorAt(timeline, current, pos)
    PROVE  EntryFault = ReasonAt(timeline, current, pos)
BY DEF EntryFault, PriorFault, Entry, ReasonAt

\* Every step keeps all reports ones that the document deserves.
LEMMA ReportedInvStep ==
    ASSUME TypeOK, WalkInv, ReportedInv, [Next]_vars
    PROVE  ReportedInv'
<1>1. CASE Source
  <2>1. ~exported /\ ~exported' /\ report' = report /\ earlier' = earlier /\ report = None
    BY <1>1 DEF Source, Record, Edit, walkVars, WalkInv
  <2> QED
    BY <2>1 DEF ReportedInv
<1>2. CASE Submit
  <2>1. timeline' = timeline /\ report' = report /\ earlier' = earlier /\ ~exported
    BY <1>2 DEF Submit, Export
  <2> QED
    BY <2>1 DEF ReportedInv
<1>3. CASE RejectEntry
  <2>1. /\ exported' = exported /\ timeline' = timeline /\ earlier' = earlier
        /\ current # None /\ pos <= ChainLen(timeline, current)
        /\ EntryFault # None /\ report' = Failure(current, pos, EntryFault)
    BY <1>3 DEF RejectEntry, Walking, sourceVars
  <2>2. /\ current \in SessionsOf(timeline)
        /\ \A k \in 1..(pos - 1) : LinkedAt(timeline, current, k)
        /\ expectedPrior = PriorAt(timeline, current, pos)
    BY <2>1 DEF WalkInv, CurrentInv
  <2>3. pos \in 1..ChainLen(timeline, current)
    BY <2>1, CurrentChain DEF TypeOK
  <2>4. ~LinkedAt(timeline, current, pos) /\ EntryFault = ReasonAt(timeline, current, pos)
    BY <2>1, <2>2, FaultMeansUnlinked, ReasonOfFault
  <2>5. Deserved(timeline, report')
    BY <2>1, <2>2, <2>3, <2>4 DEF Deserved, FirstBreak
  <2> QED
    BY <2>1, <2>5 DEF ReportedInv
<1>4. CASE Finish
  <2>1. /\ exported' = exported /\ timeline' = timeline /\ earlier' = earlier
        /\ exported /\ todo = {} /\ current = None /\ report' = Pass
    BY <1>4 DEF Finish, sourceVars
  <2>2. AllLinked(timeline)
    <3>1. WalkedSessions = SessionsOf(timeline)
      BY <2>1, NoneAssumption DEF WalkedSessions, SessionsOf
    <3> QED
      BY <2>1, <3>1 DEF AllLinked, WalkInv
  <2> QED
    BY <2>1, <2>2 DEF ReportedInv, Deserved
<1>5. CASE Rerun
  <2>1. /\ exported' = exported /\ timeline' = timeline
        /\ earlier' = Append(earlier, report) /\ report # None /\ report' = None
    BY <1>5 DEF Rerun, sourceVars
  <2>2. exported
    BY <2>1 DEF WalkInv
  <2>3. earlier \in Seq(Reports) /\ report \in Reports
    BY <2>1 DEF TypeOK
  <2>4. \A i \in DOMAIN earlier' : earlier'[i] = report
                                   \/ (i \in DOMAIN earlier /\ earlier'[i] = earlier[i])
    BY <2>1, <2>3
  <2> QED
    BY <2>1, <2>2, <2>4 DEF ReportedInv
<1>6. ASSUME UNCHANGED <<timeline, exported, report, earlier>>
      PROVE  ReportedInv'
  BY <1>6 DEF ReportedInv
<1>7. CASE \E s \in Session : PickSession(s)
  BY <1>6, <1>7 DEF PickSession, sourceVars
<1>8. CASE AcceptEntry
  BY <1>6, <1>8 DEF AcceptEntry, sourceVars
<1>9. CASE EndSession
  BY <1>6, <1>9 DEF EndSession, sourceVars
<1>10. CASE UNCHANGED vars
  BY <1>6, <1>10 DEF vars, sourceVars, walkVars
<1> QED
  BY <1>1, <1>2, <1>3, <1>4, <1>5, <1>7, <1>8, <1>9, <1>10 DEF Next, Walk

\* Every report of every invocation is one that the document deserves.
THEOREM ReportedInvariant == Spec => []ReportedInv
<1>1. Init => ReportedInv
  BY DEF Init, SourceInit, ReportedInv
<1>2. TypeOK /\ WalkInv /\ ReportedInv /\ [Next]_vars => ReportedInv'
  BY ReportedInvStep
<1> QED
  BY <1>1, <1>2, WalkInvariant, PTL DEF Spec

SingleFault ==
    \A s, t \in SessionsOf(timeline) :
        ~SessionLinked(timeline, s) /\ ~SessionLinked(timeline, t) => s = t

\* How far the promise of identical reports goes: the verdict is always the same,
\* in whatever order each process walks the HashMap, and so is the whole report if
\* no more than one session is broken (check_receipt_commitments).
THEOREM OneFaultOneReport ==
    Spec => []/\ report # None => \A i \in DOMAIN earlier : earlier[i].verdict = report.verdict
              /\ SingleFault => ReportsIdentical
<1>1. ASSUME TypeOK, ReportedInv, report # None, NEW i \in DOMAIN earlier
      PROVE  /\ earlier[i].verdict = report.verdict
             /\ SingleFault => earlier[i] = report
  <2>1. Deserved(timeline, report) /\ Deserved(timeline, earlier[i])
    BY <1>1 DEF ReportedInv
  <2>2. ASSUME NEW r, Deserved(timeline, r)
        PROVE  IF AllLinked(timeline) THEN r = Pass
               ELSE /\ r.verdict = "fail"
                    /\ \E s \in SessionsOf(timeline) : \E k \in 1..ChainLen(timeline, s) :
                          /\ ~SessionLinked(timeline, s) /\ FirstBreak(timeline, s, k)
                          /\ r = Failure(s, k, ReasonAt(timeline, s, k))
    <3>1. ASSUME NEW s \in SessionsOf(timeline), NEW k \in 1..ChainLen(timeline, s),
                 FirstBreak(timeline, s, k)
          PROVE  ~SessionLinked(timeline, s) /\ ~AllLinked(timeline)
      BY <3>1 DEF FirstBreak, SessionLinked, AllLinked
    <3>2. \A s, k, reason : Failure(s, k, reason).verdict = "fail"
      BY DEF Failure
    <3> QED
      BY <2>2, <3>1, <3>2 DEF Deserved
  <2>3. CASE AllLinked(timeline)
    BY <2>1, <2>2, <2>3
  <2>4. CASE ~AllLinked(timeline)
    <3>1. report.verdict = "fail" /\ earlier[i].verdict = "fail"
      BY <2>1, <2>2, <2>4
    <3>2. ASSUME SingleFault PROVE earlier[i] = report
      <4>1. PICK s \in SessionsOf(timeline) : \E k \in 1..ChainLen(timeline, s) :
                /\ ~SessionLinked(timeline, s) /\ FirstBreak(timeline, s, k)
                /\ report = Failure(s, k, ReasonAt(timeline, s, k))
        BY <2>1, <2>2, <2>4
      <4>2. PICK t \in SessionsOf(timeline) : \E k \in 1..ChainLen(timeline, t) :
                /\ ~SessionLinked(timeline, t) /\ FirstBreak(timeline, t, k)
                /\ earlier[i] = Failure(t, k, ReasonAt(timeline, t, k))
        BY <2>1, <2>2, <2>4
      <4>3. s = t
        BY <3>2, <4>1, <4>2 DEF SingleFault
      <4>4. PICK k \in 1..ChainLen(timeline, s) :
                FirstBreak(timeline, s, k) /\ report = Failure(s, k, ReasonAt(timeline, s, k))
        BY <4>1
      <4>5. PICK l \in 1..ChainLen(timeline, s) :
                FirstBreak(timeline, s, l) /\ earlier[i] = Failure(s, l, ReasonAt(timeline, s, l))
        BY <4>2, <4>3
      <4>6. ~(k < l) /\ ~(l < k) /\ k \in Int /\ l \in Int
        BY <4>4, <4>5 DEF FirstBreak
      <4>7. k = l
        BY <4>6
      <4> QED
        BY <4>4, <4>5, <4>7
    <3> QED
      BY <3>1, <3>2
  <2> QED
    BY <2>3, <2>4
<1>2. TypeOK /\ ReportedInv =>
        /\ report # None => \A i \in DOMAIN earlier : earlier[i].verdict = report.verdict
        /\ SingleFault => ReportsIdentical
  BY <1>1 DEF ReportsIdentical
<1> QED
  BY <1>2, TypeCorrect, ReportedInvariant, PTL

-----------------------------------------------------------------------------
(* Both loops end.                                                         *)

\* What is left of check 4: the sessions to come, then the entries of the session
\* being walked, then the report.
InChain == IF report # None THEN 0
           ELSE IF current = None THEN 1
           ELSE ChainLen(timeline, current) + 3 - pos

WorkLeft == <<Cardinality(todo), InChain>>

\* The sessions to come are finitely many, and the walk never runs past the end of a
\* chain.
WithinChain ==
    /\ IsFiniteSet(todo)
    /\ current # None => pos <= ChainLen(timeline, current) + 1

\* Every step keeps the walk within its chain.
LEMMA WithinChainStep ==
    ASSUME TypeOK, WalkInv, WithinChain, [Next]_vars
    PROVE  WithinChain'
<1> USE NoneAssumption DEF WithinChain
<1>0. /\ IsFiniteSet(SessionsOf(timeline)) /\ pos \in Nat
      /\ \A s : ChainLen(timeline, s) \in Nat
  BY SessionsFinite, ChainLenNat DEF TypeOK, SourceTypeOK, TimelineOK
<1>1. CASE Source
  BY <1>1 DEF Source, walkVars, Record, Edit, WalkInv
<1>2. CASE Submit
  BY <1>0, <1>2 DEF Submit, Export, WalkInv
<1>3. CASE \E s \in Session : PickSession(s)
  <2>1. PICK s \in Session : PickSession(s)
    BY <1>3
  <2>2. IsFiniteSet(todo \ {s})
    BY FS_RemoveElement
  <2> QED
    BY <1>0, <2>1, <2>2 DEF PickSession, sourceVars
<1>4. CASE AcceptEntry
  BY <1>0, <1>4 DEF AcceptEntry, Walking, sourceVars
<1>5. CASE RejectEntry \/ EndSession \/ Finish \/ UNCHANGED vars
  BY <1>5 DEF RejectEntry, EndSession, Finish, vars, walkVars, sourceVars
<1>6. CASE Rerun
  BY <1>0, <1>6 DEF Rerun, sourceVars
<1> QED
  BY <1>1, <1>2, <1>3, <1>4, <1>5, <1>6 DEF Next, Walk

\* Every step taken while check 4 runs leaves less to do, in whatever order the HashMap
\* gives the sessions: none of them is walked twice, no chain is walked past its end, and
\* no invocation runs forever.
THEOREM WalkDescends ==
    Spec => [][exported /\ report = None =>
                 /\ WorkLeft \in Nat \X Nat /\ WorkLeft' \in Nat \X Nat
                 /\ <<WorkLeft', WorkLeft>> \in Fewer]_vars
<1> USE NoneAssumption, ReportAssumption
<1>1. Init => WithinChain
  BY FS_EmptySet DEF Init, WithinChain
<1>2. TypeOK /\ WalkInv /\ WithinChain /\ [Next]_vars => WithinChain'
  BY WithinChainStep
<1>3. ASSUME TypeOK, WithinChain, TypeOK', WithinChain', Next, exported, report = None
      PROVE  /\ WorkLeft \in Nat \X Nat /\ WorkLeft' \in Nat \X Nat
             /\ <<WorkLeft', WorkLeft>> \in Fewer
  <2> DEFINE a == Cardinality(todo)
             b == InChain
  <2>0. /\ pos \in Nat \ {0} /\ \A s : ChainLen(timeline, s) \in Nat
        /\ a \in Nat
    BY <1>3, ChainLenNat, FS_CardinalityType DEF TypeOK, SourceTypeOK, TimelineOK, WithinChain
  <2>1. b \in Nat /\ b > 0
    BY <1>3, <2>0 DEF InChain, WithinChain
  <2>2. Walk /\ timeline' = timeline
    BY <1>3 DEF Next, Source, Submit, Record, Edit, Export, Rerun, Walk, PickSession,
                AcceptEntry, RejectEntry, EndSession, Finish, sourceVars
  <2>3. a' \in Nat /\ b' \in Nat
    <3>1. pos' \in Nat \ {0} /\ a' \in Nat
      BY <1>3, FS_CardinalityType DEF TypeOK, WithinChain
    <3>2. current' # None => pos' <= ChainLen(timeline, current') + 1
      BY <1>3, <2>2 DEF WithinChain
    <3> QED
      BY <2>0, <2>2, <3>1, <3>2 DEF InChain
  <2>4. a' < a \/ (a' = a /\ b' < b)
    <3>1. CASE \E s \in Session : PickSession(s)
      <4>1. PICK s \in Session : PickSession(s)
        BY <3>1
      <4>2. s \in todo /\ todo' = todo \ {s}
        BY <4>1 DEF PickSession
      <4>3. Cardinality(todo \ {s}) = Cardinality(todo) - 1
        BY <1>3, <4>2, FS_RemoveElement DEF WithinChain
      <4> QED
        BY <2>0, <4>2, <4>3
    <3>2. CASE AcceptEntry
      <4>1. /\ todo' = todo /\ current' = current /\ current # None /\ report' = None
            /\ pos' = pos + 1
        BY <1>3, <3>2 DEF AcceptEntry, Walking
      <4> QED
        BY <1>3, <2>0, <2>2, <4>1 DEF InChain
    <3>3. CASE RejectEntry \/ Finish
      <4>1. todo' = todo /\ report' # None
        <5>1. CASE RejectEntry
          <6>1. current \in Session /\ EntryFault \in Reasons
            BY <1>3, <5>1, FaultIsReason DEF RejectEntry, Walking, TypeOK, OptionalSession
          <6>2. Failure(current, pos, EntryFault) \in Reports
            BY <2>0, <6>1 DEF Failure, Reports
          <6> QED
            BY <5>1, <6>2 DEF RejectEntry
        <5>2. CASE Finish
          BY <5>2 DEF Finish, Reports
        <5> QED
          BY <3>3, <5>1, <5>2
      <4> QED
        BY <2>0, <2>1, <4>1 DEF InChain
    <3>4. CASE EndSession
      <4>1. /\ todo' = todo /\ current' = None /\ current # None /\ report' = None
            /\ pos <= ChainLen(timeline, current) + 1
        BY <1>3, <3>4 DEF EndSession, WithinChain
      <4> QED
        BY <1>3, <2>0, <4>1 DEF InChain
    <3> QED
      BY <2>2, <3>1, <3>2, <3>3, <3>4 DEF Walk
  <2>5. WorkLeft = <<a, b>> /\ WorkLeft' = <<a', b'>>
    BY DEF WorkLeft
  <2> HIDE DEF a, b
  <2> QED
    BY <2>0, <2>1, <2>3, <2>4, <2>5, FewerLeft
<1>4. TypeOK /\ WithinChain /\ TypeOK' /\ WithinChain' /\ [Next]_vars =>
        [exported /\ report = None =>
             /\ WorkLeft \in Nat \X Nat /\ WorkLeft' \in Nat \X Nat
             /\ <<WorkLeft', WorkLeft>> \in Fewer]_vars
  BY <1>3
<1> QED
  BY <1>1, <1>2, <1>4, WalkInvariant, PTL DEF Spec
=============================================================================
