------------------------- MODULE CaseTimelineProofs -------------------------
(***************************************************************************)
(* Lemmas about the document under verification, shared by the proofs of   *)
(* the checks that read it.                                                *)
(***************************************************************************)
EXTENDS CaseTimeline, HashChainProofs

\* A chain has a natural number of entries.
LEMMA ChainLenNat ==
    ASSUME NEW tl, NEW n \in Nat, DOMAIN tl = 1..n, NEW s
    PROVE  ChainLen(tl, s) \in Nat
<1>1. IsFiniteSet(1..n)
  BY FS_Interval
<1>2. ActionsOf(tl, s) \subseteq 1..n
  BY DEF ActionsOf
<1>3. IsFiniteSet(ActionsOf(tl, s))
  BY <1>1, <1>2, FS_Subset
<1> QED
  BY <1>3, FS_CardinalityType DEF ChainLen

\* An edit of one field leaves an entry.
LEMMA RewrittenIsEntry ==
    ASSUME NEW f, EntryOK(f), NEW e \in Rewritten(f)
    PROVE  EntryOK(e)
<1> USE NoneAssumption, BoundsAssumption DEF EntryOK, EntryFields, OptionalSession
<1>1. CASE \E r \in Receipt \cup {Malformed} : e = [f EXCEPT !.receipt = r]
  BY <1>1
<1>2. CASE \E p \in {None, Malformed} : e = [f EXCEPT !.prior = p]
  BY <1>2
<1>3. CASE e = [f EXCEPT !.commitment = Malformed]
  BY <1>3
<1>4. CASE \E s \in OptionalSession : e = [f EXCEPT !.session = s]
  BY <1>4
<1>5. CASE \E m \in {None} \cup -1..MaxEntries : e = [f EXCEPT !.seq = m]
  BY <1>5
<1>6. CASE \E t \in 0..MaxTime : e = [f EXCEPT !.ts = t]
  BY <1>6
<1>7. CASE \E k \in {"action", "proof"} : e = [f EXCEPT !.kind = k]
  BY <1>7
<1> QED
  BY <1>1, <1>2, <1>3, <1>4, <1>5, <1>6, <1>7 DEF Rewritten

\* An entry is one whatever hash its prior or its commitment is.
LEMMA GraftedIsEntry ==
    ASSUME NEW f, EntryOK(f), NEW c
    PROVE  EntryOK([f EXCEPT !.prior = c]) /\ EntryOK([f EXCEPT !.commitment = c])
BY DEF EntryOK, EntryFields

\* A graft exchanges one entry for one that differs in its prior or its commitment.
LEMMA GraftExchangesOne ==
    ASSUME NEW tl, NEW i \in DOMAIN tl, NEW new \in Grafted(tl, i)
    PROVE  \E j \in DOMAIN tl : \E e \in {[tl[i] EXCEPT !.prior = tl[j].commitment],
                                          [tl[i] EXCEPT !.commitment = tl[j].commitment]} :
              new = [tl EXCEPT ![i] = e]
BY DEF Grafted

\* The five ways to edit a document.
LEMMA EditIsOne ==
    ASSUME NEW tl, NEW new \in Edited(tl)
    PROVE  \/ \E i \in DOMAIN tl : new = Without(tl, i)
           \/ \E i \in DOMAIN tl : new = Repeated(tl, i)
           \/ \E i, j \in DOMAIN tl : new = Exchanged(tl, i, j)
           \/ \E i \in DOMAIN tl : \E e \in Rewritten(tl[i]) : new = [tl EXCEPT ![i] = e]
           \/ \E i \in DOMAIN tl : new \in Grafted(tl, i)
BY DEF Edited

\* The recorder and the edits keep the document a sequence of entries.
LEMMA SourceKeepsTypes ==
    ASSUME SourceTypeOK, Record \/ Edit
    PROVE  SourceTypeOK'
<1> USE NoneAssumption, BoundsAssumption
<1> DEFINE n == Len(timeline)
<1>0. /\ n \in Nat /\ DOMAIN timeline = 1..n
      /\ \A i \in 1..n : EntryOK(timeline[i])
  BY DEF SourceTypeOK, TimelineOK
<1>1. CASE Record
  <2>1. PICK r \in Receipt, t \in ClockReadings :
            \/ \E s \in Session : RecordAction(s, r, t)
            \/ RecordLooseAction(r, t)
            \/ RecordProof(r, t)
    BY <1>1 DEF Record
  <2>2. t \in Nat
    BY <2>1, <1>0 DEF ClockReadings, EntryOK
  <2>3. \A s \in Session : ChainLen(timeline, s) \in Nat
    BY <1>0, ChainLenNat
  <2>4. \A e : EntryOK(e) /\ timeline' = Append(timeline, e) => TimelineOK'
    BY <1>0 DEF TimelineOK
  <2>5. \A s \in OptionalSession :
          [recorded EXCEPT ![s] = Append(@, r)] \in [OptionalSession -> Seq(Receipt)]
    BY DEF SourceTypeOK
  <2>6. edits' = edits /\ exported' = exported
    BY <1>1 DEF Record
  <2>7. CASE \E s \in Session : RecordAction(s, r, t)
    <3>1. PICK s \in Session : RecordAction(s, r, t)
      BY <2>7
    <3> DEFINE e == [kind |-> "action", session |-> s, seq |-> ChainLen(timeline, s),
             ts |-> t, prior |-> LastCommitment(s), receipt |-> r,
             commitment |-> ChainHash(LastCommitment(s), r)]
    <3>2. EntryOK(e)
      BY <2>1, <2>2, <2>3, <3>1 DEF EntryOK, EntryFields, OptionalSession
    <3>3. timeline' = Append(timeline, e)
      BY <3>1 DEF RecordAction
    <3> QED
      BY <3>1, <3>2, <3>3, <2>4, <2>5, <2>6 DEF RecordAction, SourceTypeOK, OptionalSession
  <2>8. CASE RecordLooseAction(r, t)
    <3> DEFINE e == [kind |-> "action", session |-> None, seq |-> None, ts |-> t,
             prior |-> None, receipt |-> r, commitment |-> ChainHash(None, r)]
    <3>1. EntryOK(e)
      BY <2>1, <2>2 DEF EntryOK, EntryFields, OptionalSession
    <3>2. timeline' = Append(timeline, e)
      BY <2>8 DEF RecordLooseAction
    <3> QED
      BY <2>8, <3>1, <3>2, <2>4, <2>5, <2>6 DEF RecordLooseAction, SourceTypeOK, OptionalSession
  <2>9. CASE RecordProof(r, t)
    <3> DEFINE e == [kind |-> "proof", session |-> None, seq |-> None, ts |-> t,
             prior |-> None, receipt |-> r, commitment |-> r]
    <3>1. EntryOK(e)
      BY <2>1, <2>2 DEF EntryOK, EntryFields, OptionalSession
    <3>2. timeline' = Append(timeline, e)
      BY <2>9 DEF RecordProof
    <3> QED
      BY <2>9, <3>1, <3>2, <2>4, <2>6 DEF RecordProof, SourceTypeOK
  <2> QED
    BY <2>1, <2>7, <2>8, <2>9
<1>2. CASE Edit
  <2>1. /\ recorded' = recorded /\ edits' = edits + 1 /\ exported' = exported
        /\ timeline' \in Edited(timeline)
    BY <1>2 DEF Edit
  <2>2. TimelineOK'
    <3>1. CASE \E i \in 1..n : timeline' = Without(timeline, i)
      <4>1. Len(timeline') = n - 1 /\ n - 1 \in Nat /\ DOMAIN timeline' = 1..(n - 1)
        BY <1>0, <3>1 DEF Without
      <4> QED
        BY <1>0, <3>1, <4>1 DEF Without, TimelineOK
    <3>2. CASE \E i \in 1..n : timeline' = Repeated(timeline, i)
      <4>1. Len(timeline') = n + 1 /\ DOMAIN timeline' = 1..(n + 1)
        BY <1>0, <3>2 DEF Repeated
      <4> QED
        BY <1>0, <3>2, <4>1 DEF Repeated, TimelineOK
    <3>3. CASE \E i, j \in 1..n : timeline' = Exchanged(timeline, i, j)
      <4>1. DOMAIN timeline' = 1..n
        BY <1>0, <3>3 DEF Exchanged
      <4>2. Len(timeline') = n
        BY <1>0, <4>1
      <4> QED
        BY <1>0, <3>3, <4>1, <4>2 DEF Exchanged, TimelineOK
    <3>4. CASE \E i \in 1..n : \E e \in Rewritten(timeline[i]) :
                 timeline' = [timeline EXCEPT ![i] = e]
      <4>0. PICK i \in 1..n : \E e \in Rewritten(timeline[i]) :
                 timeline' = [timeline EXCEPT ![i] = e]
        BY <3>4
      <4>1. PICK e \in Rewritten(timeline[i]) :
                 timeline' = [timeline EXCEPT ![i] = e]
        BY <4>0
      <4>2. EntryOK(timeline[i])
        BY <1>0
      <4>3. EntryOK(e)
        BY <4>1, <4>2, RewrittenIsEntry
      <4>4. DOMAIN timeline' = 1..n /\ Len(timeline') = n
        BY <1>0, <4>1
      <4> QED
        BY <1>0, <4>1, <4>3, <4>4 DEF TimelineOK
    <3>5. CASE \E i \in 1..n : timeline' \in Grafted(timeline, i)
      <4>0. PICK i \in 1..n : timeline' \in Grafted(timeline, i)
        BY <3>5
      <4>1. PICK j \in 1..n :
                 \E e \in {[timeline[i] EXCEPT !.prior = timeline[j].commitment],
                           [timeline[i] EXCEPT !.commitment = timeline[j].commitment]} :
                    timeline' = [timeline EXCEPT ![i] = e]
        BY <1>0, <4>0, GraftExchangesOne
      <4>2. PICK e \in {[timeline[i] EXCEPT !.prior = timeline[j].commitment],
                        [timeline[i] EXCEPT !.commitment = timeline[j].commitment]} :
                 timeline' = [timeline EXCEPT ![i] = e]
        BY <4>1
      <4>3. EntryOK(e)
        <5>1. EntryOK(timeline[i])
          BY <1>0
        <5>2. /\ EntryOK([timeline[i] EXCEPT !.prior = timeline[j].commitment])
              /\ EntryOK([timeline[i] EXCEPT !.commitment = timeline[j].commitment])
          BY ONLY <5>1, GraftedIsEntry
        <5> QED
          BY <5>2
      <4>4. DOMAIN timeline' = 1..n /\ Len(timeline') = n
        BY <1>0, <4>2
      <4> QED
        BY <1>0, <4>2, <4>3, <4>4 DEF TimelineOK
    <3> QED
      BY <1>0, <2>1, <3>1, <3>2, <3>3, <3>4, <3>5, EditIsOne
  <2> QED
    BY <2>1, <2>2 DEF SourceTypeOK
<1> QED
  BY <1>1, <1>2

\* Handing the document over and leaving it alone keep its type.
LEMMA SourceStaysTyped ==
    ASSUME SourceTypeOK, Export \/ UNCHANGED sourceVars
    PROVE  SourceTypeOK'
BY DEF Export, sourceVars, SourceTypeOK, TimelineOK

\* A new case has an empty document of the right type.
LEMMA SourceInitTypes ==
    ASSUME SourceInit
    PROVE  SourceTypeOK
<1>1. Len(<<>>) = 0 /\ <<>> \in Seq(Receipt)
  OBVIOUS
<1>2. recorded \in [OptionalSession -> Seq(Receipt)]
  BY <1>1 DEF SourceInit
<1>3. TimelineOK
  BY <1>1 DEF SourceInit, TimelineOK
<1>4. edits \in Nat /\ exported \in BOOLEAN
  BY DEF SourceInit
<1> QED
  BY <1>2, <1>3, <1>4 DEF SourceTypeOK

-----------------------------------------------------------------------------
(* The stable sort of check 4.                                             *)

Sortable(tl, n) == DOMAIN tl = 1..n /\ \A i \in 1..n : SortKey(tl[i]) \in Int

Keys(tl) == [i \in DOMAIN tl |-> SortKey(tl[i])]

\* The rank of an action is its place in the sort.
LEMMA RankIsPlace ==
    ASSUME NEW tl, NEW n \in Nat, Sortable(tl, n), NEW s
    PROVE  /\ Sorts(ActionsOf(tl, s), Keys(tl), n)
           /\ \A i \in ActionsOf(tl, s) : Rank(tl, s, i) = PlaceIn(ActionsOf(tl, s), Keys(tl), i)
           /\ \A i, j \in ActionsOf(tl, s) : Precedes(tl, i, j) <=> NotLater(Keys(tl), i, j)
<1> DEFINE A == ActionsOf(tl, s)
<1>1. A \subseteq 1..n /\ \A i \in A : Keys(tl)[i] = SortKey(tl[i]) /\ Keys(tl)[i] \in Int
  BY DEF ActionsOf, Sortable, Keys
<1>2. \A i, j \in A : Precedes(tl, i, j) <=> NotLater(Keys(tl), i, j)
  BY <1>1 DEF Precedes, NotLater
<1>3. \A i \in A : {j \in A : Precedes(tl, j, i)} = {j \in A : NotLater(Keys(tl), j, i)}
  BY <1>2
<1> QED
  BY <1>1, <1>2, <1>3 DEF Rank, PlaceIn, Sorts

\* What precedes an action precedes every action that comes after it.
LEMMA RankRises ==
    ASSUME NEW tl, NEW n \in Nat, Sortable(tl, n), NEW s,
           NEW i \in ActionsOf(tl, s), NEW j \in ActionsOf(tl, s), i # j, Precedes(tl, i, j)
    PROVE  Rank(tl, s, i) < Rank(tl, s, j)
BY RankIsPlace, PlaceRises

\* No two actions of a session have one rank.
LEMMA RankUnique ==
    ASSUME NEW tl, NEW n \in Nat, Sortable(tl, n), NEW s,
           NEW i \in ActionsOf(tl, s), NEW j \in ActionsOf(tl, s),
           Rank(tl, s, i) = Rank(tl, s, j)
    PROVE  i = j
BY RankIsPlace, PlaceUnique

\* The sort loses no action and repeats none: ranks are a bijection onto the places
\* of the chain, so each place has its action.
LEMMA ChainOrderRanks ==
    ASSUME NEW tl, NEW n \in Nat, Sortable(tl, n), NEW s, NEW k \in 1..ChainLen(tl, s)
    PROVE  ChainOrder(tl, s)[k] \in ActionsOf(tl, s) /\ Rank(tl, s, ChainOrder(tl, s)[k]) = k
<1>1. \E i \in ActionsOf(tl, s) : Rank(tl, s, i) = k
  BY RankIsPlace, PlaceTaken DEF ChainLen
<1>2. ChainOrder(tl, s)[k] = CHOOSE i \in ActionsOf(tl, s) : Rank(tl, s, i) = k
  BY DEF ChainOrder
<1> QED
  BY <1>1, <1>2

-----------------------------------------------------------------------------
(* An entry added to the timeline.                                         *)

\* An entry that is no action of a session leaves that session's chain alone.
LEMMA OtherChainsStay ==
    ASSUME NEW tl, NEW n \in Nat, Sortable(tl, n), Len(tl) = n, NEW e, NEW s,
           ~(IsAction(e) /\ e.session = s)
    PROVE  /\ ChainLen(Append(tl, e), s) = ChainLen(tl, s)
           /\ ActionsOf(Append(tl, e), s) = ActionsOf(tl, s)
           /\ \A k \in 1..ChainLen(tl, s) :
                    ChainEntry(Append(tl, e), s, k) = ChainEntry(tl, s, k)
<1> DEFINE new == Append(tl, e)
           A == ActionsOf(tl, s)
<1>1. DOMAIN new = 1..(n + 1) /\ new[n + 1] = e /\ \A i \in 1..n : new[i] = tl[i]
  BY DEF Sortable
<1>2. ActionsOf(new, s) = A /\ \A i \in A : i \in 1..n
  BY <1>1 DEF ActionsOf, Sortable
<1>3. ASSUME NEW i \in A PROVE Rank(new, s, i) = Rank(tl, s, i)
  <2>1. {j \in A : Precedes(new, j, i)} = {j \in A : Precedes(tl, j, i)}
    BY <1>1, <1>2 DEF Precedes
  <2> QED
    BY <1>2, <2>1 DEF Rank
<1>4. ChainLen(new, s) = ChainLen(tl, s)
  BY <1>2 DEF ChainLen
<1>5. ASSUME NEW k \in 1..ChainLen(tl, s) PROVE ChainEntry(new, s, k) = ChainEntry(tl, s, k)
  <2>1. ChainOrder(new, s)[k] \in A /\ Rank(tl, s, ChainOrder(new, s)[k]) = k
    <3>1. \E i \in A : Rank(tl, s, i) = k
      BY ChainOrderRanks
    <3>2. \E i \in A : Rank(new, s, i) = k
      BY <1>3, <3>1
    <3>3. ChainOrder(new, s)[k] = CHOOSE i \in A : Rank(new, s, i) = k
      BY <1>2, <1>4 DEF ChainOrder
    <3>4. ChainOrder(new, s)[k] \in A /\ Rank(new, s, ChainOrder(new, s)[k]) = k
      BY <3>2, <3>3
    <3> QED
      BY <1>3, <3>4
  <2>2. ChainOrder(new, s)[k] = ChainOrder(tl, s)[k]
    BY <2>1, ChainOrderRanks, RankUnique
  <2> QED
    BY <1>1, <1>2, <2>1, <2>2 DEF ChainEntry
<1> QED
  BY <1>2, <1>4, <1>5

\* An action whose sequence number is not below the others of its session ends
\* the chain.
LEMMA ChainGrows ==
    ASSUME NEW tl, NEW n \in Nat, Sortable(tl, n), Len(tl) = n, NEW e, NEW s,
           IsAction(e), e.session = s, SortKey(e) \in Int,
           \A i \in ActionsOf(tl, s) : SortKey(tl[i]) <= SortKey(e)
    PROVE  /\ ChainLen(tl, s) \in Nat
           /\ ChainLen(Append(tl, e), s) = ChainLen(tl, s) + 1
           /\ ActionsOf(Append(tl, e), s) = ActionsOf(tl, s) \cup {n + 1}
           /\ ChainEntry(Append(tl, e), s, ChainLen(tl, s) + 1) = e
           /\ \A k \in 1..ChainLen(tl, s) :
                    ChainEntry(Append(tl, e), s, k) = ChainEntry(tl, s, k)
<1> DEFINE new == Append(tl, e)
           A == ActionsOf(tl, s)
           m == ChainLen(tl, s)
<1>1. DOMAIN new = 1..(n + 1) /\ new[n + 1] = e /\ \A i \in 1..n : new[i] = tl[i]
  BY DEF Sortable
<1>2. ActionsOf(new, s) = A \cup {n + 1} /\ \A i \in A : i \in 1..n
  BY <1>1 DEF ActionsOf, Sortable
<1>3. Sortable(new, n + 1) /\ n + 1 \in Nat
  BY <1>1 DEF Sortable
<1>4. /\ Keys(new)[n + 1] = SortKey(e)
      /\ \A i \in A : Keys(new)[i] = Keys(tl)[i] /\ Keys(tl)[i] <= Keys(new)[n + 1]
  BY <1>1, <1>2 DEF Keys, Sortable
<1>5. /\ Cardinality(A \cup {n + 1}) = Cardinality(A) + 1
      /\ PlaceIn(A \cup {n + 1}, Keys(new), n + 1) = Cardinality(A) + 1
      /\ \A i \in A : PlaceIn(A \cup {n + 1}, Keys(new), i) = PlaceIn(A, Keys(tl), i)
  <2>1. Sorts(A, Keys(tl), n)
    BY RankIsPlace
  <2>2. n + 1 > n /\ Keys(new)[n + 1] \in Int
    BY <1>4
  <2> HIDE DEF new, A
  <2> QED
    BY <1>3, <1>4, <2>1, <2>2, PlaceOfNewLast
<1>6. Rank(new, s, n + 1) = m + 1 /\ \A i \in A : Rank(new, s, i) = Rank(tl, s, i)
  <2>1. \A i \in A \cup {n + 1} : Rank(new, s, i) = PlaceIn(A \cup {n + 1}, Keys(new), i)
    <3>1. \A i \in ActionsOf(new, s) :
              Rank(new, s, i) = PlaceIn(ActionsOf(new, s), Keys(new), i)
      <4> HIDE DEF new
      <4> QED
        BY <1>3, RankIsPlace
    <3> HIDE DEF new, A
    <3> QED
      BY <1>2, <3>1
  <2>2. \A i \in A : Rank(tl, s, i) = PlaceIn(A, Keys(tl), i)
    BY RankIsPlace
  <2>3. m = Cardinality(A)
    BY DEF ChainLen
  <2> HIDE DEF new, A, m
  <2> QED
    BY <1>5, <2>1, <2>2, <2>3
<1>7. m \in Nat /\ ChainLen(new, s) = m + 1
  <2>1. DOMAIN tl = 1..n
    BY DEF Sortable
  <2> QED
    BY <1>2, <1>5, <2>1, ChainLenNat DEF ChainLen
<1>8. ChainOrder(new, s)[m + 1] = n + 1
  <2>1. m + 1 \in 1..ChainLen(new, s)
    BY <1>7
  <2>2. /\ ChainOrder(new, s)[m + 1] \in ActionsOf(new, s)
        /\ Rank(new, s, ChainOrder(new, s)[m + 1]) = m + 1
    BY <1>3, <2>1, ChainOrderRanks
  <2> QED
    BY <1>2, <1>3, <1>6, <2>2, RankUnique
<1>9. ASSUME NEW k \in 1..m PROVE ChainEntry(new, s, k) = ChainEntry(tl, s, k)
  <2>1. k \in 1..ChainLen(new, s) /\ k # m + 1
    BY <1>7
  <2>2. /\ ChainOrder(new, s)[k] \in A \cup {n + 1}
        /\ Rank(new, s, ChainOrder(new, s)[k]) = k
    BY <1>2, <1>3, <2>1, ChainOrderRanks
  <2>3. ChainOrder(new, s)[k] \in A /\ Rank(tl, s, ChainOrder(new, s)[k]) = k
    BY <1>6, <2>1, <2>2
  <2>4. ChainOrder(new, s)[k] = ChainOrder(tl, s)[k]
    BY <2>3, ChainOrderRanks, RankUnique
  <2> QED
    BY <1>1, <1>2, <2>3, <2>4 DEF ChainEntry
<1> QED
  BY <1>1, <1>2, <1>7, <1>8, <1>9 DEF ChainEntry

-----------------------------------------------------------------------------
(* What the backend has recorded.  Nothing in the document says which      *)
(* hashes the backend computed, so they are quantified: h[s][k] is the one *)
(* of session s's k-th action.                                             *)

\* A hash is never the sign of an absent or an undecodable field, nor one of the
\* commitments the recorder puts in proof entries.
HashesDecode ==
    \A prior, receipt : ChainHash(prior, receipt) \notin {None, Malformed} \cup Receipt

\* The backend has computed c or taken it from a proof, or an edit has garbled it.
Published(h, c) ==
    \/ c \in Receipt \cup {Malformed}
    \/ \E j \in 1..Len(recorded[None]) : c = ChainHash(None, recorded[None][j])
    \/ \E s \in Session : \E k \in 1..Len(recorded[s]) : c = h[s][k]

\* No edit makes a hash: whatever has been done to the document, its entries
\* carry commitments that the backend wrote.
Witnessed(h) ==
    /\ \A s \in Session : HashesOf(h[s], recorded[s], Len(recorded[s]), None)
    /\ \A i \in DOMAIN timeline : Published(h, timeline[i].commitment)

\* Before any edit each chain is what the backend recorded, in its order.
Faithful(h) ==
    \A s \in Session :
        /\ ChainLen(timeline, s) = Len(recorded[s])
        /\ \A i \in ActionsOf(timeline, s) :
                SortKey(timeline[i]) \in 0..(ChainLen(timeline, s) - 1)
        /\ \A k \in 1..ChainLen(timeline, s) :
                /\ ChainEntry(timeline, s, k).receipt = recorded[s][k]
                /\ ChainEntry(timeline, s, k).prior = h[s][k - 1]
                /\ ChainEntry(timeline, s, k).commitment = h[s][k]

History == \E h : Witnessed(h) /\ (edits = 0 => Faithful(h))

\* Nothing is recorded and nothing is in the timeline.
LEMMA HistoryInit ==
    ASSUME SourceInit
    PROVE  History
<1> DEFINE h == [s \in Session |-> [k \in {0} |-> None]]
<1>1. timeline = <<>> /\ \A s \in Session : recorded[s] = <<>>
  BY DEF SourceInit, OptionalSession
<1>2. Witnessed(h)
  BY <1>1 DEF Witnessed, HashesOf
<1>3. ASSUME NEW s \in Session PROVE ActionsOf(timeline, s) = {} /\ ChainLen(timeline, s) = 0
  <2>1. ActionsOf(timeline, s) = {}
    BY <1>1 DEF ActionsOf
  <2> QED
    BY <2>1, FS_EmptySet DEF ChainLen
<1>4. Faithful(h)
  BY <1>1, <1>3 DEF Faithful
<1> QED
  BY <1>2, <1>4 DEF History

\* The commitment of each entry of an edited document was some entry's before, if
\* it has not been garbled.
LEMMA EditKeepsCommitments ==
    ASSUME SourceTypeOK, NEW new \in Edited(timeline), NEW i \in DOMAIN new
    PROVE  \E j \in DOMAIN timeline :
              new[i].commitment \in {timeline[j].commitment, Malformed}
<1> DEFINE n == Len(timeline)
<1>0. n \in Nat /\ DOMAIN timeline = 1..n /\ \A k \in 1..n : EntryOK(timeline[k])
  BY DEF SourceTypeOK, TimelineOK
<1>1. CASE \E k \in 1..n : new = Without(timeline, k)
  BY <1>0, <1>1 DEF Without
<1>2. CASE \E k \in 1..n : new = Repeated(timeline, k)
  <2>1. PICK k \in 1..n : new = Repeated(timeline, k)
    BY <1>2
  <2>2. i \in 1..(n + 1) /\ new[i] = IF i <= k THEN timeline[i] ELSE timeline[i - 1]
    BY <1>0, <2>1 DEF Repeated
  <2>3. (i <= k => i \in 1..n) /\ (~(i <= k) => i - 1 \in 1..n)
    BY <1>0, <2>2
  <2> QED
    BY <1>0, <2>2, <2>3
<1>3. CASE \E k, l \in 1..n : new = Exchanged(timeline, k, l)
  BY <1>0, <1>3 DEF Exchanged
<1>4. CASE \E k \in 1..n : \E e \in Rewritten(timeline[k]) : new = [timeline EXCEPT ![k] = e]
  <2>1. PICK k \in 1..n : \E e \in Rewritten(timeline[k]) : new = [timeline EXCEPT ![k] = e]
    BY <1>4
  <2>2. PICK e \in Rewritten(timeline[k]) : new = [timeline EXCEPT ![k] = e]
    BY <2>1
  <2>3. DOMAIN timeline[k] = EntryFields
    BY <1>0 DEF EntryOK
  <2>4. e.commitment \in {timeline[k].commitment, Malformed}
    BY <2>2, <2>3 DEF Rewritten, EntryFields
  <2>5. i \in 1..n /\ (i = k => new[i] = e) /\ (i # k => new[i] = timeline[i])
    BY <1>0, <2>2
  <2> QED
    BY <1>0, <2>4, <2>5
<1>5. CASE \E k \in 1..n : new \in Grafted(timeline, k)
  <2>1. PICK k \in 1..n : new \in Grafted(timeline, k)
    BY <1>5
  <2>2. PICK j \in 1..n :
             \E e \in {[timeline[k] EXCEPT !.prior = timeline[j].commitment],
                       [timeline[k] EXCEPT !.commitment = timeline[j].commitment]} :
                new = [timeline EXCEPT ![k] = e]
    BY <1>0, <2>1, GraftExchangesOne
  <2>3. PICK e \in {[timeline[k] EXCEPT !.prior = timeline[j].commitment],
                    [timeline[k] EXCEPT !.commitment = timeline[j].commitment]} :
             new = [timeline EXCEPT ![k] = e]
    BY <2>2
  <2>4. DOMAIN timeline[k] = EntryFields
    BY <1>0 DEF EntryOK
  <2>5. e.commitment \in {timeline[k].commitment, timeline[j].commitment}
    BY <2>3, <2>4 DEF EntryFields
  <2>6. i \in 1..n /\ (i = k => new[i] = e) /\ (i # k => new[i] = timeline[i])
    BY <1>0, <2>3
  <2> QED
    BY <1>0, <2>5, <2>6
<1> QED
  BY <1>0, <1>1, <1>2, <1>3, <1>4, <1>5, EditIsOne

\* An edit moves and overwrites commitments but makes none.
LEMMA HistoryOfEdit ==
    ASSUME SourceTypeOK, History, Edit
    PROVE  History'
<1>1. /\ recorded' = recorded /\ edits' = edits + 1
      /\ timeline' \in Edited(timeline) /\ edits \in Nat
  BY DEF Edit, SourceTypeOK
<1>2. PICK h : Witnessed(h)
  BY DEF History
<1>3. ASSUME NEW i \in DOMAIN timeline'
      PROVE  Published(h, timeline'[i].commitment)
  BY <1>1, <1>2, EditKeepsCommitments DEF Witnessed, Published
<1>4. Witnessed(h)'
  BY <1>1, <1>2, <1>3 DEF Witnessed, Published
<1> QED
  BY <1>1, <1>4 DEF History

\* Check 4 can sort the actions of a timeline.
LEMMA TimelineSortable ==
    ASSUME SourceTypeOK
    PROVE  Len(timeline) \in Nat /\ Sortable(timeline, Len(timeline))
BY DEF SourceTypeOK, TimelineOK, EntryOK, Sortable, SortKey

\* Recording an action of session s: its hash extends the session's.
LEMMA HistoryOfAction ==
    ASSUME SourceTypeOK, History, edits = 0, UNCHANGED edits,
           NEW s \in Session, NEW r \in Receipt, NEW t, RecordAction(s, r, t)
    PROVE  History'
<1> DEFINE n == Len(timeline)
           q == recorded[s]
           m == ChainLen(timeline, s)
<1>. PICK e : e = [kind |-> "action", session |-> s, seq |-> m, ts |-> t,
                   prior |-> LastCommitment(s), receipt |-> r,
                   commitment |-> ChainHash(LastCommitment(s), r)]
  OBVIOUS
<1>0. /\ timeline' = Append(timeline, e)
      /\ recorded' = [recorded EXCEPT ![s] = Append(q, r)]
      /\ recorded \in [OptionalSession -> Seq(Receipt)] /\ s \in OptionalSession /\ s # None
  BY NoneAssumption DEF RecordAction, SourceTypeOK, OptionalSession
<1>1. PICK h : Witnessed(h) /\ Faithful(h)
  BY DEF History
<1>2. n \in Nat /\ Sortable(timeline, n)
  BY TimelineSortable
<1>3. /\ m = Len(q) /\ m \in Nat /\ q \in Seq(Receipt)
      /\ \A i \in ActionsOf(timeline, s) : SortKey(timeline[i]) \in 0..(m - 1)
  BY <1>0, <1>1 DEF Faithful
<1>4. LastCommitment(s) = h[s][m] /\ HashesOf(h[s], q, m, None)
  BY <1>1, <1>3 DEF Faithful, Witnessed, LastCommitment, HashesOf
<1>. PICK g : g = [k \in 0..(m + 1) |-> IF k = m + 1 THEN ChainHash(h[s][m], r) ELSE h[s][k]]
  OBVIOUS
<1>. PICK H : H = [x \in Session |-> IF x = s THEN g ELSE h[x]]
  OBVIOUS
<1>5. /\ recorded'[s] = Append(q, r) /\ Len(recorded'[s]) = m + 1
      /\ recorded'[s][m + 1] = r /\ \A k \in 1..m : recorded'[s][k] = q[k]
      /\ \A x \in Session : x # s => recorded'[x] = recorded[x]
      /\ recorded'[None] = recorded[None]
  BY <1>0, <1>3 DEF OptionalSession
<1>6. IsAction(e) /\ e.session = s /\ SortKey(e) = m /\ e.commitment = g[m + 1]
      /\ e.receipt = r /\ e.prior = h[s][m]
  BY <1>3, <1>4, NoneAssumption DEF IsAction, SortKey
<1>7. HashesOf(g, recorded'[s], m + 1, None)
  <2>1. g[0] = None
    BY <1>3, <1>4 DEF HashesOf
  <2>2. ASSUME NEW k \in 1..(m + 1) PROVE g[k] = <<g[k - 1], recorded'[s][k]>>
    <3>1. CASE k = m + 1
      BY <1>3, <1>5, <3>1 DEF ChainHash
    <3>2. CASE k # m + 1
      <4>1. k \in 1..m /\ g[k] = h[s][k] /\ g[k - 1] = h[s][k - 1]
        BY <1>3, <3>2
      <4> QED
        BY <1>4, <1>5, <4>1 DEF HashesOf
    <3> QED
      BY <3>1, <3>2
  <2> QED
    BY <2>1, <2>2 DEF HashesOf
<1>8. \A x \in Session : HashesOf(H[x], recorded'[x], Len(recorded'[x]), None)
  <2> TAKE x \in Session
  <2>1. CASE x = s
    BY <1>5, <1>7, <2>1
  <2>2. CASE x # s
    BY <1>1, <1>5, <2>2 DEF Witnessed
  <2> QED
    BY <2>1, <2>2
<1>9. ASSUME NEW c, Published(h, c) PROVE Published(H, c)'
  <2>1. CASE \E x \in Session : \E k \in 1..Len(recorded[x]) : c = h[x][k]
    <3>0. PICK x \in Session : \E k \in 1..Len(recorded[x]) : c = h[x][k]
      BY <2>1
    <3>1. PICK k \in 1..Len(recorded[x]) : c = h[x][k]
      BY <3>0
    <3>2. k \in 1..Len(recorded'[x]) /\ H[x][k] = h[x][k]
      <4>1. CASE x = s
        BY <1>3, <1>5, <4>1
      <4>2. CASE x # s
        BY <1>5, <4>2
      <4> QED
        BY <4>1, <4>2
    <3> QED
      BY <3>1, <3>2 DEF Published
  <2> QED
    BY <1>5, <1>9, <2>1 DEF Published
<1>10. Published(H, e.commitment)'
  <2>1. m + 1 \in 1..Len(recorded'[s]) /\ H[s][m + 1] = g[m + 1]
    BY <1>3, <1>5
  <2> QED
    BY <1>6, <2>1 DEF Published
<1>11. /\ DOMAIN timeline' = 1..(n + 1) /\ timeline'[n + 1] = e
       /\ DOMAIN timeline = 1..n /\ \A i \in 1..n : timeline'[i] = timeline[i]
  BY <1>0, <1>2 DEF Sortable
<1>12. Witnessed(H)'
  <2>1. ASSUME NEW i \in DOMAIN timeline'
        PROVE  Published(H, timeline[i].commitment)'
    <3>1. CASE i = n + 1
      BY <1>10, <1>11, <3>1
    <3>2. CASE i # n + 1
      <4>1. i \in 1..n
        BY <1>2, <1>11, <3>2
      <4> QED
        BY <1>1, <1>9, <1>11, <4>1 DEF Witnessed
    <3> QED
      BY <3>1, <3>2
  <2> QED
    BY <1>8, <2>1 DEF Witnessed
<1>13. ASSUME NEW x \in Session
       PROVE  /\ ChainLen(timeline', x) = Len(recorded'[x])
              /\ \A i \in ActionsOf(timeline', x) :
                     SortKey(timeline'[i]) \in 0..(ChainLen(timeline', x) - 1)
              /\ \A k \in 1..ChainLen(timeline', x) :
                     /\ ChainEntry(timeline', x, k).receipt = recorded'[x][k]
                     /\ ChainEntry(timeline', x, k).prior = H[x][k - 1]
                     /\ ChainEntry(timeline', x, k).commitment = H[x][k]
  <2>1. CASE x = s
    <3>1. /\ ChainLen(timeline', s) = m + 1
          /\ ActionsOf(timeline', s) = ActionsOf(timeline, s) \cup {n + 1}
          /\ ChainEntry(timeline', s, m + 1) = e
          /\ \A k \in 1..m : ChainEntry(timeline', s, k) = ChainEntry(timeline, s, k)
      <4>1. \A i \in ActionsOf(timeline, s) : SortKey(timeline[i]) <= SortKey(e)
        BY <1>3, <1>6
      <4>2. SortKey(e) \in Int
        BY <1>3, <1>6
      <4>3. /\ ChainLen(Append(timeline, e), s) = m + 1
            /\ ActionsOf(Append(timeline, e), s) = ActionsOf(timeline, s) \cup {n + 1}
            /\ ChainEntry(Append(timeline, e), s, m + 1) = e
            /\ \A k \in 1..m :
                  ChainEntry(Append(timeline, e), s, k) = ChainEntry(timeline, s, k)
        BY <1>2, <1>6, <4>1, <4>2, ChainGrows
      <4> QED
        BY <1>0, <4>3
    <3>2. \A i \in ActionsOf(timeline', s) : SortKey(timeline'[i]) \in 0..m
      <4>1. \A i \in ActionsOf(timeline, s) : i \in 1..n
        BY <1>11 DEF ActionsOf
      <4>2. \A i \in ActionsOf(timeline, s) : SortKey(timeline'[i]) \in 0..m
        BY <1>3, <1>11, <4>1
      <4>3. SortKey(timeline'[n + 1]) \in 0..m
        BY <1>3, <1>6, <1>11
      <4> QED
        BY <3>1, <4>2, <4>3
    <3>3. ASSUME NEW k \in 1..(m + 1)
          PROVE  /\ ChainEntry(timeline', s, k).receipt = recorded'[s][k]
                 /\ ChainEntry(timeline', s, k).prior = g[k - 1]
                 /\ ChainEntry(timeline', s, k).commitment = g[k]
      <4>1. CASE k = m + 1
        BY <1>3, <1>5, <1>6, <3>1, <4>1
      <4>2. CASE k # m + 1
        <5>1. k \in 1..m /\ g[k] = h[s][k] /\ g[k - 1] = h[s][k - 1]
          BY <1>3, <4>2
        <5> QED
          BY <1>1, <1>5, <3>1, <5>1 DEF Faithful
      <4> QED
        BY <4>1, <4>2
    <3>4. H[s] = g /\ m + 1 - 1 = m
      BY <1>3
    <3>5. ChainLen(timeline', x) = m + 1 /\ Len(recorded'[x]) = m + 1
      BY <1>5, <2>1, <3>1
    <3>6. ChainLen(timeline', x) - 1 = m
      BY <1>3, <3>5
    <3>7. \A i \in ActionsOf(timeline', x) :
              SortKey(timeline'[i]) \in 0..(ChainLen(timeline', x) - 1)
      BY ONLY <2>1, <3>2, <3>6
    <3>8. \A k \in 1..ChainLen(timeline', x) :
              /\ ChainEntry(timeline', x, k).receipt = recorded'[x][k]
              /\ ChainEntry(timeline', x, k).prior = H[x][k - 1]
              /\ ChainEntry(timeline', x, k).commitment = H[x][k]
      BY ONLY <2>1, <3>3, <3>4, <3>5
    <3> QED
      BY ONLY <3>5, <3>7, <3>8
  <2>2. CASE x # s
    <3>1. /\ ChainLen(timeline', x) = ChainLen(timeline, x)
          /\ ActionsOf(timeline', x) = ActionsOf(timeline, x)
          /\ \A k \in 1..ChainLen(timeline, x) :
                 ChainEntry(timeline', x, k) = ChainEntry(timeline, x, k)
      <4>1. ~(IsAction(e) /\ e.session = x)
        BY <2>2
      <4>2. /\ ChainLen(Append(timeline, e), x) = ChainLen(timeline, x)
            /\ ActionsOf(Append(timeline, e), x) = ActionsOf(timeline, x)
            /\ \A k \in 1..ChainLen(timeline, x) :
                  ChainEntry(Append(timeline, e), x, k) = ChainEntry(timeline, x, k)
        BY <1>2, <4>1, OtherChainsStay
      <4> QED
        BY <1>0, <4>2
    <3>2. \A i \in ActionsOf(timeline, x) : timeline'[i] = timeline[i]
      BY <1>11 DEF ActionsOf
    <3>3. H[x] = h[x] /\ recorded'[x] = recorded[x]
      BY <1>5, <2>2
    <3> QED
      BY <1>1, <3>1, <3>2, <3>3 DEF Faithful
  <2> QED
    BY <2>1, <2>2
<1>14. Faithful(H)'
  BY <1>13 DEF Faithful
<1> QED
  BY <1>12, <1>14 DEF History

\* An entry of no session leaves the sessions' hashes alone, when its commitment is
\* a proof's or the hash of a receipt recorded outside any session.
LEMMA HistoryOfOtherEntry ==
    ASSUME SourceTypeOK, History, edits = 0, UNCHANGED edits, NEW e, timeline' = Append(timeline, e),
           e.session = None, \A s \in Session : recorded'[s] = recorded[s],
           \A j \in 1..Len(recorded[None]) :
               j \in 1..Len(recorded'[None]) /\ recorded'[None][j] = recorded[None][j],
           \/ e.commitment \in Receipt
           \/ \E j \in 1..Len(recorded'[None]) :
                  e.commitment = ChainHash(None, recorded'[None][j])
    PROVE  History'
<1> DEFINE n == Len(timeline)
<1>1. PICK h : Witnessed(h) /\ Faithful(h)
  BY DEF History
<1>2. n \in Nat /\ Sortable(timeline, n)
  BY TimelineSortable
<1>3. /\ DOMAIN timeline' = 1..(n + 1) /\ timeline'[n + 1] = e
      /\ DOMAIN timeline = 1..n /\ \A i \in 1..n : timeline'[i] = timeline[i]
  BY <1>2 DEF Sortable
<1>4. ASSUME NEW c, Published(h, c) PROVE Published(h, c)'
  BY <1>4 DEF Published
<1>5. Witnessed(h)'
  <2>1. ASSUME NEW i \in DOMAIN timeline'
        PROVE  Published(h, timeline[i].commitment)'
    <3>1. CASE i = n + 1
      BY <1>3, <3>1 DEF Published
    <3>2. CASE i # n + 1
      <4>1. i \in 1..n
        BY <1>2, <1>3, <3>2
      <4> QED
        BY <1>1, <1>3, <1>4, <4>1 DEF Witnessed
    <3> QED
      BY <3>1, <3>2
  <2> QED
    BY <1>1, <2>1 DEF Witnessed
<1>6. ASSUME NEW x \in Session
      PROVE  /\ ChainLen(timeline', x) = ChainLen(timeline, x)
             /\ ActionsOf(timeline', x) = ActionsOf(timeline, x)
             /\ \A k \in 1..ChainLen(timeline, x) :
                    ChainEntry(timeline', x, k) = ChainEntry(timeline, x, k)
  <2>1. ~(IsAction(e) /\ e.session = x)
    BY NoneAssumption
  <2>2. /\ ChainLen(Append(timeline, e), x) = ChainLen(timeline, x)
        /\ ActionsOf(Append(timeline, e), x) = ActionsOf(timeline, x)
        /\ \A k \in 1..ChainLen(timeline, x) :
              ChainEntry(Append(timeline, e), x, k) = ChainEntry(timeline, x, k)
    BY ONLY <1>2, <2>1, OtherChainsStay
  <2> QED
    BY <2>2
<1>7. \A x \in Session : \A i \in ActionsOf(timeline, x) : timeline'[i] = timeline[i]
  BY <1>3 DEF ActionsOf
<1>8. ASSUME NEW x \in Session
      PROVE  /\ ChainLen(timeline', x) = Len(recorded'[x])
             /\ \A i \in ActionsOf(timeline', x) :
                    SortKey(timeline'[i]) \in 0..(ChainLen(timeline', x) - 1)
             /\ \A k \in 1..ChainLen(timeline', x) :
                    /\ ChainEntry(timeline', x, k).receipt = recorded'[x][k]
                    /\ ChainEntry(timeline', x, k).prior = h[x][k - 1]
                    /\ ChainEntry(timeline', x, k).commitment = h[x][k]
  <2>1. recorded'[x] = recorded[x]
    OBVIOUS
  <2>2. /\ ChainLen(timeline', x) = ChainLen(timeline, x)
        /\ ActionsOf(timeline', x) = ActionsOf(timeline, x)
        /\ \A k \in 1..ChainLen(timeline, x) :
               ChainEntry(timeline', x, k) = ChainEntry(timeline, x, k)
    BY <1>6
  <2>3. \A i \in ActionsOf(timeline, x) : timeline'[i] = timeline[i]
    BY <1>7
  <2>4. /\ ChainLen(timeline, x) = Len(recorded[x])
        /\ \A i \in ActionsOf(timeline, x) :
               SortKey(timeline[i]) \in 0..(ChainLen(timeline, x) - 1)
        /\ \A k \in 1..ChainLen(timeline, x) :
               /\ ChainEntry(timeline, x, k).receipt = recorded[x][k]
               /\ ChainEntry(timeline, x, k).prior = h[x][k - 1]
               /\ ChainEntry(timeline, x, k).commitment = h[x][k]
    BY <1>1 DEF Faithful
  <2> QED
    BY ONLY <2>1, <2>2, <2>3, <2>4
<1>9. Faithful(h)'
  BY <1>8 DEF Faithful
<1> QED
  BY <1>5, <1>9 DEF History

\* Whatever the backend records, its hash extends those published before.
LEMMA HistoryOfRecord ==
    ASSUME SourceTypeOK, History, Record
    PROVE  History'
<1>1. edits = 0 /\ UNCHANGED edits
  BY DEF Record
<1>2. PICK r \in Receipt, t \in ClockReadings :
          \/ \E s \in Session : RecordAction(s, r, t)
          \/ RecordLooseAction(r, t)
          \/ RecordProof(r, t)
  BY DEF Record
<1>3. recorded \in [OptionalSession -> Seq(Receipt)] /\ recorded[None] \in Seq(Receipt)
  BY DEF SourceTypeOK, OptionalSession
<1>4. CASE \E s \in Session : RecordAction(s, r, t)
  BY <1>1, <1>4, HistoryOfAction
<1>5. CASE RecordLooseAction(r, t)
  <2> DEFINE e == [kind |-> "action", session |-> None, seq |-> None, ts |-> t,
                   prior |-> None, receipt |-> r, commitment |-> ChainHash(None, r)]
             q == recorded[None]
  <2>1. /\ timeline' = Append(timeline, e)
        /\ recorded' = [recorded EXCEPT ![None] = Append(q, r)]
    BY <1>5 DEF RecordLooseAction
  <2>2. /\ \A s \in Session : recorded'[s] = recorded[s]
        /\ recorded'[None] = Append(q, r)
    BY <1>3, <2>1, NoneAssumption DEF OptionalSession
  <2>3. /\ Len(q) \in Nat /\ Len(recorded'[None]) = Len(q) + 1
        /\ recorded'[None][Len(q) + 1] = r
        /\ \A j \in 1..Len(q) : recorded'[None][j] = q[j]
    BY <1>3, <2>2
  <2>4. \E j \in 1..Len(recorded'[None]) : e.commitment = ChainHash(None, recorded'[None][j])
    <3>1. e.commitment = ChainHash(None, recorded'[None][Len(q) + 1])
      BY <2>3
    <3>2. Len(q) + 1 \in 1..Len(recorded'[None])
      BY <2>3
    <3> QED
      BY <3>1, <3>2
  <2>5. \A j \in 1..Len(q) : j \in 1..Len(recorded'[None]) /\ recorded'[None][j] = q[j]
    BY <2>3
  <2>6. e.session = None
    OBVIOUS
  <2> HIDE DEF e
  <2> QED
    BY <1>1, <2>1, <2>2, <2>4, <2>5, <2>6, HistoryOfOtherEntry
<1>6. CASE RecordProof(r, t)
  <2> DEFINE e == [kind |-> "proof", session |-> None, seq |-> None, ts |-> t,
                   prior |-> None, receipt |-> r, commitment |-> r]
  <2>1. timeline' = Append(timeline, e) /\ recorded' = recorded
    BY <1>6 DEF RecordProof
  <2>2. e.session = None /\ e.commitment \in Receipt
    OBVIOUS
  <2> HIDE DEF e
  <2> QED
    BY <1>1, <2>1, <2>2, HistoryOfOtherEntry
<1> QED
  BY <1>2, <1>4, <1>5, <1>6

\* Handing the document over leaves its history alone.
LEMMA HistoryStays ==
    ASSUME History, UNCHANGED <<recorded, timeline, edits>>
    PROVE  History'
<1>1. PICK h : Witnessed(h) /\ (edits = 0 => Faithful(h))
  BY DEF History
<1>2. Witnessed(h)'
  BY <1>1 DEF Witnessed, Published
<1>3. edits' = 0 => Faithful(h)'
  BY <1>1 DEF Faithful
<1> QED
  BY <1>2, <1>3 DEF History

-----------------------------------------------------------------------------
(* The loop over by_session has finitely many rounds.                      *)

\* The actions of a timeline belong to finitely many sessions.
LEMMA SessionsFinite ==
    ASSUME TimelineOK
    PROVE  IsFiniteSet(SessionsOf(timeline))
<1> DEFINE A == {i \in 1..Len(timeline) : IsAction(timeline[i]) /\ timeline[i].session \in Session}
           f == [i \in A |-> timeline[i].session]
<1>1. Len(timeline) \in Nat /\ DOMAIN timeline = 1..Len(timeline)
  BY DEF TimelineOK
<1>2. IsFiniteSet(A)
  <2>1. IsFiniteSet(1..Len(timeline)) /\ A \in SUBSET (1..Len(timeline))
    BY <1>1, FS_Interval
  <2> HIDE DEF A
  <2> QED
    BY <2>1, FS_Subset
<1>3. f \in Surjection(A, SessionsOf(timeline))
  <2>1. f \in [A -> SessionsOf(timeline)]
    BY <1>1 DEF SessionsOf, ActionsOf
  <2>2. \A s \in SessionsOf(timeline) : \E i \in A : f[i] = s
    BY <1>1 DEF SessionsOf, ActionsOf
  <2> HIDE DEF f, A
  <2> QED
    BY <2>1, <2>2 DEF Surjection
<1> HIDE DEF f, A
<1> QED
  BY <1>2, <1>3, FS_Surjection
=============================================================================
