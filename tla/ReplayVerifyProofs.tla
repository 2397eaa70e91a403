------------------------- MODULE ReplayVerifyProofs -------------------------
(***************************************************************************)
(* Proofs about verify for bundles of any size, any number of edits of the *)
(* document and of the files, and any number of invocations.  ReportInv    *)
(* says what the report holds at every point of an invocation, and what    *)
(* earlier reports held; BindInv, where the hash of each binding comes     *)
(* from; UntouchedInv, what holds of a bundle until somebody edits it.     *)
(***************************************************************************)
EXTENDS ReplayVerify, HashChainProofs, SequenceTheorems

-----------------------------------------------------------------------------
(* Sequences, whatever they hold.                                          *)

IsSequence(sq) == sq \in Seq(ToSet(sq))

\* A sequence over any set is one over its own items.
LEMMA IsSequenceOver ==
    ASSUME NEW S, NEW sq \in Seq(S)
    PROVE  IsSequence(sq)
<1>1. /\ Len(sq) \in Nat /\ sq \in [1..Len(sq) -> S] /\ DOMAIN sq = 1..Len(sq)
  BY LenProperties
<1>2. sq \in [1..Len(sq) -> ToSet(sq)]
  BY <1>1 DEF ToSet
<1> QED
  BY <1>1, <1>2, SeqDef DEF IsSequence

\* The domain of a sequence.
LEMMA SequenceDomain ==
    ASSUME NEW sq, IsSequence(sq)
    PROVE  Len(sq) \in Nat /\ DOMAIN sq = 1..Len(sq)
BY LenProperties DEF IsSequence

\* Appending an item keeps a sequence, and adds no other item.
LEMMA Appended ==
    ASSUME NEW sq, IsSequence(sq), NEW x
    PROVE  IsSequence(Append(sq, x))
<1> DEFINE S == ToSet(sq) \cup {x}
<1>1. sq \in Seq(S)
  BY SeqMonotonic DEF IsSequence
<1>2. Append(sq, x) \in Seq(S)
  BY <1>1
<1> QED
  BY <1>2, IsSequenceOver

\* Concatenation keeps sequences.
LEMMA Concatenated ==
    ASSUME NEW s, NEW t, IsSequence(s), IsSequence(t)
    PROVE  IsSequence(s \o t)
<1> DEFINE S == ToSet(s) \cup ToSet(t)
<1>1. s \in Seq(S) /\ t \in Seq(S)
  BY SeqMonotonic DEF IsSequence
<1>2. s \o t \in Seq(S)
  BY <1>1, ConcatProperties
<1> QED
  BY <1>2, IsSequenceOver

\* Concatenation adds no item.
LEMMA ConcatenatedSet ==
    ASSUME NEW s, NEW t, IsSequence(s), IsSequence(t)
    PROVE  ToSet(s \o t) = ToSet(s) \cup ToSet(t)
<1> DEFINE S == ToSet(s) \cup ToSet(t)
<1>1. s \in Seq(S) /\ t \in Seq(S)
  BY SeqMonotonic DEF IsSequence
<1>2. /\ s \o t \in Seq(S)
      /\ Len(s \o t) = Len(s) + Len(t)
      /\ \A i \in 1..Len(s) + Len(t) :
            (s \o t)[i] = IF i <= Len(s) THEN s[i] ELSE t[i - Len(s)]
  BY <1>1, ConcatProperties
<1>3. /\ Len(s) \in Nat /\ DOMAIN s = 1..Len(s) /\ Len(t) \in Nat /\ DOMAIN t = 1..Len(t)
      /\ DOMAIN (s \o t) = 1..Len(s) + Len(t)
  BY <1>2, SequenceDomain, LenProperties
<1>4. ToSet(s \o t) \subseteq S
  BY <1>2, <1>3 DEF ToSet
<1>5. \A i \in DOMAIN s : i \in DOMAIN (s \o t) /\ (s \o t)[i] = s[i]
  BY <1>2, <1>3
<1>6. \A i \in DOMAIN t : i + Len(s) \in DOMAIN (s \o t) /\ (s \o t)[i + Len(s)] = t[i]
  BY <1>2, <1>3
<1>7. ToSet(s) \subseteq ToSet(s \o t)
  BY <1>5 DEF ToSet
<1>8. ToSet(t) \subseteq ToSet(s \o t)
  BY <1>6 DEF ToSet
<1> QED
  BY <1>4, <1>7, <1>8

\* What an edit leaves of a sequence is a sequence.
LEMMA AlteredIsSequence ==
    ASSUME NEW sq, IsSequence(sq), NEW to, NEW new \in Altered(sq, to)
    PROVE  IsSequence(new)
<1>0. Len(sq) \in Nat /\ DOMAIN sq = 1..Len(sq)
  BY SequenceDomain
<1> DEFINE Removed == {RemoveAt(sq, i) : i \in DOMAIN sq}
           Added == UNION {{Append(sq, x) : x \in {sq[i]} \cup to[sq[i]]} : i \in DOMAIN sq}
           Changed == UNION {{[sq EXCEPT ![i] = x] : x \in to[sq[i]]} : i \in DOMAIN sq}
<1>1. CASE \E i \in DOMAIN sq : new = RemoveAt(sq, i)
  <2>1. PICK i \in DOMAIN sq : new = RemoveAt(sq, i)
    BY <1>1
  <2>2. \A k \in 1..(i - 1) : sq[k] \in ToSet(sq)
    BY <1>0, <2>1 DEF ToSet
  <2>3. \A k \in (i + 1)..Len(sq) : sq[k] \in ToSet(sq)
    BY <1>0, <2>1 DEF ToSet
  <2>4. SubSeq(sq, 1, i - 1) \in Seq(ToSet(sq))
    BY <1>0, <2>1, <2>2, SubSeqProperties
  <2>5. SubSeq(sq, i + 1, Len(sq)) \in Seq(ToSet(sq))
    BY <1>0, <2>1, <2>3, SubSeqProperties
  <2>6. new \in Seq(ToSet(sq))
    BY <2>1, <2>4, <2>5, ConcatProperties DEF RemoveAt
  <2> QED
    BY <2>6, IsSequenceOver
<1>2. CASE \E x : new = Append(sq, x)
  BY <1>2, Appended
<1>3. CASE \E i \in DOMAIN sq : \E x : new = [sq EXCEPT ![i] = x]
  <2>0. PICK i \in DOMAIN sq : \E x : new = [sq EXCEPT ![i] = x]
    BY <1>3
  <2>1. PICK x : new = [sq EXCEPT ![i] = x]
    BY <2>0
  <2> DEFINE S == ToSet(sq) \cup {x}
  <2>2. sq \in Seq(S)
    BY SeqMonotonic DEF IsSequence
  <2>3. new \in Seq(S)
    BY <1>0, <2>1, <2>2, ExceptSeq
  <2> QED
    BY <2>3, IsSequenceOver
<1>4. CASE new \in Removed
  BY <1>1, <1>4
<1>5. CASE new \in Added
  <2>1. PICK i \in DOMAIN sq : new \in {Append(sq, x) : x \in {sq[i]} \cup to[sq[i]]}
    BY <1>5
  <2> QED
    BY <1>2, <2>1
<1>6. CASE new \in Changed
  <2>1. PICK i \in DOMAIN sq : new \in {[sq EXCEPT ![i] = x] : x \in to[sq[i]]}
    BY <1>6
  <2> QED
    BY <1>3, <2>1
<1>7. Altered(sq, to) = Removed \cup Added \cup Changed
  BY DEF Altered
<1> HIDE DEF Removed, Added, Changed
<1> QED
  BY <1>4, <1>5, <1>6, <1>7

-----------------------------------------------------------------------------
(* The document: frames and evidence stay sequences.                       *)

BundleFields ==
    {"version", "tenant", "case", "meta", "continuity", "ordered", "linked", "governance",
     "entries", "agents", "frames", "evidence", "bindings", "refs"}

BundleOK(b) == /\ DOMAIN b = BundleFields
               /\ IsSequence(b.frames) /\ IsSequence(b.evidence)

\* The lists of a new bundle are sequences.
LEMMA NewBundleOK ==
    ASSUME ExportInit
    PROVE  BundleOK(bundle)
<1>1. PICK t \in Tenant, c \in Case : bundle = NewBundle(t, c)
  BY DEF ExportInit
<1>2. IsSequence(<<>>)
  BY EmptySeq DEF IsSequence
<1> QED
  BY <1>1, <1>2 DEF BundleOK, BundleFields, NewBundle

\* Recording touches frames and evidence only to append to them.
LEMMA RecordKeepsBundle ==
    ASSUME BundleOK(bundle), Record
    PROVE  BundleOK(bundle')
<1> USE DEF BundleOK, BundleFields
<1>1. CASE \E kind, agent : RecordEntry(kind, agent)
  BY <1>1 DEF RecordEntry
<1>2. CASE \E blob : RecordFrame(blob)
  BY <1>2, Appended DEF RecordFrame
<1>3. CASE \E blob : RecordEvidence(blob)
  BY <1>3, Appended DEF RecordEvidence
<1>4. CASE \E t, c, actor, attrs : RecordBinding(t, c, actor, attrs)
  BY <1>4 DEF RecordBinding
<1>5. CASE \E governance, ordered : ExportBundle(governance, ordered)
  BY <1>5 DEF ExportBundle
<1> QED
  BY <1>1, <1>2, <1>3, <1>4, <1>5 DEF Record

\* No edit makes anything else of these lists.
LEMMA EditKeepsBundle ==
    ASSUME BundleOK(bundle), Edit
    PROVE  BundleOK(bundle')
<1>1. CASE bundle' \in AlteredEnvelope
  BY <1>1 DEF AlteredEnvelope, BundleOK, BundleFields
<1>2. CASE bundle' \in AlteredContent
  BY <1>2 DEF AlteredContent, BundleOK, BundleFields
<1>3. CASE bundle' \in AlteredEntries
  <2>1. \E es : bundle' = [bundle EXCEPT !.entries = es]
    BY <1>3 DEF AlteredEntries
  <2> QED
    BY <2>1 DEF BundleOK, BundleFields
<1>4. CASE bundle' \in AlteredBindings
  <2>1. \E bs : bundle' = [bundle EXCEPT !.bindings = bs]
    BY <1>4 DEF AlteredBindings
  <2> QED
    BY <2>1 DEF BundleOK, BundleFields
<1>5. CASE bundle' \in AlteredSealed
  <2>1. \/ \E to : \E fs \in Altered(bundle.frames, to) :
                bundle' = [bundle EXCEPT !.frames = fs]
        \/ \E to : \E es \in Altered(bundle.evidence, to) :
                bundle' = [bundle EXCEPT !.evidence = es]
    BY <1>5 DEF AlteredSealed
  <2>2. \/ \E fs : IsSequence(fs) /\ bundle' = [bundle EXCEPT !.frames = fs]
        \/ \E es : IsSequence(es) /\ bundle' = [bundle EXCEPT !.evidence = es]
    BY <2>1, AlteredIsSequence DEF BundleOK
  <2> QED
    BY <2>2 DEF BundleOK, BundleFields
<1> QED
  BY <1>1, <1>2, <1>3, <1>4, <1>5 DEF Edit

\* Nor does any other step of the bundle's source.
LEMMA ExportKeepsBundle ==
    ASSUME BundleOK(bundle), Record \/ Edit \/ ChangeFile
    PROVE  BundleOK(bundle')
BY RecordKeepsBundle, EditKeepsBundle DEF ChangeFile

\* The items check 3 walks are a sequence.
LEMMA SealedIsSequence ==
    ASSUME BundleOK(bundle)
    PROVE  Len(Sealed) \in Nat /\ DOMAIN Sealed = 1..Len(Sealed)
<1> DEFINE fs == [i \in DOMAIN bundle.frames |-> [blob |-> bundle.frames[i].blob,
                                                 root |-> bundle.frames[i].root]]
<1>1. Len(bundle.frames) \in Nat /\ DOMAIN bundle.frames = 1..Len(bundle.frames)
  BY SequenceDomain DEF BundleOK
<1>2. fs \in [1..Len(bundle.frames) -> {fs[i] : i \in 1..Len(bundle.frames)}]
  BY <1>1
<1>3. fs \in Seq({fs[i] : i \in 1..Len(bundle.frames)})
  BY <1>1, <1>2, SeqDef
<1>4. IsSequence(fs)
  BY <1>3, IsSequenceOver
<1>5. IsSequence(Sealed)
  <2> HIDE DEF fs
  <2>1. IsSequence(fs \o bundle.evidence)
    BY <1>4, Concatenated DEF BundleOK
  <2> USE DEF fs
  <2> QED
    BY <2>1 DEF Sealed
<1> QED
  BY <1>5, SequenceDomain

-----------------------------------------------------------------------------
(* What a report holds, as a function of the bundle, of the options and of *)
(* the result of check 3.                                                  *)

RefsRegistered == bundle.refs = {"registered"}

AuthorityIn(strict) ==
    bundle.governance \in {"unclaimed", "sound"} \cup (IF strict THEN {} ELSE {"absent"})

ModeIn(strict) ==
    IF AuthorityIn(strict) THEN None
    ELSE IF bundle.governance = "temporal" THEN "temporal_violation"
    ELSE "chain_integrity_violation"

Eleven(third, authority) ==
    <<SchemaParse, bundle.ordered, third, bundle.linked, FrameRefsResolve,
      bundle.continuity, NoOrphans, RefsRegistered, SameScope, SubstrateBindings,
      authority>>

AllPass(results) == FALSE \notin ToSet(results)

ReportOf(results, mode, warned) ==
    [passed |-> AllPass(results), checks |-> results, mode |-> mode, warned |-> warned]

FullReport(o, third) ==
    ReportOf(Eleven(third, AuthorityIn(o.strict)), ModeIn(o.strict), ~o.payloads /\ ~o.strict)

\* Tuples of the lengths that are met here are sequences.
LEMMA TupleIsSequence ==
    /\ \A a, b : IsSequence(<<a, b>>)
    /\ \A a : IsSequence(<<a>>)
    /\ \A a, b, c : IsSequence(<<a, b, c>>)
    /\ \A a, b, c, d, e, f, g, h : IsSequence(<<a, b, c, d, e, f, g, h>>)
<1>1. ASSUME NEW a, NEW b PROVE IsSequence(<<a, b>>)
  <2>1. <<a, b>> \in Seq({a, b})
    OBVIOUS
  <2> QED
    BY <2>1, IsSequenceOver
<1>2. ASSUME NEW a PROVE IsSequence(<<a>>)
  <2>1. <<a>> \in Seq({a})
    OBVIOUS
  <2> QED
    BY <2>1, IsSequenceOver
<1>3. ASSUME NEW a, NEW b, NEW c PROVE IsSequence(<<a, b, c>>)
  <2>1. <<a, b, c>> \in Seq({a, b, c})
    OBVIOUS
  <2> QED
    BY <2>1, IsSequenceOver
<1>4. ASSUME NEW a, NEW b, NEW c, NEW d, NEW e, NEW f, NEW g, NEW h
      PROVE  IsSequence(<<a, b, c, d, e, f, g, h>>)
  <2>1. <<a, b, c, d, e, f, g, h>> \in Seq({a, b, c, d, e, f, g, h})
    OBVIOUS
  <2> QED
    BY <2>1, IsSequenceOver
<1> QED
  BY <1>1, <1>2, <1>3, <1>4

\* record adds results to a report whose verdict is that of the results so far.
LEMMA RecordedIsReport ==
    ASSUME NEW old, IsSequence(old), NEW results, IsSequence(results), NEW mode, NEW warned
    PROVE  Recorded(ReportOf(old, mode, warned), results)
                = ReportOf(old \o results, mode, warned)
<1>1. AllPass(old \o results) = IF FALSE \in ToSet(results) THEN FALSE ELSE AllPass(old)
  BY ConcatenatedSet DEF AllPass
<1>2. CASE FALSE \in ToSet(results)
  <2>1. AllPass(old \o results) = FALSE
    BY <1>1, <1>2
  <2>2. Recorded(ReportOf(old, mode, warned), results)
            = [ReportOf(old, mode, warned) EXCEPT !.checks = @ \o results, !.passed = FALSE]
    BY <1>2 DEF Recorded
  <2> QED
    BY <2>1, <2>2 DEF ReportOf
<1>3. CASE FALSE \notin ToSet(results)
  <2>1. AllPass(old \o results) = AllPass(old)
    BY <1>1, <1>3
  <2>2. Recorded(ReportOf(old, mode, warned), results)
            = [ReportOf(old, mode, warned) EXCEPT !.checks = @ \o results, !.passed = @]
    BY <1>3 DEF Recorded
  <2> QED
    BY <2>1, <2>2 DEF ReportOf
<1> QED
  BY <1>2, <1>3

\* The report before the first result.
LEMMA EmptyIsReport == NewReport = ReportOf(<<>>, None, FALSE)
<1>1. AllPass(<<>>) = TRUE
  BY DEF AllPass, ToSet
<1> QED
  BY <1>1 DEF NewReport, ReportOf

\* A concatenation, from its items.
LEMMA JoinIs ==
    ASSUME NEW S, NEW s \in Seq(S), NEW t \in Seq(S), NEW all \in Seq(S),
           Len(all) = Len(s) + Len(t),
           \A i \in 1..Len(s) : all[i] = s[i],
           \A i \in 1..Len(t) : all[i + Len(s)] = t[i]
    PROVE  s \o t = all
<1>1. /\ s \o t \in Seq(S) /\ Len(s \o t) = Len(s) + Len(t)
      /\ \A i \in 1..Len(s) + Len(t) :
            (s \o t)[i] = IF i <= Len(s) THEN s[i] ELSE t[i - Len(s)]
  BY ConcatProperties
<1>2. Len(s) \in Nat /\ Len(t) \in Nat
  BY LenProperties
<1>3. ASSUME NEW i \in 1..Len(s) + Len(t) PROVE (s \o t)[i] = all[i]
  <2>1. CASE i <= Len(s)
    BY <1>1, <1>2, <2>1
  <2>2. CASE ~(i <= Len(s))
    <3>1. i - Len(s) \in 1..Len(t) /\ (i - Len(s)) + Len(s) = i
      BY <1>2, <2>2
    <3>2. all[(i - Len(s)) + Len(s)] = t[i - Len(s)]
      BY <3>1
    <3> QED
      BY <1>1, <2>2, <3>1, <3>2
  <2> QED
    BY <2>1, <2>2
<1> QED
  BY <1>1, <1>3, SeqEqual

\* Nothing before the rest.
LEMMA NoneJoined ==
    ASSUME NEW a1, NEW a2
    PROVE  <<>> \o <<a1, a2>> = <<a1, a2>>
<1>1. <<a1, a2>> \in Seq({a1, a2})
  OBVIOUS
<1> QED
  BY <1>1, ConcatEmptySeq

\* The first three results, with check 3's.
LEMMA ThreeJoined ==
    ASSUME NEW a1, NEW a2, NEW a3
    PROVE  <<a1, a2>> \o <<a3>> = <<a1, a2, a3>>
<1> DEFINE S == {a1, a2, a3}
           s == <<a1, a2>>
           t == <<a3>>
           all == <<a1, a2, a3>>
<1>1. s \in Seq(S) /\ t \in Seq(S) /\ all \in Seq(S)
  OBVIOUS
<1>2. Len(s) = 2 /\ Len(t) = 1 /\ Len(all) = 3
  OBVIOUS
<1>3. /\ \A i \in 1..2 : all[i] = s[i]
      /\ \A i \in 1..1 : all[i + 2] = t[i]
  OBVIOUS
<1> HIDE DEF S, s, t, all
<1>4. /\ Len(all) = Len(s) + Len(t)
      /\ \A i \in 1..Len(s) : all[i] = s[i]
      /\ \A i \in 1..Len(t) : all[i + Len(s)] = t[i]
  BY <1>2, <1>3
<1>5. s \o t = all
  BY <1>1, <1>4, JoinIs
<1> QED
  BY <1>5 DEF s, t, all

\* All eleven results, from the first three and the rest.
LEMMA ElevenJoined ==
    ASSUME NEW a1, NEW a2, NEW a3, NEW a4, NEW a5, NEW a6, NEW a7, NEW a8, NEW a9, NEW a10,
           NEW a11
    PROVE  <<a1, a2, a3>> \o <<a4, a5, a6, a7, a8, a9, a10, a11>>
                = <<a1, a2, a3, a4, a5, a6, a7, a8, a9, a10, a11>>
<1> DEFINE S == {a1, a2, a3, a4, a5, a6, a7, a8, a9, a10, a11}
           s == <<a1, a2, a3>>
           t == <<a4, a5, a6, a7, a8, a9, a10, a11>>
           all == <<a1, a2, a3, a4, a5, a6, a7, a8, a9, a10, a11>>
<1>1. s \in Seq(S) /\ t \in Seq(S) /\ all \in Seq(S)
  OBVIOUS
<1>2. Len(s) = 3 /\ Len(t) = 8 /\ Len(all) = 11
  OBVIOUS
<1>3. /\ \A i \in 1..3 : all[i] = s[i]
      /\ \A i \in 1..8 : all[i + 3] = t[i]
  OBVIOUS
<1> HIDE DEF S, s, t, all
<1>4. /\ Len(all) = Len(s) + Len(t)
      /\ \A i \in 1..Len(s) : all[i] = s[i]
      /\ \A i \in 1..Len(t) : all[i + Len(s)] = t[i]
  BY <1>2, <1>3
<1>5. s \o t = all
  BY <1>1, <1>4, JoinIs
<1> QED
  BY <1>5 DEF s, t, all

\* The items of eleven results.
LEMMA ElevenSet ==
    ASSUME NEW a1, NEW a2, NEW a3, NEW a4, NEW a5, NEW a6, NEW a7, NEW a8, NEW a9, NEW a10,
           NEW a11
    PROVE  ToSet(<<a1, a2, a3, a4, a5, a6, a7, a8, a9, a10, a11>>)
                = {a1, a2, a3, a4, a5, a6, a7, a8, a9, a10, a11}
BY DEF ToSet

-----------------------------------------------------------------------------
(* The invariant of an invocation.                                         *)

BlobsHold == \A i \in DOMAIN Sealed : BlobHolds(Sealed[i])

\* What check 3 says: without the payloads the option decides, with them the files,
\* as long as none has changed.
ThirdOK(o, third) ==
    /\ third \in BOOLEAN
    /\ ~o.payloads => third = ~o.strict
    /\ (o.payloads /\ writes = 0) => third = BlobsHold

FirstThree(third) == <<SchemaParse, bundle.ordered, third>>

EarlierInv ==
    /\ IsSequence(earlier)
    /\ \A i \in DOMAIN earlier :
        /\ earlier[i].opts \in Options /\ earlier[i].opts.payloads = opts.payloads
        /\ \E third \in BOOLEAN : /\ earlier[i].report = FullReport(earlier[i].opts, third)
                                  /\ ThirdOK(earlier[i].opts, third)

StateInv ==
    /\ BundleOK(bundle) /\ opts \in Options
    /\ at \in {"idle", "blobs", "rest", "done"}
    /\ next \in Nat \ {0} /\ writes \in Nat

ReportInv ==
    /\ at = "blobs" =>
        /\ report = ReportOf(<<SchemaParse, bundle.ordered>>, None, FALSE)
        /\ (opts.payloads /\ writes = 0) => \A i \in 1..(next - 1) : BlobHolds(Sealed[i])
    /\ at = "rest" =>
        \E third \in BOOLEAN :
            /\ report = ReportOf(FirstThree(third), None, ~opts.payloads /\ ~opts.strict)
            /\ ThirdOK(opts, third)
    /\ at = "done" =>
        \E third \in BOOLEAN : report = FullReport(opts, third) /\ ThirdOK(opts, third)

RunInv == StateInv /\ ReportInv /\ EarlierInv

\* No invocation has begun.
LEMMA RunInvInit == Init => RunInv
<1> SUFFICES ASSUME Init PROVE RunInv
  OBVIOUS
<1>1. BundleOK(bundle)
  BY NewBundleOK DEF Init
<1>2. IsSequence(earlier) /\ DOMAIN earlier = {}
  BY EmptySeq DEF Init, IsSequence
<1>3. opts \in Options
  BY DEF Init, Options
<1> QED
  BY <1>1, <1>2, <1>3 DEF Init, RunInv, StateInv, ReportInv, EarlierInv

\* What the report says depends on the document and the options only, check 3 apart.
LEMMA DocumentFrame ==
    ASSUME bundle' = bundle
    PROVE  /\ \A o, third : FullReport(o, third)' = FullReport(o, third)
           /\ \A third : FirstThree(third)' = FirstThree(third)
           /\ SchemaParse' = SchemaParse /\ Sealed' = Sealed
BY DEF FullReport, ReportOf, Eleven, FirstThree, SchemaParse, FrameRefsResolve, NoOrphans,
       RefsRegistered, SameScope, SubstrateBindings, AuthorityIn, ModeIn, Sealed, BindingHolds

\* Blobs hold or fail by document, directory and files alone.
LEMMA FilesFrame ==
    ASSUME bundle' = bundle, files' = files, writes' = writes
    PROVE  /\ BlobsHold' = BlobsHold
           /\ \A o, third : ThirdOK(o, third)' = ThirdOK(o, third)
           /\ \A i : BlobHolds(Sealed[i])' = BlobHolds(Sealed[i])
<1>1. Sealed' = Sealed
  BY DocumentFrame
<1>2. BlobsHold' = BlobsHold
  BY <1>1 DEF BlobsHold, BlobHolds
<1> QED
  BY <1>1, <1>2 DEF ThirdOK, BlobHolds

\* Earlier reports stay what they were.
LEMMA EarlierStays ==
    ASSUME EarlierInv, bundle' = bundle, earlier' = earlier,
           earlier # <<>> => opts'.payloads = opts.payloads,
           (files' = files /\ writes' = writes) \/ writes' \in Nat \ {0}
    PROVE  EarlierInv'
<1>1. \A o, third : FullReport(o, third)' = FullReport(o, third)
  BY DocumentFrame
<1>2. \A o, third : ThirdOK(o, third) => ThirdOK(o, third)'
  <2>1. CASE files' = files /\ writes' = writes
    BY <2>1, FilesFrame
  <2>2. CASE writes' \in Nat \ {0}
    BY <2>2 DEF ThirdOK
  <2> QED
    BY <2>1, <2>2
<1>3. DOMAIN earlier # {} => earlier # <<>>
  OBVIOUS
<1>4. ASSUME NEW i \in DOMAIN earlier
      PROVE  /\ earlier[i].opts \in Options /\ earlier[i].opts.payloads = opts'.payloads
             /\ \E third \in BOOLEAN :
                    /\ earlier[i].report = FullReport(earlier[i].opts, third)'
                    /\ ThirdOK(earlier[i].opts, third)'
  <2>1. PICK third \in BOOLEAN : /\ earlier[i].report = FullReport(earlier[i].opts, third)
                                 /\ ThirdOK(earlier[i].opts, third)
    BY DEF EarlierInv
  <2>2. opts'.payloads = opts.payloads
    BY <1>3
  <2> QED
    BY <1>1, <1>2, <2>1, <2>2 DEF EarlierInv
<1> QED
  BY <1>4 DEF EarlierInv

\* Before the first invocation the document and the files may change.
LEMMA PrepareKeeps ==
    ASSUME RunInv, Prepare
    PROVE  RunInv'
<1>1. /\ at = "idle" /\ earlier = <<>> /\ UNCHANGED <<opts, at, next, report, earlier, writes>>
      /\ Record \/ Edit \/ ChangeFile
  BY DEF Prepare, runVars
<1>2. BundleOK(bundle)'
  BY <1>1, ExportKeepsBundle DEF RunInv, StateInv, BundleOK
<1>3. IsSequence(earlier)' /\ DOMAIN earlier' = {}
  BY <1>1, EmptySeq DEF IsSequence
<1> QED
  BY <1>1, <1>2, <1>3 DEF RunInv, StateInv, ReportInv, EarlierInv

\* A file changes under an invocation, or between two.
LEMMA DisturbKeeps ==
    ASSUME RunInv, Disturb
    PROVE  RunInv'
<1>1. /\ UNCHANGED <<opts, at, next, report, earlier, bundle>> /\ at \in {"idle", "blobs"}
      /\ writes' = writes + 1 /\ writes' \in Nat \ {0}
  BY DEF Disturb, ReadingBlobs, ChangeFile, runVars, RunInv, StateInv
<1>2. EarlierInv'
  BY <1>1, EarlierStays DEF RunInv
<1>3. SchemaParse' = SchemaParse
  BY <1>1, DocumentFrame
<1> QED
  BY <1>1, <1>2, <1>3 DEF RunInv, StateInv, ReportInv

\* Checks 1 and 2 put their results first.
LEMMA StartKeeps ==
    ASSUME RunInv, NEW o \in Options, Start(o)
    PROVE  RunInv'
<1>1. /\ UNCHANGED <<bundle, files, earlier, writes>> /\ opts' = o /\ at' = "blobs" /\ next' = 1
      /\ earlier # <<>> => o.payloads = opts.payloads
      /\ report' = Recorded(NewReport, <<SchemaParse, bundle.ordered>>)
  BY DEF Start, exportVars
<1>2. EarlierInv'
  BY <1>1, EarlierStays DEF RunInv
<1>3. report' = ReportOf(<<SchemaParse, bundle.ordered>>, None, FALSE)
  <2>1. IsSequence(<<>>) /\ IsSequence(<<SchemaParse, bundle.ordered>>)
    BY EmptySeq, TupleIsSequence DEF IsSequence
  <2>2. report' = ReportOf(<<>> \o <<SchemaParse, bundle.ordered>>, None, FALSE)
    BY <1>1, <2>1, EmptyIsReport, RecordedIsReport
  <2> QED
    BY <2>2, NoneJoined
<1>4. SchemaParse' = SchemaParse
  BY <1>1, DocumentFrame
<1>5. StateInv'
  BY <1>1 DEF RunInv, StateInv
<1> QED
  BY <1>1, <1>2, <1>3, <1>4, <1>5 DEF RunInv, ReportInv

\* Check 3 ends with a result.
LEMMA ConcludeKeeps ==
    ASSUME RunInv, at = "blobs", NEW passed \in BOOLEAN, ThirdOK(opts, passed),
           NEW warned, warned = (~opts.payloads /\ ~opts.strict),
           ConcludeBlobs(passed, warned)
    PROVE  RunInv'
<1>1. /\ UNCHANGED <<bundle, files, opts, next, earlier, writes>> /\ at' = "rest"
      /\ report' = [Recorded(report, <<passed>>) EXCEPT !.warned = warned]
  BY DEF ConcludeBlobs, exportVars
<1>2. report' = ReportOf(FirstThree(passed), None, ~opts.payloads /\ ~opts.strict)
  <2>1. report = ReportOf(<<SchemaParse, bundle.ordered>>, None, FALSE)
    BY DEF RunInv, ReportInv
  <2>2. IsSequence(<<SchemaParse, bundle.ordered>>) /\ IsSequence(<<passed>>)
    BY TupleIsSequence
  <2> DEFINE old == <<SchemaParse, bundle.ordered>>
             new == <<passed>>
  <2>3. Recorded(report, new) = ReportOf(old \o new, None, FALSE)
    <3> HIDE DEF old, new
    <3>1. report = ReportOf(old, None, FALSE) /\ IsSequence(old) /\ IsSequence(new)
      BY <2>1, <2>2 DEF old, new
    <3> QED
      BY <3>1, RecordedIsReport
  <2>4. old \o new = FirstThree(passed)
    BY ThreeJoined, Zenon DEF FirstThree
  <2>5. Recorded(report, <<passed>>) = ReportOf(FirstThree(passed), None, FALSE)
    <3> HIDE DEF old, FirstThree
    <3> QED
      BY <2>3, <2>4
  <2> QED
    BY <1>1, <2>5 DEF ReportOf
<1>3. EarlierInv'
  BY <1>1, EarlierStays DEF RunInv
<1>4. ThirdOK(opts, passed)' /\ FirstThree(passed)' = FirstThree(passed)
  BY <1>1, FilesFrame, DocumentFrame DEF ThirdOK
<1>5. StateInv'
  BY <1>1 DEF RunInv, StateInv
<1> QED
  BY <1>1, <1>2, <1>3, <1>4, <1>5 DEF RunInv, ReportInv

\* Without a directory check 3 is skipped, with a warning or a failure.
LEMMA SkipKeeps ==
    ASSUME RunInv, SkipBlobs
    PROVE  RunInv'
<1> DEFINE free == ~opts.strict
<1>1. at = "blobs" /\ ~opts.payloads /\ ConcludeBlobs(free, free)
  BY DEF SkipBlobs
<1>2. free \in BOOLEAN /\ free = (~opts.payloads /\ ~opts.strict)
  BY <1>1
<1>3. ThirdOK(opts, free)
  BY <1>1 DEF ThirdOK
<1> HIDE DEF free
<1> QED
  BY <1>1, <1>2, <1>3, ConcludeKeeps

\* The items before next hold, as long as no file has changed.
LEMMA AcceptKeeps ==
    ASSUME RunInv, AcceptBlob
    PROVE  RunInv'
<1>1. /\ at = "blobs" /\ next' = next + 1 /\ BlobHolds(Sealed[next])
      /\ UNCHANGED <<bundle, files, opts, at, report, earlier, writes>>
  BY DEF AcceptBlob, ReadingBlobs, exportVars
<1>2. StateInv'
  BY <1>1 DEF RunInv, StateInv, BundleOK
<1>3. EarlierInv'
  BY <1>1, EarlierStays DEF RunInv
<1>4. /\ report' = ReportOf(<<SchemaParse, bundle.ordered>>, None, FALSE)
      /\ SchemaParse' = SchemaParse /\ Sealed' = Sealed
  BY <1>1, DocumentFrame DEF RunInv, ReportInv
<1>5. ASSUME opts.payloads, writes = 0, NEW i \in 1..(next' - 1)
      PROVE  BlobHolds(Sealed[i])'
  <2>1. i \in 1..(next - 1) \/ i = next
    BY <1>1 DEF RunInv, StateInv
  <2>2. BlobHolds(Sealed[i])
    BY <1>1, <1>5, <2>1 DEF RunInv, ReportInv
  <2> QED
    BY <1>1, <2>2, FilesFrame
<1> QED
  BY <1>1, <1>2, <1>3, <1>4, <1>5 DEF RunInv, ReportInv

\* Check 3 stops at a blob that does not match.
LEMMA RejectKeeps ==
    ASSUME RunInv, RejectBlob
    PROVE  RunInv'
<1>1. /\ at = "blobs" /\ opts.payloads /\ next <= Len(Sealed) /\ ~BlobHolds(Sealed[next])
      /\ FALSE = (~opts.payloads /\ ~opts.strict) /\ ConcludeBlobs(FALSE, FALSE)
  BY DEF RejectBlob, ReadingBlobs
<1>2. next \in DOMAIN Sealed
  BY <1>1, SealedIsSequence DEF RunInv, StateInv
<1>3. BlobsHold = FALSE
  BY <1>1, <1>2 DEF BlobsHold
<1>4. ThirdOK(opts, FALSE)
  BY <1>1, <1>3 DEF ThirdOK
<1> QED
  BY <1>1, <1>4, ConcludeKeeps

\* Check 3 passes when every blob has matched.
LEMMA EndKeeps ==
    ASSUME RunInv, EndBlobs
    PROVE  RunInv'
<1>1. /\ at = "blobs" /\ opts.payloads /\ next > Len(Sealed)
      /\ FALSE = (~opts.payloads /\ ~opts.strict) /\ ConcludeBlobs(TRUE, FALSE)
  BY DEF EndBlobs, ReadingBlobs
<1>2. writes = 0 => BlobsHold = TRUE
  <2> SUFFICES ASSUME writes = 0, NEW i \in DOMAIN Sealed PROVE BlobHolds(Sealed[i])
    BY DEF BlobsHold
  <2>1. i \in 1..(next - 1)
    BY <1>1, SealedIsSequence DEF RunInv, StateInv
  <2> QED
    BY <1>1, <2>1 DEF RunInv, ReportInv
<1>3. ThirdOK(opts, TRUE)
  BY <1>1, <1>2 DEF ThirdOK
<1> QED
  BY <1>1, <1>3, ConcludeKeeps

\* Checks 4 to 11 complete the report.
LEMMA RestKeeps ==
    ASSUME RunInv, RunRest
    PROVE  RunInv'
<1> DEFINE new == <<bundle.linked, FrameRefsResolve, bundle.continuity, NoOrphans,
                    RefsRegistered, SameScope, SubstrateBindings, AuthorityIn(opts.strict)>>
           warn == ~opts.payloads /\ ~opts.strict
<1>1. /\ at = "rest" /\ at' = "done"
      /\ UNCHANGED <<bundle, files, opts, next, earlier, writes>>
  BY DEF RunRest, exportVars
<1>2. report' = [Recorded(report, new) EXCEPT !.mode = FailureMode]
  <2>1. AuthorityHolds = AuthorityIn(opts.strict)
    BY DEF AuthorityHolds, AuthorityIn
  <2> QED
    BY <2>1, Zenon DEF RunRest, RefsRegistered
<1>3. FailureMode = ModeIn(opts.strict)
  BY DEF FailureMode, ModeIn, AuthorityHolds, AuthorityIn
<1>4. PICK third \in BOOLEAN : /\ report = ReportOf(FirstThree(third), None, warn)
                               /\ ThirdOK(opts, third)
  BY <1>1 DEF RunInv, ReportInv
<1>5. IsSequence(FirstThree(third)) /\ IsSequence(new)
  BY TupleIsSequence, Zenon DEF FirstThree
<1>6. FirstThree(third) \o new = Eleven(third, AuthorityIn(opts.strict))
  <2> DEFINE b2 == bundle.ordered
             b4 == bundle.linked
             b6 == bundle.continuity
             b11 == AuthorityIn(opts.strict)
  <2> HIDE DEF b2, b4, b6, b11
  <2>1. <<SchemaParse, b2, third>>
            \o <<b4, FrameRefsResolve, b6, NoOrphans, RefsRegistered, SameScope,
                 SubstrateBindings, b11>>
        = <<SchemaParse, b2, third, b4, FrameRefsResolve, b6, NoOrphans, RefsRegistered,
            SameScope, SubstrateBindings, b11>>
    BY ElevenJoined
  <2> QED
    BY <2>1, Zenon DEF FirstThree, Eleven, b2, b4, b6, b11
<1>7. report' = FullReport(opts, third)
  <2> HIDE DEF new, warn
  <2>0. Recorded(report, new) = ReportOf(FirstThree(third) \o new, None, warn)
    <3> DEFINE old == FirstThree(third)
    <3>1. IsSequence(old) /\ report = ReportOf(old, None, warn)
      BY <1>4, <1>5
    <3> HIDE DEF old
    <3>2. Recorded(report, new) = ReportOf(old \o new, None, warn)
      BY <1>5, <3>1, RecordedIsReport
    <3> QED
      BY <3>2 DEF old
  <2>1. Recorded(report, new) = ReportOf(Eleven(third, AuthorityIn(opts.strict)), None, warn)
    BY <1>6, <2>0
  <2>2. report' = ReportOf(Eleven(third, AuthorityIn(opts.strict)), ModeIn(opts.strict), warn)
    BY <1>2, <1>3, <2>1 DEF ReportOf
  <2> QED
    BY <2>2 DEF FullReport, warn
<1>8. FullReport(opts, third)' = FullReport(opts, third) /\ ThirdOK(opts, third)'
  <2>1. /\ \A o, t : FullReport(o, t)' = FullReport(o, t)
        /\ \A o, t : ThirdOK(o, t)' = ThirdOK(o, t)
    BY <1>1, DocumentFrame, FilesFrame
  <2>2. ThirdOK(opts, third)' = ThirdOK(opts, third)
    BY <1>1, FilesFrame DEF ThirdOK
  <2>3. FullReport(opts, third)' = FullReport(opts, third)
    BY <1>1, DocumentFrame DEF FullReport
  <2> QED
    BY <1>4, <2>2, <2>3
<1>9. EarlierInv'
  BY <1>1, EarlierStays DEF RunInv
<1>10. StateInv'
  BY <1>1 DEF RunInv, StateInv, BundleOK
<1> HIDE DEF new, warn
<1> QED
  BY <1>1, <1>7, <1>8, <1>9, <1>10 DEF RunInv, ReportInv

\* The report joins the earlier ones.
LEMMA RerunKeeps ==
    ASSUME RunInv, Rerun
    PROVE  RunInv'
<1> DEFINE row == [opts |-> opts, report |-> report]
<1>1. /\ at = "done" /\ at' = "idle" /\ earlier' = Append(earlier, row)
      /\ UNCHANGED <<bundle, files, opts, next, writes>>
  BY DEF Rerun, exportVars
<1>2. PICK third \in BOOLEAN : report = FullReport(opts, third) /\ ThirdOK(opts, third)
  BY <1>1 DEF RunInv, ReportInv
<1>3. StateInv'
  BY <1>1 DEF RunInv, StateInv, BundleOK
<1>4. IsSequence(earlier)'
  BY <1>1, Appended DEF RunInv, EarlierInv, IsSequence
<1>5. \A o, t : FullReport(o, t)' = FullReport(o, t) /\ ThirdOK(o, t)' = ThirdOK(o, t)
  BY <1>1, DocumentFrame, FilesFrame
<1>6. ASSUME NEW i \in DOMAIN earlier'
      PROVE  earlier'[i] = row \/ (i \in DOMAIN earlier /\ earlier'[i] = earlier[i])
  <2>1. earlier \in Seq(ToSet(earlier) \cup {row})
    BY SeqMonotonic DEF RunInv, EarlierInv, IsSequence
  <2>2. Len(earlier) \in Nat /\ DOMAIN earlier = 1..Len(earlier)
    BY SequenceDomain DEF RunInv, EarlierInv
  <2> HIDE DEF row
  <2> QED
    BY <1>1, <2>1, <2>2, AppendProperties
<1>7. ASSUME NEW i \in DOMAIN earlier'
      PROVE  /\ earlier'[i].opts \in Options /\ earlier'[i].opts.payloads = opts'.payloads
             /\ \E t \in BOOLEAN : /\ earlier'[i].report = FullReport(earlier[i].opts, t)'
                                   /\ ThirdOK(earlier[i].opts, t)'
  <2> DEFINE o == earlier'[i].opts
  <2>1. /\ o \in Options /\ o.payloads = opts.payloads
        /\ \E t \in BOOLEAN : earlier'[i].report = FullReport(o, t) /\ ThirdOK(o, t)
    <3>1. CASE earlier'[i] = row
      BY <1>2, <3>1 DEF RunInv, StateInv
    <3>2. CASE i \in DOMAIN earlier /\ earlier'[i] = earlier[i]
      BY <3>2 DEF RunInv, EarlierInv
    <3> QED
      BY <1>6, <3>1, <3>2
  <2>2. PICK t \in BOOLEAN : earlier'[i].report = FullReport(o, t) /\ ThirdOK(o, t)
    BY <2>1
  <2>3. /\ FullReport(earlier[i].opts, t)' = FullReport(o, t)
        /\ ThirdOK(earlier[i].opts, t)' = ThirdOK(o, t)
    BY <1>5
  <2> QED
    BY <1>1, <2>1, <2>2, <2>3
<1>8. EarlierInv'
  BY <1>4, <1>7 DEF EarlierInv
<1> QED
  BY <1>1, <1>3, <1>8 DEF RunInv, ReportInv

\* A stutter changes nothing.
LEMMA StutterKeeps ==
    ASSUME RunInv, UNCHANGED vars
    PROVE  RunInv'
<1>1. UNCHANGED <<bundle, files, opts, at, next, report, earlier, writes>>
  BY DEF vars, exportVars, runVars
<1>2. EarlierInv'
  BY <1>1, EarlierStays DEF RunInv
<1>3. StateInv'
  BY <1>1 DEF RunInv, StateInv, BundleOK
<1>4. /\ SchemaParse' = SchemaParse
      /\ \A i : BlobHolds(Sealed[i])' = BlobHolds(Sealed[i])
  BY <1>1, DocumentFrame, FilesFrame
<1>5. ASSUME NEW third
      PROVE  /\ FirstThree(third)' = FirstThree(third)
             /\ ThirdOK(opts, third)' = ThirdOK(opts, third)
             /\ FullReport(opts, third)' = FullReport(opts, third)
  <2>1. FirstThree(third)' = FirstThree(third)
    BY <1>1, DocumentFrame
  <2>2. ThirdOK(opts, third)' = ThirdOK(opts, third)
    BY <1>1, FilesFrame DEF ThirdOK
  <2>3. FullReport(opts, third)' = FullReport(opts, third)
    BY <1>1, DocumentFrame DEF FullReport
  <2> QED
    BY <2>1, <2>2, <2>3
<1> QED
  BY <1>1, <1>2, <1>3, <1>4, <1>5 DEF RunInv, ReportInv

\* Every step keeps the invariant of an invocation.
LEMMA RunInvStep == RunInv /\ [Next]_vars => RunInv'
<1> SUFFICES ASSUME RunInv, [Next]_vars PROVE RunInv'
  OBVIOUS
<1>1. CASE Prepare
  BY <1>1, PrepareKeeps
<1>2. CASE Disturb
  BY <1>2, DisturbKeeps
<1>3. CASE \E o \in Options : Start(o)
  BY <1>3, StartKeeps
<1>4. CASE SkipBlobs
  BY <1>4, SkipKeeps
<1>5. CASE AcceptBlob
  BY <1>5, AcceptKeeps
<1>6. CASE RejectBlob
  BY <1>6, RejectKeeps
<1>7. CASE EndBlobs
  BY <1>7, EndKeeps
<1>8. CASE RunRest
  BY <1>8, RestKeeps
<1>9. CASE Rerun
  BY <1>9, RerunKeeps
<1>10. CASE UNCHANGED vars
  BY <1>10, StutterKeeps
<1> QED
  BY <1>1, <1>2, <1>3, <1>4, <1>5, <1>6, <1>7, <1>8, <1>9, <1>10 DEF Next

\* At every point of every invocation the report holds the results of the checks run
\* so far on the document as it is, and earlier reports hold theirs (verify).
THEOREM RunInvariant == Spec => []RunInv
BY RunInvInit, RunInvStep, PTL DEF Spec

-----------------------------------------------------------------------------
(* What the invariant says of a complete report.                           *)

\* The results that depend on neither the options nor the files.
Fixed == {SchemaParse, bundle.ordered, bundle.linked, FrameRefsResolve, bundle.continuity,
          NoOrphans, RefsRegistered, SameScope, SubstrateBindings}

\* A report passes exactly when none of the eleven results is a failure.
LEMMA PassesIff ==
    ASSUME NEW o, NEW third
    PROVE  FullReport(o, third).passed
                <=> (FALSE \notin Fixed /\ FALSE # third /\ FALSE # AuthorityIn(o.strict))
<1> DEFINE a == AuthorityIn(o.strict)
<1>1. FullReport(o, third).passed = AllPass(Eleven(third, a))
  BY DEF FullReport, ReportOf
<1>2. ToSet(Eleven(third, a)) = Fixed \cup {third, a}
  <2> DEFINE b2 == bundle.ordered
             b4 == bundle.linked
             b6 == bundle.continuity
             all == <<SchemaParse, b2, third, b4, FrameRefsResolve, b6, NoOrphans,
                      RefsRegistered, SameScope, SubstrateBindings, a>>
  <2>1. Eleven(third, a) = all
    BY Zenon DEF Eleven
  <2> HIDE DEF a, b2, b4, b6
  <2>2. ToSet(all) = {SchemaParse, b2, third, b4, FrameRefsResolve, b6, NoOrphans,
                      RefsRegistered, SameScope, SubstrateBindings, a}
    BY ElevenSet
  <2>3. Fixed = {SchemaParse, b2, b4, FrameRefsResolve, b6, NoOrphans, RefsRegistered,
                 SameScope, SubstrateBindings}
    BY Zenon DEF Fixed, b2, b4, b6
  <2>4. ToSet(all) = Fixed \cup {third, a}
    <3> HIDE DEF all
    <3> QED
      BY <2>2, <2>3
  <2> HIDE DEF all
  <2> QED
    BY <2>1, <2>4
<1> HIDE DEF a
<1>3. AllPass(Eleven(third, a)) <=> (FALSE \notin Fixed /\ FALSE # third /\ FALSE # a)
  BY <1>2 DEF AllPass
<1> QED
  BY <1>1, <1>3 DEF a

\* Only results 3 and 11 depend on the options and the files.
LEMMA ElevenReads ==
    ASSUME NEW third, NEW a
    PROVE  /\ Len(Eleven(third, a)) = 11
           /\ Eleven(third, a)[11] = a /\ Eleven(third, a)[3] = third
           /\ \A other, b : \A k \in (1..10) \ {3} :
                    Eleven(third, a)[k] = Eleven(other, b)[k]
<1> DEFINE b2 == bundle.ordered
           b4 == bundle.linked
           b6 == bundle.continuity
           all(t, x) == <<SchemaParse, b2, t, b4, FrameRefsResolve, b6, NoOrphans,
                          RefsRegistered, SameScope, SubstrateBindings, x>>
<1>1. \A t, x : Eleven(t, x) = all(t, x)
  BY Zenon DEF Eleven
<1> HIDE DEF b2, b4, b6
<1>2. /\ Len(all(third, a)) = 11
      /\ all(third, a)[11] = a /\ all(third, a)[3] = third
  OBVIOUS
<1>3. ASSUME NEW t, NEW x, NEW k \in (1..10) \ {3}
      PROVE  all(third, a)[k] = all(t, x)[k]
  <2>1. k \in {1, 2, 4, 5, 6, 7, 8, 9, 10}
    OBVIOUS
  <2> QED
    BY <2>1
<1> HIDE DEF all
<1> QED
  BY <1>1, <1>2, <1>3

\* Every complete report has eleven results, its verdict is their conjunction, and
\* it names a failure mode when and only when check 11 failed (verify, record).
THEOREM ReportsConsistent == Spec => []ReportIsConsistent
<1>1. RunInv => ReportIsConsistent
  <2> SUFFICES ASSUME RunInv, at = "done"
               PROVE  /\ Len(report.checks) = 11
                      /\ report.passed <=> FALSE \notin ToSet(report.checks)
                      /\ report.mode # None <=> ~report.checks[11]
    BY DEF ReportIsConsistent
  <2>1. PICK third \in BOOLEAN : report = FullReport(opts, third)
    BY DEF RunInv, ReportInv
  <2> DEFINE a == AuthorityIn(opts.strict)
  <2>2. /\ report.checks = Eleven(third, a) /\ report.mode = ModeIn(opts.strict)
        /\ report.passed = AllPass(Eleven(third, a))
    BY <2>1 DEF FullReport, ReportOf
  <2>3. Len(report.checks) = 11 /\ report.checks[11] = a
    <3> HIDE DEF a
    <3> QED
      BY <2>2, ElevenReads
  <2>4. report.mode # None <=> ~a
    BY <2>2, RunsAssumption DEF ModeIn
  <2>5. report.passed <=> FALSE \notin ToSet(report.checks)
    BY <2>2 DEF AllPass
  <2> QED
    BY <2>3, <2>4, <2>5
<1> QED
  BY <1>1, RunInvariant, PTL

\* Each id in a frame of a bundle that passes names exactly one timeline entry, of
\* the kind the frame says, whatever was edited (frame_refs_resolve, no_orphans).
THEOREM RefsUnique == Spec => []RefsResolveUniquely
<1>1. RunInv => RefsResolveUniquely
  <2> SUFFICES ASSUME RunInv, Passed,
                      NEW f \in ToSet(bundle.frames), NEW kind \in {"action", "proof"},
                      NEW id \in (IF kind = "action" THEN f.actions ELSE f.proofs)
               PROVE  LET named == {i \in DOMAIN bundle.entries : bundle.entries[i].id = id}
                      IN  \E i \in named : named = {i} /\ bundle.entries[i].kind = kind
    BY DEF RefsResolveUniquely
  <2>1. PICK third \in BOOLEAN : report = FullReport(opts, third)
    BY DEF RunInv, ReportInv, Passed
  <2>2. FALSE \notin Fixed
    BY <2>1, PassesIff DEF Passed
  <2>3. FALSE # FrameRefsResolve /\ FALSE # NoOrphans
    BY <2>2 DEF Fixed
  <2>4. FrameRefsResolve
    BY <2>3 DEF FrameRefsResolve
  <2>5. Unique(bundle.entries)
    BY <2>3 DEF NoOrphans
  <2>6. id \in IdsOf(bundle.entries, kind)
    BY <2>4 DEF FrameRefsResolve
  <2>7. PICK i \in DOMAIN bundle.entries :
            bundle.entries[i].kind = kind /\ bundle.entries[i].id = id
    BY <2>6 DEF IdsOf, ToSet
  <2> QED
    BY <2>5, <2>7 DEF Unique
<1> QED
  BY <1>1, RunInvariant, PTL

\* A report that passes with payloads, from a directory that did not change under the
\* invocations, vouches for every referenced blob (recompute_sealed_root).
THEOREM BlobsMatch == Spec => []BlobsMatchRoots
<1>1. RunInv => BlobsMatchRoots
  <2> SUFFICES ASSUME RunInv, Passed, opts.payloads, writes = 0
               PROVE  \A i \in DOMAIN Sealed : BlobHolds(Sealed[i])
    BY DEF BlobsMatchRoots, BlobHolds
  <2>1. PICK third \in BOOLEAN : report = FullReport(opts, third) /\ ThirdOK(opts, third)
    BY DEF RunInv, ReportInv, Passed
  <2>2. FALSE # third
    BY <2>1, PassesIff DEF Passed
  <2>3. third = BlobsHold
    BY <2>1 DEF ThirdOK
  <2> QED
    BY <2>2, <2>3 DEF BlobsHold
<1> QED
  BY <1>1, RunInvariant, PTL

\* Invocations on one document agree as far as their options and files do, and strict
\* mode passes exactly what the other mode passes and it could check (verify).
THEOREM RunsAgreeAlways == Spec => []RunsAgree
<1>1. RunInv => RunsAgree
  <2> SUFFICES ASSUME RunInv, at = "done", NEW i \in DOMAIN earlier
               PROVE  LET was == earlier[i].report
                          Implied(strict, lax) == strict.passed <=>
                              lax.passed /\ opts.payloads /\ bundle.governance # "absent"
                      IN  /\ \A k \in (1..10) \ {3} : report.checks[k] = was.checks[k]
                          /\ writes = 0 =>
                                IF earlier[i].opts.strict = opts.strict THEN report = was
                                ELSE IF opts.strict THEN Implied(report, was)
                                ELSE Implied(was, report)
    BY DEF RunsAgree
  <2> DEFINE o == earlier[i].opts
             was == earlier[i].report
             governed == bundle.governance # "absent"
  <2>1. PICK third \in BOOLEAN : report = FullReport(opts, third) /\ ThirdOK(opts, third)
    BY DEF RunInv, ReportInv
  <2>2. PICK other \in BOOLEAN : was = FullReport(o, other) /\ ThirdOK(o, other)
    BY DEF RunInv, EarlierInv
  <2>3. /\ o \in Options /\ opts \in Options /\ o.payloads = opts.payloads
    BY DEF RunInv, StateInv, EarlierInv
  <2>4. ASSUME NEW k \in (1..10) \ {3} PROVE report.checks[k] = was.checks[k]
    <3>1. /\ report.checks = Eleven(third, AuthorityIn(opts.strict))
          /\ was.checks = Eleven(other, AuthorityIn(o.strict))
      BY <2>1, <2>2 DEF FullReport, ReportOf
    <3> DEFINE a == AuthorityIn(opts.strict)
               b == AuthorityIn(o.strict)
    <3> HIDE DEF a, b
    <3>2. Eleven(third, a)[k] = Eleven(other, b)[k]
      BY ElevenReads
    <3> QED
      BY <3>1, <3>2 DEF a, b
  <2>5. ASSUME writes = 0, o.strict = opts.strict PROVE report = was
    <3>1. third = other
      BY <2>1, <2>2, <2>3, <2>5 DEF ThirdOK, Options
    <3>2. o = opts
      BY <2>3, <2>5 DEF Options
    <3> QED
      BY <2>1, <2>2, <3>1, <3>2
  <2>6. ASSUME writes = 0, NEW s \in Options, NEW l \in Options, s.strict = TRUE,
               l.strict = FALSE, s.payloads = l.payloads,
               NEW x \in BOOLEAN, NEW y \in BOOLEAN, ThirdOK(s, x), ThirdOK(l, y)
        PROVE  FullReport(s, x).passed
                    <=> (FullReport(l, y).passed /\ s.payloads /\ governed)
    <3>1. /\ FullReport(s, x).passed
                <=> (FALSE \notin Fixed /\ FALSE # x /\ FALSE # AuthorityIn(TRUE))
          /\ FullReport(l, y).passed
                <=> (FALSE \notin Fixed /\ FALSE # y /\ FALSE # AuthorityIn(FALSE))
      BY <2>6, PassesIff
    <3>2. (FALSE # AuthorityIn(TRUE)) <=> ((FALSE # AuthorityIn(FALSE)) /\ governed)
      <4>1. AuthorityIn(TRUE) <=> bundle.governance \in {"unclaimed", "sound"}
        BY DEF AuthorityIn
      <4>2. AuthorityIn(FALSE) <=> bundle.governance \in {"unclaimed", "sound", "absent"}
        BY DEF AuthorityIn
      <4>3. AuthorityIn(TRUE) <=> (AuthorityIn(FALSE) /\ governed)
        BY <4>1, <4>2
      <4>4. AuthorityIn(TRUE) \in BOOLEAN /\ AuthorityIn(FALSE) \in BOOLEAN
        BY DEF AuthorityIn
      <4> HIDE DEF governed
      <4> QED
        BY <4>3, <4>4
    <3>3. CASE ~s.payloads
      <4>1. x = FALSE
        BY <2>6, <3>3 DEF ThirdOK
      <4> QED
        BY <3>1, <3>3, <4>1
    <3>4. CASE s.payloads
      <4>1. x = y
        BY <2>6, <3>4 DEF ThirdOK
      <4> QED
        BY <3>1, <3>2, <3>4, <4>1
    <3> QED
      BY <3>3, <3>4
  <2>7. ASSUME writes = 0, o.strict # opts.strict, opts.strict
        PROVE  report.passed <=> (was.passed /\ opts.payloads /\ governed)
    <3>1. opts.strict = TRUE /\ o.strict = FALSE
      BY <2>3, <2>7 DEF Options
    <3> QED
      BY <2>1, <2>2, <2>3, <2>6, <2>7, <3>1
  <2>8. ASSUME writes = 0, o.strict # opts.strict, ~opts.strict
        PROVE  was.passed <=> (report.passed /\ opts.payloads /\ governed)
    <3>1. opts.strict = FALSE /\ o.strict = TRUE
      BY <2>3, <2>8 DEF Options
    <3> QED
      BY <2>1, <2>2, <2>3, <2>6, <2>8, <3>1
  <2> QED
    BY <2>4, <2>5, <2>7, <2>8
<1> QED
  BY <1>1, RunInvariant, PTL

-----------------------------------------------------------------------------
(* Types.  Two of them need the invariant: how far check 3 reads, and how  *)
(* long the report is.                                                     *)

BoundsInv ==
    /\ next <= Len(Sealed) + 1
    /\ (at = "idle" /\ earlier = <<>>) => next = 1
    /\ at = "idle" => report = NewReport
    /\ edits \in Nat /\ writes <= edits

\* Check 3 walks finitely many items.
LEMMA SealedLength == BundleOK(bundle) => Len(Sealed) \in Nat
BY SealedIsSequence

\* No result yet, and no item read.
LEMMA BoundsInit == Init => BoundsInv
<1> SUFFICES ASSUME Init PROVE BoundsInv
  OBVIOUS
<1>1. Len(Sealed) \in Nat
  BY NewBundleOK, SealedIsSequence DEF Init
<1> QED
  BY <1>1 DEF Init, ExportInit, BoundsInv

\* No step adds a twelfth result or reads past the items.
LEMMA BoundsStep == RunInv /\ BoundsInv /\ [Next]_vars => BoundsInv'
<1> SUFFICES ASSUME RunInv, BoundsInv, [Next]_vars PROVE BoundsInv'
  OBVIOUS
<1>0. Len(Sealed) \in Nat /\ next \in Nat \ {0} /\ writes \in Nat
  BY SealedIsSequence DEF RunInv, StateInv
<1>1. CASE Prepare
  <2>1. /\ at = "idle" /\ earlier = <<>> /\ UNCHANGED <<at, next, report, earlier, writes>>
        /\ Record \/ Edit \/ ChangeFile
    BY <1>1 DEF Prepare, runVars
  <2>2. Len(Sealed') \in Nat
    <3>1. BundleOK(bundle)'
      BY <2>1, ExportKeepsBundle DEF RunInv, StateInv, BundleOK
    <3>2. (BundleOK(bundle) => Len(Sealed) \in Nat)'
      BY SealedLength, PTL
    <3> QED
      BY <3>1, <3>2
  <2>3. edits' \in {edits, edits + 1}
    BY <2>1 DEF Record, RecordEntry, RecordFrame, RecordEvidence, RecordBinding, ExportBundle,
                Edit, ChangeFile
  <2> QED
    BY <1>0, <2>1, <2>2, <2>3 DEF BoundsInv
<1>2. CASE Disturb
  <2>1. /\ UNCHANGED <<at, next, report, earlier, bundle>>
        /\ edits' = edits + 1 /\ writes' = writes + 1
    BY <1>2 DEF Disturb, ChangeFile, runVars
  <2>2. Sealed' = Sealed
    BY <2>1, DocumentFrame
  <2> QED
    BY <1>0, <2>1, <2>2 DEF BoundsInv
<1>3. CASE UNCHANGED <<exportVars, writes>>
            /\ \/ next' \in {1, next} /\ at' # "idle"
               \/ next' = next + 1 /\ next <= Len(Sealed) /\ at' # "idle"
               \/ next' = next /\ at' = "idle" /\ earlier' # <<>> /\ report' = NewReport
               \/ UNCHANGED <<next, at, earlier, report>>
  <2>1. Sealed' = Sealed /\ edits' = edits /\ writes' = writes
    BY <1>3, DocumentFrame DEF exportVars
  <2> QED
    BY <1>0, <1>3, <2>1 DEF BoundsInv
<1>4. CASE \E o \in Options : Start(o)
  BY <1>3, <1>4 DEF Start
<1>5. CASE SkipBlobs \/ RejectBlob \/ EndBlobs
  BY <1>3, <1>5 DEF SkipBlobs, RejectBlob, EndBlobs, ConcludeBlobs
<1>6. CASE AcceptBlob
  <2>1. at = "blobs" /\ at' = at /\ next' = next + 1 /\ next <= Len(Sealed)
        /\ UNCHANGED <<exportVars, writes>>
    BY <1>6 DEF AcceptBlob, ReadingBlobs
  <2> QED
    BY <1>3, <2>1
<1>7. CASE RunRest
  BY <1>3, <1>7 DEF RunRest
<1>8. CASE Rerun
  <2>1. /\ UNCHANGED <<exportVars, writes>> /\ next' = next /\ at' = "idle"
        /\ report' = NewReport /\ earlier' = Append(earlier, [opts |-> opts, report |-> report])
    BY <1>8 DEF Rerun
  <2>2. earlier' # <<>>
    BY <2>1 DEF RunInv, EarlierInv, IsSequence
  <2> QED
    BY <1>3, <2>1, <2>2
<1>9. CASE UNCHANGED vars
  BY <1>3, <1>9 DEF vars, runVars
<1> QED
  BY <1>1, <1>2, <1>4, <1>5, <1>6, <1>7, <1>8, <1>9 DEF Next

\* The types of a report's fields.
LEMMA ReportTypes ==
    ASSUME NEW results, NEW mode, NEW warned \in BOOLEAN, Len(results) \in 0..11
    PROVE  LET r == ReportOf(results, mode, warned)
           IN  r.passed \in BOOLEAN /\ r.warned \in BOOLEAN /\ Len(r.checks) \in 0..11
<1>1. AllPass(results) \in BOOLEAN
  BY DEF AllPass
<1> QED
  BY <1>1 DEF ReportOf

\* Check 3 never reads past the sealed items, a report never has more than eleven
\* results, and the verifier's variables have their types (VerifyReport).
THEOREM TypeCorrect == Spec => []TypeOK
<1>1. RunInv /\ BoundsInv => TypeOK
  <2> SUFFICES ASSUME RunInv, BoundsInv
               PROVE  TypeOK
    OBVIOUS
  <2>1. Len(Sealed) \in Nat
    BY SealedIsSequence DEF RunInv, StateInv
  <2>2. opts \in Options /\ (~opts.payloads /\ ~opts.strict) \in BOOLEAN
    BY DEF RunInv, StateInv
  <2> DEFINE warn == ~opts.payloads /\ ~opts.strict
  <2>3. \E results, mode : \E warned \in BOOLEAN :
            report = ReportOf(results, mode, warned) /\ Len(results) \in 0..11
    <3>1. CASE at = "idle"
      <4>1. Len(<<>>) \in 0..11
        OBVIOUS
      <4> QED
        BY <3>1, <4>1, EmptyIsReport DEF BoundsInv
    <3>2. CASE at = "blobs"
      <4> DEFINE two == <<SchemaParse, bundle.ordered>>
      <4>1. Len(two) \in 0..11
        OBVIOUS
      <4> HIDE DEF two
      <4>2. report = ReportOf(two, None, FALSE)
        BY <3>2, Zenon DEF RunInv, ReportInv, two
      <4> QED
        BY <4>1, <4>2
    <3>3. CASE at = "rest"
      <4>1. PICK third \in BOOLEAN : report = ReportOf(FirstThree(third), None, warn)
        BY <3>3 DEF RunInv, ReportInv
      <4>2. Len(FirstThree(third)) \in 0..11
        BY DEF FirstThree
      <4> HIDE DEF warn
      <4>3. warn \in BOOLEAN
        BY <2>2 DEF warn
      <4> QED
        BY <4>1, <4>2, <4>3
    <3>4. CASE at = "done"
      <4>1. PICK third \in BOOLEAN : report = FullReport(opts, third)
        BY <3>4 DEF RunInv, ReportInv
      <4> DEFINE a == AuthorityIn(opts.strict)
      <4>2. report = ReportOf(Eleven(third, a), ModeIn(opts.strict), warn)
        BY <4>1 DEF FullReport
      <4> HIDE DEF a, warn
      <4>3. Len(Eleven(third, a)) \in 0..11
        BY ElevenReads
      <4>4. warn \in BOOLEAN
        BY <2>2 DEF warn
      <4> QED
        BY <4>2, <4>3, <4>4
    <3> QED
      BY <3>1, <3>2, <3>3, <3>4 DEF RunInv, StateInv
  <2>4. /\ report.passed \in BOOLEAN /\ report.warned \in BOOLEAN
        /\ Len(report.checks) \in 0..11
    BY <2>3, ReportTypes
  <2> QED
    BY <2>1, <2>2, <2>4 DEF TypeOK, RunInv, StateInv, BoundsInv
<1> QED
  BY <1>1, BoundsInit, BoundsStep, RunInvInit, RunInvStep, PTL DEF Spec

-----------------------------------------------------------------------------
(* Checks 9 and 10 together.  No edit makes a hash: every binding of the   *)
(* document carries the hash of one that the backend recorded, and that    *)
(* hash is the term of what was recorded.                                  *)

\* Appending adds one item.
LEMMA AppendedItems ==
    ASSUME NEW sq, IsSequence(sq), NEW x
    PROVE  ToSet(Append(sq, x)) = ToSet(sq) \cup {x}
<1> DEFINE S == ToSet(sq) \cup {x}
<1>1. sq \in Seq(S) /\ Len(sq) \in Nat /\ DOMAIN sq = 1..Len(sq)
  BY SeqMonotonic, SequenceDomain DEF IsSequence
<1> HIDE DEF S
<1>2. /\ Append(sq, x) \in Seq(S \cup {x}) /\ Len(Append(sq, x)) = Len(sq) + 1
      /\ \A i \in 1..Len(sq) : Append(sq, x)[i] = sq[i]
      /\ Append(sq, x)[Len(sq) + 1] = x
  BY <1>1, AppendProperties
<1>3. DOMAIN Append(sq, x) = 1..Len(sq) + 1
  BY <1>2, LenProperties
<1> HIDE DEF IsSequence
<1> QED
  BY <1>1, <1>2, <1>3 DEF ToSet

\* An edit of a sequence adds only items that it makes of one that was there.
LEMMA AlteredItems ==
    ASSUME NEW sq, IsSequence(sq), NEW to, NEW new \in Altered(sq, to), NEW x \in ToSet(new)
    PROVE  x \in ToSet(sq) \/ \E y \in ToSet(sq) : x \in to[y]
<1>0. Len(sq) \in Nat /\ DOMAIN sq = 1..Len(sq)
  BY SequenceDomain
<1>1. ASSUME NEW i \in DOMAIN sq, new = RemoveAt(sq, i)
      PROVE  x \in ToSet(sq)
  <2>1. \A k \in 1..(i - 1) : sq[k] \in ToSet(sq)
    BY <1>0, <1>1 DEF ToSet
  <2>2. \A k \in (i + 1)..Len(sq) : sq[k] \in ToSet(sq)
    BY <1>0, <1>1 DEF ToSet
  <2>3. SubSeq(sq, 1, i - 1) \in Seq(ToSet(sq)) /\ SubSeq(sq, i + 1, Len(sq)) \in Seq(ToSet(sq))
    BY <1>0, <1>1, <2>1, <2>2, SubSeqProperties
  <2>4. new \in Seq(ToSet(sq))
    BY <1>1, <2>3, ConcatProperties DEF RemoveAt
  <2>5. Len(new) \in Nat /\ new \in [1..Len(new) -> ToSet(sq)]
    BY <2>4, LenProperties
  <2> QED
    BY <2>5 DEF ToSet
<1>2. ASSUME NEW i \in DOMAIN sq, NEW y \in {sq[i]} \cup to[sq[i]], new = Append(sq, y)
      PROVE  x \in ToSet(sq) \/ \E z \in ToSet(sq) : x \in to[z]
  <2>1. sq[i] \in ToSet(sq)
    BY DEF ToSet
  <2>2. x \in ToSet(sq) \/ x = y
    BY <1>2, AppendedItems
  <2> QED
    BY <1>2, <2>1, <2>2
<1>3. ASSUME NEW i \in DOMAIN sq, NEW y \in to[sq[i]], new = [sq EXCEPT ![i] = y]
      PROVE  x \in ToSet(sq) \/ \E z \in ToSet(sq) : x \in to[z]
  <2>1. \A k \in DOMAIN sq : sq[k] \in ToSet(sq)
    BY DEF ToSet
  <2>2. PICK k \in DOMAIN new : x = new[k]
    BY DEF ToSet
  <2>3. DOMAIN new = DOMAIN sq /\ (x = sq[k] \/ (k = i /\ x = y))
    BY <1>3, <2>2
  <2> QED
    BY <1>3, <2>1, <2>2, <2>3
<1>4. \/ \E i \in DOMAIN sq : new = RemoveAt(sq, i)
      \/ \E i \in DOMAIN sq : \E y \in {sq[i]} \cup to[sq[i]] : new = Append(sq, y)
      \/ \E i \in DOMAIN sq : \E y \in to[sq[i]] : new = [sq EXCEPT ![i] = y]
  BY DEF Altered
<1> QED
  BY <1>1, <1>2, <1>3, <1>4

BindingFields ==
    {"id", "message", "tenant", "case", "kind", "agent", "human", "attrs", "hash"}

\* A binding, edited or not, that carries the hash of a row of led.
Backed(b, led) == /\ DOMAIN b = BindingFields /\ b.attrs \in AttributeList
                  /\ \E l \in led : b.hash = l.hash

LedgerOK(led) == \A l \in led : /\ DOMAIN l = BindingFields /\ l.attrs \in AttributeList
                                /\ l.hash = BindingHash(l)

BindInv == /\ IsSequence(bundle.bindings) /\ LedgerOK(ledger)
           /\ \A b \in ToSet(bundle.bindings) : Backed(b, ledger)

ToBinding(b) == {[b EXCEPT !.tenant = t] : t \in Tenant}
                    \cup {[b EXCEPT !.case = c] : c \in Case \cup {None}}
                    \cup {[b EXCEPT !.kind = k] : k \in {"agent", "human", "other"}}
                    \cup {[b EXCEPT !.agent = None], [b EXCEPT !.message = Malformed]}
                    \cup {[b EXCEPT !.attrs = a] : a \in AttributeList}

\* No edit of a binding touches its hash.
LEMMA EditedIsBacked ==
    ASSUME NEW led, NEW b, Backed(b, led), NEW x \in ToBinding(b)
    PROVE  Backed(x, led)
<1>1. \E f \in BindingFields \ {"hash", "attrs"} : \E v : x = [b EXCEPT ![f] = v]
      \/ \E a \in AttributeList : x = [b EXCEPT !.attrs = a]
  BY DEF ToBinding, BindingFields
<1>2. DOMAIN x = BindingFields /\ x.hash = b.hash /\ x.attrs \in AttributeList
  BY <1>1 DEF Backed, BindingFields
<1> QED
  BY <1>2 DEF Backed

\* No binding is in the ledger or in the bundle.
LEMMA BindInvInit == Init => BindInv
<1> SUFFICES ASSUME Init PROVE BindInv
  OBVIOUS
<1>1. bundle.bindings = <<>> /\ ledger = {}
  BY DEF Init, ExportInit, NewBundle
<1> QED
  BY <1>1, EmptySeq DEF BindInv, LedgerOK, IsSequence, ToSet

\* The backend writes the hash of the row that it records.
LEMMA RecordedIsBacked ==
    ASSUME BindInv, BundleOK(bundle),
           NEW t, NEW c, NEW actor, NEW attrs \in AttributeList,
           RecordBinding(t, c, actor, attrs)
    PROVE  BindInv'
<1> DEFINE n == Cardinality(ledger) + 1
           row == [id |-> n, message |-> n, tenant |-> t, case |-> c, kind |-> actor.kind,
                   agent |-> actor.agent, human |-> actor.human, attrs |-> attrs,
                   hash |-> BindingHash(
                        [id |-> n, message |-> n, tenant |-> t, case |-> c,
                         kind |-> actor.kind, agent |-> actor.agent,
                         human |-> actor.human, attrs |-> attrs])]
<1>1. /\ ledger' = ledger \cup {row}
      /\ \/ bundle' = [bundle EXCEPT !.bindings = Append(@, row)]
         \/ bundle' = bundle
  BY DEF RecordBinding
<1>2. DOMAIN row = BindingFields /\ row.attrs = attrs /\ row.hash = BindingHash(row)
  BY DEF BindingHash, BindingFields
<1> HIDE DEF row
<1>3. LedgerOK(ledger')
  BY <1>1, <1>2 DEF BindInv, LedgerOK
<1>4. Backed(row, ledger') /\ \A b : Backed(b, ledger) => Backed(b, ledger')
  BY <1>1, <1>2 DEF Backed
<1>5. bundle'.bindings = Append(bundle.bindings, row) \/ bundle'.bindings = bundle.bindings
  BY <1>1 DEF BundleOK, BundleFields
<1>6. /\ IsSequence(bundle'.bindings)
      /\ ToSet(bundle'.bindings) \subseteq ToSet(bundle.bindings) \cup {row}
  BY <1>5, Appended, AppendedItems DEF BindInv
<1> QED
  BY <1>3, <1>4, <1>6 DEF BindInv

\* Each binding that an edit makes repeats the hash of one in the ledger.
LEMMA EditsAreBacked ==
    ASSUME BindInv, BundleOK(bundle), Edit
    PROVE  BindInv'
<1>1. ledger' = ledger
  BY DEF Edit
<1>2. SUFFICES /\ IsSequence(bundle'.bindings)
               /\ \A b \in ToSet(bundle'.bindings) : Backed(b, ledger)
  BY <1>1 DEF BindInv
<1>3. ASSUME bundle'.bindings = bundle.bindings
      PROVE  /\ IsSequence(bundle'.bindings)
             /\ \A b \in ToSet(bundle'.bindings) : Backed(b, ledger)
  BY <1>3 DEF BindInv
<1>4. CASE bundle' \in AlteredEnvelope
  BY <1>3, <1>4 DEF AlteredEnvelope, BundleOK, BundleFields
<1>5. CASE bundle' \in AlteredContent
  BY <1>3, <1>5 DEF AlteredContent, BundleOK, BundleFields
<1>6. CASE bundle' \in AlteredEntries
  <2>1. \E es : bundle' = [bundle EXCEPT !.entries = es]
    BY <1>6 DEF AlteredEntries
  <2> QED
    BY <1>3, <2>1 DEF BundleOK, BundleFields
<1>7. CASE bundle' \in AlteredSealed
  <2>1. \/ \E fs : bundle' = [bundle EXCEPT !.frames = fs]
        \/ \E es : bundle' = [bundle EXCEPT !.evidence = es]
    BY <1>7 DEF AlteredSealed
  <2> QED
    BY <1>3, <2>1 DEF BundleOK, BundleFields
<1>8. CASE bundle' \in AlteredBindings
  <2> DEFINE to == [b \in ToSet(bundle.bindings) |-> ToBinding(b)]
             Foreign == UNION {{row} \cup ToBinding(row) : row \in ledger}
  <2>1. \/ \E bs \in Altered(bundle.bindings, to) : bundle' = [bundle EXCEPT !.bindings = bs]
        \/ \E b \in Foreign : bundle' = [bundle EXCEPT !.bindings = Append(@, b)]
    BY <1>8, Zenon DEF AlteredBindings, ToBinding
  <2>2. \/ bundle'.bindings \in Altered(bundle.bindings, to)
        \/ \E b \in Foreign : bundle'.bindings = Append(bundle.bindings, b)
    <3> HIDE DEF to, Foreign
    <3> QED
      BY <2>1 DEF BundleOK, BundleFields
  <2>3. CASE bundle'.bindings \in Altered(bundle.bindings, to)
    <3>1. IsSequence(bundle'.bindings)
      BY <2>3, AlteredIsSequence DEF BindInv
    <3>2. ASSUME NEW x \in ToSet(bundle'.bindings) PROVE Backed(x, ledger)
      <4>1. x \in ToSet(bundle.bindings) \/ \E y \in ToSet(bundle.bindings) : x \in to[y]
        <5> HIDE DEF to
        <5> QED
          BY <2>3, AlteredItems DEF BindInv
      <4>2. \A y \in ToSet(bundle.bindings) : to[y] = ToBinding(y)
        OBVIOUS
      <4> HIDE DEF to
      <4> QED
        BY <4>1, <4>2, EditedIsBacked DEF BindInv
    <3> QED
      BY <3>1, <3>2
  <2>4. CASE \E b \in Foreign : bundle'.bindings = Append(bundle.bindings, b)
    <3>1. PICK b \in Foreign : bundle'.bindings = Append(bundle.bindings, b)
      BY <2>4
    <3>2. PICK row \in ledger : b \in {row} \cup ToBinding(row)
      OBVIOUS
    <3>3. Backed(row, ledger)
      BY DEF BindInv, LedgerOK, Backed
    <3>4. Backed(b, ledger)
      BY <3>2, <3>3, EditedIsBacked
    <3>5. /\ IsSequence(bundle'.bindings)
          /\ ToSet(bundle'.bindings) = ToSet(bundle.bindings) \cup {b}
      BY <3>1, Appended, AppendedItems DEF BindInv
    <3> QED
      BY <3>4, <3>5 DEF BindInv
  <2> QED
    BY <2>2, <2>3, <2>4
<1> QED
  BY <1>4, <1>5, <1>6, <1>7, <1>8 DEF Edit

\* Every step keeps each hash one that the backend computed.
LEMMA BindInvStep == RunInv /\ BindInv /\ [Next]_vars => BindInv'
<1> SUFFICES ASSUME BundleOK(bundle), BindInv, [Next]_vars PROVE BindInv'
  BY DEF RunInv, StateInv
<1>1. ASSUME bundle'.bindings = bundle.bindings, ledger' = ledger PROVE BindInv'
  BY <1>1 DEF BindInv
<1>2. CASE Record
  <2>1. CASE \E kind, agent : RecordEntry(kind, agent)
    BY <1>1, <2>1 DEF RecordEntry, BundleOK, BundleFields
  <2>2. CASE \E blob : RecordFrame(blob) \/ RecordEvidence(blob)
    BY <1>1, <2>2 DEF RecordFrame, RecordEvidence, BundleOK, BundleFields
  <2>3. CASE \E t, c, actor : \E attrs \in AttributeList : RecordBinding(t, c, actor, attrs)
    BY <2>3, RecordedIsBacked
  <2>4. CASE \E governance, ordered : ExportBundle(governance, ordered)
    BY <1>1, <2>4 DEF ExportBundle, BundleOK, BundleFields
  <2> QED
    BY <1>2, <2>1, <2>2, <2>3, <2>4 DEF Record
<1>3. CASE Edit
  BY <1>3, EditsAreBacked
<1>4. CASE ChangeFile
  BY <1>1, <1>4 DEF ChangeFile
<1>5. CASE UNCHANGED exportVars
  BY <1>1, <1>5 DEF exportVars
<1> QED
  BY <1>2, <1>3, <1>4, <1>5
     DEF Next, Prepare, Disturb, Start, SkipBlobs, AcceptBlob, RejectBlob, EndBlobs,
         ConcludeBlobs, RunRest, Rerun, vars

\* Whatever was edited, no binding carries a hash that the backend did not compute.
THEOREM BindInvariant == Spec => []BindInv
BY BindInvInit, BindInvStep, RunInvariant, PTL DEF Spec

-----------------------------------------------------------------------------
(* What sorting by key keeps: the attributes of each key, in their order.  *)

\* upTo of ValuesOf, as far as n.
IsSelection(f, attrs, k, n) ==
    f = [i \in 0..n |-> IF i = 0 THEN <<>>
                        ELSE IF attrs[i][1] = k THEN Append(f[i - 1], attrs[i])
                        ELSE f[i - 1]]

\* The recursive function of ValuesOf exists, for a list of any length.
LEMMA SelectionExists ==
    ASSUME NEW attrs, NEW k, NEW n \in Nat
    PROVE  \E f : IsSelection(f, attrs, k, n)
<1> DEFINE Missing == {m \in Nat : ~\E f : IsSelection(f, attrs, k, m)}
<1>1. SUFFICES ASSUME Missing # {} PROVE FALSE
  OBVIOUS
<1>2. PICK m \in Missing : \A j \in Missing : m <= j
  <2>1. Missing \in SUBSET Nat
    OBVIOUS
  <2> HIDE DEF Missing
  <2> QED
    BY <1>1, <2>1, LeastNatural
<1>3. m # 0
  <2>1. IsSelection([i \in 0..0 |-> <<>>], attrs, k, 0)
    BY DEF IsSelection
  <2> QED
    BY <1>2, <2>1
<1>4. m - 1 \in Nat /\ m - 1 \notin Missing
  BY <1>2, <1>3
<1>5. PICK f : IsSelection(f, attrs, k, m - 1)
  BY <1>4
<1> DEFINE g == [i \in 0..m |-> IF i < m THEN f[i]
                                ELSE IF attrs[m][1] = k THEN Append(f[m - 1], attrs[m])
                                ELSE f[m - 1]]
<1>6. \A i \in 0..(m - 1) : g[i] = f[i]
  BY <1>4
<1>7. \A i \in 0..(m - 1) : f[i] = IF i = 0 THEN <<>>
                                   ELSE IF attrs[i][1] = k THEN Append(f[i - 1], attrs[i])
                                   ELSE f[i - 1]
  BY <1>5 DEF IsSelection
<1>8. ASSUME NEW i \in 0..m
      PROVE  g[i] = IF i = 0 THEN <<>>
                    ELSE IF attrs[i][1] = k THEN Append(g[i - 1], attrs[i])
                    ELSE g[i - 1]
  <2>1. i # 0 => i - 1 \in 0..(m - 1)
    BY <1>4
  <2>2. i # 0 => g[i - 1] = f[i - 1]
    BY <1>6, <2>1
  <2>3. CASE i = m
    BY <1>3, <2>2, <2>3
  <2>4. CASE i # m
    <3>1. i \in 0..(m - 1) /\ g[i] = f[i]
      BY <1>6, <2>4
    <3> HIDE DEF g
    <3> QED
      BY <1>7, <2>2, <3>1
  <2> QED
    BY <2>3, <2>4
<1>9. IsSelection(g, attrs, k, m)
  <2>1. g = [i \in 0..m |-> g[i]]
    OBVIOUS
  <2> HIDE DEF g
  <2> QED
    BY <1>8, <2>1 DEF IsSelection
<1> QED
  BY <1>2, <1>9

\* A sequence of attributes of one key.
Keyed(s, key) == IsSequence(s) /\ \A x \in ToSet(s) : x[1] = key

\* The values of a key are a sequence of attributes of that key.
LEMMA ValuesHaveTheKey ==
    ASSUME NEW attrs, attrs \in Seq(ToSet(attrs)), NEW k
    PROVE  Keyed(ValuesOf(attrs, k), k)
<1> DEFINE S == {a \in ToSet(attrs) : a[1] = k}
           n == Len(attrs)
           f == CHOOSE f : IsSelection(f, attrs, k, n)
<1>1. n \in Nat /\ \A i \in 1..n : attrs[i] \in ToSet(attrs)
  BY LenProperties DEF ToSet
<1>2. IsSelection(f, attrs, k, n)
  BY <1>1, SelectionExists
<1>3. ValuesOf(attrs, k) = f[n]
  BY DEF ValuesOf, IsSelection
<1> HIDE DEF f
<1>4. \A i \in 0..n : f[i] = IF i = 0 THEN <<>>
                             ELSE IF attrs[i][1] = k THEN Append(f[i - 1], attrs[i])
                             ELSE f[i - 1]
  BY <1>2 DEF IsSelection
<1> DEFINE Failing == {i \in 0..n : f[i] \notin Seq(S)}
<1>5. Failing = {}
  <2>1. SUFFICES ASSUME Failing # {} PROVE FALSE
    OBVIOUS
  <2>2. PICK i \in Failing : \A j \in Failing : i <= j
    <3>1. Failing \in SUBSET Nat
      BY <1>1
    <3> HIDE DEF Failing
    <3> QED
      BY <2>1, <3>1, LeastNatural
  <2>3. i # 0
    BY <1>1, <1>4, <2>2, EmptySeq
  <2>4. i - 1 \in 0..n /\ i \in 1..n /\ i - 1 \notin Failing
    BY <1>1, <2>2, <2>3
  <2>5. f[i - 1] \in Seq(S) /\ attrs[i] \in ToSet(attrs)
    BY <1>1, <2>4
  <2>6. attrs[i][1] = k => attrs[i] \in S
    BY <2>5
  <2> HIDE DEF S
  <2>7. f[i] = IF attrs[i][1] = k THEN Append(f[i - 1], attrs[i]) ELSE f[i - 1]
    BY <1>4, <2>3, <2>4
  <2>8. attrs[i][1] = k => Append(f[i - 1], attrs[i]) \in Seq(S)
    BY <2>5, <2>6, AppendProperties
  <2>9. f[i] \in Seq(S)
    BY <2>5, <2>7, <2>8
  <2> QED
    BY <2>2, <2>9
<1>6. ValuesOf(attrs, k) \in Seq(S)
  BY <1>1, <1>3, <1>5
<1>7. IsSequence(ValuesOf(attrs, k)) /\ ToSet(ValuesOf(attrs, k)) \subseteq S
  <2> HIDE DEF S
  <2> QED
    BY <1>6, IsSequenceOver, LenProperties DEF ToSet
<1> QED
  BY <1>7 DEF Keyed

\* A sequence of attributes of key 1 and one of key 2 are told by their concatenation.
LEMMA KeysSeparate ==
    ASSUME NEW s1, NEW s2, NEW t1, NEW t2,
           Keyed(s1, 1), Keyed(s2, 2), Keyed(t1, 1), Keyed(t2, 2),
           s1 \o s2 = t1 \o t2
    PROVE  s1 = t1 /\ s2 = t2
<1> DEFINE U == ToSet(s1) \cup ToSet(s2) \cup ToSet(t1) \cup ToSet(t2)
<1>1. s1 \in Seq(U) /\ s2 \in Seq(U) /\ t1 \in Seq(U) /\ t2 \in Seq(U)
  BY SeqMonotonic DEF Keyed, IsSequence
<1>2. /\ Len(s1) \in Nat /\ Len(s2) \in Nat /\ Len(t1) \in Nat /\ Len(t2) \in Nat
      /\ \A i \in 1..Len(s1) : s1[i][1] = 1
      /\ \A i \in 1..Len(s2) : s2[i][1] = 2
      /\ \A i \in 1..Len(t1) : t1[i][1] = 1
      /\ \A i \in 1..Len(t2) : t2[i][1] = 2
  BY SequenceDomain DEF Keyed, ToSet
<1> HIDE DEF U
<1>3. /\ Len(s1 \o s2) = Len(s1) + Len(s2)
      /\ \A i \in 1..Len(s1) + Len(s2) :
            (s1 \o s2)[i] = IF i <= Len(s1) THEN s1[i] ELSE s2[i - Len(s1)]
  BY <1>1, ConcatProperties
<1>4. /\ Len(t1 \o t2) = Len(t1) + Len(t2)
      /\ \A i \in 1..Len(t1) + Len(t2) :
            (t1 \o t2)[i] = IF i <= Len(t1) THEN t1[i] ELSE t2[i - Len(t1)]
  BY <1>1, ConcatProperties
<1> DEFINE a == Len(s1)
           b == Len(s2)
           c == Len(t1)
           d == Len(t2)
<1> HIDE DEF a, b, c, d
<1>5. /\ a \in Nat /\ b \in Nat /\ c \in Nat /\ d \in Nat /\ a + b = c + d
      /\ \A i \in 1..a + b : (IF i <= a THEN s1[i] ELSE s2[i - a])
                                = (IF i <= c THEN t1[i] ELSE t2[i - c])
      /\ \A i \in 1..a : s1[i][1] = 1
      /\ \A i \in 1..b : s2[i][1] = 2
      /\ \A i \in 1..c : t1[i][1] = 1
      /\ \A i \in 1..d : t2[i][1] = 2
  BY <1>2, <1>3, <1>4 DEF a, b, c, d
<1>6. ~(a < c)
  <2> SUFFICES ASSUME a < c PROVE FALSE
    OBVIOUS
  <2>1. /\ a + 1 \in 1..a + b /\ ~(a + 1 <= a) /\ (a + 1) - a = 1 /\ 1 \in 1..b
        /\ a + 1 <= c /\ a + 1 \in 1..c
    BY ONLY <1>5, a < c
  <2>2. (IF a + 1 <= a THEN s1[a + 1] ELSE s2[(a + 1) - a])
            = (IF a + 1 <= c THEN t1[a + 1] ELSE t2[(a + 1) - c])
    BY <1>5, <2>1
  <2>3. s2[1] = t1[a + 1]
    BY <2>1, <2>2
  <2>4. s2[1][1] = 2 /\ t1[a + 1][1] = 1
    BY <1>5, <2>1
  <2> QED
    BY <2>3, <2>4
<1>7. ~(c < a)
  <2> SUFFICES ASSUME c < a PROVE FALSE
    OBVIOUS
  <2>1. /\ c + 1 \in 1..a + b /\ ~(c + 1 <= c) /\ (c + 1) - c = 1 /\ 1 \in 1..d
        /\ c + 1 <= a /\ c + 1 \in 1..a
    BY ONLY <1>5, c < a
  <2>2. (IF c + 1 <= a THEN s1[c + 1] ELSE s2[(c + 1) - a])
            = (IF c + 1 <= c THEN t1[c + 1] ELSE t2[(c + 1) - c])
    BY <1>5, <2>1
  <2>3. s1[c + 1] = t2[1]
    BY <2>1, <2>2
  <2>4. t2[1][1] = 2 /\ s1[c + 1][1] = 1
    BY <1>5, <2>1
  <2> QED
    BY <2>3, <2>4
<1>8. a = c /\ b = d
  BY <1>5, <1>6, <1>7
<1>9. \A i \in 1..a : s1[i] = t1[i]
  BY <1>5, <1>8
<1>10. ASSUME NEW i \in 1..b PROVE s2[i] = t2[i]
  <2>1. i + a \in 1..a + b /\ ~(i + a <= a) /\ (i + a) - a = i
    BY <1>5
  <2> QED
    BY <1>5, <1>8, <2>1
<1> QED
  BY <1>1, <1>8, <1>9, <1>10, SeqEqual DEF a, b, c, d

\* Attributes of which the hash is the same have the same values for each key.
LEMMA SortedKeepsValues ==
    ASSUME NEW x \in AttributeList, NEW y \in AttributeList, Sorted(x) = Sorted(y),
           NEW k \in 1..2
    PROVE  ValuesOf(x, k) = ValuesOf(y, k)
<1>1. x \in Seq(ToSet(x)) /\ y \in Seq(ToSet(y))
  BY ExportAssumption
<1>2. /\ Keyed(ValuesOf(x, 1), 1) /\ Keyed(ValuesOf(x, 2), 2)
      /\ Keyed(ValuesOf(y, 1), 1) /\ Keyed(ValuesOf(y, 2), 2)
  BY <1>1, ValuesHaveTheKey
<1>3. ValuesOf(x, 1) \o ValuesOf(x, 2) = ValuesOf(y, 1) \o ValuesOf(y, 2)
  BY DEF Sorted
<1>4. ValuesOf(x, 1) = ValuesOf(y, 1) /\ ValuesOf(x, 2) = ValuesOf(y, 2)
  BY <1>2, <1>3, KeysSeparate
<1> QED
  BY <1>4

\* Tenant isolation, whatever was edited and however the options are: a binding of a
\* bundle that passes is one that the backend recorded for that tenant, and for that
\* case or none (tenant_case_scope, recompute_substrate_bindings).
THEOREM BindingsRecorded == Spec => []BindingsAreRecorded
<1>1. RunInv /\ BindInv => BindingsAreRecorded
  <2> DEFINE Actor(b) == IF b.kind = "agent" THEN b.agent ELSE b.human
  <2> SUFFICES ASSUME RunInv, BindInv, Passed, NEW b \in ToSet(bundle.bindings)
               PROVE  \E l \in ledger :
                        /\ l.tenant = bundle.tenant /\ l.case \in {None, bundle.case}
                        /\ l.message = b.message /\ l.case = b.case
                        /\ l.kind = b.kind /\ Actor(l) = Actor(b)
                        /\ \A k \in 1..2 : ValuesOf(l.attrs, k) = ValuesOf(b.attrs, k)
    BY DEF BindingsAreRecorded
  <2>1. PICK third \in BOOLEAN : report = FullReport(opts, third)
    BY DEF RunInv, ReportInv, Passed
  <2>2. FALSE \notin Fixed
    BY <2>1, PassesIff DEF Passed
  <2>3. FALSE # SameScope /\ FALSE # SubstrateBindings
    BY <2>2 DEF Fixed
  <2>4. b.tenant = bundle.tenant /\ b.case \in {None, bundle.case}
    BY <2>3 DEF SameScope
  <2>5. b.hash = BindingHash(b)
    BY <2>3 DEF SubstrateBindings, BindingHolds
  <2>6. b.attrs \in AttributeList /\ \E l \in ledger : b.hash = l.hash
    BY DEF BindInv, Backed
  <2>7. PICK l \in ledger : b.hash = l.hash
    BY <2>6
  <2>8. l.attrs \in AttributeList /\ l.hash = BindingHash(l)
    BY DEF BindInv, LedgerOK
  <2>9. /\ l.message = b.message /\ l.tenant = b.tenant /\ l.kind = b.kind
        /\ Actor(l) = Actor(b) /\ l.case = b.case /\ Sorted(l.attrs) = Sorted(b.attrs)
    BY <2>5, <2>7, <2>8 DEF BindingHash
  <2>10. \A k \in 1..2 : ValuesOf(l.attrs, k) = ValuesOf(b.attrs, k)
    BY <2>6, <2>8, <2>9, SortedKeepsValues
  <2> HIDE DEF Actor
  <2> QED
    BY <2>4, <2>9, <2>10
<1> QED
  BY <1>1, RunInvariant, BindInvariant, PTL

-----------------------------------------------------------------------------
(* No false alarm: what recording and exporting leave in the document, the *)
(* directory and the ledger as long as nobody has edited anything.         *)

\* Where the items are after an item is appended.
LEMMA AppendedAt ==
    ASSUME NEW sq, IsSequence(sq), NEW x
    PROVE  /\ IsSequence(Append(sq, x)) /\ Len(sq) \in Nat
           /\ DOMAIN sq = 1..Len(sq) /\ DOMAIN Append(sq, x) = 1..Len(sq) + 1
           /\ Len(Append(sq, x)) = Len(sq) + 1
           /\ \A i \in DOMAIN sq : Append(sq, x)[i] = sq[i]
           /\ Append(sq, x)[Len(sq) + 1] = x
           /\ \A i \in DOMAIN Append(sq, x) : i \in DOMAIN sq \/ i = Len(sq) + 1
<1> DEFINE S == ToSet(sq) \cup {x}
<1>1. sq \in Seq(S) /\ Len(sq) \in Nat /\ DOMAIN sq = 1..Len(sq)
  BY SeqMonotonic, SequenceDomain DEF IsSequence
<1> HIDE DEF S
<1>2. /\ Append(sq, x) \in Seq(S \cup {x}) /\ Len(Append(sq, x)) = Len(sq) + 1
      /\ \A i \in 1..Len(sq) : Append(sq, x)[i] = sq[i]
      /\ Append(sq, x)[Len(sq) + 1] = x
  BY <1>1, AppendProperties
<1>3. DOMAIN Append(sq, x) = 1..Len(sq) + 1
  BY <1>2, LenProperties
<1> QED
  BY <1>1, <1>2, <1>3, Appended

MetaFields == {"version", "schema", "tenant", "case", "minVersion"}

\* Envelope and metadata agree, and of the checks of other modules all accept but
\* those that compare timestamps.
EnvelopeFits(b) ==
    /\ b.version \in {<<0, 1>>, <<0, 2>>}
    /\ DOMAIN b.meta = MetaFields
    /\ b.meta.version = b.version /\ b.meta.schema = SchemaHash(b.version)
    /\ b.meta.tenant = b.tenant /\ b.meta.case = b.case
    /\ b.meta.minVersion = <<0, 1, 0>>
    /\ b.continuity = TRUE /\ b.ordered \in BOOLEAN /\ b.linked = TRUE
    /\ b.refs = {"registered"}
    /\ b.governance \in {"unclaimed", "absent", "sound", "temporal", "integrity"}

\* Entries are numbered as they came, and their agents are listed.
EntriesFit(b) ==
    /\ IsSequence(b.entries)
    /\ \A i \in DOMAIN b.entries : /\ b.entries[i].id = i
                                   /\ b.entries[i].agent \in b.agents \cup {None}

\* Frames are numbered as they came and name entries that are there.
FramesFit(b) ==
    \A i \in DOMAIN b.frames : /\ b.frames[i].id = i
                               /\ b.frames[i].actions \subseteq IdsOf(b.entries, "action")
                               /\ b.frames[i].proofs \subseteq IdsOf(b.entries, "proof")

\* Every item that has a blob has one of its own, which hashes to its root.
StoredAt(x, n, fs) == x.blob \in {n, None} /\ (x.blob # None => fs[x.blob] = x.root)

FilesFit(b, fs) ==
    /\ DOMAIN fs = Blobs /\ Len(b.frames) <= MaxSealed /\ Len(b.evidence) <= MaxSealed
    /\ \A i \in DOMAIN b.frames : StoredAt(b.frames[i], i, fs)
    /\ \A i \in DOMAIN b.evidence : StoredAt(b.evidence[i], MaxSealed + i, fs)

\* Bindings are rows of the tenant and the case, each with a number of its own.
BindingsFit(b, led) ==
    /\ IsFiniteSet(led) /\ \A l \in led : l.id \in 1..Cardinality(led)
    /\ IsSequence(b.bindings) /\ Unique(b.bindings)
    /\ \A i \in DOMAIN b.bindings :
        LET x == b.bindings[i]
        IN  /\ x \in led /\ BindingHolds(x)
            /\ x.tenant = b.tenant /\ x.case \in {None, b.case}

Fits(b, led, fs) == /\ EnvelopeFits(b) /\ EntriesFit(b) /\ FramesFit(b)
                    /\ FilesFit(b, fs) /\ BindingsFit(b, led)

UntouchedInv == edits \in Nat /\ (edits = 0 => Fits(bundle, ledger, files))

\* A new bundle fits.
LEMMA UntouchedInit == Init => UntouchedInv
<1> SUFFICES ASSUME Init PROVE UntouchedInv
  OBVIOUS
<1>1. PICK t \in Tenant, c \in Case : bundle = NewBundle(t, c)
  BY DEF Init, ExportInit
<1>2. ledger = {} /\ edits = 0 /\ files = [b \in Blobs |-> None]
  BY DEF Init, ExportInit
<1>3. /\ bundle.entries = <<>> /\ bundle.frames = <<>> /\ bundle.evidence = <<>>
      /\ bundle.bindings = <<>>
  BY <1>1 DEF NewBundle
<1>4. IsSequence(<<>>) /\ DOMAIN <<>> = {} /\ Len(<<>>) = 0
  BY EmptySeq DEF IsSequence
<1>5. EnvelopeFits(bundle)
  BY <1>1 DEF NewBundle, EnvelopeFits, SchemaHash, MetaFields
<1>6. EntriesFit(bundle) /\ FramesFit(bundle)
  BY <1>3, <1>4 DEF EntriesFit, FramesFit
<1>7. FilesFit(bundle, files)
  BY <1>2, <1>3, <1>4, ExportAssumption DEF FilesFit
<1>8. BindingsFit(bundle, ledger)
  BY <1>2, <1>3, <1>4, FS_EmptySet DEF BindingsFit, Unique
<1> QED
  BY <1>2, <1>5, <1>6, <1>7, <1>8 DEF UntouchedInv, Fits

\* A recorded entry has an id of its own and an agent that is registered.
LEMMA RecordEntryFits ==
    ASSUME BundleOK(bundle), Fits(bundle, ledger, files), NEW kind, NEW agent,
           RecordEntry(kind, agent)
    PROVE  Fits(bundle', ledger', files')
<1> DEFINE e == [kind |-> kind, id |-> Len(bundle.entries) + 1, agent |-> agent]
<1>1. /\ bundle' = [bundle EXCEPT !.entries = Append(@, e),
                                  !.agents = @ \cup ({agent} \ {None})]
      /\ ledger' = ledger /\ files' = files
  BY DEF RecordEntry
<1>2. e.id = Len(bundle.entries) + 1 /\ e.agent = agent
  OBVIOUS
<1> HIDE DEF e
<1>3. /\ bundle'.entries = Append(bundle.entries, e)
      /\ bundle'.agents = bundle.agents \cup ({agent} \ {None})
      /\ \A f \in BundleFields \ {"entries", "agents"} : bundle'[f] = bundle[f]
  BY <1>1 DEF BundleOK, BundleFields
<1>4. /\ IsSequence(Append(bundle.entries, e))
      /\ \A i \in DOMAIN bundle.entries : Append(bundle.entries, e)[i] = bundle.entries[i]
      /\ Append(bundle.entries, e)[Len(bundle.entries) + 1] = e
      /\ \A i \in DOMAIN Append(bundle.entries, e) :
            i \in DOMAIN bundle.entries \/ i = Len(bundle.entries) + 1
      /\ ToSet(bundle.entries) \subseteq ToSet(Append(bundle.entries, e))
  BY AppendedAt, AppendedItems DEF Fits, EntriesFit
<1>5. EntriesFit(bundle')
  BY <1>2, <1>3, <1>4 DEF Fits, EntriesFit
<1>6. FramesFit(bundle')
  <2>1. \A k : IdsOf(bundle.entries, k) \subseteq IdsOf(bundle'.entries, k)
    BY <1>3, <1>4 DEF IdsOf
  <2>2. bundle'.frames = bundle.frames
    BY <1>3 DEF BundleFields
  <2> QED
    BY <2>1, <2>2 DEF Fits, FramesFit
<1>7. EnvelopeFits(bundle') /\ FilesFit(bundle', files') /\ BindingsFit(bundle', ledger')
  BY <1>1, <1>3 DEF Fits, EnvelopeFits, FilesFit, BindingsFit, BundleFields
<1> QED
  BY <1>5, <1>6, <1>7 DEF Fits

\* A recorded frame refers to entries that are there and to a blob with its root.
LEMMA RecordFrameFits ==
    ASSUME BundleOK(bundle), Fits(bundle, ledger, files), NEW blob, RecordFrame(blob)
    PROVE  Fits(bundle', ledger', files')
<1> DEFINE n == Len(bundle.frames) + 1
           f == [id |-> n, blob |-> blob, root |-> n,
                 actions |-> IdsOf(bundle.entries, "action"),
                 proofs |-> IdsOf(bundle.entries, "proof")]
<1>1. /\ bundle' = [bundle EXCEPT !.frames = Append(@, f)] /\ ledger' = ledger
      /\ blob \in {n, None} /\ Len(bundle.frames) < MaxSealed
      /\ files' = IF blob = None THEN files ELSE [files EXCEPT ![blob] = n]
  BY DEF RecordFrame
<1>2. /\ f.id = n /\ f.blob = blob /\ f.root = n
      /\ f.actions = IdsOf(bundle.entries, "action")
      /\ f.proofs = IdsOf(bundle.entries, "proof")
  OBVIOUS
<1> HIDE DEF f
<1>3. /\ bundle'.frames = Append(bundle.frames, f)
      /\ \A x \in BundleFields \ {"frames"} : bundle'[x] = bundle[x]
  BY <1>1 DEF BundleOK, BundleFields
<1>4. /\ Len(bundle.frames) \in Nat /\ DOMAIN bundle.frames = 1..Len(bundle.frames)
      /\ Len(bundle'.frames) = n
      /\ \A i \in DOMAIN bundle.frames : bundle'.frames[i] = bundle.frames[i]
      /\ bundle'.frames[n] = f
      /\ \A i \in DOMAIN bundle'.frames : i \in DOMAIN bundle.frames \/ i = n
  BY <1>3, AppendedAt DEF BundleOK
<1>5. FramesFit(bundle')
  BY <1>2, <1>3, <1>4 DEF Fits, FramesFit, BundleFields
<1>6. FilesFit(bundle', files')
  <2>1. MaxSealed \in Nat /\ DOMAIN files = Blobs /\ Len(bundle.frames) < MaxSealed
    BY <1>1, ExportAssumption DEF Fits, FilesFit
  <2>2. n \in Blobs
    BY <1>4, <2>1 DEF Blobs
  <2>3. /\ DOMAIN files' = Blobs /\ (blob # None => files'[blob] = n)
        /\ \A i \in Blobs \ {n} : files'[i] = files[i]
    BY <1>1, <2>1, <2>2
  <2>4. ASSUME NEW i \in DOMAIN bundle.frames PROVE StoredAt(bundle'.frames[i], i, files')
    <3>1. i \in Blobs \ {n} /\ StoredAt(bundle.frames[i], i, files)
      BY <1>4, <2>1 DEF Blobs, Fits, FilesFit
    <3> QED
      BY <1>4, <2>3, <3>1 DEF StoredAt
  <2>5. bundle'.evidence = bundle.evidence
    BY <1>3 DEF BundleFields
  <2>6. ASSUME NEW i \in DOMAIN bundle.evidence
        PROVE  StoredAt(bundle'.evidence[i], MaxSealed + i, files')
    <3>1. i \in 1..Len(bundle.evidence) /\ Len(bundle.evidence) \in Nat
          /\ Len(bundle.evidence) <= MaxSealed
      BY SequenceDomain DEF BundleOK, Fits, FilesFit
    <3>2. MaxSealed + i \in Blobs \ {n}
      BY <1>4, <2>1, <3>1 DEF Blobs
    <3>3. StoredAt(bundle.evidence[i], MaxSealed + i, files)
      BY DEF Fits, FilesFit
    <3> QED
      BY <2>3, <2>5, <3>2, <3>3 DEF StoredAt
  <2>7. StoredAt(bundle'.frames[n], n, files')
    BY <1>1, <1>2, <1>4, <2>3 DEF StoredAt
  <2>8. Len(bundle'.frames) <= MaxSealed /\ Len(bundle'.evidence) <= MaxSealed
    BY <1>4, <2>1, <2>5 DEF Fits, FilesFit
  <2> HIDE DEF n
  <2> QED
    BY <1>4, <2>3, <2>4, <2>5, <2>6, <2>7, <2>8 DEF FilesFit
<1>7. EnvelopeFits(bundle') /\ EntriesFit(bundle') /\ BindingsFit(bundle', ledger')
  BY <1>1, <1>3 DEF Fits, EnvelopeFits, EntriesFit, BindingsFit, BundleFields
<1> QED
  BY <1>5, <1>6, <1>7 DEF Fits

\* Recorded evidence refers to a blob with its root.
LEMMA RecordEvidenceFits ==
    ASSUME BundleOK(bundle), Fits(bundle, ledger, files), NEW blob, RecordEvidence(blob)
    PROVE  Fits(bundle', ledger', files')
<1> DEFINE k == Len(bundle.evidence) + 1
           n == MaxSealed + Len(bundle.evidence) + 1
           e == [blob |-> blob, root |-> n]
<1>1. /\ bundle' = [bundle EXCEPT !.evidence = Append(@, e)] /\ ledger' = ledger
      /\ blob \in {n, None} /\ Len(bundle.evidence) < MaxSealed
      /\ files' = IF blob = None THEN files ELSE [files EXCEPT ![blob] = n]
  BY DEF RecordEvidence
<1>2. e.blob = blob /\ e.root = n
  OBVIOUS
<1> HIDE DEF e
<1>3. /\ bundle'.evidence = Append(bundle.evidence, e)
      /\ \A x \in BundleFields \ {"evidence"} : bundle'[x] = bundle[x]
  BY <1>1 DEF BundleOK, BundleFields
<1>4. /\ Len(bundle.evidence) \in Nat /\ DOMAIN bundle.evidence = 1..Len(bundle.evidence)
      /\ Len(bundle'.evidence) = k
      /\ \A i \in DOMAIN bundle.evidence : bundle'.evidence[i] = bundle.evidence[i]
      /\ bundle'.evidence[k] = e
      /\ \A i \in DOMAIN bundle'.evidence : i \in DOMAIN bundle.evidence \/ i = k
  BY <1>3, AppendedAt DEF BundleOK
<1>5. FilesFit(bundle', files')
  <2>1. MaxSealed \in Nat /\ DOMAIN files = Blobs /\ Len(bundle.evidence) < MaxSealed
    BY <1>1, ExportAssumption DEF Fits, FilesFit
  <2>2. n \in Blobs /\ n = MaxSealed + k
    BY <1>4, <2>1 DEF Blobs
  <2>3. /\ DOMAIN files' = Blobs /\ (blob # None => files'[blob] = n)
        /\ \A i \in Blobs \ {n} : files'[i] = files[i]
    BY <1>1, <2>1, <2>2
  <2>4. ASSUME NEW i \in DOMAIN bundle.evidence
        PROVE  StoredAt(bundle'.evidence[i], MaxSealed + i, files')
    <3>1. MaxSealed + i \in Blobs \ {n} /\ StoredAt(bundle.evidence[i], MaxSealed + i, files)
      BY <1>4, <2>1 DEF Blobs, Fits, FilesFit
    <3> QED
      BY <1>4, <2>3, <3>1 DEF StoredAt
  <2>5. bundle'.frames = bundle.frames
    BY <1>3 DEF BundleFields
  <2>6. ASSUME NEW i \in DOMAIN bundle.frames PROVE StoredAt(bundle'.frames[i], i, files')
    <3>1. i \in 1..Len(bundle.frames) /\ Len(bundle.frames) \in Nat
          /\ Len(bundle.frames) <= MaxSealed
      BY SequenceDomain DEF BundleOK, Fits, FilesFit
    <3>2. i \in Blobs \ {n}
      BY <1>4, <2>1, <3>1 DEF Blobs
    <3>3. StoredAt(bundle.frames[i], i, files)
      BY DEF Fits, FilesFit
    <3> QED
      BY <2>3, <2>5, <3>2, <3>3 DEF StoredAt
  <2>7. StoredAt(bundle'.evidence[k], MaxSealed + k, files')
    BY <1>1, <1>2, <1>4, <2>2, <2>3 DEF StoredAt
  <2>8. Len(bundle'.frames) <= MaxSealed /\ Len(bundle'.evidence) <= MaxSealed
    BY <1>4, <2>1, <2>5 DEF Fits, FilesFit
  <2> HIDE DEF n, k
  <2> QED
    BY <1>4, <2>3, <2>4, <2>5, <2>6, <2>7, <2>8 DEF FilesFit
<1>6. /\ EnvelopeFits(bundle') /\ EntriesFit(bundle') /\ FramesFit(bundle')
      /\ BindingsFit(bundle', ledger')
  BY <1>1, <1>3 DEF Fits, EnvelopeFits, EntriesFit, FramesFit, BindingsFit, BundleFields
<1> QED
  BY <1>5, <1>6 DEF Fits

\* A recorded binding has the hash of its fields, and is left out of the bundle
\* if it is of another tenant or case.
LEMMA RecordBindingFits ==
    ASSUME BundleOK(bundle), Fits(bundle, ledger, files),
           NEW t, NEW c, NEW actor \in Actors, NEW attrs, RecordBinding(t, c, actor, attrs)
    PROVE  Fits(bundle', ledger', files')
<1> DEFINE n == Cardinality(ledger) + 1
           b == [id |-> n, message |-> n, tenant |-> t, case |-> c, kind |-> actor.kind,
                 agent |-> actor.agent, human |-> actor.human, attrs |-> attrs]
           row == [id |-> n, message |-> n, tenant |-> t, case |-> c, kind |-> actor.kind,
                   agent |-> actor.agent, human |-> actor.human, attrs |-> attrs,
                   hash |-> BindingHash(b)]
<1>1. /\ ledger' = ledger \cup {row} /\ files' = files
      /\ bundle' = IF t = bundle.tenant /\ c \in {None, bundle.case}
                   THEN [bundle EXCEPT !.bindings = Append(@, row)]
                   ELSE bundle
  BY DEF RecordBinding
<1>2. IsFiniteSet(ledger) /\ Cardinality(ledger) \in Nat /\ n \in Nat \ {0}
  BY FS_CardinalityType DEF Fits, BindingsFit
<1>3. /\ row.id = n /\ row.tenant = t /\ row.case = c
      /\ row.message = n /\ row.hash = BindingHash(b) /\ row.kind = actor.kind
      /\ row.agent = actor.agent /\ row.human = actor.human
  OBVIOUS
<1>4. BindingHash(row) = BindingHash(b)
  BY DEF BindingHash
<1>5. \/ actor.kind = "agent" /\ actor.agent # None
      \/ actor.kind = "human" /\ actor.human # None
  BY ExportAssumption DEF Actors
<1> HIDE DEF n, row, b
<1>6. BindingHolds(row)
  BY <1>2, <1>3, <1>4, <1>5, ExportAssumption DEF BindingHolds
<1>7. row \notin ledger
  BY <1>2, <1>3 DEF Fits, BindingsFit, n
<1>8. IsFiniteSet(ledger') /\ Cardinality(ledger') = n
  BY <1>1, <1>2, <1>7, FS_AddElement DEF n
<1>9. \A l \in ledger' : l.id \in 1..Cardinality(ledger')
  <2>1. \A l \in ledger : l.id \in 1..n
    BY <1>2 DEF Fits, BindingsFit, n
  <2> QED
    BY <1>1, <1>2, <1>3, <1>8, <2>1
<1>10. CASE bundle' = bundle
  BY <1>1, <1>8, <1>9, <1>10 DEF Fits, BindingsFit
<1>11. CASE /\ t = bundle.tenant /\ c \in {None, bundle.case}
            /\ bundle' = [bundle EXCEPT !.bindings = Append(@, row)]
  <2>1. /\ bundle'.bindings = Append(bundle.bindings, row)
        /\ \A x \in BundleFields \ {"bindings"} : bundle'[x] = bundle[x]
    BY <1>11 DEF BundleOK, BundleFields
  <2> DEFINE m == Len(bundle.bindings) + 1
  <2>2. /\ IsSequence(bundle'.bindings) /\ bundle'.bindings[m] = row
        /\ \A i \in DOMAIN bundle.bindings : bundle'.bindings[i] = bundle.bindings[i]
        /\ \A i \in DOMAIN bundle'.bindings : i \in DOMAIN bundle.bindings \/ i = m
    BY <2>1, AppendedAt DEF Fits, BindingsFit
  <2> HIDE DEF m
  <2>3. ASSUME NEW i \in DOMAIN bundle.bindings
        PROVE  /\ bundle.bindings[i] \in ledger' /\ BindingHolds(bundle.bindings[i])
               /\ bundle.bindings[i].tenant = bundle'.tenant
               /\ bundle.bindings[i].case \in {None, bundle'.case}
               /\ bundle.bindings[i].id # n
    <3>1. bundle.bindings[i] \in ledger /\ bundle.bindings[i].id \in 1..Cardinality(ledger)
      BY DEF Fits, BindingsFit
    <3>2. bundle'.tenant = bundle.tenant /\ bundle'.case = bundle.case
      BY <2>1 DEF BundleFields
    <3>3. bundle.bindings[i].id # n
      BY <1>2, <3>1 DEF n
    <3> QED
      BY <1>1, <3>1, <3>2, <3>3 DEF Fits, BindingsFit
  <2>4. row \in ledger' /\ row.tenant = bundle'.tenant /\ row.case \in {None, bundle'.case}
    BY <1>1, <1>3, <1>11, <2>1 DEF BundleFields
  <2>5. Unique(bundle'.bindings)
    <3>1. Unique(bundle.bindings)
      BY DEF Fits, BindingsFit
    <3> QED
      BY <1>3, <2>2, <2>3, <3>1 DEF Unique
  <2>6. BindingsFit(bundle', ledger')
    BY <1>6, <1>8, <1>9, <2>2, <2>3, <2>4, <2>5 DEF BindingsFit
  <2>7. /\ EnvelopeFits(bundle') /\ EntriesFit(bundle') /\ FramesFit(bundle')
        /\ FilesFit(bundle', files')
    BY <1>1, <2>1 DEF Fits, EnvelopeFits, EntriesFit, FramesFit, FilesFit, BundleFields
  <2> QED
    BY <2>6, <2>7 DEF Fits
<1> QED
  BY <1>1, <1>10, <1>11

\* The versions and the governance graph that the exporter writes last fit.
LEMMA ExportBundleFits ==
    ASSUME BundleOK(bundle), Fits(bundle, ledger, files),
           NEW governance \in {"unclaimed", "absent", "sound", "temporal", "integrity"},
           NEW ordered \in BOOLEAN, ExportBundle(governance, ordered)
    PROVE  Fits(bundle', ledger', files')
<1>1. PICK v \in {<<0, 1>>, <<0, 2>>} :
          /\ bundle' = [bundle EXCEPT !.version = v, !.meta.version = v,
                            !.meta.schema = SchemaHash(v), !.governance = governance,
                            !.ordered = ordered]
          /\ ledger' = ledger /\ files' = files
  BY DEF ExportBundle
<1>2. /\ bundle'.version = v /\ bundle'.governance = governance /\ bundle'.ordered = ordered
      /\ bundle'.meta = [bundle.meta EXCEPT !.version = v, !.schema = SchemaHash(v)]
      /\ \A x \in BundleFields \ {"version", "governance", "meta", "ordered"} :
            bundle'[x] = bundle[x]
  BY <1>1 DEF BundleOK, BundleFields
<1>3. /\ bundle'.meta.version = v /\ bundle'.meta.schema = SchemaHash(v)
      /\ \A x \in MetaFields \ {"version", "schema"} : bundle'.meta[x] = bundle.meta[x]
      /\ DOMAIN bundle'.meta = MetaFields
  <2>1. DOMAIN bundle.meta = MetaFields
    BY DEF Fits, EnvelopeFits
  <2> QED
    BY <1>2, <2>1 DEF MetaFields
<1>4. EnvelopeFits(bundle')
  BY <1>2, <1>3 DEF Fits, EnvelopeFits, BundleFields, MetaFields
<1>5. /\ EntriesFit(bundle') /\ FramesFit(bundle') /\ FilesFit(bundle', files')
      /\ BindingsFit(bundle', ledger')
  BY <1>1, <1>2 DEF Fits, EntriesFit, FramesFit, FilesFit, BindingsFit, BundleFields
<1> QED
  BY <1>4, <1>5 DEF Fits

\* Every step but an edit keeps the bundle as it should be.
LEMMA UntouchedStep == RunInv /\ UntouchedInv /\ [Next]_vars => UntouchedInv'
<1> SUFFICES ASSUME BundleOK(bundle), UntouchedInv, [Next]_vars PROVE UntouchedInv'
  BY DEF RunInv, StateInv
<1>1. CASE Record
  <2>1. edits' = edits
    BY <1>1 DEF Record, RecordEntry, RecordFrame, RecordEvidence, RecordBinding, ExportBundle
  <2> SUFFICES ASSUME Fits(bundle, ledger, files) PROVE Fits(bundle', ledger', files')
    BY <2>1 DEF UntouchedInv
  <2> QED
    BY <1>1, RecordEntryFits, RecordFrameFits, RecordEvidenceFits, RecordBindingFits,
       ExportBundleFits DEF Record
<1>2. CASE Edit \/ ChangeFile
  BY <1>2 DEF UntouchedInv, Edit, ChangeFile
<1>3. CASE UNCHANGED exportVars
  BY <1>3 DEF exportVars, UntouchedInv
<1> QED
  BY <1>1, <1>2, <1>3
     DEF Next, Prepare, Disturb, Start, SkipBlobs, AcceptBlob, RejectBlob, EndBlobs,
         ConcludeBlobs, RunRest, Rerun, vars

\* As long as nobody edits anything, the document fits the ledger and the directory.
THEOREM UntouchedInvariant == Spec => []UntouchedInv
BY UntouchedInit, UntouchedStep, RunInvariant, PTL DEF Spec

\* An envelope that fits passes check 1.
LEMMA FittingSchema == EnvelopeFits(bundle) => SchemaParse
<1> SUFFICES ASSUME EnvelopeFits(bundle) PROVE SchemaParse
  OBVIOUS
<1>1. SemverAtLeast(<<0, 4, 0>>, <<0, 1, 0>>)
  <2>1. <<0, 1, 0>> # Malformed
    BY ExportAssumption
  <2>2. ASSUME NEW i \in 1..3 PROVE <<0, 4, 0>>[i] >= <<0, 1, 0>>[i]
    <3>1. i = 1 \/ i = 2 \/ i = 3
      OBVIOUS
    <3> QED
      BY <3>1
  <2> QED
    BY <2>1, <2>2 DEF SemverAtLeast
<1> QED
  BY <1>1 DEF SchemaParse, EnvelopeFits, VerifierVersion

\* An entry's number is its id, so ids are unique and agents listed.
LEMMA FittingItems ==
    ASSUME BundleOK(bundle), Fits(bundle, ledger, files)
    PROVE  FrameRefsResolve /\ NoOrphans /\ SameScope /\ SubstrateBindings
<1>1. FrameRefsResolve
  BY DEF FrameRefsResolve, Fits, FramesFit, ToSet
<1>2. Unique(bundle.entries) /\ Unique(bundle.frames) /\ Unique(bundle.bindings)
  BY DEF Unique, Fits, EntriesFit, FramesFit, BindingsFit
<1>3. \A e \in ToSet(bundle.entries) : e.agent \in bundle.agents \cup {None}
  BY DEF Fits, EntriesFit, ToSet
<1>4. NoOrphans
  BY <1>2, <1>3 DEF NoOrphans
<1>5. SameScope /\ SubstrateBindings
  BY DEF SameScope, SubstrateBindings, Fits, BindingsFit, ToSet
<1> QED
  BY <1>1, <1>4, <1>5

\* The blobs of a bundle that fits match their roots.
LEMMA FittingBlobs ==
    ASSUME BundleOK(bundle), Fits(bundle, ledger, files)
    PROVE  BlobsHold
<1> DEFINE fs == [i \in DOMAIN bundle.frames |-> [blob |-> bundle.frames[i].blob,
                                                 root |-> bundle.frames[i].root]]
<1>1. Len(bundle.frames) \in Nat /\ DOMAIN bundle.frames = 1..Len(bundle.frames)
  BY SequenceDomain DEF BundleOK
<1>2. IsSequence(fs)
  <2>1. fs \in [1..Len(bundle.frames) -> {fs[i] : i \in 1..Len(bundle.frames)}]
    BY <1>1
  <2>2. fs \in Seq({fs[i] : i \in 1..Len(bundle.frames)})
    BY <1>1, <2>1, SeqDef
  <2> QED
    BY <2>2, IsSequenceOver
<1>3. \A i \in DOMAIN fs : BlobHolds(fs[i])
  BY DEF BlobHolds, Fits, FilesFit, StoredAt
<1>4. \A i \in DOMAIN bundle.evidence : BlobHolds(bundle.evidence[i])
  BY DEF BlobHolds, Fits, FilesFit, StoredAt
<1>5. Sealed = fs \o bundle.evidence
  BY DEF Sealed
<1> HIDE DEF fs
<1>6. \A x \in ToSet(Sealed) : BlobHolds(x)
  <2>1. ToSet(Sealed) = ToSet(fs) \cup ToSet(bundle.evidence)
    BY <1>2, <1>5, ConcatenatedSet DEF BundleOK
  <2> QED
    BY <1>3, <1>4, <2>1 DEF ToSet
<1> QED
  BY <1>6 DEF BlobsHold, ToSet

\* Where each result is in a complete report.
LEMMA ElevenAre ==
    ASSUME NEW third, NEW a
    PROVE  /\ Eleven(third, a)[1] = SchemaParse /\ Eleven(third, a)[2] = bundle.ordered
           /\ Eleven(third, a)[3] = third /\ Eleven(third, a)[4] = bundle.linked
           /\ Eleven(third, a)[5] = FrameRefsResolve
           /\ Eleven(third, a)[6] = bundle.continuity
           /\ Eleven(third, a)[7] = NoOrphans /\ Eleven(third, a)[8] = RefsRegistered
           /\ Eleven(third, a)[9] = SameScope /\ Eleven(third, a)[10] = SubstrateBindings
           /\ Eleven(third, a)[11] = a
<1> DEFINE b2 == bundle.ordered
           b4 == bundle.linked
           b6 == bundle.continuity
           all(t, x) == <<SchemaParse, b2, t, b4, FrameRefsResolve, b6, NoOrphans,
                          RefsRegistered, SameScope, SubstrateBindings, x>>
<1>1. Eleven(third, a) = all(third, a)
  BY Zenon DEF Eleven
<1> HIDE DEF b2, b4, b6
<1>2. /\ all(third, a)[1] = SchemaParse /\ all(third, a)[2] = b2 /\ all(third, a)[3] = third
      /\ all(third, a)[4] = b4 /\ all(third, a)[5] = FrameRefsResolve
      /\ all(third, a)[6] = b6 /\ all(third, a)[7] = NoOrphans
      /\ all(third, a)[8] = RefsRegistered /\ all(third, a)[9] = SameScope
      /\ all(third, a)[10] = SubstrateBindings /\ all(third, a)[11] = a
  OBVIOUS
<1> HIDE DEF all
<1> QED
  BY <1>1, <1>2 DEF b2, b4, b6

\* No false alarm: of the checks of a bundle that nobody has edited none fails but the
\* two that compare timestamps as strings, when that is not the order of time, the one
\* that judges authority, and those with nothing to check in strict mode (verify).
THEOREM NoFalseAlarms == Spec => []NoFalseAlarm
<1>1. RunInv /\ UntouchedInv => NoFalseAlarm
  <2> SUFFICES ASSUME RunInv, UntouchedInv, at = "done", edits = 0, writes = 0,
                      NEW k \in 1..11, ~report.checks[k]
               PROVE  MayFail(k)
    BY DEF NoFalseAlarm
  <2>1. PICK third \in BOOLEAN : report = FullReport(opts, third) /\ ThirdOK(opts, third)
    BY DEF RunInv, ReportInv
  <2>2. BundleOK(bundle) /\ Fits(bundle, ledger, files)
    BY DEF RunInv, StateInv, UntouchedInv
  <2> DEFINE a == AuthorityIn(opts.strict)
  <2>3. ~Eleven(third, a)[k]
    BY <2>1 DEF FullReport, ReportOf
  <2>4. SchemaParse /\ FrameRefsResolve /\ NoOrphans /\ SameScope /\ SubstrateBindings
    BY <2>2, FittingSchema, FittingItems DEF Fits
  <2>5. bundle.linked /\ bundle.continuity /\ RefsRegistered
    BY <2>2 DEF Fits, EnvelopeFits, RefsRegistered
  <2>6. ASSUME k \in {1, 4, 5, 6, 7, 8, 9, 10} PROVE Eleven(third, a)[k]
    <3> HIDE DEF a
    <3> DEFINE b4 == bundle.linked
               b6 == bundle.continuity
    <3>1. b4 /\ b6
      BY <2>5
    <3>2. /\ Eleven(third, a)[1] = SchemaParse /\ Eleven(third, a)[4] = b4
          /\ Eleven(third, a)[5] = FrameRefsResolve /\ Eleven(third, a)[6] = b6
          /\ Eleven(third, a)[7] = NoOrphans /\ Eleven(third, a)[8] = RefsRegistered
          /\ Eleven(third, a)[9] = SameScope /\ Eleven(third, a)[10] = SubstrateBindings
      BY ElevenAre
    <3> HIDE DEF b4, b6
    <3> DEFINE e == Eleven(third, a)
    <3>3. e[1] /\ e[4] /\ e[5] /\ e[6] /\ e[7] /\ e[8] /\ e[9] /\ e[10]
      BY Zenon, <2>4, <2>5, <3>1, <3>2
    <3> HIDE DEF e
    <3>4. e[k]
      BY Zenon, <2>6, <3>3
    <3> QED
      BY Zenon, <3>4 DEF e
  <2>7. k = 2 \/ k = 3 \/ k = 11
    BY <2>3, <2>6
  <2>8. CASE k = 2
    <3>1. Eleven(third, a)[2] = bundle.ordered
      BY ElevenAre
    <3> QED
      BY <2>3, <2>8, <3>1 DEF MayFail
  <2>9. CASE k = 3
    <3>1. ~third
      <4> HIDE DEF a
      <4> QED
        BY <2>3, <2>9, ElevenAre
    <3>2. BlobsHold
      BY <2>2, FittingBlobs
    <3>3. (opts.payloads /\ writes = 0) => third = BlobsHold
      BY <2>1 DEF ThirdOK
    <3>4. ~opts.payloads
      BY Zenon, <3>1, <3>2, <3>3
    <3> QED
      BY <2>1, <2>9, <3>1, <3>4 DEF ThirdOK, MayFail
  <2>10. CASE k = 11
    <3>1. ~a
      <4> HIDE DEF a
      <4> QED
        BY <2>3, <2>10, ElevenAre
    <3>2. bundle.governance \in {"unclaimed", "absent", "sound", "temporal", "integrity"}
      BY <2>2 DEF Fits, EnvelopeFits
    <3> QED
      BY <2>10, <3>1, <3>2 DEF AuthorityIn, MayFail
  <2> QED
    BY <2>7, <2>8, <2>9, <2>10
<1> QED
  BY <1>1, RunInvariant, UntouchedInvariant, PTL

-----------------------------------------------------------------------------
(* What the results are a function of.                                     *)

\* What check 3 is to say.
DueThird(o) == IF o.payloads THEN BlobsHold ELSE ~o.strict

\* However files change under an invocation, only the result of check 3, and the verdict
\* with it, can differ: the other ten results, the failure mode and the warning are a
\* function of the bundle and the options.  If no file changes, check 3's is one of the
\* files too, and nothing of earlier invocations is left in any result.  (The messages
\* beside the results are not: check 4's may name one broken session or another.)
THEOREM ResultsDetermined ==
    Spec => [](/\ at = "done" =>
                    /\ report \in {FullReport(opts, TRUE), FullReport(opts, FALSE)}
                    /\ writes = 0 => report = FullReport(opts, DueThird(opts))
               /\ \A i \in DOMAIN earlier :
                    LET o == earlier[i].opts
                    IN  /\ earlier[i].report \in {FullReport(o, TRUE), FullReport(o, FALSE)}
                        /\ writes = 0 => earlier[i].report = FullReport(o, DueThird(o)))
<1> DEFINE Due(o, rep) == /\ rep \in {FullReport(o, TRUE), FullReport(o, FALSE)}
                          /\ writes = 0 => rep = FullReport(o, DueThird(o))
<1>1. ASSUME RunInv
      PROVE  /\ at = "done" => Due(opts, report)
             /\ \A i \in DOMAIN earlier : Due(earlier[i].opts, earlier[i].report)
  <2>1. ASSUME NEW o, NEW rep, NEW third \in BOOLEAN, ThirdOK(o, third),
               rep = FullReport(o, third)
        PROVE  Due(o, rep)
    <3>1. rep \in {FullReport(o, TRUE), FullReport(o, FALSE)}
      BY <2>1
    <3>2. writes = 0 => third = DueThird(o)
      BY <2>1 DEF ThirdOK, DueThird
    <3> QED
      BY <2>1, <3>1, <3>2
  <2> HIDE DEF Due
  <2>2. at = "done" => Due(opts, report)
    BY <1>1, <2>1 DEF RunInv, ReportInv
  <2>3. ASSUME NEW i \in DOMAIN earlier
        PROVE  Due(earlier[i].opts, earlier[i].report)
    BY <1>1, <2>1 DEF RunInv, EarlierInv
  <2> QED
    BY <2>2, <2>3
<1> QED
  BY <1>1, RunInvariant, PTL

-----------------------------------------------------------------------------
(* An invocation ends.                                                     *)

\* What is left of an invocation: a step for each item of check 3 not read yet, one
\* for the end of check 3 and one for the other checks.
StepsLeft == CASE at = "blobs" -> Len(Sealed) + 3 - next
               [] at = "rest" -> 1
               [] OTHER -> 0

\* While an invocation runs, every step either is a change of the files from outside,
\* which leaves the verifier where it was, or leaves less to do: however often the files
\* change under it, the verifier reads each of them at most once per item and ends.
THEOREM InvocationDescends ==
    Spec => [][(at \in {"blobs", "rest"}) =>
                 /\ StepsLeft \in Nat /\ StepsLeft' \in Nat
                 /\ \/ StepsLeft' < StepsLeft
                    \/ UNCHANGED runVars /\ StepsLeft' = StepsLeft]_vars
<1>1. ASSUME RunInv, BoundsInv, Next, at \in {"blobs", "rest"}
      PROVE  /\ StepsLeft \in Nat /\ StepsLeft' \in Nat
             /\ StepsLeft' < StepsLeft \/ (UNCHANGED runVars /\ StepsLeft' = StepsLeft)
  <2>0. Len(Sealed) \in Nat /\ next \in Nat \ {0} /\ next <= Len(Sealed) + 1
    BY <1>1, SealedIsSequence DEF RunInv, StateInv, BoundsInv
  <2>1. StepsLeft \in Nat /\ (at = "blobs" => StepsLeft >= 2) /\ (at = "rest" => StepsLeft = 1)
    BY <1>1, <2>0 DEF StepsLeft
  <2>2. CASE Disturb
    <3>1. UNCHANGED runVars /\ UNCHANGED <<at, next, bundle>>
      BY <2>2 DEF Disturb, ChangeFile, runVars
    <3>2. Sealed' = Sealed
      BY <3>1, DocumentFrame
    <3> QED
      BY <2>1, <3>1, <3>2 DEF StepsLeft
  <2>3. CASE AcceptBlob
    <3>1. /\ at = "blobs" /\ at' = "blobs" /\ next' = next + 1 /\ next <= Len(Sealed)
          /\ bundle' = bundle
      BY <2>3 DEF AcceptBlob, ReadingBlobs, exportVars
    <3>2. Sealed' = Sealed
      BY <3>1, DocumentFrame
    <3> QED
      BY <2>0, <3>1, <3>2 DEF StepsLeft
  <2>4. CASE SkipBlobs \/ RejectBlob \/ EndBlobs
    <3>1. at = "blobs" /\ at' = "rest"
      BY <2>4 DEF SkipBlobs, RejectBlob, EndBlobs, ConcludeBlobs, ReadingBlobs
    <3> QED
      BY <2>1, <3>1 DEF StepsLeft
  <2>5. CASE RunRest
    <3>1. at = "rest" /\ at' = "done"
      BY <2>5 DEF RunRest
    <3> QED
      BY <2>1, <3>1 DEF StepsLeft
  <2>6. ~Prepare /\ ~Rerun /\ \A o \in Options : ~Start(o)
    BY <1>1 DEF Prepare, Rerun, Start
  <2> QED
    BY <1>1, <2>2, <2>3, <2>4, <2>5, <2>6 DEF Next
<1>2. RunInv /\ BoundsInv /\ [Next]_vars =>
        [(at \in {"blobs", "rest"}) =>
            /\ StepsLeft \in Nat /\ StepsLeft' \in Nat
            /\ StepsLeft' < StepsLeft \/ (UNCHANGED runVars /\ StepsLeft' = StepsLeft)]_vars
  BY <1>1
<1> QED
  BY <1>2, BoundsInit, BoundsStep, RunInvInit, RunInvStep, PTL DEF Spec
=============================================================================
