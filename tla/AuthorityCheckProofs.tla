------------------------ MODULE AuthorityCheckProofs ------------------------
(***************************************************************************)
(* Proofs about check 11 for any agents, humans and scopes, any number of  *)
(* events, actions, instants and edits, with and without fractions of a    *)
(* second.  GraphInv is the invariant of the four phases.                  *)
(***************************************************************************)
EXTENDS AuthorityCheck, HashChainProofs

-----------------------------------------------------------------------------
(* The decisive event: candidates.last() after the stable sort.            *)

\* Timestamps of half seconds have a place in the order of the strings, at most
\* one past the clock's last instant.
LEMMA PlaceBounded ==
    ASSUME NEW t \in 0..MaxTime
    PROVE  StringPlace(t) \in Int /\ StringPlace(t) <= MaxTime + 1
BY GovernanceAssumption, ExportAssumption DEF StringPlace

\* Among some events of a typed document one comes last.
LEMMA SomeEventIsLast ==
    ASSUME NEW evs, EventsOK(evs), NEW S \in SUBSET DOMAIN evs, S # {}
    PROVE  \E i \in S : \A j \in S : NotAfter(evs, j, i)
<1> DEFINE place(i) == StringPlace(evs[i].at)
           late(i) == MaxTime + 1 - place(i)
<1>1. /\ Len(evs) \in Nat /\ \A i \in S : i \in 1..Len(evs)
      /\ \A i \in S : place(i) \in Int /\ late(i) \in Nat
  BY PlaceBounded, ExportAssumption DEF EventsOK, EventOK
<1> HIDE DEF place
<1>2. PICK i0 \in S : \A j \in S : late(i0) <= late(j)
  <2> DEFINE L == {late(j) : j \in S}
  <2>1. L \in SUBSET Nat /\ L # {}
    BY <1>1
  <2>2. PICK m \in L : \A n \in L : m <= n
    BY <2>1, LeastNatural
  <2> QED
    BY <2>2
<1> DEFINE T == {j \in S : place(j) = place(i0)}
<1>3. PICK i \in T : \A j \in T : j <= i
  <2> DEFINE L == {Len(evs) - j : j \in T}
  <2>1. L \in SUBSET Nat /\ L # {}
    BY <1>1
  <2>2. PICK m \in L : \A n \in L : m <= n
    <3> HIDE DEF L
    <3> QED BY <2>1, LeastNatural
  <2>3. PICK i \in T : m = Len(evs) - i
    BY <2>2
  <2>4. \A j \in T : Len(evs) - i <= Len(evs) - j
    BY <2>2, <2>3
  <2>5. \A j \in T : j \in Nat
    BY <1>1
  <2>6. \A j \in T : j <= i
    <3> HIDE DEF T
    <3> QED BY <2>4, <2>5, <1>1
  <2> QED
    BY <2>6
<1>4. \A j \in S : place(j) <= place(i0)
  <2> TAKE j \in S
  <2>1. place(j) \in Int /\ place(i0) \in Int /\ MaxTime \in Int
    BY <1>1, ExportAssumption
  <2>2. MaxTime + 1 - place(i0) <= MaxTime + 1 - place(j)
    BY <1>2
  <2> QED
    BY <2>1, <2>2
<1>5. i \in S /\ place(i) = place(i0) /\ i \in Nat
  BY <1>1, <1>3
<1>6. \A j \in S : place(j) < place(i) \/ (place(j) = place(i) /\ j <= i)
  <2> TAKE j \in S
  <2>1. CASE j \in T
    BY <2>1, <1>3, <1>5
  <2>2. CASE j \notin T
    <3>1. place(j) # place(i0)
      BY <2>2
    <3> QED
      BY <3>1, <1>1, <1>4, <1>5
  <2> QED
    BY <2>1, <2>2
<1> USE DEF place
<1> QED
  BY <1>5, <1>6 DEF NotAfter

\* Only one does.
LEMMA LastIsUnique ==
    ASSUME NEW evs, EventsOK(evs), NEW i \in DOMAIN evs, NEW j \in DOMAIN evs,
           NotAfter(evs, i, j), NotAfter(evs, j, i)
    PROVE  i = j
<1>1. /\ StringPlace(evs[i].at) \in Int /\ StringPlace(evs[j].at) \in Int
      /\ i \in Int /\ j \in Int
  BY PlaceBounded DEF EventsOK, EventOK
<1> QED
  BY <1>1 DEF NotAfter

\* The event phase 4 goes by is the last one that bears on the action.
LEMMA DecisiveIsLast ==
    ASSUME EventsOK(events), Candidates # {}
    PROVE  \E i \in Candidates : /\ Decisive = events[i]
                                 /\ \A j \in Candidates : NotAfter(events, j, i)
<1>1. Candidates \in SUBSET DOMAIN events
  BY DEF Candidates, Bearing
<1>2. \E i \in Candidates : \A j \in Candidates : NotAfter(events, j, i)
  BY <1>1, SomeEventIsLast
<1> QED
  BY <1>2 DEF Decisive

\* So it is a delegation exactly when the action was authorised.
LEMMA DelegationDecides ==
    ASSUME EventsOK(events), Candidates # {}
    PROVE  Decisive.kind = "delegation" <=> Authorised(events, actions[pos])
<1>1. PICK i \in Candidates : /\ Decisive = events[i]
                              /\ \A j \in Candidates : NotAfter(events, j, i)
  BY DecisiveIsLast
<1>2. \A k \in Candidates : (\A j \in Candidates : NotAfter(events, j, k)) => k = i
  <2>1. \A k \in Candidates : k \in DOMAIN events
    BY DEF Candidates, Bearing
  <2> QED
    BY <1>1, <2>1, LastIsUnique
<1> QED
  BY <1>1, <1>2 DEF Authorised, Candidates

-----------------------------------------------------------------------------
(* The document.                                                           *)

\* An edit of one field leaves an event.
LEMMA RewrittenIsEvent ==
    ASSUME NEW f, EventOK(f), NEW e \in Rewritten(f)
    PROVE  EventOK(e)
<1> USE DEF EventOK, EventFields, Kinds
<1>1. CASE \E k \in Kinds \cup {"other"} : e = [f EXCEPT !.kind = k, !.stated = None]
  BY <1>1
<1>2. CASE e = [f EXCEPT !.kind = "other"]
  BY <1>2
<1>3. CASE \E a \in Agent \cup {None} : e = [f EXCEPT !.agent = a]
  BY <1>3
<1>4. CASE \E h \in Human \cup {None} : e = [f EXCEPT !.human = h]
  BY <1>4
<1>5. CASE \E s \in Scope : e = [f EXCEPT !.scope = s]
  BY <1>5
<1>6. CASE \E t \in 0..MaxTime : e = [f EXCEPT !.at = t]
  BY <1>6
<1>7. CASE \E r \in 1..MaxEvents \cup {Malformed} : e = [f EXCEPT !.receipt = r]
  BY <1>7
<1>8. CASE \E p \in {None, Malformed} : e = [f EXCEPT !.prior = p]
  BY <1>8
<1>9. CASE e = [f EXCEPT !.this = Malformed]
  BY <1>9
<1>10. CASE \E s \in {"delegated", "revoked"} : e = [f EXCEPT !.stated = s]
  BY <1>10
<1> QED
  BY <1>1, <1>2, <1>3, <1>4, <1>5, <1>6, <1>7, <1>8, <1>9, <1>10 DEF Rewritten

\* The length of a sequence is read off its domain.
LEMMA LengthOf ==
    ASSUME NEW sq, NEW n \in Nat, DOMAIN sq = 1..n
    PROVE  Len(sq) = n
OBVIOUS

\* Leaving out, repeating or exchanging items keeps a sequence, and its items.
LEMMA Rearranged ==
    ASSUME NEW sq, Len(sq) \in Nat, DOMAIN sq = 1..Len(sq),
           NEW i \in DOMAIN sq, NEW j \in DOMAIN sq,
           NEW new,
           new = Without(sq, i) \/ new = Repeated(sq, i) \/ new = Exchanged(sq, i, j)
    PROVE  /\ Len(new) \in Nat /\ DOMAIN new = 1..Len(new)
           /\ \A k \in DOMAIN new : \E l \in DOMAIN sq : new[k] = sq[l]
<1>1. CASE new = Without(sq, i)
  <2>1. Len(sq) - 1 \in Nat /\ DOMAIN new = 1..(Len(sq) - 1)
    BY <1>1 DEF Without
  <2>2. Len(new) = Len(sq) - 1
    BY <2>1, LengthOf
  <2>3. ASSUME NEW k \in DOMAIN new PROVE \E l \in DOMAIN sq : new[k] = sq[l]
    <3>1. k \in DOMAIN sq /\ k + 1 \in DOMAIN sq
      BY <2>1
    <3>2. new[k] = sq[k] \/ new[k] = sq[k + 1]
      BY <1>1, <2>1 DEF Without
    <3> QED
      BY <3>1, <3>2
  <2> QED
    BY <2>1, <2>2, <2>3
<1>2. CASE new = Repeated(sq, i)
  <2>1. Len(sq) + 1 \in Nat /\ DOMAIN new = 1..(Len(sq) + 1)
    BY <1>2 DEF Repeated
  <2>2. Len(new) = Len(sq) + 1
    BY <2>1, LengthOf
  <2>3. ASSUME NEW k \in DOMAIN new PROVE \E l \in DOMAIN sq : new[k] = sq[l]
    <3>1. k \in 1..(Len(sq) + 1) /\ i \in 1..Len(sq)
      BY <2>1
    <3>2. CASE k <= i
      BY <1>2, <3>1, <3>2 DEF Repeated
    <3>3. CASE ~(k <= i)
      <4>1. k - 1 \in DOMAIN sq
        BY <3>1, <3>3
      <4> QED
        BY <1>2, <3>1, <3>3, <4>1 DEF Repeated
    <3> QED
      BY <3>2, <3>3
  <2> QED
    BY <2>1, <2>2, <2>3
<1>3. CASE new = Exchanged(sq, i, j)
  <2>1. DOMAIN new = 1..Len(sq)
    BY <1>3 DEF Exchanged
  <2>2. Len(new) = Len(sq)
    BY <2>1, LengthOf
  <2> QED
    BY <1>3, <2>1, <2>2 DEF Exchanged
<1> QED
  BY <1>1, <1>2, <1>3

\* One item replaced keeps a sequence.
LEMMA Replaced ==
    ASSUME NEW sq, Len(sq) \in Nat, DOMAIN sq = 1..Len(sq),
           NEW i \in DOMAIN sq, NEW item, NEW new, new = [sq EXCEPT ![i] = item]
    PROVE  /\ Len(new) \in Nat /\ DOMAIN new = 1..Len(new)
           /\ \A k \in DOMAIN new : new[k] = item \/ (k \in DOMAIN sq /\ new[k] = sq[k])
<1>1. DOMAIN new = 1..Len(sq)
  OBVIOUS
<1>2. Len(new) = Len(sq)
  BY <1>1, LengthOf
<1> QED
  BY <1>1, <1>2

\* Events that are left out, repeated or exchanged are still well typed.
LEMMA RearrangedEvents ==
    ASSUME NEW evs, EventsOK(evs), NEW i \in DOMAIN evs, NEW j \in DOMAIN evs,
           NEW new,
           new = Without(evs, i) \/ new = Repeated(evs, i) \/ new = Exchanged(evs, i, j)
    PROVE  EventsOK(new)
<1>1. Len(evs) \in Nat /\ DOMAIN evs = 1..Len(evs)
  BY DEF EventsOK
<1>2. /\ Len(new) \in Nat /\ DOMAIN new = 1..Len(new)
      /\ \A k \in DOMAIN new : \E l \in DOMAIN evs : new[k] = evs[l]
  BY <1>1, Rearranged
<1> QED
  BY <1>2 DEF EventsOK

\* No edit makes an event that is not well typed.
LEMMA EditedEventsOK ==
    ASSUME EventsOK(events), NEW new \in EditedEvents
    PROVE  EventsOK(new)
<1>1. CASE \E i \in DOMAIN events : new = Without(events, i) \/ new = Repeated(events, i)
  BY <1>1, RearrangedEvents
<1>2. CASE \E i \in DOMAIN events, j \in DOMAIN events : new = Exchanged(events, i, j)
  BY <1>2, RearrangedEvents
<1>3. CASE \E i \in DOMAIN events : \E e \in Rewritten(events[i]) :
             new = [events EXCEPT ![i] = e]
  <2>1. PICK i \in DOMAIN events : \E e \in Rewritten(events[i]) :
             new = [events EXCEPT ![i] = e]
    BY <1>3
  <2>2. PICK e \in Rewritten(events[i]) : new = [events EXCEPT ![i] = e]
    BY <2>1
  <2>3. EventOK(e)
    BY <2>2, RewrittenIsEvent DEF EventsOK
  <2> QED
    BY <2>2, <2>3, Replaced DEF EventsOK
<1> QED
  BY <1>1, <1>2, <1>3 DEF EditedEvents

\* No edit makes an action that is not well typed.
LEMMA EditedActionsOK ==
    ASSUME ActionsOK(actions), NEW new \in EditedActions
    PROVE  ActionsOK(new)
<1>1. CASE \E i \in DOMAIN actions : new = Without(actions, i)
  <2>1. Len(actions) \in Nat /\ DOMAIN actions = 1..Len(actions)
    BY DEF ActionsOK
  <2>2. /\ Len(new) \in Nat /\ DOMAIN new = 1..Len(new)
        /\ \A k \in DOMAIN new : \E l \in DOMAIN actions : new[k] = actions[l]
    BY <1>1, <2>1, Rearranged
  <2> QED
    BY <2>2 DEF ActionsOK
<1>2. CASE \E i \in DOMAIN actions : \E item :
             ActionOK(item) /\ new = [actions EXCEPT ![i] = item]
  <2>0. PICK i \in DOMAIN actions :
            \E item : ActionOK(item) /\ new = [actions EXCEPT ![i] = item]
    BY <1>2
  <2>1. PICK item : ActionOK(item) /\ new = [actions EXCEPT ![i] = item]
    BY <2>0
  <2>2. Len(actions) \in Nat /\ DOMAIN actions = 1..Len(actions)
    BY DEF ActionsOK
  <2>3. /\ Len(new) \in Nat /\ DOMAIN new = 1..Len(new)
        /\ \A k \in DOMAIN new :
              new[k] = item \/ (k \in DOMAIN actions /\ new[k] = actions[k])
    BY <2>1, <2>2, Replaced
  <2> QED
    BY <2>1, <2>3 DEF ActionsOK
<1>3. CASE \E i \in DOMAIN actions : new = [actions EXCEPT ![i].agent = None]
  <2>1. PICK i \in DOMAIN actions : new = [actions EXCEPT ![i].agent = None]
    BY <1>3
  <2>2. ActionOK([actions[i] EXCEPT !.agent = None])
    BY DEF ActionsOK, ActionOK
  <2> QED
    BY <1>2, <2>1, <2>2
<1>4. CASE \E i \in DOMAIN actions, t \in 0..MaxTime : new = [actions EXCEPT ![i].at = t]
  <2>1. PICK i \in DOMAIN actions, t \in 0..MaxTime : new = [actions EXCEPT ![i].at = t]
    BY <1>4
  <2>2. ActionOK([actions[i] EXCEPT !.at = t])
    BY DEF ActionsOK, ActionOK
  <2> QED
    BY <1>2, <2>1, <2>2
<1> QED
  BY <1>1, <1>3, <1>4 DEF EditedActions

\* The backend, the exporter and the edits keep the document's types.
LEMMA SourceKeepsTypes ==
    ASSUME SourceTypeOK, SourceNext
    PROVE  SourceTypeOK'
<1> USE ExportAssumption DEF SourceTypeOK
<1>1. CASE Tick
  BY <1>1 DEF Tick
<1>2. CASE \E subject \in Subjects, scope \in Scope, kind \in Kinds :
             RecordEvent(subject, scope, kind)
  <2>1. PICK subject \in Subjects, scope \in Scope, kind \in Kinds :
             RecordEvent(subject, scope, kind)
    BY <1>2
  <2>2. /\ subject[1] \in Agent \cup {None} /\ subject[2] \in Human \cup {None}
    BY DEF Subjects
  <2>3. PICK p, h : recorded' = Append(recorded,
                [kind |-> kind, agent |-> subject[1], human |-> subject[2],
                 scope |-> scope, at |-> now, receipt |-> Len(recorded) + 1,
                 prior |-> p, this |-> h, stated |-> ImpliedState(kind)])
    BY <2>1 DEF RecordEvent
  <2>4. EventsOK(recorded')
    BY <2>2, <2>3 DEF EventsOK, EventOK, EventFields
  <2> QED
    BY <2>1, <2>4 DEF RecordEvent
<1>3. CASE \E agent \in Agent, scope \in Scope : RecordAction(agent, scope)
  <2>1. PICK agent \in Agent, scope \in Scope : RecordAction(agent, scope)
    BY <1>3
  <2>2. ActionOK([agent |-> agent, scope |-> scope, at |-> now])
    BY DEF ActionOK
  <2>3. ActionsOK(actions')
    BY <2>1, <2>2 DEF RecordAction, ActionsOK
  <2> QED
    BY <2>1, <2>3 DEF RecordAction
<1>4. CASE ExportBundle
  BY <1>4 DEF ExportBundle
<1>5. CASE Edit
  BY <1>5, EditedEventsOK, EditedActionsOK DEF Edit
<1> QED
  BY <1>1, <1>2, <1>3, <1>4, <1>5 DEF SourceNext

\* Check 11 itself never changes the document.
LEMMA SourceStaysTyped ==
    ASSUME SourceTypeOK, Submit \/ UNCHANGED sourceVars
    PROVE  SourceTypeOK'
BY DEF Submit, sourceVars, SourceTypeOK

\* The keys of chains are none of the values that stand for nothing.
LEMMA KeysAreThere ==
    ASSUME NEW evs, EventsOK(evs)
    PROVE  None \notin KeysOf(evs)
<1> SUFFICES ASSUME NEW i \in DOMAIN evs PROVE ChainKey(evs[i]) # None
  BY DEF KeysOf
<1>1. ChainKey(evs[i]) \in (Agent \cup Human \cup {None}) \X Scope
  BY DEF EventsOK, EventOK, ChainKey
<1> QED
  BY <1>1, GovernanceAssumption

\* A chain has finitely many events.
LEMMA ChainSizeNat ==
    ASSUME NEW evs, EventsOK(evs), NEW key
    PROVE  ChainSize(evs, key) \in Nat
<1>1. IsFiniteSet(1..Len(evs))
  BY FS_Interval DEF EventsOK
<1>2. ChainOf(evs, key) \subseteq 1..Len(evs)
  BY DEF ChainOf, EventsOK
<1> QED
  BY <1>1, <1>2, FS_Subset, FS_CardinalityType DEF ChainSize

-----------------------------------------------------------------------------
(* The invariant of the four phases.                                       *)

\* The chains whose walk has ended.
WalkedChains == KeysOf(events) \ (todo \cup {current})

PriorOf(evs, key, k) == IF k = 1 THEN None ELSE ChainEvent(evs, key, k - 1).this

\* The chain under the walk links up to pos, and the prior expected next is the
\* hash of the event before pos.
ChainInv ==
    current # None =>
        /\ \A k \in 1..(pos - 1) : EventLinked(events, current, k)
        /\ priorHex = PriorOf(events, current, pos)

\* What each phase has established when the next one runs.
PhaseInv ==
    /\ ~Submitted => phase = 1 /\ report = None
    /\ phase = 1 => todo = {} /\ current = None
    /\ phase # 1 => \A i \in DOMAIN events : SelfConsistent(events[i])
    /\ phase = 2 => ChainInv /\ \A key \in WalkedChains : ChainLinked(events, key)
    /\ phase \in {3, 4} => \A key \in KeysOf(events) : ChainLinked(events, key)
    /\ phase = 4 =>
        /\ \A i \in DOMAIN tips : TipHolds(events, tips[i])
        /\ \A i \in 1..(pos - 1) : i \in DOMAIN actions =>
                actions[i].agent # None /\ Authorised(events, actions[i])

GraphInv == PhaseInv /\ VerdictIsAuthority /\ ModeNamesTheCause

\* Phase 4 runs on a sound graph.
LEMMA SoundBeforeActions ==
    ASSUME PhaseInv, phase = 4
    PROVE  GraphSound(Document)
BY DEF PhaseInv, GraphSound, Document

\* The loop body of phase 2 accepts an event exactly when it links, given that
\* the walk expects the right prior.
LEMMA FaultMeansUnlinked ==
    ASSUME priorHex = PriorOf(events, current, pos)
    PROVE  ~LinkFaulty /\ ~HashFaulty <=> EventLinked(events, current, pos)
BY GovernanceAssumption DEF LinkFaulty, HashFaulty, Event, EventLinked, PriorOf

\* Phase 4 allows an action exactly when it was authorised.
LEMMA AuthorityMeans ==
    ASSUME EventsOK(events)
    PROVE  HasAuthority <=> /\ actions[pos].agent # None
                            /\ Authorised(events, actions[pos])
<1>1. CASE Candidates = {}
  BY <1>1 DEF HasAuthority, Authorised, Candidates
<1>2. CASE Candidates # {}
  BY <1>2, DelegationDecides DEF HasAuthority
<1> QED
  BY <1>1, <1>2

-----------------------------------------------------------------------------
(* Type correctness.                                                       *)

\* Every step keeps the types.
LEMMA TypesStep ==
    ASSUME TypeOK, PhaseInv, [Next]_vars
    PROVE  TypeOK'
<1> USE DEF TypeOK
<1>1. CASE Source
  <2>1. ~Submitted /\ UNCHANGED walkVars
    BY <1>1 DEF Source, SourceNext, Tick, RecordEvent, RecordAction, ExportBundle, Edit,
                Submitted
  <2>2. todo' = {} /\ current' = None
    BY <2>1 DEF PhaseInv, walkVars
  <2> QED
    BY <1>1, <2>1, <2>2, SourceKeepsTypes DEF Source, walkVars
<1>2. CASE Submit
  BY <1>2, SourceStaysTyped DEF Submit, walkVars, KeysOf
<1>3. ASSUME Walk PROVE TypeOK'
  <2>1. UNCHANGED sourceVars
    BY <1>3 DEF Walk, CheckEvents, PickChain, LinkEvent, BreakChain, EndChains, CheckTips,
                ConcludeWithoutWalk, AllowAction, RefuseAction, Conclude
  <2>2. SourceTypeOK' /\ KeysOf(events)' = KeysOf(events)
    BY <2>1, SourceStaysTyped DEF sourceVars, KeysOf
  <2>3. CASE CheckEvents
    BY <2>2, <2>3 DEF CheckEvents, Enter, Results
  <2>4. CASE \E key \in KeysOf(events) : PickChain(key)
    BY <2>2, <2>4 DEF PickChain
  <2>5. CASE LinkEvent \/ EndChains
    BY <2>2, <2>5 DEF LinkEvent, EndChains, Enter
  <2>6. CASE BreakChain
    BY <2>2, <2>6 DEF BreakChain, Results
  <2>7. CASE CheckTips
    BY <2>2, <2>7 DEF CheckTips, Enter, Results
  <2>8. CASE AllowAction
    BY <2>2, <2>8 DEF AllowAction
  <2>9. CASE ConcludeWithoutWalk \/ RefuseAction \/ Conclude
    BY <2>2, <2>9 DEF ConcludeWithoutWalk, RefuseAction, Conclude, Results
  <2> QED
    BY <1>3, <2>3, <2>4, <2>5, <2>6, <2>7, <2>8, <2>9 DEF Walk
<1>4. CASE UNCHANGED vars
  BY <1>4, SourceStaysTyped DEF vars, sourceVars, walkVars, KeysOf
<1> QED
  BY <1>1, <1>2, <1>3, <1>4 DEF Next

-----------------------------------------------------------------------------
(* The steps keep the invariant.                                           *)

\* A report without a verdict to defend: every step that goes on.
LEMMA NoReportYet ==
    ASSUME report' = None
    PROVE  VerdictIsAuthority' /\ ModeNamesTheCause'
BY DEF VerdictIsAuthority, ModeNamesTheCause

\* A report made by a step that leaves the document alone.
LEMMA ReportMade ==
    ASSUME UNCHANGED sourceVars, PhaseInv,
           UNCHANGED <<phase, pos, todo, current, priorHex>>, Submitted,
           \/ report' = Passed /\ Governed(Document)
           \/ /\ report' = Temporal /\ GraphSound(Document)
              /\ \E i \in DOMAIN actions : /\ actions[i].agent # None
                                           /\ ~Authorised(events, actions[i])
              /\ ~Governed(Document)
           \/ /\ report' = Integrity /\ ~Governed(Document)
              /\ \/ ~GraphSound(Document)
                 \/ strict /\ events = <<>>
                 \/ \E i \in DOMAIN actions : actions[i].agent = None
                 \/ \E i \in DOMAIN events : events[i].kind \notin Kinds
    PROVE  GraphInv'
<1>1. /\ events' = events /\ tips' = tips /\ actions' = actions /\ strict' = strict
      /\ stage' = stage /\ Document' = Document
  BY DEF sourceVars, Document
<1>2. PhaseInv'
  BY <1>1 DEF PhaseInv, ChainInv, WalkedChains, Submitted
<1>3. /\ GraphSound(Document)' = GraphSound(Document)
      /\ Governed(Document)' = Governed(Document)
  BY <1>1
<1>4. VerdictIsAuthority'
  BY <1>3 DEF VerdictIsAuthority, Passed, Temporal, Integrity
<1>5. ModeNamesTheCause'
  BY <1>1, <1>3 DEF ModeNamesTheCause, Passed, Temporal, Integrity
<1> QED
  BY <1>2, <1>4, <1>5 DEF GraphInv

\* Phase 1.
LEMMA CheckEventsKeeps ==
    ASSUME TypeOK, GraphInv, CheckEvents
    PROVE  GraphInv'
<1>0. /\ Submitted /\ report = None /\ phase = 1 /\ todo = {} /\ current = None
      /\ UNCHANGED sourceVars /\ current' = current
  BY DEF CheckEvents, Running, GraphInv, PhaseInv
<1>1. CASE \A i \in DOMAIN events : SelfConsistent(events[i])
  <2>1. /\ phase' = 2 /\ todo' = KeysOf(events) /\ report' = None
        /\ events' = events /\ stage' = stage
    BY <1>0, <1>1 DEF CheckEvents, Enter, sourceVars
  <2>2. current' = None /\ WalkedChains' = {} /\ Submitted'
    BY <1>0, <2>1 DEF WalkedChains, Submitted, KeysOf
  <2>3. PhaseInv'
    BY <1>1, <2>1, <2>2 DEF PhaseInv, ChainInv
  <2> QED
    BY <2>1, <2>3, NoReportYet DEF GraphInv
<1>2. CASE ~ \A i \in DOMAIN events : SelfConsistent(events[i])
  <2>1. /\ report' = Integrity /\ UNCHANGED <<phase, pos, todo, current, priorHex>>
    BY <1>2 DEF CheckEvents
  <2>2. ~GraphSound(Document) /\ ~Governed(Document)
    BY <1>2 DEF GraphSound, Governed, Document
  <2> QED
    BY <1>0, <2>1, <2>2, ReportMade DEF GraphInv
<1> QED
  BY <1>1, <1>2

\* Phase 2, between chains.
LEMMA PickChainKeeps ==
    ASSUME TypeOK, GraphInv, NEW key \in KeysOf(events), PickChain(key)
    PROVE  GraphInv'
<1>1. /\ Submitted /\ phase = 2 /\ phase' = 2 /\ report = None /\ report' = None
      /\ BetweenChains /\ key \in todo /\ todo' = todo \ {key} /\ current' = key
      /\ pos' = 1 /\ priorHex' = None /\ UNCHANGED <<events, tips, actions, stage>>
  BY DEF PickChain, Running, sourceVars
<1>0. KeysOf(events)' = KeysOf(events)
  BY <1>1 DEF KeysOf
<1>2. \A k \in WalkedChains' : ChainLinked(events, k)
  <2>1. CASE current = None
    <3>1. WalkedChains' \subseteq WalkedChains
      BY <1>0, <1>1, <2>1, KeysAreThere DEF WalkedChains, TypeOK, SourceTypeOK
    <3> QED
      BY <1>1, <3>1 DEF GraphInv, PhaseInv
  <2>2. CASE current # None
    <3>1. ChainLinked(events, current)
      <4>1. pos > ChainSize(events, current) /\ ChainSize(events, current) \in Nat
        BY <1>1, <2>2, ChainSizeNat DEF BetweenChains, TypeOK, SourceTypeOK
      <4> QED
        BY <1>1, <2>2, <4>1 DEF GraphInv, PhaseInv, ChainInv, ChainLinked, TypeOK
    <3>2. WalkedChains' \subseteq WalkedChains \cup {current}
      BY <1>0, <1>1 DEF WalkedChains
    <3> QED
      BY <1>1, <3>1, <3>2 DEF GraphInv, PhaseInv
  <2> QED
    BY <2>1, <2>2
<1>3. ChainInv'
  BY <1>1 DEF ChainInv, PriorOf
<1>4. PhaseInv'
  BY <1>1, <1>2, <1>3 DEF PhaseInv, Submitted, GraphInv
<1> QED
  BY <1>1, <1>4, NoReportYet DEF GraphInv

\* Phase 2, inside a chain.
LEMMA LinkEventKeeps ==
    ASSUME TypeOK, GraphInv, LinkEvent
    PROVE  GraphInv'
<1>1. /\ phase = 2 /\ phase' = 2 /\ report' = None /\ current # None
      /\ current' = current /\ todo' = todo /\ priorHex' = Event.this /\ pos' = pos + 1
      /\ UNCHANGED <<events, tips, actions, stage>> /\ Submitted
      /\ ~LinkFaulty /\ ~HashFaulty
  BY DEF LinkEvent, InChain, Running, BetweenChains, sourceVars
<1>2. EventLinked(events, current, pos)
  BY <1>1, FaultMeansUnlinked DEF GraphInv, PhaseInv, ChainInv
<1>3. \A k \in 1..pos : EventLinked(events, current, k)
  BY <1>1, <1>2 DEF GraphInv, PhaseInv, ChainInv, TypeOK
<1>4. priorHex' = PriorOf(events, current, pos + 1)
  BY <1>1 DEF PriorOf, Event, TypeOK
<1>5. ChainInv'
  BY <1>1, <1>3, <1>4 DEF ChainInv, TypeOK
<1>6. WalkedChains' = WalkedChains
  BY <1>1 DEF WalkedChains, KeysOf
<1>7. PhaseInv'
  BY <1>1, <1>5, <1>6 DEF PhaseInv, Submitted, GraphInv
<1> QED
  BY <1>1, <1>7, NoReportYet DEF GraphInv

\* The walk stops at an event that is not linked: an integrity violation.
LEMMA BreakChainKeeps ==
    ASSUME TypeOK, GraphInv, BreakChain
    PROVE  GraphInv'
<1>1. /\ phase = 2 /\ current # None /\ pos <= ChainSize(events, current) /\ Submitted
      /\ LinkFaulty \/ HashFaulty
      /\ UNCHANGED sourceVars /\ UNCHANGED <<phase, pos, todo, current, priorHex>>
      /\ report' = Integrity
  BY ChainSizeNat DEF BreakChain, InChain, Running, BetweenChains, TypeOK, SourceTypeOK
<1>2. ~EventLinked(events, current, pos)
  BY <1>1, FaultMeansUnlinked DEF GraphInv, PhaseInv, ChainInv
<1>3. pos \in 1..ChainSize(events, current) /\ current \in KeysOf(events)
  BY <1>1, ChainSizeNat DEF TypeOK, SourceTypeOK
<1>4. ~GraphSound(Document) /\ ~Governed(Document)
  BY <1>2, <1>3 DEF ChainLinked, GraphSound, Governed, Document
<1> QED
  BY <1>1, <1>4, ReportMade DEF GraphInv

\* When no chain is left, all of them are linked.
LEMMA EndChainsKeeps ==
    ASSUME TypeOK, GraphInv, EndChains
    PROVE  GraphInv'
<1>1. /\ phase = 2 /\ phase' = 3 /\ report' = None /\ BetweenChains /\ todo = {}
      /\ UNCHANGED <<events, tips, actions, stage>> /\ Submitted
  BY DEF EndChains, Running, Enter, sourceVars
<1>2. current # None => ChainLinked(events, current)
  <2> SUFFICES ASSUME current # None PROVE ChainLinked(events, current)
    OBVIOUS
  <2>1. pos > ChainSize(events, current) /\ ChainSize(events, current) \in Nat
    BY <1>1, ChainSizeNat DEF BetweenChains, TypeOK, SourceTypeOK
  <2> QED
    BY <1>1, <2>1 DEF GraphInv, PhaseInv, ChainInv, ChainLinked, TypeOK
<1>3. \A key \in KeysOf(events) : ChainLinked(events, key)
  BY <1>1, <1>2, KeysAreThere
     DEF GraphInv, PhaseInv, WalkedChains, TypeOK, SourceTypeOK
<1>4. PhaseInv'
  BY <1>1, <1>3 DEF PhaseInv, Submitted, GraphInv, KeysOf
<1> QED
  BY <1>1, <1>4, NoReportYet DEF GraphInv

\* Phase 3.
LEMMA CheckTipsKeeps ==
    ASSUME TypeOK, GraphInv, CheckTips
    PROVE  GraphInv'
<1>0. /\ Submitted /\ report = None /\ phase = 3 /\ UNCHANGED sourceVars
      /\ UNCHANGED <<todo, current, priorHex>>
  BY DEF CheckTips, Running
<1>1. CASE \A i \in DOMAIN tips : TipHolds(events, tips[i])
  <2>1. /\ phase' = 4 /\ pos' = 1 /\ report' = None
        /\ UNCHANGED <<events, tips, actions, stage>>
    BY <1>0, <1>1 DEF CheckTips, Enter, sourceVars
  <2>2. PhaseInv'
    BY <1>0, <1>1, <2>1 DEF PhaseInv, Submitted, GraphInv, KeysOf
  <2> QED
    BY <2>1, <2>2, NoReportYet DEF GraphInv
<1>2. CASE ~ \A i \in DOMAIN tips : TipHolds(events, tips[i])
  <2>1. /\ report' = Integrity /\ UNCHANGED <<phase, pos, todo, current, priorHex>>
    BY <1>0, <1>2 DEF CheckTips
  <2>2. ~GraphSound(Document) /\ ~Governed(Document)
    BY <1>2 DEF GraphSound, Governed, Document
  <2> QED
    BY <1>0, <2>1, <2>2, ReportMade DEF GraphInv
<1> QED
  BY <1>1, <1>2

\* Phase 4.
LEMMA ConcludeWithoutWalkKeeps ==
    ASSUME TypeOK, GraphInv, ConcludeWithoutWalk
    PROVE  GraphInv'
<1>1. /\ Submitted /\ phase = 4 /\ (actions = <<>> \/ events = <<>>)
      /\ UNCHANGED sourceVars /\ UNCHANGED <<phase, pos, todo, current, priorHex>>
  BY DEF ConcludeWithoutWalk, Running
<1>2. GraphSound(Document)
  BY <1>1, SoundBeforeActions DEF GraphInv
<1>3. CASE actions # <<>> /\ strict
  <2>1. report' = Integrity
    BY <1>3 DEF ConcludeWithoutWalk
  <2>2. ~Governed(Document) /\ events = <<>>
    BY <1>1, <1>3 DEF Governed, ActionsAuthorised, Document
  <2>3. strict /\ events = <<>>
    BY <1>3, <2>2
  <2> QED
    BY <1>1, <2>1, <2>2, <2>3, ReportMade DEF GraphInv
<1>4. CASE ~(actions # <<>> /\ strict)
  <2>1. report' = Passed
    BY <1>4 DEF ConcludeWithoutWalk
  <2>2. ActionsAuthorised(Document)
    <3>1. CASE events = <<>>
      BY <1>4, <3>1 DEF ActionsAuthorised, Document
    <3>2. CASE events # <<>>
      <4>1. actions = <<>> /\ DOMAIN actions = {}
        BY <1>1, <3>2
      <4> QED
        BY <3>2, <4>1 DEF ActionsAuthorised, Document
    <3> QED
      BY <3>1, <3>2
  <2>3. Governed(Document)
    BY <1>2, <2>2 DEF Governed
  <2> QED
    BY <1>1, <2>1, <2>3, ReportMade DEF GraphInv
<1> QED
  BY <1>3, <1>4

\* An action that had authority joins those already looked at.
LEMMA AllowActionKeeps ==
    ASSUME TypeOK, GraphInv, AllowAction
    PROVE  GraphInv'
<1>1. /\ Submitted /\ phase = 4 /\ phase' = 4 /\ report' = None /\ pos' = pos + 1
      /\ UNCHANGED <<events, tips, actions, stage, todo, current>> /\ HasAuthority
  BY DEF AllowAction, InActions, Running, sourceVars
<1>2. actions[pos].agent # None /\ Authorised(events, actions[pos])
  BY <1>1, AuthorityMeans DEF TypeOK, SourceTypeOK
<1>3. \A i \in 1..pos : i \in DOMAIN actions =>
            actions[i].agent # None /\ Authorised(events, actions[i])
  BY <1>1, <1>2 DEF GraphInv, PhaseInv, TypeOK
<1>4. PhaseInv'
  BY <1>1, <1>3 DEF PhaseInv, Submitted, GraphInv, KeysOf, TypeOK
<1> QED
  BY <1>1, <1>4, NoReportYet DEF GraphInv

\* Phase 4 stops at an action that lacked authority.
LEMMA RefuseActionKeeps ==
    ASSUME TypeOK, GraphInv, RefuseAction
    PROVE  GraphInv'
<1>1. /\ Submitted /\ phase = 4 /\ UNCHANGED sourceVars
      /\ UNCHANGED <<phase, pos, todo, current, priorHex>> /\ ~HasAuthority
      /\ events # <<>> /\ pos <= Len(actions)
      /\ report' = IF actions[pos].agent = None THEN Integrity
                   ELSE IF Candidates = {} THEN Temporal
                   ELSE IF Decisive.kind = "revocation" THEN Temporal
                   ELSE Integrity
  BY DEF RefuseAction, InActions, Running
<1>2. pos \in DOMAIN actions
  BY <1>1 DEF TypeOK, SourceTypeOK, ActionsOK
<1>3. ~(actions[pos].agent # None /\ Authorised(events, actions[pos]))
  BY <1>1, AuthorityMeans DEF TypeOK, SourceTypeOK
<1>4. ~Governed(Document)
  BY <1>1, <1>2, <1>3 DEF Governed, ActionsAuthorised, Document
<1>5. GraphSound(Document)
  BY <1>1, SoundBeforeActions DEF GraphInv
<1>6. CASE actions[pos].agent = None
  BY <1>1, <1>2, <1>4, <1>6, ReportMade DEF GraphInv
<1>7. CASE actions[pos].agent # None /\ (Candidates = {} \/ Decisive.kind = "revocation")
  <2>1. report' = Temporal
    BY <1>1, <1>7
  <2> QED
    BY <1>1, <1>2, <1>3, <1>4, <1>5, <1>7, <2>1, ReportMade DEF GraphInv
<1>8. CASE actions[pos].agent # None /\ Candidates # {} /\ Decisive.kind # "revocation"
  <2>1. report' = Integrity
    BY <1>1, <1>8
  <2>2. PICK i \in Candidates : Decisive = events[i]
    BY <1>8, DecisiveIsLast DEF TypeOK, SourceTypeOK
  <2>3. i \in DOMAIN events
    BY <2>2 DEF Candidates, Bearing
  <2>4. Decisive.kind # "delegation"
    BY <1>1, <1>8 DEF HasAuthority
  <2>5. events[i].kind \notin Kinds
    BY <1>8, <2>2, <2>4 DEF Kinds
  <2> QED
    BY <1>1, <1>4, <2>1, <2>3, <2>5, ReportMade DEF GraphInv
<1> QED
  BY <1>6, <1>7, <1>8

\* When no action is left, all of them had authority.
LEMMA ConcludeKeeps ==
    ASSUME TypeOK, GraphInv, Conclude
    PROVE  GraphInv'
<1>1. /\ Submitted /\ phase = 4 /\ UNCHANGED sourceVars
      /\ UNCHANGED <<phase, pos, todo, current, priorHex>>
      /\ events # <<>> /\ pos > Len(actions) /\ report' = Passed
  BY DEF Conclude, Running
<1>2. \A i \in DOMAIN actions : i \in 1..(pos - 1)
  BY <1>1 DEF TypeOK, SourceTypeOK, ActionsOK
<1>3. ActionsAuthorised(Document)
  BY <1>1, <1>2 DEF ActionsAuthorised, Document, GraphInv, PhaseInv
<1>4. Governed(Document)
  BY <1>1, <1>3, SoundBeforeActions DEF Governed, GraphInv
<1> QED
  BY <1>1, <1>4, ReportMade DEF GraphInv

\* Every step keeps the invariant of the walk.
LEMMA GraphInvStep ==
    ASSUME TypeOK, GraphInv, [Next]_vars
    PROVE  GraphInv'
<1>1. CASE Source
  <2>1. ~Submitted /\ ~Submitted' /\ UNCHANGED walkVars
    BY <1>1 DEF Source, SourceNext, Tick, RecordEvent, RecordAction, ExportBundle, Edit,
                Submitted
  <2>2. phase' = 1 /\ report' = None /\ todo' = {} /\ current' = None
    BY <2>1 DEF GraphInv, PhaseInv, walkVars
  <2>3. PhaseInv'
    BY <2>2 DEF PhaseInv
  <2> QED
    BY <2>2, <2>3, NoReportYet DEF GraphInv
<1>2. CASE Submit
  <2>1. phase' = 1 /\ report' = None /\ todo' = {} /\ current' = None
    BY <1>2 DEF Submit, Submitted, GraphInv, PhaseInv, walkVars
  <2>2. PhaseInv'
    BY <2>1 DEF PhaseInv
  <2> QED
    BY <2>1, <2>2, NoReportYet DEF GraphInv
<1>3. CASE Walk
  BY <1>3, CheckEventsKeeps, PickChainKeeps, LinkEventKeeps, BreakChainKeeps,
     EndChainsKeeps, CheckTipsKeeps, ConcludeWithoutWalkKeeps, AllowActionKeeps,
     RefuseActionKeeps, ConcludeKeeps DEF Walk
<1>4. CASE UNCHANGED vars
  <2>1. /\ UNCHANGED <<events, tips, actions, strict, stage>>
        /\ UNCHANGED <<phase, pos, todo, current, priorHex, report>>
    BY <1>4 DEF vars, sourceVars, walkVars
  <2>2. PhaseInv'
    BY <2>1 DEF GraphInv, PhaseInv, ChainInv, WalkedChains, Submitted
  <2>3. VerdictIsAuthority' /\ ModeNamesTheCause'
    BY <2>1 DEF GraphInv, VerdictIsAuthority, ModeNamesTheCause, Document
  <2> QED
    BY <2>2, <2>3 DEF GraphInv
<1> QED
  BY <1>1, <1>2, <1>3, <1>4 DEF Next

\* What each phase of check 11 has established so far, at every point of it.
THEOREM GraphInvariant == Spec => [](TypeOK /\ GraphInv)
<1>1. Init => TypeOK
  <2> SUFFICES ASSUME Init PROVE TypeOK
    OBVIOUS
  <2>1. EventsOK(recorded) /\ EventsOK(events) /\ ActionsOK(actions)
    BY DEF Init, SourceInit, EventsOK, ActionsOK
  <2>2. now \in 0..MaxTime
    BY ExportAssumption DEF Init, SourceInit
  <2>3. strict \in BOOLEAN
    BY Zenon DEF Init, SourceInit
  <2>4. SourceTypeOK
    BY <2>1, <2>2, <2>3 DEF Init, SourceInit, SourceTypeOK
  <2> QED
    BY <2>4 DEF Init, TypeOK
<1>2. Init => GraphInv
  BY DEF Init, SourceInit, GraphInv, PhaseInv, VerdictIsAuthority, ModeNamesTheCause,
         Submitted
<1>3. TypeOK /\ GraphInv /\ [Next]_vars => TypeOK' /\ GraphInv'
  BY TypesStep, GraphInvStep DEF GraphInv
<1> QED
  BY <1>1, <1>2, <1>3, PTL DEF Spec

\* The variables of check 11 and its document keep their types.
THEOREM TypeCorrect == Spec => []TypeOK
BY GraphInvariant, PTL

\* Check 11 passes exactly the bundles that are governed, whatever the order of
\* the map and of the document.
THEOREM VerdictCorrect == Spec => []VerdictIsAuthority
<1>1. GraphInv => VerdictIsAuthority
  BY DEF GraphInv
<1> QED
  BY <1>1, GraphInvariant, PTL

\* The failure mode names the class of the cause.
THEOREM ModeCorrect == Spec => []ModeNamesTheCause
<1>1. GraphInv => ModeNamesTheCause
  BY DEF GraphInv
<1> QED
  BY <1>1, GraphInvariant, PTL

-----------------------------------------------------------------------------
(* What the backend recorded.                                              *)

\* A hash is never the sign of an absent or an undecodable field.
HashesDecode == \A prior, receipt : ChainHash(prior, receipt) \notin {None, Malformed}

SameChain(rec, i, j) == ChainKey(rec[i]) = ChainKey(rec[j])

\* The i-th event the backend recorded: it is chained to the one before it of
\* the same subject and scope, and the clock did not run backwards.
RecordedAt(rec, i) ==
    LET e == rec[i] IN
    /\ e.receipt = i /\ e.this = ChainHash(e.prior, i)
    /\ e.kind \in Kinds /\ SelfConsistent(e)
    /\ \A j \in 1..(i - 1) : rec[j].at <= e.at
    /\ (\A j \in 1..(i - 1) : ~SameChain(rec, j, i)) => e.prior = None
    /\ \A j \in 1..(i - 1) :
          SameChain(rec, j, i) /\ (\A l \in (j + 1)..(i - 1) : ~SameChain(rec, l, i))
            => e.prior = rec[j].this

Recorded(rec) == \A i \in DOMAIN rec : RecordedAt(rec, i)

\* Whatever has been done to the document, its hashes are the backend's; until
\* something is done, all of it is.
Provenance ==
    /\ Recorded(recorded)
    /\ edits \in Nat
    /\ stage = "recording" => /\ edits = 0 /\ events = <<>>
                              /\ \A i \in DOMAIN recorded : recorded[i].at <= now
    /\ \A i \in DOMAIN events :
          events[i].this = Malformed \/ \E j \in DOMAIN recorded : events[i].this = recorded[j].this
    /\ edits = 0 =>
          /\ stage # "recording" => events = recorded /\ tips \in {<<>>, RecordedTips}
          /\ \A i \in DOMAIN actions : actions[i].agent # None

\* An event added at the end leaves the others as they were recorded.
LEMMA RecordGrows ==
    ASSUME NEW rec, NEW n \in Nat, DOMAIN rec = 1..n, Recorded(rec),
           NEW new, DOMAIN new = 1..(n + 1), \A i \in 1..n : new[i] = rec[i],
           RecordedAt(new, n + 1)
    PROVE  Recorded(new)
<1>1. ASSUME NEW i \in 1..n PROVE RecordedAt(new, i)
  <2>1. /\ new[i] = rec[i]
        /\ \A j \in 1..(i - 1) : new[j] = rec[j]
        /\ \A j \in 1..(i - 1) : \A l \in (j + 1)..(i - 1) : new[l] = rec[l]
    OBVIOUS
  <2>2. /\ \A j \in 1..(i - 1) : SameChain(new, j, i) <=> SameChain(rec, j, i)
        /\ \A j \in 1..(i - 1) : \A l \in (j + 1)..(i - 1) :
                SameChain(new, l, i) <=> SameChain(rec, l, i)
    BY <2>1 DEF SameChain
  <2>3. RecordedAt(rec, i)
    BY DEF Recorded
  <2> QED
    BY <2>1, <2>2, <2>3 DEF RecordedAt
<1>2. \A i \in DOMAIN new : i \in 1..n \/ i = n + 1
  OBVIOUS
<1> QED
  BY <1>1, <1>2 DEF Recorded

\* An event chained to the last one of its subject and scope is well recorded.
LEMMA ChainedToLast ==
    ASSUME NEW rec, NEW n \in Nat, NEW e,
           NEW new, new[n + 1] = e, \A i \in 1..n : new[i] = rec[i],
           NEW mine, mine = {i \in 1..n : ChainKey(rec[i]) = ChainKey(e)},
           e.prior = IF mine = {} THEN None
                     ELSE rec[CHOOSE i \in mine : \A j \in mine : j <= i].this,
           e.receipt = n + 1, e.this = ChainHash(e.prior, n + 1),
           e.kind \in Kinds, SelfConsistent(e), \A i \in 1..n : rec[i].at <= e.at
    PROVE  RecordedAt(new, n + 1)
<1>1. ASSUME NEW j \in 1..n PROVE SameChain(new, j, n + 1) <=> j \in mine
  BY DEF SameChain
<1>2. (\A j \in 1..n : ~SameChain(new, j, n + 1)) => e.prior = None
  BY <1>1
<1>3. ASSUME NEW j \in 1..n, SameChain(new, j, n + 1),
             \A l \in (j + 1)..n : ~SameChain(new, l, n + 1)
      PROVE  e.prior = new[j].this
  <2>1. j \in mine
    BY <1>1, <1>3
  <2>2. ASSUME NEW i \in mine PROVE i <= j /\ i \in Int
    <3>1. i \in 1..n /\ ~(i \in (j + 1)..n)
      BY <1>1, <1>3
    <3> QED
      BY ONLY <3>1, n \in Nat, j \in 1..n
  <2>3. \A i \in mine : (\A l \in mine : l <= i) => i = j
    BY <2>1, <2>2
  <2>4. (CHOOSE i \in mine : \A l \in mine : l <= i) = j
    BY <2>1, <2>2, <2>3
  <2>5. e.prior = rec[j].this
    BY <2>1, <2>4
  <2> QED
    BY <2>5
<1>4. n + 1 - 1 = n /\ \A j \in 1..n : new[j].at <= e.at
  OBVIOUS
<1>5. /\ new[n + 1] = e /\ new[n + 1].receipt = n + 1
      /\ new[n + 1].this = ChainHash(new[n + 1].prior, n + 1)
      /\ new[n + 1].kind \in Kinds /\ SelfConsistent(new[n + 1])
      /\ \A j \in 1..n : new[j].at <= new[n + 1].at
  BY <1>4
<1> QED
  BY ONLY <1>2, <1>3, <1>4, <1>5 DEF RecordedAt

\* Recording an event chains it to the last one of its subject and scope.
LEMMA RecordEventKeepsRecord ==
    ASSUME SourceTypeOK, Provenance,
           NEW subject \in Subjects, NEW scope \in Scope, NEW kind \in Kinds,
           RecordEvent(subject, scope, kind)
    PROVE  /\ Recorded(recorded')
           /\ \A i \in DOMAIN recorded' : recorded'[i].at <= now
           /\ \A i \in DOMAIN recorded : i \in DOMAIN recorded' /\ recorded'[i] = recorded[i]
<1> DEFINE key == <<IF subject[1] # None THEN subject[1] ELSE subject[2], scope>>
           mine == {i \in DOMAIN recorded : ChainKey(recorded[i]) = key}
           last == CHOOSE i \in mine : \A j \in mine : j <= i
           prior == IF mine = {} THEN None ELSE recorded[last].this
<1> HIDE DEF prior, last
<1>n. PICK n : n = Len(recorded)
  OBVIOUS
<1>e. PICK e : e = [kind |-> kind, agent |-> subject[1], human |-> subject[2],
                   scope |-> scope, at |-> now, receipt |-> n + 1,
                   prior |-> prior, this |-> ChainHash(prior, n + 1),
                   stated |-> ImpliedState(kind)]
  OBVIOUS
<1>w. PICK new : new = Append(recorded, e)
  OBVIOUS
<1>1. recorded' = new /\ stage = "recording"
  <2>1. /\ recorded' = Append(recorded,
              [kind |-> kind, agent |-> subject[1], human |-> subject[2],
               scope |-> scope, at |-> now, receipt |-> Len(recorded) + 1,
               prior |-> prior, this |-> ChainHash(prior, Len(recorded) + 1),
               stated |-> ImpliedState(kind)])
        /\ stage = "recording"
    BY DEF RecordEvent, prior, last
  <2> QED
    BY ONLY <1>n, <1>e, <1>w, <2>1
<1>2. /\ n \in Nat /\ DOMAIN recorded = 1..n /\ now \in Nat
      /\ \A i \in 1..n : recorded[i].at <= now
  BY <1>1, <1>n, ExportAssumption DEF SourceTypeOK, EventsOK, Provenance
<1>3. /\ DOMAIN new = 1..(n + 1) /\ new[n + 1] = e
      /\ \A i \in 1..n : new[i] = recorded[i]
  BY <1>2, <1>n, <1>w
<1>4. /\ ChainKey(e) = key /\ e.receipt = n + 1 /\ e.this = ChainHash(e.prior, n + 1)
      /\ e.kind \in Kinds /\ e.at = now /\ e.prior = prior
  BY <1>e DEF ChainKey
<1>5. SelfConsistent(e)
  <2>1. (e.agent # None) # (e.human # None)
    BY <1>e, GovernanceAssumption DEF Subjects
  <2> QED
    BY <2>1, <1>e DEF SelfConsistent, OneSubject
<1>6. mine = {i \in 1..n : ChainKey(recorded[i]) = ChainKey(e)}
  BY <1>2, <1>4
<1>7. /\ e.prior = IF mine = {} THEN None
                   ELSE recorded[CHOOSE i \in mine : \A j \in mine : j <= i].this
      /\ \A i \in 1..n : recorded[i].at <= e.at
  BY <1>2, <1>4 DEF prior, last
<1>8. RecordedAt(new, n + 1)
  BY ONLY <1>2, <1>3, <1>4, <1>5, <1>6, <1>7, ChainedToLast
<1>9. Recorded(new)
  BY ONLY Provenance, <1>2, <1>3, <1>8, RecordGrows DEF Provenance
<1>10. \A i \in DOMAIN new : new[i].at <= now
  <2>1. \A i \in 1..(n + 1) : i \in 1..n \/ i = n + 1
    BY ONLY <1>2
  <2>2. new[n + 1].at <= now
    BY ONLY <1>2, <1>3, <1>4
  <2> QED
    BY ONLY <1>2, <1>3, <2>1, <2>2
<1>11. \A i \in 1..n : i \in 1..(n + 1)
  BY ONLY <1>2
<1> QED
  BY <1>1, <1>2, <1>3, <1>9, <1>10, <1>11

\* An edit makes no hash.
LEMMA EditsMakeNoHash ==
    ASSUME EventsOK(events), NEW new \in EditedEvents, NEW k \in DOMAIN new
    PROVE  \E j \in DOMAIN events : new[k].this \in {events[j].this, Malformed}
<1>1. Len(events) \in Nat /\ DOMAIN events = 1..Len(events)
  BY DEF EventsOK
<1>2. CASE \E i \in DOMAIN events, j \in DOMAIN events :
             new = Without(events, i) \/ new = Repeated(events, i) \/ new = Exchanged(events, i, j)
  <2>1. \E l \in DOMAIN events : new[k] = events[l]
    BY <1>1, <1>2, Rearranged
  <2> QED
    BY <2>1
<1>3. CASE \E i \in DOMAIN events : \E e \in Rewritten(events[i]) :
             new = [events EXCEPT ![i] = e]
  <2>1. PICK i \in DOMAIN events : \E e \in Rewritten(events[i]) :
             new = [events EXCEPT ![i] = e]
    BY <1>3
  <2>2. PICK e \in Rewritten(events[i]) : new = [events EXCEPT ![i] = e]
    BY <2>1
  <2>3. DOMAIN events[i] = EventFields
    BY DEF EventsOK, EventOK
  <2>4. e.this \in {events[i].this, Malformed}
    BY <2>2, <2>3 DEF Rewritten, EventFields
  <2> QED
    BY <2>2, <2>4
<1> QED
  BY <1>2, <1>3 DEF EditedEvents

\* The backend's tips follow from what it has recorded alone.
LEMMA TipsStay ==
    ASSUME recorded' = recorded
    PROVE  RecordedTips' = RecordedTips
BY DEF RecordedTips, TipAt

\* Every step keeps what the history has left in the document.
LEMMA ProvenanceStep ==
    ASSUME SourceTypeOK, Provenance, [Next]_vars
    PROVE  Provenance'
<1>1. CASE Source
  <2>1. CASE Tick
    <3>1. now \in Nat /\ \A i \in DOMAIN recorded : recorded[i].at \in Nat
      BY ExportAssumption DEF SourceTypeOK, EventsOK, EventOK
    <3>2. \A i \in DOMAIN recorded : recorded[i].at <= now => recorded[i].at <= now + 1
      BY <3>1
    <3> QED
      BY <2>1, <3>2, TipsStay DEF Tick, Provenance
  <2>2. CASE \E subject \in Subjects, scope \in Scope, kind \in Kinds :
               RecordEvent(subject, scope, kind)
    <3>1. PICK subject \in Subjects, scope \in Scope, kind \in Kinds :
               RecordEvent(subject, scope, kind)
      BY <2>2
    <3>2. stage = "recording" /\ UNCHANGED <<events, tips, actions, now, stage, edits>>
      BY <3>1 DEF RecordEvent
    <3>3. /\ Recorded(recorded')
          /\ \A i \in DOMAIN recorded' : recorded'[i].at <= now
      BY <3>1, RecordEventKeepsRecord
    <3>4. \A i \in DOMAIN events' : FALSE
      BY <3>2 DEF Provenance
    <3> QED
      BY <3>2, <3>3, <3>4 DEF Provenance
  <2>3. CASE \E agent \in Agent, scope \in Scope : RecordAction(agent, scope)
    <3>1. PICK agent \in Agent, scope \in Scope : RecordAction(agent, scope)
      BY <2>3
    <3>2. /\ stage = "recording" /\ UNCHANGED <<recorded, events, tips, now, stage, edits>>
          /\ actions' = Append(actions, [agent |-> agent, scope |-> scope, at |-> now])
      BY <3>1 DEF RecordAction
    <3>3. agent # None
      BY GovernanceAssumption
    <3>4. edits = 0 => \A i \in DOMAIN actions' : actions'[i].agent # None
      BY <3>2, <3>3 DEF Provenance, SourceTypeOK, ActionsOK
    <3> QED
      BY <3>2, <3>4 DEF Provenance
  <2>4. CASE ExportBundle
    <3>1. /\ stage' # "recording" /\ UNCHANGED <<recorded, actions, edits>>
          /\ events' = recorded /\ tips' \in {<<>>, RecordedTips}
      BY <2>4 DEF ExportBundle
    <3> QED
      BY <3>1, TipsStay DEF Provenance
  <2>5. CASE Edit
    <3>1. /\ stage # "recording" /\ stage' = stage /\ recorded' = recorded
          /\ edits' = edits + 1 /\ edits \in Nat
          /\ events' = events \/ events' \in EditedEvents
      BY <2>5 DEF Edit, Provenance
    <3>2. ASSUME NEW i \in DOMAIN events'
          PROVE  events'[i].this = Malformed \/ \E j \in DOMAIN recorded : events'[i].this = recorded[j].this
      BY <3>1, EditsMakeNoHash DEF Provenance, SourceTypeOK
    <3>3. edits' \in Nat /\ edits' # 0
      BY <3>1
    <3> QED
      BY <3>1, <3>2, <3>3 DEF Provenance
  <2> QED
    BY <1>1, <2>1, <2>2, <2>3, <2>4, <2>5 DEF Source, SourceNext
<1>2. CASE Submit
  <2>1. /\ stage # "recording" /\ stage' # "recording"
        /\ UNCHANGED <<recorded, events, tips, actions, edits>>
    BY <1>2 DEF Submit
  <2> QED
    BY <2>1, TipsStay DEF Provenance
<1>3. CASE Walk \/ UNCHANGED vars
  <2>1. UNCHANGED sourceVars
    BY <1>3 DEF Walk, CheckEvents, PickChain, LinkEvent, BreakChain, EndChains, CheckTips,
                ConcludeWithoutWalk, AllowAction, RefuseAction, Conclude, vars
  <2> QED
    BY <2>1, TipsStay DEF Provenance, sourceVars
<1> QED
  BY <1>1, <1>2, <1>3 DEF Next

\* What the document holds comes from the backend, whatever has been done to it.
THEOREM ProvenanceInvariant == Spec => []Provenance
<1>1. Init => Provenance
  BY DEF Init, SourceInit, Provenance, Recorded
<1>2. TypeOK /\ Provenance /\ [Next]_vars => Provenance'
  BY ProvenanceStep DEF TypeOK
<1> QED
  BY <1>1, <1>2, TypeCorrect, PTL DEF Spec

-----------------------------------------------------------------------------
(* Chains in the order of the walk and in the order of recording.          *)

Times(evs) == [i \in DOMAIN evs |-> StringPlace(evs[i].at)]

\* The walk sorts each chain by the strings of effective_at.
LEMMA ChainsAreSorted ==
    ASSUME NEW evs, EventsOK(evs), NEW key
    PROVE  /\ Len(evs) \in Nat /\ Sorts(ChainOf(evs, key), Times(evs), Len(evs))
           /\ \A i, j \in ChainOf(evs, key) : NotAfter(evs, i, j) <=> NotLater(Times(evs), i, j)
           /\ \A i \in ChainOf(evs, key) :
                  PlaceOf(evs, key, i) = PlaceIn(ChainOf(evs, key), Times(evs), i)
<1> DEFINE A == ChainOf(evs, key)
<1>1. /\ Len(evs) \in Nat /\ DOMAIN evs = 1..Len(evs)
      /\ \A i \in DOMAIN evs : Times(evs)[i] = StringPlace(evs[i].at) /\ Times(evs)[i] \in Int
  BY PlaceBounded DEF EventsOK, EventOK, Times
<1>2. A \subseteq 1..Len(evs) /\ \A i \in A : i \in DOMAIN evs
  BY <1>1 DEF ChainOf
<1>3. \A i, j \in A : NotAfter(evs, i, j) <=> NotLater(Times(evs), i, j)
  BY <1>1, <1>2 DEF NotAfter, NotLater
<1>4. ASSUME NEW i \in A PROVE PlaceOf(evs, key, i) = PlaceIn(A, Times(evs), i)
  <2>1. {j \in A : NotAfter(evs, j, i)} = {j \in A : NotLater(Times(evs), j, i)}
    BY <1>3
  <2> QED
    BY <2>1 DEF PlaceOf, PlaceIn
<1> QED
  BY <1>1, <1>2, <1>3, <1>4 DEF Sorts

\* The k-th event of a chain is the one in the k-th place.
LEMMA EventAtPlace ==
    ASSUME NEW evs, EventsOK(evs), NEW key, NEW k \in 1..ChainSize(evs, key)
    PROVE  \E i \in ChainOf(evs, key) : PlaceOf(evs, key, i) = k /\ ChainEvent(evs, key, k) = evs[i]
<1>1. \E i \in ChainOf(evs, key) : PlaceOf(evs, key, i) = k
  BY ChainsAreSorted, PlaceTaken DEF ChainSize
<1> QED
  BY <1>1 DEF ChainEvent

\* And each event of a chain has a place, where the walk finds it.
LEMMA PlaceOfEvent ==
    ASSUME NEW evs, EventsOK(evs), NEW key, NEW i \in ChainOf(evs, key)
    PROVE  /\ PlaceOf(evs, key, i) \in 1..ChainSize(evs, key)
           /\ ChainEvent(evs, key, PlaceOf(evs, key, i)) = evs[i]
<1>1. PlaceOf(evs, key, i) \in 1..ChainSize(evs, key)
  BY ChainsAreSorted, PlaceBetween DEF ChainSize
<1>2. \A j \in ChainOf(evs, key) : PlaceOf(evs, key, j) = PlaceOf(evs, key, i) => j = i
  BY ChainsAreSorted, PlaceUnique
<1>3. (CHOOSE j \in ChainOf(evs, key) : PlaceOf(evs, key, j) = PlaceOf(evs, key, i)) = i
  BY <1>2
<1> QED
  BY <1>1, <1>3 DEF ChainEvent

\* Each event of the chain carries the hash of the one before it.
ChainFits(evs, key) ==
    \A k \in 1..ChainSize(evs, key) :
        /\ ChainEvent(evs, key, k).prior = PriorOf(evs, key, k)
        /\ ChainEvent(evs, key, k).this =
                ChainHash(ChainEvent(evs, key, k).prior, ChainEvent(evs, key, k).receipt)

\* The events of a linked chain have the hashes of their receipts.
LEMMA LinkedFits ==
    ASSUME NEW evs, NEW key, ChainLinked(evs, key)
    PROVE  ChainFits(evs, key)
BY DEF ChainLinked, EventLinked, ChainFits, PriorOf

\* Without fractions of a second the strings sort in the order of the instants,
\* so the walk takes the backend's events in the order of recording, in which
\* they are chained.
LEMMA RecordedChainsFit ==
    ASSUME ~Fractional, NEW rec, EventsOK(rec), Recorded(rec), NEW key
    PROVE  /\ \A i, j \in DOMAIN rec : NotAfter(rec, i, j) <=> i <= j
           /\ ChainFits(rec, key)
           /\ \A k \in 1..ChainSize(rec, key) : ChainEvent(rec, key, k).receipt \in Nat
<1> DEFINE A == ChainOf(rec, key)
           at(i) == PlaceOf(rec, key, i)
<1>1. /\ Len(rec) \in Nat /\ DOMAIN rec = 1..Len(rec)
      /\ \A i \in DOMAIN rec : rec[i].at \in Nat /\ StringPlace(rec[i].at) = rec[i].at
  BY ExportAssumption DEF EventsOK, EventOK, StringPlace
<1>2. \A i \in DOMAIN rec : \A j \in 1..(i - 1) : rec[j].at <= rec[i].at
  BY DEF Recorded, RecordedAt
<1>3. \A i, j \in DOMAIN rec : i < j => rec[i].at <= rec[j].at
  BY <1>1, <1>2
<1>4. \A i, j \in DOMAIN rec : NotAfter(rec, i, j) <=> i <= j
  BY <1>1, <1>3 DEF NotAfter
<1>5. \A i \in A : i \in DOMAIN rec /\ ChainKey(rec[i]) = key
  BY DEF ChainOf
<1>6. ASSUME NEW i \in A, NEW j \in A, i < j PROVE at(i) < at(j)
  <2>1. NotLater(Times(rec), i, j) /\ i # j
    BY <1>1, <1>4, <1>5, <1>6, ChainsAreSorted
  <2>2. PlaceIn(A, Times(rec), i) < PlaceIn(A, Times(rec), j)
    BY <2>1, ChainsAreSorted, PlaceRises
  <2> QED
    BY <2>2, ChainsAreSorted
<1>7. \A i \in A : at(i) \in 1..ChainSize(rec, key)
  BY PlaceOfEvent
<1>8. ASSUME NEW k \in 1..ChainSize(rec, key)
      PROVE  /\ ChainEvent(rec, key, k).receipt \in Nat
             /\ ChainEvent(rec, key, k).prior = PriorOf(rec, key, k)
             /\ ChainEvent(rec, key, k).this =
                    ChainHash(ChainEvent(rec, key, k).prior, ChainEvent(rec, key, k).receipt)
  <2>1. PICK i \in A : at(i) = k /\ ChainEvent(rec, key, k) = rec[i]
    BY EventAtPlace
  <2>2. RecordedAt(rec, i) /\ i \in Nat /\ i \in 1..Len(rec)
    BY <1>1, <1>5 DEF Recorded
  <2>3. \A j \in 1..(i - 1) : j \in DOMAIN rec /\ (SameChain(rec, j, i) <=> j \in A)
    BY <1>1, <1>5, <2>2 DEF SameChain, ChainOf
  <2>4. rec[i].prior = PriorOf(rec, key, k)
    <3>1. CASE k = 1
      <4>1. ASSUME NEW j \in 1..(i - 1), j \in A PROVE FALSE
        <5>1. at(j) < 1 /\ at(j) >= 1
          BY <1>6, <1>7, <2>1, <2>2, <3>1, <4>1
        <5> QED
          BY <1>7, <4>1, <5>1
      <4>2. rec[i].prior = None
        BY <2>2, <2>3, <4>1 DEF RecordedAt
      <4> QED
        BY <3>1, <4>2 DEF PriorOf
    <3>2. CASE k # 1
      <4>1. k - 1 \in 1..ChainSize(rec, key)
        BY <3>2, ChainSizeNat
      <4>2. PICK j \in A : at(j) = k - 1 /\ ChainEvent(rec, key, k - 1) = rec[j]
        BY <4>1, EventAtPlace
      <4>3. j \in Nat /\ j \in 1..Len(rec)
        BY <1>1, <1>5
      <4>4. j < i
        <5>1. i # j /\ ~(i < j)
          BY <1>6, <2>1, <4>2
        <5> QED
          BY <2>2, <4>3, <5>1
      <4>5. ASSUME NEW l \in (j + 1)..(i - 1), l \in A PROVE FALSE
        <5>1. j < l /\ l < i
          BY <2>2, <4>3
        <5>2. k - 1 < at(l) /\ at(l) < k /\ at(l) \in Int
          BY <1>6, <1>7, <2>1, <4>2, <4>5, <5>1
        <5> QED
          BY <5>2
      <4>6. /\ j \in 1..(i - 1) /\ SameChain(rec, j, i)
            /\ \A l \in (j + 1)..(i - 1) : ~SameChain(rec, l, i)
        <5>1. j \in 1..(i - 1) /\ \A l \in (j + 1)..(i - 1) : l \in 1..(i - 1)
          BY <2>2, <4>3, <4>4
        <5> QED
          BY <2>3, <4>5, <5>1
      <4>7. rec[i].prior = rec[j].this
        BY <2>2, <4>6 DEF RecordedAt
      <4> QED
        BY <3>2, <4>2, <4>7 DEF PriorOf
    <3> QED
      BY <3>1, <3>2
  <2> QED
    BY <2>1, <2>2, <2>4 DEF RecordedAt
<1> QED
  BY <1>4, <1>8 DEF ChainFits

\* A chain's receipts are hashed, in order, by its hashes.
LEMMA FittingChainHashes ==
    ASSUME NEW evs, NEW key, ChainFits(evs, key), NEW n \in Nat, n <= ChainSize(evs, key),
           ChainSize(evs, key) \in Nat
    PROVE  HashesOf([k \in 0..n |-> PriorOf(evs, key, k + 1)], Receipts(evs, key), n, None)
<1> DEFINE c == [k \in 0..n |-> PriorOf(evs, key, k + 1)]
<1>1. c[0] = None
  BY DEF PriorOf
<1>2. ASSUME NEW k \in 1..n PROVE c[k] = <<c[k - 1], Receipts(evs, key)[k]>>
  <2>1. /\ k \in 1..ChainSize(evs, key) /\ k \in 0..n /\ k - 1 \in 0..n
        /\ k + 1 # 1 /\ k + 1 - 1 = k /\ k - 1 + 1 = k
    OBVIOUS
  <2>2. c[k] = ChainEvent(evs, key, k).this /\ c[k - 1] = PriorOf(evs, key, k)
    BY <2>1 DEF PriorOf
  <2>3. Receipts(evs, key)[k] = ChainEvent(evs, key, k).receipt
    BY <2>1 DEF Receipts
  <2> QED
    BY <2>1, <2>2, <2>3 DEF ChainFits, ChainHash
<1> QED
  BY <1>1, <1>2 DEF HashesOf

\* Two chains that reach the same hash hold the same receipts up to it.
LEMMA SameTerminalSameReceipts ==
    ASSUME HashesDecode,
           NEW evs, NEW key, NEW m \in Nat, m # 0, m <= ChainSize(evs, key),
           ChainSize(evs, key) \in Nat, ChainFits(evs, key),
           NEW rec, NEW from, NEW n \in Nat, n # 0, n <= ChainSize(rec, from),
           ChainSize(rec, from) \in Nat, ChainFits(rec, from),
           ChainEvent(evs, key, m).this = ChainEvent(rec, from, n).this
    PROVE  m = n /\ \A k \in 1..m : Receipts(evs, key)[k] = Receipts(rec, from)[k]
<1> DEFINE c == [k \in 0..m |-> PriorOf(evs, key, k + 1)]
           h == [k \in 0..n |-> PriorOf(rec, from, k + 1)]
           p == Receipts(evs, key)
           q == Receipts(rec, from)
<1>1. HashesOf(c, p, m, None) /\ HashesOf(h, q, n, None)
  BY FittingChainHashes
<1>2. c[m] = h[n]
  <2>1. /\ m \in 0..m /\ m + 1 # 1 /\ m + 1 - 1 = m
        /\ n \in 0..n /\ n + 1 # 1 /\ n + 1 - 1 = n
    OBVIOUS
  <2>2. c[m] = ChainEvent(evs, key, m).this /\ h[n] = ChainEvent(rec, from, n).this
    BY <2>1 DEF PriorOf
  <2> QED
    BY <2>2
<1>3. \A x, y : <<x, y>> # None
  BY DEF HashesDecode, ChainHash
<1> HIDE DEF c, h, p, q
<1>4. m = n /\ \A k \in 1..m : p[k] = q[k]
  BY <1>1, <1>2, <1>3, SameHashSameChain
<1> QED
  BY <1>4 DEF p, q

\* The chain of a key that occurs has an event.
LEMMA KeyedChainSize ==
    ASSUME NEW evs, EventsOK(evs), NEW key \in KeysOf(evs)
    PROVE  ChainSize(evs, key) \in Nat /\ ChainSize(evs, key) # 0
<1>1. PICK i \in DOMAIN evs : ChainKey(evs[i]) = key
  BY DEF KeysOf
<1>2. i \in ChainOf(evs, key)
  BY <1>1 DEF ChainOf
<1> QED
  BY <1>2, ChainSizeNat, PlaceOfEvent

\* The hash a linked chain ends with pins the chain of the event that has it.
LEMMA TerminalPins ==
    ASSUME HashesDecode, ~Fractional,
           NEW evs, EventsOK(evs), NEW key \in KeysOf(evs), ChainLinked(evs, key),
           NEW rec, EventsOK(rec), Recorded(rec), NEW j \in DOMAIN rec,
           ChainEvent(evs, key, ChainSize(evs, key)).this = rec[j].this
    PROVE  /\ ChainSize(evs, key) \in 1..ChainSize(rec, ChainKey(rec[j]))
           /\ \A k \in 1..ChainSize(evs, key) :
                /\ Receipts(evs, key)[k] \in Nat
                /\ Receipts(evs, key)[k] = Receipts(rec, ChainKey(rec[j]))[k]
<1> DEFINE from == ChainKey(rec[j])
           m == ChainSize(evs, key)
           n == PlaceOf(rec, from, j)
<1>1. m \in Nat /\ m # 0
  BY KeyedChainSize
<1>2. n \in 1..ChainSize(rec, from) /\ ChainEvent(rec, from, n) = rec[j]
  <2>1. j \in ChainOf(rec, from)
    BY DEF ChainOf
  <2> QED
    BY <2>1, PlaceOfEvent
<1>3. ChainSize(rec, from) \in Nat
  BY ChainSizeNat
<1>4. ChainFits(evs, key) /\ ChainFits(rec, from)
  BY LinkedFits, RecordedChainsFit
<1>5. m = n /\ \A k \in 1..m : Receipts(evs, key)[k] = Receipts(rec, from)[k]
  <2>1. n \in Nat /\ n # 0 /\ n <= ChainSize(rec, from) /\ m <= ChainSize(evs, key)
    BY <1>1, <1>2, <1>3
  <2>2. ChainEvent(evs, key, m).this = ChainEvent(rec, from, n).this
    BY <1>2
  <2> HIDE DEF n, from
  <2> QED
    BY <1>1, <1>3, <1>4, <2>1, <2>2, SameTerminalSameReceipts
<1>6. ASSUME NEW k \in 1..m PROVE Receipts(rec, from)[k] \in Nat
  <2>1. k \in 1..ChainSize(rec, from)
    BY <1>1, <1>2, <1>3, <1>5
  <2> QED
    BY <2>1, RecordedChainsFit DEF Receipts
<1> QED
  BY <1>2, <1>5, <1>6

\* What the verifier knows of a bundle that passes.
LEMMA PassedIsSound ==
    ASSUME GraphInv, report # None, report.verdict = "pass"
    PROVE  /\ \A i \in DOMAIN events : SelfConsistent(events[i])
           /\ \A key \in KeysOf(events) : ChainLinked(events, key)
           /\ \A i \in DOMAIN tips : TipHolds(events, tips[i])
           /\ ActionsAuthorised(Document)
BY DEF GraphInv, VerdictIsAuthority, Governed, GraphSound, Document

\* Insertion, reordering and omission inside a chain are detected.
THEOREM PassedChainsRecorded ==
    ASSUME HashesDecode, ~Fractional
    PROVE  Spec => []PassedChainsArePrefixes
<1>1. TypeOK /\ GraphInv /\ Provenance => PassedChainsArePrefixes
  <2> SUFFICES ASSUME TypeOK, GraphInv, Provenance, report # None, report.verdict = "pass",
                      NEW key \in KeysOf(events)
               PROVE  \E from \in KeysOf(recorded) :
                         IsPrefix(Receipts(events, key), Receipts(recorded, from))
    BY DEF PassedChainsArePrefixes
  <2> DEFINE m == ChainSize(events, key)
  <2>1. EventsOK(events) /\ EventsOK(recorded) /\ Recorded(recorded) /\ ChainLinked(events, key)
    BY PassedIsSound DEF TypeOK, SourceTypeOK, Provenance
  <2>2. m \in Nat /\ m # 0 /\ m \in 1..m
    BY <2>1, KeyedChainSize
  <2>3. \E j \in DOMAIN recorded : ChainEvent(events, key, m).this = recorded[j].this
    <3>1. ChainEvent(events, key, m).this # Malformed
      BY <2>1, <2>2, LinkedFits DEF ChainFits, HashesDecode
    <3>2. PICK i \in ChainOf(events, key) : ChainEvent(events, key, m) = events[i]
      BY <2>1, <2>2, EventAtPlace
    <3>3. i \in DOMAIN events
      BY DEF ChainOf
    <3> QED
      BY <3>1, <3>2, <3>3 DEF Provenance
  <2>4. PICK j \in DOMAIN recorded : ChainEvent(events, key, m).this = recorded[j].this
    BY <2>3
  <2> DEFINE from == ChainKey(recorded[j])
             n == ChainSize(recorded, from)
             p == Receipts(events, key)
             q == Receipts(recorded, from)
  <2>5. m \in 1..n /\ \A k \in 1..m : p[k] \in Nat /\ p[k] = q[k]
    BY <2>1, <2>4, TerminalPins
  <2>6. n \in Nat /\ \A k \in 1..n : q[k] \in Nat
    BY <2>1, ChainSizeNat, RecordedChainsFit DEF Receipts
  <2>7. p \in [1..m -> Nat] /\ q \in [1..n -> Nat]
    BY <2>5, <2>6 DEF Receipts
  <2>8. p \in Seq(Nat) /\ Len(p) = m /\ q \in Seq(Nat) /\ Len(q) = n
    <3> HIDE DEF p, q, m, n
    <3> QED
      BY <2>2, <2>6, <2>7
  <2>9. IsPrefix(p, q)
    <3> HIDE DEF p, q, m, n
    <3> QED
      BY <2>2, <2>5, <2>6, <2>8 DEF IsPrefix
  <2>10. from \in KeysOf(recorded)
    BY DEF KeysOf
  <2> QED
    BY <2>9, <2>10
<1> QED
  BY <1>1, GraphInvariant, ProvenanceInvariant, PTL

-----------------------------------------------------------------------------
(* The tips.                                                               *)

\* The exporter's tips are those of events that end their chains.
LEMMA RecordedTipsAreEnds ==
    ASSUME EventsOK(recorded), NEW tip, \E k \in DOMAIN RecordedTips : tip = RecordedTips[k]
    PROVE  \E i \in DOMAIN recorded :
              /\ tip = TipAt(i)
              /\ \A j \in (i + 1)..Len(recorded) : ChainKey(recorded[j]) # ChainKey(recorded[i])
<1> DEFINE ends == {i \in DOMAIN recorded : \A j \in i + 1..Len(recorded) :
                       ChainKey(recorded[j]) # ChainKey(recorded[i])}
           nth(k) == CHOOSE i \in ends : Cardinality({j \in ends : j <= i}) = k
           zero == [i \in ends |-> 0]
<1>1. RecordedTips = [k \in 1..Cardinality(ends) |-> TipAt(nth(k))]
  BY DEF RecordedTips
<1>2. PICK k \in 1..Cardinality(ends) : tip = TipAt(nth(k))
  <2> HIDE DEF ends, nth
  <2> QED
    BY <1>1
<1>3. Len(recorded) \in Nat /\ Sorts(ends, zero, Len(recorded))
  BY DEF EventsOK, Sorts
<1>4. \E i \in ends : Cardinality({j \in ends : j <= i}) = k
  <2>1. \E i \in ends : PlaceIn(ends, zero, i) = k
    <3> HIDE DEF ends, zero
    <3> QED
      BY <1>2, <1>3, PlaceTaken
  <2>2. ASSUME NEW i \in ends PROVE {j \in ends : NotLater(zero, j, i)} = {j \in ends : j <= i}
    <3> HIDE DEF ends
    <3> QED
      BY DEF NotLater
  <2> HIDE DEF ends, zero
  <2> QED
    BY <2>1, <2>2 DEF PlaceIn
<1>5. nth(k) \in ends
  <2> HIDE DEF ends
  <2> QED
    BY <1>4
<1> QED
  BY <1>2, <1>5

\* Omission at the end of a chain is detected where a tip of the exporter survived.
THEOREM TipsPin ==
    ASSUME HashesDecode, ~Fractional
    PROVE  Spec => []TipsPinTheChain
<1>1. TypeOK /\ GraphInv /\ Provenance => TipsPinTheChain
  <2> SUFFICES ASSUME TypeOK, GraphInv, Provenance, report # None, report.verdict = "pass",
                      NEW i \in DOMAIN tips, tips[i] \in ToSet(RecordedTips)
               PROVE  Receipts(events, ChainKey(tips[i])) = Receipts(recorded, ChainKey(tips[i]))
    BY DEF TipsPinTheChain
  <2> DEFINE tip == tips[i]
             key == ChainKey(tip)
  <2>1. EventsOK(events) /\ EventsOK(recorded) /\ Recorded(recorded)
    BY DEF TypeOK, SourceTypeOK, Provenance
  <2>2. PICK j \in DOMAIN recorded : tip = TipAt(j)
    <3>1. \E k \in DOMAIN RecordedTips : tip = RecordedTips[k]
      BY DEF ToSet
    <3> QED
      BY <2>1, <3>1, RecordedTipsAreEnds
  <2>3. /\ key = ChainKey(recorded[j]) /\ tip.terminal = recorded[j].this
        /\ tip.count = ChainSize(recorded, key)
    BY <2>2 DEF TipAt, ChainKey, ChainSize, ChainOf
  <2>4. /\ key \in KeysOf(events) /\ ChainLinked(events, key)
        /\ tip.terminal = ChainEvent(events, key, ChainSize(events, key)).this
        /\ tip.count = ChainSize(events, key)
    BY PassedIsSound DEF TipHolds
  <2>5. \A k \in 1..ChainSize(events, key) : Receipts(events, key)[k] = Receipts(recorded, key)[k]
    <3> HIDE DEF key, tip
    <3>1. ChainEvent(events, key, ChainSize(events, key)).this = recorded[j].this
      BY <2>3, <2>4
    <3>2. \A k \in 1..ChainSize(events, key) :
              Receipts(events, key)[k] = Receipts(recorded, ChainKey(recorded[j]))[k]
      BY <2>1, <2>4, <3>1, TerminalPins
    <3> QED
      BY <2>3, <3>2
  <2>6. ChainSize(events, key) = ChainSize(recorded, key)
    BY <2>3, <2>4
  <2> HIDE DEF key
  <2> QED
    BY <2>5, <2>6 DEF Receipts, key
<1> QED
  BY <1>1, GraphInvariant, ProvenanceInvariant, PTL

-----------------------------------------------------------------------------
(* Bundles that nobody edited.                                             *)

\* The graph the backend exports is sound, with or without tips.
LEMMA ExportIsSound ==
    ASSUME HashesDecode, ~Fractional, SourceTypeOK, Provenance, edits = 0, stage # "recording"
    PROVE  /\ events = recorded /\ GraphSound(Document)
           /\ \A i \in DOMAIN events : events[i].kind \in Kinds
           /\ \A i \in DOMAIN actions : actions[i].agent # None
<1>1. /\ events = recorded /\ tips \in {<<>>, RecordedTips}
      /\ \A i \in DOMAIN actions : actions[i].agent # None
      /\ Recorded(recorded) /\ EventsOK(recorded)
  BY DEF Provenance, SourceTypeOK
<1>2. \A i \in DOMAIN recorded : RecordedAt(recorded, i)
  BY <1>1 DEF Recorded
<1>3. \A i \in DOMAIN recorded : recorded[i].kind \in Kinds /\ SelfConsistent(recorded[i])
  BY <1>2 DEF RecordedAt
<1>4. ASSUME NEW key \in KeysOf(recorded) PROVE ChainLinked(recorded, key)
  <2> DEFINE n == ChainSize(recorded, key)
  <2>1. ChainFits(recorded, key) /\ \A k \in 1..n : ChainEvent(recorded, key, k).receipt \in Nat
    BY <1>1, RecordedChainsFit
  <2>2. n \in Nat
    BY <1>1, ChainSizeNat
  <2> SUFFICES ASSUME NEW k \in 1..n PROVE EventLinked(recorded, key, k)
    BY DEF ChainLinked
  <2>3. PriorOf(recorded, key, k) # Malformed
    <3>1. CASE k = 1
      BY <3>1, GovernanceAssumption DEF PriorOf
    <3>2. CASE k # 1
      <4>1. k - 1 \in 1..n
        BY <2>2, <3>2
      <4> QED
        BY <2>1, <3>2, <4>1 DEF ChainFits, PriorOf, HashesDecode
    <3> QED
      BY <3>1, <3>2
  <2>4. ChainEvent(recorded, key, k).receipt # Malformed
    BY <2>1, GovernanceAssumption
  <2> QED
    BY <2>1, <2>3, <2>4 DEF ChainFits, EventLinked, PriorOf
<1>5. ASSUME NEW i \in DOMAIN tips PROVE TipHolds(recorded, tips[i])
  <2>1. PICK j \in DOMAIN recorded :
            /\ tips[i] = TipAt(j)
            /\ \A l \in (j + 1)..Len(recorded) : ChainKey(recorded[l]) # ChainKey(recorded[j])
    <3>1. \E k \in DOMAIN RecordedTips : tips[i] = RecordedTips[k]
      BY <1>1
    <3> QED
      BY <1>1, <3>1, RecordedTipsAreEnds
  <2> DEFINE key == ChainKey(recorded[j])
             A == ChainOf(recorded, key)
  <2>2. /\ ChainKey(tips[i]) = key /\ tips[i].terminal = recorded[j].this
        /\ tips[i].count = ChainSize(recorded, key)
    BY <2>1 DEF TipAt, ChainKey, ChainSize, ChainOf
  <2>3. j \in A /\ key \in KeysOf(recorded)
    BY DEF ChainOf, KeysOf
  <2>4. ASSUME NEW l \in A PROVE NotAfter(recorded, l, j)
    <3>1. l \in DOMAIN recorded /\ ChainKey(recorded[l]) = ChainKey(recorded[j])
      BY DEF ChainOf
    <3>2. Len(recorded) \in Nat /\ DOMAIN recorded = 1..Len(recorded)
      BY <1>1 DEF EventsOK
    <3>3. ~(l \in (j + 1)..Len(recorded))
      BY <2>1, <3>1
    <3>4. l <= j
      BY ONLY <3>1, <3>2, <3>3, j \in DOMAIN recorded
    <3> QED
      BY <1>1, <3>1, <3>4, RecordedChainsFit
  <2>5. PlaceOf(recorded, key, j) = ChainSize(recorded, key)
    <3>1. {l \in A : NotAfter(recorded, l, j)} = A
      BY <2>4
    <3> QED
      BY <3>1 DEF PlaceOf, ChainSize
  <2>6. ChainEvent(recorded, key, ChainSize(recorded, key)) = recorded[j]
    <3> HIDE DEF key
    <3> QED
      BY <1>1, <2>3, <2>5, PlaceOfEvent
  <2> HIDE DEF key
  <2> QED
    BY <2>2, <2>3, <2>6 DEF TipHolds
<1> QED
  BY <1>1, <1>3, <1>4, <1>5 DEF GraphSound, Document

\* Where the strings sort like the instants, the last event that bears on an
\* action is the last one recorded before it.
LEMMA AuthorisedIsInForce ==
    ASSUME ~Fractional, EventsOK(recorded), Recorded(recorded),
           NEW a, ActionOK(a), Authorised(recorded, a)
    PROVE  InForce(a)
<1> DEFINE earlier == {i \in DOMAIN recorded : /\ recorded[i].agent = a.agent
                                                /\ recorded[i].scope = a.scope
                                                /\ recorded[i].at <= a.at}
<1>1. Bearing(recorded, a) = earlier
  BY DEF Bearing, StringPlace
<1>2. PICK i \in earlier : /\ recorded[i].kind = "delegation"
                            /\ \A j \in earlier : NotAfter(recorded, j, i)
  BY <1>1 DEF Authorised
<1>3. \A j \in earlier : j <= i /\ j \in Int
  <2>1. \A j \in earlier : j \in DOMAIN recorded /\ j \in Int
    BY DEF EventsOK
  <2> HIDE DEF earlier
  <2> QED
    BY <1>2, <2>1, RecordedChainsFit
<1>4. (CHOOSE k \in earlier : \A j \in earlier : j <= k) = i
  <2>1. \A k \in earlier : (\A j \in earlier : j <= k) => k = i
    <3> HIDE DEF earlier
    <3> QED
      BY <1>3
  <2> HIDE DEF earlier
  <2> QED
    BY <1>3, <2>1
<1>5. earlier # {} /\ recorded[CHOOSE k \in earlier : \A j \in earlier : j <= k].kind = "delegation"
  <2> HIDE DEF earlier
  <2> QED
    BY <1>2, <1>4
<1> QED
  BY <1>5 DEF InForce

\* A bundle that nobody edited is never called tampered with, and passes only if
\* its actions had authority when they were performed.
THEOREM UntouchedBundlesAreJudged ==
    ASSUME HashesDecode, ~Fractional
    PROVE  Spec => []UntouchedIsJudged
<1>1. TypeOK /\ GraphInv /\ Provenance => UntouchedIsJudged
  <2> SUFFICES ASSUME TypeOK, GraphInv, Provenance, report # None, edits = 0
               PROVE  /\ report.mode = "chain_integrity_violation" => strict /\ recorded = <<>>
                      /\ (report.verdict = "pass" /\ recorded # <<>>) =>
                              \A i \in DOMAIN actions : InForce(actions[i])
    BY DEF UntouchedIsJudged
  <2>1. SourceTypeOK /\ stage # "recording"
    BY DEF TypeOK, GraphInv, PhaseInv, Submitted
  <2>2. /\ events = recorded /\ GraphSound(Document)
        /\ \A i \in DOMAIN events : events[i].kind \in Kinds
        /\ \A i \in DOMAIN actions : actions[i].agent # None
    BY <2>1, ExportIsSound
  <2>3. ASSUME report.mode = "chain_integrity_violation" PROVE strict /\ recorded = <<>>
    <3>1. report.verdict = "fail" /\ report.mode # "temporal_violation"
      BY <2>3, ResultAssumption DEF TypeOK, Results, Passed, Temporal, Integrity
    <3> QED
      BY <2>2, <3>1 DEF GraphInv, ModeNamesTheCause
  <2>4. ASSUME report.verdict = "pass", recorded # <<>>, NEW i \in DOMAIN actions
        PROVE  InForce(actions[i])
    <3>1. Authorised(recorded, actions[i])
      BY <2>2, <2>4, PassedIsSound DEF ActionsAuthorised, Document
    <3>2. EventsOK(recorded) /\ Recorded(recorded) /\ ActionOK(actions[i])
      BY <2>1 DEF SourceTypeOK, ActionsOK, Provenance
    <3> QED
      BY <3>1, <3>2, AuthorisedIsInForce
  <2> QED
    BY <2>3, <2>4
<1> QED
  BY <1>1, GraphInvariant, ProvenanceInvariant, PTL

-----------------------------------------------------------------------------
(* Timestamps without fractions of a second.                               *)

\* A last element, from a least one counted from the end.
LEMMA LastPlace ==
    ASSUME NEW n \in Nat, NEW S \in SUBSET (1..n), S # {}
    PROVE  \E i \in S : \A j \in S : j <= i
<1> DEFINE back == {n - i : i \in S}
<1>1. back \in SUBSET Nat /\ back # {}
  <2>1. \A i \in S : n - i \in Nat
    OBVIOUS
  <2>2. PICK i \in S : TRUE
    OBVIOUS
  <2>3. n - i \in back
    OBVIOUS
  <2>4. back \in SUBSET Nat
    BY <2>1
  <2> HIDE DEF back
  <2> QED
    BY <2>3, <2>4
<1>2. PICK m \in back : \A k \in back : m <= k
  <2> HIDE DEF back
  <2> QED
    BY <1>1, LeastNatural
<1>3. PICK i \in S : m = n - i
  OBVIOUS
<1>4. ASSUME NEW j \in S PROVE j <= i
  <2>1. n - i <= n - j
    BY <1>2, <1>3
  <2> QED
    BY <2>1
<1> QED
  BY <1>4

\* If the last event that bears on an action in the backend's order delegates,
\* so does the last in the order of the strings.
LEMMA InForceIsAuthorised ==
    ASSUME ~Fractional, EventsOK(recorded), Recorded(recorded), NEW a, InForce(a)
    PROVE  Authorised(recorded, a)
<1> DEFINE earlier == {i \in DOMAIN recorded : /\ recorded[i].agent = a.agent
                                                /\ recorded[i].scope = a.scope
                                                /\ recorded[i].at <= a.at}
           i == CHOOSE k \in earlier : \A j \in earlier : j <= k
<1>1. Bearing(recorded, a) = earlier
  BY DEF Bearing, StringPlace
<1>2. earlier # {} /\ recorded[i].kind = "delegation"
  BY DEF InForce
<1>3. earlier \in SUBSET DOMAIN recorded /\ Len(recorded) \in Nat /\ DOMAIN recorded = 1..Len(recorded)
  BY DEF EventsOK
<1> HIDE DEF earlier
<1>4. \E k \in earlier : \A j \in earlier : j <= k
  BY <1>2, <1>3, LastPlace
<1>5. i \in earlier /\ \A j \in earlier : j <= i
  BY <1>4
<1> HIDE DEF i
<1>6. \A j \in earlier : NotAfter(recorded, j, i)
  BY <1>3, <1>5, RecordedChainsFit
<1> QED
  BY <1>1, <1>2, <1>5, <1>6 DEF Authorised

\* What the specification promises of the order of timestamps holds where none has
\* a fraction of a second: an unedited graph passes exactly if all its actions had
\* authority when they were performed (check_authority_temporal_validity, phase 4).
THEOREM WholeSecondsAreChronological ==
    ASSUME HashesDecode, ~Fractional
    PROVE  Spec => []OrderIsChronological
<1>1. TypeOK /\ GraphInv /\ Provenance => OrderIsChronological
  <2> SUFFICES ASSUME TypeOK, GraphInv, Provenance, report # None, edits = 0, recorded # <<>>
               PROVE  report.verdict = "pass" <=> \A i \in DOMAIN actions : InForce(actions[i])
    BY DEF OrderIsChronological
  <2>1. SourceTypeOK /\ stage # "recording"
    BY DEF TypeOK, GraphInv, PhaseInv, Submitted
  <2>2. /\ events = recorded /\ GraphSound(Document)
        /\ \A i \in DOMAIN actions : actions[i].agent # None
    BY <2>1, ExportIsSound
  <2>3. report.verdict = "pass" <=> \A i \in DOMAIN actions : Authorised(recorded, actions[i])
    BY <2>2 DEF GraphInv, VerdictIsAuthority, Governed, ActionsAuthorised, Document
  <2>4. ASSUME NEW i \in DOMAIN actions
        PROVE  Authorised(recorded, actions[i]) <=> InForce(actions[i])
    <3>1. EventsOK(recorded) /\ Recorded(recorded) /\ ActionOK(actions[i])
      BY <2>1 DEF SourceTypeOK, ActionsOK, Provenance
    <3> QED
      BY <3>1, AuthorisedIsInForce, InForceIsAuthorised
  <2> QED
    BY <2>3, <2>4
<1> QED
  BY <1>1, GraphInvariant, ProvenanceInvariant, PTL

-----------------------------------------------------------------------------
(* The whole report is a function of the document.                         *)

\* What phase 4 is to say of an action: None if it had authority.
Refusal(evs, a) ==
    IF a.agent = None THEN Integrity
    ELSE IF Authorised(evs, a) THEN None
    ELSE IF \E i \in Bearing(evs, a) : /\ evs[i].kind \notin Kinds
                                       /\ \A j \in Bearing(evs, a) : NotAfter(evs, j, i)
         THEN Integrity ELSE Temporal

FirstRefused(g) ==
    CHOOSE i \in DOMAIN g.actions :
        /\ Refusal(g.events, g.actions[i]) # None
        /\ \A j \in 1..(i - 1) : Refusal(g.events, g.actions[j]) = None

\* What check 11 is to report of a document.
DueReport(g) ==
    IF ~GraphSound(g) THEN Integrity
    ELSE IF g.actions = <<>> THEN Passed
    ELSE IF g.events = <<>> THEN IF g.strict THEN Integrity ELSE Passed
    ELSE IF \A i \in DOMAIN g.actions : Refusal(g.events, g.actions[i]) = None THEN Passed
    ELSE Refusal(g.events, g.actions[FirstRefused(g)])

ReportIsDue == report # None => report = DueReport(Document)

\* The answer of phase 4 to the action it looks at is the one that is due.
LEMMA RefusalMeans ==
    ASSUME EventsOK(events), \A i \in DOMAIN events : events[i].kind \in Kinds \cup {"other"}
    PROVE  /\ HasAuthority => Refusal(events, actions[pos]) = None
           /\ ~HasAuthority =>
                Refusal(events, actions[pos]) =
                    IF actions[pos].agent = None THEN Integrity
                    ELSE IF Candidates = {} THEN Temporal
                    ELSE IF Decisive.kind = "revocation" THEN Temporal
                    ELSE Integrity
<1> DEFINE a == actions[pos]
           Odd == \E i \in Bearing(events, a) :
                      /\ events[i].kind \notin Kinds
                      /\ \A j \in Bearing(events, a) : NotAfter(events, j, i)
<1>1. HasAuthority <=> a.agent # None /\ Authorised(events, a)
  BY AuthorityMeans
<1>2. CASE Candidates = {}
  <2>1. ~Authorised(events, a) /\ ~Odd /\ ~HasAuthority
    BY <1>2 DEF Authorised, Candidates, HasAuthority
  <2> QED
    BY <1>2, <2>1 DEF Refusal
<1>3. CASE Candidates # {}
  <2>1. PICK i \in Candidates : /\ Decisive = events[i]
                                /\ \A j \in Candidates : NotAfter(events, j, i)
    BY <1>3, DecisiveIsLast
  <2>2. \A k \in Candidates : k \in DOMAIN events
    BY DEF Candidates, Bearing
  <2>3. \A k \in Candidates : (\A j \in Candidates : NotAfter(events, j, k)) => k = i
    BY <2>1, <2>2, LastIsUnique
  <2>4. Odd <=> Decisive.kind \notin Kinds
    BY <2>1, <2>3 DEF Candidates
  <2>5. Decisive.kind = "delegation" <=> Authorised(events, a)
    BY <1>3, DelegationDecides
  <2>6. Decisive.kind \in Kinds <=> Decisive.kind \in {"delegation", "revocation"}
    BY DEF Kinds
  <2> HIDE DEF Odd, a
  <2>7. Refusal(events, a) = IF a.agent = None THEN Integrity
                             ELSE IF Authorised(events, a) THEN None
                             ELSE IF Odd THEN Integrity ELSE Temporal
    BY DEF Refusal, Odd
  <2> QED
    BY <1>1, <1>3, <2>4, <2>5, <2>6, <2>7 DEF a
<1> QED
  BY <1>2, <1>3

\* An action found to have authority is not refused.
LEMMA AuthorisedNotRefused ==
    ASSUME NEW evs, NEW a, a.agent # None, Authorised(evs, a)
    PROVE  Refusal(evs, a) = None
BY DEF Refusal

\* A refusal is never the absence of one.
LEMMA RefusalIsResult ==
    None \notin {Integrity, Temporal, Passed}
BY ResultAssumption DEF Results

\* The first refused action, once found, is the one that is due.
LEMMA FirstRefusedIs ==
    ASSUME NEW g, NEW i \in DOMAIN g.actions, NEW n \in Nat, DOMAIN g.actions = 1..n,
           Refusal(g.events, g.actions[i]) # None,
           \A j \in 1..(i - 1) : Refusal(g.events, g.actions[j]) = None
    PROVE  FirstRefused(g) = i
<1>1. \A k \in DOMAIN g.actions :
        (/\ Refusal(g.events, g.actions[k]) # None
         /\ \A j \in 1..(k - 1) : Refusal(g.events, g.actions[j]) = None) => k = i
  <2> SUFFICES ASSUME NEW k \in DOMAIN g.actions, Refusal(g.events, g.actions[k]) # None,
                      \A j \in 1..(k - 1) : Refusal(g.events, g.actions[j]) = None
               PROVE  k = i
    OBVIOUS
  <2>1. k \in 1..n /\ i \in 1..n
    OBVIOUS
  <2>2. ~(k < i) /\ ~(i < k)
    BY <2>1
  <2> QED
    BY <2>1, <2>2
<1> QED
  BY <1>1 DEF FirstRefused

\* Every step that reports, reports what is due.
LEMMA DueStep ==
    ASSUME TypeOK, GraphInv, ReportIsDue, [Next]_vars
    PROVE  ReportIsDue'
<1> USE RefusalIsResult
<1>0. ASSUME UNCHANGED sourceVars PROVE Document' = Document
  BY <1>0 DEF sourceVars, Document
<1>1. CASE report' = None
  BY <1>1 DEF ReportIsDue
<1>2. CASE Source \/ Submit
  BY <1>1, <1>2 DEF Source, SourceNext, Tick, RecordEvent, RecordAction, ExportBundle, Edit,
                    Submit, Submitted, GraphInv, PhaseInv, walkVars
<1>3. CASE CheckEvents /\ report' # None
  <2>1. report' = Integrity /\ UNCHANGED sourceVars /\ ~GraphSound(Document)
    BY <1>3 DEF CheckEvents, Running, GraphSound, Document
  <2> QED
    BY <1>0, <2>1 DEF ReportIsDue, DueReport
<1>4. CASE BreakChain
  <2>1. /\ Submitted /\ phase = 2 /\ current # None /\ pos <= ChainSize(events, current)
        /\ LinkFaulty \/ HashFaulty
        /\ UNCHANGED sourceVars /\ report' = Integrity
    BY <1>4, ChainSizeNat DEF BreakChain, InChain, Running, BetweenChains, TypeOK, SourceTypeOK
  <2>2. ~EventLinked(events, current, pos)
    BY <2>1, FaultMeansUnlinked DEF GraphInv, PhaseInv, ChainInv
  <2>3. pos \in 1..ChainSize(events, current) /\ current \in KeysOf(events)
    BY <2>1, ChainSizeNat DEF TypeOK, SourceTypeOK
  <2>4. ~GraphSound(Document)
    BY <2>2, <2>3 DEF ChainLinked, GraphSound, Document
  <2> QED
    BY <1>0, <2>1, <2>4 DEF ReportIsDue, DueReport
<1>5. CASE CheckTips /\ report' # None
  <2>1. report' = Integrity /\ UNCHANGED sourceVars /\ ~GraphSound(Document)
    BY <1>5 DEF CheckTips, Running, GraphSound, Document
  <2> QED
    BY <1>0, <2>1 DEF ReportIsDue, DueReport
<1>6. CASE ConcludeWithoutWalk
  <2>1. /\ phase = 4 /\ (actions = <<>> \/ events = <<>>) /\ UNCHANGED sourceVars
        /\ report' = IF actions # <<>> /\ strict THEN Integrity ELSE Passed
    BY <1>6 DEF ConcludeWithoutWalk, Running
  <2>2. GraphSound(Document)
    BY <2>1, SoundBeforeActions DEF GraphInv
  <2>3. /\ Document.actions = actions /\ Document.events = events
        /\ Document.strict = strict
    BY DEF Document
  <2>4. report' = DueReport(Document)
    BY <2>1, <2>2, <2>3 DEF DueReport
  <2> QED
    BY <1>0, <2>1, <2>4 DEF ReportIsDue
<1>7. ASSUME phase = 4, GraphInv
      PROVE  \A i \in 1..(pos - 1) : i \in DOMAIN actions =>
                Refusal(events, actions[i]) = None
  BY <1>7, AuthorisedNotRefused DEF GraphInv, PhaseInv
<1>8. CASE RefuseAction
  <2>1. /\ phase = 4 /\ UNCHANGED sourceVars /\ ~HasAuthority
        /\ events # <<>> /\ actions # <<>> /\ pos <= Len(actions)
        /\ report' = IF actions[pos].agent = None THEN Integrity
                     ELSE IF Candidates = {} THEN Temporal
                     ELSE IF Decisive.kind = "revocation" THEN Temporal
                     ELSE Integrity
    BY <1>8 DEF RefuseAction, InActions, Running
  <2>2. /\ EventsOK(events) /\ \A i \in DOMAIN events : events[i].kind \in Kinds \cup {"other"}
        /\ pos \in 1..Len(actions) /\ Len(actions) \in Nat /\ DOMAIN actions = 1..Len(actions)
    BY <2>1 DEF TypeOK, SourceTypeOK, EventsOK, EventOK, ActionsOK
  <2>3. report' = Refusal(events, actions[pos])
    BY <2>1, <2>2, RefusalMeans
  <2>4. report' # None
    BY <2>1
  <2>5. \A j \in 1..(pos - 1) : Refusal(events, actions[j]) = None
    BY <1>7, <2>1, <2>2
  <2>6. GraphSound(Document)
    BY <2>1, SoundBeforeActions DEF GraphInv
  <2>7. /\ Document.actions = actions /\ Document.events = events
    BY DEF Document
  <2>8. FirstRefused(Document) = pos
    BY <2>2, <2>3, <2>4, <2>5, <2>7, FirstRefusedIs
  <2>9. report' = DueReport(Document)
    BY <2>1, <2>2, <2>3, <2>4, <2>6, <2>7, <2>8 DEF DueReport
  <2> QED
    BY <1>0, <2>1, <2>9 DEF ReportIsDue
<1>9. CASE Conclude
  <2>1. /\ phase = 4 /\ UNCHANGED sourceVars /\ events # <<>> /\ actions # <<>>
        /\ pos > Len(actions) /\ report' = Passed
    BY <1>9 DEF Conclude, Running
  <2>2. \A i \in DOMAIN actions : Refusal(events, actions[i]) = None
    BY <1>7, <2>1 DEF TypeOK, SourceTypeOK, ActionsOK
  <2>3. GraphSound(Document)
    BY <2>1, SoundBeforeActions DEF GraphInv
  <2>4. /\ Document.actions = actions /\ Document.events = events
    BY DEF Document
  <2>5. report' = DueReport(Document)
    BY <2>1, <2>2, <2>3, <2>4 DEF DueReport
  <2> QED
    BY <1>0, <2>1, <2>5 DEF ReportIsDue
<1>10. CASE (\E key \in KeysOf(events) : PickChain(key)) \/ LinkEvent \/ EndChains \/ AllowAction
  BY <1>1, <1>10 DEF PickChain, LinkEvent, EndChains, AllowAction, InChain, InActions, Running
<1>11. CASE UNCHANGED vars
  BY <1>0, <1>11 DEF vars, walkVars, ReportIsDue
<1> QED
  BY <1>1, <1>2, <1>3, <1>4, <1>5, <1>6, <1>8, <1>9, <1>10, <1>11 DEF Next, Walk

\* The result of check 11 and its failure mode are functions of the document: the
\* mode is the one that the document deserves, whatever order the HashMap gives its
\* chains.  The message, which names the chain that failed first, is not modelled and
\* may depend on that order.
THEOREM AuthorityReportDetermined == Spec => []ReportIsDue
<1>1. Init => ReportIsDue
  BY DEF Init, ReportIsDue
<1>2. TypeOK /\ GraphInv /\ ReportIsDue /\ [Next]_vars => ReportIsDue'
  BY DueStep
<1> QED
  BY <1>1, <1>2, GraphInvariant, PTL DEF Spec

-----------------------------------------------------------------------------
(* The four phases end.                                                    *)

\* What is left of check 11: the phases and chains to come, then the events of the
\* chain under the walk, the actions to look at, or the report.
RoundsLeft == CASE phase = 1 -> Cardinality(KeysOf(events)) + 3
                [] phase = 2 -> Cardinality(todo) + 2
                [] phase = 3 -> 1
                [] OTHER -> 0

InRound == IF report # None THEN 0
           ELSE IF phase = 2 /\ ~BetweenChains THEN ChainSize(events, current) + 2 - pos
           ELSE IF phase = 4 THEN Len(actions) + 2 - pos
           ELSE 1

WorkLeft == <<RoundsLeft, InRound>>

\* Phase 4 never looks past the last action.
WithinActions == phase = 4 => pos <= Len(actions) + 1

\* The events of a document have finitely many keys.
LEMMA KeysFinite ==
    ASSUME NEW evs, EventsOK(evs)
    PROVE  IsFiniteSet(KeysOf(evs))
<1> DEFINE f == [i \in 1..Len(evs) |-> ChainKey(evs[i])]
<1>1. DOMAIN evs = 1..Len(evs) /\ Len(evs) \in Nat
  BY DEF EventsOK
<1>2. f \in Surjection(1..Len(evs), KeysOf(evs))
  <2>1. f \in [1..Len(evs) -> KeysOf(evs)]
    BY <1>1 DEF KeysOf
  <2>2. \A k \in KeysOf(evs) : \E i \in 1..Len(evs) : f[i] = k
    BY <1>1 DEF KeysOf
  <2> HIDE DEF f
  <2> QED
    BY <2>1, <2>2 DEF Surjection
<1> HIDE DEF f
<1> QED
  BY <1>1, <1>2, FS_Interval, FS_Surjection

\* So have the chains still to be walked.
LEMMA TodoFinite ==
    ASSUME TypeOK
    PROVE  /\ IsFiniteSet(todo) /\ Cardinality(todo) \in Nat
           /\ Cardinality(KeysOf(events)) \in Nat
<1>1. IsFiniteSet(KeysOf(events)) /\ todo \in SUBSET KeysOf(events)
  BY KeysFinite DEF TypeOK, SourceTypeOK
<1> QED
  BY <1>1, FS_Subset, FS_CardinalityType

\* The two numbers are natural while the check runs, and the second is not 0.
LEMMA WorkIsNat ==
    ASSUME TypeOK, WithinActions
    PROVE  RoundsLeft \in Nat /\ InRound \in Nat /\ (report = None => InRound > 0)
<1>1. /\ phase \in 1..4 /\ pos \in Nat \ {0} /\ Len(actions) \in Nat
      /\ ChainSize(events, current) \in Nat
  BY ChainSizeNat DEF TypeOK, SourceTypeOK, ActionsOK
<1>2. RoundsLeft \in Nat
  BY <1>1, TodoFinite DEF RoundsLeft
<1>3. InRound \in Nat /\ (report = None => InRound > 0)
  BY <1>1 DEF InRound, BetweenChains, WithinActions
<1> QED
  BY <1>2, <1>3

\* One step of a phase leaves less to do.
LEMMA WalkStepDescends ==
    ASSUME TypeOK, WithinActions, TypeOK', WithinActions', Walk
    PROVE  RoundsLeft' < RoundsLeft \/ (RoundsLeft' = RoundsLeft /\ InRound' < InRound)
<1> USE ResultAssumption DEF RoundsLeft
<1>0. /\ pos \in Nat \ {0} /\ Len(actions) \in Nat /\ ChainSize(events, current) \in Nat
      /\ Cardinality(todo) \in Nat /\ Cardinality(KeysOf(events)) \in Nat
      /\ RoundsLeft \in Nat /\ InRound \in Nat
  BY WorkIsNat, TodoFinite, ChainSizeNat DEF TypeOK, SourceTypeOK, ActionsOK
<1>1. report = None /\ UNCHANGED <<events, actions>> /\ InRound > 0
  BY WorkIsNat DEF Walk, CheckEvents, PickChain, LinkEvent, BreakChain, EndChains, CheckTips,
                   ConcludeWithoutWalk, AllowAction, RefuseAction, Conclude, InChain,
                   InActions, Running, sourceVars
<1>2. KeysOf(events)' = KeysOf(events)
  BY <1>1 DEF KeysOf
<1>3. ASSUME report' # None, UNCHANGED <<phase, todo>>
      PROVE  RoundsLeft' = RoundsLeft /\ InRound' < InRound
  BY <1>1, <1>2, <1>3 DEF InRound
<1>4. CASE CheckEvents
  <2>1. CASE \A i \in DOMAIN events : SelfConsistent(events[i])
    <3>1. phase = 1 /\ phase' = 2 /\ todo' = KeysOf(events)
      BY <1>4, <2>1 DEF CheckEvents, Running, Enter
    <3> QED
      BY <1>0, <3>1
  <2>2. CASE ~ \A i \in DOMAIN events : SelfConsistent(events[i])
    BY <1>3, <1>4, <2>2 DEF CheckEvents, Results
  <2> QED
    BY <2>1, <2>2
<1>5. CASE \E key \in KeysOf(events) : PickChain(key)
  <2>1. PICK key \in KeysOf(events) : PickChain(key)
    BY <1>5
  <2>2. phase = 2 /\ phase' = 2 /\ key \in todo /\ todo' = todo \ {key}
    BY <2>1 DEF PickChain, Running
  <2>3. Cardinality(todo \ {key}) = Cardinality(todo) - 1
    BY <2>2, TodoFinite, FS_RemoveElement
  <2> QED
    BY <1>0, <2>2, <2>3
<1>6. CASE LinkEvent
  <2>1. /\ phase = 2 /\ phase' = 2 /\ todo' = todo /\ current' = current /\ report' = None
        /\ pos' = pos + 1 /\ ~BetweenChains /\ current # None
        /\ ~(pos > ChainSize(events, current))
    BY <1>6 DEF LinkEvent, InChain, Running, BetweenChains
  <2>2. InRound = ChainSize(events, current) + 2 - pos
    BY <1>1, <2>1 DEF InRound
  <2>3. InRound' = IF pos + 1 > ChainSize(events, current) THEN 1
                   ELSE ChainSize(events, current) + 2 - (pos + 1)
    BY <1>1, <2>1 DEF InRound, BetweenChains
  <2> QED
    BY <1>0, <1>2, <2>1, <2>2, <2>3
<1>7. CASE EndChains
  <2>1. phase = 2 /\ phase' = 3
    BY <1>7 DEF EndChains, Running, Enter
  <2> QED
    BY <1>0, <2>1
<1>8. CASE CheckTips
  <2>1. CASE \A i \in DOMAIN tips : TipHolds(events, tips[i])
    <3>1. phase = 3 /\ phase' = 4
      BY <1>8, <2>1 DEF CheckTips, Running, Enter
    <3> QED
      BY <1>0, <3>1
  <2>2. CASE ~ \A i \in DOMAIN tips : TipHolds(events, tips[i])
    BY <1>3, <1>8, <2>2 DEF CheckTips, Results
  <2> QED
    BY <2>1, <2>2
<1>9. CASE AllowAction
  <2>1. /\ phase = 4 /\ phase' = 4 /\ pos' = pos + 1 /\ report' = None /\ todo' = todo
    BY <1>9 DEF AllowAction, InActions, Running
  <2>2. InRound = Len(actions) + 2 - pos /\ InRound' = Len(actions) + 2 - (pos + 1)
    BY <1>1, <2>1 DEF InRound
  <2> QED
    BY <1>0, <1>2, <2>1, <2>2
<1>10. CASE BreakChain
  BY <1>3, <1>10 DEF BreakChain, Results
<1>11. CASE ConcludeWithoutWalk \/ Conclude
  BY <1>3, <1>11 DEF ConcludeWithoutWalk, Conclude, Results
<1>12. CASE RefuseAction
  BY <1>3, <1>12 DEF RefuseAction, Results
<1> QED
  BY <1>4, <1>5, <1>6, <1>7, <1>8, <1>9, <1>10, <1>11, <1>12 DEF Walk

\* Every step taken while check 11 runs leaves less to do, in whatever order the HashMap
\* gives the chains: each chain is walked once, the phases never go back, and the check
\* comes to a report.
THEOREM AuthorityDescends ==
    Spec => [][Submitted /\ report = None =>
                 /\ WorkLeft \in Nat \X Nat /\ WorkLeft' \in Nat \X Nat
                 /\ <<WorkLeft', WorkLeft>> \in Fewer]_vars
<1>1. Init => WithinActions
  BY DEF Init, WithinActions
<1>2. TypeOK /\ GraphInv /\ WithinActions /\ [Next]_vars => WithinActions'
  <2> SUFFICES ASSUME TypeOK, GraphInv, WithinActions, [Next]_vars PROVE WithinActions'
    OBVIOUS
  <2>0. pos \in Nat \ {0} /\ Len(actions) \in Nat
    BY DEF TypeOK, SourceTypeOK, ActionsOK
  <2>1. CASE Source \/ Submit
    <3>1. ~Submitted /\ UNCHANGED walkVars
      BY <2>1 DEF Source, SourceNext, Tick, RecordEvent, RecordAction, ExportBundle, Edit,
                  Submit, Submitted
    <3>2. phase' = 1
      BY <3>1 DEF GraphInv, PhaseInv, walkVars
    <3> QED
      BY <3>2 DEF WithinActions
  <2>2. CASE AllowAction
    BY <2>0, <2>2 DEF AllowAction, InActions, Running, sourceVars, WithinActions
  <2>3. CASE CheckTips
    BY <2>0, <2>3 DEF CheckTips, Running, Enter, sourceVars, WithinActions
  <2>4. CASE CheckEvents \/ EndChains
    BY <2>4 DEF CheckEvents, EndChains, Running, Enter, WithinActions
  <2>5. CASE (\E key \in KeysOf(events) : PickChain(key)) \/ LinkEvent
    BY <2>5 DEF PickChain, LinkEvent, InChain, Running, WithinActions
  <2>6. CASE BreakChain \/ ConcludeWithoutWalk \/ RefuseAction \/ Conclude \/ UNCHANGED vars
    BY <2>6 DEF BreakChain, ConcludeWithoutWalk, RefuseAction, Conclude, vars, walkVars,
                sourceVars, WithinActions
  <2> QED
    BY <2>1, <2>2, <2>3, <2>4, <2>5, <2>6 DEF Next, Walk
<1>3. TypeOK' /\ WithinActions' => (RoundsLeft \in Nat /\ InRound \in Nat)'
  <2>1. TypeOK /\ WithinActions => RoundsLeft \in Nat /\ InRound \in Nat
    BY WorkIsNat
  <2> QED
    BY <2>1, PTL
<1>4. ASSUME TypeOK, WithinActions, TypeOK', WithinActions', Next, Submitted, report = None
      PROVE  /\ WorkLeft \in Nat \X Nat /\ WorkLeft' \in Nat \X Nat
             /\ <<WorkLeft', WorkLeft>> \in Fewer
  <2>1. Walk
    BY <1>4 DEF Next, Source, SourceNext, Tick, RecordEvent, RecordAction, ExportBundle, Edit,
                Submit, Submitted
  <2>2. RoundsLeft \in Nat /\ InRound \in Nat
    BY <1>4, WorkIsNat
  <2>3. RoundsLeft' \in Nat /\ InRound' \in Nat
    BY <1>4, <1>3
  <2>4. RoundsLeft' < RoundsLeft \/ (RoundsLeft' = RoundsLeft /\ InRound' < InRound)
    BY <1>4, <2>1, WalkStepDescends
  <2>5. WorkLeft = <<RoundsLeft, InRound>> /\ WorkLeft' = <<RoundsLeft', InRound'>>
    BY DEF WorkLeft
  <2> QED
    BY <2>2, <2>3, <2>4, <2>5, FewerLeft
<1>5. TypeOK /\ WithinActions /\ TypeOK' /\ WithinActions' /\ [Next]_vars =>
        [Submitted /\ report = None =>
             /\ WorkLeft \in Nat \X Nat /\ WorkLeft' \in Nat \X Nat
             /\ <<WorkLeft', WorkLeft>> \in Fewer]_vars
  BY <1>4
<1> QED
  BY <1>1, <1>2, <1>5, GraphInvariant, PTL DEF Spec

\* Until check 11 has a report the guard of one of the steps of its phases holds.
LEMMA AuthorityNeverWaits ==
    ASSUME TypeOK, Submitted, report = None
    PROVE  \/ Running(1)
           \/ Running(2) /\ BetweenChains /\ \E key \in KeysOf(events) : key \in todo
           \/ Running(2) /\ BetweenChains /\ todo = {}
           \/ InChain /\ (~LinkFaulty /\ ~HashFaulty)
           \/ InChain /\ (LinkFaulty \/ HashFaulty)
           \/ Running(3)
           \/ Running(4) /\ (actions = <<>> \/ events = <<>>)
           \/ InActions /\ HasAuthority
           \/ InActions /\ ~HasAuthority
           \/ Running(4) /\ events # <<>> /\ actions # <<>> /\ pos > Len(actions)
BY DEF TypeOK, SourceTypeOK, ActionsOK, Running, InChain, InActions
=============================================================================
