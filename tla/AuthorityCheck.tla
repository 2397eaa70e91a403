--------------------------- MODULE AuthorityCheck ---------------------------
(***************************************************************************)
(* Check 11 of the verifier, check_authority_temporal_validity, in its     *)
(* four phases: every event agrees with itself; the events are grouped     *)
(* into chains in a HashMap, and chain by chain in the map's iteration     *)
(* order (any order: PickChain) each chain is sorted and recomputed; every *)
(* tip matches its chain; every action that needs authority had it.  The   *)
(* first failure ends the check, with a failure mode that says whether the *)
(* graph or an action is at fault.  The loops of phases 1 and 3 look at    *)
(* each item alone and fail in one way: each is one step.                  *)
(***************************************************************************)
EXTENDS GovernanceExport, SequencesExt

VARIABLES
    phase,          \* the phase that runs: 1 to 4
    pos,            \* the item the phase's loop looks at next
    todo,           \* keys of chains not walked yet
    current,        \* the chain under the walk, or None before the first
    priorHex,       \* prior_hex
    report          \* None while the check runs, then its Check11Result

walkVars == <<phase, pos, todo, current, priorHex, report>>

vars == <<sourceVars, walkVars>>

Passed == [verdict |-> "pass", mode |-> None]
Temporal == [verdict |-> "fail", mode |-> "temporal_violation"]
Integrity == [verdict |-> "fail", mode |-> "chain_integrity_violation"]

Results == {Passed, Temporal, Integrity}

ASSUME ResultAssumption ==
    /\ None \notin Results
    /\ None \notin {"pass", "fail", "temporal_violation", "chain_integrity_violation"}

Init ==
    /\ SourceInit
    /\ phase = 1 /\ pos = 1 /\ todo = {} /\ current = None /\ priorHex = None
    /\ report = None

\* The document is verified, with --strict or without.  The flag is only read
\* when there is no event: with events its value is left at FALSE.
Submit ==
    /\ stage = "exported"
    /\ stage' = "submitted"
    /\ strict' \in IF events = <<>> THEN BOOLEAN ELSE {FALSE}
    /\ UNCHANGED <<recorded, events, tips, actions, now, edits, walkVars>>

Running(p) == Submitted /\ report = None /\ phase = p

Enter(p) == phase' = p /\ pos' = 1

-----------------------------------------------------------------------------
(* Phase 1: for ge in &bundle.governance_events, then the grouping.        *)

CheckEvents ==
    /\ Running(1)
    /\ IF \A i \in DOMAIN events : SelfConsistent(events[i])
       THEN Enter(2) /\ todo' = KeysOf(events) /\ UNCHANGED report
       ELSE report' = Integrity /\ UNCHANGED <<phase, pos, todo>>
    /\ UNCHANGED <<sourceVars, current, priorHex>>

-----------------------------------------------------------------------------
(* Phase 2: for (key, events) in chains.iter_mut()                         *)

\* No chain is under way: none was picked, or the last one has been walked.
BetweenChains == current = None \/ pos > ChainSize(events, current)

PickChain(key) ==
    /\ Running(2) /\ BetweenChains /\ key \in todo
    /\ current' = key
    /\ todo' = todo \ {key}
    /\ pos' = 1
    /\ priorHex' = None
    /\ UNCHANGED <<sourceVars, phase, report>>

InChain == Running(2) /\ ~BetweenChains

Event == ChainEvent(events, current, pos)

\* Broken variant of LinkFaulty: an absent prior is always accepted.
LinkFaultyIfStated == Event.prior # None /\ (pos = 1 \/ Event.prior # priorHex)

\* (a) and (b); the hex strings are compared, an absent one as "".
LinkFaulty == IF pos = 1 THEN Event.prior # None ELSE Event.prior # priorHex

\* (c); the hash is recomputed from the prior the event states.
HashFaulty == \/ Malformed \in {Event.receipt, Event.prior}
              \/ Event.this # ChainHash(Event.prior, Event.receipt)

LinkEvent ==
    /\ InChain /\ ~LinkFaulty /\ ~HashFaulty
    /\ priorHex' = Event.this
    /\ pos' = pos + 1
    /\ UNCHANGED <<sourceVars, phase, todo, current, report>>

BreakChain ==
    /\ InChain /\ (LinkFaulty \/ HashFaulty)
    /\ report' = Integrity
    /\ UNCHANGED <<sourceVars, phase, pos, todo, current, priorHex>>

\* Broken variant of EndChains: the tips are not looked at.
EndChainsSkipsTips ==
    /\ Running(2) /\ BetweenChains /\ todo = {}
    /\ Enter(4)
    /\ UNCHANGED <<sourceVars, todo, current, priorHex, report>>

EndChains ==
    /\ Running(2) /\ BetweenChains /\ todo = {}
    /\ Enter(3)
    /\ UNCHANGED <<sourceVars, todo, current, priorHex, report>>

-----------------------------------------------------------------------------
(* Phase 3: for tip in &bundle.governance_chain_tips                       *)

CheckTips ==
    /\ Running(3)
    /\ IF \A i \in DOMAIN tips : TipHolds(events, tips[i])
       THEN Enter(4) /\ UNCHANGED report
       ELSE report' = Integrity /\ UNCHANGED <<phase, pos>>
    /\ UNCHANGED <<sourceVars, todo, current, priorHex>>

-----------------------------------------------------------------------------
(* Phase 4: for action in &scoped_actions                                  *)

\* No scoped action, or no governance event at all.
ConcludeWithoutWalk ==
    /\ Running(4) /\ (actions = <<>> \/ events = <<>>)
    /\ report' = IF actions # <<>> /\ strict THEN Integrity ELSE Passed
    /\ UNCHANGED <<sourceVars, phase, pos, todo, current, priorHex>>

InActions == Running(4) /\ events # <<>> /\ actions # <<>> /\ pos <= Len(actions)

Candidates == Bearing(events, actions[pos])

\* Broken variant of Decisive: candidates.first().
DecisiveFirst == events[CHOOSE i \in Candidates : \A j \in Candidates : NotAfter(events, i, j)]

\* candidates.last() after the stable sort.
Decisive == events[CHOOSE i \in Candidates : \A j \in Candidates : NotAfter(events, j, i)]

HasAuthority ==
    actions[pos].agent # None /\ Candidates # {} /\ Decisive.kind = "delegation"

AllowAction ==
    /\ InActions /\ HasAuthority
    /\ pos' = pos + 1
    /\ UNCHANGED <<sourceVars, phase, todo, current, priorHex, report>>

\* Broken variant of RefuseAction: an unknown kind is refused without a mode.
RefuseActionUntagged ==
    /\ InActions /\ ~HasAuthority
    /\ report' = IF actions[pos].agent = None THEN Integrity
                 ELSE IF Candidates = {} \/ Decisive.kind = "revocation" THEN Temporal
                 ELSE [verdict |-> "fail", mode |-> None]
    /\ UNCHANGED <<sourceVars, phase, pos, todo, current, priorHex>>

RefuseAction ==
    /\ InActions /\ ~HasAuthority
    /\ report' = IF actions[pos].agent = None THEN Integrity
                 ELSE IF Candidates = {} THEN Temporal
                 ELSE IF Decisive.kind = "revocation" THEN Temporal
                 ELSE Integrity
    /\ UNCHANGED <<sourceVars, phase, pos, todo, current, priorHex>>

Conclude ==
    /\ Running(4) /\ events # <<>> /\ actions # <<>> /\ pos > Len(actions)
    /\ report' = Passed
    /\ UNCHANGED <<sourceVars, phase, pos, todo, current, priorHex>>

-----------------------------------------------------------------------------

Walk == \/ CheckEvents
        \/ \E key \in KeysOf(events) : PickChain(key)
        \/ LinkEvent \/ BreakChain \/ EndChains
        \/ CheckTips
        \/ ConcludeWithoutWalk \/ AllowAction \/ RefuseAction \/ Conclude

Source == SourceNext /\ UNCHANGED walkVars

Next == Source \/ Submit \/ Walk

Spec == Init /\ [][Next]_vars

-----------------------------------------------------------------------------
(* Properties.                                                             *)

\* The types of check 11's variables and of its document.
TypeOK == /\ SourceTypeOK
          /\ phase \in 1..4
          /\ pos \in Nat \ {0}
          /\ todo \subseteq KeysOf(events)
          /\ current \in KeysOf(events) \cup {None}
          /\ report \in Results \cup {None}

\* Whatever order the HashMap is walked in, check 11 passes exactly when the
\* graph is sound and every action was authorised by it (or, not strict, when
\* there is no graph at all).
VerdictIsAuthority ==
    report # None => (report.verdict = "pass" <=> Governed(Document))

\* The failure mode tells the two classes apart: a temporal violation is only
\* reported of a sound graph, for an agent's action that it does not authorise;
\* an integrity violation is never a mere lack of authority.
ModeNamesTheCause ==
    (report # None /\ report.verdict = "fail") =>
        IF report.mode = "temporal_violation"
        THEN /\ GraphSound(Document)
             /\ \E i \in DOMAIN actions : /\ actions[i].agent # None
                                          /\ ~Authorised(events, actions[i])
        ELSE \/ ~GraphSound(Document)
             \/ strict /\ events = <<>>
             \/ \E i \in DOMAIN actions : actions[i].agent = None
             \/ \E i \in DOMAIN events : events[i].kind \notin Kinds

\* Insertion, reordering and omission inside a chain are detected: the receipts
\* of a chain that passes are the first ones the backend recorded in some chain.
PassedChainsArePrefixes ==
    (report # None /\ report.verdict = "pass") =>
        \A key \in KeysOf(events) : \E from \in KeysOf(recorded) :
            IsPrefix(Receipts(events, key), Receipts(recorded, from))

\* Omission at the end is detected too where a tip survived: a chain that passes
\* with the tip the exporter issued for it holds every recorded receipt.
TipsPinTheChain ==
    (report # None /\ report.verdict = "pass") =>
        \A i \in DOMAIN tips : tips[i] \in ToSet(RecordedTips) =>
            Receipts(events, ChainKey(tips[i])) = Receipts(recorded, ChainKey(tips[i]))

\* What the backend recorded of an agent's authority when it acted.
InForce(a) ==
    LET earlier == {i \in DOMAIN recorded : /\ recorded[i].agent = a.agent
                                            /\ recorded[i].scope = a.scope
                                            /\ recorded[i].at <= a.at}
    IN  /\ earlier # {}
        /\ recorded[CHOOSE i \in earlier : \A j \in earlier : j <= i].kind = "delegation"

\* An export nobody edited gets the verdict that its history deserves: it is
\* never called tampered with, except in strict mode for want of any event,
\* and an action whose authority was revoked or never given fails it.
UntouchedIsJudged ==
    (report # None /\ edits = 0) =>
        /\ report.mode = "chain_integrity_violation" => strict /\ recorded = <<>>
        /\ (report.verdict = "pass" /\ recorded # <<>>) =>
                \A i \in DOMAIN actions : InForce(actions[i])

\* spec/h33-replay-bundle-v0.2.md:61 says that the lexicographic order of the
\* timestamps is their chronological order: an unedited bundle whose actions all
\* had authority when they were performed is not refused, and no other one passes.
OrderIsChronological ==
    (report # None /\ edits = 0 /\ recorded # <<>>) =>
        (report.verdict = "pass" <=> \A i \in DOMAIN actions : InForce(actions[i]))

\* bundle.rs:125-127 says that the events are hash-chained, so that tampering
\* with their effective_at fails the recomputation of the chain.
EffectiveAtIsBound ==
    (report # None /\ report.verdict = "pass") =>
        \A i \in DOMAIN events, j \in DOMAIN recorded :
            events[i].receipt = recorded[j].receipt => events[i].at = recorded[j].at
=============================================================================
