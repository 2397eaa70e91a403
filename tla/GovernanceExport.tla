-------------------------- MODULE GovernanceExport --------------------------
(***************************************************************************)
(* Where the governance part of a bundle comes from.  The backend records  *)
(* delegations and revocations, chained per subject and scope, and the     *)
(* actions that rely on them; the exporter adds the tips of all chains, or *)
(* none; then at most MaxEdits single edits change the governance part of  *)
(* the JSON file, none of which recomputes a hash.                         *)
(*                                                                         *)
(* Backend and exporter are external code, modelled from the fields of     *)
(* GovernanceEvent and GovernanceChainTip and from what check 11 expects.  *)
(***************************************************************************)
EXTENDS GovernanceGraph

CONSTANTS
    MaxEvents,      \* bound: governance events the backend records
    MaxActions,     \* bound: actions with requires_authority_scope
    MaxTime,        \* bound: last instant of the backend's clock
    MaxEdits        \* bound: edits of the exported document

ASSUME ExportAssumption == /\ MaxEvents \in Nat /\ MaxActions \in Nat
                           /\ MaxTime \in Nat /\ MaxEdits \in Nat

VARIABLES
    recorded,       \* the governance events as the backend recorded them
    events,         \* bundle.governance_events
    tips,           \* bundle.governance_chain_tips
    actions,        \* the timeline's actions with requires_authority_scope
    strict,         \* --strict, chosen when the document is verified
    now,            \* the backend's clock
    stage,          \* "recording", "exported", then "submitted"
    edits           \* number of edits made so far

sourceVars == <<recorded, events, tips, actions, strict, now, stage, edits>>

Document == [events |-> events, tips |-> tips, actions |-> actions, strict |-> strict]

Kinds == {"delegation", "revocation"}

Subjects == {<<a, None>> : a \in Agent} \cup {<<None, h>> : h \in Human}

\* The types of the document.
EventFields == {"kind", "agent", "human", "scope", "at", "receipt", "prior", "this",
                "stated"}

EventOK(e) == /\ DOMAIN e = EventFields
              /\ e.kind \in Kinds \cup {"other"}
              /\ e.agent \in Agent \cup {None} /\ e.human \in Human \cup {None}
              /\ e.scope \in Scope /\ e.at \in 0..MaxTime

ActionOK(a) == a \in [agent : Agent \cup {None}, scope : Scope, at : 0..MaxTime]

EventsOK(sq) == /\ Len(sq) \in Nat /\ DOMAIN sq = 1..Len(sq)
                /\ \A i \in DOMAIN sq : EventOK(sq[i])

ActionsOK(sq) == /\ Len(sq) \in Nat /\ DOMAIN sq = 1..Len(sq)
                 /\ \A i \in DOMAIN sq : ActionOK(sq[i])

SourceTypeOK == /\ EventsOK(recorded) /\ EventsOK(events) /\ ActionsOK(actions)
                /\ now \in 0..MaxTime /\ strict \in BOOLEAN
                /\ stage \in {"recording", "exported", "submitted"}

SourceInit ==
    /\ recorded = <<>> /\ events = <<>> /\ tips = <<>> /\ actions = <<>>
    /\ strict = FALSE
    /\ now = 0 /\ stage = "recording" /\ edits = 0

Tick == /\ stage = "recording" /\ now < MaxTime
        /\ now' = now + 1
        /\ UNCHANGED <<recorded, events, tips, actions, strict, stage, edits>>

RecordEvent(subject, scope, kind) ==
    LET key == <<IF subject[1] # None THEN subject[1] ELSE subject[2], scope>>
        mine == {i \in DOMAIN recorded : ChainKey(recorded[i]) = key}
        last == CHOOSE i \in mine : \A j \in mine : j <= i
        prior == IF mine = {} THEN None ELSE recorded[last].this
        receipt == Len(recorded) + 1
    IN  /\ stage = "recording" /\ Len(recorded) < MaxEvents
        /\ recorded' = Append(recorded,
                [kind |-> kind, agent |-> subject[1], human |-> subject[2],
                 scope |-> scope, at |-> now, receipt |-> receipt,
                 prior |-> prior, this |-> ChainHash(prior, receipt),
                 stated |-> ImpliedState(kind)])
        /\ UNCHANGED <<events, tips, actions, strict, now, stage, edits>>

RecordAction(agent, scope) ==
    /\ stage = "recording" /\ Len(actions) < MaxActions
    /\ actions' = Append(actions, [agent |-> agent, scope |-> scope, at |-> now])
    /\ UNCHANGED <<recorded, events, tips, strict, now, stage, edits>>

\* The tip of the chain that recorded[i] ends.
TipAt(i) == LET e == recorded[i] IN
    [agent |-> e.agent, human |-> e.human, scope |-> e.scope, terminal |-> e.this,
     count |-> Cardinality({j \in DOMAIN recorded : ChainKey(recorded[j]) = ChainKey(e)})]

\* One tip for each chain, in the order of their last events.
RecordedTips ==
    LET ends == {i \in DOMAIN recorded : \A j \in i + 1..Len(recorded) :
                    ChainKey(recorded[j]) # ChainKey(recorded[i])}
        nth(k) == CHOOSE i \in ends : Cardinality({j \in ends : j <= i}) = k
    IN  [k \in 1..Cardinality(ends) |-> TipAt(nth(k))]

ExportBundle ==
    /\ stage = "recording"
    /\ stage' = "exported"
    /\ events' = recorded
    /\ tips' \in {<<>>, RecordedTips}
    /\ now' = 0     \* the clock is not read any more
    /\ UNCHANGED <<recorded, actions, strict, edits>>

-----------------------------------------------------------------------------
(* Edits of the exported document.                                         *)

\* One field overwritten; a new kind may come without the optional state.
Rewritten(e) ==
    {[e EXCEPT !.kind = k, !.stated = None] : k \in Kinds \cup {"other"}}
        \cup {[e EXCEPT !.kind = "other"]}
        \cup {[e EXCEPT !.agent = a] : a \in Agent \cup {None}}
        \cup {[e EXCEPT !.human = h] : h \in Human \cup {None}}
        \cup {[e EXCEPT !.scope = s] : s \in Scope}
        \cup {[e EXCEPT !.at = t] : t \in 0..MaxTime}
        \cup {[e EXCEPT !.receipt = r] : r \in 1..MaxEvents \cup {Malformed}}
        \cup {[e EXCEPT !.prior = p] : p \in {None, Malformed}}
        \cup {[e EXCEPT !.this = Malformed]}
        \cup {[e EXCEPT !.stated = s] : s \in {"delegated", "revoked"}}

Without(sq, i) == [k \in 1..(Len(sq) - 1) |-> IF k < i THEN sq[k] ELSE sq[k + 1]]

Repeated(sq, i) == [k \in 1..(Len(sq) + 1) |-> IF k <= i THEN sq[k] ELSE sq[k - 1]]

Exchanged(sq, i, j) == [sq EXCEPT ![i] = sq[j], ![j] = sq[i]]

EditedEvents ==
    {Without(events, i) : i \in DOMAIN events}
        \cup {Repeated(events, i) : i \in DOMAIN events}
        \cup {Exchanged(events, i, j) : i, j \in DOMAIN events}
        \cup UNION {{[events EXCEPT ![i] = e] : e \in Rewritten(events[i])} :
                        i \in DOMAIN events}

EditedTips ==
    {Without(tips, i) : i \in DOMAIN tips}
        \cup {[tips EXCEPT ![i].count = @ - 1] : i \in DOMAIN tips}
        \cup UNION {{[tips EXCEPT ![i].terminal = recorded[j].this] :
                        j \in DOMAIN recorded} : i \in DOMAIN tips}

\* An action no longer claims authority, names no agent or is moved in time.
EditedActions ==
    {Without(actions, i) : i \in DOMAIN actions}
        \cup {[actions EXCEPT ![i].agent = None] : i \in DOMAIN actions}
        \cup {[actions EXCEPT ![i].at = t] : i \in DOMAIN actions, t \in 0..MaxTime}

Edit ==
    /\ stage = "exported" /\ edits < MaxEdits
    /\ \/ events' \in EditedEvents \ {events} /\ UNCHANGED <<tips, actions>>
       \/ tips' \in EditedTips \ {tips} /\ UNCHANGED <<events, actions>>
       \/ actions' \in EditedActions \ {actions} /\ UNCHANGED <<events, tips>>
    /\ edits' = edits + 1
    /\ UNCHANGED <<recorded, strict, now, stage>>

Submitted == stage = "submitted"

SourceNext ==
    \/ Tick
    \/ \E subject \in Subjects, scope \in Scope, kind \in Kinds :
            RecordEvent(subject, scope, kind)
    \/ \E agent \in Agent, scope \in Scope : RecordAction(agent, scope)
    \/ ExportBundle
    \/ Edit
=============================================================================
