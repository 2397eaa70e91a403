-------------------------- MODULE GovernanceGraph --------------------------
(***************************************************************************)
(* The governance graph of a bundle (bundle.rs, GovernanceEvent and        *)
(* GovernanceChainTip), the actions that rely on it, and what check 11 is  *)
(* meant to establish about them, stated without its loops.                *)
(*                                                                         *)
(* Data abstraction: a receipt is named by the number of the governance    *)
(* event it witnesses, a field that does not decode is Malformed, SHA3-256 *)
(* is the term of its input (see Timeline).  Instants are half seconds.    *)
(* The code compares the RFC 3339 strings, not the instants: with          *)
(* Fractional, whole seconds are written "..:05Z" and half seconds         *)
(* "..:05.5Z", and '.' sorts before 'Z'.                                   *)
(***************************************************************************)
EXTENDS Integers, Sequences, FiniteSets

CONSTANTS
    Agent,          \* agent ids
    Human,          \* human ids
    Scope,          \* authority scopes
    None,           \* an absent Option<..> field
    Malformed,      \* a hex field that does not decode
    Fractional      \* timestamps carry a fraction when it is not zero

ASSUME GovernanceAssumption ==
    /\ None # Malformed
    /\ {None, Malformed} \cap (Agent \cup Human \cup Scope \cup Int) = {}
    /\ None \notin (Agent \cup Human \cup {None}) \X Scope
    /\ Fractional \in BOOLEAN

ChainHash(prior, receipt) == <<prior, receipt>>

\* The place of the timestamp of instant t in the order of the strings.
StringPlace(t) ==
    IF ~Fractional THEN t
    ELSE IF t % 2 = 0 THEN t + 1 ELSE t - 1

-----------------------------------------------------------------------------
(* Chains: the events of one subject and scope.                            *)

\* governance_chain_key and tip_chain_key: the agent, else the human.
ChainKey(x) == <<IF x.agent # None THEN x.agent ELSE x.human, x.scope>>

\* The keys of chains.
KeysOf(evs) == {ChainKey(evs[i]) : i \in DOMAIN evs}

ChainOf(evs, key) == {i \in DOMAIN evs : ChainKey(evs[i]) = key}

\* Broken variant of NotAfter: ties are reversed.
NotAfterReversed(evs, i, j) ==
    \/ StringPlace(evs[i].at) < StringPlace(evs[j].at)
    \/ StringPlace(evs[i].at) = StringPlace(evs[j].at) /\ i >= j

\* sort_by(effective_at) is stable: ties keep the order of the document.
NotAfter(evs, i, j) ==
    \/ StringPlace(evs[i].at) < StringPlace(evs[j].at)
    \/ StringPlace(evs[i].at) = StringPlace(evs[j].at) /\ i <= j

ChainSize(evs, key) == Cardinality(ChainOf(evs, key))

PlaceOf(evs, key, i) == Cardinality({j \in ChainOf(evs, key) : NotAfter(evs, j, i)})

\* The k-th event of a chain in the order phase 2 walks it.
ChainEvent(evs, key, k) ==
    evs[CHOOSE i \in ChainOf(evs, key) : PlaceOf(evs, key, i) = k]

Receipts(evs, key) == [k \in 1..ChainSize(evs, key) |-> ChainEvent(evs, key, k).receipt]

-----------------------------------------------------------------------------
(* What phases 1 to 3 are meant to establish.                              *)

ImpliedState(kind) == CASE kind = "delegation" -> "delegated"
                        [] kind = "revocation" -> "revoked"
                        [] OTHER -> "?"

OneSubject(e) == (e.agent # None) # (e.human # None)

SelfConsistent(e) == /\ e.stated \in {None, ImpliedState(e.kind)}
                     /\ OneSubject(e)

EventLinked(evs, key, k) ==
    LET e == ChainEvent(evs, key, k) IN
    /\ Malformed \notin {e.receipt, e.prior}
    /\ e.prior = IF k = 1 THEN None ELSE ChainEvent(evs, key, k - 1).this
    /\ e.this = ChainHash(e.prior, e.receipt)

ChainLinked(evs, key) == \A k \in 1..ChainSize(evs, key) : EventLinked(evs, key, k)

\* Broken variant of TipHolds: the chain of the tip must only exist.
TipHoldsByKey(evs, tip) == ChainKey(tip) \in KeysOf(evs)

TipHolds(evs, tip) ==
    LET key == ChainKey(tip) IN
    /\ key \in KeysOf(evs)
    /\ tip.terminal = ChainEvent(evs, key, ChainSize(evs, key)).this
    /\ tip.count = ChainSize(evs, key)

GraphSound(g) == /\ \A i \in DOMAIN g.events : SelfConsistent(g.events[i])
                 /\ \A key \in KeysOf(g.events) : ChainLinked(g.events, key)
                 /\ \A i \in DOMAIN g.tips : TipHolds(g.events, g.tips[i])

-----------------------------------------------------------------------------
(* What phase 4 is meant to establish.                                     *)

\* The events that bear on an action: its agent's, of its scope, not later.
Bearing(evs, a) ==
    {i \in DOMAIN evs : /\ evs[i].scope = a.scope
                        /\ evs[i].agent = a.agent
                        /\ StringPlace(evs[i].at) <= StringPlace(a.at)}

\* Some delegation bears on the action and no other event comes after it.
Authorised(evs, a) ==
    \E i \in Bearing(evs, a) :
        /\ evs[i].kind = "delegation"
        /\ \A j \in Bearing(evs, a) : NotAfter(evs, j, i)

ActionsAuthorised(g) ==
    IF g.events = <<>>
    THEN ~g.strict \/ g.actions = <<>>
    ELSE \A i \in DOMAIN g.actions :
            g.actions[i].agent # None /\ Authorised(g.events, g.actions[i])

\* The bundles check 11 is meant to accept.
Governed(g) == GraphSound(g) /\ ActionsAuthorised(g)
=============================================================================
