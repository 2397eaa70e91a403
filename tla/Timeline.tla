------------------------------ MODULE Timeline ------------------------------
(***************************************************************************)
(* The timeline of a replay bundle (bundle.rs, TimelineEntry) and what the *)
(* verifier computes from it: the chain hash (chain.rs), the per-session   *)
(* action chains that check 4 walks, and the declarative meaning of checks *)
(* 2 and 4 that ReceiptChain and TimelineOrdering show their loops to      *)
(* decide.                                                                 *)
(*                                                                         *)
(* Data abstraction: a 74-byte receipt is a member of Receipt, a hex field *)
(* that does not decode is Malformed, an absent optional field is None.    *)
(* SHA3-256 is modelled as the term of its input, so two hashes are equal  *)
(* exactly when their inputs are.  The input of an action's hash is        *)
(* prior || receipt (106 bytes) or receipt alone (74 bytes), hence no two  *)
(* different pairs <<prior, receipt>> have the same input.                 *)
(***************************************************************************)
EXTENDS Integers, Sequences, FiniteSets

CONSTANTS
    Session,        \* session ids
    Receipt,        \* well-formed 74-byte receipts
    None,           \* an absent Option<..> field
    Malformed       \* a hex field that does not decode

Verdicts == {"pass", "fail"}

ASSUME NoneAssumption == /\ None # Malformed
                         /\ None \notin Session \cup Receipt \cup Int \cup Verdicts
                         /\ Malformed \notin Receipt

\* compute_chain_hash: SHA3-256(prior || receipt), the prior omitted when None.
ChainHash(prior, receipt) == <<prior, receipt>>

-----------------------------------------------------------------------------
(* Per-session action chains.                                              *)

IsAction(e) == e.kind = "action"

\* The positions of the actions that check 4 groups under session s.
ActionsOf(tl, s) == {i \in DOMAIN tl : IsAction(tl[i]) /\ tl[i].session = s}

\* sort_by_key(|e| e.sequence_in_session.unwrap_or(0)).
SortKey(e) == IF e.seq = None THEN 0 ELSE e.seq

\* The sort is stable: equal keys keep the order of the timeline.
Precedes(tl, i, j) == \/ SortKey(tl[i]) < SortKey(tl[j])
                      \/ SortKey(tl[i]) = SortKey(tl[j]) /\ i <= j

Rank(tl, s, i) == Cardinality({j \in ActionsOf(tl, s) : Precedes(tl, j, i)})

ChainLen(tl, s) == Cardinality(ActionsOf(tl, s))

\* The positions of session s's actions, in the order check 4 walks them.
ChainOrder(tl, s) ==
    [k \in 1..ChainLen(tl, s) |->
        CHOOSE i \in ActionsOf(tl, s) : Rank(tl, s, i) = k]

\* The k-th entry that check 4 walks in session s.
ChainEntry(tl, s, k) == tl[ChainOrder(tl, s)[k]]

\* The keys of by_session.
SessionsOf(tl) == {s \in Session : ActionsOf(tl, s) # {}}

-----------------------------------------------------------------------------
(* What check 4 is meant to establish, without a loop.                     *)

Decodes(e) == /\ e.receipt # Malformed
              /\ e.prior # Malformed
              /\ e.commitment # Malformed

\* The k-th entry of session s carries its predecessor's commitment and
\* its own commitment is the hash of that prior and its receipt.
LinkedAt(tl, s, k) ==
    LET e == ChainEntry(tl, s, k) IN
    /\ Decodes(e)
    /\ e.prior = IF k = 1 THEN None ELSE ChainEntry(tl, s, k - 1).commitment
    /\ e.commitment = ChainHash(e.prior, e.receipt)

SessionLinked(tl, s) == \A k \in 1..ChainLen(tl, s) : LinkedAt(tl, s, k)

AllLinked(tl) == \A s \in SessionsOf(tl) : SessionLinked(tl, s)

-----------------------------------------------------------------------------
(* What check 2 is meant to establish, without a loop.                     *)

TimestampsOrdered(tl) ==
    \A i, j \in DOMAIN tl : i < j => tl[i].ts <= tl[j].ts

\* The entries whose sequence number check 2 compares.
Sequenced(e) == IsAction(e) /\ e.session # None /\ e.seq # None

SequencesOrdered(tl) ==
    \A i, j \in DOMAIN tl :
        (/\ i < j
         /\ Sequenced(tl[i]) /\ Sequenced(tl[j])
         /\ tl[i].session = tl[j].session) => tl[i].seq < tl[j].seq
=============================================================================
