---------------------------- MODULE CaseTimeline ----------------------------
(***************************************************************************)
(* Where a bundle's timeline comes from.  The backend records the actions  *)
(* of a case, chaining each one to the previous action of its session with *)
(* the same compute_chain_hash the verifier uses (chain.rs re-exports it), *)
(* and the exporter writes the entries in time order.  Between export and  *)
(* verification the JSON document is only a file: at most MaxEdits single  *)
(* edits change it, none of which recomputes a hash.                       *)
(*                                                                         *)
(* The recorder is external code, modelled from the fields of              *)
(* TimelineEntry and from what check 4 expects of them.                    *)
(***************************************************************************)
EXTENDS Timeline

CONSTANTS
    MaxEntries,     \* bound: entries the recorder writes
    MaxTime,        \* bound: last reading of the recorder's clock
    MaxEdits        \* bound: edits of the exported document

ASSUME BoundsAssumption == /\ MaxEntries \in Nat /\ MaxTime \in Nat
                           /\ MaxEdits \in Nat

VARIABLES
    recorded,       \* the receipts the backend witnessed in each session and,
                    \* under None, those of actions outside any session
    timeline,       \* bundle.timeline.entries
    edits,          \* number of edits made so far
    exported        \* the document is fixed and handed to the verifier

sourceVars == <<recorded, timeline, edits, exported>>

OptionalSession == Session \cup {None}

EntryFields == {"kind", "session", "seq", "ts", "prior", "receipt", "commitment"}

\* A timeline entry; prior and commitment are hash terms of any depth.
EntryOK(e) == /\ DOMAIN e = EntryFields
              /\ e.kind \in {"action", "proof"}
              /\ e.session \in OptionalSession
              /\ e.seq \in Int \cup {None}
              /\ e.ts \in Nat
              /\ e.receipt \in Receipt \cup {Malformed}

TimelineOK == /\ Len(timeline) \in Nat
              /\ DOMAIN timeline = 1..Len(timeline)
              /\ \A i \in DOMAIN timeline : EntryOK(timeline[i])

SourceTypeOK == /\ recorded \in [OptionalSession -> Seq(Receipt)]
                /\ TimelineOK
                /\ edits \in Nat
                /\ exported \in BOOLEAN

SourceInit ==
    /\ recorded = [s \in OptionalSession |-> <<>>]
    /\ timeline = <<>>
    /\ edits = 0
    /\ exported = FALSE

\* The commitment of the last action of session s recorded so far.
LastCommitment(s) ==
    LET n == ChainLen(timeline, s)
    IN  IF n = 0 THEN None ELSE ChainEntry(timeline, s, n).commitment

\* The clock may or may not have advanced since the previous entry.
ClockReadings ==
    IF timeline = <<>> THEN {0}
    ELSE LET t == timeline[Len(timeline)].ts IN {t, t + 1} \cap 0..MaxTime

RecordAction(s, r, t) ==
    /\ timeline' = Append(timeline,
            [kind |-> "action", session |-> s, seq |-> ChainLen(timeline, s),
             ts |-> t, prior |-> LastCommitment(s), receipt |-> r,
             commitment |-> ChainHash(LastCommitment(s), r)])
    /\ recorded' = [recorded EXCEPT ![s] = Append(@, r)]

\* An action outside any session: session_id and sequence_in_session are null.
RecordLooseAction(r, t) ==
    /\ timeline' = Append(timeline,
            [kind |-> "action", session |-> None, seq |-> None, ts |-> t,
             prior |-> None, receipt |-> r, commitment |-> ChainHash(None, r)])
    /\ recorded' = [recorded EXCEPT ![None] = Append(@, r)]

\* A proof entry carries a statement commitment, not a chain hash.
RecordProof(r, t) ==
    /\ timeline' = Append(timeline,
            [kind |-> "proof", session |-> None, seq |-> None, ts |-> t,
             prior |-> None, receipt |-> r, commitment |-> r])
    /\ UNCHANGED recorded

Record ==
    /\ ~exported /\ edits = 0 /\ Len(timeline) < MaxEntries
    /\ \E r \in Receipt, t \in ClockReadings :
         \/ \E s \in Session : RecordAction(s, r, t)
         \/ RecordLooseAction(r, t)
         \/ RecordProof(r, t)
    /\ UNCHANGED <<edits, exported>>

-----------------------------------------------------------------------------
(* Edits of the exported document.                                         *)

\* One field of an entry overwritten, garbled or blanked.
Rewritten(e) ==
    {[e EXCEPT !.kind = k] : k \in {"action", "proof"}}
        \cup {[e EXCEPT !.receipt = r] : r \in Receipt \cup {Malformed}}
        \cup {[e EXCEPT !.prior = p] : p \in {None, Malformed}}
        \cup {[e EXCEPT !.commitment = Malformed]}
        \cup {[e EXCEPT !.session = s] : s \in OptionalSession}
        \cup {[e EXCEPT !.seq = n] : n \in {None} \cup -1..MaxEntries}
        \cup {[e EXCEPT !.ts = t] : t \in 0..MaxTime}

\* The hash of some entry in the place of a prior or a commitment.
Grafted(tl, i) ==
    LET Hashes == {tl[j].commitment : j \in DOMAIN tl}
    IN  {[tl EXCEPT ![i].prior = c] : c \in Hashes}
            \cup {[tl EXCEPT ![i].commitment = c] : c \in Hashes}

Without(tl, i) == [k \in 1..(Len(tl) - 1) |-> IF k < i THEN tl[k] ELSE tl[k + 1]]

Repeated(tl, i) == [k \in 1..(Len(tl) + 1) |-> IF k <= i THEN tl[k] ELSE tl[k - 1]]

Exchanged(tl, i, j) == [tl EXCEPT ![i] = tl[j], ![j] = tl[i]]

Edited(tl) ==
    {Without(tl, i) : i \in DOMAIN tl}
        \cup {Repeated(tl, i) : i \in DOMAIN tl}
        \cup {Exchanged(tl, i, j) : i, j \in DOMAIN tl}
        \cup (UNION {{[tl EXCEPT ![i] = e] : e \in Rewritten(tl[i])} : i \in DOMAIN tl})
        \cup (UNION {Grafted(tl, i) : i \in DOMAIN tl})

Edit ==
    /\ ~exported /\ edits < MaxEdits
    /\ timeline' \in Edited(timeline) \ {timeline}
    /\ edits' = edits + 1
    /\ UNCHANGED <<recorded, exported>>

\* The document is handed to the verifier, which reads it once.
Export ==
    /\ ~exported
    /\ exported' = TRUE
    /\ UNCHANGED <<recorded, timeline, edits>>

SourceNext == Record \/ Edit \/ Export
=============================================================================
