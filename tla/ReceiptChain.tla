---------------------------- MODULE ReceiptChain ----------------------------
(***************************************************************************)
(* Check 4 of the verifier, check_receipt_commitments: group the actions   *)
(* by session in a HashMap, then, session by session in the map's          *)
(* iteration order, walk the session's actions in sequence order and       *)
(* recompute the chain.  The first entry that does not fit ends the walk   *)
(* with a report that names it.                                            *)
(*                                                                         *)
(* A HashMap is seeded per process, so its iteration order is any order:   *)
(* PickSession takes any session not walked yet.  One document may be      *)
(* verified several times (MaxRuns), each time in a fresh process.         *)
(***************************************************************************)
EXTENDS CaseTimeline, SequencesExt

CONSTANT MaxRuns    \* bound: invocations of the verifier on the document

ASSUME MaxRunsAssumption == MaxRuns \in Nat

VARIABLES
    todo,           \* sessions of by_session not walked yet
    current,        \* the session being walked, or None between sessions
    pos,            \* the place of the next entry in that session's chain
    expectedPrior,  \* expected_prior
    report,         \* None while the check runs, then its result
    earlier         \* the reports of earlier invocations, in order

walkVars == <<todo, current, pos, expectedPrior, report>>

vars == <<sourceVars, walkVars, earlier>>

Pass == [verdict |-> "pass"]

Failure(s, k, reason) ==
    [verdict |-> "fail", session |-> s, at |-> k, reason |-> reason]

Reasons == {"receipt malformed", "prior malformed", "prior mismatch",
            "prior missing", "commitment malformed", "hash mismatch"}

Reports == {Pass} \cup [verdict : {"fail"}, session : Session,
                       at : Nat \ {0}, reason : Reasons]

Breaks == [at : Nat, reason : {"prior_action_hash mismatch", "this_action_hash mismatch"}]

ASSUME ReportAssumption ==
    None \notin Reasons /\ None \notin Reports /\ None \notin Breaks

Init ==
    /\ SourceInit
    /\ todo = {} /\ current = None /\ pos = 1 /\ expectedPrior = None
    /\ report = None
    /\ earlier = <<>>

\* The document reaches the verifier, which groups its actions by session.
Submit ==
    /\ Export
    /\ todo' = SessionsOf(timeline)
    /\ UNCHANGED <<current, pos, expectedPrior, report, earlier>>

\* Broken variants of the next action: a walk that starts at index 0, one that
\* leaves the position and one that leaves the prior of the session before.
PickSessionFromZero(s) ==
    /\ exported /\ report = None /\ current = None
    /\ s \in todo
    /\ todo' = todo \ {s} /\ current' = s /\ pos' = 0 /\ expectedPrior' = None
    /\ UNCHANGED <<sourceVars, report, earlier>>

PickSessionKeepsPos(s) ==
    /\ exported /\ report = None /\ current = None
    /\ s \in todo
    /\ todo' = todo \ {s} /\ current' = s /\ expectedPrior' = None
    /\ UNCHANGED <<sourceVars, pos, report, earlier>>

PickSessionKeepsPrior(s) ==
    /\ exported /\ report = None /\ current = None
    /\ s \in todo
    /\ todo' = todo \ {s} /\ current' = s /\ pos' = 1
    /\ UNCHANGED <<sourceVars, expectedPrior, report, earlier>>

\* for (sid, session_entries) in by_session
PickSession(s) ==
    /\ exported /\ report = None /\ current = None
    /\ s \in todo
    /\ todo' = todo \ {s}
    /\ current' = s
    /\ pos' = 1
    /\ expectedPrior' = None
    /\ UNCHANGED <<sourceVars, report, earlier>>

-----------------------------------------------------------------------------
(* The body of the inner loop.                                             *)

Walking == /\ exported /\ report = None
           /\ current # None /\ pos <= ChainLen(timeline, current)

Entry == ChainEntry(timeline, current, pos)

\* Broken variant of PriorFault: an absent prior is always accepted.
PriorFaultOptional ==
    IF Entry.prior = Malformed THEN "prior malformed"
    ELSE IF Entry.prior \notin {None, expectedPrior} THEN "prior mismatch" ELSE None

\* The checks of one entry, in the order of the code: the first one that
\* fails names the reason.
PriorFault ==
    IF Entry.prior # None
    THEN IF Entry.prior = Malformed THEN "prior malformed"
         ELSE IF Entry.prior # expectedPrior THEN "prior mismatch" ELSE None
    ELSE IF expectedPrior # None THEN "prior missing" ELSE None

\* Broken variant of EntryFault: the chain is compared, not recomputed.
EntryFaultUnhashed ==
    IF Entry.receipt = Malformed THEN "receipt malformed"
    ELSE IF PriorFault # None THEN PriorFault
    ELSE IF Entry.commitment = Malformed THEN "commitment malformed" ELSE None

EntryFault ==
    IF Entry.receipt = Malformed THEN "receipt malformed"
    ELSE IF PriorFault # None THEN PriorFault
    ELSE IF Entry.commitment = Malformed THEN "commitment malformed"
    ELSE IF Entry.commitment # ChainHash(expectedPrior, Entry.receipt)
         THEN "hash mismatch" ELSE None

AcceptEntry ==
    /\ Walking
    /\ EntryFault = None
    /\ expectedPrior' = ChainHash(expectedPrior, Entry.receipt)
    /\ pos' = pos + 1
    /\ UNCHANGED <<sourceVars, todo, current, report, earlier>>

RejectEntry ==
    /\ Walking
    /\ EntryFault # None
    /\ report' = Failure(current, pos, EntryFault)
    /\ UNCHANGED <<sourceVars, todo, current, pos, expectedPrior, earlier>>

EndSession ==
    /\ exported /\ report = None
    /\ current # None /\ pos > ChainLen(timeline, current)
    /\ current' = None
    /\ UNCHANGED <<sourceVars, todo, pos, expectedPrior, report, earlier>>

Finish ==
    /\ exported /\ report = None
    /\ current = None /\ todo = {}
    /\ report' = Pass
    /\ UNCHANGED <<sourceVars, todo, current, pos, expectedPrior, earlier>>

\* A later invocation on the same document starts from nothing.
Rerun ==
    /\ report # None /\ Len(earlier) + 1 < MaxRuns
    /\ earlier' = Append(earlier, report)
    /\ report' = None
    /\ todo' = SessionsOf(timeline)
    /\ current' = None /\ pos' = 1 /\ expectedPrior' = None
    /\ UNCHANGED sourceVars

Walk == \/ \E s \in Session : PickSession(s)
        \/ AcceptEntry
        \/ RejectEntry
        \/ EndSession
        \/ Finish

Source == (Record \/ Edit) /\ UNCHANGED <<walkVars, earlier>>

Next == Source \/ Submit \/ Walk \/ Rerun

Spec == Init /\ [][Next]_vars

-----------------------------------------------------------------------------
(* chain.rs, verify_chain: the offline walk of one chain, whose            *)
(* accumulator is the prior it expects and, once found, the break.         *)

OfflineEntries(tl, s) ==
    [k \in 1..ChainLen(tl, s) |->
        [prior |-> ChainEntry(tl, s, k).prior,
         receipt |-> ChainEntry(tl, s, k).receipt,
         this |-> ChainEntry(tl, s, k).commitment]]

\* Broken variant of OfflineStep: links are compared, hashes are not recomputed.
OfflineStepUnhashed(acc, a, i) ==
    IF acc.break # None THEN acc
    ELSE IF a.prior # acc.prior
         THEN [acc EXCEPT !.break = [at |-> i, reason |-> "prior_action_hash mismatch"]]
    ELSE [acc EXCEPT !.prior = a.this]

OfflineStep(acc, a, i) ==
    IF acc.break # None THEN acc
    ELSE IF a.prior # acc.prior
         THEN [acc EXCEPT !.break = [at |-> i, reason |-> "prior_action_hash mismatch"]]
    ELSE IF a.this # ChainHash(a.prior, a.receipt)
         THEN [acc EXCEPT !.break = [at |-> i, reason |-> "this_action_hash mismatch"]]
    ELSE [acc EXCEPT !.prior = a.this]

VerifyChain(actions) ==
    LET walk[i \in 0..Len(actions)] ==
            IF i = 0 THEN [prior |-> None, break |-> None]
            ELSE OfflineStep(walk[i - 1], actions[i], i)
    IN  walk[Len(actions)].break

-----------------------------------------------------------------------------
(* Properties.                                                             *)

\* The types of the variables of check 4 and of the document it reads.
TypeOK == /\ SourceTypeOK
          /\ todo \in SUBSET Session
          /\ current \in OptionalSession
          /\ pos \in Nat \ {0}
          /\ report \in Reports \cup {None}
          /\ earlier \in Seq(Reports)

\* Whatever order the HashMap is walked in and wherever the walk stops, the
\* verdict is "pass" exactly when every action of every session carries its
\* predecessor's commitment and recomputes (check_receipt_commitments).
VerdictIsLinkage ==
    report # None => (report.verdict = "pass" <=> AllLinked(timeline))

\* The entry a failure names is the first one of its session that does not
\* link: all the entries before it in that chain do.
FailureIsFirstBreak ==
    (report # None /\ report.verdict = "fail") =>
        /\ report.at \in 1..ChainLen(timeline, report.session)
        /\ ~LinkedAt(timeline, report.session, report.at)
        /\ \A k \in 1..(report.at - 1) : LinkedAt(timeline, report.session, k)

\* The two walkers of the crate agree: on chains whose fields decode, check 4
\* passes exactly when verify_chain accepts every session, and it fails at
\* the entry where verify_chain breaks.
WalkersAgree ==
    LET Readable(s) == \A k \in 1..ChainLen(timeline, s) :
                            Decodes(ChainEntry(timeline, s, k))
        Break(s) == VerifyChain(OfflineEntries(timeline, s))
    IN  report # None =>
          IF report.verdict = "pass"
          THEN \A s \in Session : Break(s) = None
          ELSE Readable(report.session) =>
                 /\ Break(report.session) # None
                 /\ Break(report.session).at = report.at

\* Tamper evidence: without recomputing hashes, no edit of the document gets
\* past check 4 except by cutting a chain short or moving it whole, so every
\* chain that passes is a prefix of what the backend recorded for a session,
\* or one action that it recorded outside any.
VerifiedIsRecorded ==
    (report # None /\ report.verdict = "pass") =>
        \A s \in SessionsOf(timeline) :
            LET verified == [k \in 1..ChainLen(timeline, s) |->
                                ChainEntry(timeline, s, k).receipt]
            IN  \/ \E t \in Session : IsPrefix(verified, recorded[t])
                \/ \E r \in ToSet(recorded[None]) : verified = <<r>>

\* An export nobody edited is never rejected by check 4, whatever proofs and
\* actions without a session lie between a session's actions.
UntouchedPasses ==
    (report # None /\ edits = 0) => report.verdict = "pass"

\* spec/h33-replay-bundle-v0.1.md:166 says that two invocations of one verifier
\* version on one bundle produce byte-identical reports.
ReportsIdentical ==
    report # None => \A i \in DOMAIN earlier : earlier[i] = report
=============================================================================
