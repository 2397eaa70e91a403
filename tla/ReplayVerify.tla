---------------------------- MODULE ReplayVerify ----------------------------
(***************************************************************************)
(* verify: the eleven checks of the verifier in their order, the report    *)
(* they fill and its overall verdict, strict or not, with the payloads     *)
(* directory or without.  The bundle is in memory, so checks that only     *)
(* read it run in one step: 1 and 2, then 4 to 11.  Check 3 reads blobs    *)
(* one by one from a directory that other processes may change meanwhile.  *)
(* The report is kept without its messages, of which check 4's depends on  *)
(* the order of a HashMap (ReceiptChain!ReportsIdentical), and without     *)
(* the counts of items examined: all said here of a report is said of its  *)
(* results, its verdict, its failure mode and its warning.                 *)
(***************************************************************************)
EXTENDS BundleExport

CONSTANTS
    MaxRuns         \* bound: invocations on the document

ASSUME RunsAssumption ==
    /\ MaxRuns \in Nat
    /\ None \notin {"temporal_violation", "chain_integrity_violation"}

VARIABLES
    opts,           \* VerifyOptions: strict, and whether payloads_dir is given
    at,             \* "idle", check 3 at "blobs", "rest" of the checks, "done"
    next,           \* the item that check 3 looks at next
    report,         \* VerifyReport
    earlier,        \* the options and reports of earlier invocations, in order
    writes          \* number of files changed since the first invocation

runVars == <<opts, at, next, report, earlier>>

vars == <<exportVars, runVars, writes>>

\* Without the messages and the counts of each result.
NewReport == [passed |-> TRUE, checks |-> <<>>, mode |-> None, warned |-> FALSE]

Options == [strict : BOOLEAN, payloads : BOOLEAN]

Init ==
    /\ ExportInit
    /\ opts = [strict |-> FALSE, payloads |-> FALSE]
    /\ at = "idle" /\ next = 1 /\ report = NewReport /\ earlier = <<>> /\ writes = 0

-----------------------------------------------------------------------------
(* The checks that read nothing but the bundle.                            *)

\* VERIFIER_VERSION
VerifierVersion == <<0, 4, 0>>

\* semver_at_least: the parts are compared as numbers, from the left.
SemverAtLeast(actual, required) ==
    /\ required # Malformed
    /\ \A i \in 1..3 : actual[i] >= required[i] \/ \E j \in 1..(i - 1) : actual[j] > required[j]

\* Check 1.  A version is supported if some supported one has its major.
SchemaParse ==
    /\ bundle.version[1] = 0
    /\ bundle.meta.schema = SchemaHash(bundle.version)
    /\ bundle.meta.version = bundle.version
    /\ bundle.meta.case = bundle.case
    /\ bundle.meta.tenant = bundle.tenant
    /\ SemverAtLeast(VerifierVersion, bundle.meta.minVersion)

\* Check 5.
FrameRefsResolve ==
    \A f \in ToSet(bundle.frames) :
        /\ f.actions \subseteq IdsOf(bundle.entries, "action")
        /\ f.proofs \subseteq IdsOf(bundle.entries, "proof")

Unique(sq) == \A i, j \in DOMAIN sq : sq[i].id = sq[j].id => i = j

\* Broken variant of NoOrphans: entry ids are unique within each kind.
NoOrphansByKind ==
    /\ Unique(SelectSeq(bundle.entries, LAMBDA e : e.kind = "action"))
    /\ Unique(SelectSeq(bundle.entries, LAMBDA e : e.kind = "proof"))
    /\ Unique(bundle.frames) /\ Unique(bundle.bindings)
    /\ \A e \in ToSet(bundle.entries) :
            e.kind = "action" => e.agent \in bundle.agents \cup {None}

\* Check 7.
NoOrphans ==
    /\ Unique(bundle.entries) /\ Unique(bundle.frames) /\ Unique(bundle.bindings)
    /\ \A e \in ToSet(bundle.entries) :
            e.kind = "action" => e.agent \in bundle.agents \cup {None}

\* Check 9.
SameScope ==
    \A b \in ToSet(bundle.bindings) :
        b.tenant = bundle.tenant /\ b.case \in {None, bundle.case}

\* Broken variant of BindingHolds: the hash is compared for any tenant.
BindingHoldsForAnyTenant(b) ==
    /\ b.message # Malformed
    /\ (b.kind = "agent" /\ b.agent # None) \/ (b.kind = "human" /\ b.human # None)
    /\ b.hash = BindingHash([b EXCEPT !.tenant = b.hash.tenant])

BindingHolds(b) ==
    /\ b.message # Malformed
    /\ (b.kind = "agent" /\ b.agent # None) \/ (b.kind = "human" /\ b.human # None)
    /\ b.hash = BindingHash(b)

\* Check 10.
SubstrateBindings == \A b \in ToSet(bundle.bindings) : BindingHolds(b)

\* Check 11: actions that claim authority without any event pass if not strict.
AuthorityHolds ==
    bundle.governance \in {"unclaimed", "sound"} \cup (IF opts.strict THEN {} ELSE {"absent"})

FailureMode ==
    CASE AuthorityHolds -> None
      [] bundle.governance = "temporal" -> "temporal_violation"
      [] OTHER -> "chain_integrity_violation"

-----------------------------------------------------------------------------
(* The report.                                                             *)

\* Broken variant of Recorded: a later check that passes clears the verdict.
RecordedLast(rep, results) ==
    [rep EXCEPT !.checks = @ \o results, !.passed = results[Len(results)]]

\* record, for each result in turn.
Recorded(rep, results) ==
    [rep EXCEPT !.checks = @ \o results,
                !.passed = IF FALSE \in ToSet(results) THEN FALSE ELSE @]

\* Checks 1 and 2 of a new invocation; later ones have the payloads if the first
\* has, since there is nothing to compare otherwise.
Start(o) ==
    /\ Exported /\ at = "idle"
    /\ earlier # <<>> => o.payloads = opts.payloads
    /\ opts' = o
    /\ report' = Recorded(NewReport, <<SchemaParse, bundle.ordered>>)
    /\ at' = "blobs" /\ next' = 1
    /\ UNCHANGED <<exportVars, earlier, writes>>

\* Frames, then evidence bundles.
Sealed == [i \in DOMAIN bundle.frames |-> [blob |-> bundle.frames[i].blob,
                                           root |-> bundle.frames[i].root]]
            \o bundle.evidence

ConcludeBlobs(passed, warned) ==
    /\ report' = [Recorded(report, <<passed>>) EXCEPT !.warned = warned]
    /\ at' = "rest"
    /\ UNCHANGED <<exportVars, opts, next, earlier, writes>>

\* Broken variant of SkipBlobs: strict mode skips like the other.
SkipBlobsAlways ==
    /\ at = "blobs" /\ ~opts.payloads
    /\ ConcludeBlobs(TRUE, TRUE)

SkipBlobs ==
    /\ at = "blobs" /\ ~opts.payloads
    /\ ConcludeBlobs(~opts.strict, ~opts.strict)

\* Broken variant of BlobHolds: a file that cannot be read is skipped.
BlobHoldsIfThere(item) == item.blob # None => files[item.blob] \in {None, item.root}

\* Broken variant of BlobHolds: an item without a reference is refused.
BlobHoldsAlways(item) == item.blob # None /\ files[item.blob] = item.root

\* No reference, or a file that can be read and hashes to the root.
BlobHolds(item) == item.blob # None => files[item.blob] = item.root

ReadingBlobs == at = "blobs" /\ opts.payloads

AcceptBlob ==
    /\ ReadingBlobs /\ next <= Len(Sealed) /\ BlobHolds(Sealed[next])
    /\ next' = next + 1
    /\ UNCHANGED <<exportVars, opts, at, report, earlier, writes>>

\* Broken variant of RejectBlob: the check goes on after a failure.
RejectBlobContinues ==
    /\ ReadingBlobs /\ next <= Len(Sealed) /\ ~BlobHolds(Sealed[next])
    /\ report' = Recorded(report, <<FALSE>>) /\ next' = next + 1
    /\ UNCHANGED <<exportVars, opts, at, earlier, writes>>

RejectBlob ==
    /\ ReadingBlobs /\ next <= Len(Sealed) /\ ~BlobHolds(Sealed[next])
    /\ ConcludeBlobs(FALSE, FALSE)

EndBlobs ==
    /\ ReadingBlobs /\ next > Len(Sealed)
    /\ ConcludeBlobs(TRUE, FALSE)

\* Checks 4 to 11.
RunRest ==
    /\ at = "rest"
    /\ report' = [Recorded(report,
                    <<bundle.linked, FrameRefsResolve, bundle.continuity, NoOrphans,
                      bundle.refs = {"registered"}, SameScope, SubstrateBindings,
                      AuthorityHolds>>) EXCEPT !.mode = FailureMode]
    /\ at' = "done"
    /\ UNCHANGED <<exportVars, opts, next, earlier, writes>>

Rerun ==
    /\ at = "done" /\ Len(earlier) + 1 < MaxRuns
    /\ earlier' = Append(earlier, [opts |-> opts, report |-> report])
    /\ at' = "idle"
    /\ report' = NewReport
    /\ UNCHANGED <<exportVars, opts, next, writes>>

-----------------------------------------------------------------------------

Prepare ==
    /\ at = "idle" /\ earlier = <<>>
    /\ Record \/ Edit \/ ChangeFile
    /\ UNCHANGED <<runVars, writes>>

Disturb ==
    /\ ReadingBlobs \/ (at = "idle" /\ earlier # <<>> /\ opts.payloads)
    /\ ChangeFile
    /\ writes' = writes + 1
    /\ UNCHANGED runVars

Next == \/ Prepare \/ Disturb
        \/ \E o \in Options : Start(o)
        \/ SkipBlobs \/ AcceptBlob \/ RejectBlob \/ EndBlobs
        \/ RunRest \/ Rerun

Spec == Init /\ [][Next]_vars

-----------------------------------------------------------------------------
(* Properties.                                                             *)

\* The types of the verifier's variables.
TypeOK == /\ opts \in Options
          /\ at \in {"idle", "blobs", "rest", "done"}
          /\ next \in 1..(Len(Sealed) + 1)
          /\ report.passed \in BOOLEAN /\ report.warned \in BOOLEAN
          /\ Len(report.checks) \in 0..11
          /\ writes \in 0..edits

Passed == at = "done" /\ report.passed

\* The checks that may fail on a bundle nobody edited: those that go by the order
\* of timestamp strings, where this is not the order of time (2 and 11), the one
\* that judges authority (11), and those with nothing to check in strict mode.
MayFail(k) ==
    \/ k = 2 /\ ~bundle.ordered
    \/ k = 3 /\ opts.strict /\ ~opts.payloads
    \/ k = 11 /\ \/ bundle.governance \in {"temporal", "integrity"}
                 \/ opts.strict /\ bundle.governance = "absent"

\* No false alarm: on a bundle and files that nobody touched, every other check
\* passes, and so does each of these three but for the reason above (verify).
NoFalseAlarm ==
    (at = "done" /\ edits = 0 /\ writes = 0) =>
        \A k \in 1..11 : ~report.checks[k] => MayFail(k)

\* The overall verdict is the conjunction of the eleven results, which are all
\* there, and only a failure of the last one has a mode (verify, record_with_mode).
ReportIsConsistent ==
    at = "done" =>
        /\ Len(report.checks) = 11
        /\ report.passed <=> FALSE \notin ToSet(report.checks)
        /\ report.mode # None <=> ~report.checks[11]

\* Checks 5 and 7 together: each id in a frame of a bundle that passes names
\* exactly one timeline entry, and that entry is of the kind the frame says.
RefsResolveUniquely ==
    Passed =>
        \A f \in ToSet(bundle.frames) :
            \A kind \in {"action", "proof"} :
                \A id \in IF kind = "action" THEN f.actions ELSE f.proofs :
                    LET named == {i \in DOMAIN bundle.entries : bundle.entries[i].id = id}
                    IN  \E i \in named : named = {i} /\ bundle.entries[i].kind = kind

\* Checks 9 and 10 together, tenant isolation: a binding of a bundle that passes
\* is one the backend recorded for that very tenant, and for that case or for
\* none; its message, its actor and the values of each attribute are the same.
BindingsAreRecorded ==
    LET Actor(b) == IF b.kind = "agent" THEN b.agent ELSE b.human
    IN  Passed =>
          \A b \in ToSet(bundle.bindings) : \E l \in ledger :
            /\ l.tenant = bundle.tenant /\ l.case \in {None, bundle.case}
            /\ l.message = b.message /\ l.case = b.case
            /\ l.kind = b.kind /\ Actor(l) = Actor(b)
            /\ \A k \in 1..2 : ValuesOf(l.attrs, k) = ValuesOf(b.attrs, k)

\* Check 3: if the directory did not change meanwhile, every reference of a bundle
\* that passes with payloads leads to a file that hashes to the root beside it; so
\* no two items share a file unless they state the same root.
BlobsMatchRoots ==
    (Passed /\ opts.payloads /\ writes = 0) =>
        \A i \in DOMAIN Sealed : Sealed[i].blob # None =>
            /\ files[Sealed[i].blob] = Sealed[i].root
            /\ \A j \in DOMAIN Sealed :
                    Sealed[j].blob = Sealed[i].blob => Sealed[j].root = Sealed[i].root

\* Invocations on one document agree on all that does not depend on the options
\* or the files.  If the files did not change either, the same options give the
\* same report, and strict mode passes what the other mode passes and it could
\* check: with the payloads, and with a governance graph if any is claimed.
RunsAgree ==
    at = "done" =>
        \A i \in DOMAIN earlier :
            LET was == earlier[i].report
                Implied(strict, lax) == strict.passed <=>
                    lax.passed /\ opts.payloads /\ bundle.governance # "absent"
            IN  /\ \A k \in (1..10) \ {3} : report.checks[k] = was.checks[k]
                /\ writes = 0 =>
                      IF earlier[i].opts.strict = opts.strict THEN report = was
                      ELSE IF opts.strict THEN Implied(report, was)
                      ELSE Implied(was, report)

\* bundle.rs:292-293 says that a frame without a blob reference is skipped by
\* check 3, or fails in strict mode: what passes strictly has them all.
StrictNeedsReferences ==
    (Passed /\ opts.strict) => \A f \in ToSet(bundle.frames) : f.blob # None
=============================================================================
