# A TLA+ model of h33-replay-verifier

The program reads a *replay bundle* (one JSON document that describes one case:
timeline, frames, evidence, governance graph), runs eleven checks on it and
reports pass or fail; it can sign the report with a key it keeps in the user's
config directory. This directory holds TLA+ modules of the parts that have state
or order to get wrong, the TLC configurations that check them on small
instances, and proofs, checked by TLAPS, that the main properties hold for every
value of the constants.

`CORE` is `src/crates/h33-replay-verify-core/src`, `CLI` is
`src/crates/h33-replay-verify-cli/src`.

## Inventory

| Component | State it keeps | Operations | Interacts with |
|---|---|---|---|
| Bundle (`CORE/bundle.rs`) | the parsed document: timeline, frames, evidence bundles, bindings, governance events and tips | parse; nothing changes it afterwards | written by a backend that is not in this repository, edited by anyone, read by every check |
| Chain hash (`CORE/chain.rs`) | none | `compute_chain_hash`, `verify_chain` | checks 4 and 11; the backend uses the same function |
| Check 2, `check_timeline_ordering` | previous timestamp, last sequence number per session | one pass over timestamps, one over sequence numbers | timeline |
| Check 4, `check_receipt_commitments` | a HashMap of sessions, the walk's position and `expected_prior` | group, sort, walk and recompute | timeline, chain hash |
| Check 11, `check_authority_temporal_validity` | a HashMap of chains, position, `prior_hex`, the phase | four phases, two failure modes | governance events, tips, scoped actions, chain hash |
| Pipeline (`CORE/verify.rs`, `verify`) and checks 1, 3, 5 to 10 | the list of results, warnings, overall verdict | run each check, strict mode, side-loaded payloads | every check; the CLI and the wasm build call it |
| Binding hash (`CORE/binding.rs`) | none | `compute_verification_hash` over sorted attributes | check 10 |
| Identity store (`CLI/verifier_identity.rs`) | two key files in a directory | `load_or_create`, `write_secret_file` | other runs on the same directory; crashes; the signer |
| Signed transcript (`CLI/signed_transcript.rs`) | none | `sign_report`, `verify_signed_report` | identity, report, bundle bytes |
| Command line (`CLI/main.rs`) | none between runs; reads the bundle file twice when cross-checking | verify, verify and sign, verify a transcript, cross-check | all the above |
| Playground (`src/playground/index.html`, wasm crate) | the page: last dropped file, last result | asynchronous drop, fetch and paste handlers | wasm `verify_bundle`, a JS ML-DSA |

What is hard here:

* **Interleaving and crash.** `load_or_create` tests for two files and later
  writes them, one after the other, with no lock, no rename and no fsync
  (`verifier_identity.rs:78-79, 131-135`). Two runs may overlap, and a run may
  be killed between the two writes or inside one.
* **Order nobody chose.** Checks 4 and 11 walk a `HashMap` whose iteration order
  changes from process to process and stop at the first failure. The verdict
  must not depend on it; the report may.
* **Sorting by an optional, unauthenticated field.** Check 4 sorts by
  `sequence_in_session.unwrap_or(0)`, check 11 by a timestamp *string*. Both
  sorts are stable, so equal keys keep the document's order.
* **Combinations of edits.** Every field is in a file that anybody may rewrite. A single
  edit is easy to test; what several edits compose to is not.
* **Precedence of failures.** In check 11 the order of the phases decides between
  `temporal_violation` and `chain_integrity_violation`, which readers act on.
* **Time between reading and using.** A signing run verifies the bundle's bytes, then loads
  or creates its identity, then hashes the bytes into the envelope; a cross-check reads the
  bundle file after it has verified the transcript; check 3 reads blobs one by one.
* **One format, three verifiers.** `verify_signed_report`, the playground and
  `examples/verify-transcript.js` make different tests in different order, and decode base64
  differently.

What makes each component correct:

* check 2: passes exactly the timelines that are in order, pairwise;
* check 4: passes exactly the timelines whose session chains all link; names the
  first break; no edit that recomputes no hash survives except a cut at the end or a
  whole chain moved; it agrees with the other walker in the crate, `verify_chain`;
* check 11: passes exactly the governed bundles; the mode tells the two causes
  apart; omission, insertion and reordering are detected;
* identity store: every run of one user that completes gets one matching pair,
  and never half a key;
* pipeline: the overall verdict is the conjunction of the checks, in strict
  mode no warning hides what a check could not do;
* transcript and command line: what is accepted was signed by the key it names, over
  the report it shows, and the exit code says so;
* playground and example script: they accept the transcripts that `verify_signed_report` accepts, and no
  other but for the form in which it is written.

## Modules

```
 Timeline ── CaseTimeline ──┬── ReceiptChain ──── ReceiptChainProofs
     (data)   (source)      └── TimelineOrdering ─ TimelineOrderingProofs
                 └─ CaseTimelineProofs ┘  (lemmas used by both proofs)
 GovernanceGraph ── GovernanceExport ── AuthorityCheck ── AuthorityCheckProofs
     (data)            (source)
 BundleExport ── ReplayVerify ── ReplayVerifyProofs
     (source)
 IdentityStore ───┬── CommandLine ──┐
 SignedTranscript ┘                 ├── CommandLineProofs
 IdentityStore ── IdentityStoreProofs ┘

 HashChainProofs   (lemmas: hash chains, stable sorts and least numbers, for
                    CaseTimelineProofs, AuthorityCheckProofs and ReplayVerifyProofs)

 Abstract: IdentityRegister  (implemented by IdentityStore, runs in turn)
```

**Timeline** holds the data of checks 2 and 4 and states without loops what the
checks are meant to establish: `AllLinked`, `TimestampsOrdered`,
`SequencesOrdered`. SHA3-256 is the term of its input, i.e. it has no collisions.
The terms are pairs because the input is 106 bytes with a prior and 74 without.

**CaseTimeline** produces every document the checks are given. The backend
(external) records actions, chained per session, and proofs; then up to
`MaxEdits` edits overwrite, blank or garble a field, copy the hash of one entry over the
prior or the commitment of another, drop, repeat or exchange entries. No edit computes a hash: an author who recomputes a whole chain makes
another valid document, and the checks do not claim to tell it apart.

**TimelineOrdering** is check 2, one step per entry and loop: `CompareTimestamps`
(`verify.rs:267-279`), then `CompareSequence` and `SkipEntry`
(`verify.rs:281-294`).

**ReceiptChain** is check 4: `PickSession` is one turn of the outer loop, `AcceptEntry`
and `RejectEntry` one turn of the inner, with its six failures in the order of the
code (`EntryFault`), `EndSession`, `Finish`. `Rerun` is another invocation in a
fresh process. `VerifyChain` is `chain.rs`'s own walker, entry by entry (`OfflineStep`).

**GovernanceGraph**, **GovernanceExport**, **AuthorityCheck** are the same three
layers for check 11. Phases 1 and 3 look at items one by one and can fail in one
way, so each is one step; phase 2 is walked event by event, in any order of the
chains; phase 4 action by action. Instants are half seconds, and with
`Fractional` the strings are compared as the code does, where `..:05.5Z` sorts
before `..:05Z`. The document's edits touch events, tips and actions; an event's own hashes are blanked
or garbled by an edit, or move with the event, and a tip may be given the hash of any recorded event; `--strict`
is chosen when the document is submitted, and stays `FALSE` when there are events, since
check 11 then never reads it.

**IdentityStore** takes one step per file system call: test for the
public file, test for the secret, read each, create and fill each. Any number of runs, each of which may be killed
at any step; a kill inside a write leaves a `Torn` file. `Overlap = FALSE` restricts
it to runs one after the other. **IdentityRegister** is what a user expects: a
register that is set once and then only read.

**BundleExport** produces the rest of a bundle: envelope and metadata, entries by
id, frames, evidence, bindings, and the payloads directory. The backend's
`ledger` holds the bindings of all tenants, also those that the exporter must
leave out. What checks 2, 4 and 11 read is abstracted to whether they accept
(`ordered`, `linked`, `governance`), which is what their own modules prove or
check of them. An unedited bundle links, but it may be out of order for check 2 and its governance graph
may be refused with either mode, since both checks compare timestamps as strings. Hashes are terms of their input, attributes sorted by key with a stable sort as in
`binding.rs` (`Sorted`: those of the first key in their order, then those of the second). Edits reach every field that a
check reads, the two copies of the version and of the case included; one step of the same budget replaces or removes
a file.

**ReplayVerify** is `verify`: checks that read only the bundle run in one step, 1 and 2
(`Start`), then 4 to 11 (`RunRest`); check 3 in between is one step per blob (`AcceptBlob`,
`RejectBlob`, `EndBlobs`, or `SkipBlobs` without a directory), since files may
change under it (`Disturb`). `Rerun` is another invocation, with other options or the
same. Versions are compared as the code does: the bundle's by its major only, the
verifier's minimum part by part as numbers. The report keeps the eleven results, the overall verdict, the failure
mode and whether something was warned of; the messages and the numbers of items examined are left out. Check
4's message is the subject of `ReportsIdentical`, in `ReceiptChain`.

**SignedTranscript** is the envelope of `--sign`: what `sign_report` puts into it, the
thirteen tests of `verify_signed_report` in their order (`VerifierTests`), and the
lists of tests of the playground (`dispatch` and `verifySignedReport`) and of the example script. The
verifiers differ in what they parse: `main.rs` has serde take the whole envelope, the scripts read the fields
they need (`Parses`), and `STANDARD` of the base64 crate takes the canonical encoding only, where `atob` also
takes white space, missing padding and other trailing bits (`loose`). Cryptography is symbolic: a
hash is the term of what was hashed, a keypair is named and both halves by the same
name, a signature is the term of the secret key and of the signed bytes, and nothing but
`SignReport` makes one. The verifier's name and version, `signed_at` and the wording of
errors are left out.

**CommandLine** composes `IdentityStore` and `SignedTranscript` into the program: runs that
share a key directory and a bundle file. `UnreadableBundle` and `VerifyBundle` are plain
verification; `BeginSigning`, `LoadIdentity` (one step of the store, or a kill),
`LoadFails` and `Sign` are a signing run; `UnreadableTranscript`, `VerifyTranscript` and
`CrossCheck` are the transcript modes. A file is read in one step, at the point where the
code reads it, and `ReplaceBundle` may replace or remove the bundle before any such
step. The transcript that a run is given is any envelope printed so far, as it is, with one
field changed to a value of its own or of another envelope, or not canonically encoded, or with both hashes
made to fit again (`Transcripts`); no edit makes a signature. A run reads it
once, so the file needs no variable. Kills elsewhere than in the store leave nothing
behind and are left out. A bundle is only the verdict `verify` gives it in either mode;
`ReplayVerify` says what that verdict is.

The `MC*` modules add only symmetry sets; `MCReplayVerify` also gives the attribute lists,
which are tuples and cannot be written in a .cfg. Beside a definition some modules hold
*broken variants* of it, each a bug that one could plausibly have made: a dropped
guard, an off-by-one, a missing reset. They are used by nothing; substituting one
makes a property fail, so each property is known to depend on the code it is about.

## Runs

| Run | Bounds | Shows |
|---|---|---|
| `ReceiptChainEdits` | 2 sessions, 2 receipts, 3 entries, 2 edits, 2 invocations | verdict, located failure, agreement of the two walkers, tamper evidence, no false alarm |
| `ReceiptChainReports` | two invocations | **violated**: reports are not byte-identical |
| `TimelineOrdering` | 2 sessions, 4 entries, times 0 and 1, 1 edit | verdict, located failure, and check 4's walk on what passes |
| `IdentityStoreOverlap` | 3 runs in any interleaving, kills, fair | what survives overlap, and that every run ends |
| `AuthorityCheckEdits` | 1 agent, 1 human, 1 scope, 3 events, 1 action, 2 instants, 1 edit | verdict, mode, tamper evidence, no false alarm |
| `AuthorityCheckRetimed` | 1 agent, 2 events, 3 instants, 1 edit | **violated**: `effective_at` is not bound by the chain |
| `AuthorityCheckFractional` | 1 agent, 2 events, half seconds, no edit | **violated**: string order is not chronological order |
| `ReplayVerify` | 2 items in all, out of 2 entries, 1 frame, 1 evidence bundle, 1 binding; 2 tenants, 2 cases, 1 agent, 1 human; 1 edit or changed file; 2 invocations | the results as a whole, strict mode, blobs, unique resolution of frame references, tenant isolation and binding integrity, no false alarm of the checks it models in full |
| `ReplayVerifyStrict` | 1 frame, no edit | **violated**: strict mode passes a frame that has no blob reference |
| `CommandLine` | 3 runs, signing runs in turn, kills; 1 sound, 1 lenient and 1 unparsable bundle, 1 replacement | exit codes, what transcript mode accepts, how the three verifiers differ, one stable matching pair, refinement of the register |
| `CommandLineOverlap` | 3 runs, signing runs may overlap | **violated**: a signing run exits with 0 and its signature does not verify |
| `CommandLineVerdict` | 2 kinds of bundle | **violated**: a cross-check exits with 0 for a bundle that fails |

Why the bounds are enough. A link relates an entry to the one before it in its
chain, so three entries give a chain with a middle, or two chains of which one
has a link; two sessions give two walk orders; two edits are the least that
compose (repeat, then move). Check 2 relates pairs; four entries leave room for a pair of
each of two sessions, interleaved. In the identity store a third run observes what
two overlapping ones left. Check 11 needs a delegation, its revocation and a second chain (the human's) to
have an order of chains, two instants to be before or after. In the pipeline, an
entry and a frame that lists it, a frame and an evidence bundle that share a blob, and a binding of
another tenant are the least in which its properties can fail; an edit may add a changed copy of
an item, or a binding of another tenant made to fit in one field, so one edit composes two
mistakes. In the command line a first run may be killed while it creates the identity and a
second and third find what it left, or a first run signs, a second signs another
bundle, and a third is handed an envelope mixed from the two. The proofs below remove the
bounds for what they cover.

`CHECK_DEADLOCK FALSE` appears everywhere because a check and a run do end.

**Fairness** is weak fairness of the steps of each identity run: a process that was not killed goes on.
Nothing is assumed of kills, and nothing anywhere else.

## Disagreements between the code and its documents

* `ReportsIdentical`: `spec/h33-replay-bundle-v0.1.md:166` promises byte-identical
  reports; with two broken sessions check 4 names whichever the HashMap yields first. The
  *verdict* does not depend on the order (`VerdictIsLinkage`).
* `ExitZeroMeansVerified` (overlapping): `main.rs:27` says of exit code 0 "bundle verifies and,
  if signed, signature verifies". After two overlapping first runs the directory may hold the
  public key of one and the secret key of the other; nothing compares the two halves when they are
  loaded, so each later signing run prints an envelope that `verify_signed_report` refuses and
  exits with the verdict on the bundle. For signing runs one after the other it is proved.
* `CrossCheckVerifiesBundle`: `main.rs:22-23` says that a bundle given with
  `--verify-transcript` is verified and its verdict compared; the code compares the hash of its
  bytes (`main.rs:135-157`) and exits with 0 (`main.rs:175`).
* `EffectiveAtIsBound`: `bundle.rs:125-127` says that tampering with `effective_at` breaks
  the chain; the hash covers the prior and the receipt only.
* `OrderIsChronological`: `spec/h33-replay-bundle-v0.2.md:61` equates lexicographic and
  chronological order; it holds without fractions of a second and fails with them.
* `StrictNeedsReferences`: `bundle.rs:292-293` says that a frame without `frame_blob_ref`
  fails in strict mode; check 3 passes over it in either mode (`verify.rs:313`).

Met while reading, and not stated as a run: the store promises one persistent
fingerprint, and two overlapping first runs return two, one of which is lost (`FingerprintStable` is
checked, and proved, for signing runs one after the other); the playground does not compare the payload's
fingerprint with the envelope's, which `spec/h33-signed-verify-report-v0.1.md` asks of a verifier, and
which matters only for a pair of keys that do not match (`VerifiersDifferInForm` says what is left for those
that do: loose base64 and JSON that only serde refuses, and for the example script the version and the algorithm,
which it does not test); an unedited timeline with
fractions of a second may fail check 2 as it may fail check 11, since `verify.rs:270` compares strings too; the wasm crate's comment (`lib.rs:53-55`) says that the page cross-checks the bundle's
bytes, and it does not; an action without `session_id` enters no chain, so
its hash is not recomputed, while `spec/h33-replay-bundle-v0.1.md:109` speaks of every action; an unregistered
verifier reference always fails check 8, while the comment at `verify.rs:24-26` allows a
warning outside strict mode; the comment before check 7 (`verify.rs:195-198`) lists resolutions
of `session_id` and of a proof's action that `check_no_orphans` does not do.

## Proofs

All proofs are for every value of the constants, under the `ASSUME`s of the
modules: `None` and `Malformed` are distinct and no data value, nor a report, a result,
a break of a chain or a payload; bounds are natural numbers; attribute lists are sequences. Sets of
sessions, receipts and runs may be infinite where the code allows it. Three
hypotheses are stated with the theorems that need them:

* `HashesDecode`: no hash is `None` or `Malformed`, and in the timeline none is the statement commitment
  of a proof entry. The code keeps the first two apart by type (`Option<[u8; 32]>`, and a hex string that
  decodes or does not); the third is that SHA3-256 does not hit a given value. It speaks of all pairs, which
  TLC cannot enumerate, and it holds of the model values TLC is given.
* `~Fractional`: timestamps without fractions of a second. With them the code's string
  comparison is not chronological, as `AuthorityCheckFractional` shows, and what check 11
  says of the history fails.
* `~Overlap`: signing runs one after the other. With overlap the properties are
  false, as `CommandLineOverlap` shows.

Verdicts, modes, types and everything in the pipeline are proved without these hypotheses.

### What a check says of the document

* **CaseTimelineProofs**: lemmas. The timeline is well typed and its edits keep it so; the
  rank of an action in its session is a bijection onto `1..ChainLen` (an injection into a finite
  set of the same size), so the stable sort loses no action and repeats none (`ChainOrderRanks`).
* **ReceiptChainProofs**. `VerdictIsLinkage` is not inductive: it says nothing
  while the walk is under way. `WalkInv` adds that the sessions already
  walked (neither in `todo` nor `current`) are linked, that the entries of the
  current chain before `pos` are linked, and that `expectedPrior` is the commitment
  of entry `pos - 1`. From it follow `TypeCorrect`, `VerdictCorrect` and `FailureLocated`.
  `WalkersAlwaysAgree` compares its verdict with `VerifyChain`: `OfflineVerdict` says that the
  latter accepts a chain of which every entry continues it, and breaks at the first that does not.
  `ReportedInv` adds that each report, earlier ones included, is one that the document alone
  determines but for the choice among broken sessions (`Deserved`); hence `OneFaultOneReport`: one verdict
  always, and identical reports if at most one session is broken, which is what is left of the claim that
  `ReceiptChainReports` refutes.
* **TimelineOrderingProofs**. `ScanInv` adds that the prefix already scanned is in
  order and that the last sequence number of each session is the greatest so
  far, which turns comparisons of neighbours into one of all pairs.
  `OrderingTypeCorrect`, `OrderingCorrect`, `OrderingFailureLocated`, and
  `WalkFollows`: on a timeline that passes, check 4's sort is the order of the timeline.
* **AuthorityCheckProofs**. `GraphInv` has, for each phase, what the phases before it have
  established: chains already walked are linked and hashed, `prior_hex` is the hash of the event
  before `pos`, tips hold, the actions before `pos` were authorised. That a verdict is
  then `Governed` needs the bridge from phase 4's stable sort and `last()` to "the
  last event that bears on the action delegates" (`DelegationDecides`), whose existence rests on
  every non-empty set of places having a least one. `VerdictCorrect`, `ModeCorrect`,
  `TypeCorrect`.
* **ReplayVerifyProofs**. `RunInv` says that the report is, at each point of an invocation, the
  function of document, options and check 3's result that the code means it to be
  (`FullReport`), what check 3's result is if no file has changed, and the same of all earlier
  reports. From it follow `ReportsConsistent`, `RefsUnique`, `BlobsMatch` and `RunsAgreeAlways`
  by reading the report; `TypeCorrect` adds that check 3 stays inside the sealed items. It is
  not bounded in items, edits, changed files or invocations.

### What a check says of the history

That a document is linked says something about who wrote it only because no edit makes a
hash. Each source has an invariant of its own that says where the hashes in the document come
from, whatever has been edited, and what an unedited document looks like; a theorem then
joins it to the invariant of the walk.

* `History` (checks 2 and 4, `HistoryInvariant`): there is a table `h` of the hashes the backend
  computed, `h[s][k]` being that of the k-th action of session s, such that each commitment in
  the timeline is one of them, or that of a loose action or of a proof, or undecodable; and before the first edit
  each sorted chain is row `h[s]`. The table is quantified, since the state does not hold it. A chain
  that links and ends in a hash of the table has hashed the same receipts from the first on
  (`SameHashSameChain`), which is `PassedChainsAreRecorded`; for an unedited document each entry
  links by the table, which is `UntouchedDocumentsPass`. The step that takes most is a new
  action of one session, which must be shown to sort behind the others of its session and
  to leave the order of every other session alone.
* `Provenance` (check 11, `ProvenanceInvariant`) is the same for governance events: the recorded
  events are chained by subject and scope in the order of recording, at times that never
  decrease, and each hash in the document is one of theirs or undecodable. It gives `PassedChainsRecorded`;
  with a tip of the exporter, whose hash and count name the last event, `TipsPin`; and for an unedited
  bundle `UntouchedBundlesAreJudged`, where the recorded order, the order of the strings and "the last event
  not after the action" have to be the same. `WholeSecondsAreChronological` adds the converse for
  its verdict: without fractions of a second the claim that `AuthorityCheckFractional` refutes holds.
* `BindInv` (`BindInvariant`): each binding carries the hash of some row of the backend's
  ledger, whatever its other fields have been edited to. A recomputed hash that matches then gives
  the row's tenant, case, actor and message; that it gives the attributes of each key in their order
  needs that two sorted lists with equal concatenation have equal parts. This is `BindingsRecorded`.
* `UntouchedInv` (`UntouchedInvariant`): until somebody edits it, envelope, entries, frames, evidence, bindings
  and files fit together as the eight checks ask that the pipeline models in full. `NoFalseAlarms` reads off the
  report that of these only check 3 can fail, and only in strict mode without payloads. Check 4 passes, as
  `UntouchedDocumentsPass` proves of it; checks 2 and 11 may refuse an unedited bundle, and their own theorems say when.

What recursive functions compute (`VerifyChain`, `ValuesOf`) is reasoned about by least counterexamples:
`LeastNatural` gives the smallest number at which a claim fails, and the step before it
refutes that. The same argument shows that the function exists.

### What two reports have in common

Two people who verify one document should read the same report, or know what may differ.

* Check 2 (`OrderingReportDetermined`): its result is `DueResult` of the timeline, entry and reason
  included. The invariant says in which loop a failure is found: sequence numbers are named only if the
  timestamps have no inversion, and each loop stops at its first.
* Check 11 (`AuthorityReportDetermined`): its result and failure mode are `DueReport` of the document although it
  walks a HashMap too, since a broken chain of either kind gives the same failure mode, and the actions
  are looked at in the order of the timeline. The message names the chain that failed first and is not modelled.
* Check 4 names the session it failed in, and the HashMap decides which
  (`ReceiptChainReports`); `OneFaultOneReport` is what can be said of its report.
* The pipeline (`ResultsDetermined`): whatever happens to the files meanwhile, the results, mode and warnings of every
  invocation, that of one long ago included, are `FullReport` of the bundle and the options with check 3's result
  either way; if no file changes while it runs, with the one that `DueThird` reads off the files. The loop of check 3
  may stop early only at a blob that fails, so "all hold" means that it has looked at every item. The messages
  are no part of this: that of check 4 differs.

### Everything comes to an end

That loops over finite lists end needs no model checker, and no run asks it of the checks; liveness
under fairness, which `RunsEnd` states of the key directory, is out of the prover's reach. What can be
proved, and says more than that loops end, is how the work left shrinks. For each component a theorem says that every step lowers a
well-founded measure, and for the loops a lemma that until the end the guard of some step holds:

| Component | Descent | Measure | A step is possible |
|---|---|---|---|
| check 2 | `OrderingDescends` | `StepsLeft`: entries left in this loop and the next | `OrderingNeverWaits` |
| check 4 | `WalkDescends` | `WorkLeft`: sessions to walk, then entries of the current one | - |
| check 11 | `AuthorityDescends` | `WorkLeft`: phases and chains to go, then what is left of this one | `AuthorityNeverWaits` |
| an invocation of `verify` | `InvocationDescends` | `StepsLeft`: items check 3 has not read, then the rest | - |
| a run on the key directory | `CallsAreFinite` | `CallsLeft`: calls to the file system, at most 7 | `RunNeverWaits` |
| an invocation of the command line | `LineDescends` | `StepsAhead`: at most 9 | - |

That pairs ordered by `Fewer` are well founded is a lemma of `HashChainProofs` (`FewerWellFounded`), that the
sessions of a timeline and the chains of a governance graph are finitely many, though `Session` need not be,
are `SessionsFinite` and `KeysFinite`. The descents say more than that loops end: a
file that is changed while check 3 reads does not make it read on, no run on the key directory ever goes back to its
first test, and a step of one invocation leaves all others where they were.

### Identity and command line

* **IdentityStoreProofs**. With overlap: `TypeCorrect` (no run returns half a key),
  `SecretAfterPublic`, `SoleCreator`, `SettledFinal`, from `DirectoryInv`, which relates a
  run's program counter to the files it must have seen or written. One after the
  other: `SequentialPairMatches`, `SequentialFingerprintStable`, from `SequentialInv`, which
  adds that at most one run is under way and that the two files, when both whole, are a pair.
  From both, `RegisterRefinement`: the directory implements `IdentityRegister`. The register has an identity
  from the moment the secret key file is whole, which is before the run that wrote it has returned
  it; it is spoiled once there is a public file, no matching secret, and no run left that could
  write one; and a run's answer is what it has returned (`Identity` and `Answer`). The
  steps of one run are then stutters but for these moments.
  `SpoiledIsForever` is the price of never overwriting, with overlap too: a directory that a killed
  run has left without a whole secret key gives no identity to anybody any more.
* **CommandLineProofs**. `UsesTheStore` shows that every step of the command line is a step of
  `IdentityStore` or a stutter, so that the store's theorems hold of it; `LineRefinesRegister` is the
  refinement of the register, through that step. `LineInv` adds what a run that is
  under way has read, that each signed output is `SignReport` of what its run had read under the
  identity it had loaded, that an accepted payload is that of such an output (a signature is a
  term that only `SignReport` makes, and no edit makes one), and what a finished cross-check
  compared. `AcceptedAttested` holds whatever overlaps, and so do `LineKeepsDirectory` (what is
  proved of the directory, for the invocations of all modes) and `ResultStands` (an invocation that has
  ended keeps its exit code and output); `ExitZeroVerified`, `LineKeepsIdentity` and
  `VerifiersDiffer` assume signing runs one after the other, since they need the two halves to be a pair.
  `CrossCheckVerdict` is what remains of the claim that `CommandLineVerdict` refutes: exit code 0 of a
  cross-check does not say that the bundle passes, but that the bundle is the signed one and that the
  verdict in the transcript is the verdict on it. Its invariant, `Showing`, is that a run which is still
  cross-checking, or has passed, holds an accepted payload.

**Only model-checked**: `RunsEnd`, which needs fairness and is out of the prover's reach; `CallsAreFinite` and
`RunNeverWaits` above are the parts of it that can be proved. The properties of the six violation runs are
false of the code; two of them are theorems under a hypothesis that
excludes the counterexample (`OrderIsChronological`, and `ReportsIdentical` for one broken session), and
`ExitZeroMeansVerified` is one for runs in turn. Every other invariant and action property that a run checks
is a theorem, some of them under the hypotheses above.

## Plan

Done: the checks and the pipeline, the identity store, the transcript and the command line,
each with the proofs of all its safety properties. What would come next, in this order:

1. The pipeline with the real checks 2, 4 and 11 in place of their verdicts: it adds no
   interleaving, since they read nothing but the document, but it would tie the modules together.
2. The refinement of an abstract "verify" by the pipeline: all invocations on one document and
   one directory read one report off one table.

## Not modelled

Parsing and printing of JSON, hex and base64; the inside of SHA3-256 and ML-DSA-65;
permissions of the key files; `resolve_key_dir`, which only chooses a directory; argument
parsing, which is clap's; the verifier's name and version, `signed_at` and wording of errors;
`verify_binding` (`binding.rs`), which nothing calls; the width of a tip's `event_count`
(`u32`), which takes 2^32 events in one document to matter; example scripts (but for the tests of
`verify-transcript.js`) and fixtures. The asynchronous handlers of the playground: every
input replaces the whole result and names itself in it, and nothing in the repository
says which of two inputs in flight is to be shown last, so there is nothing to check
them against. The wasm crate only forwards to `verify`.
