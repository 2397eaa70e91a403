---------------------------- MODULE CommandLine ----------------------------
(***************************************************************************)
(* The command line (main.rs): invocations of the verifier that share a    *)
(* key directory (IdentityStore) and a bundle file.  An invocation         *)
(* verifies the bundle, verifies it and signs the report, verifies a       *)
(* signed transcript, or cross-checks a transcript with the bundle.        *)
(* Meanwhile anybody may replace the bundle file, and edit a transcript    *)
(* that a signing run has printed.                                         *)
(*                                                                         *)
(* An invocation reads a file in one step; what it does with the bytes it  *)
(* has read touches nothing shared and belongs to the same step.  It reads *)
(* its transcript once, so that file needs no variable: it holds one of    *)
(* the Transcripts of the moment.  Kills are those of IdentityStore, since *)
(* elsewhere a killed run leaves nothing.  The verdict on a bundle is that *)
(* of ReplayVerify without --payloads.                                     *)
(***************************************************************************)
EXTENDS IdentityStore, SignedTranscript

CONSTANTS
    MaxReplacements     \* bound: times the bundle file is replaced or removed

ASSUME LineAssumption ==
    /\ MaxReplacements \in Nat
    /\ {Undecodable, WrongLength, NotJson} \cap Run = {}
    /\ Absent \notin Bundle

VARIABLES
    bundle,         \* content of the bundle file
    mode,           \* per run: None until it starts, then what it was asked
    strict,         \* per run: --strict
    raw,            \* per run: the bundle's bytes as it read them
    output,         \* per run: a report, an envelope or the outcome of a transcript
    exit,           \* per run: its exit code
    replacements    \* number of times the bundle file was replaced

world == <<bundle, replacements>>
lineVars == <<world, mode, strict, raw, output, exit>>

Modes == {"verify", "sign", "transcript", "cross-check"}

PASS == 0
FAIL == 1
ERROR == 2
KILLED == 137   \* what a shell shows for a process that was killed

\* The values that stand for nothing and for garbage are none of the program's.
ASSUME ValueAssumption ==
    /\ None \notin Modes /\ None \notin {PASS, FAIL, ERROR, KILLED}
    /\ \A k, l \in Run, b \in Bundle, s \in BOOLEAN :
            LET e == SignReport(Report(b, s), b, k, l)
            IN  /\ e.payload \notin {Undecodable, NotJson} /\ e.report # NotJson
                /\ e.signature \notin {Undecodable, WrongLength}
                /\ Printed("payload", e.payload) # None

LineInit == /\ Init
            /\ bundle \in Bundle \cup {Absent}
            /\ mode = [r \in Run |-> None]
            /\ strict = [r \in Run |-> FALSE]
            /\ raw = [r \in Run |-> None]
            /\ output = [r \in Run |-> None]
            /\ exit = [r \in Run |-> None]
            /\ replacements = 0

Running(r, m) == mode[r] = m /\ exit[r] = None

Begin(r, m) == mode[r] = None /\ mode' = [mode EXCEPT ![r] = m]

Read(r) == raw' = [raw EXCEPT ![r] = bundle]

Emit(r, kind, body) == output' = [output EXCEPT ![r] = Printed(kind, body)]

Exit(r, code) == exit' = [exit EXCEPT ![r] = code]

ExitCode(passed) == IF passed THEN PASS ELSE FAIL

-----------------------------------------------------------------------------
(* <bundle.json>, and <bundle.json> --sign                                 *)

\* The file cannot be read or is no bundle: read_bundle, parse_bundle.
UnreadableBundle(r, m) ==
    /\ m \in {"verify", "sign"} /\ bundle \in Unparsable \cup {Absent}
    /\ Begin(r, m) /\ Exit(r, ERROR)
    /\ UNCHANGED <<vars, world, strict, raw, output>>

VerifyBundle(r, s) ==
    /\ bundle \in Bundle \ Unparsable
    /\ Begin(r, "verify") /\ Read(r)
    /\ strict' = [strict EXCEPT ![r] = s]
    /\ Emit(r, "report", Report(bundle, s))
    /\ Exit(r, ExitCode(Passes(bundle, s)))
    /\ UNCHANGED <<vars, world>>

\* The report is made first; the run then turns to its identity.
BeginSigning(r, s) ==
    /\ bundle \in Bundle \ Unparsable
    /\ Begin(r, "sign") /\ Read(r)
    /\ strict' = [strict EXCEPT ![r] = s]
    /\ UNCHANGED <<vars, world, output, exit>>

\* One step of load_or_create, or the run's death in it.
LoadIdentity(r) ==
    /\ Running(r, "sign")
    /\ Step(r) \/ Abort(r)
    /\ UNCHANGED lineVars

\* resolve_key_dir finds no directory, or load_or_create has failed.
LoadFails(r) ==
    /\ Running(r, "sign")
    /\ \/ pc[r] = "start" /\ Exit(r, ERROR)
       \/ /\ pc[r] = "done" /\ ~Succeeded(r)
          /\ Exit(r, ERROR)
       \/ /\ pc[r] = "done" /\ outcome[r] = Failed("aborted")
          /\ Exit(r, KILLED)
    /\ UNCHANGED <<vars, world, mode, strict, raw, output>>

\* Broken variants: a run that was refused an identity signs all the same, and
\* the bundle file is read again for its hash.
SignAnyway(r) ==
    /\ Running(r, "sign") /\ pc[r] = "done"
    /\ Emit(r, "signed", SignReport(Report(raw[r], strict[r]), raw[r],
                                     outcome[r].secret, outcome[r].public))
    /\ Exit(r, ExitCode(Passes(raw[r], strict[r])))
    /\ UNCHANGED <<vars, world, mode, strict, raw>>

SignRereads(r) ==
    /\ Running(r, "sign") /\ pc[r] = "done" /\ Succeeded(r)
    /\ Emit(r, "signed", SignReport(Report(raw[r], strict[r]), bundle,
                                     outcome[r].secret, outcome[r].public))
    /\ Exit(r, ExitCode(Passes(raw[r], strict[r])))
    /\ UNCHANGED <<vars, world, mode, strict, raw>>

Sign(r) ==
    /\ Running(r, "sign") /\ pc[r] = "done" /\ Succeeded(r)
    /\ Emit(r, "signed", SignReport(Report(raw[r], strict[r]), raw[r],
                                     outcome[r].secret, outcome[r].public))
    /\ Exit(r, ExitCode(Passes(raw[r], strict[r])))
    /\ UNCHANGED <<vars, world, mode, strict, raw>>

-----------------------------------------------------------------------------
(* The transcripts that users may hand in: what signing runs have printed, *)
(* as it is, with one field changed, to a value of its own or to that of   *)
(* another envelope, or so changed and with both hashes made to fit again; *)
(* or with a field encoded another way.  No edit makes a signature.        *)

Signed(r) == output[r] # None /\ output[r].kind = "signed"

Envelopes == {output[r].body : r \in {q \in Run : Signed(q)}}

AlteredPayload(p) ==
    {[p EXCEPT !.domain = Other], [p EXCEPT !.report.passed = ~@]}
        \cup {[p EXCEPT !.fingerprint = Sha3(k)] : k \in Run}
        \cup {[p EXCEPT !.bundleHash = Sha3(b)] : b \in Bundle}

Values(e, field) ==
    {x[field] : x \in Envelopes} \cup
    CASE field \in {"version", "algorithm"} -> {Other}
      [] field = "report"      -> {[e.report EXCEPT !.passed = ~@], NotJson}
      [] field = "bundleHash"  -> {Sha3(b) : b \in Bundle}
      [] field = "key"         -> Run \cup {Undecodable, WrongLength}
      [] field = "fingerprint" -> {Sha3(k) : k \in Run}
      [] field = "payload"     -> {Undecodable, NotJson} \cup AlteredPayload(e.payload)
      [] field = "payloadHash" -> {Sha3(NotJson)}
      [] field = "signature"   -> {Undecodable, WrongLength, NoSignature}
      [] field = "loose"       -> {{"key"}, {"signature"}, {"payload"}}

Rehashed(e) == [e EXCEPT !.payloadHash = Sha3(e.payload), !.fingerprint = Sha3(e.key)]

Transcripts ==
    LET Edited(e) == UNION {{[e EXCEPT ![field] = v] : v \in Values(e, field)} :
                                field \in DOMAIN e}
        edited == UNION {Edited(e) : e \in Envelopes}
    IN  edited \cup {Rehashed(e) : e \in edited}

-----------------------------------------------------------------------------
(* --verify-transcript <signed.json>, with and without <bundle.json>       *)

\* The file cannot be read, is no JSON or does not parse: read_transcript and
\* parse_transcript.
UnreadableTranscript(r, m) ==
    /\ m \in {"transcript", "cross-check"}
    /\ Begin(r, m) /\ Exit(r, ERROR)
    /\ UNCHANGED <<vars, world, strict, raw, output>>

\* Without a bundle an accepted transcript ends the run; with one it goes on.
VerifyTranscript(r, m, result) ==
    /\ m \in {"transcript", "cross-check"}
    /\ Begin(r, m)
    /\ \/ result.kind = "error" /\ Exit(r, FAIL)
       \/ result.kind = "payload" /\ m = "transcript" /\ Exit(r, PASS)
       \/ result.kind = "payload" /\ m = "cross-check" /\ UNCHANGED exit
    /\ output' = [output EXCEPT ![r] = result]
    /\ UNCHANGED <<vars, world, strict, raw>>

\* Any bytes will do here, a bundle or not.
CrossCheck(r) ==
    /\ Running(r, "cross-check")
    /\ Read(r)
    /\ \/ bundle = Absent /\ Exit(r, ERROR)
       \/ /\ bundle # Absent
          /\ Exit(r, ExitCode(output[r].body.bundleHash = Sha3(bundle)))
    /\ UNCHANGED <<vars, world, mode, strict, output>>

-----------------------------------------------------------------------------

ReplaceBundle ==
    /\ replacements < MaxReplacements
    /\ bundle' \in (Bundle \cup {Absent}) \ {bundle}
    /\ replacements' = replacements + 1
    /\ UNCHANGED <<vars, mode, strict, raw, output, exit>>

LineNext ==
    \/ ReplaceBundle
    \/ \E result \in {VerifySignedReport(e) : e \in {t \in Transcripts : Parses(t)}} :
            \E r \in Run, m \in Modes : VerifyTranscript(r, m, result)
    \/ \E r \in Run :
        \/ \E s \in BOOLEAN : VerifyBundle(r, s) \/ BeginSigning(r, s)
        \/ \E m \in Modes : UnreadableTranscript(r, m) \/ UnreadableBundle(r, m)
        \/ LoadIdentity(r) \/ LoadFails(r) \/ Sign(r) \/ CrossCheck(r)

LineSpec == LineInit /\ [][LineNext]_<<vars, lineVars>>

-----------------------------------------------------------------------------
(* Properties.                                                             *)

\* The types of what the runs have read and printed; in particular an envelope
\* is only printed by a run that has an identity.
LineTypeOK ==
    /\ bundle \in Bundle \cup {Absent}
    /\ mode \in [Run -> Modes \cup {None}]
    /\ strict \in [Run -> BOOLEAN]
    /\ raw \in [Run -> Bundle \cup {Absent, None}]
    /\ exit \in [Run -> {None, PASS, FAIL, ERROR, KILLED}]
    /\ replacements \in 0..MaxReplacements
    /\ \A r \in Run : output[r] # None =>
            /\ output[r].kind \in {"report", "signed", "error", "payload"}
            /\ output[r].kind = "signed" =>
                    mode[r] = "sign" /\ Succeeded(r) /\ output[r].body.key \in Run

\* Whatever was edited, mixed from two envelopes or replaced in between: a payload
\* that transcript mode accepts is, as a whole, one that a signing run printed, under
\* the identity the payload names, and tells the verdict on the bytes that run had
\* read.  If a bundle was given, exit code 0 means that its bytes, read later, are
\* those same bytes.
AcceptedIsAttested ==
    \A r \in Run : (output[r] # None /\ output[r].kind = "payload") =>
        LET payload == output[r].body
        IN  \E q \in Run :
            /\ Signed(q) /\ output[q].body.payload = payload
            /\ payload.fingerprint = Sha3(outcome[q].public)
            /\ outcome[q].public = outcome[q].secret
            /\ payload.report = Report(raw[q], strict[q])
            /\ payload.bundleHash = Sha3(raw[q])
            /\ (mode[r] = "cross-check" /\ exit[r] = PASS) => raw[r] = raw[q]

\* main.rs:27 says of exit code 0 that the bundle verifies and, if signed, the
\* signature verifies.  The envelope describes the bytes that were verified, though
\* the file may be replaced while the run loads its identity.
ExitZeroMeansVerified ==
    \A r \in Run : (mode[r] \in {"verify", "sign"} /\ exit[r] = PASS) =>
        /\ Passes(raw[r], strict[r])
        /\ Signed(r) =>
            /\ VerifierAccepts(output[r].body)
            /\ output[r].body.payload.report = Report(raw[r], strict[r])
            /\ output[r].body.payload.bundleHash = Sha3(raw[r])

\* The three verifiers of the format differ in form only: on the envelopes that edits
\* make of one whose keys are a pair, Rust refuses what is not written as it writes it,
\* the wrong JSON type or a loose base64, which the other two take if they do not read
\* it or if atob decodes it.  Apart from that they accept the same: the test of the
\* payload's fingerprint that the playground lacks is implied by the signature, and the
\* example needs the version and the algorithm to be the expected ones.
VerifiersDifferInForm ==
    \A e \in Transcripts :
        LET asWritten == Parses(e) /\ e.loose = {}
        IN  /\ VerifierAccepts(e) <=> asWritten /\ PlaygroundAccepts(e)
            /\ VerifierAccepts(e) <=> /\ asWritten /\ ExampleAccepts(e)
                                      /\ e.version = ENVELOPE_VERSION
                                      /\ e.algorithm = SIGNATURE_ALGORITHM

\* main.rs:22-24 says that a cross-check verifies the bundle too and compares the
\* verdict.
CrossCheckVerifiesBundle ==
    \A r \in Run : (mode[r] = "cross-check" /\ exit[r] = PASS) =>
        Passes(raw[r], output[r].body.report.strict)
=============================================================================
