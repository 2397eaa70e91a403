-------------------------- MODULE SignedTranscript --------------------------
(***************************************************************************)
(* The signed transcript (signed_transcript.rs): the envelope that --sign  *)
(* emits, the tests an envelope goes through before its payload is         *)
(* believed, and the two other verifiers of the same format in the         *)
(* repository, the playground's and the example script's.                  *)
(*                                                                         *)
(* Cryptography is symbolic.  A SHA3-256 hash is the term of what was      *)
(* hashed.  A keypair is named, both halves by the same name.  A signature *)
(* is the term of the secret key and of the signed bytes, and only         *)
(* SignReport makes one.  A field that is base64 in the file holds the     *)
(* bytes it decodes to, or a value of its own if it does not decode or has *)
(* the wrong length.  Rust takes the canonical encoding only, atob of the  *)
(* JavaScript verifiers also one with white space, without its padding or  *)
(* with other trailing bits: loose names the fields so encoded.            *)
(*                                                                         *)
(* Left out are the verifier's name and version, constants of the program, *)
(* signed_at, which no check reads, and the wording of errors.             *)
(***************************************************************************)
EXTENDS Naturals, Sequences

CONSTANTS
    Sound,          \* bundle files that pass
    Lenient,        \* bundle files that pass, but not with --strict
    Failing,        \* bundle files that fail
    Unparsable,     \* files that are no bundle
    Undecodable,    \* a field that no decoder takes for base64
    WrongLength,    \* a key or a signature of another length than ML-DSA-65's
    NotJson,        \* bytes, or a part of an envelope, that do not parse
    Other           \* a text that is not the one expected

ASSUME TranscriptAssumption ==
    /\ Undecodable # WrongLength
    /\ Other \notin {"h33-signed-verify-report/0.1", "ML-DSA-65"}

ENVELOPE_VERSION == "h33-signed-verify-report/0.1"
SIGNED_PAYLOAD_DOMAIN == "h33-signed-verify-report/0.1"
SIGNATURE_ALGORITHM == "ML-DSA-65"

Bundle == Sound \cup Lenient \cup Failing \cup Unparsable

Sha3(bytes) == [sha3 |-> bytes]

Signature(secret, bytes) == [by |-> secret, over |-> bytes]

\* Bytes of the right length that no key has made.
NoSignature == Signature(WrongLength, NotJson)

-----------------------------------------------------------------------------
(* Reports and envelopes.                                                  *)

Passes(b, strict) == b \in Sound \/ (b \in Lenient /\ ~strict)

\* verify: about stands for what the report tells of the bundle's content, its
\* version, tenant, case and single results.
Report(b, strict) == [about |-> b, passed |-> Passes(b, strict), strict |-> strict]

\* The envelope repeats the report and the bundle's hash outside the payload.
SignReport(report, bytes, secret, public) ==
    LET payload == [domain |-> SIGNED_PAYLOAD_DOMAIN, fingerprint |-> Sha3(public),
                    bundleHash |-> Sha3(bytes), report |-> report]
    IN  [version |-> ENVELOPE_VERSION, report |-> report, bundleHash |-> Sha3(bytes),
         payload |-> payload, payloadHash |-> Sha3(payload),
         algorithm |-> SIGNATURE_ALGORITHM, key |-> public,
         fingerprint |-> Sha3(public), signature |-> Signature(secret, payload),
         loose |-> {}]

-----------------------------------------------------------------------------
(* The tests of an envelope, and which of them each verifier makes.        *)

Holds(e, test) ==
    CASE test = "version"             -> e.version = ENVELOPE_VERSION
      [] test = "algorithm"           -> e.algorithm = SIGNATURE_ALGORITHM
      [] test = "key base64"          -> e.key # Undecodable /\ "key" \notin e.loose
      [] test = "signature base64"    -> e.signature # Undecodable /\ "signature" \notin e.loose
      [] test = "payload base64"      -> e.payload # Undecodable /\ "payload" \notin e.loose
      [] test = "key atob"            -> e.key # Undecodable
      [] test = "signature atob"      -> e.signature # Undecodable
      [] test = "payload atob"        -> e.payload # Undecodable
      [] test = "key length"          -> e.key # WrongLength
      [] test = "signature length"    -> e.signature # WrongLength
      [] test = "fingerprint"         -> e.fingerprint = Sha3(e.key)
      [] test = "payload hash"        -> e.payloadHash = Sha3(e.payload)
      [] test = "payload json"        -> e.payload # NotJson
      [] test = "domain"              -> e.payload.domain = SIGNED_PAYLOAD_DOMAIN
      [] test = "payload fingerprint" -> e.payload.fingerprint = e.fingerprint
      [] test = "signature"           -> e.signature = Signature(e.key, e.payload)

\* Broken variant: the signature itself is not verified.
VerifierTestsUnsigned ==
    <<"version", "algorithm", "key base64", "signature base64", "payload base64",
      "key length", "signature length", "fingerprint", "payload hash",
      "payload json", "domain", "payload fingerprint">>

\* verify_signed_report.
VerifierTests ==
    <<"version", "algorithm", "key base64", "signature base64", "payload base64",
      "key length", "signature length", "fingerprint", "payload hash",
      "payload json", "domain", "payload fingerprint", "signature">>

\* Broken variant: the key is used without a look at its fingerprint.
PlaygroundTestsNoFingerprint ==
    <<"algorithm", "key atob", "signature atob", "payload atob", "payload hash",
      "key length", "signature length", "signature", "payload json", "domain">>

\* verifySignedReport of the playground; ml_dsa65.verify itself tests the lengths.
PlaygroundTests ==
    <<"algorithm", "key atob", "signature atob", "payload atob", "fingerprint",
      "payload hash", "key length", "signature length", "signature",
      "payload json", "domain">>

\* examples/verify-transcript.js.
ExampleTests ==
    <<"key atob", "signature atob", "payload atob", "fingerprint", "payload hash",
      "key length", "signature length", "signature", "payload json">>

\* A later test is made only if those before it hold.
PassesTests(e, tests) == \A i \in DOMAIN tests : Holds(e, tests[i])

\* serde_json::from_str::<SignedReport> takes a file only if all of it has the types of
\* the structs, with each field once; the JavaScript verifiers read the fields they
\* need.  A report that does not parse stands for all that only serde refuses.
Parses(e) == e.report # NotJson

VerifierAccepts(e) == Parses(e) /\ PassesTests(e, VerifierTests)

\* dispatch takes any other version for something else than an envelope.
PlaygroundAccepts(e) == Holds(e, "version") /\ PassesTests(e, PlaygroundTests)

ExampleAccepts(e) == PassesTests(e, ExampleTests)

\* What a run prints: a report, an envelope, a payload or an error.
Printed(kind, body) == [kind |-> kind, body |-> body]

\* verify_signed_report, on an envelope that has parsed.
VerifySignedReport(e) ==
    IF PassesTests(e, VerifierTests) THEN Printed("payload", e.payload)
                                     ELSE Printed("error", "not verified")
=============================================================================
