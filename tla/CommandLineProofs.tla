-------------------------- MODULE CommandLineProofs --------------------------
(***************************************************************************)
(* Proofs about CommandLine, for every set of runs, every set of bundles   *)
(* and any number of replacements of the bundle file.                      *)
(***************************************************************************)
EXTENDS CommandLine, IdentityStoreProofs

\* The command line uses the key directory in no way that IdentityStore does not
\* allow for, so what is proved of the directory holds of every invocation.
THEOREM UsesTheStore == LineSpec => Spec
<1>1. LineInit => Init
  BY DEF LineInit
<1>2. ASSUME [LineNext]_<<vars, lineVars>>
      PROVE  [Next]_vars
  <2>1. CASE UNCHANGED <<vars, lineVars>>
    BY <2>1
  <2>2. CASE ReplaceBundle
    BY <2>2 DEF ReplaceBundle
  <2>3. ASSUME NEW r \in Run, NEW m \in Modes, NEW result, VerifyTranscript(r, m, result)
        PROVE  [Next]_vars
    BY <2>3 DEF VerifyTranscript
  <2>4. ASSUME NEW r \in Run, LoadIdentity(r)
        PROVE  [Next]_vars
    BY <2>4 DEF LoadIdentity, Next
  <2>5. ASSUME NEW r \in Run,
               \/ \E s \in BOOLEAN : VerifyBundle(r, s) \/ BeginSigning(r, s)
               \/ \E m \in Modes : UnreadableTranscript(r, m) \/ UnreadableBundle(r, m)
               \/ LoadFails(r) \/ Sign(r) \/ CrossCheck(r)
        PROVE  [Next]_vars
    BY <2>5 DEF VerifyBundle, BeginSigning, UnreadableTranscript, UnreadableBundle,
                LoadFails, Sign, CrossCheck
  <2> QED
    BY <1>2, <2>1, <2>2, <2>3, <2>4, <2>5 DEF LineNext
<1> QED
  BY <1>1, <1>2, PTL DEF LineSpec, Spec

-----------------------------------------------------------------------------
(* What an envelope that passes the tests goes through.                    *)

\* verify_signed_report makes thirteen tests.
LEMMA VerifierMakesAllTests ==
    ASSUME NEW e
    PROVE  PassesTests(e, VerifierTests) <=>
              /\ Holds(e, "version") /\ Holds(e, "algorithm")
              /\ Holds(e, "key base64") /\ Holds(e, "signature base64")
              /\ Holds(e, "payload base64") /\ Holds(e, "key length")
              /\ Holds(e, "signature length") /\ Holds(e, "fingerprint")
              /\ Holds(e, "payload hash") /\ Holds(e, "payload json")
              /\ Holds(e, "domain") /\ Holds(e, "payload fingerprint")
              /\ Holds(e, "signature")
<1>1. /\ DOMAIN VerifierTests = 1..13
      /\ VerifierTests[1] = "version" /\ VerifierTests[2] = "algorithm"
      /\ VerifierTests[3] = "key base64" /\ VerifierTests[4] = "signature base64"
      /\ VerifierTests[5] = "payload base64" /\ VerifierTests[6] = "key length"
      /\ VerifierTests[7] = "signature length" /\ VerifierTests[8] = "fingerprint"
      /\ VerifierTests[9] = "payload hash" /\ VerifierTests[10] = "payload json"
      /\ VerifierTests[11] = "domain" /\ VerifierTests[12] = "payload fingerprint"
      /\ VerifierTests[13] = "signature"
  BY DEF VerifierTests
<1>2. \A i \in 1..13 : i \in {1, 2, 3, 4, 5, 6, 7, 8, 9, 10, 11, 12, 13}
  OBVIOUS
<1>3. PassesTests(e, VerifierTests) <=> \A i \in 1..13 : Holds(e, VerifierTests[i])
  BY <1>1 DEF PassesTests
<1>4. (\A i \in 1..13 : Holds(e, VerifierTests[i])) <=>
         /\ Holds(e, VerifierTests[1]) /\ Holds(e, VerifierTests[2])
         /\ Holds(e, VerifierTests[3]) /\ Holds(e, VerifierTests[4])
         /\ Holds(e, VerifierTests[5]) /\ Holds(e, VerifierTests[6])
         /\ Holds(e, VerifierTests[7]) /\ Holds(e, VerifierTests[8])
         /\ Holds(e, VerifierTests[9]) /\ Holds(e, VerifierTests[10])
         /\ Holds(e, VerifierTests[11]) /\ Holds(e, VerifierTests[12])
         /\ Holds(e, VerifierTests[13])
  BY <1>2
<1> QED
  BY <1>1, <1>3, <1>4

\* Once the version is the expected one, the playground makes a part of these tests,
\* and takes base64 as atob does.
LEMMA PlaygroundMakesTheseTests ==
    ASSUME NEW e
    PROVE  PlaygroundAccepts(e) <=>
              /\ Holds(e, "version") /\ Holds(e, "algorithm")
              /\ Holds(e, "key atob") /\ Holds(e, "signature atob")
              /\ Holds(e, "payload atob") /\ Holds(e, "fingerprint")
              /\ Holds(e, "payload hash") /\ Holds(e, "key length")
              /\ Holds(e, "signature length") /\ Holds(e, "signature")
              /\ Holds(e, "payload json") /\ Holds(e, "domain")
<1>1. /\ DOMAIN PlaygroundTests = 1..11 /\ PlaygroundTests[1] = "algorithm"
      /\ PlaygroundTests[2] = "key atob" /\ PlaygroundTests[3] = "signature atob"
      /\ PlaygroundTests[4] = "payload atob" /\ PlaygroundTests[5] = "fingerprint"
      /\ PlaygroundTests[6] = "payload hash" /\ PlaygroundTests[7] = "key length"
      /\ PlaygroundTests[8] = "signature length" /\ PlaygroundTests[9] = "signature"
      /\ PlaygroundTests[10] = "payload json" /\ PlaygroundTests[11] = "domain"
  BY DEF PlaygroundTests
<1>2. \A i \in 1..11 : i \in {1, 2, 3, 4, 5, 6, 7, 8, 9, 10, 11}
  OBVIOUS
<1>3. PassesTests(e, PlaygroundTests) <=> \A i \in 1..11 : Holds(e, PlaygroundTests[i])
  BY <1>1 DEF PassesTests
<1>4. (\A i \in 1..11 : Holds(e, PlaygroundTests[i])) <=>
         /\ Holds(e, PlaygroundTests[1]) /\ Holds(e, PlaygroundTests[2])
         /\ Holds(e, PlaygroundTests[3]) /\ Holds(e, PlaygroundTests[4])
         /\ Holds(e, PlaygroundTests[5]) /\ Holds(e, PlaygroundTests[6])
         /\ Holds(e, PlaygroundTests[7]) /\ Holds(e, PlaygroundTests[8])
         /\ Holds(e, PlaygroundTests[9]) /\ Holds(e, PlaygroundTests[10])
         /\ Holds(e, PlaygroundTests[11])
  BY <1>2
<1> QED
  BY <1>1, <1>3, <1>4 DEF PlaygroundAccepts

\* verify-transcript.js makes a part of these tests.
LEMMA ExampleMakesTheseTests ==
    ASSUME NEW e
    PROVE  ExampleAccepts(e) <=>
              /\ Holds(e, "key atob") /\ Holds(e, "signature atob")
              /\ Holds(e, "payload atob") /\ Holds(e, "fingerprint")
              /\ Holds(e, "payload hash") /\ Holds(e, "key length")
              /\ Holds(e, "signature length") /\ Holds(e, "signature")
              /\ Holds(e, "payload json")
<1>1. /\ DOMAIN ExampleTests = 1..9
      /\ ExampleTests[1] = "key atob" /\ ExampleTests[2] = "signature atob"
      /\ ExampleTests[3] = "payload atob" /\ ExampleTests[4] = "fingerprint"
      /\ ExampleTests[5] = "payload hash" /\ ExampleTests[6] = "key length"
      /\ ExampleTests[7] = "signature length" /\ ExampleTests[8] = "signature"
      /\ ExampleTests[9] = "payload json"
  BY DEF ExampleTests
<1>2. \A i \in 1..9 : i \in {1, 2, 3, 4, 5, 6, 7, 8, 9}
  OBVIOUS
<1>3. PassesTests(e, ExampleTests) <=> \A i \in 1..9 : Holds(e, ExampleTests[i])
  BY <1>1 DEF PassesTests
<1>4. (\A i \in 1..9 : Holds(e, ExampleTests[i])) <=>
         /\ Holds(e, ExampleTests[1]) /\ Holds(e, ExampleTests[2])
         /\ Holds(e, ExampleTests[3]) /\ Holds(e, ExampleTests[4])
         /\ Holds(e, ExampleTests[5]) /\ Holds(e, ExampleTests[6])
         /\ Holds(e, ExampleTests[7]) /\ Holds(e, ExampleTests[8])
         /\ Holds(e, ExampleTests[9])
  BY <1>2
<1> QED
  BY <1>1, <1>3, <1>4 DEF ExampleAccepts

\* The tests of a verifier that establish who signed what.
LEMMA AcceptedMeans ==
    ASSUME NEW e, PassesTests(e, VerifierTests)
    PROVE  /\ e.key \notin {Undecodable, WrongLength}
           /\ e.signature \notin {Undecodable, WrongLength}
           /\ e.fingerprint = Sha3(e.key)
           /\ e.payload.fingerprint = e.fingerprint
           /\ e.signature = Signature(e.key, e.payload)
BY VerifierMakesAllTests DEF Holds

-----------------------------------------------------------------------------
(* Signatures are never forged: whatever is edited, the signature of a     *)
(* transcript is garbage or that of an envelope some run has printed.      *)

\* SHA3-256 has no collisions.
LEMMA Sha3Injective ==
    ASSUME NEW x, NEW y, Sha3(x) = Sha3(y)
    PROVE  x = y
BY DEF Sha3

\* A signature is one key's, over one payload.
LEMMA SignatureInjective ==
    ASSUME NEW k, NEW x, NEW l, NEW y, Signature(k, x) = Signature(l, y)
    PROVE  k = l /\ x = y
BY DEF Signature

\* The fields of the envelope that sign_report returns.
LEMMA EnvelopeFields ==
    ASSUME NEW report, NEW bytes, NEW secret, NEW public
    PROVE  LET e == SignReport(report, bytes, secret, public)
           IN  /\ DOMAIN e = {"version", "report", "bundleHash", "payload",
                              "payloadHash", "algorithm", "key", "fingerprint",
                              "signature", "loose"}
               /\ e.loose = {} /\ e.report = report
               /\ e.version = ENVELOPE_VERSION /\ e.algorithm = SIGNATURE_ALGORITHM
               /\ e.key = public /\ e.fingerprint = Sha3(public)
               /\ e.payloadHash = Sha3(e.payload)
               /\ e.signature = Signature(secret, e.payload)
               /\ e.payload.domain = SIGNED_PAYLOAD_DOMAIN
               /\ e.payload.fingerprint = Sha3(public)
               /\ e.payload.bundleHash = Sha3(bytes)
               /\ e.payload.report = report
BY DEF SignReport

Attested(r) ==
    Signed(r) =>
        /\ mode[r] = "sign" /\ exit[r] # None
        /\ Succeeded(r) /\ raw[r] \in Bundle
        /\ output[r].body = SignReport(Report(raw[r], strict[r]), raw[r],
                                       outcome[r].secret, outcome[r].public)

\* Every signature in a transcript, edited or not, was made by a signing run.
LEMMA EditsForgeNothing ==
    ASSUME \A r \in Run : Attested(r), NEW e \in Transcripts
    PROVE  \/ e.signature \in {Undecodable, WrongLength, NoSignature}
           \/ \E x \in Envelopes : e.signature = x.signature
<1> DEFINE Genuine(t) == \/ t.signature \in {Undecodable, WrongLength, NoSignature}
                         \/ \E x \in Envelopes : t.signature = x.signature
           Fields == {"version", "report", "bundleHash", "payload", "payloadHash",
                      "algorithm", "key", "fingerprint", "signature", "loose"}
<1>1. ASSUME NEW x \in Envelopes PROVE DOMAIN x = Fields
  <2>1. PICK r \in Run : Signed(r) /\ x = output[r].body
    BY DEF Envelopes
  <2> QED
    BY <2>1, EnvelopeFields DEF Attested
<1>2. ASSUME NEW x \in Envelopes, NEW field \in DOMAIN x, NEW v \in Values(x, field)
      PROVE  /\ DOMAIN [x EXCEPT ![field] = v] = Fields
             /\ Genuine([x EXCEPT ![field] = v])
  <2>1. DOMAIN [x EXCEPT ![field] = v] = Fields
    BY <1>1
  <2>2. CASE field = "signature"
    <3>1. v \in {y[field] : y \in Envelopes} \cup {Undecodable, WrongLength, NoSignature}
      BY <1>2, <2>2 DEF Values
    <3> QED
      BY <1>1, <2>1, <2>2, <3>1
  <2>3. CASE field # "signature"
    BY <1>1, <2>1, <2>3
  <2> QED
    BY <2>1, <2>2, <2>3
<1>3. ASSUME NEW t, DOMAIN t = Fields, Genuine(t)
      PROVE  Genuine(Rehashed(t))
  BY <1>3 DEF Rehashed
<1> QED
  BY <1>2, <1>3 DEF Transcripts

\* No edit encodes anything but the three base64 fields another way.
LEMMA EditsLoosen ==
    ASSUME \A r \in Run : Attested(r), NEW e \in Transcripts
    PROVE  e.loose \subseteq {"key", "signature", "payload"}
<1> DEFINE Fields == {"version", "report", "bundleHash", "payload", "payloadHash",
                      "algorithm", "key", "fingerprint", "signature", "loose"}
           OK(t) == DOMAIN t = Fields /\ t.loose \subseteq {"key", "signature", "payload"}
<1>1. ASSUME NEW x \in Envelopes PROVE DOMAIN x = Fields /\ x.loose = {}
  <2>1. PICK r \in Run : Signed(r) /\ x = output[r].body
    BY DEF Envelopes
  <2> QED
    BY <2>1, EnvelopeFields DEF Attested
<1>2. ASSUME NEW x \in Envelopes, NEW field \in DOMAIN x, NEW v \in Values(x, field)
      PROVE  OK([x EXCEPT ![field] = v])
  <2>1. CASE field = "loose"
    <3>1. v \in {y[field] : y \in Envelopes} \cup {{"key"}, {"signature"}, {"payload"}}
      BY <1>2, <2>1 DEF Values
    <3>2. v \subseteq {"key", "signature", "payload"}
      BY <1>1, <2>1, <3>1
    <3> QED
      BY <1>1, <2>1, <3>2
  <2>2. CASE field # "loose"
    BY <1>1, <2>2
  <2> QED
    BY <2>1, <2>2
<1>3. ASSUME NEW t, OK(t)
      PROVE  OK(Rehashed(t))
  BY <1>3 DEF Rehashed
<1> QED
  BY <1>2, <1>3 DEF Transcripts

\* A transcript whose signature verifies under its key has the payload of a run
\* that signed with the secret half of that key.
LEMMA VerifiesMeansSigned ==
    ASSUME \A r \in Run : Attested(r), NEW e \in Transcripts,
           e.signature = Signature(e.key, e.payload), e.key # WrongLength,
           e.signature \notin {Undecodable, WrongLength}
    PROVE  \E q \in Run : /\ Signed(q) /\ e.key = outcome[q].secret
                          /\ e.payload = output[q].body.payload
<1>1. e.signature # NoSignature
  BY SignatureInjective DEF NoSignature
<1>2. PICK x \in Envelopes : e.signature = x.signature
  BY <1>1, EditsForgeNothing
<1>3. PICK q \in Run : Signed(q) /\ x = output[q].body
  BY <1>2 DEF Envelopes
<1>4. x.signature = Signature(outcome[q].secret, x.payload)
  BY <1>3, EnvelopeFields DEF Attested
<1>5. Signature(e.key, e.payload) = Signature(outcome[q].secret, x.payload)
  BY <1>2, <1>4
<1>6. e.key = outcome[q].secret /\ e.payload = x.payload
  BY <1>5, SignatureInjective
<1> QED
  BY <1>3, <1>6

\* What AcceptedIsAttested says of one accepted payload and the run that signed it.
AttestedBy(payload, q) ==
    /\ Signed(q) /\ output[q].body.payload = payload
    /\ payload.fingerprint = Sha3(outcome[q].public)
    /\ outcome[q].public = outcome[q].secret
    /\ payload.report = Report(raw[q], strict[q])
    /\ payload.bundleHash = Sha3(raw[q])

\* What verify_signed_report accepts is a payload that a signing run has signed.
LEMMA AcceptedPayload ==
    ASSUME \A r \in Run : Attested(r), NEW e \in Transcripts,
           PassesTests(e, VerifierTests)
    PROVE  \E q \in Run : AttestedBy(e.payload, q)
<1>1. PICK q \in Run : /\ Signed(q) /\ e.key = outcome[q].secret
                       /\ e.payload = output[q].body.payload
  BY AcceptedMeans, VerifiesMeansSigned
<1>2. /\ e.payload.fingerprint = Sha3(outcome[q].public)
      /\ e.payload.report = Report(raw[q], strict[q])
      /\ e.payload.bundleHash = Sha3(raw[q])
  BY <1>1, EnvelopeFields DEF Attested
<1>3. Sha3(outcome[q].public) = Sha3(outcome[q].secret)
  BY <1>1, <1>2, AcceptedMeans
<1> QED
  BY <1>1, <1>2, <1>3, Sha3Injective DEF AttestedBy

-----------------------------------------------------------------------------
(* The invariant of the command line.                                      *)

LineTypes ==
    /\ bundle \in Bundle \cup {Absent}
    /\ mode \in [Run -> Modes \cup {None}]
    /\ strict \in [Run -> BOOLEAN]
    /\ raw \in [Run -> Bundle \cup {Absent, None}]
    /\ exit \in [Run -> {None, PASS, FAIL, ERROR, KILLED}]
    /\ replacements \in 0..MaxReplacements
    /\ DOMAIN output = Run

\* A run that has not begun has printed nothing, and a run that is on its way to
\* its identity has a bundle and has printed nothing yet.
Began(r) ==
    /\ mode[r] = None => exit[r] = None /\ output[r] = None
    /\ mode[r] = "sign" /\ exit[r] = None => raw[r] \in Bundle /\ output[r] = None
    /\ output[r] # None => output[r].kind \in {"report", "signed", "error", "payload"}

\* Exit code 0 is given for a bundle that passes.
Verified(r) ==
    mode[r] \in {"verify", "sign"} /\ exit[r] = PASS => Passes(raw[r], strict[r])

Accepted(r) ==
    (output[r] # None /\ output[r].kind = "payload") =>
        /\ mode[r] \in {"transcript", "cross-check"}
        /\ \E q \in Run :
            /\ AttestedBy(output[r].body, q)
            /\ (mode[r] = "cross-check" /\ exit[r] = PASS) => raw[r] = raw[q]

LineInv ==
    /\ LineTypes
    /\ \A r \in Run : Began(r) /\ Verified(r) /\ Attested(r) /\ Accepted(r)

\* No run has begun.
LEMMA LineInvInit == LineInit => LineInv
<1> USE DEF LineInit
<1>1. LineInit => LineTypes
  BY LineAssumption DEF LineTypes
<1>2. ASSUME LineInit, NEW r \in Run
      PROVE  Began(r) /\ Verified(r) /\ Attested(r) /\ Accepted(r)
  BY <1>2, ValueAssumption DEF Began, Verified, Attested, Accepted, Signed, Modes
<1> QED
  BY <1>1, <1>2 DEF LineInv

\* A step of load_or_create disturbs the outcome of no other run.
LEMMA StoreFrame ==
    ASSUME TypeOK, NEW r \in Run, Step(r) \/ Abort(r)
    PROVE  \A q \in Run \ {r} : outcome'[q] = outcome[q]
BY DEF TypeOK, Step, Abort, TestPublic, TestSecret, ReadPublic, ReadSecret, Generate,
       OpenPublic, WritePublic, OpenSecret, WriteSecret, Return

Same(q) == /\ mode'[q] = mode[q] /\ exit'[q] = exit[q] /\ output'[q] = output[q]
           /\ strict'[q] = strict[q] /\ raw'[q] = raw[q] /\ outcome'[q] = outcome[q]

Acts(r) ==
    \/ \E m \in Modes, e \in Transcripts : VerifyTranscript(r, m, VerifySignedReport(e))
    \/ \E s \in BOOLEAN : VerifyBundle(r, s) \/ BeginSigning(r, s)
    \/ \E m \in Modes : UnreadableTranscript(r, m) \/ UnreadableBundle(r, m)
    \/ LoadIdentity(r) \/ LoadFails(r) \/ Sign(r) \/ CrossCheck(r)

\* A step touches no run but the one that takes it.
LEMMA LineFrame ==
    ASSUME LineTypes, TypeOK, [LineNext]_<<vars, lineVars>>, NEW q \in Run, ~Acts(q)
    PROVE  Same(q)
<1> USE DEF LineTypes, Acts, Same, vars, world, lineVars, Running, Begin, Read, Emit, Exit
<1>1. CASE UNCHANGED <<vars, lineVars>>
  BY <1>1
<1>2. CASE ReplaceBundle
  BY <1>2 DEF ReplaceBundle
<1>3. ASSUME NEW r \in Run, NEW m \in Modes, NEW e \in Transcripts,
             VerifyTranscript(r, m, VerifySignedReport(e))
      PROVE  Same(q)
  BY <1>3 DEF VerifyTranscript
<1>4. ASSUME NEW r \in Run, NEW s \in BOOLEAN, VerifyBundle(r, s)
      PROVE  Same(q)
  BY <1>4 DEF VerifyBundle
<1>5. ASSUME NEW r \in Run, NEW s \in BOOLEAN, BeginSigning(r, s)
      PROVE  Same(q)
  BY <1>5 DEF BeginSigning
<1>6. ASSUME NEW r \in Run, NEW m \in Modes, UnreadableTranscript(r, m) \/ UnreadableBundle(r, m)
      PROVE  Same(q)
  BY <1>6 DEF UnreadableTranscript, UnreadableBundle
<1>7. ASSUME NEW r \in Run, LoadIdentity(r)
      PROVE  Same(q)
  BY <1>7, StoreFrame DEF LoadIdentity
<1>8. ASSUME NEW r \in Run, LoadFails(r)
      PROVE  Same(q)
  BY <1>8 DEF LoadFails
<1>9. ASSUME NEW r \in Run, Sign(r)
      PROVE  Same(q)
  BY <1>9 DEF Sign
<1>10. ASSUME NEW r \in Run, CrossCheck(r)
      PROVE  Same(q)
  BY <1>10 DEF CrossCheck
<1> QED
  BY <1>1, <1>2, <1>3, <1>4, <1>5, <1>6, <1>7, <1>8, <1>9, <1>10 DEF LineNext

\* Every step keeps the types of the command line's variables.
LEMMA LineTypesStep ==
    ASSUME LineTypes, [LineNext]_<<vars, lineVars>>
    PROVE  LineTypes'
<1> USE DEF LineTypes, vars, world, lineVars, Running, Begin, Read, Emit, Exit, ExitCode
<1>1. CASE UNCHANGED <<vars, lineVars>>
  BY <1>1
<1>2. CASE ReplaceBundle
  BY <1>2, LineAssumption DEF ReplaceBundle
<1>3. ASSUME NEW r \in Run, NEW m \in Modes, NEW result, VerifyTranscript(r, m, result)
      PROVE  LineTypes'
  BY <1>3 DEF VerifyTranscript
<1>4. ASSUME NEW r \in Run, NEW s \in BOOLEAN, VerifyBundle(r, s)
      PROVE  LineTypes'
  BY <1>4 DEF VerifyBundle, Modes
<1>5. ASSUME NEW r \in Run, NEW s \in BOOLEAN, BeginSigning(r, s)
      PROVE  LineTypes'
  BY <1>5 DEF BeginSigning, Modes
<1>6. ASSUME NEW r \in Run, NEW m \in Modes, UnreadableTranscript(r, m) \/ UnreadableBundle(r, m)
      PROVE  LineTypes'
  BY <1>6 DEF UnreadableTranscript, UnreadableBundle
<1>7. ASSUME NEW r \in Run, LoadIdentity(r)
      PROVE  LineTypes'
  BY <1>7 DEF LoadIdentity
<1>8. ASSUME NEW r \in Run, LoadFails(r)
      PROVE  LineTypes'
  BY <1>8 DEF LoadFails
<1>9. ASSUME NEW r \in Run, Sign(r)
      PROVE  LineTypes'
  BY <1>9 DEF Sign
<1>10. ASSUME NEW r \in Run, CrossCheck(r)
      PROVE  LineTypes'
  BY <1>10 DEF CrossCheck
<1> QED
  BY <1>1, <1>2, <1>3, <1>4, <1>5, <1>6, <1>7, <1>8, <1>9, <1>10 DEF LineNext

\* What was signed stays signed, with all it depends on.
LEMMA SignedStays ==
    ASSUME LineInv, TypeOK, [LineNext]_<<vars, lineVars>>, NEW q \in Run, Signed(q)
    PROVE  Same(q) /\ Signed(q)'
<1>1. mode[q] = "sign" /\ exit[q] # None
  BY DEF LineInv, Attested
<1>2. ~Acts(q)
  BY <1>1, ValueAssumption
     DEF Acts, Begin, Running, Modes, VerifyTranscript, VerifyBundle, BeginSigning,
         UnreadableTranscript, UnreadableBundle, LoadIdentity, LoadFails, Sign, CrossCheck
<1> QED
  BY <1>2, LineFrame DEF LineInv, Same, Signed

\* What holds of a run that a step does not concern goes on holding.
LEMMA RunInvStays ==
    ASSUME LineInv, TypeOK, [LineNext]_<<vars, lineVars>>, NEW r \in Run, Same(r)
    PROVE  (Began(r) /\ Verified(r) /\ Attested(r) /\ Accepted(r))'
<1>2. Began(r)' /\ Verified(r)' /\ Attested(r)'
  BY DEF LineInv, Same, Began, Verified, Attested, Signed, Succeeded
<1>3. Accepted(r)'
  <2> SUFFICES ASSUME output[r] # None, output[r].kind = "payload"
               PROVE  Accepted(r)'
    BY DEF Same, Accepted
  <2>1. PICK q \in Run : /\ AttestedBy(output[r].body, q)
                         /\ (mode[r] = "cross-check" /\ exit[r] = PASS) => raw[r] = raw[q]
    BY DEF LineInv, Accepted
  <2>2. (AttestedBy(output[r].body, q))' /\ raw'[q] = raw[q]
    BY <2>1, SignedStays DEF AttestedBy, Same
  <2> QED
    BY <2>1, <2>2 DEF LineInv, Accepted, Same
<1> QED
  BY <1>2, <1>3

\* verify_signed_report returns the payload if all tests pass, else an error.
LEMMA VerdictOnTranscript ==
    ASSUME NEW e
    PROVE  /\ VerifySignedReport(e).kind \in {"error", "payload"}
           /\ VerifySignedReport(e).kind = "payload" =>
                PassesTests(e, VerifierTests) /\ VerifySignedReport(e).body = e.payload
<1>1. CASE PassesTests(e, VerifierTests)
  BY <1>1 DEF VerifySignedReport, Printed
<1>2. CASE ~PassesTests(e, VerifierTests)
  BY <1>2 DEF VerifySignedReport, Printed
<1> QED
  BY <1>1, <1>2

\* A run that verifies a transcript shows only what was signed.
LEMMA VerifyTranscriptKeeps ==
    ASSUME LineInv, TypeOK, NEW r \in Run, NEW m \in Modes, NEW e \in Transcripts,
           VerifyTranscript(r, m, VerifySignedReport(e)),
           [LineNext]_<<vars, lineVars>>
    PROVE  (Began(r) /\ Verified(r) /\ Attested(r) /\ Accepted(r))'
<1> DEFINE result == VerifySignedReport(e)
<1>1. /\ mode[r] = None /\ mode'[r] = m /\ m \in {"transcript", "cross-check"}
      /\ output'[r] = result
      /\ UNCHANGED <<vars, strict, raw>>
  BY DEF VerifyTranscript, Begin, LineInv, LineTypes
<1>2. Began(r)' /\ Verified(r)' /\ Attested(r)'
  BY <1>1, VerdictOnTranscript, ValueAssumption DEF Began, Verified, Attested, Signed, Modes
<1>3. ASSUME result.kind = "payload", m = "cross-check"
      PROVE  exit'[r] = None
  BY <1>1, <1>3 DEF VerifyTranscript, LineInv, Began
<1>4. Accepted(r)'
  <2> SUFFICES ASSUME result.kind = "payload"
               PROVE  Accepted(r)'
    BY <1>1 DEF Accepted
  <2>1. PassesTests(e, VerifierTests) /\ result.body = e.payload
    BY VerdictOnTranscript
  <2>2. PICK q \in Run : AttestedBy(e.payload, q)
    BY <2>1, AcceptedPayload DEF LineInv
  <2>3. Same(q) /\ Signed(q)'
    BY <2>2, SignedStays DEF AttestedBy
  <2>4. (AttestedBy(output[r].body, q))'
    BY <1>1, <2>1, <2>2, <2>3 DEF AttestedBy, Same
  <2> QED
    BY <1>1, <1>3, <2>4, ValueAssumption DEF Accepted
<1> QED
  BY <1>2, <1>4

\* A cross-check passes only for the bytes that were signed.
LEMMA CrossCheckKeeps ==
    ASSUME LineInv, TypeOK, NEW r \in Run, CrossCheck(r),
           [LineNext]_<<vars, lineVars>>
    PROVE  (Began(r) /\ Verified(r) /\ Attested(r) /\ Accepted(r))'
<1>1. /\ mode[r] = "cross-check" /\ mode'[r] = mode[r]
      /\ output'[r] = output[r] /\ raw'[r] = bundle
      /\ exit'[r] = PASS => output[r].body.bundleHash = Sha3(bundle)
  BY DEF CrossCheck, Running, Read, Exit, ExitCode, LineInv, LineTypes, PASS, FAIL, ERROR
<1>2. Began(r)' /\ Verified(r)' /\ Attested(r)'
  BY <1>1, ValueAssumption DEF LineInv, Began, Verified, Attested, Signed, Modes
<1>3. Accepted(r)'
  <2> SUFFICES ASSUME output[r] # None, output[r].kind = "payload"
               PROVE  Accepted(r)'
    BY <1>1 DEF Accepted
  <2>1. PICK q \in Run : AttestedBy(output[r].body, q)
    BY DEF LineInv, Accepted
  <2>2. Same(q) /\ Signed(q)'
    BY <2>1, SignedStays DEF AttestedBy
  <2>3. (AttestedBy(output[r].body, q))'
    BY <1>1, <2>1, <2>2 DEF AttestedBy, Same
  <2>4. exit'[r] = PASS => raw'[r] = raw'[q]
    BY <1>1, <2>1, <2>2, Sha3Injective DEF AttestedBy, Same
  <2> QED
    BY <1>1, <2>3, <2>4 DEF Accepted
<1> QED
  BY <1>2, <1>3

\* A run that signs attests to the bytes it has read.
LEMMA SignKeeps ==
    ASSUME LineInv, TypeOK, NEW r \in Run, Sign(r)
    PROVE  (Began(r) /\ Verified(r) /\ Attested(r) /\ Accepted(r))'
<1>1. /\ mode[r] = "sign" /\ mode'[r] = mode[r] /\ raw[r] \in Bundle
      /\ UNCHANGED <<outcome, raw, strict>> /\ Succeeded(r)
      /\ output'[r] = Printed("signed", SignReport(Report(raw[r], strict[r]), raw[r],
                                          outcome[r].secret, outcome[r].public))
      /\ exit'[r] = ExitCode(Passes(raw[r], strict[r]))
  BY DEF Sign, Running, Emit, Exit, LineInv, LineTypes, Began, vars
<1>2. /\ exit'[r] # None
      /\ exit'[r] = PASS => Passes(raw[r], strict[r])
  BY <1>1, ValueAssumption DEF ExitCode, PASS, FAIL
<1> QED
  BY <1>1, <1>2, ValueAssumption
     DEF Began, Verified, Attested, Accepted, Signed, Printed, Modes, Succeeded

\* The other actions print a plain report or nothing.
LEMMA OthersKeep ==
    ASSUME LineInv, TypeOK, NEW r \in Run,
           \/ \E s \in BOOLEAN : VerifyBundle(r, s) \/ BeginSigning(r, s)
           \/ \E m \in Modes : UnreadableTranscript(r, m) \/ UnreadableBundle(r, m)
           \/ LoadIdentity(r) \/ LoadFails(r)
    PROVE  (Began(r) /\ Verified(r) /\ Attested(r) /\ Accepted(r))'
<1> USE ValueAssumption
    DEF LineInv, LineTypes, Began, Verified, Attested, Accepted, Signed, Modes,
        Running, Begin, Read, Emit, Exit, Printed, world, lineVars, vars
<1>1. ASSUME NEW s \in BOOLEAN, VerifyBundle(r, s)
      PROVE  (Began(r) /\ Verified(r) /\ Attested(r) /\ Accepted(r))'
  <2>1. /\ mode'[r] = "verify" /\ output'[r].kind = "report"
        /\ raw'[r] = bundle /\ strict'[r] = s
        /\ exit'[r] = ExitCode(Passes(bundle, s))
    BY <1>1 DEF VerifyBundle
  <2>2. exit'[r] # None /\ (exit'[r] = PASS => Passes(bundle, s))
    BY <2>1 DEF ExitCode, PASS, FAIL
  <2> QED
    BY <2>1, <2>2
<1>2. ASSUME NEW s \in BOOLEAN, BeginSigning(r, s)
      PROVE  (Began(r) /\ Verified(r) /\ Attested(r) /\ Accepted(r))'
  BY <1>2 DEF BeginSigning, PASS
<1>3. ASSUME NEW m \in Modes, UnreadableTranscript(r, m) \/ UnreadableBundle(r, m)
      PROVE  (Began(r) /\ Verified(r) /\ Attested(r) /\ Accepted(r))'
  BY <1>3 DEF UnreadableTranscript, UnreadableBundle, PASS, ERROR
<1>4. CASE LoadIdentity(r)
  BY <1>4 DEF LoadIdentity, PASS
<1>5. CASE LoadFails(r)
  BY <1>5 DEF LoadFails, PASS, ERROR, KILLED
<1> QED
  BY <1>1, <1>2, <1>3, <1>4, <1>5

\* Every step keeps the invariant of the command line.
LEMMA LineInvStep ==
    ASSUME LineInv, TypeOK, [LineNext]_<<vars, lineVars>>
    PROVE  LineInv'
<1>1. LineTypes'
  BY LineTypesStep DEF LineInv
<1>2. ASSUME NEW r \in Run
      PROVE  (Began(r) /\ Verified(r) /\ Attested(r) /\ Accepted(r))'
  <2>1. CASE ~Acts(r)
    BY <2>1, LineFrame, RunInvStays DEF LineInv
  <2>2. CASE Acts(r)
    BY <2>2, VerifyTranscriptKeeps, CrossCheckKeeps, SignKeeps, OthersKeep DEF Acts
  <2> QED
    BY <2>1, <2>2
<1> QED
  BY <1>1, <1>2 DEF LineInv

\* What each run has read, signed, printed and accepted, at every point of it.
THEOREM LineInvariant == LineSpec => []LineInv
<1>1. LineInv /\ TypeOK /\ [LineNext]_<<vars, lineVars>> => LineInv'
  BY LineInvStep
<1>2. LineSpec => []TypeOK
  BY UsesTheStore, TypeCorrect, PTL
<1> QED
  BY <1>1, <1>2, LineInvInit, PTL DEF LineSpec

\* Every variable of the command line keeps its type.
THEOREM LineTypeCorrect == LineSpec => []LineTypeOK
<1>1. LineInv /\ TypeOK => LineTypeOK
  <2> SUFFICES ASSUME LineInv, TypeOK PROVE LineTypeOK
    OBVIOUS
  <2>1. ASSUME NEW r \in Run, Signed(r) PROVE output[r].body.key \in Run
    <3>1. output[r].body.key = outcome[r].public /\ Succeeded(r)
      BY <2>1, EnvelopeFields DEF LineInv, Attested
    <3>2. outcome[r] \in Outcomes
      BY <3>1 DEF Succeeded, TypeOK
    <3> QED
      BY <3>1, <3>2 DEF Succeeded, Outcomes
  <2> QED
    BY <2>1 DEF LineInv, LineTypes, LineTypeOK, Began, Attested, Signed
<1>2. LineSpec => []TypeOK
  BY UsesTheStore, TypeCorrect, PTL
<1> QED
  BY <1>1, <1>2, LineInvariant, PTL

\* However runs overlap, are killed, and files are replaced and transcripts edited
\* in between, transcript mode accepts only what a signing run has printed.
THEOREM AcceptedAttested == LineSpec => []AcceptedIsAttested
<1>1. LineInv => AcceptedIsAttested
  BY DEF LineInv, Accepted, AttestedBy, AcceptedIsAttested
<1> QED
  BY <1>1, LineInvariant, PTL

-----------------------------------------------------------------------------
(* With a key pair that matches, that is, if signing runs do not overlap.  *)

\* What is signed under a pair is accepted.
LEMMA PairSigns ==
    ASSUME LineInv, TypeOK, PairMatches, NEW r \in Run, Signed(r)
    PROVE  VerifierAccepts(output[r].body)
<1> DEFINE e == output[r].body
<1>1. /\ e = SignReport(Report(raw[r], strict[r]), raw[r], outcome[r].secret, outcome[r].public)
      /\ Succeeded(r) /\ raw[r] \in Bundle /\ strict[r] \in BOOLEAN
  BY DEF LineInv, LineTypes, Attested
<1>2. outcome[r].public \in Run /\ outcome[r].secret = outcome[r].public
  <2>1. outcome[r] \in Outcomes
    BY <1>1 DEF Succeeded, TypeOK
  <2> QED
    BY <1>1, <2>1 DEF Succeeded, Outcomes, PairMatches
<1>3. /\ e.payload \notin {Undecodable, NotJson}
      /\ e.signature \notin {Undecodable, WrongLength} /\ e.report # NotJson
  BY <1>1, <1>2, ValueAssumption
<1>4. e.key \notin {Undecodable, WrongLength}
  BY <1>1, <1>2, EnvelopeFields, LineAssumption
<1> HIDE DEF e
<1>5. /\ e.version = ENVELOPE_VERSION /\ e.algorithm = SIGNATURE_ALGORITHM
      /\ e.fingerprint = Sha3(e.key)
      /\ e.payloadHash = Sha3(e.payload)
      /\ e.signature = Signature(e.key, e.payload)
      /\ e.payload.domain = SIGNED_PAYLOAD_DOMAIN
      /\ e.payload.fingerprint = e.fingerprint /\ e.loose = {}
  BY <1>1, <1>2, EnvelopeFields
<1>6. VerifierAccepts(e)
  BY <1>3, <1>4, <1>5, VerifierMakesAllTests DEF Holds, VerifierAccepts, Parses
<1> QED
  BY <1>6 DEF e

\* If signing runs do not overlap, exit code 0 means what main.rs:27 says.
THEOREM ExitZeroVerified ==
    ASSUME ~Overlap
    PROVE  LineSpec => []ExitZeroMeansVerified
<1>1. LineInv /\ TypeOK /\ PairMatches => ExitZeroMeansVerified
  <2> SUFFICES ASSUME LineInv, TypeOK, PairMatches, NEW r \in Run, Signed(r)
               PROVE  /\ VerifierAccepts(output[r].body)
                      /\ output[r].body.payload.report = Report(raw[r], strict[r])
                      /\ output[r].body.payload.bundleHash = Sha3(raw[r])
    BY DEF LineInv, Verified, ExitZeroMeansVerified
  <2> QED
    BY PairSigns, EnvelopeFields DEF LineInv, Attested
<1>2. LineSpec => []TypeOK
  BY UsesTheStore, TypeCorrect, PTL
<1>3. ~Overlap
  OBVIOUS
<1>4. LineSpec => []PairMatches
  BY <1>3, UsesTheStore, SequentialPairMatches, PTL
<1> QED
  BY <1>1, <1>2, <1>4, LineInvariant, PTL

\* If signing runs do not overlap, the three verifiers of the format accept the same
\* transcripts, whatever was edited, but for those not written as Rust writes them:
\* these Rust alone refuses.
THEOREM VerifiersDiffer ==
    ASSUME ~Overlap
    PROVE  LineSpec => []VerifiersDifferInForm
<1>1. ASSUME LineInv, PairMatches, NEW e \in Transcripts,
             e.signature = Signature(e.key, e.payload), e.key # WrongLength,
             e.signature \notin {Undecodable, WrongLength},
             e.fingerprint = Sha3(e.key)
      PROVE  Holds(e, "domain") /\ Holds(e, "payload fingerprint")
  <2>1. PICK q \in Run : /\ Signed(q) /\ e.key = outcome[q].secret
                         /\ e.payload = output[q].body.payload
    BY <1>1, VerifiesMeansSigned DEF LineInv
  <2>2. /\ e.payload.domain = SIGNED_PAYLOAD_DOMAIN
        /\ e.payload.fingerprint = Sha3(outcome[q].public)
        /\ outcome[q].public = outcome[q].secret
    BY <1>1, <2>1, EnvelopeFields DEF LineInv, Attested, PairMatches
  <2> QED
    BY <1>1, <2>1, <2>2 DEF Holds
<1>2. ASSUME LineInv, PairMatches, NEW e \in Transcripts,
             Holds(e, "key atob"), Holds(e, "signature atob"), Holds(e, "key length"),
             Holds(e, "signature length"), Holds(e, "fingerprint"), Holds(e, "signature")
      PROVE  Holds(e, "domain") /\ Holds(e, "payload fingerprint")
  BY <1>1, <1>2 DEF Holds
<1>3. ASSUME NEW e
      PROVE  /\ Holds(e, "version") <=> e.version = ENVELOPE_VERSION
             /\ Holds(e, "algorithm") <=> e.algorithm = SIGNATURE_ALGORITHM
  BY DEF Holds
<1>4. ASSUME LineInv, PairMatches, NEW e \in Transcripts
      PROVE  LET asWritten == Parses(e) /\ e.loose = {}
             IN  /\ VerifierAccepts(e) <=> asWritten /\ PlaygroundAccepts(e)
                 /\ VerifierAccepts(e) <=> /\ asWritten /\ ExampleAccepts(e)
                                           /\ e.version = ENVELOPE_VERSION
                                           /\ e.algorithm = SIGNATURE_ALGORITHM
  <2>1. e.loose \subseteq {"key", "signature", "payload"}
    BY <1>4, EditsLoosen DEF LineInv
  <2>2. e.loose = {} <=> /\ "key" \notin e.loose /\ "signature" \notin e.loose
                         /\ "payload" \notin e.loose
    BY <2>1
  <2>3. /\ Holds(e, "key base64") <=> Holds(e, "key atob") /\ "key" \notin e.loose
        /\ Holds(e, "signature base64")
                <=> Holds(e, "signature atob") /\ "signature" \notin e.loose
        /\ Holds(e, "payload base64")
                <=> Holds(e, "payload atob") /\ "payload" \notin e.loose
    BY DEF Holds
  <2> QED
    BY <1>2, <1>3, <1>4, <2>2, <2>3, VerifierMakesAllTests, PlaygroundMakesTheseTests,
       ExampleMakesTheseTests DEF VerifierAccepts
<1>5. ~Overlap
  OBVIOUS
<1>6. LineSpec => []PairMatches
  BY <1>5, UsesTheStore, SequentialPairMatches, PTL
<1>7. LineInv /\ PairMatches => VerifiersDifferInForm
  BY <1>4 DEF VerifiersDifferInForm
<1> QED
  BY <1>6, <1>7, LineInvariant, PTL

\* If signing runs do not overlap, the invocations of the command line use the key
\* directory as a write-once register, whatever else they and others do meanwhile.
THEOREM LineRefinesRegister ==
    ASSUME ~Overlap
    PROVE  LineSpec => ImplementsRegister
<1>1. ~Overlap
  OBVIOUS
<1> QED
  BY <1>1, UsesTheStore, RegisterRefinement, PTL

-----------------------------------------------------------------------------
(* What is proved of the directory, for the invocations of the program.    *)

\* However invocations of all modes overlap and are killed: the secret key file
\* never lacks its public one, one creator is harmless, and a settled directory
\* never changes again.
THEOREM LineKeepsDirectory ==
    LineSpec => /\ [](SecretImpliesPublic /\ SoleCreatorSafe)
                /\ SettledIsFinal
BY UsesTheStore, SecretAfterPublic, SoleCreator, SettledFinal, PTL

\* If signing runs do not overlap, all invocations sign with one matching pair,
\* which is what verifier_identity.rs:5 promises of the fingerprint.
THEOREM LineKeepsIdentity ==
    ASSUME ~Overlap
    PROVE  LineSpec => [](PairMatches /\ FingerprintStable)
<1>1. ~Overlap
  OBVIOUS
<1> QED
  BY <1>1, UsesTheStore, SequentialPairMatches, SequentialFingerprintStable, PTL

-----------------------------------------------------------------------------
(* An invocation ends, and what it has printed stands.                     *)

\* A run that has ended takes no step.
LEMMA EndedIsIdle ==
    ASSUME LineInv, NEW r \in Run, exit[r] # None
    PROVE  ~Acts(r)
<1>1. mode[r] # None
  BY DEF LineInv, Began
<1> QED
  BY <1>1 DEF Acts, Begin, Running, VerifyTranscript, VerifyBundle, BeginSigning,
       UnreadableTranscript, UnreadableBundle, LoadIdentity, LoadFails, Sign, CrossCheck

\* The exit code, the report or envelope, and the bytes a run has read never change
\* after it has ended, whatever the other runs and the owner of the files do.
THEOREM ResultStands ==
    LineSpec => [][\A r \in Run : exit[r] # None => Same(r)]_<<vars, lineVars>>
<1>1. LineInv /\ TypeOK /\ [LineNext]_<<vars, lineVars>>
        => [\A r \in Run : exit[r] # None => Same(r)]_<<vars, lineVars>>
  BY EndedIsIdle, LineFrame DEF LineInv
<1>2. LineSpec => []TypeOK
  BY UsesTheStore, TypeCorrect, PTL
<1> QED
  BY <1>1, <1>2, LineInvariant, PTL DEF LineSpec

\* How many steps of its own an invocation makes at most: it starts, a signing run
\* calls the file system and then signs, a cross-check reads the bundle.
StepsAhead(r) ==
    IF exit[r] # None THEN 0
    ELSE IF mode[r] = None THEN 9
    ELSE IF mode[r] = "sign" THEN 1 + CallsLeft(r)
    ELSE 1

\* A run never makes more than seven calls.
LEMMA CallsBounded == \A label \in Labels : CallsFrom[label] \in 0..7
BY CallsTable DEF Labels

\* What a run does leaves it fewer steps ahead.
LEMMA ActsDescend ==
    ASSUME LineInv, TypeOK, TypeOK', NEW r \in Run, Acts(r)
    PROVE  /\ StepsAhead(r) \in 1..9 /\ StepsAhead(r)' \in 0..8
           /\ StepsAhead(r)' < StepsAhead(r)
<1>0. CallsLeft(r) \in 0..7 /\ CallsLeft(r)' \in 0..7
  <2>1. pc[r] \in Labels /\ pc'[r] \in Labels
    BY DEF TypeOK
  <2> QED
    BY <2>1, CallsBounded DEF CallsLeft
<1>1. ASSUME mode[r] = None, exit[r] = None, mode'[r] # None
      PROVE  /\ StepsAhead(r) \in 1..9 /\ StepsAhead(r)' \in 0..8
             /\ StepsAhead(r)' < StepsAhead(r)
  BY <1>0, <1>1 DEF StepsAhead
<1>2. ASSUME mode[r] # None, exit[r] = None, exit'[r] # None
      PROVE  /\ StepsAhead(r) \in 1..9 /\ StepsAhead(r)' \in 0..8
             /\ StepsAhead(r)' < StepsAhead(r)
  BY <1>0, <1>2 DEF StepsAhead
<1>3. CASE LoadIdentity(r)
  <2>1. /\ mode[r] = "sign" /\ exit[r] = None /\ mode' = mode /\ exit' = exit
        /\ Step(r) \/ Abort(r)
    BY <1>3 DEF LoadIdentity, Running, lineVars
  <2>2. PICK label : Advance(r, label)
    BY <2>1, CallAdvances
  <2>3. CallsLeft(r)' < CallsLeft(r)
    BY <2>2 DEF Advance, Later, CallsLeft, TypeOK
  <2>4. mode[r] # None
    BY <2>1, ValueAssumption DEF Modes
  <2>5. StepsAhead(r) = 1 + CallsLeft(r) /\ StepsAhead(r)' = 1 + CallsLeft(r)'
    BY <2>1, <2>4 DEF StepsAhead
  <2> QED
    BY <1>0, <2>3, <2>5
<1>4. ASSUME NEW m \in Modes, Begin(r, m)
      PROVE  mode[r] = None /\ exit[r] = None /\ mode'[r] # None
  BY <1>4, ValueAssumption DEF Begin, LineInv, LineTypes, Began
<1>5. ASSUME NEW m \in Modes, Running(r, m), NEW code \in {PASS, FAIL, ERROR, KILLED},
             Exit(r, code)
      PROVE  mode[r] # None /\ exit[r] = None /\ exit'[r] # None
  BY <1>5, ValueAssumption DEF Running, Exit, LineInv, LineTypes, Modes
<1>6. ASSUME NEW m \in Modes,
             \/ \E e \in Transcripts : VerifyTranscript(r, m, VerifySignedReport(e))
             \/ UnreadableTranscript(r, m) \/ UnreadableBundle(r, m)
      PROVE  Begin(r, m)
  BY <1>6 DEF VerifyTranscript, UnreadableTranscript, UnreadableBundle
<1>7. ASSUME NEW s \in BOOLEAN, VerifyBundle(r, s) \/ BeginSigning(r, s)
      PROVE  \E m \in Modes : Begin(r, m)
  BY <1>7 DEF VerifyBundle, BeginSigning, Modes
<1>8. CASE LoadFails(r) \/ Sign(r) \/ CrossCheck(r)
  <2>1. \E m \in Modes, code \in {PASS, FAIL, ERROR, KILLED} : Running(r, m) /\ Exit(r, code)
    BY <1>8 DEF LoadFails, Sign, CrossCheck, ExitCode, Modes
  <2> QED
    BY <1>2, <1>5, <2>1
<1>9. ASSUME NEW m \in Modes, Begin(r, m)
      PROVE  /\ StepsAhead(r) \in 1..9 /\ StepsAhead(r)' \in 0..8
             /\ StepsAhead(r)' < StepsAhead(r)
  BY <1>1, <1>4, <1>9
<1> QED
  BY <1>3, <1>6, <1>7, <1>8, <1>9 DEF Acts

\* Only one run acts in a step.
LEMMA OneActs ==
    ASSUME LineInv, TypeOK, NEW r \in Run, Acts(r), NEW q \in Run \ {r}
    PROVE  Same(q) /\ pc'[q] = pc[q]
<1> USE DEF LineInv, LineTypes, Same, vars, world, lineVars, Begin, Read, Emit, Exit
<1>1. ASSUME NEW m \in Modes, NEW e \in Transcripts,
             VerifyTranscript(r, m, VerifySignedReport(e))
      PROVE  Same(q) /\ pc'[q] = pc[q]
  BY <1>1 DEF VerifyTranscript
<1>2. ASSUME NEW s \in BOOLEAN, VerifyBundle(r, s) \/ BeginSigning(r, s)
      PROVE  Same(q) /\ pc'[q] = pc[q]
  BY <1>2 DEF VerifyBundle, BeginSigning
<1>3. ASSUME NEW m \in Modes, UnreadableTranscript(r, m) \/ UnreadableBundle(r, m)
      PROVE  Same(q) /\ pc'[q] = pc[q]
  BY <1>3 DEF UnreadableTranscript, UnreadableBundle
<1>4. CASE LoadIdentity(r)
  <2>1. outcome'[q] = outcome[q]
    BY <1>4, StoreFrame DEF LoadIdentity
  <2>2. PICK label : pc' = [pc EXCEPT ![r] = label]
    BY <1>4, CallAdvances DEF LoadIdentity, Advance
  <2> QED
    BY <1>4, <2>1, <2>2 DEF LoadIdentity, TypeOK
<1>5. CASE LoadFails(r)
  BY <1>5 DEF LoadFails
<1>6. CASE Sign(r)
  BY <1>6 DEF Sign
<1>7. CASE CrossCheck(r)
  BY <1>7 DEF CrossCheck
<1> QED
  BY <1>1, <1>2, <1>3, <1>4, <1>5, <1>6, <1>7 DEF Acts

\* Every step of the system is one of a single invocation, which it brings closer to
\* its end, or a replacement of the bundle file: an invocation takes nine steps at
\* most, whatever is replaced and however the others run.
OneStepOn ==
    \/ ReplaceBundle
    \/ \E r \in Run : /\ StepsAhead(r) \in 1..9 /\ StepsAhead(r)' \in 0..8
                      /\ StepsAhead(r)' < StepsAhead(r)
                      /\ \A q \in Run \ {r} : Same(q) /\ pc'[q] = pc[q]

\* However invocations overlap, each step of one brings that one closer to its end.
THEOREM LineDescends == LineSpec => [][OneStepOn]_<<vars, lineVars>>
<1>1. ASSUME LineInv, TypeOK, TypeOK', LineNext
      PROVE  OneStepOn
  <2>1. ReplaceBundle \/ \E r \in Run : Acts(r)
    BY <1>1 DEF LineNext, Acts
  <2>2. ASSUME NEW r \in Run, Acts(r)
        PROVE  OneStepOn
    BY <1>1, <2>2, ActsDescend, OneActs DEF OneStepOn
  <2> QED
    BY <2>1, <2>2 DEF OneStepOn
<1>2. LineInv /\ TypeOK /\ TypeOK' /\ [LineNext]_<<vars, lineVars>>
        => [OneStepOn]_<<vars, lineVars>>
  BY <1>1
<1>3. LineSpec => []TypeOK
  BY UsesTheStore, TypeCorrect, PTL
<1> QED
  BY <1>2, <1>3, LineInvariant, PTL DEF LineSpec

-----------------------------------------------------------------------------
(* What exit code 0 of a cross-check does mean.  It is not that the bundle *)
(* verifies (CrossCheckVerifiesBundle is refuted).                         *)

\* A run that is cross-checking, or has passed, shows an accepted payload.
Showing(r) ==
    (mode[r] = "cross-check" /\ exit[r] \in {None, PASS}) =>
        output[r] # None /\ output[r].kind = "payload"

\* A payload that is accepted is not mistaken for no output.
LEMMA PayloadIsShown ==
    ASSUME LineInv, TypeOK, NEW e \in Transcripts,
           VerifySignedReport(e).kind = "payload"
    PROVE  VerifySignedReport(e) # None
<1>1. /\ PassesTests(e, VerifierTests)
      /\ VerifySignedReport(e) = Printed("payload", e.payload)
  BY VerdictOnTranscript DEF VerifySignedReport
<1>2. PICK q \in Run : AttestedBy(e.payload, q)
  BY <1>1, AcceptedPayload DEF LineInv
<1>3. /\ Succeeded(q) /\ raw[q] \in Bundle /\ strict[q] \in BOOLEAN
      /\ output[q].body = SignReport(Report(raw[q], strict[q]), raw[q],
                                     outcome[q].secret, outcome[q].public)
      /\ output[q].body.payload = e.payload
  BY <1>2 DEF AttestedBy, Attested, LineInv, LineTypes
<1>4. outcome[q].public \in Run /\ outcome[q].secret \in Run
  <2>1. outcome[q] \in Outcomes
    BY <1>3 DEF Succeeded, TypeOK
  <2> QED
    BY <1>3, <2>1 DEF Succeeded, Outcomes
<1> QED
  BY <1>1, <1>3, <1>4, ValueAssumption

\* Each step keeps that of every run.
LEMMA ShowingStep ==
    ASSUME LineInv, TypeOK, [LineNext]_<<vars, lineVars>>, NEW r \in Run, Showing(r)
    PROVE  Showing(r)'
<1> USE ValueAssumption DEF LineInv, LineTypes
<1>1. CASE ~Acts(r)
  BY <1>1, LineFrame DEF Same, Showing
<1>2. ASSUME NEW m \in Modes, NEW e \in Transcripts,
             VerifyTranscript(r, m, VerifySignedReport(e))
      PROVE  Showing(r)'
  <2> DEFINE result == VerifySignedReport(e)
  <2>1. /\ mode'[r] = m /\ output'[r] = result
        /\ result.kind \in {"error", "payload"}
        /\ result.kind = "error" => exit'[r] = FAIL
    BY <1>2, VerdictOnTranscript DEF VerifyTranscript, Begin, Exit
  <2>2. result.kind = "payload" => result # None
    BY <1>2, PayloadIsShown
  <2> HIDE DEF result
  <2> QED
    BY <2>1, <2>2 DEF Showing, PASS, FAIL
<1>3. ASSUME NEW s \in BOOLEAN, VerifyBundle(r, s) \/ BeginSigning(r, s)
      PROVE  Showing(r)'
  BY <1>3 DEF VerifyBundle, BeginSigning, Begin, Showing
<1>4. ASSUME NEW m \in Modes, UnreadableTranscript(r, m) \/ UnreadableBundle(r, m)
      PROVE  Showing(r)'
  BY <1>4 DEF UnreadableTranscript, UnreadableBundle, Exit, Showing, ERROR, PASS
<1>5. CASE LoadIdentity(r) \/ LoadFails(r) \/ Sign(r)
  BY <1>5 DEF LoadIdentity, LoadFails, Sign, Running, lineVars, world, Showing
<1>6. CASE CrossCheck(r)
  BY <1>6 DEF CrossCheck, Running, Showing
<1> QED
  BY <1>1, <1>2, <1>3, <1>4, <1>5, <1>6 DEF Acts

\* Exit code 0 of a cross-check means that the bytes it read are the bundle that was
\* verified by the run that signed, so that the verdict it shows is the verdict on
\* these bytes: they pass if, and only if, the transcript says so.
CrossCheckTellsVerdict ==
    \A r \in Run : (mode[r] = "cross-check" /\ exit[r] = PASS) =>
        LET report == output[r].body.report
        IN  /\ raw[r] \in Bundle
            /\ report = Report(raw[r], report.strict)
            /\ report.passed <=> Passes(raw[r], report.strict)

\* However bundles are replaced and transcripts edited, the verdict that a passed
\* cross-check shows is the one on the bytes it compared.
THEOREM CrossCheckVerdict == LineSpec => []CrossCheckTellsVerdict
<1> DEFINE Shown == \A r \in Run : Showing(r)
<1>1. LineInit => Shown
  BY ValueAssumption DEF LineInit, Showing, Modes
<1>2. LineInv /\ TypeOK /\ Shown /\ [LineNext]_<<vars, lineVars>> => Shown'
  BY ShowingStep
<1>3. LineInv /\ Shown => CrossCheckTellsVerdict
  <2> SUFFICES ASSUME LineInv, Shown, NEW r \in Run,
                      mode[r] = "cross-check", exit[r] = PASS
               PROVE  LET report == output[r].body.report
                      IN  /\ raw[r] \in Bundle
                          /\ report = Report(raw[r], report.strict)
                          /\ report.passed <=> Passes(raw[r], report.strict)
    BY DEF CrossCheckTellsVerdict
  <2>1. PICK q \in Run : AttestedBy(output[r].body, q) /\ raw[r] = raw[q]
    BY DEF Showing, LineInv, Accepted
  <2>2. raw[q] \in Bundle
    BY <2>1 DEF AttestedBy, LineInv, Attested
  <2>3. output[r].body.report = Report(raw[r], strict[q])
    BY <2>1 DEF AttestedBy
  <2> QED
    BY <2>1, <2>2, <2>3 DEF Report
<1>4. LineSpec => []TypeOK
  BY UsesTheStore, TypeCorrect, PTL
<1> HIDE DEF Shown
<1> QED
  BY <1>1, <1>2, <1>3, <1>4, LineInvariant, PTL DEF LineSpec
=============================================================================
