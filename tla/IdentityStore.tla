--------------------------- MODULE IdentityStore ---------------------------
(***************************************************************************)
(* The verifier's signing identity on disk (verifier_identity.rs).  Every  *)
(* run of the CLI with --sign calls load_or_create on the key directory:   *)
(* it tests whether the two files exist, then either refuses, or reads     *)
(* both, or generates a keypair and writes both.  Nothing locks the        *)
(* directory, so runs may overlap; a run may be killed, or a call to the   *)
(* file system may fail, between any two steps.                            *)
(*                                                                         *)
(* One action is one call to the file system.  fs::write and the write of  *)
(* the secret file open with truncation and then write, hence the two      *)
(* steps Open/Write and the content Torn in between.  The keypair a run    *)
(* generates is named by the run, the same name for both halves.           *)
(***************************************************************************)
CONSTANTS
    Run,        \* invocations of the verifier with --sign on one directory
    None,       \* no outcome yet, nothing read yet
    Absent,     \* the file does not exist
    Torn,       \* the file was truncated and not written yet
    Overlap     \* whether two runs may execute at the same time

ASSUME FileAssumption ==
    /\ Absent # Torn
    /\ {None, Absent, Torn} \cap Run = {}
    /\ Overlap \in BOOLEAN

VARIABLES
    pub,        \* content of identity.public.b64
    sec,        \* content of identity.secret.b64
    pc,         \* per run: its next step
    sawPub,     \* per run: pub_exists
    readPub,    \* per run: the public key file as it was read
    generated,  \* the runs that have generated a keypair
    outcome     \* per run: what load_or_create returned

files == <<pub, sec>>

vars == <<pub, sec, pc, sawPub, readPub, generated, outcome>>

Content == Run \cup {Absent, Torn}

Loaded(p, s) == [kind |-> "loaded", public |-> p, secret |-> s]
Created(r) == [kind |-> "created", public |-> r, secret |-> r]
Failed(kind) == [kind |-> kind, public |-> None, secret |-> None]

Succeeded(r) == outcome[r] # None /\ outcome[r].kind \in {"loaded", "created"}

Active(r) == pc[r] \notin {"start", "done"}

Init == /\ pub = Absent /\ sec = Absent
        /\ pc = [r \in Run |-> "start"]
        /\ sawPub = [r \in Run |-> FALSE]
        /\ readPub = [r \in Run |-> None]
        /\ generated = {}
        /\ outcome = [r \in Run |-> None]

GoTo(r, label) == pc' = [pc EXCEPT ![r] = label]

Return(r, result) == /\ GoTo(r, "done")
                     /\ outcome' = [outcome EXCEPT ![r] = result]

-----------------------------------------------------------------------------
(* let pub_exists = pub_path.exists(); let sec_exists = sec_path.exists(); *)

TestPublic(r) ==
    /\ pc[r] = "start"
    /\ Overlap \/ \A q \in Run : ~Active(q)
    /\ sawPub' = [sawPub EXCEPT ![r] = pub # Absent]
    /\ GoTo(r, "test_secret")
    /\ UNCHANGED <<files, readPub, generated, outcome>>

\* Broken variants of TestSecret: a partial keypair is tried again later, it is
\* replaced by a new one, only the file it lacks is written, and a whole keypair is
\* replaced.
TestSecretRetries(r) ==
    /\ pc[r] = "test_secret"
    /\ GoTo(r, IF sawPub[r] # (sec # Absent) THEN "start"
               ELSE IF sawPub[r] THEN "read_public" ELSE "generate")
    /\ UNCHANGED <<files, sawPub, readPub, generated, outcome>>

TestSecretRegenerates(r) ==
    /\ pc[r] = "test_secret"
    /\ GoTo(r, IF sawPub[r] /\ sec # Absent THEN "read_public" ELSE "generate")
    /\ UNCHANGED <<files, sawPub, readPub, generated, outcome>>

TestSecretCompletes(r) ==
    /\ pc[r] = "test_secret"
    /\ GoTo(r, IF ~sawPub[r] THEN "generate"
               ELSE IF sec # Absent THEN "read_public" ELSE "open_secret")
    /\ generated' = IF pc'[r] = "open_secret" THEN generated \cup {r} ELSE generated
    /\ UNCHANGED <<files, sawPub, readPub, outcome>>

TestSecretReplaces(r) ==
    /\ pc[r] = "test_secret"
    /\ GoTo(r, "generate")
    /\ UNCHANGED <<files, sawPub, readPub, generated, outcome>>

TestSecret(r) ==
    /\ pc[r] = "test_secret"
    /\ \/ /\ sawPub[r] # (sec # Absent)
          /\ Return(r, Failed("partial"))
       \/ /\ sawPub[r] /\ sec # Absent
          /\ GoTo(r, "read_public")
          /\ UNCHANGED outcome
       \/ /\ ~sawPub[r] /\ sec = Absent
          /\ GoTo(r, "generate")
          /\ UNCHANGED outcome
    /\ UNCHANGED <<files, sawPub, readPub, generated>>

-----------------------------------------------------------------------------
(* Both files exist: read both, then decode both.                          *)

ReadPublic(r) ==
    /\ pc[r] = "read_public"
    /\ readPub' = [readPub EXCEPT ![r] = pub]
    /\ GoTo(r, "read_secret")
    /\ UNCHANGED <<files, sawPub, generated, outcome>>

\* Broken variants of ReadSecret: neither half, or only the public half, is
\* checked for its length.
ReadSecretUnchecked(r) ==
    /\ pc[r] = "read_secret"
    /\ Return(r, Loaded(readPub[r], sec))
    /\ UNCHANGED <<files, sawPub, readPub, generated>>

ReadSecretHalfChecked(r) ==
    /\ pc[r] = "read_secret"
    /\ Return(r, IF readPub[r] \in Run THEN Loaded(readPub[r], sec)
                 ELSE Failed("invalid"))
    /\ UNCHANGED <<files, sawPub, readPub, generated>>

\* A file that is torn or gone does not give a key of the right length.  Nothing
\* compares the two halves with each other.
ReadSecret(r) ==
    /\ pc[r] = "read_secret"
    /\ Return(r, IF {readPub[r], sec} \subseteq Run THEN Loaded(readPub[r], sec)
                 ELSE Failed("invalid"))
    /\ UNCHANGED <<files, sawPub, readPub, generated>>

-----------------------------------------------------------------------------
(* Neither exists: create the directory, generate, write public, secret.   *)

\* Broken variant of Generate: the secret key is written first.
GenerateSecretFirst(r) ==
    /\ pc[r] = "generate"
    /\ generated' = generated \cup {r}
    /\ GoTo(r, "open_secret")
    /\ UNCHANGED <<files, sawPub, readPub, outcome>>

Generate(r) ==
    /\ pc[r] = "generate"
    /\ generated' = generated \cup {r}
    /\ GoTo(r, "open_public")
    /\ UNCHANGED <<files, sawPub, readPub, outcome>>

OpenPublic(r) ==
    /\ pc[r] = "open_public"
    /\ pub' = Torn
    /\ GoTo(r, "write_public")
    /\ UNCHANGED <<sec, sawPub, readPub, generated, outcome>>

WritePublic(r) ==
    /\ pc[r] = "write_public"
    /\ pub' = r
    /\ GoTo(r, "open_secret")
    /\ UNCHANGED <<sec, sawPub, readPub, generated, outcome>>

OpenSecret(r) ==
    /\ pc[r] = "open_secret"
    /\ sec' = Torn
    /\ GoTo(r, "write_secret")
    /\ UNCHANGED <<pub, sawPub, readPub, generated, outcome>>

\* The run returns the keypair it has in memory, not the files.
WriteSecret(r) ==
    /\ pc[r] = "write_secret"
    /\ sec' = r
    /\ Return(r, Created(r))
    /\ UNCHANGED <<pub, sawPub, readPub, generated>>

\* The run is killed, or its next call to the file system fails: the files
\* stay as they are.
Abort(r) ==
    /\ Active(r)
    /\ Return(r, Failed("aborted"))
    /\ UNCHANGED <<files, sawPub, readPub, generated>>

-----------------------------------------------------------------------------

Step(r) == \/ TestPublic(r) \/ TestSecret(r)
           \/ ReadPublic(r) \/ ReadSecret(r)
           \/ Generate(r) \/ OpenPublic(r) \/ WritePublic(r)
           \/ OpenSecret(r) \/ WriteSecret(r)

Next == \E r \in Run : Step(r) \/ Abort(r)

Spec == Init /\ [][Next]_vars

\* A started run is an operating system process that keeps being scheduled.
FairSpec == Spec /\ \A r \in Run : WF_vars(Active(r) /\ Step(r))

-----------------------------------------------------------------------------
(* Properties.                                                             *)

Labels == {"start", "test_secret", "read_public", "read_secret", "generate",
           "open_public", "write_public", "open_secret", "write_secret", "done"}

Outcomes ==
    [kind : {"loaded", "created"}, public : Run, secret : Run]
      \cup [kind : {"partial", "invalid", "aborted"}, public : {None}, secret : {None}]

ASSUME OutcomeAssumption == None \notin Outcomes

\* The types of the directory and of the runs' local state; in particular an
\* identity that is returned is made of two whole keys.
TypeOK == /\ pub \in Content /\ sec \in Content
          /\ pc \in [Run -> Labels]
          /\ sawPub \in [Run -> BOOLEAN]
          /\ readPub \in [Run -> Content \cup {None}]
          /\ generated \subseteq Run
          /\ outcome \in [Run -> Outcomes \cup {None}]

\* Every interleaving and every crash leaves the directory with no secret key
\* file that lacks its public key file: the half that refuses all later runs
\* (PartialKeypair) is always the public one.
SecretImpliesPublic == sec # Absent => pub # Absent

\* The runs that have decided, or may still decide, to write the files.
MayCreate(r) ==
    \/ pc[r] \in {"generate", "open_public", "write_public", "open_secret",
                  "write_secret"}
    \/ pc[r] = "test_secret" /\ ~sawPub[r]

Settled == pub # Absent /\ \A r \in Run : ~MayCreate(r)

\* Never overwrite: once there is a public key file and the runs that found
\* none are over, the directory never changes again, whether it is complete,
\* torn or half empty: no later run ever gets to the point of writing.
SettledIsFinal == [][Settled => Settled' /\ UNCHANGED files]_vars

\* The secret key a run signs with belongs to the public key it publishes
\* (verifier_identity.rs:5 promises that the signatures of an identity are bound
\* to its fingerprint).
PairMatches ==
    \A r \in Run : Succeeded(r) => outcome[r].public = outcome[r].secret

\* All runs that get an identity get the same one
\* (spec/h33-signed-verify-report-v0.1.md:148: it is generated once and reused).
FingerprintStable ==
    \A q, r \in Run : Succeeded(q) /\ Succeeded(r) =>
        outcome[q].public = outcome[r].public

\* One creator is harmless: while a single run has generated a keypair, every
\* overlapping run is refused or gets exactly that keypair, never a mixture.
SoleCreatorSafe ==
    \A c \in Run : generated = {c} =>
        \A r \in Run : Succeeded(r) =>
            outcome[r].public = c /\ outcome[r].secret = c

\* Every run that started ends, even if others are killed while they hold the
\* directory half written.
RunsEnd == \A r \in Run : Active(r) ~> pc[r] = "done"

\* Runs that do not overlap use the directory as a write-once register: the
\* identity is there from the moment the secret key file is whole.
Register == INSTANCE IdentityRegister WITH
    identity <- IF pub = Absent THEN None
                ELSE IF pub \in Run /\ sec = pub THEN pub
                ELSE IF \E r \in Run : MayCreate(r) THEN None
                ELSE "spoiled",
    answer <- [r \in Run |-> IF outcome[r] = None THEN None
                             ELSE IF Succeeded(r) THEN outcome[r].public
                             ELSE "refused"]

ImplementsRegister == Register!RegisterSpec
=============================================================================
