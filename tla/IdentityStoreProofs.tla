------------------------ MODULE IdentityStoreProofs ------------------------
(***************************************************************************)
(* Proofs about the key directory for any number of runs.  DirectoryInv    *)
(* holds however the runs overlap; SequentialInv needs them not to.        *)
(***************************************************************************)
EXTENDS IdentityStore, Integers, TLAPS

AfterGenerate == {"open_public", "write_public", "open_secret", "write_secret"}

\* Every key in the files was generated.
FilesInv == /\ pub \in generated \cup {Absent, Torn}
            /\ sec \in generated \cup {Absent, Torn}
            /\ SecretImpliesPublic

\* What a run knows about the files still holds of them: they never disappear.
RunInv(r) ==
    /\ sawPub[r] => pub # Absent
    /\ pc[r] \in AfterGenerate => r \in generated
    /\ pc[r] \in {"write_public", "open_secret", "write_secret"} => pub # Absent
    /\ pc[r] \in {"read_public", "read_secret"} => pub # Absent /\ sec # Absent
    /\ pc[r] = "read_secret" => readPub[r] \in generated \cup {Torn}
    /\ Succeeded(r) => /\ outcome[r].public \in generated
                       /\ outcome[r].secret \in generated

DirectoryInv == TypeOK /\ FilesInv /\ \A r \in Run : RunInv(r)

-----------------------------------------------------------------------------

\* The directory is empty and no run has begun.
LEMMA DirectoryInvInit == Init => DirectoryInv
BY FileAssumption
   DEF Init, DirectoryInv, TypeOK, Content, Labels, FilesInv, SecretImpliesPublic,
       RunInv, AfterGenerate, Succeeded

\* Every step of any run keeps what the runs know of the directory.
LEMMA DirectoryInvStep ==
    ASSUME DirectoryInv, [Next]_vars
    PROVE  DirectoryInv'
<1> USE FileAssumption, OutcomeAssumption
    DEF DirectoryInv, TypeOK, Content, Labels, FilesInv, SecretImpliesPublic,
        RunInv, AfterGenerate, Succeeded, GoTo, Return, Outcomes, Failed, Loaded,
        Created, files
<1>1. ASSUME NEW r \in Run, TestPublic(r) PROVE DirectoryInv'
  BY <1>1 DEF TestPublic
<1>2. ASSUME NEW r \in Run, TestSecret(r) PROVE DirectoryInv'
  <2>1. UNCHANGED <<pub, sec, sawPub, readPub, generated>> /\ pc[r] = "test_secret"
    BY <1>2 DEF TestSecret
  <2>2. CASE /\ pc' = [pc EXCEPT ![r] = "done"]
             /\ outcome' = [outcome EXCEPT ![r] = Failed("partial")]
    BY <2>1, <2>2
  <2>3. CASE /\ sawPub[r] /\ sec # Absent
             /\ pc' = [pc EXCEPT ![r] = "read_public"] /\ UNCHANGED outcome
    BY <2>1, <2>3
  <2>4. CASE pc' = [pc EXCEPT ![r] = "generate"] /\ UNCHANGED outcome
    BY <2>1, <2>4
  <2> QED
    BY <1>2, <2>2, <2>3, <2>4 DEF TestSecret
<1>3. ASSUME NEW r \in Run, ReadPublic(r) PROVE DirectoryInv'
  BY <1>3 DEF ReadPublic
<1>4. ASSUME NEW r \in Run, ReadSecret(r) PROVE DirectoryInv'
  BY <1>4 DEF ReadSecret
<1>5. ASSUME NEW r \in Run, Generate(r) PROVE DirectoryInv'
  BY <1>5 DEF Generate
<1>6. ASSUME NEW r \in Run, OpenPublic(r) PROVE DirectoryInv'
  BY <1>6 DEF OpenPublic
<1>7. ASSUME NEW r \in Run, WritePublic(r) PROVE DirectoryInv'
  BY <1>7 DEF WritePublic
<1>8. ASSUME NEW r \in Run, OpenSecret(r) PROVE DirectoryInv'
  BY <1>8 DEF OpenSecret
<1>9. ASSUME NEW r \in Run, WriteSecret(r) PROVE DirectoryInv'
  BY <1>9 DEF WriteSecret
<1>10. ASSUME NEW r \in Run, Abort(r) PROVE DirectoryInv'
  BY <1>10 DEF Abort, Active
<1>11. CASE UNCHANGED vars
  BY <1>11 DEF vars
<1> QED
  BY <1>1, <1>2, <1>3, <1>4, <1>5, <1>6, <1>7, <1>8, <1>9, <1>10, <1>11
     DEF Next, Step

\* What each run must have seen in the directory or written to it, in every interleaving.
THEOREM DirectoryInvariant == Spec => []DirectoryInv
<1>1. DirectoryInv /\ [Next]_vars => DirectoryInv'
  BY DirectoryInvStep
<1> QED
  BY <1>1, DirectoryInvInit, PTL DEF Spec

\* The directory and the local state of the runs keep their types: what
\* load_or_create returns is never made of a missing or a torn file.
THEOREM TypeCorrect == Spec => []TypeOK
<1>1. DirectoryInv => TypeOK
  BY DEF DirectoryInv
<1> QED
  BY <1>1, DirectoryInvariant, PTL

\* However runs overlap and wherever they are killed, there is no secret key
\* file without a public one.
THEOREM SecretAfterPublic == Spec => []SecretImpliesPublic
<1>1. DirectoryInv => SecretImpliesPublic
  BY DEF DirectoryInv, FilesInv
<1> QED
  BY <1>1, DirectoryInvariant, PTL

\* While a single run has generated a keypair, every run that gets an identity
\* gets that keypair, whatever the overlap.
THEOREM SoleCreator == Spec => []SoleCreatorSafe
<1>1. DirectoryInv => SoleCreatorSafe
  BY DEF DirectoryInv, RunInv, SoleCreatorSafe
<1> QED
  BY <1>1, DirectoryInvariant, PTL

\* Once settled, the directory is final.
THEOREM SettledFinal == Spec => SettledIsFinal
<1>1. ASSUME DirectoryInv, Settled, [Next]_vars
      PROVE  Settled' /\ UNCHANGED files
  <2> USE FileAssumption
      DEF Settled, MayCreate, DirectoryInv, TypeOK, Labels, GoTo, Return, files
  <2>1. ASSUME NEW r \in Run, TestPublic(r) PROVE Settled' /\ UNCHANGED files
    BY <1>1, <2>1 DEF TestPublic
  <2>2. ASSUME NEW r \in Run, TestSecret(r) PROVE Settled' /\ UNCHANGED files
    BY <1>1, <2>2 DEF TestSecret
  <2>3. ASSUME NEW r \in Run, ReadPublic(r) \/ ReadSecret(r) \/ Abort(r)
        PROVE  Settled' /\ UNCHANGED files
    BY <1>1, <2>3 DEF ReadPublic, ReadSecret, Abort
  <2>4. ASSUME NEW r \in Run,
               \/ Generate(r) \/ OpenPublic(r) \/ WritePublic(r)
               \/ OpenSecret(r) \/ WriteSecret(r)
        PROVE  FALSE
    BY <1>1, <2>4 DEF Generate, OpenPublic, WritePublic, OpenSecret, WriteSecret
  <2>5. CASE UNCHANGED vars
    BY <1>1, <2>5 DEF vars
  <2> QED
    BY <1>1, <2>1, <2>2, <2>3, <2>4, <2>5 DEF Next, Step
<1> QED
  BY <1>1, DirectoryInvariant, PTL DEF Spec, SettledIsFinal, vars

-----------------------------------------------------------------------------
(* Runs that do not overlap.                                               *)

\* Alone in the directory, a run that creates knows exactly what the files
\* hold, and a run that reads sees one state of them.
SequentialRun(r) ==
    /\ pc[r] # "done" => outcome[r] = None
    /\ pc[r] = "test_secret" => sawPub[r] = (pub # Absent)
    /\ pc[r] \in {"generate", "open_public"} => pub = Absent /\ sec = Absent
    /\ pc[r] = "write_public" => pub = Torn /\ sec = Absent
    /\ pc[r] = "open_secret" => pub = r /\ sec = Absent
    /\ pc[r] = "write_secret" => pub = r /\ sec = Torn
    /\ pc[r] = "read_secret" => readPub[r] = pub
    /\ Succeeded(r) => /\ pub \in Run /\ sec = pub
                       /\ outcome[r].public = pub /\ outcome[r].secret = pub

OneActive == \A q, r \in Run : Active(q) /\ Active(r) => q = r

SequentialInv == /\ OneActive
                 /\ pub \in Run /\ sec \in Run => pub = sec
                 /\ \A r \in Run : SequentialRun(r)

\* No run is under way.
LEMMA SequentialInit == Init => SequentialInv
BY FileAssumption
   DEF Init, SequentialInv, OneActive, Active, SequentialRun, Succeeded

\* A step of one run leaves the others idle, and what they returned stands: a
\* run changes the files only while nobody has been given an identity.
LEMMA SequentialFrame ==
    ASSUME ~Overlap, DirectoryInv, SequentialInv, NEW r \in Run,
           Active(r) \/ \A q \in Run : ~Active(q),
           pc' = [pc EXCEPT ![r] = pc'[r]],
           \A q \in Run \ {r} : outcome'[q] = outcome[q],
           (pub' = pub /\ sec' = sec) \/ sec \in {Absent, Torn}
    PROVE  OneActive' /\ \A q \in Run \ {r} : SequentialRun(q)'
<1> USE FileAssumption
<1>1. pc \in [Run -> Labels]
  BY DEF DirectoryInv, TypeOK
<1>2. \A q \in Run \ {r} : pc'[q] = pc[q] /\ pc[q] \in {"start", "done"}
  BY <1>1 DEF SequentialInv, OneActive, Active
<1>3. OneActive'
  BY <1>2 DEF OneActive, Active
<1>4. ASSUME NEW q \in Run \ {r}, Succeeded(q) PROVE pub' = pub /\ sec' = sec
  BY <1>4 DEF SequentialInv, SequentialRun
<1>5. ASSUME NEW q \in Run \ {r} PROVE SequentialRun(q)'
  <2>1. Succeeded(q)' <=> Succeeded(q)
    BY DEF Succeeded
  <2>2. SequentialRun(q)
    BY DEF SequentialInv
  <2>3. pc'[q] # "done" => outcome'[q] = None
    BY <1>2, <2>2 DEF SequentialRun
  <2>4. Succeeded(q)' => /\ pub' \in Run /\ sec' = pub'
                         /\ outcome'[q].public = pub' /\ outcome'[q].secret = pub'
    BY <1>4, <2>1, <2>2 DEF SequentialRun
  <2> QED
    BY <1>2, <2>3, <2>4 DEF SequentialRun
<1> QED
  BY <1>3, <1>5

\* Every step of runs in turn keeps the two halves a pair.
LEMMA SequentialStep ==
    ASSUME ~Overlap, DirectoryInv, SequentialInv, [Next]_vars
    PROVE  SequentialInv'
<1> DEFINE Kept == pub' \in Run /\ sec' \in Run => pub' = sec'
<1> USE FileAssumption, OutcomeAssumption
<1>0. /\ pc \in [Run -> Labels] /\ outcome \in [Run -> Outcomes \cup {None}]
      /\ sawPub \in [Run -> BOOLEAN] /\ readPub \in [Run -> Content \cup {None}]
      /\ \A r \in Run : SequentialRun(r) /\ RunInv(r)
      /\ FilesInv
      /\ pub \in Run /\ sec \in Run => pub = sec
  BY DEF DirectoryInv, TypeOK, SequentialInv
<1>1. ASSUME NEW r \in Run, Step(r) \/ Abort(r)
      PROVE  /\ OneActive' /\ \A q \in Run \ {r} : SequentialRun(q)'
             /\ SequentialRun(r)' /\ Kept
  <2> USE DEF GoTo, Return, files
  <2>1. CASE TestPublic(r)
    <3>1. OneActive' /\ \A q \in Run \ {r} : SequentialRun(q)'
      BY <1>0, <2>1, SequentialFrame DEF TestPublic
    <3>2. SequentialRun(r)' /\ Kept
      BY <1>0, <2>1 DEF TestPublic, SequentialRun, Succeeded
    <3> QED
      BY <3>1, <3>2
  <2>2. CASE TestSecret(r)
    <3>1. Active(r)
      BY <2>2 DEF TestSecret, Active
    <3>2. OneActive' /\ \A q \in Run \ {r} : SequentialRun(q)'
      BY <1>0, <2>2, <3>1, SequentialFrame DEF TestSecret
    <3>3. UNCHANGED <<pub, sec, sawPub, readPub>>
      BY <2>2 DEF TestSecret
    <3>4. /\ sawPub[r] <=> pub # Absent
          /\ outcome[r] = None
      BY <1>0, <2>2 DEF TestSecret, SequentialRun
    <3>5. CASE sawPub[r] # (sec # Absent)
      <4>1. outcome'[r] = Failed("partial") /\ pc'[r] = "done"
        BY <1>0, <2>2, <3>5 DEF TestSecret
      <4>2. ~Succeeded(r)'
        BY <4>1 DEF Succeeded, Failed
      <4> QED
        BY <1>0, <3>2, <3>3, <4>1, <4>2 DEF SequentialRun
    <3>6. CASE sawPub[r] /\ sec # Absent
      <4>1. UNCHANGED outcome /\ pc'[r] = "read_public"
        BY <1>0, <2>2, <3>6 DEF TestSecret
      <4> QED
        BY <1>0, <3>2, <3>3, <3>4, <4>1 DEF SequentialRun, Succeeded
    <3>7. CASE ~sawPub[r] /\ sec = Absent
      <4>1. UNCHANGED outcome /\ pc'[r] = "generate"
        BY <1>0, <2>2, <3>7 DEF TestSecret
      <4> QED
        BY <1>0, <3>2, <3>3, <3>4, <3>7, <4>1 DEF SequentialRun, Succeeded
    <3>8. SequentialRun(r)' /\ Kept
      BY <2>2, <3>5, <3>6, <3>7 DEF TestSecret
    <3> QED
      BY <3>2, <3>8
  <2>3. CASE ReadPublic(r)
    <3>1. Active(r)
      BY <2>3 DEF ReadPublic, Active
    <3>2. OneActive' /\ \A q \in Run \ {r} : SequentialRun(q)'
      BY <1>0, <2>3, <3>1, SequentialFrame DEF ReadPublic
    <3>3. SequentialRun(r)' /\ Kept
      BY <1>0, <2>3 DEF ReadPublic, SequentialRun, Succeeded
    <3> QED
      BY <3>2, <3>3
  <2>4. CASE ReadSecret(r)
    <3>1. Active(r)
      BY <2>4 DEF ReadSecret, Active
    <3>2. OneActive' /\ \A q \in Run \ {r} : SequentialRun(q)'
      BY <1>0, <2>4, <3>1, SequentialFrame DEF ReadSecret
    <3>3. SequentialRun(r)' /\ Kept
      <4>1. UNCHANGED <<pub, sec>> /\ pc'[r] = "done" /\ readPub[r] = pub
        BY <1>0, <2>4 DEF ReadSecret, SequentialRun
      <4>2. pub # Absent /\ sec # Absent
        BY <1>0, <2>4 DEF ReadSecret, RunInv
      <4>3. CASE Torn \in {pub, sec}
        BY <1>0, <2>4, <4>1, <4>3 DEF ReadSecret, SequentialRun, Succeeded, Failed
      <4>4. CASE Torn \notin {pub, sec}
        <5>1. pub \in Run /\ sec = pub
          BY <1>0, <4>2, <4>4 DEF FilesInv, DirectoryInv, TypeOK
        <5>2. outcome'[r] = Loaded(pub, pub)
          BY <1>0, <2>4, <4>1, <4>4, <5>1 DEF ReadSecret
        <5> QED
          BY <4>1, <5>1, <5>2 DEF SequentialRun, Loaded
      <4> QED
        BY <4>3, <4>4
    <3> QED
      BY <3>2, <3>3
  <2>5. CASE Generate(r)
    <3>1. Active(r)
      BY <2>5 DEF Generate, Active
    <3>2. OneActive' /\ \A q \in Run \ {r} : SequentialRun(q)'
      BY <1>0, <2>5, <3>1, SequentialFrame DEF Generate
    <3>3. SequentialRun(r)' /\ Kept
      BY <1>0, <2>5 DEF Generate, SequentialRun, Succeeded
    <3> QED
      BY <3>2, <3>3
  <2>6. CASE OpenPublic(r) \/ WritePublic(r) \/ OpenSecret(r)
    <3>1. Active(r) /\ sec \in {Absent, Torn}
      BY <1>0, <2>6 DEF OpenPublic, WritePublic, OpenSecret, Active, SequentialRun
    <3>2. OneActive' /\ \A q \in Run \ {r} : SequentialRun(q)'
      BY <1>0, <2>6, <3>1, SequentialFrame DEF OpenPublic, WritePublic, OpenSecret
    <3>3. SequentialRun(r)' /\ Kept
      BY <1>0, <2>6 DEF OpenPublic, WritePublic, OpenSecret, SequentialRun, Succeeded
    <3> QED
      BY <3>2, <3>3
  <2>7. CASE WriteSecret(r)
    <3>1. Active(r) /\ sec \in {Absent, Torn}
      BY <1>0, <2>7 DEF WriteSecret, Active, SequentialRun
    <3>2. OneActive' /\ \A q \in Run \ {r} : SequentialRun(q)'
      BY <1>0, <2>7, <3>1, SequentialFrame DEF WriteSecret
    <3>3. SequentialRun(r)' /\ Kept
      BY <1>0, <2>7 DEF WriteSecret, SequentialRun, Succeeded, Created
    <3> QED
      BY <3>2, <3>3
  <2>8. CASE Abort(r)
    <3>1. OneActive' /\ \A q \in Run \ {r} : SequentialRun(q)'
      BY <1>0, <2>8, SequentialFrame DEF Abort
    <3>2. SequentialRun(r)' /\ Kept
      BY <1>0, <2>8 DEF Abort, SequentialRun, Succeeded, Failed
    <3> QED
      BY <3>1, <3>2
  <2> QED
    BY <1>1, <2>1, <2>2, <2>3, <2>4, <2>5, <2>6, <2>7, <2>8 DEF Step
<1>2. CASE UNCHANGED vars
  BY <1>2 DEF vars, SequentialInv, OneActive, Active, SequentialRun, Succeeded
<1> QED
  BY <1>1, <1>2 DEF Next, SequentialInv

\* Runs in turn: at most one is under way and whole halves are a pair.
THEOREM SequentialInvariant ==
    ASSUME ~Overlap
    PROVE  Spec => [](DirectoryInv /\ SequentialInv)
<1>1. ~Overlap
  OBVIOUS
<1>2. DirectoryInv /\ SequentialInv /\ [Next]_vars => SequentialInv'
  BY <1>1, SequentialStep
<1> QED
  BY <1>2, SequentialInit, DirectoryInvariant, PTL DEF Spec

\* When runs do not overlap, an identity that is returned is one keypair.
THEOREM SequentialPairMatches ==
    ASSUME ~Overlap
    PROVE  Spec => []PairMatches
<1>1. SequentialInv => PairMatches
  BY DEF SequentialInv, SequentialRun, PairMatches
<1> QED
  BY <1>1, SequentialInvariant, PTL

\* When runs do not overlap, all of them sign under one fingerprint, whatever
\* crashes happen between and during them.
THEOREM SequentialFingerprintStable ==
    ASSUME ~Overlap
    PROVE  Spec => []FingerprintStable
<1>1. SequentialInv => FingerprintStable
  BY DEF SequentialInv, SequentialRun, FingerprintStable
<1> QED
  BY <1>1, SequentialInvariant, PTL

-----------------------------------------------------------------------------
(* Runs that do not overlap implement the write-once register: the record    *)
(* mapped to Identity and Answer takes a step of IdentityRegister, or none.  *)

Creating == \E r \in Run : MayCreate(r)

\* What the directory counts as, given whether a run may still write to it.
IdentityOf(p, s, creating) ==
    IF p = Absent THEN None
    ELSE IF p \in Run /\ s = p THEN p
    ELSE IF creating THEN None
    ELSE "spoiled"

Identity == IdentityOf(pub, sec, Creating)

Answer == [r \in Run |-> IF outcome[r] = None THEN None
                         ELSE IF Succeeded(r) THEN outcome[r].public
                         ELSE "refused"]

\* The refinement mapping of IdentityStore, under the names used here.
LEMMA RegisterMapping ==
    /\ Register!RegisterInit <=> Identity = None /\ Answer = [r \in Run |-> None]
    /\ Identity' = Identity /\ Answer' = Answer => UNCHANGED Register!registerVars
    /\ \A r \in Run :
         /\ Identity = None /\ Answer[r] = None /\ Identity' = r
              /\ Answer' = [Answer EXCEPT ![r] = r]
            => Register!RegisterNext
         /\ Identity = None /\ Answer[r] = None /\ Identity' = "spoiled"
              /\ Answer' = [Answer EXCEPT ![r] = "refused"]
            => Register!RegisterNext
         /\ Identity \in Run /\ Answer[r] = None /\ Identity' = Identity
              /\ Answer' = [Answer EXCEPT ![r] = Identity]
            => Register!RegisterNext
         /\ Answer[r] = None /\ Identity' = Identity
              /\ Answer' = [Answer EXCEPT ![r] = "refused"]
            => Register!RegisterNext
BY DEF Register!RegisterInit, Register!registerVars, Register!RegisterNext,
       Register!Create, Register!Spoil, Register!Reuse, Register!Refuse,
       Identity, IdentityOf, Creating, Answer

\* An empty directory is an empty register.
LEMMA RegisterInitially == Init => Register!RegisterInit
<1> SUFFICES ASSUME Init PROVE Identity = None /\ Answer = [r \in Run |-> None]
  BY RegisterMapping
<1> QED
  BY DEF Init, Identity, IdentityOf, Answer

\* What a run returns is its answer, and no other run's answer changes.
LEMMA AnswerOfReturn ==
    ASSUME DirectoryInv, SequentialInv, NEW r \in Run, NEW result \in Outcomes,
           pc[r] # "done", outcome' = [outcome EXCEPT ![r] = result]
    PROVE  /\ Answer[r] = None
           /\ Answer' = [Answer EXCEPT ![r] =
                           IF result.kind \in {"loaded", "created"} THEN result.public
                           ELSE "refused"]
<1>1. outcome \in [Run -> Outcomes \cup {None}] /\ outcome[r] = None
  BY DEF DirectoryInv, TypeOK, SequentialInv, SequentialRun
<1>2. result # None
  BY OutcomeAssumption
<1> QED
  BY <1>1, <1>2 DEF Answer, Succeeded

\* A run that does not return answers nothing.
LEMMA AnswersStay == UNCHANGED outcome => Answer' = Answer
BY DEF Answer, Succeeded

\* Only the run that is active may be about to write the files.
LEMMA OnlyTheActiveCreates ==
    ASSUME SequentialInv, DirectoryInv, NEW r \in Run,
           Active(r) \/ \A q \in Run : ~Active(q),
           pc' = [pc EXCEPT ![r] = pc'[r]],
           \A q \in Run \ {r} : sawPub'[q] = sawPub[q]
    PROVE  (Creating <=> MayCreate(r)) /\ (Creating' <=> MayCreate(r)')
<1>1. pc \in [Run -> Labels]
  BY DEF DirectoryInv, TypeOK
<1>2. \A q \in Run \ {r} : pc'[q] = pc[q] /\ pc[q] \in {"start", "done"}
  BY <1>1 DEF SequentialInv, OneActive, Active
<1> QED
  BY <1>2 DEF Creating, MayCreate

\* A step of a run that has the directory to itself is a step of the register.
LEMMA RegisterStep ==
    ASSUME ~Overlap, DirectoryInv, SequentialInv, [Next]_vars
    PROVE  [Register!RegisterNext]_(Register!registerVars)
<1> DEFINE Goal == [Register!RegisterNext]_(Register!registerVars)
<1>0. /\ pc \in [Run -> Labels] /\ outcome \in [Run -> Outcomes \cup {None}]
      /\ \A r \in Run : SequentialRun(r) /\ RunInv(r)
      /\ FilesInv
  BY DEF DirectoryInv, TypeOK, SequentialInv
<1>1. ASSUME NEW r \in Run, Step(r) \/ Abort(r) PROVE Goal
  <2> USE DEF GoTo, Return, files
  <2>0. (Creating <=> MayCreate(r)) /\ (Creating' <=> MayCreate(r)')
    <3>1. Active(r) \/ \A q \in Run : ~Active(q)
      BY <1>1 DEF Step, TestPublic, TestSecret, ReadPublic, ReadSecret, Generate,
                  OpenPublic, WritePublic, OpenSecret, WriteSecret, Abort, Active
    <3>2. pc' = [pc EXCEPT ![r] = pc'[r]]
      BY <1>0, <1>1
         DEF Step, TestPublic, TestSecret, ReadPublic, ReadSecret, Generate,
             OpenPublic, WritePublic, OpenSecret, WriteSecret, Abort
    <3>3. \A q \in Run \ {r} : sawPub'[q] = sawPub[q]
      BY <1>1 DEF Step, TestPublic, TestSecret, ReadPublic, ReadSecret, Generate,
                  OpenPublic, WritePublic, OpenSecret, WriteSecret, Abort,
                  DirectoryInv, TypeOK
    <3> QED
      BY <3>1, <3>2, <3>3, OnlyTheActiveCreates
  <2>1. CASE TestPublic(r)
    <3>1. UNCHANGED <<pub, sec, outcome>>
      BY <2>1 DEF TestPublic
    <3>2. pub = Absent \/ (~MayCreate(r) /\ ~MayCreate(r)')
      BY <1>0, <2>1 DEF TestPublic, MayCreate, DirectoryInv, TypeOK
    <3>3. Identity' = Identity
      BY <2>0, <3>1, <3>2 DEF Identity, IdentityOf
    <3> QED
      BY <3>1, <3>3, AnswersStay, RegisterMapping
  <2>2. CASE TestSecret(r)
    <3>1. UNCHANGED <<pub, sec, sawPub>> /\ pc[r] = "test_secret"
      BY <2>2 DEF TestSecret
    <3>2. sawPub[r] = (pub # Absent)
      BY <1>0, <3>1 DEF SequentialRun
    <3>3. Identity' = Identity
      <4>1. pub = Absent \/ (~MayCreate(r) /\ ~MayCreate(r)')
        BY <1>0, <2>2, <3>1, <3>2 DEF TestSecret, MayCreate
      <4> QED
        BY <2>0, <3>1, <4>1 DEF Identity, IdentityOf
    <3>4. CASE UNCHANGED outcome
      BY <3>3, <3>4, AnswersStay, RegisterMapping
    <3>5. CASE outcome' = [outcome EXCEPT ![r] = Failed("partial")]
      <4>1. Failed("partial") \in Outcomes /\ Failed("partial").kind = "partial"
        BY DEF Failed, Outcomes
      <4>2. Answer[r] = None /\ Answer' = [Answer EXCEPT ![r] = "refused"]
        BY <3>1, <3>5, <4>1, AnswerOfReturn
      <4> QED
        BY <3>3, <4>2, RegisterMapping
    <3> QED
      BY <2>2, <3>4, <3>5 DEF TestSecret
  <2>3. CASE ReadPublic(r)
    <3>1. UNCHANGED <<pub, sec, outcome>> /\ ~MayCreate(r) /\ ~MayCreate(r)'
      BY <1>0, <2>3 DEF ReadPublic, MayCreate
    <3>2. Identity' = Identity
      BY <2>0, <3>1 DEF Identity, IdentityOf
    <3> QED
      BY <3>1, <3>2, AnswersStay, RegisterMapping
  <2>4. CASE ReadSecret(r)
    <3>1. /\ UNCHANGED <<pub, sec>> /\ ~MayCreate(r) /\ ~MayCreate(r)'
          /\ pc[r] = "read_secret" /\ readPub[r] = pub
          /\ pub # Absent /\ sec # Absent
      BY <1>0, <2>4 DEF ReadSecret, MayCreate, SequentialRun, RunInv
    <3>2. Identity' = Identity
      BY <2>0, <3>1 DEF Identity, IdentityOf
    <3>3. CASE Torn \in {pub, sec}
      <4>1. outcome' = [outcome EXCEPT ![r] = Failed("invalid")]
        BY <2>4, <3>1, <3>3, FileAssumption DEF ReadSecret
      <4>2. Failed("invalid") \in Outcomes /\ Failed("invalid").kind = "invalid"
        BY DEF Failed, Outcomes
      <4>3. Answer[r] = None /\ Answer' = [Answer EXCEPT ![r] = "refused"]
        BY <3>1, <4>1, <4>2, AnswerOfReturn
      <4> QED
        BY <3>2, <4>3, RegisterMapping
    <3>4. CASE Torn \notin {pub, sec}
      <4>1. pub \in Run /\ sec = pub
        BY <3>1, <3>4 DEF DirectoryInv, TypeOK, Content, SequentialInv
      <4>2. outcome' = [outcome EXCEPT ![r] = Loaded(pub, pub)]
        BY <2>4, <3>1, <3>4, <4>1 DEF ReadSecret
      <4>3. /\ Loaded(pub, pub) \in Outcomes
            /\ Loaded(pub, pub).kind = "loaded" /\ Loaded(pub, pub).public = pub
        BY <4>1 DEF Loaded, Outcomes
      <4>4. Answer[r] = None /\ Answer' = [Answer EXCEPT ![r] = pub]
        BY <3>1, <4>2, <4>3, AnswerOfReturn
      <4>5. Identity = pub
        BY <3>1, <4>1 DEF Identity, IdentityOf
      <4> QED
        BY <3>2, <4>1, <4>4, <4>5, RegisterMapping
    <3> QED
      BY <3>3, <3>4
  <2>5. CASE Generate(r)
    <3>1. UNCHANGED <<pub, sec, outcome>> /\ pub = Absent
      BY <1>0, <2>5 DEF Generate, SequentialRun
    <3>2. Identity' = Identity
      BY <3>1 DEF Identity, IdentityOf
    <3> QED
      BY <3>1, <3>2, AnswersStay, RegisterMapping
  <2>6. CASE OpenPublic(r) \/ WritePublic(r) \/ OpenSecret(r)
    <3>1. /\ UNCHANGED outcome /\ MayCreate(r) /\ MayCreate(r)'
          /\ ~(pub \in Run /\ sec = pub) /\ ~(pub' \in Run /\ sec' = pub')
      BY <1>0, <2>6, FileAssumption
         DEF OpenPublic, WritePublic, OpenSecret, MayCreate, SequentialRun
    <3>2. Identity' = Identity
      BY <2>0, <3>1 DEF Identity, IdentityOf
    <3> QED
      BY <3>1, <3>2, AnswersStay, RegisterMapping
  <2>7. CASE WriteSecret(r)
    <3>1. /\ pc[r] = "write_secret" /\ pub = r /\ sec = Torn /\ MayCreate(r)
          /\ pub' = r /\ sec' = r
          /\ outcome' = [outcome EXCEPT ![r] = Created(r)]
      BY <1>0, <2>7 DEF WriteSecret, MayCreate, SequentialRun
    <3>2. Identity = None /\ Identity' = r
      BY <2>0, <3>1, FileAssumption DEF Identity, IdentityOf
    <3>3. /\ Created(r) \in Outcomes
          /\ Created(r).kind = "created" /\ Created(r).public = r
      BY DEF Created, Outcomes
    <3>4. Answer[r] = None /\ Answer' = [Answer EXCEPT ![r] = r]
      BY <3>1, <3>3, AnswerOfReturn
    <3> QED
      BY <3>2, <3>4, RegisterMapping
  <2>8. CASE Abort(r)
    <3>1. /\ UNCHANGED <<pub, sec>> /\ pc[r] # "done" /\ ~MayCreate(r)'
          /\ outcome' = [outcome EXCEPT ![r] = Failed("aborted")]
      BY <1>0, <2>8 DEF Abort, Active, MayCreate
    <3>2. Failed("aborted") \in Outcomes /\ Failed("aborted").kind = "aborted"
      BY DEF Failed, Outcomes
    <3>3. Answer[r] = None /\ Answer' = [Answer EXCEPT ![r] = "refused"]
      BY <3>1, <3>2, AnswerOfReturn
    <3>4. Identity' = Identity \/ (Identity = None /\ Identity' = "spoiled")
      BY <2>0, <3>1 DEF Identity, IdentityOf
    <3> QED
      BY <3>3, <3>4, RegisterMapping
  <2> QED
    BY <1>1, <2>1, <2>2, <2>3, <2>4, <2>5, <2>6, <2>7, <2>8 DEF Step
<1>2. CASE UNCHANGED vars
  <2>1. Identity' = Identity /\ Answer' = Answer
    BY <1>2 DEF vars, Identity, IdentityOf, Creating, MayCreate, Answer, Succeeded
  <2> QED
    BY <2>1, RegisterMapping
<1> QED
  BY <1>1, <1>2 DEF Next

\* Runs that do not overlap use the directory as a write-once register,
\* whatever crashes happen: it takes one identity or is spoiled for good, and a
\* run that gets an identity gets that one.
THEOREM RegisterRefinement ==
    ASSUME ~Overlap
    PROVE  Spec => ImplementsRegister
<1>1. ~Overlap
  OBVIOUS
<1>2. DirectoryInv /\ SequentialInv /\ [Next]_vars
        => [Register!RegisterNext]_(Register!registerVars)
  BY <1>1, RegisterStep
<1> QED
  BY <1>2, RegisterInitially, SequentialInvariant, PTL
     DEF Spec, ImplementsRegister, Register!RegisterSpec

-----------------------------------------------------------------------------
(* Every run ends, and what it leaves half written is never repaired.      *)

\* How many calls to the file system a run makes at most from each step on.
CallsFrom ==
    [label \in Labels |->
        CASE label = "start" -> 7
          [] label = "test_secret" -> 6
          [] label = "generate" -> 5
          [] label = "open_public" -> 4
          [] label = "write_public" -> 3
          [] label \in {"open_secret", "read_public"} -> 2
          [] label \in {"write_secret", "read_secret"} -> 1
          [] label = "done" -> 0]

CallsLeft(r) == CallsFrom[pc[r]]

\* The table above, read off.
LEMMA CallsTable ==
    /\ CallsFrom["start"] = 7 /\ CallsFrom["test_secret"] = 6 /\ CallsFrom["generate"] = 5
    /\ CallsFrom["open_public"] = 4 /\ CallsFrom["write_public"] = 3
    /\ CallsFrom["open_secret"] = 2 /\ CallsFrom["read_public"] = 2
    /\ CallsFrom["write_secret"] = 1 /\ CallsFrom["read_secret"] = 1
    /\ CallsFrom["done"] = 0
BY DEF CallsFrom, Labels

\* There are fewer calls to make from one step than from another.
Later(from, to) == /\ CallsFrom[from] \in 1..7 /\ CallsFrom[to] \in Nat
                   /\ CallsFrom[to] < CallsFrom[from]

\* Run r moves to a step with fewer calls ahead, and ends if it returns anything.
Advance(r, label) ==
    /\ pc' = [pc EXCEPT ![r] = label]
    /\ Later(pc[r], label) /\ pc[r] # "done"
    /\ \/ UNCHANGED outcome
       \/ label = "done" /\ \E result : outcome' = [outcome EXCEPT ![r] = result]

\* Where each step leads.
LEMMA LaterTable ==
    /\ Later("start", "test_secret") /\ Later("test_secret", "read_public")
    /\ Later("test_secret", "generate") /\ Later("read_public", "read_secret")
    /\ Later("generate", "open_public") /\ Later("open_public", "write_public")
    /\ Later("write_public", "open_secret") /\ Later("open_secret", "write_secret")
    /\ Later("test_secret", "done") /\ Later("read_public", "done")
    /\ Later("read_secret", "done") /\ Later("generate", "done")
    /\ Later("open_public", "done") /\ Later("write_public", "done")
    /\ Later("open_secret", "done") /\ Later("write_secret", "done")
BY CallsTable DEF Later

\* Each call, and a run's death, is such a move.
LEMMA CallAdvances ==
    ASSUME TypeOK, NEW r \in Run, Step(r) \/ Abort(r)
    PROVE  \E label : Advance(r, label)
<1>1. CASE TestPublic(r)
  <2>1. pc[r] = "start" /\ pc' = [pc EXCEPT ![r] = "test_secret"]
    BY <1>1 DEF TestPublic, GoTo, Return
  <2>2. UNCHANGED outcome
    BY <1>1 DEF TestPublic
  <2>3. Advance(r, "test_secret")
    BY <2>1, <2>2, LaterTable DEF Advance
  <2> QED
    BY <2>3
<1>2. CASE TestSecret(r)
  <2>1. pc[r] = "test_secret"
    BY <1>2 DEF TestSecret
  <2>2. PICK label \in {"done", "read_public", "generate"} :
            /\ pc' = [pc EXCEPT ![r] = label]
            /\ \/ UNCHANGED outcome
               \/ label = "done" /\ \E result : outcome' = [outcome EXCEPT ![r] = result]
    BY <1>2 DEF TestSecret, GoTo, Return
  <2>3. Later(pc[r], label)
    BY <2>1, <2>2, LaterTable
  <2>4. Advance(r, label)
    BY <2>1, <2>2, <2>3 DEF Advance
  <2> QED
    BY <2>4
<1>3. CASE ReadPublic(r)
  <2>1. pc[r] = "read_public" /\ pc' = [pc EXCEPT ![r] = "read_secret"]
    BY <1>3 DEF ReadPublic, GoTo, Return
  <2>2. UNCHANGED outcome
    BY <1>3 DEF ReadPublic
  <2>3. Advance(r, "read_secret")
    BY <2>1, <2>2, LaterTable DEF Advance
  <2> QED
    BY <2>3
<1>4. CASE ReadSecret(r)
  <2>1. pc[r] = "read_secret" /\ pc' = [pc EXCEPT ![r] = "done"]
    BY <1>4 DEF ReadSecret, GoTo, Return
  <2>2. \E result : outcome' = [outcome EXCEPT ![r] = result]
    BY <1>4 DEF ReadSecret, Return
  <2>3. Advance(r, "done")
    BY <2>1, <2>2, LaterTable DEF Advance
  <2> QED
    BY <2>3
<1>5. CASE Generate(r)
  <2>1. pc[r] = "generate" /\ pc' = [pc EXCEPT ![r] = "open_public"]
    BY <1>5 DEF Generate, GoTo, Return
  <2>2. UNCHANGED outcome
    BY <1>5 DEF Generate
  <2>3. Advance(r, "open_public")
    BY <2>1, <2>2, LaterTable DEF Advance
  <2> QED
    BY <2>3
<1>6. CASE OpenPublic(r)
  <2>1. pc[r] = "open_public" /\ pc' = [pc EXCEPT ![r] = "write_public"]
    BY <1>6 DEF OpenPublic, GoTo, Return
  <2>2. UNCHANGED outcome
    BY <1>6 DEF OpenPublic
  <2>3. Advance(r, "write_public")
    BY <2>1, <2>2, LaterTable DEF Advance
  <2> QED
    BY <2>3
<1>7. CASE WritePublic(r)
  <2>1. pc[r] = "write_public" /\ pc' = [pc EXCEPT ![r] = "open_secret"]
    BY <1>7 DEF WritePublic, GoTo, Return
  <2>2. UNCHANGED outcome
    BY <1>7 DEF WritePublic
  <2>3. Advance(r, "open_secret")
    BY <2>1, <2>2, LaterTable DEF Advance
  <2> QED
    BY <2>3
<1>8. CASE OpenSecret(r)
  <2>1. pc[r] = "open_secret" /\ pc' = [pc EXCEPT ![r] = "write_secret"]
    BY <1>8 DEF OpenSecret, GoTo, Return
  <2>2. UNCHANGED outcome
    BY <1>8 DEF OpenSecret
  <2>3. Advance(r, "write_secret")
    BY <2>1, <2>2, LaterTable DEF Advance
  <2> QED
    BY <2>3
<1>9. CASE WriteSecret(r)
  <2>1. pc[r] = "write_secret" /\ pc' = [pc EXCEPT ![r] = "done"]
    BY <1>9 DEF WriteSecret, GoTo, Return
  <2>2. \E result : outcome' = [outcome EXCEPT ![r] = result]
    BY <1>9 DEF WriteSecret, Return
  <2>3. Advance(r, "done")
    BY <2>1, <2>2, LaterTable DEF Advance
  <2> QED
    BY <2>3
<1>10. CASE Abort(r)
  <2>1. pc[r] \in Labels \ {"start", "done"}
    BY <1>10 DEF TypeOK, Abort, Active
  <2>2. /\ pc' = [pc EXCEPT ![r] = "done"]
        /\ outcome' = [outcome EXCEPT ![r] = Failed("aborted")]
    BY <1>10 DEF Abort, GoTo, Return
  <2>3. Later(pc[r], "done") /\ pc[r] # "done"
    BY <2>1, LaterTable DEF Labels
  <2>4. Advance(r, "done")
    BY <2>2, <2>3 DEF Advance
  <2> QED
    BY <2>4
<1> QED
  BY <1>1, <1>2, <1>3, <1>4, <1>5, <1>6, <1>7, <1>8, <1>9, <1>10 DEF Step

\* Every step of the system is one call of one run, which leaves that run fewer calls
\* to make and the others where they were: no run ever starts over, a run ends after
\* seven calls at most, and what it returned stands.
OneCallLess ==
    \E r \in Run : /\ CallsLeft(r) \in 1..7 /\ CallsLeft(r)' \in Nat
                   /\ CallsLeft(r)' < CallsLeft(r) /\ outcome[r] = None
                   /\ \A q \in Run \ {r} : pc'[q] = pc[q] /\ outcome'[q] = outcome[q]

\* However runs overlap and die, each makes a bounded number of calls.
THEOREM CallsAreFinite == Spec => [][OneCallLess]_vars
<1> DEFINE Unanswered == \A r \in Run : pc[r] # "done" => outcome[r] = None
<1>1. Init => Unanswered
  BY DEF Init
<1>2. ASSUME TypeOK, Unanswered, NEW r \in Run, Step(r) \/ Abort(r)
      PROVE  /\ CallsLeft(r) \in 1..7 /\ CallsLeft(r)' \in Nat /\ CallsLeft(r)' < CallsLeft(r)
             /\ outcome[r] = None
             /\ \A q \in Run \ {r} : pc'[q] = pc[q] /\ outcome'[q] = outcome[q]
             /\ pc'[r] # "done" => outcome'[r] = None
  <2>1. PICK label : Advance(r, label)
    BY <1>2, CallAdvances
  <2>2. pc \in [Run -> Labels] /\ outcome \in [Run -> Outcomes \cup {None}]
    BY <1>2 DEF TypeOK
  <2>3. /\ pc' = [pc EXCEPT ![r] = label]
        /\ Later(pc[r], label) /\ pc[r] # "done"
        /\ \/ UNCHANGED outcome
           \/ label = "done" /\ \E result : outcome' = [outcome EXCEPT ![r] = result]
    BY <2>1 DEF Advance
  <2>4. pc'[r] = label /\ \A q \in Run \ {r} : pc'[q] = pc[q]
    BY <2>2, <2>3
  <2>5. \A q \in Run \ {r} : outcome'[q] = outcome[q]
    BY <2>2, <2>3
  <2>7. outcome[r] = None
    BY <1>2, <2>3
  <2>8. label # "done" => outcome'[r] = None
    BY <2>3, <2>7
  <2>9. /\ CallsLeft(r) \in 1..7 /\ CallsLeft(r)' \in Nat
        /\ CallsLeft(r)' < CallsLeft(r)
    BY <2>3, <2>4 DEF Later, CallsLeft
  <2> QED
    BY <2>4, <2>5, <2>7, <2>8, <2>9
<1>3. TypeOK /\ Unanswered /\ [Next]_vars => Unanswered' /\ [OneCallLess]_vars
  <2> SUFFICES ASSUME TypeOK, Unanswered, [Next]_vars
               PROVE  Unanswered' /\ [OneCallLess]_vars
    OBVIOUS
  <2>1. CASE UNCHANGED vars
    BY <2>1 DEF vars
  <2>2. CASE Next
    <3>1. PICK r \in Run : Step(r) \/ Abort(r)
      BY <2>2 DEF Next
    <3>2. OneCallLess
      BY <1>2, <3>1 DEF OneCallLess
    <3>3. Unanswered'
      BY <1>2, <3>1
    <3> QED
      BY <3>2, <3>3
  <2> QED
    BY <2>1, <2>2
<1> QED
  BY <1>1, <1>3, TypeCorrect, PTL DEF Spec

\* Until a run has returned, one of its calls can be made: no run waits for another
\* unless runs are not to overlap.
LEMMA RunNeverWaits ==
    ASSUME TypeOK, NEW r \in Run, Active(r)
    PROVE  \/ pc[r] = "test_secret" /\ (sawPub[r] # (sec # Absent))
           \/ pc[r] = "test_secret" /\ sawPub[r] /\ sec # Absent
           \/ pc[r] = "test_secret" /\ ~sawPub[r] /\ sec = Absent
           \/ pc[r] \in {"read_public", "read_secret", "generate", "open_public",
                         "write_public", "open_secret", "write_secret"}
<1>1. pc[r] \in Labels /\ sawPub[r] \in BOOLEAN
  BY DEF TypeOK
<1> QED
  BY <1>1 DEF Active, Labels

\* A crash is forever: once the runs that found no file are over and the secret key is
\* missing or torn, no run that has not got an identity yet ever gets one from this
\* directory; every later run is refused, and nothing repairs the files.
Spoiled == Settled /\ sec \in {Absent, Torn}

\* Whatever interrupted the run that was writing the files, they stay as it left them.
THEOREM SpoiledIsForever ==
    Spec => [][Spoiled => /\ Spoiled' /\ UNCHANGED files
                         /\ \A r \in Run : Succeeded(r)' => Succeeded(r)]_vars
<1>1. ASSUME DirectoryInv, Spoiled, Settled' /\ UNCHANGED files, [Next]_vars
      PROVE  /\ Spoiled' /\ UNCHANGED files
             /\ \A r \in Run : Succeeded(r)' => Succeeded(r)
  <2>0. Settled /\ sec \in {Absent, Torn}
    BY <1>1 DEF Spoiled
  <2>1. Spoiled' /\ UNCHANGED files
    BY <1>1, <2>0 DEF Spoiled, files
  <2>2. ASSUME NEW r \in Run, Step(r) \/ Abort(r)
        PROVE  /\ \A q \in Run \ {r} : outcome'[q] = outcome[q]
               /\ \/ outcome'[r] = outcome[r]
                  \/ outcome'[r].kind \in {"partial", "invalid", "aborted"}
    <3> USE <2>0, FileAssumption DEF GoTo, Return, Failed
    <3>0. outcome \in [Run -> Outcomes \cup {None}] /\ pc \in [Run -> Labels]
      BY <1>1 DEF DirectoryInv, TypeOK
    <3>1. CASE ReadSecret(r)
      <4>1. sec = Torn
        BY <1>1, <3>1 DEF DirectoryInv, RunInv, ReadSecret
      <4> QED
        BY <3>0, <3>1, <4>1 DEF ReadSecret
    <3>2. ~WriteSecret(r)
      BY DEF WriteSecret, Settled, MayCreate
    <3>3. CASE TestSecret(r)
      <4>1. UNCHANGED outcome \/ outcome' = [outcome EXCEPT ![r] = Failed("partial")]
        BY <3>3 DEF TestSecret
      <4> QED
        BY <3>0, <4>1
    <3>4. CASE TestPublic(r) \/ ReadPublic(r) \/ Generate(r) \/ OpenPublic(r)
               \/ WritePublic(r) \/ OpenSecret(r)
      BY <3>4 DEF TestPublic, ReadPublic, Generate, OpenPublic, WritePublic, OpenSecret
    <3>5. CASE Abort(r)
      BY <3>0, <3>5 DEF Abort
    <3> QED
      BY <2>2, <3>1, <3>2, <3>3, <3>4, <3>5 DEF Step
  <2>3. CASE UNCHANGED vars
    BY <2>1, <2>3 DEF vars, Succeeded
  <2>4. CASE Next
    <3>1. PICK r \in Run : Step(r) \/ Abort(r)
      BY <2>4 DEF Next
    <3>2. \A q \in Run : Succeeded(q)' => Succeeded(q)
      BY <2>2, <3>1 DEF Succeeded
    <3> QED
      BY <2>1, <3>2
  <2> QED
    BY <1>1, <2>3, <2>4
<1>2. [Settled => Settled' /\ UNCHANGED files]_vars /\ DirectoryInv /\ [Next]_vars
        => [Spoiled => /\ Spoiled' /\ UNCHANGED files
                      /\ \A r \in Run : Succeeded(r)' => Succeeded(r)]_vars
  BY <1>1 DEF Spoiled
<1> QED
  BY <1>2, SettledFinal, DirectoryInvariant, PTL DEF Spec, SettledIsFinal
=============================================================================
