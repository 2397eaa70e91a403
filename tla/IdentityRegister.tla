-------------------------- MODULE IdentityRegister --------------------------
(***************************************************************************)
(* What the key directory promises to the runs that use it: a register of  *)
(* one signing identity that is written at most once and never changes,    *)
(* and every run that is given an identity is given that one.  A creation  *)
(* that dies half way spoils the register for good.                        *)
(***************************************************************************)
CONSTANTS
    Run,        \* invocations of the verifier with --sign
    None        \* no identity yet, or no answer yet

VARIABLES
    identity,   \* None, "spoiled", or the run whose keypair the directory holds
    answer      \* per run: None, "refused", or the identity it was given

registerVars == <<identity, answer>>

RegisterInit == identity = None /\ answer = [r \in Run |-> None]

\* A run that finds no identity creates its own and is given it.
Create(r) == /\ identity = None /\ answer[r] = None
             /\ identity' = r
             /\ answer' = [answer EXCEPT ![r] = r]

\* A creation has left something that is not an identity.
Spoil(r) == /\ identity = None /\ answer[r] = None
            /\ identity' = "spoiled"
            /\ answer' \in {answer, [answer EXCEPT ![r] = "refused"]}

Reuse(r) == /\ identity \in Run /\ answer[r] = None
            /\ answer' = [answer EXCEPT ![r] = identity]
            /\ UNCHANGED identity

\* A run may fail at any time.
Refuse(r) == /\ answer[r] = None
             /\ answer' = [answer EXCEPT ![r] = "refused"]
             /\ UNCHANGED identity

RegisterNext == \E r \in Run : Create(r) \/ Spoil(r) \/ Reuse(r) \/ Refuse(r)

RegisterSpec == RegisterInit /\ [][RegisterNext]_registerVars
=============================================================================
