\* An agent's chain and a human's, one action, one edit of an exported graph.
CONSTANTS
    Agent = {a1}
    Human = {h1}
    Scope = {s1}
    None = None
    Malformed = Malformed
    Fractional = FALSE
    MaxEvents = 3
    MaxActions = 1
    MaxTime = 1
    MaxEdits = 1
SPECIFICATION Spec
CHECK_DEADLOCK FALSE
INVARIANTS
    TypeOK
    VerdictIsAuthority
    ModeNamesTheCause
    PassedChainsArePrefixes
    TipsPinTheChain
    UntouchedIsJudged
