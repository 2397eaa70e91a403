\* Two sessions, up to three entries, up to two edits: every walk order, two
\* invocations.
CONSTANTS
    Session = {s1, s2}
    Receipt = {r1, r2}
    None = None
    Malformed = Malformed
    MaxEntries = 3
    MaxTime = 0
    MaxEdits = 2
    MaxRuns = 2
SYMMETRY Symmetry
SPECIFICATION Spec
CHECK_DEADLOCK FALSE
INVARIANTS
    TypeOK
    VerdictIsLinkage
    FailureIsFirstBreak
    WalkersAgree
    VerifiedIsRecorded
    UntouchedPasses
