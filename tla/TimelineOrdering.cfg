\* Two sessions, four entries, a clock that may advance, one edit.
CONSTANTS
    Session = {s1, s2}
    Receipt = {r1}
    None = None
    Malformed = Malformed
    MaxEntries = 4
    MaxTime = 1
    MaxEdits = 1
SPECIFICATION Spec
CHECK_DEADLOCK FALSE
INVARIANTS
    TypeOK
    VerdictIsOrder
    FailureIsFirstInversion
    WalkFollowsTimeline
