\* Two invocations on one document with two broken sessions.
CONSTANTS
    Session = {s1, s2}
    Receipt = {r1, r2}
    None = None
    Malformed = Malformed
    MaxEntries = 2
    MaxTime = 0
    MaxEdits = 2
    MaxRuns = 2
SPECIFICATION Spec
CHECK_DEADLOCK FALSE
INVARIANT ReportsIdentical
