\* One chain, one action, no edit, timestamps with half seconds.
CONSTANTS
    Agent = {a1}
    Human = {}
    Scope = {s1}
    None = None
    Malformed = Malformed
    Fractional = TRUE
    MaxEvents = 2
    MaxActions = 1
    MaxTime = 2
    MaxEdits = 0
SPECIFICATION Spec
CHECK_DEADLOCK FALSE
INVARIANT OrderIsChronological
