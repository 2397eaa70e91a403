\* One chain, one action, one edit: an effective_at is moved.
CONSTANTS
    Agent = {a1}
    Human = {}
    Scope = {s1}
    None = None
    Malformed = Malformed
    Fractional = FALSE
    MaxEvents = 2
    MaxActions = 1
    MaxTime = 2
    MaxEdits = 1
SPECIFICATION Spec
CHECK_DEADLOCK FALSE
INVARIANT EffectiveAtIsBound
