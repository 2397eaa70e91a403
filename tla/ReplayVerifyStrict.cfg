\* One frame, no edit.
CONSTANTS
    Tenant = {t1, t2}
    Case = {c1, c2}
    Agent = {a1}
    Human = {h1}
    AttributeList <- MCAttributeList
    None = None
    Malformed = Malformed
    MaxEntries = 0
    MaxSealed = 1
    MaxBindings = 0
    MaxItems = 2
    MaxEdits = 0
    MaxRuns = 1
SYMMETRY Symmetry
SPECIFICATION Spec
CHECK_DEADLOCK FALSE
INVARIANT StrictNeedsReferences
