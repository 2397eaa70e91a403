\* One run that signs, one that cross-checks what it printed.
CONSTANTS
    Run = {r1, r2}
    None = None
    Absent = Absent
    Torn = Torn
    Overlap = FALSE
    Sound = {sound}
    Lenient = {}
    Failing = {failing}
    Unparsable = {}
    Undecodable = Undecodable
    WrongLength = WrongLength
    NotJson = NotJson
    Other = Other
    MaxReplacements = 0
SYMMETRY Symmetry
SPECIFICATION LineSpec
CHECK_DEADLOCK FALSE
INVARIANT CrossCheckVerifiesBundle
