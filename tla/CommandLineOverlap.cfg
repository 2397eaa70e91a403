\* Two first runs that overlap, and a third one.
CONSTANTS
    Run = {r1, r2, r3}
    None = None
    Absent = Absent
    Torn = Torn
    Overlap = TRUE
    Sound = {sound}
    Lenient = {}
    Failing = {}
    Unparsable = {}
    Undecodable = Undecodable
    WrongLength = WrongLength
    NotJson = NotJson
    Other = Other
    MaxReplacements = 0
SYMMETRY Symmetry
SPECIFICATION LineSpec
CHECK_DEADLOCK FALSE
INVARIANT ExitZeroMeansVerified
