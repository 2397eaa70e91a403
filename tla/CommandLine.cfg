\* Three invocations in any mode, those that sign one after the other; the bundle
\* file is replaced once, any transcript is handed in.
CONSTANTS
    Run = {r1, r2, r3}
    None = None
    Absent = Absent
    Torn = Torn
    Overlap = FALSE
    Sound = {sound}
    Lenient = {lenient}
    Failing = {}
    Unparsable = {text}
    Undecodable = Undecodable
    WrongLength = WrongLength
    NotJson = NotJson
    Other = Other
    MaxReplacements = 1
SYMMETRY Symmetry
SPECIFICATION LineSpec
CHECK_DEADLOCK FALSE
INVARIANTS
    LineTypeOK
    PairMatches
    FingerprintStable
    AcceptedIsAttested
    ExitZeroMeansVerified
    VerifiersDifferInForm
PROPERTY
    ImplementsRegister
