\* Three runs on one directory, in any interleaving, with kills at any step.
CONSTANTS
    Run = {r1, r2, r3}
    None = None
    Absent = Absent
    Torn = Torn
    Overlap = TRUE
SPECIFICATION FairSpec
CHECK_DEADLOCK FALSE
INVARIANTS
    TypeOK
    SecretImpliesPublic
    SoleCreatorSafe
PROPERTIES
    SettledIsFinal
    RunsEnd
