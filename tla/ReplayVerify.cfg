\* Two items in all: entries of the timeline, a frame or evidence bundle and a
\* substrate binding of any tenant and case; one edit of the document or of the files;
\* two invocations, between and in which files may change.
CONSTANTS
    Tenant = {t1, t2}
    Case = {c1, c2}
    Agent = {a1}
    Human = {h1}
    AttributeList <- MCAttributeList
    None = None
    Malformed = Malformed
    MaxEntries = 2
    MaxSealed = 1
    MaxBindings = 1
    MaxItems = 2
    MaxEdits = 1
    MaxRuns = 2
SYMMETRY Symmetry
SPECIFICATION Spec
CHECK_DEADLOCK FALSE
INVARIANTS
    TypeOK
    NoFalseAlarm
    ReportIsConsistent
    RefsResolveUniquely
    BlobsMatchRoots
    RunsAgree
    BindingsAreRecorded
