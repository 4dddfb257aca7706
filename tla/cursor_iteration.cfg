SPECIFICATION Spec
CONSTANTS
    NULL = NULL
    c1 = c1
    c2 = c2
    s1 = s1
    s2 = s2
    l1 = l1
    l2 = l2
    Cursor <- OneCursor
    Session <- NoSessions
    Lsid <- NoSessions
    MaxDocs = 3
    MaxIndex = 4
    Maps = {"none", "native", "class"}
    Tailable = {TRUE, FALSE}
    Kinds = {"plain", "corrupt"}
INVARIANTS
    KeyIsPosition
    ToArrayComplete
PROPERTIES
    IsResultStream
    FailureIsFinal
    ToArrayTerminates
