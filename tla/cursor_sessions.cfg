SPECIFICATION Spec
CONSTANTS
    NULL = NULL
    c1 = c1
    c2 = c2
    s1 = s1
    s2 = s2
    l1 = l1
    l2 = l2
    Cursor <- TwoCursors
    Session <- TwoSessions
    Lsid <- TwoLsids
    MaxDocs = 1
    MaxIndex = 1
    Maps = {"none"}
    Tailable = {FALSE}
    Kinds = {"plain"}
SYMMETRY Symmetry
INVARIANTS
    SessionOutlivesCursor
    SessionsAccounted
    NoUnacknowledgedSession
PROPERTIES
    ReleasedAtExhaustion
