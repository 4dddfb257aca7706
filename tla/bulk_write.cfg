SPECIFICATION Spec
CONSTANTS
    NULL = NULL
    b1 = b1
    b2 = b2
    m1 = m1
    m2 = m2
    s1 = s1
    n1 = n1
    n2 = n2
    Bulk <- TwoBulks
    Mgr <- TwoManagers
    Session <- OneSession
    SessionOf <- StartedByFirst
    DefaultWC <- MixedConcerns
    NS <- TwoNS
    Requests <- SomeRequests
    MaxOps = 1
    MaxDepth = 2
    MaxSent = 2
SYMMETRY Symmetry
INVARIANTS
    ExecutedOnce
    WrittenAsAsked
    SessionAcknowledged
PROPERTY FailureReported
