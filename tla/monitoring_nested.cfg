SPECIFICATION Spec
CONSTANTS
    NULL = NULL
    m1 = m1
    m2 = m2
    u1 = u1
    u2 = u2
    k1 = k1
    e1 = e1
    k2 = k2
    Mgr <- OneManager
    Sub <- TwoSubscribers
    Client <- OneClient
    Scoped <- NoClient
    Vault <- NoVault
    MaxDepth = 2
SYMMETRY SubSymmetry
INVARIANTS
    SubscribersLive
    EventsPaired
