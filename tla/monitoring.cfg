SPECIFICATION Spec
CONSTANTS
    NULL = NULL
    m1 = m1
    m2 = m2
    u1 = u1
    u2 = u2
    k1 = k1
    e1 = e1
    k2 = k2
    Mgr <- TwoManagers
    Sub <- TwoSubscribers
    Client <- ThreeClients
    Scoped <- OneScoped
    Vault <- KeyVault
    MaxDepth = 1
SYMMETRY Symmetry
INVARIANTS
    SubscribersLive
    EventManagerLives
    ManagerAlwaysFound
    EventsPaired
