SPECIFICATION Spec
CONSTANTS
    NULL = NULL
    Server = {a, b}
    SessionOptions <- SomeSessionOptions
    StartOptions <- SomeStartOptions
    Sizes = {0, 2}
    UInt32Max = 15
    ClientOpts <- DefaultConcerns
    MaxUnits = 2
    MaxTxns = 3
    MaxCommits = 2
INVARIANTS
    EffectsOnce
    OneServer
    CommittedAsAsked
CHECK_DEADLOCK FALSE
