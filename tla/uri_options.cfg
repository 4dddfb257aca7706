SPECIFICATION Spec
CONSTANTS
    NULL = NULL
    Int32Max = 200
    MinStaleness = 90
    MaxCalls = 2
    Text <- Strings
    Spellings <- OtherSpellings
    Calls <- SomeCalls
INVARIANTS
    SameOutcome
    ClientConsistent
    TlsAsAsked
CHECK_DEADLOCK FALSE
