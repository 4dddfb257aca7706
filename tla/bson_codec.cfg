SPECIFICATION Spec
CONSTANTS
    NULL = NULL
    Expansion = 2
    Key <- FieldNames
    Index <- Indexes
    Unserializable <- Classes
    Persistable <- OdmClasses
    Elements <- AllElements
    MaxElements = 6
    Node <- TwoNodes
    Graphs <- MCGraphs
    Maps <- SomeMaps
INVARIANTS
    FieldPathExact
    PathOwned
    DecodedAsMapped
    RecursionDetected
    RoundTrip
CHECK_DEADLOCK FALSE
