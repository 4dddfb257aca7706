\* A call that trips an assertion of libmongoc ends the process.
CHECK_DEADLOCK FALSE
SPECIFICATION Spec
CONSTANTS
    NULL = NULL
    Int32Max = 5
    Int64Max = 31
    Kilo = 10
    Uint8Max = 5
    UuidTypes = {3, 4}
    UuidSized = {"uuid"}
    MinStaleness = 3
    OidOf <- MCOidOf
    DecimalOf <- MCDecimalOf
    NaN <- MCNaN
    Args <- MCArgs
    Hashes <- MCHashes
    Names <- MCNames
    Documents <- MCDocuments
INVARIANTS
    AlwaysValid
    ReadsBack
