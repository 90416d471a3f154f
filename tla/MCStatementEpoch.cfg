\* The same instance; the property is what query_native.h says of the schema epoch.
CONSTANTS
    Types = {INTEGER, VARCHAR}
    MaxEpoch = 5
    MaxRows = 3
    WordBits = 2
    NoType = NoType
    None = None
SYMMETRY TypeSymmetry
SPECIFICATION Spec
INVARIANT ValidatedExecution
CHECK_DEADLOCK FALSE
