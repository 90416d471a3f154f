\* Two types the parameter may have, and an epoch that allows one change in a transaction,
\* or one or two by themselves, besides the statement's own.  Three rows in words of two.
CONSTANTS
    Types = {INTEGER, VARCHAR}
    MaxEpoch = 5
    MaxRows = 3
    WordBits = 2
    NoType = NoType
    None = None
SYMMETRY TypeSymmetry
SPECIFICATION Spec
INVARIANTS TypeOK Accounted ReadsInBounds ViewsExact ValidationSound NothingConverted
CHECK_DEADLOCK FALSE
