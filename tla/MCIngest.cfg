\* Chunks of two rows and batches of up to three, so that a batch may be empty, fill its
\* last chunk, or need a second one; two batches, so that chunks are used again.
CONSTANTS
    VectorSize = 2
    Retained = 1
    MaxRows = 3
    MaxBatches = 2
    MaxAppenders = 2
SPECIFICATION Spec
INVARIANTS TypeOK CommittedExactly
PROPERTY FailedTakesNothing
CHECK_DEADLOCK FALSE
