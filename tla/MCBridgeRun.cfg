\* Two requests of one canceller, one after the other on one connection.
CONSTANTS
    Requests = {r1, r2}
    NoRequest = NoRequest
SPECIFICATION FairSpec
INVARIANTS TypeOK NeverFatal InterruptContained CancellationReported
PROPERTY CancelCompletes
CHECK_DEADLOCK FALSE
