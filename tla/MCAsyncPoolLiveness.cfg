\* Two connections compete for the maintenance helper under an endless stream, and a
\* third request waits in the queue or finds it full.
CONSTANTS
    Requests = {r1, r2, r3}
    Connections = 2
    QueueCapacity = 1
    NoRequest = NoRequest
SPECIFICATION CancelledAloneSpec
INVARIANT TypeOK
PROPERTIES RequestSettles ShutdownCompletes
CHECK_DEADLOCK FALSE
