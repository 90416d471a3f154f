\* Two connections, two places in the queue and requests for all of them, so that
\* requests overtake each other, wait together and compete for maintenance.
CONSTANTS
    Requests = {r1, r2, r3, r4}
    Connections = 2
    QueueCapacity = 2
    NoRequest = NoRequest
SYMMETRY RequestSymmetry
SPECIFICATION Spec
INVARIANTS LeaseDiscipline NothingForgotten OrderedShutdown CancellationWins
PROPERTIES FirstInFirstOut PoolImplemented
CHECK_DEADLOCK FALSE
