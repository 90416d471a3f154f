\* Two connections and one place in the queue for three requests that go round and a
\* fourth that finds the queue full.
CONSTANTS
    Requests = {r1, r2, r3, r4}
    Connections = 2
    QueueCapacity = 1
    NoSlot = NoSlot
SPECIFICATION CallersSpec
INVARIANTS TypeOK PermitsAndSlots HonestAnswer NothingLeaks
PROPERTIES PoolImplemented SubmitReturns DrainEnds
CHECK_DEADLOCK FALSE
