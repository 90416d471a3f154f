\* Three connections and an endless stream of requests that all succeed.
CONSTANTS
    Requests = {r1, r2, r3}
    Connections = 3
    QueueCapacity = 0
    NoRequest = NoRequest
SPECIFICATION StreamSpec
PROPERTY RequestSettles
CHECK_DEADLOCK FALSE
