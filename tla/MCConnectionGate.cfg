\* Two threads share a connection, its transactions and its statements, or open and
\* close two connections of one database.
CONSTANTS
    Threads = {t1, t2}
    Nobody = Nobody
    Connections = {c1, c2}
    Escaping = {"token", "statement", "facade"}
SPECIFICATION PlainSpec
INVARIANTS TypeOK ExclusiveUse NothingOutlives HonestOutcome
PROPERTY ScopesEnd
CHECK_DEADLOCK FALSE
