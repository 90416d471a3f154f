\* Two threads run the same two requests over one connection whose cache holds one
\* statement.
CONSTANTS
    Threads = {t1, t2}
    Nobody = Nobody
    Requests = {q1, q2}
    Statements = {s1, s2, s3, s4}
    Capacity = 1
    None = None
SPECIFICATION Spec
INVARIANT TransactionExclusive
CHECK_DEADLOCK FALSE
