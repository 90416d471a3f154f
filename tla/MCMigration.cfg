\* Three connections of a process that is restarted as any of five builds, any number of
\* times; steps of two statements.
CONSTANTS
    Migrators = {m1, m2, m3}
    Lists <- Builds
    Statements = 2
SYMMETRY MigratorSymmetry
SPECIFICATION Spec
INVARIANTS AppliedWhole HonestReport
PROPERTY MismatchUntouched
CHECK_DEADLOCK FALSE
