----------------------------- MODULE Migration -----------------------------
(***************************************************************************)
(* Versioned migrations (lib/duckdb/migration.ml): apply brings a database *)
(* from whatever its bookkeeping table says was applied to the list of     *)
(* steps the program was built with.                                       *)
(*                                                                         *)
(* The connections of one process migrate at the same time; the file lock  *)
(* of the engine keeps a second process out.  The process may die anywhere *)
(* and come back as another build of the program, with another list.       *)
(* Statements fail, COMMIT fails, and an exception may hide that a COMMIT  *)
(* succeeded.                                                              *)
(***************************************************************************)
EXTENDS Naturals, SequencesExt

CONSTANTS
    Migrators,   \* connections that call apply
    Lists,       \* the lists of steps of the program's builds
    Statements   \* statements of a step

\* What the checksum covers and the name tell steps of the same version apart.
Step == [version : Nat, checksum : STRING]

ASSUME ListsAssumption == Lists \subseteq Seq(Step) /\ Lists # {} /\ Statements \in Nat \ {0}

VARIABLES
    steps,    \* the list of the running process
    table,    \* "main"."duckdb_ml_migrations" exists
    rows,     \* its committed rows
    effects,  \* what committed statements did to the database, in order
    apply     \* each migrator's call of apply

vars == <<steps, table, rows, effects, apply>>

-----------------------------------------------------------------------------
AllSteps == UNION {Range(list) : list \in Lists}

\* todo: steps left.  applied: versions applied so far.  did: statements the open
\* transaction has executed.
Call == [pc : {"idle", "exists", "create", "read", "apply", "step", "commit", "verify",
               "Ok", "Error", "Mismatch", "Invalid"},
         todo : Seq(AllSteps), applied : Seq(Nat), did : 0..Statements]

NoCall == [pc |-> "idle", todo |-> <<>>, applied |-> <<>>, did |-> 0]

Init ==
    /\ steps \in Lists
    /\ table = FALSE
    /\ rows = {}
    /\ effects = <<>>
    /\ apply = [m \in Migrators |-> NoCall]

Goto(m, pc) == apply' = [apply EXCEPT ![m].pc = pc]

Fail(m) == Goto(m, "Error") /\ UNCHANGED <<table, rows, effects>>

\* ORDER BY "version"
Ordered(set) ==
    CHOOSE list \in [1..Cardinality(set) -> set] :
        \A i, j \in DOMAIN list : i < j => list[i].version < list[j].version

CheckNothing(list) == TRUE  \* mutant: the versions are not checked

\* check_versions
CheckVersions(list) == \A i \in 1..(Len(list) - 1) : list[i].version < list[i + 1].version

PendingByVersion(list, applied) ==  \* mutant: name and checksum are not compared
    LET same(i) == i \in DOMAIN list /\ list[i].version = applied[i].version IN
    IF \A i \in DOMAIN applied : same(i) THEN {SubSeq(list, Len(applied) + 1, Len(list))} ELSE {}

\* pending: the steps not yet applied, or none at the first difference.
Pending(list, applied) ==
    LET same(i) == i \in DOMAIN list /\ list[i] = applied[i] IN
    IF \A i \in DOMAIN applied : same(i) THEN {SubSeq(list, Len(applied) + 1, Len(list))} ELSE {}

-----------------------------------------------------------------------------
Apply(m) ==
    /\ apply[m].pc \in {"idle", "Ok", "Error", "Mismatch", "Invalid"}
    /\ apply' = [apply EXCEPT ![m] =
            [NoCall EXCEPT !.pc = IF CheckVersions(steps) THEN "exists" ELSE "Invalid"]]
    /\ UNCHANGED <<steps, table, rows, effects>>

HistoryExists(m) ==
    /\ apply[m].pc = "exists"
    /\ \/ Goto(m, IF table THEN "read" ELSE "create") /\ UNCHANGED <<table, rows, effects>>
       \/ Fail(m)
    /\ UNCHANGED steps

CreateHistory(m) ==
    /\ apply[m].pc = "create"
    /\ \/ Goto(m, "read") /\ table' = TRUE /\ UNCHANGED <<rows, effects>>
       \/ Fail(m)
    /\ UNCHANGED steps

ReadHistory(m) ==
    /\ apply[m].pc = "read"
    /\ LET pending == Pending(steps, Ordered(rows)) IN
       \/ /\ pending = {} /\ Goto(m, "Mismatch")
          /\ UNCHANGED <<table, rows, effects>>
       \/ /\ \E todo \in pending : apply' = [apply EXCEPT ![m].pc = "apply", ![m].todo = todo]
          /\ UNCHANGED <<table, rows, effects>>
       \/ Fail(m)
    /\ UNCHANGED steps

\* apply_all: the next step in a transaction of its own, or the verification.
ApplyAll(m) ==
    /\ apply[m].pc = "apply"
    /\ \/ apply[m].todo = <<>> /\ Goto(m, "verify") /\ UNCHANGED <<table, rows, effects>>
       \/ /\ apply[m].todo # <<>>
          /\ apply' = [apply EXCEPT ![m].pc = "step", ![m].did = 0]
          /\ UNCHANGED <<table, rows, effects>>
       \/ apply[m].todo # <<>> /\ Fail(m)
    /\ UNCHANGED steps

\* run_statements, or the function of a run step; a failure rolls the step back.
RunStatement(m) ==
    /\ apply[m].pc = "step" /\ apply[m].did < Statements
    /\ \/ apply' = [apply EXCEPT ![m].did = @ + 1] /\ UNCHANGED <<table, rows, effects>>
       \/ Fail(m)
    /\ UNCHANGED steps

KeyFree(s) == \A row \in rows : row.version # s.version

\* The row is inserted; the engine (external) refuses a key that is committed already.
Record(m) ==
    /\ apply[m].pc = "step" /\ apply[m].did = Statements
    /\ \/ KeyFree(Head(apply[m].todo)) /\ Goto(m, "commit") /\ UNCHANGED <<table, rows, effects>>
       \/ Fail(m)
    /\ UNCHANGED steps

Work(s) == [k \in 1..Statements |-> <<s, k>>]

DurableWithoutRow(m) ==  \* mutant: the row is not part of the step's transaction
    LET s == Head(apply[m].todo) IN
    /\ KeyFree(s)
    /\ rows' \in {rows, rows \cup {s}}
    /\ effects' = effects \o Work(s)

\* The step and its row become durable together.  The engine (external) refuses a key
\* another transaction has committed meanwhile.
Durable(m) ==
    LET s == Head(apply[m].todo) IN
    /\ KeyFree(s)
    /\ rows' = rows \cup {s}
    /\ effects' = effects \o Work(s)

\* with_transaction settles.  An exception may come after the commit.
Commit(m) ==
    /\ apply[m].pc = "commit"
    /\ \/ /\ Durable(m)
          /\ apply' = [apply EXCEPT ![m].pc = "apply", ![m].todo = Tail(@), ![m].did = 0,
                           ![m].applied = Append(@, Head(apply[m].todo).version)]
       \/ Durable(m) /\ Goto(m, "Error")
       \/ UNCHANGED <<rows, effects>> /\ Goto(m, "Error")
    /\ UNCHANGED <<steps, table>>

\* verify_all only reads.
Verify(m) ==
    /\ apply[m].pc = "verify"
    /\ \/ Goto(m, "Ok") /\ UNCHANGED <<table, rows, effects>>
       \/ Fail(m)
    /\ UNCHANGED steps

\* The process dies, or ends, and one of the builds is started.
Restart ==
    /\ steps' \in Lists
    /\ apply' = [m \in Migrators |-> NoCall]
    /\ UNCHANGED <<table, rows, effects>>

Next ==
    \/ \E m \in Migrators :
        \/ Apply(m) \/ HistoryExists(m) \/ CreateHistory(m) \/ ReadHistory(m) \/ ApplyAll(m)
        \/ RunStatement(m) \/ Record(m) \/ Commit(m) \/ Verify(m)
    \/ Restart

Spec == Init /\ [][Next]_vars

-----------------------------------------------------------------------------
(* Properties.                                                              *)

TypeOK ==
    /\ steps \in Lists
    /\ table \in BOOLEAN
    /\ rows \subseteq AllSteps
    /\ effects \in Seq(AllSteps \X (1..Statements))
    /\ apply \in [Migrators -> Call]

\* What was done to the database is what the bookkeeping table says: every recorded step
\* whole, once, in the order of the versions, and nothing of a step that is not recorded,
\* through failures, crashes, other builds and concurrent migrators.
AppliedWhole ==
    LET history == Ordered(rows) IN
    /\ Len(effects) = Len(history) * Statements
    /\ \A i \in DOMAIN history, k \in 1..Statements :
        effects[(i - 1) * Statements + k] = Work(history[i])[k]

\* A database whose history is not a prefix of the list, as an edited step, a missing one
\* or an older build makes it, is left as it is.
MismatchUntouched ==
    [][effects' # effects \/ rows' # rows => IsPrefix(Ordered(rows), steps)]_vars

\* apply says Ok only for a database that has all of the list and nothing else, and the
\* versions it returns are the last ones of it; no version is reported by two calls.
HonestReport ==
    \A m \in Migrators :
        LET done == apply[m].applied
            n == Len(steps) - Len(done) IN
        /\ apply[m].pc = "Ok" =>
            Ordered(rows) = steps /\ n >= 0 /\ \A i \in DOMAIN done : done[i] = steps[n + i].version
        /\ \A other \in Migrators \ {m} : Range(done) \cap Range(apply[other].applied) = {}
=============================================================================
