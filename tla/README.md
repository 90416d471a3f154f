# A TLA+ verification of duckdb.ml

`duckdb.ml` is an OxCaml binding for DuckDB: a core library of scoped databases,
connections, transactions and statements, C stubs that call the engine, and two
adapters that put a pool of connections behind an Async or an Eio interface. What
its types guarantee (parameters, rows, the lifetime of `local` handles) needs no
model. What they do not guarantee is here: which thread is inside the engine, who
closes what and in which order, what a cancellation may still reach, what a caller
is told, and which rows a transaction commits.

Paths below are relative to the repository (`lib/...` is `src/lib/...` in
`PROJECT.json`). Module names are those of the `.tla` files in this directory.

## Inventory

| Component | State | Operations | Talks to |
|---|---|---|---|
| Async pool, `lib/async/duckdb_async.ml` | lifecycle, queue, slots with owner, lease and helper, requests with latch and outcome, the maintenance helper | admit, dispatch, settle, maintenance (close, connect, close database), cancel, shutdown | helpers by jobs and continuations, Worker |
| Eio pool, `lib/eio/duckdb_eio.ml` | permits (a semaphore), idle connections, `owned`, requests, lifecycle, failures | create, submit (producer and caller fibers), cancel, shutdown, drain daemon | fibers by promises, Worker |
| Worker, `lib/worker/duckdb_worker.ml` | a thread-local callback marker | one bridged request per call | core |
| Bridged requests, `Resource.Bridge` and `lib/ffi/resource_stubs.c` | request state and latch, native request, native guard, phase of the connection, controller thread | request, run, cancel, deliver, quiesce, discard | the engine's interrupt |
| Databases, connections, transactions, statements: `lib/duckdb/resource.ml`, `query.ml` | gates (state, busy, lease, request lease, result owner), registered children, the engine's transaction | connect, admission, `with_transaction`, prepare, execute, close by hand and by force | condition variables between threads |
| Statement cache and typed requests, `request.ml`, `resource.ml` | the cached statements of a connection | find, add, evict, lend, run | statements |
| Prepared statements and parameter validation: `query.ml`, `prepared_stubs.c`, `typed_stubs.c`, `view_stubs.c`, `query_native.h` | the native owner (statement, result, chunk, cached vectors, copied text), bound flags, schema epoch and validated epoch | prepare, bind, reset, execute, validate, recheck, publish, fetch, read, close | the engine's snapshots, other connections' DDL |
| Typed ingestion: `request.ml`, `appender.ml`, `lib/ffi/appender_stubs.c` | appender status and sticky failure, staging chunks, the engine's buffer, poison of the transaction | open, append, append_columns, flush, close | transactions |
| Migrations, `migration.ml` | the history table | pending, apply | transactions |
| Parquet, `parquet.ml`, `local_file_stubs.c` | a temporary file | reserve, copy, publish, remove | transactions, the file system |
| Tables, `table.ml` | none (catalog against declaration) | create, verify | statements |
| SQL builder, codecs, decoding, facade, FFI declarations | none beyond a call | - | - |

What is hard in it: OCaml system threads that share `Owned` handles and meet at a
gate with one condition variable; a controller thread that interrupts the engine
while the worker leaves it; helpers whose continuations run when everything else
may have changed; fibers that are cancelled between being handed a permit and
running; cleanups that fail half way; a buffering appender whose destructor flushes.
There is no message loss and nothing of the library's own that survives a crash,
except the migration history, a table of the database.

The properties that make each part correct are stated in its module, each with the
behaviour of the code it is about. `PROJECT.json` lists the hazards, each at its line
with the properties that would catch it.

## Modules

| Module | Models | Runs |
|---|---|---|
| `Pool` | abstract: what a pool of connections promises | - |
| `AsyncPool` | the Async pool; implements `Pool` | `async_pool`, `async_pool_liveness`, `async_pool_starvation` |
| `AsyncPoolProofs` | theorems about `AsyncPool` | - |
| `EioPool` | the Eio pool; implements `Pool` | `eio_pool` |
| `EioPoolProofs` | theorems about `EioPool` | - |
| `BridgeRun` | a request inside `Bridge.run`, its controller, the native guard and the engine's interrupt | `bridge_run` |
| `BridgeRunProofs` | theorems about `BridgeRun` | - |
| `Gate` | the record of a gate and its tests, used by `ConnectionGate` and `StatementCache` | - |
| `ConnectionGate` | threads that share databases, connections, transactions, statements and requests | `connection_gate` |
| `ConnectionGateProofs` | theorems about `ConnectionGate` | - |
| `Statement` | one prepared statement over its native owner, and the schema epoch | `statement`, `schema_epoch` |
| `StatementProofs` | theorems about `Statement` | - |
| `StatementCache` | threads that run typed requests through the cache of one connection | `statement_cache` |
| `Ingest` | appenders inside a transaction | `ingest` |
| `IngestProofs` | theorems about `Ingest` | - |
| `Migration` | `Migration.apply` by several connections, through crashes and other builds | `migration` |
| `MigrationProofs` | theorems about `Migration` | - |
| `ParquetExport` | `Parquet.export` by several callers with one destination | `parquet_export` |
| `ParquetExportProofs` | theorems about `ParquetExport` | - |

`MC...` modules add symmetry sets and restricted specifications for TLC. Operators
marked "mutant" are deliberately wrong variants of the definition after them, which
show that the property named in `PROJECT.json` notices the difference; nothing else
uses them.

### How the models correspond to the code

**AsyncPool.** One scheduler thread owns the pool, so each handler is one action:
`Admit`, `Cancel`, `Shutdown`, and the continuations of helpers, each with all it
calls (`stop`, `pump`, `dispatch_waiting`, `finish`). The helper's part of a job
(enter the gate, execute, return) is a separate action, because anything may happen
between the hand-over, the run and the continuation. `slots` is a function from
list positions; the code's `List.find` is the least position. Connections are
abstracted to whether a request that forbids reuse ran on them. A finished handle
may be forgotten and its identity used again, so a finite set of requests stands for
an endless stream.

**BridgeRun.** The worker's program counter follows `Bridge.run` down to the native
calls; the controller has its own. A mutex held for a whole step is not a variable;
the native guard, which is tried and held across steps, is. The engine's interrupt flag is
external: it is set by `duckdb_interrupt`, cleared when a call begins, and only
observed by a call in progress. `fatal` records every `caml_fatal_error` and assert.

**Gate and ConnectionGate.** Threads are program counters with locals. An operation
that is refused changes nothing and is no step. `Condition.wait` puts a thread into
`asleep` until a signal, so a missing signal is a lost wake-up and shows in
`ScopesEnd`. `Escaping` says which handles threads other than the owner use:
transaction tokens, statements and the facade of a request are `local`, so the type
checker keeps them in their scope, and the checks at run time are the second line of
defence (`docs/design/core-redesign.md`); the runs include all three.

**EioPool.** Fibers of one domain switch only where they fork, await, wait for a
permit or offload, so a step goes from one such point to the next. The semaphore is
modelled with its hand-over: a released permit goes to the first waiter, which then
runs later, unless it is removed first. `create` is included with its failures and
cancellation.

**Pool**, the contract of `duckdb_async.mli` and `duckdb_eio.mli`. Its state is the phase
of the pool, the stage and the answer of every request, who has leased which slot and
which slots have a connection fit for new work. A step may move several requests at
once, so the next-state relation constrains the pool, each request and the leases
separately: an answer is final, what was withdrawn never runs, work begins only while
the pool is open and on a fit connection lent to it, failed work leaves its connection
unfit, a request is not answered before a fit connection has taken the place of the one
it had (as long as the pool is open), only work that succeeded gives back the very
connection it used, and the pool ends after its last lease returned. The last but one is
what a late cancellation meets: its interrupt may still be on the way to a connection
whose work returned Ok, so that connection must be replaced too.
The refinement mappings stand at the end of `AsyncPool` and `EioPool` (`PoolPhase`,
`PoolStage`). In the Async pool a lease is the slot's `lease` field and fitness is an
owner that only successful `Execute` requests used; in the Eio pool a lease is the slot
of the producer fiber, and fitness that the slot's connection is not tainted.
`PoolImplemented` is `Pool!Spec` under that mapping, a property of both pools' runs.

**Statement.** One thread uses the statement, since admission is exclusive
(`ConnectionGate`); it moves from one native call, epoch read or latch test to the next,
and each native call can fail, be suppressed by the latch or end in an exception. `nat`
has the native owner of the statement and of the fresh copy that validation prepares;
`live` is the counter of `duckdb_ml_acquired` and `duckdb_ml_released`. The other
connection's DDL takes effect between the two advances of `schema_epoch`, by itself or
at the COMMIT of a transaction. Snapshots are the engine's (external): taken by the first
use in a transaction. The parameter's type stands for the parameter list. The chunk views
of `view_stubs.c` are pure operators (`NullCount`, `FirstNull`, `Blit`), with words of
`WordBits` bits, checked against row-by-row definitions.

**StatementCache.** `with_statement` with its three ways (cached, scoped, added), the
loan as two assignments to `child.transaction`, eviction and removal through
`force_close_child`, whose wait is a guard. Each operation on a statement is admitted in
one step and finished in another. Refusals are steps here, since the request then goes
on to give back its loan. The two operations of `validate` are one.

**Migration.** The engine (external) commits a step's statements and its row together
and refuses a key that is committed already. Checksum and name are one value. `Restart`
is the death of the process at any point, with another build as the next one.

**ParquetExport.** Each system call is a step with its failures; the pieces of the native
work record are a set; other programs create and remove the destination at any time; a
cancellation is latched at any time. `link` is the only step that can make the
destination. `owned` says that the scope which removes the file has been entered: a
`Break` becomes an exception where `with_async_exns` ends, so it may also come
between `temp_file` and that scope.

**Ingest.** One transaction, a body that may ignore every error, and staging chunks
as arrays of cells with a value and a validity bit, both of which survive into the
next batch unless the code resets them. Every engine call can fail with any part of
its effect done. The engine may flush by itself while it appends. Batches of any
mixture of good, NULL, forbidden, invalid and rejected rows are inputs.

## What the runs show

* `async_pool`: two connections, two queue places, four requests alive (symmetric).
  Leases are disciplined, no work is forgotten, requests start in order, cancellation
  decides the classification, shutdown is ordered, and the pool implements `Pool`.
* `async_pool_liveness`: two connections, one place, three requests: the queue is full in
  it, and requests settle and shutdowns complete.
* `async_pool_starvation` fails, as it should: with three connections, `pump` always
  serves the first slot that needs it, so a steady stream of successful requests on
  the first two keeps the third slot's finished request from ever being published.
  `duckdb_async.mli:88` says that a completion settles after the required
  maintenance. Two connections are not enough for this: `async_pool_liveness`
  passes with the same fairness.
* `eio_pool`: creation to end with two connections, one waiting place, three requests
  that go round and a fourth that finds the queue full. Permits and slots stay paired,
  nothing leaks, answers are honest, the pool implements `Pool`, every submit returns
  and every drain ends.
* `bridge_run`: two requests of one canceller on one connection. The native protocol
  never reaches one of its aborts, a late interrupt reaches neither the rollback nor the
  next request, and a cancelled run returns and says so.
* `connection_gate`: two threads and two connections. One thread at a time is inside the
  engine, nothing outlives its parent or keeps the engine's transaction open, commits are
  reported as they were, and every scope ends.
* `statement`: one statement from preparation to close with every failure, while another
  connection changes the schema. Native memory is accounted for, reads stay in the
  current chunk, the word-wise views are exact, a validated epoch keeps its meaning and
  nothing that was silently converted is committed or returned.
* `schema_epoch` fails, as it should: the engine makes a change visible inside the call,
  the epoch advances after it, so `query_native.h:41` ("a reader that sees no change
  across a window knows no schema change became visible in it") does not hold for a
  reader in between. The properties of `statement` say what is true outside of that
  window.
* `statement_cache` fails, as it should: two threads share an `Owned` connection and run
  the same request. The first has borrowed the cached statement outside any transaction;
  the second starts a transaction and borrows the same statement, which overwrites
  `child.transaction`; the first one's bind and execute are then admitted inside the
  transaction. `duckdb.mli:217` promises that a transaction is exclusive and that other
  use of the connection returns Busy.
* `ingest`: chunks of two rows, batches of up to three, two batches and two
  appenders: a batch may be empty, end on a chunk boundary, before or after it, and
  find the chunk an earlier batch left. A committed transaction has exactly the
  batches that were reported as appended, and after a failure neither an append, nor the
  flush at the close, nor the engine's destructor gives the table anything.
* `migration`: three connections and five builds (an edited step, one put in between, one
  with versions out of order). The database is always what its bookkeeping table says,
  whole steps in order; a history that does not fit is left alone; `apply` reports what
  it did.
* `parquet_export`: three exports race for a destination. Whatever fails, is cancelled or
  raises, no temporary file is left without a report, except in one case that
  `NothingLeftBehind` names: a `Break` after `temp_file` made the file and before the
  scope at `parquet.ml:70` owns it leaves an empty file, and the export raises. A
  cancellation, the case that the comment at `parquet.ml:44` speaks of, cannot come
  between the two. Only whole copies are linked, nothing is replaced.

**Callers that are held back.** Three runs restrict what callers begin, so that liveness
stays in TLC's reach; a restriction never stops an action that is fair, so the
behaviours checked are behaviours of the module's own fair specification.
`CancelledAloneSpec` (Async) lets callers cancel one active request at a time and not
submit the last one meanwhile; `async_pool` has the unrestricted system for safety.
`PlainSpec` (gate) opens the second connection only for callers that use neither
statements nor bridged requests, which see no connection but their own. `CallersSpec`
(Eio) has one cancelled caller at a time, one request at a time whose connection is
replaced although it succeeded, and a last caller who comes only when the others have
filled the pool; the other three are alike, and `SubmitReturns` is stated of one of them.

**Bounds.** `QueueCapacity`, `Connections` and the request sets are the smallest at
which a request waits behind another, two slots compete for the helper, the queue is
full and something is refused. `MaxRows`, `MaxBatches`, `MaxAppenders`, `VectorSize`
and `Retained` bound `Ingest`; 16 and 2048 in the code are only compared with
counts. `MaxEpoch` bounds the schema epoch of `Statement`: one change in
a transaction, or two outside of one, besides the statement's own. `MaxRows` and
`WordBits` (3 and 2) put a chunk's end inside, at and before the end of a word.
`Statements`, `Requests` and `Capacity` of `StatementCache` (4, 2 and 1) allow an eviction
while each thread has a statement. No counter is capped anywhere else.

**Fairness.** Threads and fibers that can run do run, engine calls return (in
`BridgeRun` only interrupted ones and rollbacks must), helpers finish their jobs.
`ConnectionGate` also assumes strongly that callbacks return (`SF` on `Leave`): the
application's code leaves its scope even if others use the connection meanwhile.
Nobody has to submit, cancel, close or shut down anything. Deadlock checking is off,
because a closed pool or a finished transaction may stop; the liveness
properties say what must not.

## What is proved

Each model that keeps its promises has a proof module, in which an inductive invariant
`IInv` is proved for every value of the constants and the properties that the runs check
follow from it; TLC checked each `IInv` on the run's instance before it was proved. A
proof goes through the actions one by one: first what the action does to the fields, then
each part of `IInv` from that. The assumptions on the constants are those declared in the
models, which every run evaluates; those on markers (`NoRequest`, `NoSlot`, `None`,
`NoType`, `Nobody`) only say that a marker is none of the values it stands beside.

| Proof module | Theorems (property) | Assumptions on the constants |
|---|---|---|
| `AsyncPoolProofs` | `PoolInvariant`; `TypeCorrect` (`TypeOK`), `LeasesSound` (`LeaseDiscipline`), `NothingIsForgotten` (`NothingForgotten`), `CancelledNeverSucceeds` (`CancellationWins`), `ShutdownIsOrdered` (`OrderedShutdown`), `QueueIsFair` (`FirstInFirstOut`), `PoolIsImplemented` (`PoolImplemented`) | `LimitsAssumption`: a connection at least, as `Limits.create` demands |
| `EioPoolProofs` | `TypeCorrect`, `PermitsMatchSlots` (`PermitsAndSlots`), `AnswersAreHonest` (`HonestAnswer`), `ConnectionsAreKept` (`NothingLeaks`), `PoolIsImplemented` (`PoolImplemented`) | `LimitsAssumption`, `NoSlotAssumption` |
| `BridgeRunProofs` | `TypeCorrect`, `AbortsUnreachable` (`NeverFatal`), `InterruptsAreContained` (`InterruptContained`), `CancellationsAreReported` (`CancellationReported`) | `RequestsAssumption` |
| `ConnectionGateProofs` | `TypeCorrect`, `AdmissionExcludes` (`ExclusiveUse`), `NothingOutlivesOwner` (`NothingOutlives`), `OutcomesAreHonest` (`HonestOutcome`) | `EscapingAssumption`, `ConnectionsAssumption`, `NobodyAssumption` |
| `StatementProofs` | `TypeCorrect`, `ResourcesAreAccounted` (`Accounted`), `ReadsAreInBounds` (`ReadsInBounds`), `ViewsAreExact` (`ViewsExact`), `ValidationIsSound` (`ValidationSound`), `ConversionsAreContained` (`NothingConverted`) | `BoundsAssumption`, `ValuesAssumption` |
| `IngestProofs` | `TypeCorrect`, `CommittedIsAccepted` (`CommittedExactly`), `FailuresTakeNothing` (`FailedTakesNothing`) | `BoundsAssumption` |
| `MigrationProofs` | `TypeCorrect`, `StepsAreWhole` (`AppliedWhole`), `ReportsAreHonest` (`HonestReport`), `MismatchIsUntouched` (`MismatchUntouched`) | `ListsAssumption` |
| `ParquetExportProofs` | `TypeCorrect`, `ExportsLeaveNothing` (`NothingLeftBehind`), `ExportsNeverOverwrite` (`NoOverwrite`) | `NamesAssumption` |

None of the properties is inductive by itself. What each invariant adds, and why:

**AsyncPool.** A request is on exactly one slot while it is active and no two slots share
one (`Discipline`), the maintenance helper's job and the slot that is Closing or Connecting
name each other (`Serving`), the queue holds exactly the queued requests, each once
(`QueueSound`), no slot idles behind a queue (`NoIdle`) and whatever `pump` would do is done
(`Pumped`). One lemma for each action stands on lemmas for what the code's helpers keep:
`PumpKeeps`, `StopKeeps`, `DispatchKeeps`, `WaitingKeeps`, `FinishLeaseKeeps`,
`RemoveAtIs`. The step that needs thought is `WaitingIs`: when a slot becomes idle behind a
queue it was the only idle one, so one dispatch is enough. `Honesty` (what the record of a
request may claim at each of its states) and `Orderly` (how far a shutdown is) are two
more invariants on top of `IInv`, for the classification and the shutdown. The order of
the queue is an action property: it follows from the same facts about a single step.
`PoolIsImplemented` is the refinement. Beside the three invariants it needs `Fit`: an idle
slot, one whose request has not begun and one whose `Execute` succeeded have a clean owner,
a result is known exactly while its connection retires, no queued request is cancelled, and
a pool that stops has latched every active request. The abstract stage of a request is read
off its state and its helper's job (`StageIs`, where the guards of the mapping are shown not
to overlap). Then every step of the scheduler does one of a few things to each slot
(`Stays`, `Lends`), to each request (`Moves`) and to the pool (`Advances`); that such a step
keeps `Fit` (`StepFits`) and is one of `Pool` (`StepImplements`) is proved once, and each
action only says which of them it does (`CallerAllowed`, `SettleAllowed`, ...). The helper
of a slot is apart (`Works`): only on its steps does work begin or return.

**EioPool.** `Counted` ties three counts together: permits that are free, permits that
requests hold, and idle connections, with the requests that were handed a permit but have
not run yet. Without those, the two steps between the release of a permit and the taking
of a slot could not be balanced. `Waiting` says that who waits is in the queue once, `Shape`
and `Truthful` what one request's record may claim, `Exclusive` and `Kept` who may touch
which connection, `Creating` and `Draining` how far `create` and the daemon are.
`PoolIsImplemented` is the refinement: it needs that the connections to be lent are fit
(`Fit`), and sorts what a step does to a request into staying where it is (`Steady`) and
going on (`Moving`), so that the three parts of a step of `Pool` are proved once and each
action only says which of the two happens to whom.

**BridgeRun.** Each program counter of the worker fixes the flags of the connection
(`Leased`, `Balanced`, `Closing`), which native requests exist and are installed (`Stored`),
where a controller may be alive (`Controlled`), which requests a canceller on its way
through its list has reached (`Reached`), and what is left to do with a connection that an
interrupt has touched (`Contained`). `NeverFatal` needs all but the last two.

**ConnectionGate.** For every thread: its scope and where it leads (`ScopedAt`), what that
holds of the gate (`HeldAt`), what its admission promises (`AdmittedAt`), that it destroys
what was made in it (`EndedAt`), what is left of the engine's transaction (`EngineAt`), what
its outcome will be (`JudgedAt`) and what it has of the database (`SharedAt`). For every
statement its scopes (`ListedAt`), for every two threads that their claims exclude each
other (`ExcludesAt`), for every connection how gate, handle and database agree
(`ConnectionAt`). A step of one thread is shown to leave the others alone once
(`StepKeeps`), from what they rely on (`Bystander`, `Spared`, `Served`). The sets of threads
and connections may be infinite.

**Statement.** Every advance of the epoch that was begun has room (`Roomy`); what the owners
hold at each native call (`Owners`), with the counter of live resources (`Counted`); that
the cached pointers are those of the current chunk (`Viewed`); what the thread's transaction
and the other connection are doing (`InScope`, `OtherScope`); what an epoch that was read
earlier still says when it is compared (`Dated`), what a validated one does (`Sound`,
`Resolved`); and that whatever ran with converted values has a transaction that cannot
commit (`Contained`). `ViewsAreExact` is about operators: the words of a mask cover its rows
and do not overlap, so the first NULL bit of the first word that has one is the first NULL
row (`FirstIs`), and the count of each word is that of its NULL rows (`WordCounts`). The sum
over the words (`MapThenSumSet`) is a recursive function. What it computes is shown without
an induction theorem (`CountsAdd`): the number of NULL rows in a set of words satisfies the
equation that defines it, so the equation has a solution, and a smallest set of words on
which another solution gave something else would contradict the equation.

**Ingest.** Which errors stick (`Sticky`), how far a call is (`Calling`), that the staging
chunks hold the rows of the batch being appended (`Staging`), and that what the engine has
is what was accepted and then the first rows of the batch in progress (`Balance`), with
some arithmetic of chunks: products are opaque to the prover, so the split of an index into
chunk and row is a lemma of its own.

**Migration.** A migrator reads the history once and works from it, while others commit.
What makes that safe (`Working`): until the process ends the history stays a prefix of the
list, the steps a migrator has left begin within that prefix or right after it, and the key
of its next step is free only in the second case. `HistorySound` says that the rows are
finite and that `Ordered` lists each once, by version; that neighbours in order put a whole
list in order is argued from the least counterexample (`Least`).

**ParquetExport.** What an export owns at each point (`Owns`), what it has linked
(`Linking`), and what the outcome it carries has settled already (`Reported`). A file that
is there at the end is `not_removed`, or `Stranded` since the reservation (`Ended`).

**Only model-checked:**

* liveness: `RequestSettles`, `ShutdownCompletes`, `SubmitReturns`, `DrainEnds`,
  `CancelCompletes` and `ScopesEnd` (fairness and ENABLED are out of the prover's reach);
* the three runs that expect a violation: there is nothing to prove.

## What is not modelled

* Creation of the Async pool (`reserve`, `initialize`, `create`): the model starts
  with an open pool. `lifecycle_failure` (`duckdb_async.ml:169`, called from the monitor
  that `create` sets up): an exception of the pool's own continuations, which stops the
  pool as a shutdown does and is reported by it.
* A facade whose parent handle is closed by hand in the very moment a request imports
  it, and finalizers: the fallback for handles an application leaks.
* `force_close_child` waits until it is admitted and competes with other threads; it
  may starve, and nothing here claims it does not.
* Allocation failures inside staging.
* SQL text, codecs, decoding and bulk arrays: conversions without state, typed by
  GADTs. The comparison of a table declaration with the catalog: a reference definition
  would repeat it. Per-value accessors and metadata queries of statements.
* In `StatementCache`: closing the connection while a request runs, exceptions between
  two operations of a request, the fold over chunks (it is one operation that ends with
  the result closed, like `close_result`).
* A second process on the database of `Migration`: the engine's file lock keeps it out.
  A crash in `ParquetExport`: the code leaves the temporary file to the user. A second
  `Break` while its cleanup completes the first.
* The engine: its transactions, interrupt flag and appender are modelled from how the
  stubs use them.

Observations made while modelling, not violations of a property above: the drain of
the Eio pool both awaits every producer and acquires every permit, and either one
would do; a batch that a codec rejects leaves the staging pool at its size until the
next successful append, while `docs/design/performance.md` says that it is cut back
after each append; `begin_discard` may move a closed gate through `Closing` again
without an effect.

More on threads that share a cached statement, besides `statement_cache`. The same model
reaches a state in which no thread is in a call and a cached statement still owns the
connection's result: closing the result was refused as Busy while the other thread's
bind was inside, and nobody tries again, so every later operation on the connection is
Busy (`docs/design/typed-requests.md:144`: "A cached statement never has a live result
between calls"). From reading, not checked: a thread may execute with values the other
one bound (the bound values are not in the model); two misses of one request enter it
twice, after which `cache_find`, which wants a single entry, misses until one is
evicted; a `cache_remove` inside a transaction that meets such a duplicate waits for its
own lease; a `cache_add` after `close_connection` emptied the cache enters a statement
nobody closes.

## Plan

Done: `AsyncPool`, `BridgeRun`, `Gate`, `ConnectionGate`, `EioPool`, `Ingest`, `Statement`,
`StatementCache`, `Migration`, `ParquetExport`, `Pool` with its two refinements, and the
proofs listed above.

Left: every safety invariant and action property that a passing run checks has its theorem,
and both refinements of `Pool` are proved. Liveness stays with TLC.
