# A TLA+ model of odbc_scanner

`odbc_scanner` is a DuckDB extension in C++. It adds SQL functions that open connections
through the ODBC driver manager, run queries on them as table functions (`odbc_query`), and copy
rows of a DuckDB query to a remote table (`odbc_copy`). This directory models what is hard
to test in it: connections and parameters that are addressed by raw ids from SQL and shared by
threads, a copy whose transaction must come to a good end whatever driver call fails, the way of
rows through chunks, batches and cached bindings, a value put together from parts by drivers that differ, the
conversions a value goes through between two type systems, and lists read twice while others change them.
TLC checks small instances; TLAPS proves every safety property the passing runs check, for every instance: of connections,
parameters, queries, copies, long values, the way of a value through the conversions, and the lists.

Run `tlc -workers 2 -config <run>.cfg <module>` and `tlapm <module>_proofs.tla` here;
`PROJECT.json` lists runs, mutants, the source lines behind each definition, findings, hazards and
theorems.

## The system

| component | state | operations | interaction |
|---|---|---|---|
| registries (`registries.cpp`) | two sets of ids under one mutex; an id is a heap address | `Add`, `Remove` for connections and for parameter vectors | every function takes an object out, uses it, and puts it back |
| connections (`connection.cpp`) | ODBC environment and connection handle, driver kind | constructor, destructor, `ExtractOrOpen` | opened by `odbc_connect` or, one-off, by the bind of a table function |
| scalar functions | none | `odbc_connect`, `odbc_close`, `odbc_begin_transaction`, `odbc_commit`, `odbc_rollback`, `odbc_create_params`, `odbc_bind_params` | one registry transaction each, with `Defer` guards |
| `odbc_query` | bind data (id, statement handle, parameters), global state (the connection), local state | `Bind`, `GlobalInit`, `Query`, destructors | the connection is back in the registry between `Bind` and `GlobalInit` |
| `odbc_copy` | the same, with source reader, batch buffers, bind caches, transaction counters | `Bind`, `GlobalInit`, `Copy` | drives a second DuckDB as source and the ODBC connection as destination |
| parameter binding (`params.cpp`) | `BindCache` per buffer | `Extract`, `SetExpectedTypes`, `BindToOdbc`, `BindToOdbcWithCache` | called by query and copy |
| values and types (`scanner_value.cpp`, `columns.cpp`, `types/`) | a tagged union; buffers bound to columns | extract, coalesce, expect, bind; describe, bind, fetch per type | called for every value |
| variable-length fetch (`varchar_type.cpp`, `blob_type.cpp`) | a buffer that grows | first read, tail, single part, many parts | `SQLGetData` of the driver, read after read |
| quirks (`dbms_quirks.cpp`) | flags and two numbers per connection and call | per-DBMS constants, overriding options | steer every conversion |
| driver and data source lists | position of the enumeration in an environment handle | two passes, up to four attempts | the driver manager, whose lists others change |
| mappings, character conversion, diagnostics | none | tables of type names, UTF-8/UTF-16, error texts | called at bind time and on errors |

What is hard about them, and what makes them correct:

* **Registries and connections.** DuckDB runs functions on many threads; ids are kept in SQL variables and
  prepared statements and outlive the objects; addresses are used again. Correct means: one owner at a
  time; a connection is destroyed only on request; none is lost on an error path; `Add` never throws
  out of a destructor; a one-off connection goes with its statement.
* **Parameters.** The same, and the buffers inside the vector are bound to a statement by address. Correct
  means: nobody frees or refills what the driver is about to read, and no two statements read the same buffers.
* **Copy, transactions.** Any driver call can fail, the consumer can stop, the user can have a
  transaction of his own. Correct means: all rows or none, the mode restored, counters that agree with
  the database.
* **Copy, batching.** Four sizes that need not divide one another (result, chunk, batch, remainder), three kinds
  of destination, statements prepared again, bindings kept from earlier executions. Correct means:
  every row once, in order, from the buffer it is in.
* **Query.** Rows must be delivered once across calls, and a statement executed again must start afresh.
* **Values.** A parameter is turned over up to three times (made a DECIMAL, made text, bound by its tag), by options
  that may differ between the call that extracts it and the call that binds it; a column is resolved to a type
  three times, by code that must agree. Numeric edges: 128 bit decimals in two words, their carries and signs;
  fractions of seconds before 1970. Correct means: what the driver reads and what the vector gets is the value.
* **Long values.** Terminators, odd bytes, lengths that are not known or that count the terminator, drivers that
  start every read over. Correct means: the value unit by unit, or an error.
* **Lists.** They are read in two passes and can change in between. Correct means: the list as it was registered, or an error.

## Modules

| module | models | how |
|---|---|---|
| `Ownership` | the promise of a registry | each object is free, in the pool, or with one holder |
| `Registry` | `registries.cpp`, `new` and `delete` | `reg`: the set of ids; `live`, `gen`: the heap; `held[a]`: the `unique_ptr` of call or statement `a`. `Construct`, `Destruct`, `Add`, `Remove` are the steps handlers are made of |
| `ConnLifecycle` | `connection.cpp`, the connection handlers of all functions | one action per atomic piece: what lies between two registry operations is one step, and everything else can come in between |
| `ParamsLifecycle` | `odbc_create_params`, `odbc_bind_params`, `params_handle` of `odbc_query` | a second instance of the registry, with the values of a vector, the types a statement's driver reports, and the statements bound to the buffers; of a value it keeps its kind and whether its expected type is known, which decide if it can be used again and if that overwrites it |
| `CopyTransaction` | `Copy`, `CopyInTransaction` and the transaction functions | `db` is the connection as the driver sees it; one action per phase of a copy, one per way to fail |
| `RowTransfer` | the promise of a transfer of rows | the next rows arrive, it finishes when all have, or fails |
| `QueryExec` | `Query`, `BindParamsAndExecute`, `Columns::Collect` and `CheckSame` | one action per way a call can go; `cursor` is the driver's, and it outlives a run |
| `CopyBatching` | `SourceReader`, `CopyInTransaction`, `BatchSizeForChunk`, `BuildInsertQuery`, `params.cpp` | the loop over chunks and batches; `bound` is the driver's table of bindings, `caches` what the code believes of it |
| `VarLenFetch` | `FetchInternal` of `varchar_type.cpp` and `blob_type.cpp` and the three ways to read the rest | one action per call of `SQLGetData` and per thing done with its answer; a value is its units numbered, so that a lost or repeated one shows |
| `Powers`, `Temporals`, `DbmsQuirks`, `Hugeints` | powers of numbers, `temporal_types.cpp`, `dbms_quirks.cpp`, the 128 bit arithmetic of `decimal_type.cpp`, `scanner_value.cpp` and `uuid_type.cpp` | operators; words, digits and fractions have a size each that is a constant |
| `ScannerValues` | `scanner_value.cpp`, the extraction and binding of parameters in `types/` | the tagged union as a record, one operator per transformation |
| `ColumnTypes` | `columns.cpp`, the switches of `types.cpp`, binding and fetching of columns in `types/` | three resolutions of a column: of its vector, of its buffer, of what is written |
| `ValuePath` | a value from DuckDB to a statement and back, across both of them | one action per call that touches the value, in the order of `odbc_query`, `odbc_bind_params` and `odbc_copy`; any call of the driver may fail |
| `EnvLists` | `odbc_list_drivers.cpp`, `odbc_list_data_sources.cpp` | one action per call of the driver manager; others change the list between any two |
| `MC*` | | symmetry sets, values and constants for TLC |
| `*_proofs` | | lemmas and theorems about the module named: `Registry_proofs` for both of its instances, `ValuePath_proofs` also for the operators of the modules beneath it, `LengthFirst_proofs` for what is read in two passes, the length first: `VarLenFetch` and `EnvLists` |

`ConnLifecycle` and `ParamsLifecycle` extend `Registry`, and each is shown to implement
`Ownership`; `CopyBatching` is shown to implement `RowTransfer`,
and `QueryExec` a sequence of such transfers. Definitions whose name has an
underscore and a suffix (`GlobalInit_LookUp`) are faulty variants of the definition that follows them: with
one in the other's place, a property of the run no longer holds. No specification uses them.

Conventions of the models:

* A call that does not find its id throws an error, or in `odbc_close` reports success, and changes nothing, so it is a
  stuttering step. Where it does change something there is an action: `BindLost`, `HandleGone`, `DropMissed`.
* `MaxGen` bounds how many objects are ever constructed at one address; two suffice for an id that outlives
  its object and comes to denote the next.
* DuckDB runs a copy on one thread, and the global state has the connection to itself, so
  `CopyTransaction` and `CopyBatching` are sequential; the connection's ownership is proved in `ConnLifecycle`.
  `close_connection` ends the copy's connection and is modelled there.
* Failing driver calls are in `CopyTransaction`. `CopyBatching` has only the failures that come from
  a statement that does not fit the rows, so that "it completes" is worth stating.
* A value is a number in the unit of its type, a text its length: conversions are modelled by what they do to it.
  A float is an integer, as nothing calculates with one. The years to seconds of a timestamp are one number of seconds.
* External behaviour, taken from how the code uses it: auto-commit makes every statement a transaction and
  turning it on commits; the driver reads bound buffers at `SQLExecute` and refuses a
  statement whose parameters are not all bound; the source database, which runs with one thread, returns full chunks but
  for the last one of a result. Without a source limit the model allows chunks of any size.

## Runs

| run | instance | shows |
|---|---|---|
| `conn_lifecycle` | 2 addresses, 2 objects at each, 1 call, 2 statements | `ExclusiveOwnership`, `HoldersHold`, `OneOffClosedAfterRun`, `ClosedOnlyOnRequest`, `ImplementsOwnership`, `ConnComesBack` |
| `params_lifecycle` | 2 vectors, 1 call, 2 statements, 2 connections | `ExclusiveOwnership`, `HoldersHold`, `ImplementsOwnership`, `VectorComesBack` |
| `params_shared` | 1 vector of 2 parameters, 1 call, 2 statements, 2 connections; integrals and texts of decimals, 4 kinds of types, both settings of the decimal quirk | `NoSharedBuffers` |
| `copy_transaction` | sources of 1 to 6 rows, batches of 1 and 2, limits 0 to 3 | `AllOrNothing`, `EndsClean`, `RowsAccounted`, `TransactionBounded`, `CopyEnds` |
| `copy_batching` | sources of 0 to 13 rows, chunks up to 6, batches of 1, 3 and 6, limits 0, 6 and 12 | `BoundToRows`, `ImplementsTransfer`, `Completes` |
| `query_exec` | 3 runs of one statement, results of 0 to 7 rows, chunks of 3 | `ExecutedOnce`, `FetchesOwnCursor`, `ImplementsTransfer`, `RefusedOnlyAfterGivenUp` |
| `var_len_fetch` | values of 0 to 13 units, as characters and bytes, first buffer of 3; every kind of driver, with the right and the wrong quirk | `ExactOrThrown`, `PartsMeet`, `ThrowsForAReason`, `Ends` |
| `value_path` | the boundary values of every type, from three sources, 18 settings of DBMS and options, every column that can hold the value, two runs | `ParamArrives`, `NumbersStringified`, `ColumnArrives`, `ElementMatches`, `RefusalsExplained` |
| `env_lists` | lists of 0 to 2 entries of two texts, up to 4 changes by others, chunks of 2 | `ListedWhole` |
| `one_off_leak`, `stale_connection`, `params_given_back` | small, symmetric | three claims of comments and tests that the code does not keep; see below |

Why the bounds are enough. Two statements and a call are needed for one party to hold a connection, a second
to want it and a third to reuse its address; the proofs show that no number of them changes the safety
properties. `params_lifecycle` has one kind of value and of type, as who owns a vector does not depend on them; in
`params_shared` one vector is enough, because the property is about two statements with one, and two parameters let a statement
have one known and one unknown type, and be refused, or fail to bind, at the first or the second value. Floats
are left out there: they do as integrals that are not made DECIMALs. In `copy_transaction` six rows in batches of two meet limits below, at and above a batch, several commits in
one copy, and a short last batch. In `copy_batching` a chunk of six leaves remainders of one and two for a batch of three
and of one to five for a batch of six; twelve rows are two full chunks in one limited result, so that a result
exactly as long as the limit, one shorter and one with nothing after it all occur; rows of fixed width, of
variable width and NULLs alternate out of step with the batches, so that slots change their shape. In `query_exec` results end
inside a chunk, on a chunk boundary and without a row, and a third run sees what the second made of the first one's cursor.
In `var_len_fetch` a buffer of 3 grows to 6, 12 and 24, and values end before, at and behind each of these. In
`value_path` a word has 12 bits, a byte 3, and a DECIMAL 1, 2, 3 or 6 digits by width, so that decimals of each width, two words,
their carry and the limits of every integral type occur; a second has four digits of nanoseconds of which two are
microseconds, so that fractions are rounded, cut and negative. In `env_lists` four changes use up the four attempts, and a list of
two makes the attempt after a mismatch begin at the first, in the middle and at the end.

Some properties in words:

* `OneOffClosedAfterRun` compares generations: that the address is in use again does not count.
* `NoSharedBuffers`: two statements with the same handle on two connections do not execute with the same intact values: a
  known expected type can be set only once (`scanner_value.cpp:469`), and the one way round that, an integral made a DECIMAL anew,
  overwrites the value the other is bound to. The exception is a statement whose driver knows the type of none
  of its parameters. `CollectTypes` (`params.cpp:127`) gives `SQL_TYPE_NULL` when `SQLDescribeParam` fails, which is
  the number of `SQL_PARAM_TYPE_UNKNOWN`, and an unknown type can be set any number of times: then values are shared. The
  property is violated without this exception.
* `AllOrNothing` is for copies in one transaction whose clean-up works and that nobody stops. The code
  promises nothing when the rollback or the final commit fails (outcome `broken`), or when the
  consumer stops (outcome `stopped`): auto-commit then stays off. The row `completed = TRUE` is returned
  one call before the commit.
* `TransactionBounded`: a transaction is committed only after it has become longer than
  `max_records_in_transaction`, so it can exceed the limit by one batch and no more.
* `BoundToRows`: at every `SQLExecute` the driver's bindings are exactly those of the rows to insert, though most are
  kept from earlier executions.
* `RefusedOnlyAfterGivenUp`: an ODBC driver refuses to execute a statement whose cursor is open. `Query` closes the cursor when
  it has seen the last row; after a run that was stopped (`LIMIT`) or failed half way it stays open, and without
  `reset_stmt_before_execute` later runs are refused. With `ignore_exec_failure` they then silently return
  nothing (outcome `hidden`), and so does every run after them. Drivers that close an old cursor by themselves behave like those with the quirk.
* `Completes` leaves out `dest_query` without `dest_query_single`: a chunk that is no multiple of the batch is then
  refused, by `SetExpectedTypes` or, for a remainder, by the driver.
* `ExactOrThrown` holds though quirk and driver may not fit and the driver may count terminators in the length it reports
  for a part it has cut: the lengths give it away. The one mismatch they cannot is a driver that starts each read over and knows no length, without
  `var_len_data_single_part`: it is read part after part, and its first units come again. `PartsMeet` is why it
  holds otherwise.
* `ParamArrives` names every loss on the way to the driver, `ColumnArrives` every loss on the way back; see below. Both
  hold again when the statement is run again, with what the first run has made of the value.
* `ElementMatches`: the vector's element type is chosen when the statement is bound (`ResolveColumnType`), and what is
  written is chosen per row by other code (`FetchAndSetResult`), which casts the vector's data.
* `RefusalsExplained`: a TIME out of `odbc_bind_params`, which knows the quirks of the connection and no options, is put into a
  struct that a query with its own `time_params_as_ss_time2` does not take; a known expected type can be set only once, so
  a handle serves one execution unless its types are unknown. There are no other mistyped values, and never a mistyped buffer.
* `ListedWhole` is about an attempt nobody disturbed. While lists change an attempt can return a mixture of
  before and after, if the lengths agree.

Deadlock is not checked where a run may rightly stop: `MaxGen` or `MaxRuns` is used up, the value has arrived, the
list is returned, or the copy is over.

### Fairness

`ConnLifecycle` and `ParamsLifecycle`: a callback that has been entered runs to its end (there is
no wait inside, the mutex is held for a few instructions), and DuckDB destroys the state of a function it has run.
Nobody need call anything, so no step that begins a call is fair. `CopyTransaction` and `CopyBatching`: DuckDB calls a
table function as long as it returns rows; a driver call returns, if only with an error. `VarLenFetch`: the code between
two calls is sequential, and a call returns. `QueryExec`, `ValuePath` and `EnvLists` have no liveness property and no fairness.

### Findings

* `one_off_leak`: a connection opened from a string is registered before the rest of the bind, and closed only by
  the end of a run. A bind that fails, or a statement that is never run, leaves it open under an id nobody has.
* `stale_connection`: between bind and run a connection can be closed and another constructed at its
  address. The statement runs with the wrong connection in its hands, and with `close_connection` closes it.
* `params_given_back`: `BindParamsAndExecute` gives the parameters back before `SQLExecute` has read them.

Other things the models show, which no document or comment of the repository contradicts. Those with a property in parentheses are
named exceptions of it: the property guards the remaining cases, and is violated without its exceptions.

* (`NoSharedBuffers`) With a driver that does not describe parameters two statements with one handle, on two connections,
  execute on the same buffers, and a handle serves any number of executions.
* (a stuttering step of `ConnLifecycle`) `odbc_close` of a connection that someone has taken out is reported as a success, and the connection
  stays open. The comment at `odbc_close.cpp:29` says only that it does not throw.
* (`DropMissed` of `ParamsLifecycle`) The end of a statement leaves its vector in the registry when another call has it at this moment; the user
  still has the handle.
* (`ParamArrives`) `TransformIntegralToDecimal` (`scanner_value.cpp:482`) fills the lower word only: with
  `integral_params_as_decimals` a negative number reaches the driver as that number + 2^64.
* (`ColumnArrives`) `ParseHugeInt` (`decimal_type.cpp:248`) estimates the carry between its words as `hi.lower / (max / 10)`,
  without the digit it adds: for some numbers just above a multiple of a tenth of a word it is off by one. 18446744073709551616 (2^64),
  read as text, comes out as 0.
* (`ParamArrives`) Nanosecond timestamps before 1970: `temporal_types.cpp:70` cuts the fraction from a negative number, and within
  the last microsecond before a whole second the SQLUINTEGER wraps around. `RoundTimestampNanoFraction` counts the digits of the number
  of nanoseconds, not those behind the point, so it cuts too little of a short one, never too much.
* (`ColumnArrives`) `temporal_types.cpp:491` adds the fraction to the absolute value of a time before 1970: the nanosecond timestamp
  comes out as far before the second as it should be after it.
* (`ParamArrives`) A VARCHAR of the option `params` ends at its first NUL; the year of a DATE is cast to 16 bits; a TIME without
  `time_params_as_ss_time2` has no fraction.
* (`NumbersStringified`) `params.cpp:137` says that numbers for character targets are turned into text. A DECIMAL, and an integral
  made one before, are not.
* (`ListedWhole`) `ReadDriverLengths` (`odbc_list_drivers.cpp:106`) begins with `SQL_FETCH_NEXT`, where its counterpart for data sources
  begins with the first entry. The attempt after a mismatch counts only the drivers behind the one that
  had changed, and returns as many from the beginning of the list: none at all when it was the last.
* (in `FetchDecimal` of `ColumnTypes`, no property) the scale of a decimal read as text is computed and not used: a text with other digits behind the
  point than the column's scale is taken for another number. The model gives texts the scale of their column.

## What is proved

`ConnLifecycle_proofs`: for arbitrary sets of addresses, calls and statements and any
`MaxGen`, from `RegistryAssumption` and `ConnAssumption` (the null pointer is no address, an actor is
either a call or a statement, and two labels are no actors).

| theorem | statement |
|---|---|
| `TypeCorrect` | `Spec => []TypeOK` |
| `OwnershipExclusive` | `Spec => []ExclusiveOwnership` |
| `HoldersAlwaysHold` | `Spec => []HoldersHold` |
| `OneOffClosed` | `Spec => []OneOffClosedAfterRun` |
| `ClosedOnRequestOnly` | `Spec => ClosedOnlyOnRequest` |
| `OwnershipImplemented` | `Spec => ImplementsOwnership` |

The argument. `ExclusiveOwnership` is not inductive by itself: that a step of a handler finds an object in its
`unique_ptr` depends on `HoldersHold`, and what `GlobalDestroy` destroys depends on what the bind data says. The inductive
invariant is the conjunction of `Own` (types of the registry and exclusive ownership), the type of `pc`, `HoldersHold`,
the types of the handlers' variables, and `BindOK` for each statement, which ties the place a statement stands at to its
id, its options, the generation of the connection it was bound on, and the connection it holds.
`Registry_proofs` shows once that `Construct`, `Destruct`, `Add` and `Remove` preserve `Own`, and what each
does to the owner of every object; `CallInv` and `StmtInv` have one step per action and use these
lemmas only. For the refinement, each action is one step of `Ownership` for the address concerned and leaves the owner of
every other address alone (`OwnerOfOthers`), or leaves all owners alone.

`QueryExec_proofs`: for any vector size but zero, any bound on the rows of a result and any number of runs (`QueryAssumption`).

| theorem | statement |
|---|---|
| `QueryTypeCorrect` | `Spec => []TypeOK` |
| `QueryExecutedOnce` | `Spec => []ExecutedOnce` |
| `QueryOwnCursor` | `Spec => []FetchesOwnCursor` |
| `QueryRefused` | `Spec => RefusedOnlyAfterGivenUp` |
| `QueryImplementsTransfer` | `Spec => ImplementsTransfer` |

The argument. What a call returns depends on the cursor, and the cursor may belong to an earlier run. The inductive invariant
`QInv` adds to `TypeOK` that the rows returned are the first of this run's result (`OutIsPrefix`), and what each state of
the run says about cursor, position and effects (`StateOK`): in state `executed` the cursor is this run's and stands
behind the last row returned; in state `exhausted` it is closed and all rows are out; between runs it is closed if the last
one ended well. `Returned` and `RowsOfCursor` are about one call; `StepShape` says that a step returns more rows, ends the
run, or begins one, and the refinement follows.

`ParamsLifecycle_proofs`: for arbitrary sets of addresses, calls, statements and connections, any `MaxGen`, any number of parameters but
zero, and any selection of values, reported types and settings of the quirk (`RegistryAssumption`, `ParamsAssumption`).

| theorem | statement |
|---|---|
| `TypeCorrect` | `Spec => []TypeOK` |
| `OwnershipExclusive` | `Spec => []ExclusiveOwnership` |
| `HoldersAlwaysHold` | `Spec => []HoldersHold` |
| `BuffersNotShared` | `Spec => []NoSharedBuffers` |
| `OwnershipImplemented` | `Spec => ImplementsOwnership` |

The argument. The registry's part is that of `Registry_proofs` once more. `NoSharedBuffers` speaks of two statements that execute; that a third
party does not make it false one step later needs `BuffersOK`: the vector under an execution with intact buffers exists, its
one of its values has a known expected type if the statement's driver reported any (`Serves`), and nobody who cleared it before is still
about to fill it. The step that counts is `BindBuffers` of a second statement, which sets all types: if it leaves the values of the first as
they were, none of them had a known type (`PreparedKnown`), so the first driver had described nothing. That the second has
its values in turn is `PreparedType`.

`CopyTransaction_proofs`: for sources of any length, any batch size and any set of limits (`CopyAssumption`), with any driver call failing.

| theorem | statement |
|---|---|
| `TypeCorrect` | `Spec => []TypeOK` |
| `CopyIsAtomic` | `Spec => []AllOrNothing` |
| `CopyCountsRows` | `Spec => []RowsAccounted` |
| `CopyEndsClean` | `Spec => EndsClean` |
| `CommitsAreBounded` | `Spec => TransactionBounded` |

The argument. The outcome of a copy is decided by its last call, from what the calls before have left: the inductive invariant says
of a running copy in a transaction that auto-commit is off, that the mode to restore is the one it found, that the rows open at the database
are those counted since the last commit, and that nothing is committed while there is no limit (`OwnTransaction`); that the counters never
exceed one another (`Counted`, `CountedOnce`), that the last call begins with all rows inserted (`AllInserted`), and that a copy that is
over has left nothing open (`NothingOpen`). Lemmas say field by field what a commit, a rollback and a change of the mode do.

`CopyBatching_proofs`: for any vector size, any batch sizes that divide it, limits that are multiples of it, and any
pattern of values (`BatchingAssumption`, which is what `Bind` accepts).

| theorem | statement |
|---|---|
| `TypeCorrect` | `Spec => []TypeOK` |
| `BindingsAreFresh` | `Spec => []BoundToRows` |
| `TransferImplemented` | `Spec => ImplementsTransfer` |

The argument. `ReaderOK` is the heart of it: chunks of a limited result are full but for the last, and therefore `LastResult`, which
sees only a number of chunks and the size of the last one, is right (`LastResultRight`). `ChunkOK`, `BatchOK` and `SingleOK` say at each
place of the loop which rows have arrived and which are in the buffers, as an equation of `Len(arrived)` with the reader's
position; `CacheOK` that a cache of the length of its buffer describes the bindings the driver has. That the rows inserted are the
next ones then follows in one step (`NextRowsInserted`).

`LengthFirst_proofs`, of `VarLenFetch`: for any length of a value and any first buffer of more than two units (`HeadAssumption`).

| theorem | statement |
|---|---|
| `TypeCorrect` | `Spec => []TypeOK` |
| `FetchIsExact` | `Spec => []ExactOrThrown` |
| `FetchGivesNoValueUp` | `Spec => []ThrowsForAReason` |
| `FetchPartsMeet` | `Spec => []PartsMeet` |

The argument. Between a call and its answer the driver fills the buffer; `AskedOK` says what is in it and how much was delivered before
the call, `AnsweredOK` what is in it after, and what the length reported proves about that. `SpaceOK` ties buffer and request together. That
the buffer holds more than two units is needed: a first part of one character could not be told from a report that counts the
terminator. The code's buffers hold 4096 and 8192.

`LengthFirst_proofs`, of `EnvLists`: for lists of any texts and any length, chunks of any size but zero, and any number of changes by
others (`ListAssumption`).

| theorem | statement |
|---|---|
| `ListInvariant` | `ListSpec => []ListInv` |
| `ListsAreWhole` | `ListSpec => []ListedWhole` |
| `RetriesHaveACause` | a new attempt is made only if the list was changed since the last one began, or if that one began in the middle of the list |

The argument. `ListedWhole` speaks of the end, and of attempts that were not disturbed. `AttemptInv` says of the attempt under way that the
entries the environment handle shows are those the attempt began with while nobody changed them; then, if it began with the first entry, the lengths are
those of the first entries, the entries read are the first of the list, and the enumeration stands behind the last one read. Therefore lengths and
entries agree (`RetriesHaveACause`), and the list is whole when both passes have ended. `ListedInv` keeps that for each kind that has been read,
and says that a kind still to read has no rows yet; `RowsInv` that the rows returned are the first of those listed, and all of
them once a chunk was not full.

`ValuePath_proofs`: for every set of values, settings and columns, and every size of words, digits and fractions that meets the
assumptions. `WordAssumption`: a word has an even number of values. `DigitsAssumption`: a DECIMAL fits, with its sign, the type DuckDB keeps its digits
in, and the fields of a GUID are a word. `TenthAssumption`: the number of values of a word ends in the digit 6. `TemporalAssumption`,
`FractionAssumption`: there are at least as many digits of nanoseconds as of microseconds, and a second of nanoseconds fits the fraction of a timestamp.
`PathAssumption`: an integral type has no more values than the DECIMAL it is made can have, and the values are such as DuckDB has (`DuckValue`).
All are true of the code's numbers: words of 64 bits, DECIMALs of 4, 9, 18 and 38 digits, 10^9 nanoseconds.

| theorem | statement |
|---|---|
| `ValuePathInvariant` | `Spec => []Inv` |
| `ValuesTyped` | `Spec => []TypeOK` |
| `EveryParamArrives` | `Spec => []ParamArrives` |
| `EveryNumberStringified` | `Spec => []NumbersStringified` |
| `EveryColumnArrives` | `Spec => []ColumnArrives` |
| `ElementAlwaysMatches` | `Spec => []ElementMatches` |
| `EveryRefusalExplained` | `Spec => []RefusalsExplained` |
| `PowerBySquares` | `Pow` of `temporal_types.cpp`, which goes by the square of the half, is the power |
| `NumericStructReadsBack` | `FetchDecimal` returns the DECIMAL that `ScannerValue(DecimalChunk)` was given |
| `NumericStructMeansTheNumber` | sign and magnitude stand for that number, the smallest one included |
| `NegateTwice`, `FlipTwice` | the negation of a 128 bit number, and the flipped bit of a UUID, are their own inverses |

The argument has four layers.

1. Arithmetic. The library's induction theorems take an operator as a parameter, which the provers cannot give them; induction over numbers is
   therefore by the least number of a set (`Induction`). It gives the laws of powers, and with those of `/` and `%` the lemmas about words, the
   numeric struct, GUIDs, timestamps, and the text of a number: `ParseHugeInt` returns the number unless one of its carries was in doubt.
2. Forms. What `Extract`, `SetExpectedType` and `BindOdbcParam` can make of a value, as equations for each of its fields and each of the tags
   (`ExtractedForm`, `ExpectedParameter`, `BoundForm`). That the parameter arrives is read off them.
3. Columns. A coalesced column is coalesced to itself, so that the buffer and the fetch see one type; the element written is in the class of
   the element declared, for each column and quirk (`ElementWritten`), and holds the driver's number in its unit.
4. Steps. `Inv` says at every step what the value is: `Extracted`, `Expected`, or, from the first run on, `Kept`, whose length is the one the binding
   has stored in it (`ValueInv`); that the driver was told what `BindOdbcParam` makes of it; that the vector was declared for the
   column with the quirks of this query (`ColumnInv`); that the member is the column's and its datum is one the column can have (`DatumInv`); and what
   is stored. `ParamArrives` alone is not inductive: a second run starts from what the first has left in a
   handle, so that the argument must know that expecting and binding a kept value once more leaves it as it was.

`Inv` and `ListInv` hold on the instances of their runs too, where TLC checked them before they were proved.

### Only model-checked

The liveness properties (`ConnComesBack`, `VectorComesBack`, `CopyEnds`, `Completes`, `Ends`): they
need fairness and `ENABLED`, which are beyond the prover. The three claims that the code does not keep are
shown by their runs.

## What is not modelled

* Type mappings (`mappings/`) and the text of generated statements: tables of names, no behaviour over time.
* Character conversion (`widechar.cpp`, `strings.cpp`): calls of a vendored library; the models count characters.
* Diagnostics, registration of the functions and the entry point: pure input and output.
* The names of types (`ToString`, `FromString` in `types.cpp`): used in messages and options.
* The ODBC handles inside a connection and the order in which they are freed, the access token and connection
  strings: one object on one thread. The end of a bound statement while its run is under way.
* The descriptor fields of `SQL_ARD_TYPE` (`decimal_columns_as_ard_type`, `decimal_columns_precision_through_ard`): they
  tell the driver precision and scale, which the model gives it.
* DuckDB binding a statement a second time; the user's own rows in a transaction that a copy joins; the end
  of the process.

`PROJECT.json` gives the reason for each component and for each hazard that no property covers.
