# SlothDB in TLA+

SlothDB is an embedded analytical SQL database in C++20: a library (with a C API, a shell and a
Python package on top) that opens one database file, keeps all tables in memory, runs SQL over them
and over CSV, Parquet, JSON, Avro, Arrow, Excel and SQLite files, and writes the database file back
when it is closed. This directory models the parts of it where the order of steps matters, checks the
models with TLC on small instances, and proves the most important properties for every instance with
TLAPS. Paths below are relative to the repository.

## 1. The system

| Component | State | Operations | Hard behaviours | What makes it correct |
|---|---|---|---|---|
| **Thread pool** `src/common/thread_pool.cpp` | queue of tasks, `stop_`, `active_tasks_`, two mutexes, two condition variables, worker threads | `Submit`, `WaitAll`, constructor, destructor | notifications outside of mutexes, two counters read apart, shutdown | no wake-up lost, tasks start in order and once, the destructor drains the queue and returns, `WaitAll` returns and only when all is done |
| **Parallel scan** `src/execution/parallel_executor.cpp` | locals of the caller shared with its tasks | `ParallelScanFilter` | exceptions in tasks, lifetime of what tasks capture by reference | every passing row once, errors rethrown, no task outlives the locals it uses |
| **Table storage** `src/storage/data_table.cpp`, `row_group.cpp` | row groups, row count, scan cursors, morsel counter | `Append`, `AppendRowGroups`, `Scan`, `ParallelScan` | scans overtaken by appends, chunks across groups, short morsels | groups tile the table, scans deliver rows in order and once, morsels partition the rows |
| **Database file** `src/main/database.cpp`, `src/storage/file_handle.cpp` | `path`, `path.tmp`, the catalog in memory | open, save on close | crashes, write errors, several processes | what a session saved is there in the next one; a whole image at all times |
| **Checkpoint format** `src/storage/checkpoint.cpp` | file bytes, read position | `Save`, `Load` | torn files, types without an encoding, limits on one side only | `Load` after `Save` is the identity; a torn file is rejected |
| **Writing statements** `src/main/connection.cpp`, `src/execution/physical_planner.cpp` | rows of a table, statement in progress | INSERT, INSERT ... SELECT, UPDATE, DELETE, MERGE, TRUNCATE | check-then-append, failure half way, reading what one writes, several connections | unique key, all or nothing, effect as the statement says |
| **Transactions** `src/transaction/transaction.cpp` | `active_txn_`, undo buffers, `write_txn_id_` | BEGIN, COMMIT, ROLLBACK | interleaved connections | rollback undoes; one writer |
| **Live views** `src/main/connection.cpp`, `table_catalog_entry.hpp` | cached rows, last size, first bytes | CREATE LIVE VIEW, expansion in a SELECT | the file changes between two looks at it; decisions by size; failure after the cache key was updated | a SELECT answers with the rows of the file |
| **Catalog** `src/catalog/` | map of entries under a mutex | create, drop, look up | raw pointers used outside of the mutex | an entry in use is not destroyed |
| **Statement pipeline** `src/main/connection.cpp` | temporary tables, CTE tables | parse, materialise, bind, plan, optimise, execute; set operations, COPY, ALTER, CREATE TABLE AS | clean-up on exceptions, name collisions, folding of set operations | results as in SQL, no temporary table left |
| **Parquet scan** `src/execution/physical_planner.cpp:843` | slots of decoded row groups, two positions, decoding threads | `Init`, `GetData`, `RunParallelRGs`, destructor | decoding ahead in any order, back pressure, a reader that stops early | rows in the order of the file, a group consumed once, nobody waits for ever |
| **Other physical operators** `src/execution/physical_planner.cpp` and the specialised aggregates | per-query hash tables, sort buffers | filter, project, join, aggregate, sort, limit, window | chunks that end in the middle of a match, partitioned parallel phases, top-k cut-offs | equal to the relational definition |
| **Readers** `src/storage/*_reader.cpp`, `parquet.cpp` | position in a file | header, type detection, chunks, parallel ranges | rows split between threads, projected reads, counts without parsing | the same rows by every path |
| **Remote files** `src/storage/http_client.cpp`, `connection.cpp:390` | cache of downloads | resolve | partial and concurrent downloads | a cached file is a complete one |
| **C API** `src/api/slothdb_api.cpp` | handles, result buffers | open, connect, query, fetch | lifetime of pointers | a pointer is valid as long as the header says |
| **Conditions and aggregates** `src/execution/expression_executor.cpp`, `physical_planner.cpp:180` | a condition, its compiled form, one accumulator for each aggregate | evaluate a chunk, test a row while reading, skip a row group | several implementations of one condition, chosen by source, types and statistics | the rows for which the condition is true, by every way |
| **Parser** `src/parser/` | text, position, tree | tokenize, parse a batch | precedence, lookahead, joins and branches attached to nodes built before | the tree means what SQL means by the text |
| Planner, optimizer, scalar functions, compression, shell, `.ask`, extensions, GPU | per call | | none that is concurrent | see section 8 |

How they interact: a `Database` owns the catalog and the transaction manager; connections hold a
reference to it and may run in different threads. `Connection::Query` parses a batch, materialises
what cannot be bound (files, live views, CTEs) into tables of the catalog, binds, plans, optimises and
drains the physical operators, which call `DataTable` and, for large tables, `ParallelScanFilter`,
which uses the global pool. Nothing is written to disk before the `Database` is destroyed.

## 2. Modules

| Module | Models | Composes |
|---|---|---|
| `TaskService` | abstract: tasks started in order, each once | |
| `ThreadPool`, `MCThreadPool`, `ThreadPoolProofs` | the pool, one step per critical section, atomic or notification | implements `TaskService` |
| `ParallelScanFilter`, `MC...`, `...Proofs` | callers, tasks, futures, shared locals | instantiates `TaskService` as its pool |
| `RowStore` | abstract: rows that grow at the end, scans that deliver them in order | |
| `DataTable` | row groups, scan cursors, morsels | implements `RowStore` |
| `DatabaseFile` | open, save on close, crash, full disk, processes | |
| `Checkpoint`, `StorageProofs` | fields of the file, encodings of values, torn files; the proofs about `DatabaseFile`, `Checkpoint` and `DataTable` | what `DatabaseFile` takes as one image |
| `Vectors`, `Question` | the size of a vector and NULL; a query, what was done for it and what is out | extended by the modules that are composed by EXTENDS |
| `TableWrites`, `StatementProofs` | the statements that write a table, transactions; the proofs about them, recursive queries, joins and set operations | calls of `DataTable` as steps |
| `LiveView` | live views over a changing file | |
| `SqlText` | abstract: how standard SQL writes a syntax tree | |
| `Parser` | the tokenizer and the parser | what `SqlText` is the inverse of |
| `ClientApi`, `ConnectionProofs` | results and pointers of the C API; the proofs about them and about live views | |
| `Session` | the statements of connections, the catalog, the tables a statement makes for a while | what `LiveView` and `TableWrites` take as one query |
| `MCConnection` | views, one text, one result, or a script of statements | `LiveView`, `Parser`, `ClientApi`, `Session` |
| `CsvFile`, `CsvFileProofs` | writing CSV files, and every way of reading them | what `LiveView` and COPY take as parsing |
| `MCStorage` | the four modules of what is kept: one of them runs, the others rest | `DatabaseFile`, `Checkpoint`, `CsvFile`, `DataTable` |
| `ParquetScan`, `MCParquetScan`, `ParquetScanProofs` | a scan of row groups by threads, and the LIMIT above it | |
| `SequenceLemmas` | induction, recursion, concatenating the members of a sequence | used by the proof modules about rows, files and results |
| `HashJoin` | a join that fills one chunk per call | |
| `GroupBy` | GROUP BY over row groups: threads, merge, top k | the scan of `ParquetScan` as claims in any order |
| `SetOperations` | chains of UNION, INTERSECT and EXCEPT | |
| `RecursiveQuery` | WITH RECURSIVE | scan and append of `DataTable` as steps |
| `OrderBy` | ORDER BY with LIMIT: full sort, heaps, row groups by statistics, dictionaries | the groups that `ParquetScan` decodes, claimed in any order |
| `Window` | window functions and QUALIFY: partitions, sorting by threads, emitting | |
| `Selection` | WHERE and aggregates without GROUP BY: interpreted, compiled, from statistics or dictionaries | the groups that `ParquetScan` hands out, claimed in any order |
| `MCStatements` | one query of any kind, or two connections that write | `TableWrites` and the seven modules above |

`MCStorage` (which extends `DatabaseFile` and `DataTable` and instantiates the other two), `MCConnection` and `MCStatements` put modules side by side that share no state: a behaviour is one of one of them, and a
property is about the one that runs. An `MC` module names the model values and the small sets that a `.cfg` assigns to constants; a
`Proofs` module holds theorems. Definitions that begin with a comment `Fault:` are not part of any
specification. Each is the definition that follows it with one plausible mistake; putting it in that
one's place makes TLC report the property it is paired with in `PROJECT.json`, which shows that the
property depends on the code.

### ThreadPool
`tasks`, `stop`, `active` are `tasks_`, `stop_`, `active_tasks_`; `mutex` and `waitMutex` name the
holder of the two mutexes; `pc` is the place of each thread, `held` the local `task` of a worker,
`done` the tasks whose future is ready. `WorkerLoop` is `Lock`, `TestFails`, `Block`, `Exit`, `Pop`,
`CountUp`, `Run`, `CountDown`, `NotifyWaiters`; `Submit` is `Submit`, `WakeOne`; `WaitAll` is
`WaitAll`, `WaitTest`, `WaitBlock`; the destructor is `StoreStop`, `NotifyAll`, `Join`. A wait on a
condition variable is test, block, asleep: a notification wakes only threads that are asleep, and
`Spurious` wakes any. Clients stop using the pool before its owner destroys it.

### ParallelScanFilter
A call has locals (scan state, collector, futures); its tasks are closures over them. `Submit` and
`Get` are the two loops of the function; `Claim`, `Collect`, `Throw` are a task's turn of its loop.
`Risky` are the morsels whose rows an expression may throw on (a division, a cast): a task may collect
them or throw. When `Get` finds an exception the call is over ("threw") and the locals are gone; `Dangle`
is a task that goes on after that, for which anything may happen.

### DataTable
A row group is a start row and a sequence of rows, a row is the number it was made with. `Append_`
fills the last group and opens a new one within one call, `AppendRowGroups` puts groups behind the others, and `Push` is
what they have in common; `Scan` moves its cursor the way the loop does; a `ParallelScan` is the atomic `Claim` and the `Read`. Statements call `Append` between their
own calls of `Scan`, so a scan may be overtaken. Data races inside a call (section 8) are left out.

### DatabaseFile
`main` and `tmp` are the files that `path` and `path.tmp` name, so that two processes can write one
file. The destructor is `CreateTmp`, `FinishTmp` or `SaveThrows`, `RemoveMain`, `RenameTmp`. A crash may come
before any of them; a full disk makes a write fail at once or go unnoticed. A catalog is the set of
changes it contains. `overlap` remembers that two processes had the database open at once, `cut` that a crash
fell between the removal and the rename: the properties say what holds apart from these.

### Checkpoint
The file is a sequence of fields as `Save` writes them, and `Load` reads one table header or one row a
step. A value is an integer that stands for it; `WriteValue`, `ReadValue` and `SetValue` say which bytes
are written for a type, which member of the `Value` union is set from them and which one the column's
vector takes. `Reopen` may cut the file anywhere.

### TableWrites
A statement is a record; a step is one call on the table. INSERT ... VALUES is the key check and the
append; INSERT ... SELECT is, per chunk, the fetch, the coercion and checks, the append; UPDATE,
DELETE and MERGE build new rows from all the old ones and then replace the storage; BEGIN, COMMIT and ROLLBACK
do what the transaction manager does, which is nothing to the rows. The table that is read (`source`) and
whether there is a key (`keyed`) are chosen at the start. `overlap` remembers that two statements ran at once and
`rekeyed` that an UPDATE set the key. MERGE keeps one mark per old row and may set one past the end
(`MarksPastEnd`): `Abort` is the outcome in which that ends the process, and the other outcomes go on.

### LiveView
The file is a sequence of bytes; `view` has the cached rows, the size and the beginning that were
recorded. CREATE LIVE VIEW is `CreateQuery`, `CreateStat`, `CreateHead`; a SELECT is `Stat`, `Decide` and
then nothing (a hit), `AppendTail` or `Rescan`; the size that is the seam of an append is the one seen by `Decide` (`select[c].last`). Another program extends, rewrites or removes the file between
any two of these steps. `eligible`, chosen at the start, is whether the view parses only what was appended.
The history variables `versions` (what the file has been), `races` (what came between the steps of what) and
`quiet` (the SELECTs under which it did not change) let the properties say exactly when the decision by size and
beginning is right.

### Parser
A text is a sequence of pieces: words, numbers and the contents of a string are one piece each, everything else is a character, and words are
written in capitals. `Tokenize` makes tokens of them the way `Tokenizer::NextToken` does; `Parse(rule, at)` is the member function of
`Parser` named by the rule, called at a token, and returns the node and the token behind it, or an error. `ParseStatement` and the
rules for each statement follow the code's order of tests; `Attached` is the loop that hangs joins on the sources of a FROM clause.
A node is a record of the fields that the planner reads. After `Tokenize` each step is one turn of the loop over statements, `OneStatement` or `EmptyStatement`, since a parser is local to a call.

### ClientApi
`query` is what a plan returns: types, the types dates are shown as, chunks, or that a set operation has boxed the rows; `Answer` is the end of `Connection::Query`. A
value is a number and its type, so that `GetAs` can say what comes out when another member of the union is read. `state.result` is the `QueryResult`, `state.buffers` the lazily
built columns, `state.cache` and `state.arena` the two vectors of strings with a count of the times they moved, `state.held` the pointers of the client. Every function of the header
that looks at a result or at the catalog is an action; `out` is what the last one returned.

### Session
`query.scripts` gives each thread its statements, a statement the references of its FROM clauses and where each stands. `Tasks` is what
`Connection::Query` does for it, in order; a frame is a running `Query`, and a second one lies above it while a view is expanded or created. A task is one call on the
catalog, or a stretch of code without one, and between two of them the other thread may run. A table comes about by `DropOld`, `Create` and `FillTable`, which are three steps
also where the code has them side by side: `Temporary` for a file, reader or series (`NestedFile`, `ReadCsv`, `FileTable`; `CteCsv` and `CopyCsv` drop nothing first), `Materialize` for a SELECT
(`DerivedTable`, `CteTable`, `RecursiveCte`, `CreateTableAs`), and the same for `KeepView`, `Copy`, `AlterTable` and CREATE TABLE. `BindTable` finds the entry of one reference, `Run`, `AppendRows` and `FillTable` read what was
found, `WriteFile` is the end of a COPY. An entry has a number, so that a plan, a statement or a view that holds one which was dropped is found out ("undefined"). The numbers in names are those of the thread (`state.uid`) or of the
process (`state.ids`); the latter are plain ints, so `ReadCounter` reads one and the step that uses the number writes it back. `state.clash` remembers that two threads were in the increment of one counter, or that
a COPY's plan got the address of another one whose table was not written yet. Rows are the files and tables they came from; `fault` and `fails` say where a statement is to fail. `told` is the catalog as the
answers so far describe it, and the names that are known to be left behind (`ToldNext`, which says in words of its own what each statement leaves); `Sound` and `Meaning` say which statements should succeed and what they read.

### CsvFile
`csv` is the table that a program wants to write and `form` how it writes it: with a header or not, with `\n` or
`\r\n`, with or without an end of the last line (`CSVWriter` itself always writes `\n` and ends the last line). `Write` is
COPY TO; `Copy` is COPY FROM, one pass over all columns; `ScanFile` is `PhysicalFileScan`, which detects the types and
reads the whole file or some columns, in one pass or by ranges (`ReadIntoChunks`); `CountRows` is
`PhysicalCountScan`. A reader of a range is its position, its end and its rows; `ReadChunk` is one call of
`ReadChunk` or `ReadChunkProjected`, in any order among the ranges. A byte is a model value, and the text
of a number with a point or of a timestamp is one byte, since the code tells no more apart.

### ParquetScan
`slots`, `nextDecode`, `nextEmit`, `stop` and `mutex` are shared by the threads, `current` is the reader's own group, `pc` the place of each thread. `GetData` is what a LIMIT above the
scan does in its turn: `LimitReached`, else `NeedsGroup` and `DecodeInline` without threads, or `TakeGroup` and `WaitReady` with
them, then `EmitChunk`. A worker is `ClaimGroup`, `ThrottleTest`, `Sleep`, `Deposit`, `NotifyReady`; if the groups are handed to
a consumer (`RunParallelRGs`) it is `ClaimGroup`, `Consume`. `StopWorkers` is `Quit`, `NotifyAll`, `Join`, `Stopped`, from the
destructor (`Close`) or from `Init` (`Restart`: a join starts its input over). A request (`asked`) is chosen at the start: the mode,
the LIMIT, the groups that statistics skip and those that cannot be decoded. A group that cannot be decoded makes the query fail if the
reader decodes it and ends the process if a worker does. `max_ahead` is read from the vector of threads
while it grows: any number from the own place on is possible.

### HashJoin
A query has a type, a condition, two tables of a key and another column, and how the sizes of its inputs are known. `GetData` and `ReturnChunk`
are the ends of a call; between them one step is one turn of the loops of the code: a match, the end of the matches of a row, a new
row, a new chunk of input, a row of the side that was built. `state` has the operator's members, so that what
`Init` does not reset when a parent starts the join over (`Restart`) stays.

### GroupBy
`query.path` names the table that `ComputeAggregates` chooses for keys and aggregates; the module's head lists them. Threads
`Claim` row groups and `Consume` them into tables of their own; `Join` is the end of the scan, `MergePart` one worker of the second phase,
`Reduce` what one thread does afterwards. Then all groups are emitted (`EmitAll`), the first ones (`EmitFirst`), or those that survive
`Offer` into a heap, `Combine` and `EmitWorst`. A key is a number that is its own hash, so that a part is an interval or a
residue of keys.

### SetOperations
A value is a type and a number. `Bind` finds the common types of the branches (`ComputeSetOpCommonType`, taken from the left by `CommonType`), `TakeBranch` drains one and combines it with
the rows so far, `Finish` sorts and trims. `query.derived` tells the two copies of this code apart, for a statement and for a subquery.
`std::sort` may leave rows that compare equal in any order.

### RecursiveQuery
What the recursive SELECT makes of a row is given (`query.yields`). An iteration is `Iterate`, then `FetchRows` of a chunk of the table and `AppendRows` of what
came of it in turn, then `EndIteration`; `query.fills` is whether chunks of the result are filled up, as a join does, or left as they are, as a filter does.

### OrderBy
`query.path` is the way the plan allows, and the head of the module lists them; `Path` is what the limit leaves of it. A heap is the set of the
rows in it, whose worst row `Push` replaces. With statistics the threads `ClaimGroup`, `CheckThreshold` (which ends the search for all),
`ReadGroup` and `MergeGroup`, each under the lock that is given back in between, and the first group is read before the threads start; otherwise
they `ConsumeGroup` and `MergeHeaps` follows. `Materialise` is the second pass, `ResortByFullKeys` the sort by both
keys of more rows than are wanted. `LimitChunk` is `PhysicalLimit`. `Init` is a join above that starts over.

### Window
`Setup` reads the rows and makes the partitions (`BuildPartitions`); threads `ClaimPartition`, `SortPartition`, `MarkSorted` if there are many rows,
where the mark writes back the bits of the other partitions as they were read; what is not marked is sorted by
`SortOnePartition` when its first row is wanted. `EmitRow` and `VectorisedEmit` are the two loops of `GetData`, with the ranks in
`state.ranks`; `Fallback` is the operator when windows differ in their order. A row that was never set (`stray`) ties or does not: any outcome is possible.

### Selection
A condition is a tree; `Execute` is what `ExpressionExecutor` makes of it for a row, TRUE, FALSE or NULL. `Compiles` and `Predicates` are
`TryCompileSimplePredicate`, which turns an AND of comparisons into tests for the loops that read a file (`EvalSimplePredicates`, `EvalSimplePredicatesChunk`, `CountedHere`),
and `IsRowGroupPruned` is which row groups of a Parquet file are left out. `Start` chooses one of the ways to the answer (`Path`): from the footer, the
statistics or a dictionary at once (`FromMetadata`), by threads that take row groups or ranges in any order (`ConsumeGroup`), or chunk by chunk through `PhysicalFilter` (`ReadChunk`).
`Emit` and `EmitLiteral` return the answer. `NeededColumns` is what the operators ask of the scan; a column that was not asked for is NULL, 0 or the empty text (`AsRead`).
`TruthOf` and `Wanted` are the answer by definition. Ten definitions at the end say where the code answers in another way, and `SelectionIsRight` that it does so nowhere else.

## 3. Runs

Every run finishes in two or three minutes. A "violation" run checks a sentence of the repository that the code
does not keep; `PROJECT.json` quotes it. The passing runs check what the code does promise, so several properties
have a condition; section 7 lists what happens outside of these conditions.

| Run | Shows |
|---|---|
| `ThreadPool_pool` (pass) | Two workers, two client threads and three tasks, spurious wake-ups included: no queued task is forgotten, the destructor drains the queue, WaitAll overlooks only tasks popped and not yet counted; under thread scheduling the pool implements TaskService, every task finishes, and the destructor and WaitAll return unless their notification was missed. |
| `ThreadPool_join` (violation) | The store of stop_, made without mutex_, and the notification fall between a worker's test and its sleep; join waits for ever. |
| `ParallelScanFilter_calls` (pass) | Two calls of two tasks share two workers, and a morsel may make a task of one call throw: a call that returns has every passing row once, had no task that threw and left none behind, and every call ends unless the other threw. |
| `Storage_files` (pass) | Sessions that follow one another, with a crash and a disk that fills up, keep a whole file and what was saved; a saved catalog comes back and a torn one is rejected; CSV files are read alike by COPY, by columns, by ranges and by COUNT(*); scans of a table overtaken by appends deliver its rows in order and once, parallel ones by morsels. |
| `Storage_crash` (violation) | A crash between remove and rename: the next open finds no file and starts empty. |
| `Connection_views` (pass) | Two connections select from a view while the file grows, is rewritten and vanishes: a SELECT sees the file as long as its versions can be told apart, and a rescan is one whole version. Texts of every kind of statement are parsed to what standard SQL means by them. A client of the C API fetches cells and columns in any order: they agree and its pointers stay. A statement after or beside any other reads the tables and files it names, and the catalog keeps what was made and drops what was temporary. |
| `Connection_append` (violation) | The file ends with a newline and a line is appended: the incremental parse skips it. |
| `ParquetScan_groups` (pass) | Two threads decode five row groups ahead of a reader that may stop, start over or be content with a LIMIT, or hand each group to a consumer: rows come in the order of the file and none is missing, each group is consumed once, no thread is too far ahead, and the reader gets its end, and a stopped scan its threads, unless a notification was missed. |
| `Statements_answers` (pass) | Two connections run every statement on a table with or without a key: the key stays unique and each statement has its whole effect or none, while they do not overlap. Queries on small tables: every join in chunks and started over, every path of GROUP BY with any deal of row groups to threads, chains of set operations, recursive queries, every way of sorting with a LIMIT, whichever row groups the threads skip, windows, sorted by threads or by the reader, and selections and aggregates by every way of testing a WHERE clause, give what SQL defines, up to what the README lists. |
| `Statements_limit` (violation) | A bare LIMIT stops the scan when enough groups were seen by any thread: counts are too small, or groups too few. |
| `Statements_union` (violation) | A UNION whose left side has a row twice returns it twice. |
| `Statements_recursion` (violation) | The second iteration finds the rows of the first one again and appends them once more. |

### Bounds, and why they are enough
* **ThreadPool**: two workers, two clients, three tasks: two sleepers, two `Submit`s in flight and
  a queue longer than the number of workers all occur.
* **ParallelScanFilter**: two calls of two tasks on two workers, so that one call's tasks can
  hold all workers; three morsels, one without a passing row and one that may throw in one call.
* **DataTable**: `VECTOR_SIZE` 2 and `ROW_GROUP_SIZE` 3 instead of 2048 and 122880. The code's
  ratio is whole; here it is not, which adds the short last morsel of a full group. Six rows are enough for a chunk
  that spans two groups and for a short group in the middle; one scan and two tasks.
* **DatabaseFile**: a writer and a reader, two changes over any number of sessions, one crash, and three files: `path`, `path.tmp`
  and a file that was renamed away under a process that still writes it. A second crash adds nothing to what one leaves behind: what is kept is only what the files hold. The theorems
  have no bound.
* **Checkpoint**: every type with its boundary values, two tables, two columns, two rows, limits of two so that
  both are exceeded.
* **TableWrites**: keys 1 to 3, tables of up to four rows, chunks of two rows, a copy of two chunks, any three statements of two connections.
  Three are enough to fill the table, to overlap or to roll back what another one wrote, and to see what a failed statement left; the theorems have no bound.
* **LiveView**: lines of one or two bytes and a compared beginning of three bytes, so that the seam falls
  before, in and behind a newline and a change can be inside or outside of the compared beginning; three changes,
  so that a version can come back after another.
* **Parser**: every expression of two operators, and of three where two are the operands of one, so that each level of the grammar meets every other on
  both sides; a statement of each kind with all its clauses, between other statements, and with spaces, line ends or comments between all tokens.
* **ClientApi**: every type of column in two chunks or boxed, with NULLs in the first or the second; three strings held at once, so that the vector grows under two of them.
* **Session**: tables of one and of two columns and a view; every kind of statement, with each kind of reference in each place, failing at each point, followed by one of eleven that would meet what it left; and every pair of ten
  statements that make tables or number them, in two threads, with two addresses for the plans of COPY. Three references in a clause reach the passes from the right; two statements are enough since a statement starts from the catalog and the counters alone.
* **CsvFile**: two columns and up to three rows, with every kind of cell next to every other in one row; chunks of two rows and
  types detected from two rows (100 in the code), so that a third row is in another chunk and was not sampled; two ranges, whose cut
  falls on every byte of some file. COPY FROM is run into text columns, a query over a file with a header.
* **ParquetScan**: five row groups, one empty, one of two chunks; two threads, so that the reader's next group may be the one
  that the slower thread holds and the faster one may be throttled; LIMIT and OFFSET around the ends of a group; the last group broken or skipped.
* **HashJoin**: tables of up to three rows, with NULL, equal keys on both sides and rows without a partner; chunks of two rows, so that a chunk ends within the
  matches of a row, behind them and at the end of the input; a threshold of two rows for starting over.
* **GroupBy**: two or three row groups of up to three rows, whose dictionaries differ in length and order, with NULLs, a negative key and the empty text;
  two threads, two parts, keys up to the largest hash, a table that is flushed after one key.
* **SetOperations**: chains of two and three branches of up to two rows; types that meet in every case of the common type.
* **RecursiveQuery**: a path, a tree, two ways to one row; chunks of two rows; three iterations (1000 in the code) and nine rows (ten million).
* **OrderBy**: files of up to three row groups of at most three rows, with ties within and between groups, a NULL, a negative key and a row that WHERE drops;
  LIMIT around the end of a chunk and of the sizes of heaps; heaps up to three rows (65536 in the code), two rows kept for each one wanted (four in the code), two threads.
* **Window**: up to four rows in up to three partitions, with ties and NULLs; three texts in the cache (256 in the code), threads from four rows on
  (200000 in the code), two threads.
* **Selection**: one or two row groups of up to three rows, with NULLs, equal values in a group, fractions and the empty text; dictionaries in all pages, in the first one or in none, statistics or none;
  every comparison with a literal on either side, and every kind of condition alone, negated or beside another. Numbers are counted in halves, so that a DOUBLE
  may lie between two integers. Left out: integers above 2^53, dates, numbers compared with texts, DISTINCT in an aggregate and columns whose typed reading fails.
* The two connections of `Statements_answers` are interchangeable, and nothing in the modules names one, so TLC takes states that differ in their names as one (SYMMETRY).

### Fairness
`ThreadPool!Fairness`: workers are scheduled (weak fairness), a mutex is granted to a thread that
asks for it again and again (strong fairness on `Lock` and on a client inside a call; without it
`std::mutex` promises nothing at all), and tasks terminate. No client is obliged to call and no spurious
wake-up to occur. `ParallelScanFilter!Fairness` asks for scheduling of the caller and
the tasks, and takes from `TaskService` that the pool starts what is queued, which `ThreadPool_pool`
checks of the pool. `ParquetScan!Fairness` schedules the reader within a call and every worker; nobody has to close a query or call again. No other property needs fairness.

## 4. Abstract specifications
`TaskService` is what `std::future` users rely on: a FIFO whose head is started by an idle worker. `ThreadPool`
implements it with `waiting <- tasks, running <- held, finished <- done`; the safety part is proved
(`PoolImplementsService`), the fairness part checked (`RunsInOrderOnce`). `RowStore` is what a table promises a scan;
`DataTable` implements it with `rows <- Contents` (`ScansInOrderOnce`), which is proved too (`ScansInOrder`). `SqlText` is what a text means: it writes a tree as SQL
defines it, with no parentheses but those that precedence calls for, and the parser must find the tree again (`ParsedAsMeant`).

## 5. Proofs

| Theorem | For every | Says |
|---|---|---|
| `ThreadPoolProofs!TypeCorrect`, `NoWakeUpLost`, `DestructorDrains`, `QuietWindow` | set of workers, clients and tasks | states are well typed, and the three invariants of `ThreadPool_pool` |
| `ThreadPoolProofs!PoolImplementsService` | the same | each step is a step of `TaskService` or none of its variables change |
| `ParallelScanFilterProofs!TypeCorrect`, `ReturnsTheFilter`, `ErrorsAreRethrown`, `LocalsAreSafe` | calls, tasks, workers, morsels, passing and risky ones | states are well typed, and the three invariants of `ParallelScanFilter_calls` |
| `StorageProofs!FileTypeCorrect`, `FileIsWhole`, `NothingSavedIsLost`, `ReplacesWhenReady` | processes, files, changes, crashes | states are well typed, and what `Storage_files` checks of the database file |
| `StorageProofs!ImageInvariant`, `TornFileIsRejected`, `LoadAfterSave` | catalogs of any size, limits of the loader, places where the file is cut | `TornIsRejected`, `RoundTrip` |
| `StorageProofs!TableTypeCorrect`, `ScansInOrder`, `RowsOnce` | vector and group sizes, scans, tasks, rows | states are well typed; `DataTable` implements `RowStore` and no scan ends early (`ScansInOrderOnce`); `EachRowOnce` |
| `StatementProofs!TypeCorrect`, `KeysStayUnique`, `CopyIsAPrefix`, `StatementsAreWhole` | connections, statements, sources, vector sizes | states are well typed, `KeyIsUnique`, `CopiesAPrefix` and the action property `AllOrNothing` |
| `StatementProofs!AllLevelsReached` | rows and what is made of them, vector sizes, limits of iterations and rows, filters and joins | `NothingUnreached` |
| `StatementProofs!JoinsAreRight` | tables, types of joins and the side that is built, vector sizes, limits of a small side | `JoinIsRight` |
| `StatementProofs!SetOperationsAreRight` | chains of any branches, types but dates, orders and limits, in a statement or a subquery | `SetOpsAreRight` |
| `ParquetScanProofs!TypeCorrect`, `RowsComeInOrder`, `GroupsComeInTurn` | row groups and their sizes, threads, requests, vector sizes | states are well typed, `RowsInFileOrder`, `GroupsInTurn` |
| `ConnectionProofs!TypeCorrect`, `RescansAreWhole`, `CurrentWhenToldApart`, `NothingInvented` | connections, files, tails, changes | states are well typed, `WholeVersion`, `SelectIsCurrent`, `OnlyFileRows` |
| `CsvFileProofs!CopiesRoundTrip`, `ScansAlwaysAgree` | tables, columns, forms of the file, projections, sizes of samples and chunks, threads | `CopyRoundTrip`, `ScansAgree` |
| `ConnectionProofs!FetchesAreRight`, `PointersAreValid` | results of the types that the header knows, chunks, catalogs, calls | `FetchesAgree`, `PointersStay` |

No theorem assumes more than the named assumptions of the module it is about.

*ThreadPool.* The inductive invariant ties each mutex to the one thread that is between taking and
releasing it, says that a task is in one place only (the queue without repetition, one worker, or done),
that a worker that is about to block has seen an empty queue under the mutex it still holds,
and that `active` is the number of workers between `CountUp` and `CountDown`. Without the third part
`NoTaskForgotten` is not inductive: a worker about to block would be no different from one that sleeps.

*ParallelScanFilter.* The invariant counts: each morsel below `next_morsel` is collected or held by exactly
one task, a task that finished without an exception saw the end of the morsels, and tasks not yet submitted
are in none of the pool's places. A call returns when all its tasks have finished that way, so all morsels are
collected.

*DatabaseFile.* As long as the sessions follow one another and the disk has room, the invariant says that at most one
process is not closed, describes the files in each state of its destructor (between "ready" and "removed" `tmp` holds its
whole catalog), and says that its catalog contains all that was saved unless a crash has cut a close in two. Without the
part about the catalog, the step that replaces the file could not be shown to keep anything.

*Checkpoint.* `ImageInv` says where in a file each table is: there is a place for every name so that the fields of the tables lie
side by side behind the header (`Laid`, while they are written `Written`), and a file that was cut lacks a field of some table, or a whole table (`Lacks`). The loader is
then always at the place of a table or inside of one; the tables in front of its position are there with all their rows (`Passed`), and the one
it is in has as many rows as fields were read (`Begun`, `Copied`). So it cannot have counted all tables off before it has read the last
field, which a torn file does not have. That a row comes back needs the ranges of the types with 8 and 16 bits (`SignComesBack`).

*LiveView.* For `WholeVersion`: every place that sets the rows of a view that is not eligible sets them from one version of the file; a hit
does not set them, and a SELECT never appends. The invariant adds that a SELECT runs only once the view was
created, which is where its rows first come from a version, and that the seam a SELECT decided on is still the recorded size while no two SELECTs overlap (`SeamKnown`). The other two properties hold as long as nothing they exclude has happened.
`versions` and `races` only grow, so each of their conditions, once false, stays false, and three promises can be kept independently of each other:
`ByLengthInv`, while no two versions have one length (then what was recorded as the size says which version the view holds, even if a change came
between the size and the rescan); `ByContentInv`, while no SELECT meets two versions (then the view is one version in rows, size and
beginning, and the size that a SELECT took for its seam is still the recorded one, `SeamKnown`, except between the decision to rescan and the rescan); `ByLinesInv`, likewise with a part of the rows. The first two
cover the condition of `SelectIsCurrent` (`Current`). That appending gives what parsing the whole file gives is about the parser alone: `Seam` shows that the rows of a
file are those of what it has grown from and those behind the seam, if a line ends on one side of it, and `ParseOn` that a parser may
stop where a line begins and go on from there. TLC checked the three promises on the instance of `Connection_views` first.

*ClientApi.* The result is kept in one of two forms, and `ClientIsKept` says that it never matters which: it is what `Connection::Query` returned, or the same with its rows boxed as well
(`WithShown`), and boxing either gives the rows that the property speaks of, `Shown` (`KeptRows`). Each kind of buffer of a column is unbuilt, or right the way the property says (`BufferIsKept`),
and a mask, once built, is that of its column: `NullsOfAll`, by induction over the chunks, shows that the masks of the chunks side by side are those of the rows side by side. So an answer is right
at the first call, which builds, and at every later one, which finds. An empty result is what the invariant must be careful with, since "no mask yet" and "the mask of no rows" look alike, and so do "not boxed" and "no rows".
For the pointers: the strings of a result are only appended to, so each one stays at its place though the vector moves; the arena has room for both slots after the first call, and
therefore never moves again. The theorems are about the types that `slothdb_column_type` tells a client of (`ResultTypes`), and `MCConnection` checks that the results it asks for are such (`AreClientQueries`).

*SequenceLemmas.* The library's induction theorems take an operator, which the provers here cannot instantiate, so
this module proves induction for a set of numbers from the well-foundedness of `<` (`Induction`), and from it
that a first value and a step determine a function (`Recursion`) and how `FlattenSeq` grows by one member or by several. A recursive function of
a model (`MorselsBefore`, `ParseFrom`, `Push` over the groups of `AppendRowGroups`, `RowsBefore`) is reasoned about through the equations that `Recursion`
shows its `CHOOSE` to satisfy.

*DataTable.* Three parts. `WholeTable`: each group begins where the one before ends, is not empty nor larger than `ROW_GROUP_SIZE`, and
holds the rows numbered from its start, so that the contents are the rows 1 to `total_rows`; both ways of appending are shown to leave
the starts of all groups where they were (`Grown`). `Cursor`: what a scan has delivered is the first k rows, and k is where its cursor stands. This would not be inductive
for a scan that has left a group which then grows, so it also says that a cursor is inside of a group, or in front of an
empty table. `Handed`, while tasks scan: no two tasks hold one morsel, all those held are below `next_morsel`, and the rows
delivered are those of the morsels below it that nobody holds. It needs that the morsels cut the table into runs of rows
that do not overlap and leave no row out (`PieceIs`, `PiecesApart`, `RowHasPiece`), which is the arithmetic of `ParallelScan`.
An unread morsel is what the property cannot tell from a lost one, hence the last part.

*TableWrites.* The invariant speaks of runs in which no two statements overlap (`Solo`): at most one connection has a statement, its `before` is the
table it found, and the rows are what it should have made of them so far: for a copy, `before` and whole chunks from the source, with
at most one chunk fetched; for UPDATE, DELETE and MERGE, the whole result once it is built. That a chunk is whole is needed since a scan finds its place by row number. A check
that was passed (`Fit`, `Conflict`) still holds at the append, as the table has not changed in between; this is where `overlap` matters. Rows have unique
keys unless the table has no key or an UPDATE set one. `Fetch` may read behind the end of a table that another
connection has made shorter (`Past`): the proofs of types cover that too.

*RecursiveQuery.* `IsScanOf` says what a scan has done: behind the table as it was when the scan began (`start`) comes, in the table or still to be
appended, what was made of the rows read so far, whether they were there before or were appended under the scan. When the scan ends it has read at least
`start`, so that the first rows and what is made of `start` are all in the table. `Within` says that a table has all rows of another, each at a place of its
own; it is kept by appending on both sides and by the recursive SELECT (`MadeWithin`), so that the table has one level more (`Upto`) after each iteration. If the table
did not grow, nothing is made of its rows, and it has all levels there could be (`NothingMore`): so the loop may end there. `MCStatements` checks that the
queries it asks are such as the theorem is about (`Recursing`).

*HashJoin.* `ProbeInv` says which pairs are out at each place of the loops: those of the rows of the probe side that are done (`D`), with a padding row for one that has no
partner, those of the row at the cursor up to the match that comes next (`FoundBefore`), and the unmatched rows of the built side in front of `aloneAt`. The rows up to `probed` are done or still
in the chunk, and until a restart none is both, which is why no pair comes twice. A row whose key is found but whose other condition fails is padded only if the chunk has room; that it
always has is one of the conjuncts (`~rowMatched` leaves `n < VectorSize`), since nothing was emitted since the row was begun. That the bucket holds the partners is
`BucketPartners`, from the condition `NullsTold`. After a restart `D` is empty again and `chunk` is not, so that only the set of pairs is kept, and only if the built side is not padded, as
`aloneAt` is not reset. `MCStatements` checks that the joins it asks for are such as the theorem is about (`AreJoins`).

*SetOperations.* `IsPartial` says of the rows on the left, after each branch, that each value is there as often as `TimesAfter` has it so far (`CombinedIsRight`, for each
operator), and that none is there twice unless the operator was UNION ALL. The second part is what makes the first inductive: INTERSECT and EXCEPT keep duplicates on the
left, so they count rightly only if there are none, which `NoDuplicates` grants of the first branch and of no branch behind a UNION ALL. Coercion must not make duplicates of
different values either (`CoercedType`); values of the common type are equal when `operator==` says so, unless they are dates (`EqualIsEqual`). The answer is then any order that
`std::sort` may leave (`TimesOfPermuted`): the place of a row is bounded by how many rows come before it and how many are equal to it (`OrderedRightly`), which are counted
by value (`CountedByValue`). That NULL is no value with a type is an assumption (`NullHasNoType`), and `MCStatements` checks that the chains it asks for are such as the theorem is about (`AreChains`).

*ParquetScan.* `Rowwise` relates the reader's place to what it has delivered: `got` is the rows of the groups before `next_emit`, in order,
and a beginning of the current one; the `answer` is what LIMIT and OFFSET leave of it, added up chunk by chunk (`PassedAdds`); the groups that
`EffectiveGroups` leaves out come behind enough rows. `Claims` is for threads that consume groups: each
group below `next_decode` is consumed, or held by exactly one worker. `NearEnough` carries the distance that a worker tested
from the test to the store in its slot. `Control` says which places of threads go together, so that a restart finds nobody at work.

*CsvFile.* Most of the proof is about bytes. The text of a file is its lines side by side (`Laying`, `IsLaid`), a line the texts of its cells with delimiters between them (`InLine`), and a
text a field as it is or in quotes (`Stands`), unless a cell is `Misread`; so `NextField` finds in a line each field and the place of the next (`NextFieldIs`). The exception is an empty field at the end
of a line, which looks like the end (`Visible`). `RowIs` puts this together for a row, whichever columns are needed, if what is skipped has no byte that would stop the reader
(`Readable`: these are the conditions of `ScansAgree`). The types that the sample finds fit every column that is of one class (`Fitted`), although a sample may end anywhere, may skip an empty last field, and begins as
"varchar" (`WidenedIs`, `WithLineFits`). The ranges of `ReadIntoChunks` lie between cuts that do not go back, and each cut is the start of a row if no cell has a newline (`RangesAre`, `LineStartsAre`). The invariant,
`CsvInvariant`, then says of each reader that it stands at the start of some row of its part, and has the rows of its part up to there (`PartsRead`); when all have come to their ends, what they have, side by side, is the
rows of the file (`JoinedIs`). A count is right because each row has one newline, at its end, but for a last one (`CountIs`).

What the prover cannot do is left to TLC: liveness under fairness, everything that uses `ENABLED`, and modules that reach a RECURSIVE operator
(`Parser` and `SqlText`, `Selection`, `Session`). Not proved, only checked: the answers of groups, windows and sorts, whose definitions are folds over all rows.

## 6. Plan

Done in this order: ThreadPool, DatabaseFile, Checkpoint, DataTable, ParallelScanFilter, TableWrites, LiveView, CsvFile, SetOperations, HashJoin,
ParquetScan, GroupBy, RecursiveQuery, OrderBy, Window, Selection, Parser, ClientApi, Session. Next:

1. `RemoteCache`: downloads by several processes.
2. `Compression`, and the pages of a Parquet file.

Theorems worth proving next: `OrderIsRight` for the paths without threads.

## 7. Known deviations

What the code does where it, its comments or its documentation let one expect otherwise. Six of
these have a run of their own; the others are why a property above has a condition, or follow from a definition.

| At | What happens | What is said |
|---|---|---|
| `thread_pool.cpp:17` | `stop_` is stored without `mutex_`; a worker between its test and its sleep misses the notification and the destructor joins for ever (run `ThreadPool_join`; `JoinsUnlessMissed` says that nothing else keeps it) | `test_parallel.cpp:39-42` |
| `thread_pool.cpp:36` | a task is popped before `active_tasks_` is incremented: `WaitAll` may return while one is about to run (`QuietUpToPopped`) | `thread_pool.hpp:42` "Wait for all submitted tasks to complete." |
| `thread_pool.cpp:39` | the notification for `WaitAll` is sent without `wait_mutex_` and may be missed (`ReturnsUnlessMissed`) | the same |
| `parallel_executor.cpp:94` | the first exception ends the call while its other tasks still use its locals (`Dangle`) | line 93 "Wait for all tasks to complete." |
| `database.cpp:47` | a crash between remove and rename leaves no `path`, and nobody looks at `path.tmp` (run `Storage_crash`; `cut`) | `README.md:191` "Single writer, crash-safe checkpoint." |
| `database.cpp:45` | errors of the last flush and of `fclose` are ignored; an incomplete `path.tmp` replaces `path` (`diskFull`) | line 42 "save on close (atomic: write to .tmp then rename)" |
| `database.cpp:43` | every process saves what it loaded, changed or not: a reader that closes last undoes a writer (`overlap`) | `README.md:309` "Next session, tables are still here" |
| `checkpoint.cpp:148` | HUGEINT, unsigned and TIMESTAMP_TZ values are written as text and read back as something else (`Encoded`, `Restored`) | `DOCUMENTATION.md:279`, `:339` |
| `checkpoint.cpp:295` | Load refuses more tables or rows than Save is content to write (`TooLarge`) | |
| `checkpoint.cpp:217` | PRIMARY KEY and NOT NULL are not saved (`Plain`) | `DOCUMENTATION.md:353-354` |
| `checkpoint.cpp:208` | a live view is saved as a plain table (`Plain`) | `README.md:365` |
| `transaction.cpp:46` | nothing adds an undo record: ROLLBACK undoes nothing (`Rollback`) | `DOCUMENTATION.md:736` "ROLLBACK;  -- nothing was deleted" |
| `connection.cpp:3098` | `write_txn_id_` is never set: two transactions write at once (`Begin`) | `transaction.hpp:61` "Enforces single-writer, snapshot isolation." |
| `physical_planner.cpp:4128` | the key check and the append are two calls; another connection's may come between (`overlap`) | `connection.hpp:91` "Multiple connections can share one Database." |
| `physical_planner.cpp:13919` | UPDATE and DELETE replace the storage: rows that another connection appended since they were read are lost (`overlap`) | `connection.hpp:91` |
| `physical_planner.cpp:13919` | UPDATE does not check the key (`rekeyed`) | `physical_planner.cpp:4127` "Enforce PRIMARY KEY uniqueness before committing the rows." |
| `physical_planner.cpp:13893` | an UPDATE stores a NULL that an expression computes in a key column | `binder.cpp:841-842` "deferred to executor-side enforcement" |
| `connection.cpp:1396` | INSERT INTO t SELECT FROM t reads what it appends, without end once t has a chunk of rows (`Read`) | |
| `connection.cpp:1660` | MERGE marks past the end of `target_matched` for a source that repeats a new key (`Abort`), and converts nothing (`Stored`) | |
| `connection.cpp:1999` | the incremental parse starts behind the next newline and skips the first appended line if the file ended with one (run `Connection_append`) | `DOCUMENTATION.md:443-444` |
| `connection.cpp:1982` | a rewrite that keeps size and first bytes is taken for no change (`ToldApart`) | `DOCUMENTATION.md:429` "only refreshes when the source file actually changes" |
| `connection.cpp:1041` | growth between the query of CREATE LIVE VIEW and its look at the size is missed (`races`) | `table_catalog_entry.hpp:73-75` |
| `connection.cpp:1980`, `:2001` | two SELECTs that both decided to append, by the size each had seen, parse the same tail twice (`select[c].last`, `races`) | `DOCUMENTATION.md:443` |
| `connection.cpp:2011`, `:2019` | a file that changes under a SELECT: rows parsed twice, or a rescan that failed followed by a hit on the old rows, or, with two connections, a hit on rows another one is still replacing (`races`) | `DOCUMENTATION.md:443`, `connection.cpp:2016-2017` |
| `fast_csv_reader.cpp:265` | a doubled quote, which `CSVWriter` writes for a quote, ends the field: what follows it goes to the next column (`Misread`) | `csv_reader.cpp:334`; `test_csv.cpp:132` "COPY round-trip" |
| `csv_reader.cpp:326` | a cell with a carriage return is not quoted and is read as the end of a line (`Misread`) | the same |
| `csv_reader.cpp:322` | NULL and the empty text are written and read alike (`Seen`) | the same |
| `fast_csv_reader.cpp:782` | a range may begin behind a newline inside of quotes; its first row is then the rest of a cell (`ScansAgree`) | line 781 "Snap to next line start so we don't split rows." |
| `fast_csv_reader.cpp:630`, `:714` | columns before the first needed one are skipped by delimiters inside of quotes too, columns behind the last one to a newline inside of quotes (`ScansAgree`) | `fast_csv_reader.hpp:57` "delimiters are still scanned (for line boundaries)" |
| `fast_csv_reader.cpp:345` | text followed by a number within the sample makes a BIGINT column, and the text is read as a number (`OfOneClass`) | `DOCUMENTATION.md:126` "Auto-detected (can be wrong)" |
| `fast_csv_reader.cpp:258` | an empty field at the end of a line is not seen: a last column that is empty in all sampled rows is none of the detected ones (`DetectTypes`; `ScansAgree` speaks of the detected columns) | `DOCUMENTATION.md:126` |
| `fast_csv_reader.cpp:449` | COUNT(*) counts newlines inside of quotes, and one row for a header without a newline (`CountIsRows`) | `fast_csv_reader.hpp:66` "Count remaining rows without parsing fields" |
| `physical_planner.cpp:11095` | a bare LIMIT stops the scan when the threads' tables together have as many groups: counts are too small, groups may be too few (run `Statements_limit`) | `physical_planner.cpp:6029`, `radix_count_agg.hpp:175-177` |
| `connection.cpp:2996`, `:577` | UNION, INTERSECT and EXCEPT keep duplicates of the left side (run `Statements_union`; `NoDuplicates`) | `DOCUMENTATION.md:712` |
| `value.cpp:434`, `:457` | DATE, TIME and TIMESTAMP values are never equal and never less (`Equal`, `Less`) | `connection.cpp:193-197` |
| `connection.cpp:2965` | a chain is taken from the left: INTERSECT does not bind closer (`TakeBranch`) | |
| `connection.cpp:548` | in a subquery, ORDER BY and LIMIT at the end of a chain are for its last branch alone (`Drained`) | `connection.cpp:226-232` |
| `connection.cpp:2726` | every iteration of a recursive query scans the whole table, which it also appends to: rows repeat (run `Statements_recursion`) | `DOCUMENTATION.md:621`, `:631` |
| `physical_planner.cpp:12645` | a join that is started over keeps the chunk it was probing, its position among unmatched rows and the pairs of a CROSS join (`Restart`) | |
| `physical_planner.cpp:13105` | an ON that is one comparison other than an equality joins on the first columns; so does an OR, whose first columns must be equal as well (`query.cond`) | |
| `physical_planner.cpp:12820`, `:13201` | as text, a NULL of the side that is built is "NULL", one of the other side ""; an integer column whose first row is NULL is compared as text too (`NullsTold`) | |
| `physical_planner.cpp:13224` | the side that is looked up is not asked for columns that only a second condition needs; they are read as NULL (`AsRead`) | |
| `physical_planner.cpp:13340` | a join under an aggregate, which is computed without rows of the join, ignores the second condition; it has no module | |
| `radix_count_agg.cpp:1076`, `physical_planner.cpp:7704` | rows with a NULL key are dropped by most GROUP BY paths, and counted with another key by the others (`Dropped`, `NullsApart`) | |
| `agg_emit_helpers.cpp:33` | SUM of no value is NULL, but 0 for two integer keys (`Answer`) | `agg_emit_helpers.cpp:33` "SUM of an empty set (or all-NULL inputs) is NULL" |
| `int_group_agg.cpp:82` | rows with a negative key are dropped (`Dropped`) | |
| `radix_count_agg.cpp:570` | keys with one 64-bit hash are counted as one; the model has no collisions | |
| `physical_planner.cpp:1371` | `stop_` is stored without the mutex of the waits: a worker may miss it and the destructor joins for ever (`StopsUnlessMissed`) | |
| `physical_planner.cpp:1271` | the bound for decoding ahead is read from a vector that is still growing (`Near`) | line 1268 "Bound decode-ahead in slot mode so memory doesn't balloon." |
| `parquet.cpp:1606` | a group that cannot be decoded ends the process if a worker meets it | |
| `physical_planner.cpp:2256` | top texts from dictionaries: each text once per row group, no NULLs, other columns NULL (`BestTexts`, `TextRow`) | line 2231-2232 "`SELECT col ORDER BY col` is the canonical fit." |
| `physical_planner.cpp:2769`, `:2840` | the fast paths put NULLs last, first if descending, whatever NULLS FIRST or LAST says; with statistics a group is left out although it has the NULLs that come first (`NullsPlaced`) | line 2024-2027 "explicit NULLS FIRST/LAST overrides" |
| `physical_planner.cpp:3220` | without statistics the heaps are merged by the buffer, where a NULL is 0 (`OfferRaw`) | |
| `physical_planner.cpp:3801` | with two keys four rows are kept for each one wanted; if more tie, the second key is not seen (`TiesFit`) | line 3791-3793 "Oversample K' = K * 64 in the primitive heap so all ties at the K-th boundary are likely captured" |
| `physical_planner.cpp:3392` | rows with a NULL key are dropped if the input is no Parquet file (`CollectHeap`) | |
| `physical_planner.cpp:3611` | a group whose statistic equals the threshold is left out although it may win by the second key (`CheckThreshold`) | line 3657-3658 |
| `physical_planner.cpp:1975` | a sort that is started over keeps its rows and adds them again (`Init`) | |
| `physical_planner.cpp:4760`, `:4910` | windows read NULL keys as 0 (`NullsReadAsZero`) | |
| `physical_planner.cpp:4791` | once 256 texts are partition keys, the rows that repeat them go to partitions of their own (`CacheFull`) | line 4775 "used if cardinality > cache" |
| `physical_planner.cpp:4476` | RANK and DENSE_RANK in one query share the row before: the second column sees the last row of the first (`RanksShared`) | |
| `physical_planner.cpp:4889` | with a LIMIT the first partition is sorted only so far; LEAD, running sums and QUALIFY look behind that (`PartlySorted`) | line 4891 "Safe for ROW_NUMBER/NTILE/LAG/LEAD since consumer LIMIT stops the emit." |
| `physical_planner.cpp:4285` | ranks are not computed for rows that QUALIFY skips; the next rank compares with an older row or with none (`RankOfRowsSkipped`) | |
| `physical_planner.cpp:5420` | QUALIFY ROW_NUMBER() = 1 leaves one row of each partition before LEAD and SUM are computed (`OneRowLeft`) | |
| `physical_planner.cpp:5798` | a running SUM is the sum of the partition if windows differ (`SumOfPartition`) | line 5145 |
| `physical_planner.cpp:1650` | a filter asks the scan for no column under IS TRUE, IS FALSE or IS UNKNOWN, which is then read as NULL, 0 or the empty text (`Forgotten`) | |
| `physical_planner.cpp:8412` | COUNT(*) over a Parquet file takes `k IN (...)` for `k = 0` (`InCounted`) | |
| `physical_planner.cpp:8373` | COUNT(*) with conditions on a text and on a number is 0 for a row group that has no mask: NULLs, a DOUBLE, no dictionary (`NumberBesideText`) | |
| `physical_planner.cpp:8696` | two or more COUNT(*) with a WHERE clause are answered by the number of rows in the file (`CountsTheFile`) | |
| `physical_planner.cpp:8838` | a row group whose least and greatest value are equal is taken to have no NULLs by COUNT, SUM and AVG (`NullsFolded`) | |
| `physical_planner.cpp:300` | a fraction compared with an integer column loses its fraction (`FractionLost`) | |
| `physical_planner.cpp:9135`, `:9016` | aggregates in parallel have no case for texts: MIN and MAX are NULL, over CSV COUNT is 0 (`TextIgnored`) | |
| `expression_executor.cpp:1740` | `x BETWEEN 2 AND NULL` is NULL also for x = 1, where it is false (`OpenBetween`) | |
| `parquet.cpp:3040` | a group is skipped if the dictionary of its first page lacks a number, although later pages may have none (`PageUnseen`) | `parquet.cpp:3085-3092`, of texts |
| `value.cpp:437`, `binder.cpp:1594` | IN, BETWEEN and IS DISTINCT FROM compare values without converting them: `k IN (1, 2)` is never true of a BIGINT, `k BETWEEN 1 AND 2` never false (`OtherType`) | |
| `parser.cpp:784` | behind a join in parentheses the parser goes on from the first source: in `(a JOIN b ON ..) JOIN c ON ..` the join with b is lost; an alias behind the parentheses goes to the first table, outer joins inside are flattened | `parser.cpp:710-711` |
| `parser.cpp:221` | set operations in parentheses are flattened, INTERSECT binds no closer; ORDER BY and LIMIT behind a query in parentheses are merged into it, and only one set operation may follow | |
| `parser.cpp:1116` | bitwise operators bind as tightly as sums (`SumInBitwise`) | |
| `parser.cpp:934` | `a = b IS TRUE` is refused (`TestOfPredicate`) | |
| `parser.cpp:167` | KEY, INDEX and DEFAULT may name a column but not stand in an expression (`KeywordColumn`) | |
| `parser.cpp:309` | COPY ... WITH ( without a closing parenthesis loops at the end of the text | |
| `tokenizer.cpp:289` | a doubled quote in a quoted identifier ends it | |
| `slothdb_api.cpp:173` | strings of cells are kept in a vector; when it grows, pointers to short ones are left behind (`PointersStay`) | `slothdb.h` "Returned pointer is valid until result is freed." |
| `slothdb_api.cpp:166` | `slothdb_value_double` of a FLOAT or an integer reads another member of the value (`GetAs`) | `slothdb.h` "Get value as double." |
| `slothdb_api.cpp:250` | a column copied from chunks has whatever its NULLs' places hold (`Unreliable`) | `slothdb.h` "NULL values are represented as the type's zero" |
| `slothdb_api.cpp:299` | times and timestamps of boxed rows are cut to 32 bits (`Unreliable`) | |
| `slothdb_api.cpp:468` | tables are looked up by number at every call: if another connection drops one, the columns are those of the next table (`TableDropped`) | |
| `connection.cpp:1743` | names of temporary tables are numbered per thread but kept in one catalog: two threads that select from files drop each other's tables (`Apart`) | `connection.hpp:91` "Multiple connections can share one Database." |
| `connection.cpp:618`, `:1439`, `:2118`, `:2619` | the counters of the process are plain static ints incremented without a lock: two threads may get one number, and one finds the other's table or throws "already exists" (`clash`) | the same |
| `connection.cpp:1486` | COPY's table is named by the address of its plan, which is free for another plan when the rows are in the table but not in the file (`clash`) | the same |
| `connection.cpp:2183` | an alias of a file, reader or series is the name of its table: a table of that name is dropped (`Aliases`) | |
| `connection.cpp:2486` | two files of one format without aliases in one FROM get one name, and both are read from the last (`SameName`) | |
| `connection.cpp:2457` | `FROM 'f.xlsx'`, `.arrow`, `.avro`, `.db` become a READ_ function that was already looked for: "Table not found" (`Accepted`) | `DOCUMENTATION.md:163`, `:207-209` |
| `connection.cpp:887` | CREATE TABLE AS does not prepare files (`Accepted`) | `docs/index.html:747` |
| `connection.cpp:919` | CREATE OR REPLACE TABLE drops the table before it binds the SELECT: it is lost if that fails or reads it (`ReadsItself`, `ToldNext`) | |
| `connection.cpp:2765` | a CTE or derived table whose filling throws stays in the catalog, and its name is taken (`LeftBy`) | line 2750-2751, of recursive ones |
| `connection.cpp:2085`, `:2244` | a series with step 0 and a pattern of Parquet files that differ throw after the table was made (`LeftBy`) | |
| `connection.cpp:1446`, `:1490` | the tables of COPY (SELECT ..) are never dropped (`LeftBy`) | |
| `connection.cpp:1162` | ALTER TABLE of a view makes a table of it (`AlterTable`) | |
| `connection.cpp:1120` | DROP COLUMN of the only column loses the rows: a chunk without a column has no size (`RowsKept`) | |
| `connection.cpp:2034` | a view is expanded at the top of a SELECT only: below a CTE, a derived table, CREATE TABLE AS or INSERT it has the rows of its last use (`Stale`) | `DOCUMENTATION.md:425` |
| `fast_csv_reader.cpp:212` | an empty file cannot be mapped: on POSIX, opening it throws (`OpenThrows`) | |

## 8. Not modelled

* Races inside one call: `DataTable::Scan` reads `row_groups_` without the lock that `Append` holds, and `LiveGroupCount` reads tables that are being filled. The modules take
  a call as a step; two connections in different threads are modelled at that grain.
* Undo buffers, version visibility and the write lock of `TransactionManager`: no code calls them.
* Text and arithmetic: formatting, scalar functions, casts, overflow of integers in expressions.
* Foreign formats other than CSV and the pages of Parquet, networking, the GPU engine, the language model behind `.ask`, the shell and extensions: input and output without shared state.
* Of windows: NTILE, FIRST_VALUE and LAST_VALUE, COUNT, AVG, MIN and MAX (which share the loop of SUM), partition keys that are expressions, and a QUALIFY that is no comparison of one window with a constant, which the
  operator ignores.
* Typed copies: an aggregate, a sort or a join has one loop for each type, file format and number of keys. The modules describe the algorithm once, at the copy that `map` names; the
  others are not claimed.

The implementation has some 64000 lines, of which 9300 are the vendored miniz; half of the rest are typed copies, scalar functions, parsers and decoders, whose
correctness is what they compute from bytes and not the order of steps. That is why `map` covers a small share of the lines although
it has most of what runs concurrently, is shared or survives a failure.
