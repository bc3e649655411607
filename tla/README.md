# LINALDB: a formal model

TLA+ models of LINALDB (the Rust crate under `src/`), the TLC configurations
that check them on small instances, and TLAPS proofs of central safety
properties for all values of the constants. Every definition is translated from
the source; `PROJECT.json` maps each one to the lines it stands for.

    tlc -config Wal.cfg Durability             # any run: see the table in section 3
    tlapm DurabilityProofs.tla                 # the proofs: section 4

## 1. The system

LINALDB is an in-memory analytical database of tensors and datasets with a SQL-like
DSL. A process is an embedded library, a command line, or a server (`linal serve`).

| part | state | operations | talks to |
|---|---|---|---|
| `TensorDb` (`engine/db.rs`) | map of database instances, the active one, the pipeline registry | create/drop/use database, every statement, `CHECKPOINT`, recovery | instances, the log, `dsl` |
| `DatabaseInstance` (`engine/db.rs`, `core/store`, `core/dataset`) | names, tensor store, lazy expressions, record datasets, tensor-first datasets, dataset variables, provenance, its log | LET, LAZY LET, BIND, ATTACH, SHOW, CREATE/INSERT/DROP DATASET, RESET ... | stores, kernels |
| write-ahead log (`engine/wal.rs`, `engine/db/snapshot.rs`) | `wal.log`, `checkpoint/`, `checkpoint.old/`, `checkpoint.tmp/`; sequence number, broken and recovery-error flags | append, truncate, rewrite, checkpoint swap, restore, replay | file system; replay calls `dsl` |
| DSL (`dsl/`) | none (statements come in, outputs go out) | parse, `execute_logged`, dispatch | `TensorDb` |
| pipelines (`dsl/executor/pipeline.rs`) | session-wide registry, shared by all databases | DEFINE, APPLY, DROP | datasets, checkpoints |
| `SharedEngine` (`server/engine.rs`) | catalog under a lock, active database under a lock, one lock per database | create, drop, use, execute, execute_batch | `TensorDb`s, directories |
| jobs (`server/jobs.rs`, `server/mod.rs`) | job table under a mutex | submit, cancel, result | tokio's blocking pool, `SharedEngine` |
| scheduler (`server/scheduler.rs`) | task list under a mutex | add, remove, the loop | blocking pool, `SharedEngine` |
| record datasets and indexes (`core/dataset_legacy.rs`, `core/index`) | rows, schema, statistics, partitions, indexes | insert, update, delete, search, computed columns | packages |
| provenance (`core/provenance.rs`) | records in memory and `provenance.jsonl` | append, ancestry, PRUNE | instances |
| packages (`core/storage.rs`, `dsl/persistence.rs`) | directories of parquet and JSON files | SAVE, LOAD, IMPORT, EXPORT | datasets |
| queries (`query/`) | none | plan, optimise, execute | datasets, indexes |
| kernels, backends, value types, connectors | buffers only | numeric operations, decoding | - |

What is hard about it, and what has to be right:

* **Crashes between file operations.** An append, a checkpoint swap and a recovery
  are each several file operations; the process may die between any two of them and
  any of them may fail. What a client was told must survive, once and in order.
* **A logical log.** Replay executes statements again, from a checkpoint taken
  anywhere among them. Everything a statement reads must be what it was: names,
  aliases, lazy expressions, dataset variables, pipelines, external files.
* **Concurrent requests.** The server has three kinds of locks and DROP works on a
  directory with none of them. Catalog, engines and directories must agree, nobody may
  wait for ever, a batch must not be interleaved with anyone.
* **Work nobody waits for.** Jobs and scheduled tasks share a bounded thread pool;
  a job's reported status must be true and final, a removed task must stop.
* **Partial effects.** A statement that fails is not logged, but may have changed
  something before it failed.
* **Derived data.** Indexes, zone maps, statistics, clusterings and column files each
  repeat a part of the rows; every statement that changes rows must change all of them, and a
  query must get the same answer whichever it uses.
* **Many ways to the same answer.** A predicate has three evaluators, a join two build sides, a
  search four paths, a column four encodings; sorting and limiting move around computed columns.
* **Packages of many files.** SAVE overwrites a package in place, one file after the other.

`PROJECT.json` has the hazards one by one, with the line where each bites and the
properties that would catch it; those without a property say why.

## 2. The modules

| module | models | extends |
|---|---|---|
| `WalFile` | the bytes of `wal.log` as a reader can tell them apart | - |
| `DurableStore` | abstract: what the log promises | - |
| `Durability` | one database: log, checkpoints, recovery, one step per file operation | `WalFile`; refines `DurableStore` |
| `DurabilityProofs` | theorems about `Durability` | `Durability`, `TLAPS` |
| `SharedEngine`, `SharedEngineMC` | the server's catalog, sessions and locks under concurrent requests | - |
| `SharedEngineProofs` | theorems about `SharedEngine` | `SharedEngine`, `TLAPS` |
| `BackgroundWork`, `BackgroundWorkMC`, `BackgroundProofs` | jobs, cancellations and the scheduler over one thread pool; theorems about them | - |
| `Instance` | one database's names, tensors and datasets, and what each statement does to them, as functions | - |
| `Replay`, `ReplayMC` | several databases and one pipeline registry: log, checkpoint, replay over `Instance` | `Instance` |
| `ReplayProofs` | theorems about `Replay` and the statements of `Instance` | `Replay`, `TLAPS` |
| `Values` | values, their order, equality, types and conversions | - |
| `Expressions` | expressions over a row, their three evaluators, their types | `Values` |
| `RecordDataset` | one record dataset: rows and everything derived from them, under every statement | `Values` |
| `AccessPaths`, `DatasetMC` | WHERE over it: the path the planner picks and what each path reads; the two over the evaluators of `Expressions` | `RecordDataset`, `Expressions` |
| `DatasetProofs` | theorems about `RecordDataset` and `AccessPaths` | `AccessPaths`, `TLAPS` |
| `Planning` | lowering, type inference and checks before execution | `Expressions` |
| `Operators`, `Aggregates`, `Select` | physical operators, GROUP BY and windows, and the whole of SELECT, as functions | `Planning` |
| `Queries`, `QueriesMC` | what queries promise | `Select`, `Questions` |
| `ExpressionSyntax`, `StatementSyntax` | tokens, and the grammar of every statement as data | - |
| `Parser` | the machine that runs the grammar; script splitting | `StatementSyntax` |
| `Language`, `LanguageMC` | what the language promises | `Parser`, `Questions` |
| `VectorIndexes`, `NeighborGraph` | the vector store with its IVF clusters, the HNSW graph | - |
| `Similarity` | what searches promise | `NeighborGraph`, `Questions` |
| `Columns` | a column in Parquet and CSV files and back | `Values` |
| `Storage` | what files promise to give back | `Columns`, `Questions` |
| `StorageProofs` | theorems about `Storage` and the encodings of `Columns` | `Storage`, `TLAPS` |
| `Questions` | one variable: the question being asked | - |
| `Calculations`, `CalculationsMC` | the questions of `Language`, `Queries`, `Storage` and `Similarity` together | all four |
| `Packages`, `PackagesMC` | SAVE, LOAD, IMPORT of a package file by file, with crashes and failures | - |
| `PackagesProofs` | theorems about `Packages` | `Packages`, `TLAPS` |
| `Lineage` | the provenance log: records, PRUNE LINEAGE, restarts | - |
| `LineageProofs` | theorems about `Lineage` | `Lineage`, `TLAPS` |
| `DirectoryMC` | `Packages` and `Lineage` side by side | both |

How the views fit together. `Durability` takes content to be the sequence of changes
applied and asks whether files keep it; `Replay` takes the files to be reliable and asks
whether executing the kept statements again gives the same content; `SharedEngine` takes a
database to be the sequence of statements it ran and asks whether concurrent handlers keep
it and its directory together; `BackgroundWork` takes a statement to be one item of work
and asks when it runs. `RecordDataset` is what the statements do to one dataset, which
`Instance` only counts; `Packages` takes it to be an id and asks what files keep of it;
the modules over `Questions` are the parts without state.

### WalFile, Durability

`log` is the file: terminated lines and an unterminated rest. A write behind a torn rest
is glued to it and parses as nothing (`Terminated`), `Records`, `Readable` and
`Rewritten` are `read_records` and `rewrite`. `current`, `old`, `tmp` are the checkpoint
directories (absent, without a manifest, with a manifest but missing data, complete);
`mem` is the instance's content, a sequence of changes; `nextSeq` is `Wal::next_seq`
(0 while the log is not open), `linked` says that the open file is still the one called
`wal.log`, `broken` is `wal_broken`. `pc` is the next file operation: `Execute` then
`AppendRecord` (or `AppendFails`) for a statement; `ClearTmp`, `WriteBuffers`,
`WriteManifest`, `RemoveOld`, `Rotate`, `Install`, `DropOld`, `TruncateLog`, `ReopenLog`
for a checkpoint, each of which may fail (`CheckpointFails`); `Restore`, `ReadLog`,
`ReplayRecord`, `FinishRecovery` for recovery, which may `Refuse`. `Crash` is enabled
everywhere. `CheckpointCommand` and `Save` start checkpoints, a log beyond
`CheckpointLimit` starts one by itself. `executed` and `promised` are history, and so is
`rewritten`: who has rewritten the file that a LOAD reads since a checkpoint was last installed,
somebody else ("outside"), a SAVE ("save"), or a SAVE whose checkpoint failed or died
("cutSave"). `RefusalJustified` allows a refusal for the first and the third and at a record
behind the checkpoint only; after a SAVE that came to its end it allows none.
Statements that fail are not in this module (they are in `Replay` and `RecordDataset`).

`Faults` names events the code does not defend against, so that each can be allowed
alone (see `FaultNames`). What TLC finds when the constants of `Wal.cfg` allow them:

| fault | consequence |
|---|---|
| `externalEdit` | every property of the run `Wal` holds, with it; a recovery that must load a changed file again refuses, as intended |
| `powerLoss` | `ImplementsStore` and `RefusalJustified` violated: a checkpoint whose data files were not synced is installed and the log it replaces truncated; after the power loss recovery refuses the checkpoint for good and everything acknowledged is gone, although `config.rs:75` says of `always` "`fsync` after every record: survives a power loss or OS crash". What remains is never served as if it were whole: `PromisedServed`, `AppliedOnce` and `IdleIsDurable` hold |
| `swapOverOld` | `PromisedServed` violated: run `WalSwapOverOld` |
| `recordDespiteError` | `AppliedOnce` violated: run `WalFailedSync` |
| `recordNoNewline` | `PromisedServed` violated: the complete record without newline is accepted, the next one is glued to it |
| `reopenError` | `PromisedServed` violated: later records go to the unlinked file |

### SharedEngine

A request carries a session (`server`: the server's active database; `pinned` to the
header's database; `following`: a batch with USE; `task`) and a script. A step is what a
handler's thread does under one lock or one operation on a directory: `Resolve`, `Lookup`
(the Arc leaves the catalog), `Lock`, `Read` or `Write`; `UseCheck` and `UseSet`;
`Create`; `DropRemove`, `DropActive`, `DropWait`, `DropFiles`, `DropDir`. A batch keeps
its lock over consecutive statements on one database. A statement may fail, or `Panic`
and poison its lock; the server may `Restart`. `engines[e].ran` is what an engine
executed, `disk[d].log` what its directory holds.

`raced` collects names whose DROP overlapped a CREATE of the same name or was outlived by
a statement. For those names, and only those, `ShownIsDurable` and `CatalogMatchesDisk`
are not claimed, because they fail: a CREATE during a DROP registers a database whose
directory the DROP then deletes, and acknowledged writes are gone at the next start; a
writer that looked the engine up before the DROP and locks it afterwards recreates the
directory and the database comes back at the next start; a DROP of a database with a
poisoned lock panics between catalog and directory. `strayed` are names a USE made active
after they were dropped (check and assignment are two lock holds).

### BackgroundWork

`job[j]` is the job table, `thread[j]` where the tokio task behind it is, `queue` and
`busy` the blocking pool. `CancelRead` copies the job, `CancelWrite` sets the status later.
The scheduler's `Scan` holds the lock and clones due tasks, `Launch` hands them to the
pool without it, `Sleep` lets time pass. A job whose cancellation overlapped its start is
left out of `ReportsWhatHappened`: it may be reported cancelled and run.

### Instance, Replay

An instance is a record of six maps, as in `DatabaseInstance`. Each statement is a
function from the instance and the session's pipelines to both and an ok flag; a failing
one returns what it changed before it failed (`Attach` keeps the column when the copy for
SELECT cannot be made). Contents are numbers modulo `Contents`, all computations are
SCALE, a pipeline is one LIMIT step. APPLY PIPELINE INTO a dataset that exists keeps its columns
and replaces its rows, whose values go by their place (`Placed`, over `ColumnOrder`).
`Replay` logs a mutating statement that succeeds
(`Mutate`), nothing otherwise (`Fail`, `Read`); `Checkpoint` stores the instance and all
pipelines, `Restart` recovers the databases in the order of their names
(`Recovered`), with pipelines from every checkpoint going into one registry.

History variables keep three exclusions exact, each of which names a divergence:

* `astray[d]` has "shown" once a statement was logged while a lazy tensor was
  materialized only in memory: run `ReplayLazy` checks the claim without this exclusion
  and finds a database that refuses to start;
* `astray[d]` has "failed" once a failed statement left something behind: ATTACH of a
  rank-3 tensor keeps its column until the restart loses it;
* `Alone(d)`: pipelines are defined in one log, cleared by RESET in any database, saved
  with every checkpoint and recovered in name order. Without this exclusion
  `RestartChangesNothing` is violated: DEFINE in `b`, APPLY or DROP in `a`, restart: `a` is
  recovered first, does not find the pipeline and is refused.

### Values, Expressions, RecordDataset, AccessPaths

A value is a kind and a datum, so that an Int 1 and a Float 1 are different and compare as the
code compares them; floats are whole numbers and one NaN. `Evaluate`, `TruthOf` and
`EvaluateRow` are the three evaluators the code has, each with its own treatment of NULL and of
kinds. `RecordDataset` has the rows and, apart from them, `stats`, `partitions` with zone
maps, `index` (hash and sorted) and `lazyExpr`; its actions are `Create`, `Drop`, `Insert`,
`Update`, `Delete`, `CreateIndex`, `AddColumn`, `AddComputedColumn` (lazy or not),
`Materialize`, `Transform` and `ApplyInto` (a pipeline or SEARCH INTO over an existing dataset).
A statement that fails in the middle leaves what the code leaves. The evaluators come in as
the operator constants `ValueOf`, `ComputedOf` and `Chosen`, so that what is proved holds for
all of them; `Datasets.cfg` gives them `Evaluate`, `EvaluateRow` and `Holds`.

`doubts` and `stale` are history: what need not fit the rows any more, because the code leaves it
behind. The index of a column is in `doubts` when an INSERT failed after it had been offered the
row, when ApplyInto replaced the rows under it, or when it was kept over rows read by another
schema than theirs (`Misread`). "rows" is in `stale` when rows came under the schema of other
rows (upsert_dataset keeps the old one), "zones" when zone maps did not follow. The properties
hold of everything else, and a later statement that rebuilds takes the doubt away.

`AccessPaths` picks a path as the planner does (`Path`) and says how often each path answers with
each row (`Answer`); a scan, which does once with each row that is chosen, is the reference. Like
`RecordDataset` it leaves expressions open: `ConjunctsOf` (`Conjuncts` in the run) takes a
predicate apart, and `EvaluatesWell` and `ChoosesWell` say what paths need of expressions on a row.
Left out of `PathsAgree` are an index on a lazy column (it holds placeholders), a HASH lookup of
another kind than the column's or of the text `NULL`, which compares texts, and a SORTED range
with a Bool bound on an Int column: there the paths do differ (section 3, Datasets).

### Planning, Operators, Aggregates, Select, Queries

The fields of a join are those of the plan that runs, in which all are nullable
(`query/planner.rs:238`, `JoinFields`), not those of the logical plan (`JoinSchema`). A relation is fields
and rows; one whose rows do not fit its fields is not ok, and nothing
built from it is. `Select` translates `execute_select_in_scope` clause by clause, with the
places where the code sorts, cuts and removes duplicates before or after it computes columns.
`Queries` says what comes out: joins are the set of pairs SQL defines (`JoinsAgree`), GROUP BY,
the whole-table aggregate and a window over the partition tell the same (`GroupsAgree`), WHERE
and SELECT read a predicate alike (`WhereAgreesWithSelect`; `PlainPredicate` leaves out a value
below NOT that is neither a Bool nor NULL), a literal beside a DOUBLE keeps its
precision (`LiteralsKeepPrecision`), and a statement's answer is the one of `SqlAnswer`, which
does things in SQL's order (`SelectAgrees`). What each leaves out is said above it.

### ExpressionSyntax, StatementSyntax, Parser, Language

Each parse function of the code is a production: a sequence of items, with the peeks of the
code as guards of its branches. `Parser` runs productions with a cursor that never goes back;
`Pratt` is the loop over binding powers. Characters are left out: programs are sequences of
tokens, scripts sequences of lines of tokens. `TreesComeBack` prints a tree with the parentheses
it needs and parses it again. `NamesReadAlike` puts keywords spelled as names where a name can
stand: places that take a keyword for a name must read all names alike, and places that take
an identifier only must refuse them all (`RefusedAt`). `ScriptsAreReadWhole` is not about lines
whose comments or quoted texts have unbalanced parentheses, which the splitter counts
(`CommentsAndText`).

### VectorIndexes, NeighborGraph, Similarity

Vectors are of the plane with whole components, and a cosine is kept exactly as a signed square,
so that every comparison the code makes can be made without rounding. Clustering, its bounds
and search, batches of the graph's construction, pruning of links, beam searches and the
filtered walk are translated; constants of the code (links per node, beams, from how many rows
on an index builds) are CONSTANTS, small in the run. Rounding is therefore out: the bound of a
cluster is computed in `f32` by the code and may skip a vector exactly on the threshold
(`cos(acos 0)` is below 0).

### Columns, Storage, Packages, Lineage

`Columns` chooses an Arrow type from the values of a column as the code does and reads it back
by the declared type or by the stored one. In `Packages` a file holds what was last written to
it, nothing, or `Torn`; `SaveOrder` is the order of writes, `Interrupt` a crash or a failed
write that ends the SAVE. `GoOnWithoutColumns` is the one that does not: under `[storage]
mmap_columns` a failure to remove or write column files is swallowed
(`dsl/persistence.rs:165`), wherever among them it happened, and the SAVE goes on and answers;
`overlooked` remembers it. `ReadPackage`, `RestoredIndexes` and `Loaded` are LOAD in its two modes (`MMAP` or
not). `settled` is what the last SAVE that answered saved. `SettledLoads` promises that every LOAD gives
it back; after an overlooked failure, a LOAD that reads column files may be refused or map
those of an earlier SAVE, and schema, rows, versions and indexes are still as saved. In `Lineage` a record has one operation,
inputs and outputs, each an entity: a name and contents; statements are functions, so that a
restart executes the logged ones again and records what it must (`Recovered`).

## 3. What the runs check

| run | question | bounds | answer |
|---|---|---|---|
| `Wal` | does anything acknowledged get lost, repeated or reordered, is a diverged database served, is one refused for anything but a failing read or a file rewritten behind the last checkpoint, whatever file operation is interrupted or fails? | 2 statements, 2 crashes of the process, 2 errors, 2 versions of the external file, edited by anyone (`externalEdit`), automatic checkpoint after 2 lines | no; `Durability` implements `DurableStore` and settles |
| `WalSwapOverOld` | "a crash at any point leaves one complete checkpoint" | 1 statement, 2 crashes | violated |
| `WalFailedSync` | is a record that recovery skips "already in the checkpoint", and only then? | 2 statements, 1 crash, 1 error | violated: applied twice |
| `ServerRaces` | catalog, engines and directories agree; batches are contiguous; everyone is answered | 2 databases, 3 requests of 1-4 statements, 1 panic, 1 restart | yes, outside `raced` and `strayed` |
| `ServerDrop` | "waits for any in-flight statement on the database to finish before deleting its directory" | as above | violated: a request between lookup and lock |
| `Background` | are job statuses true, do jobs end, do tasks recur and stop? | 2 jobs, 1 cancellation, 1 task due every second round, 1 pool thread, 2 waiting | yes, cancelled starts apart |
| `Replay` | does executing the log again give what was in memory? | 2 databases, 22 statements to choose from, 5 logged in all, 3 contents | yes, outside the three exclusions above |
| `ReplayLazy` | SHOW "materializes a lazy tensor as a cache, not a logical change" | 4 logged statements | violated: database refused after restart |
| `Datasets` | do indexes, statistics and zone maps fit the rows, do all access paths answer like a scan, does what fails change nothing? | every sequence of 6 statements on a dataset of up to 3 columns and 3 rows, partitions of 2 rows, 23 predicates asked of every state | yes, outside `doubts` |
| `Calculations` | do parser, queries, files and searches keep their promises? | see below | yes, with what each property leaves out |
| `Directory` | is what a SAVE that answered wrote what LOAD gives; is a restored index about its column; is lineage kept? | package: 2 contents, 2 saves, 1 crash, failed write or overlooked failure, 1 or 2 rows; lineage: 2 names, 2 contents, 5 statements, prunings, restarts and crashes (6 were tried) | yes, column files after an overlooked failure apart; yes for float32 columns; yes |
| `ColumnsAgree` | does `LOAD ... MMAP` give columns of one SAVE or IMPORT? | as `Directory`, no interruption | violated: IMPORT leaves the mapped columns of the package it overwrites |

`Calculations` asks each question once: expression trees to depth two (and BETWEEN inside
them), forty-two places for a name that may be a keyword (sixteen that take a name, twelve
operands, fourteen that take an identifier only), all orders of up to three clauses, scripts
of up to three lines out of fifteen; joins of relations of up to three rows with NULL and repeated
keys, groupings of up to three rows with every aggregate, predicates to depth two, sums and
comparisons of decimals beside doubles, over seven hundred SELECT statements over two tables;
columns of up to three cells of every type; columns of four to seven vectors with every kind of
tie, a zero vector and NULLs, thresholds on and between the cosines, searches before and after
rows are added to a built index. A state is one question, so that a counterexample is the
question. The properties about the costlier questions are action properties over `question'`:
they look at each question as it is asked and are not evaluated again in its state.

Why these bounds are enough to be interesting. In `Durability` two crashes let a crash hit
the recovery, or the second checkpoint, that follows a first one; two statements leave a log
that the checkpoint covers in part; two errors let an append fail and the checkpoint meant to
repair it fail too. In `SharedEngine` two handlers can race on one database while a third meets
the one they create; the batch has two writes with a read between them. In `Background` one
thread is the tightest pool: a job must wait behind tasks. In `Replay` five statements build a
chain over three kinds of names (tensor, variable, column) with a checkpoint or a RESET in
the middle of it; histories longer than that are not covered. In `Datasets` three rows make two
partitions, so that a DELETE shifts rows from one to the other, and six statements are enough to
create, fill, index, alter and replace a dataset. In `Packages` two saves and an import put three
generations of files in one directory.

Deadlock checking is off where the system may stop: in `SharedEngine` (a server whose requests
are all answered has nothing left to do), `Datasets` and `Directory` (bounded numbers of
statements) and `Calculations` (a question has no successor). Elsewhere it is on.

`SHOW` of several databases, `IF [NOT] EXISTS`, and rendering change no state.

### Fairness

* `Durability!FairSpec`: weak fairness of the engine's own steps. The engine is a running
  thread in the middle of a call; nothing is assumed of clients, crashes or errors.
* `SharedEngine!Spec`: weak fairness of each request's next step, since each handler is an
  operating-system thread. A request that waits for a lock is not enabled; that it is
  enabled continuously in the end is what `AllAnswered` has to establish (each thread holds
  a lock for finitely many steps). A database lock that let readers starve a writer for
  ever would need infinitely many requests, which these runs do not have.
* `BackgroundWork!Spec`: weak fairness of the pool taking work, of the scheduler's loop,
  of each job's task and of running statements ending. No fairness for clients.

### Findings

Five places where the code and what its comments or documents say differ are listed under
"findings" in `PROJECT.json`, each with the run that exhibits it. Seen while modelling, and
either excluded by name in a property or only noted here:

* Durability: the other rows of the faults table, a power loss among them (`config.rs:75`).
  A SAVE that overwrites the file an earlier LOAD read, and fails or dies before its checkpoint
  is installed, makes recovery refuse the database. `snapshot.rs:206`, `dsl/mod.rs:360` and
  `docs/ARCHITECTURE.md:650` say that the checkpoint keeps a LOAD from ever being replayed against
  a later SAVE of the engine's own; `RefusalJustified` names the case ("cutSave").
* Server: what `raced` and `strayed` stand for. A job whose cancellation was answered may still
  run, and its result is then dropped; that is the case `ReportsWhatHappened` leaves out.
* Replay: the three exclusions above.
* Lineage: a torn line in `provenance.jsonl` makes `load_jsonl` fail as a whole, the
  store starts empty (`engine/db.rs:69`) and each restart records the logged statements again. A
  statement that dies between its record and the log leaves its record. A dataset
  without a record of its own contents is given the lineage of another one that has them.
* Datasets: what `doubts` stands for; APPLY PIPELINE and SEARCH INTO an existing dataset
  replace its rows and leave schema, indexes and lazy expressions; a HASH index answers `x = NULL`
  and `Bool = 1` by their texts. A SORTED index of an Int column loses rows of `a < TRUE`: an
  Int compares with a Bool when it is 0 or 1 only (`core/value.rs:358`), and over -3, 0 the
  binary search of `SortedIndex::range` already stops at -3, though 0 satisfies the bound
  (`core/index/sorted.rs:52`: "Row ids (ascending) whose value satisfies every `(op, bound)`
  constraint"). TLC finds it at once on an Int column; `PathsAgree` leaves such bounds out. A HASH
  index of a TEXT column has NULL under the text `NULL` (`core/index/hash.rs:42`) and
  `IndexScanExec` filters nothing, so `b = 'NULL'` answers with the rows whose b is NULL too, and
  without the index with none of them (`query/planner.rs:295`: the scan "evaluates the same
  predicate correctly without an index — so each specialized executor here is an optimization").
  The proof of `PathsAlwaysAgree` stopped there, TLC shows it in three statements, and
  `HashTrusted` leaves the text out.
* Queries: computed columns of mixed kinds panic; ORDER BY of a column that is not selected
  fails when the sort is deferred; LIMIT and DISTINCT run before windows; COUNT(column)
  counts NULLs in GROUP BY and AVG divides by them; SUM of NULLs is Int 0; a JOIN of Int with Float
  never matches; `NULLIF(1, 1)` fails to be selected. `WHERE NOT c` of a column c that is not Bool keeps
  the rows whose c is not NULL, while `SELECT NOT c` gives NULL: `query/planner.rs:751` says that a
  column of another type "never matches", and NOT of that is true. TLC finds it without
  `PlainPredicate`.
* Language: postfix IS NULL, IN and BETWEEN bind to the nearest operand; `RANK - 1` and `length`
  at the wrong place are read as operators; a repeated WHERE replaces the first one; `VALUES (3 -1)`
  is two values; a line that begins with WHERE is a statement of its own when the line before it
  was complete, so that the DELETE above it deletes everything; `5--3` ends in a comment. A
  parenthesis in a comment or a quoted text counts: after `DELETE FROM t -- (` the lines up to the
  next `)` are joined to it with spaces, the comment swallows them, and the statement is accepted
  (`script.rs:64`). Keywords can name things by `dsl/parser/mod.rs:176`, but RANK's operand
  (`expr.rs:877`), SHOW (`introspection.rs:95`), a table alias without AS (`dataset.rs:718`), INSERT's
  bare values (`dataset.rs:351`) and a column list without parentheses (`mod.rs:914`) take an
  identifier only; a dataset named COMPONENTS can be declared but not used in an expression.
* Packages: the package proper is rewritten in place, so that a crash between its files leaves
  new data under an old schema; an explicit MMAP SAVE that fails in its last part has already
  replaced the data; a SAVE under `[storage] mmap_columns` answers although its column files could
  not be removed or written (`dsl/persistence.rs:165`), and a plain LOAD is then refused or maps
  columns of an earlier SAVE, against `core/storage.rs:155`; a torn
  `metadata.json` starts the versions again at 2; the content hash skips
  quantized vectors, so that a stale clustering of those is restored; a struct column makes EXPORT
  CSV fail after truncating the file; a vector column with a NULL goes to JSON, where infinities come
  back as NULL.
* Search: the HNSW graph can become disconnected; the rounding named above.

## 4. What is proved

`tlapm` checks, for every value of the constants:

| theorem | statement | assumes |
|---|---|---|
| `TypeCorrect` (`DurabilityProofs`) | `Spec => []TypeOK` | the named assumptions on the constants |
| `PromiseKept` | `Sane => (Spec => []PromisedServed)` | none of the faults but `externalEdit` |
| `AppliedOnceCorrect` | `NoLateRecord => (Spec => []AppliedOnce)` | `"recordDespiteError" \notin Faults`: every other fault may happen |
| `DurableWhenIdle` | `Sane => (Spec => []IdleIsDurable)` | as `PromiseKept` |
| `LogImplementsStore` | `Sane => (Spec => ImplementsStore)` | same |
| `RefusalIsJustified` | `Sane => (Spec => RefusalJustified)` | same |
| `TypesKept` (`BackgroundProofs`) | `Spec => []TypeOK` | the module's assumptions |
| `RemovalStops` | `Spec => []RemovedTasksStop` | same |
| `ReportsHappened` | `Spec => []ReportsWhatHappened` | same |
| `ServerTypes` (`SharedEngineProofs`) | `Spec => []Sound`, of which `TypeOK` is a part | the module's assumptions |
| `ServerIsServed` | `Spec => []ActiveIsServed` | same |
| `CatalogAgrees` | `Spec => []CatalogMatchesDisk` | same |
| `ServerShowsDurable` | `Spec => []ShownIsDurable` | same |
| `BatchesContiguous` | `Spec => []BatchesAreContiguous` | same |
| `LogsAlwaysTell` (`ReplayProofs`) | `Spec => []IInv`, the invariant the next three rest on | the module's assumptions |
| `NoNameEverDangles` | `Spec => []NoNameDangles` | same |
| `RestartsChangeNothing` | `Spec => []RestartChangesNothing` | same |
| `AliasesAlwaysStay` | `Spec => []AliasesStay` | same |
| `DirectoryFits` (`PackagesProofs`) | `Spec => []IInv`, the invariant the next two rest on | the module's assumptions |
| `SavesComeBack` | `Spec => []SettledLoads`, with its exception for overlooked failures | same |
| `IndexesDescribe` | `Spec => []VectorIndexesDescribe` | same |
| `IndexesFollowRows` (`DatasetProofs`) | `Spec => []IndexesFit` | the module's assumptions |
| `ZonesFollowRows` | `Spec => []ZonesFit` | same |
| `FailuresAreHarmless` | `Spec => FailureChangesNothing` | same |
| `RowsStayReadable` | `ExactTypes /\ Steady => (Spec => []Readable)` | the same and those two, see below |
| `PathsAlwaysAgree` | `Evaluating /\ Choosing /\ Spelt => (Spec => []PathsAgree)` | the same and those three, see below |
| `LineageStays` (`LineageProofs`) | `LineageSpec => LineageIsKept` | nothing |
| `ColumnsAlwaysComeBack` (`StorageProofs`) | `StorageSpec => []ColumnsComeBack` | the assumptions of `Storage`, see below |

`Sane` is `Faults \subseteq {"externalEdit"}`; the faults table says what the others break. In
particular the refinement claims nothing of a power loss. `NoLateRecord` is the weakest
assumption about faults under which `AppliedOnce` holds: run `WalFailedSync` violates it with the one
fault it rules out.

**Durability.** None of the invariants is inductive: that memory shows what was promised
depends on what the files hold, and that on where in a checkpoint swap they are. `IInv`
says, part by part: `LogShape`, the log is a gapless run of records beginning no later than
behind the checkpoint, with a torn line at most at its end; `DirShape`, at every step of the
swap one of `checkpoint/` and `checkpoint.old/` is complete; `HandleShape`, the next sequence
number is one more than everything on disk; `MemoryShape`, memory and disk differ by at most
the change being logged, and during replay memory is a prefix of what disk rebuilds;
`History`, what was promised is a prefix of what disk rebuilds, and changes are in the order
of execution. A second, independent invariant, `AutoInv`, says that no append and no automatic
checkpoint runs on a broken log. The lemmas `RebuiltAppend`, `RebuiltCovered` and
`RebuiltProperties` are about what checkpoint and log rebuild together; then there is one
lemma per group of actions.

For the refinement, `StoreStep` restates the steps of `DurableStore` in terms of `Disk` (what
the files rebuild), `View` and `Mode`; `StoreMaps` shows that such a step is one of
`Store!Next`, and one lemma per group of actions that each step of `Durability` is one. Most
file operations stutter: what they change cannot be seen. `AppendRecord`, `Install` (after
a failed append), `ReopenLog` and a failed automatic checkpoint commit, a crash loses at most
the change being written. `DurableStore` has no step that
loses what was acknowledged. `RefusalIsJustified` needs two things. By `LogShape` what the engine
leaves behind is readable at every step, so that `ReadLog` never refuses. By `RewriteInv` a record
behind the checkpoint read the file as it is now unless somebody rewrote it, and when a SAVE did
and lived, its checkpoint covers every record (`InstallCovers`); so a record whose file has changed
is there only if the file was edited outside or the SAVE was cut.

`AppliedOnce` has an invariant of its own, `OnceInv`, because it holds where `IInv` does not:
with gutted checkpoints, glued records and an unlinked log file content is lost, but nothing is
applied twice. It follows all lines ever written (`AllLines`), the complete ones and those that a
glue or a cut has spoiled: their numbers increase, and with them the statements' order.

**Background.** `TypesKept` is inductive as it stands. `LateBound` strengthens
`RemovedTasksStop`: a removed task has been launched late at most once, and not at all while a
clone of it waits for its launch. `ReportsHappened` rests on two invariants: a job is in the pool
at most once (`OnceInPool`), and `Stages`, which says for each stage of its thread what its
status, result and error are and whether it ran.

**Server.** `TypeOK` says neither that an index into the engines is in range nor that a request
still is at a statement of its own script; `Sound` adds both, and that an engine keeps its name, so
that a DROP goes on with the engine of the name it drops. On it rest two independent invariants.

`Consistent` is for `ShownIsDurable` and `CatalogMatchesDisk`: every name outside `raced` is
`Settled`. At most one DROP of it is under way, and then it is not in the catalog; its
directory is there unless it is neither registered nor being dropped, and empty once the DROP is
about to remove it; whoever holds a lock on an engine of that name holds it on the one that is
registered, or that the DROP waits for; that engine is alive, has the file of that name open,
counts on where the log ends and has executed exactly the writes in it. The third part is what
makes the last one inductive: without it a statement on an engine the catalog has forgotten
could write to the log of its successor, which is what `raced` is about. `Files` (a log is
in a file, a file in a directory, a log holds writes only) says what a restart finds.
`Writes`, what a history puts in a log, is a recursive function: that it exists
(`WritesSieve`) and how it treats one event more (`WritesAppend`) are lemmas; both go by the
least number at which they would fail (`Climb`), which needs no induction principle.

`Ordered` is for `BatchesAreContiguous`, and is about all names, `raced` or not. Since a restart
makes the log the history of the new engine, contiguity has to hold of logs as well (`LogRuns`),
and two engines of one name, the dropped and the new one, may have the same file open and
write in turns. What saves it is numbering: an engine that has written numbers on from its own
last record, so that a record that follows another engine's makes the log unreadable, and an
unreadable log is refused (`Ahead`: an engine's next number is at most one more than the last in
the file it has open). The other parts are `Exclusion`, who holds a lock exclusively holds it alone; `Past`, what is in
histories and logs was executed under earlier holds than the one a request will get; and `Runs`,
`LogRuns` for histories.

**Replay.** What makes a logical log right is a fact about statements, not about logs: each of
the fifteen kinds, run again where it ran, does the same again. The lemmas go from the bottom up.
First each function of `Instance` is shown to leave a *sound* instance sound, whether it succeeds
or fails: names lead to a tensor or an expression that is there, columns of a tensor-first
dataset resolve, no id is in both stores. Then `ExecutePlain`: a statement that is not about
pipelines has the same outcome over every registry, and `ReplayedSound`: a replay is sound.
`RecoveredRun` is about recovery as a whole, one database after the other over one growing
registry: of a database that is alone with its pipelines it makes `Run(d)`, its own log over its
own checkpoint and an empty registry. The invariant says of disks and memory that they are
sound (`DiskSound`, `MemSound`), of `pipers` that it has every database whose log or checkpoint
has to do with pipelines (`PipersKnown`), and of `Run(d)` that it tells what is in memory
(`LogsTell`): it is the very instance in memory, or, once SHOW has put a lazy tensor there, one
with the same content. A statement logged after that could read what only memory has; that is
where the induction would fail without `astray`. Both recursions, over a log and over the
databases, are recursive functions; that each exists and steps as it is written are lemmas, and
what holds of the start and is kept by each step holds of the end by `Climb`.

**Packages.** `SettledLoads` is not inductive, since between the first file of a SAVE and its
answer the directory holds two generations. `Saved(k, ds, mode)` says what a SAVE past its k-th
file has left on disk; an answer needs k = 12, and an interruption unsettles before
the first file is touched, so nothing is ever claimed of a mixture. With an overlooked failure
`Saved` says of every file but the column files that it is the SAVE's own, and of those nothing but
what is true of any file (`CutFits`); `UnsureLoads` is what a LOAD makes of that. `VectorIndexesDescribe`, on
the other hand, holds of mixtures too, and for that the invariant gives every contents ever made
its number of rows and says of each file by itself, whatever files stand beside it, that its
columns come from contents that were made and have as many rows. A clustering with a hash is
then of the contents with that hash (`SnapshotFits`), so that one taken for a column is of the
contents the column came from, over as many rows. Quantized columns, whose hash is 0, are
where the argument stops, and the property too. The assumptions are that a schema is a function
to the three kinds of column, that rows are counted by numbers, and that the sentinels (`None`,
`Torn`, `Failed`) are not among the things a file may hold.

**Datasets.** The theorems hold for any values, schemas, literals and results, and for any
evaluators: what an index or a zone map says does not depend on how an expression is computed.
`IndexInv` has three parts. `Shape`: schema and rows are sequences of fields and rows, and
indexes are on columns of the order in which they are rebuilt. `RowsFit`: every row has a value for each
column of the schema, unless "rows" is in `stale`. The third says that an index not in
`doubts` answers (`Answers`) for exactly what its column holds: a HASH index is the one built from
the rows, a SORTED one has each row's pair once, in order but for a tail. `RowsFit` is what makes
the third inductive: UPDATE and ALTER keep the indexes of columns they do not assign, which is
right only if a row's values keep their columns. Over rows that came under another schema they
need not, and the proof failed there until `Misread` was part of the model. `ZonesFit` needs
that statistics kept up row by row are those computed in one pass: `Counting`, the pass as a
recursive function, exists and takes one row more as INSERT does (`GrownIs`). `FailuresAreHarmless`
goes statement by statement over the ways each can fail.

`Readable` is about lazy columns: a row is read by evaluating their expressions beside columns
that came after them, with another evaluator than the one that gave them their type. `ReadInv`
keeps where each came from: its column is `Sourced` when there was a schema, narrower than
today's (`Widens`), and a row of it on which the expression had a value of the column's type.
Reading is then safe if two things hold of columns and expressions. `ExactTypes`: types tell what
values are; the code's VECTOR(0) and MATRIX with a dimension of 0, which accept any length, do
not. `Steady`: on a row of a schema and on one of a wider schema the two evaluators give an
expression values of one type, or NULL. `eval_row_expr` computes references, literals and
arithmetic and nothing else, and the arithmetic is the same function in both. (A quotient of
DOUBLEs by zero is a DOUBLE in the code, but the one NaN of `Values` is a Float: in the model
`Steady` holds of expressions without such a quotient, as the run's `a + 1`.) Rows in doubt
because another schema came over them are not claimed.

`PathsAgree` needs what rows hold besides what indexes say of them: `ValuesInv`, every value is
proper (a number has a whole datum, a Bool 0 or 1, a text a spelling), every row fits the schema
unless "rows" is in `stale`. With `IndexInv` and `ZonesFit` one lemma per path says that a row a
scan answers with is read once. `HashReads`: of values of one kind the texts tell the values
(`KeysTell`). `SortedReads`: a value in the range is behind the place where the binary search
for the low end stops and not behind the one for the high end, because the data of the
sorted part are in order (`SortedData`) and every one compares with the bound
(`BoundOrderable`; that an Int with a Bool does not is the first divergence above). `PrunedReads`:
each row is in one partition (`InChunk`), whose least and greatest values are bounds of its values
(`StatsBound`, one value after the other: `MergeBounds`) and so could match what the row's own
value satisfies (`BoundsMatch`). Three hypotheses are left to expressions and texts. `Evaluating`:
on a row of proper values expressions are worth proper values. `Choosing`: a predicate that holds
of a row has conjuncts that do, and a comparison, or BETWEEN, of columns and literals is
`SqlCompare` of their values; no more is asked of a predicate, so that the theorem is about
predicates of every size. `Spelt`: numbers are written differently, and none as `NaN`. The
first two are recursive functions over data in the code (`Evaluate`, `TruthOf`), for which they
cannot be proved here; `ExpressionsAssumption` of `DatasetMC` has TLC evaluate them for the run's
expressions and predicates on 400 rows.

**Lineage.** `LineageIsKept` says that neither a restart nor PRUNE LINEAGE nor a statement about
something else changes the ancestry of what is live, and that recovery records nothing that it
has recorded before. `Telling` says of a function that it has the tree of each entity at each
position of the log; one exists, and `Ancestry` is its root (`AncestryIs`). `Inside(short, long,
g)` says that a log is part of another by an increasing map of positions; `SameAncestry`, that
an entity whose lineage goes through nothing that was left out (`Spans`) has the same ancestry in
both. Statements and restarts append: an entity that a record names keeps its ancestry while no
later record names it (`AppendedAncestry`), and what a restart executes again records only
what is not recorded (`RecoveredTwice`). PRUNE is the other direction: what it keeps is closed
under producers (`ReachableCloses`), so that every root's lineage stays (`PrunedAncestry`).

**Columns.** `ColumnsComeBack` is the one property of the run `Calculations` whose functions recur
over nothing, and is proved for columns of every type, every dimension and every length. The
specification of that run reaches recursive operators; `StorageSpec` asks the questions of
`Storage` and any of another kind, which is what the other parts of `Calculations` ask.
`ColumnsAssumption` says that a column has cells its field accepts, and for CSV neither bits nor
NaN; `DigitsAssumption`, that `ToString` writes 0 and 1 as digits, which its TLA+
definition leaves open. `FitsKind` is the fact everything rests on: what fits a field is NULL, if
the field admits it, or of its kind. For `data.parquet`, `GivenBack` reduces the claim to
what the chosen encoding gives back under the two types, and one lemma per encoding shows that it
is `Kept`: the cell, or NULL where JSON lost it. `VectorColumn` and `MatrixColumn` say when the cells
of a list have one size, declared or taken from the first cell that has one, and `SizedFits` that
they fit the type read off the list although it is not the declared one. For CSV, `CsvRead` says
when a file is imported, and `CellsSpelled` goes through what a column may look like: a column
of texts that all look like integers or Booleans becomes one of those, spelled the same.

## 5. What is only model-checked

* `Settles`, `AllAnswered`, `JobsEnd`, `TasksRecur`: liveness is out of the prover's reach.
* that the code's evaluators and `flatten_and` are as `PathsAlwaysAgree` and `RowsStayReadable` need
  them (`Evaluating`, `Choosing`, `Steady`), for expressions of every size: they are recursive over
  data;
* everything else over `Questions`, which is about recursive functions over data: expressions,
  statements and indexes of every size would need induction over data, which the installed provers
  cannot do.

## 6. What is not modelled

`PROJECT.json` lists every part with its status. In short:

* tensor kernels, compute backends, execution arenas, value types and their numerics: floating
  point is out of TLC's reach;
* connectors (HDF5, NetCDF, NumPy, Zarr), the lexer's characters, rendering (SHOW, EXPLAIN),
  configuration, memory accounting, dataset delivery: input or output without state of the engine;
* references between tensor-first datasets, multi-step pipelines with their temporaries, STRICT
  and multi-output LET;
* SIMILARITY JOIN, and the plan that combines SEARCH with filters, scores and RERANK (its
  ranking is in `Similarity`);
* lineage of tensors, ASSERT LINEAGE, failing writes of `provenance.jsonl`;
* SAVE and LOAD of tensors, pipelines and reference datasets (single files);
* `sync = never`, which promises less than `always`;
* in the server: authentication, body limits, query timeouts (`mod.rs:337`: the closure goes on
  after the client was told), a configured default database other than `default`, overflow of a
  task's interval.

## 7. What remains

1. Pipelines across databases: a run of its own for the exclusion `Alone`.
2. A torn provenance line and the rewriting of the log by PRUNE LINEAGE as crash points of
   `Lineage`.
3. SIMILARITY JOIN and filtered SEARCH as whole statements, over `Similarity` and `Select`.
4. Query timeouts and retries as a client of `SharedEngine`.
