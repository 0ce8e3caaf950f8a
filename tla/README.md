# A verification of csorma in TLA+

csorma is an ORM for C on top of SQLite: a generator (`csorma_generator.java`)
reads class files and writes, from the template `template/_table.c`, the C code of
a table each; `template/csorma.c` is the runtime those files share. This directory
holds TLA+ models of it, the TLC runs that check them, and proofs checked by TLAPS.

Paths below are relative to the repository's root. Line numbers are those of the
commit the models were written from.

## 1. Inventory

| Part | State | Operations | Correct when | Modelled |
|---|---|---|---|---|
| Write calls (`_table.c` 169-281) | one process-wide mutex (`csorma.c` 30); a statement per call; per connection SQLite's row id, change counter, transaction | `orma_insertInto`, `execute` | a result is that of the call's own statement; failed calls change nothing; every call returns | yes |
| Connections (`csorma.c` 545-667) | the `sqlite3` handle; the mutex, initialised by every `OrmaDatabase_init` | `init`, `shutdown`, `run_multi_sql`, `key`, `set_wal_mode` | opening or closing one does not disturb calls on another | partly |
| Read calls (`_table.c` 45-167, `csorma.c` 670-719) | a statement and the list under construction | `toList`, `count`, `run_sql_int64` | all rows of one state of the table, or an error; they end; they give back their locks | yes |
| Schema upgrade (`csorma.c` 722-786) | `orma_schema(db_version)`; the callback pointer | `set_schema_upgrade_callback`, `do_schema_upgrade` | the stored version never runs ahead of the schema; crashes and failures can be repaired by upgrading again | yes |
| Statement builder (`csorma.c` 245-511, `_table.c` 351-422, generator 796-1037) | text of each clause; bind variables of SET and of WHERE | `colSet`, `colEq` ..., `colIsNull`, `orderBycolAsc`, ... | the statement says what was asked for, in whatever order | yes |
| String buffer (`csorma.c` 34-166) | `csorma_s`: bytes, length, terminator | build, con, con2, free | length and terminator agree; nothing is lost | yes |
| Ownership (`_table.c` 16-43, 299-349) | objects, lists, strings | free of an object, of a list; strings bound `SQLITE_STATIC` | everything is freed once, and after its last use | yes |
| Row conversion (`csorma.c` 303-332, 815-893) | none | bind by type, column by name | a value comes back as it was stored | strings |
| Generator (`csorma_generator.java`) | static text accumulators that outlive a file | a set of files per class file | columns, placeholders and bindings line up; one bad class file does not spoil others | mostly |
| SQLite, SQLCipher (`sqlite/`, `sqlcipher/`) | locks, transactions | third-party; nearly all lines of the repository | | what csorma relies on |
| Logger, examples, tests, build files | none of interest | | | no |

How they interact. A generated call builds its text with the string buffer and
the statement builder, prepares it on its connection, binds, steps, finalizes, and
frees its object; a write also takes the mutex, and reads row id or counter before
it releases it. Free-hand SQL goes straight to `sqlite3_exec`. The schema upgrade
uses free-hand SQL and calls back into the application. All threads share the mutex
and the callback pointer; threads that share a connection also share SQLite's
per-connection state; connections to one file meet at its locks, where SQLite's
busy handler waits up to 3 seconds (`csorma.c` 579).

What is hard: the row id and the counter are read in a second call after the
step; the mutex is held while a thread sleeps in the busy handler; a statement
that got SQLITE_BUSY stays active until its finalize, which is outside the
mutex; free-hand SQL and `init` ignore the mutex; reads step row by row while
others write and commit, and step again on SQLITE_BUSY without end; the schema
version is checked, acted on and written in three steps without a transaction;
strings are bound without a copy; a failed `realloc` loses its block; the
generator keeps its text in static variables through exceptions; errors are
dropped nearly everywhere. `PROJECT.json` lists each hazard at its line.

## 2. Modules

| Module | Models | Lines |
|---|---|---|
| `Sqlite` | what the write calls rely on in SQLite (external): one database file with one table of row ids, its write lock, and connections with autocommit, row id, counter and active BUSY statements | |
| `OrmaExec` (extends `Sqlite`) | write calls, free-hand SQL, opening and closing, under threads | `_table.c` 169-281, `csorma.c` 531-667 |
| `AtomicTable` | what the write calls promise: each takes effect at one point. `OrmaExec` refines it (`IsLinearizable`) | |
| `MCOrmaExec` | how threads are spread over connections in the runs | |
| `OrmaExecProofs`, `OrmaPrivateProofs` | theorems about `OrmaExec` | |
| `SqliteLocks` | what the read calls meet in SQLite (external): SHARED, RESERVED and PENDING locks, snapshots, both journal modes, the busy handler | |
| `OrmaRead`, `MCOrmaRead`, `ReadProofs` (extend `SqliteLocks`) | the read calls against writes, transactions and closing | `_table.c` 45-167, `csorma.c` 620-719 |
| `SchemaUpgrade`, `MCSchemaUpgrade`, `SchemaProofs` | `do_schema_upgrade` with threads, failures, crashes | `csorma.c` 722-786 |
| `TableQuery`, `QueryProofs` | the statement builder and the statements of the four calls | `csorma.c` 245-511, `_table.c`, generator 796-1037 |
| `CsormaStr`, `StrProofs` | the string buffer as operators on records, and lemmas about them | `csorma.c` 34-166 |
| `TableObject`, `MCTableObject`, `ObjectProofs` (extend `CsormaStr`) | ownership of objects, strings, lists and statements; the bytes of a string on their way to the database and back | `_table.c`, `csorma.c` 34-511, 815-893 |
| `Generator`, `GeneratorProofs` | reading class files, the text it gathers, the files it writes | generator 100-1160 |

The modules divide the system by what the hazards need: `OrmaExec` has no rows being
read, `OrmaRead` makes each write one step when it need not wait, `TableObject` has
one thread, `TableQuery` has no memory. What one abstracts another looks into:
the text of `TableQuery` is one block in `TableObject`, the list of `OrmaRead` is
made of the objects of `TableObject`, the functions that `Generator` writes are
the actions of `TableQuery`.

**OrmaExec.** `pc[t]` is where thread t is in `_execute`, `__insert_into_` or
`run_multi_sql`: `prepare`, `lock`, `step`, `read`, `unlock`, `finalize`, or
`exec`. Each action is one `sqlite3_` or `pthread_` call, which is the grain at
which threads interleave: SQLite is built in serialized mode, so a call holds its
connection's mutex (`waiter`, `Serialized`), including the time in the busy
handler. `ret` is the C result (`last_insert_id`, `afftect_rows`), `own` a ghost
with what the thread's own statement produced, `kept` a ghost with the rows
inserted outside a transaction. UPDATE and DELETE hit any subset of the rows.
A mutex that is initialised again is free, whoever held it, and forgets
any of the threads that sleep on it (`forgotten`): C leaves this undefined, and this
is what the usual implementation does, whose unlock wakes somebody only when
the mutex itself says that somebody waits. A forgotten thread may still take the
mutex, but nothing makes it. How many calls a thread makes, opening
a connection included, is given per thread (`budget`).
That a BUSY statement keeps the connection from committing and rolls back when
finalized was confirmed by experiment with the bundled SQLite.

**OrmaRead.** Each `sqlite3_step` of the loops is an action, with a second one when
it sleeps in the busy handler. `toList` and `run_sql_int64` have the same loop
(`_table.c` 78-107, `csorma.c` 689-715): a row is taken, SQLITE_BUSY steps again,
anything else ends it. `count` takes one step. With a rollback journal a commit
takes PENDING, which keeps new readers out, and waits for the readers of other
connections; a COMMIT that times out leaves its transaction, and PENDING, in place.
With a write-ahead log a reader keeps its snapshot, and a connection whose snapshot
is stale cannot write. `stmts` and `reading` are the statements that are not
finalized and those that are active: while one is, its connection's read
transaction stays. `shutdown` drops the result of `sqlite3_close`
(`csorma.c` 632): `handle` then becomes `leaked`. `stay`, `ever`, `states` are ghosts
with what was visible to a call while it ran.

**SchemaUpgrade.** `created` and `versions` are the table `orma_schema`,
`callback` the global pointer, and `pc[t]`, `target[t]`, `cur[t]` the locals of
`do_schema_upgrade`. Each SQL statement is an action that may also fail
(`faults`), since csorma ignores the failure. `level` is a ghost: the version the
application's schema really has, raised by callbacks. The pointer test and the
call through it are two steps. `ToInt` and `ToUint` are the conversions of
`csorma.c` 742 and 754, scaled by `IntMax`. `app` is the kind of application,
chosen at the start: its threads, target versions and callbacks.

**TableQuery.** A clause is a sequence of terms; a term has the word it starts
with, its column, its test, the number of its placeholder and whether it ends
with a space. The bind variables are separate sequences, as in the code, and meet
the text only by number, so "a value is bound to its own condition" is a property
and not a part of the representation. `Text(f)` is the statement call f would
send, `Prepares` (external) whether SQLite takes it, `Bound(n)` the value of
placeholder n. Every state is asked about every call; the calls free the object,
which is the action `Free`.

**CsormaStr and TableObject.** A string is a sequence of bytes and a length; `Con` is
`csorma_str_con` with its realloc, and `ConFails` that realloc failing: the block
is lost and the length stays. Memory is a set of blocks (`mem`), each a string
(`str`), an object (`obj`), the list, or the text of a call. `mine` is what the
application has to free; it keeps the rules of the examples, so a pointer it has
given away is not used again. A call is prepared, bound, stepped, finalized, and then frees
its text and, unless it was an insert, its object (`_table.c` 111-166, 215-230,
274-281). A statement may be refused, a step may fail, and so may a realloc of any
text: of a string, of a clause when the object is made or a term is added, of
`sql_start` and of the statement's text. The code goes on as it does: with
a null statement, with a clause that has lost its text (`gone`). A failing `calloc`
of an object or a list, which the code does not survive, is not modelled, nor
the -1 of `rs_find_column_idx`: the generated code asks for the table's own columns.
`said` and `asked` are ghosts: the bytes the application put into a string, and the
rows it asked for, against which the database and the list are compared. `Pointers`
are all the places that hold a block: the application, columns and clauses of the
objects, the items of the list, the list, the text and the object of the call. `Owned`
says that the blocks in them are just those that are allocated and not lost, and that
no block is in two of them. `ListAsAsked` finds the item of a row by the number
of matching rows up to it, as rows come in order; it speaks of texts without a
NUL byte, and `BytesComeBack` of all.

**Generator.** An annotation with the declaration after it is one step:
`BeginTable`, `ProcessPrimaryKey`, `ProcessColumn`; `FinishTable` comes at the end of
every file, and `Abandon` is the exception that skips it. `acc` is the text for the
table's `.h` and `.c`, with struct, column setters, frees, and the three lists of the
INSERT. Class files may have any flaw: no `@Table`, several, no key, several,
a column twice, unknown types, a declaration that is cut off. `ends` is a ghost with
the lengths of stub and runtime header at the end of each file (`Begin` is where
the file began), so that `StubComplete` can speak of what a file adds to them.

## 3. Runs

States are distinct states found; times are on two cores.

| Run | Question | Instance | Result |
|---|---|---|---|
| `ExecShared` | Does the mutex protect results on a shared connection, and does every call return? | 3 threads with 2, 2 and 1 calls, 1 connection; 416k, 76 s | pass |
| `ExecPrivate` | Is a connection per thread safe, with free-hand SQL and `init` at any time, and which calls return? | 3 threads with 3, 3 and 1 calls, 3 connections; 888k, 200 s | pass: all return, but for a thread that waits for the mutex while it is initialised |
| `Read` | Are lists complete, are they of one state, are locks given back, do reads return? | t1, t2 share a connection, t3 has its own, 5 calls, 1 failing statement, row ids 1 and 2, both journal modes; 140k, 54 s | pass |
| `Schema` | Does the version trail the schema, are callbacks repeated, does an upgrade complete? | four applications: one thread, four upgrades, 2 crashes; two careless threads; two that agree on a version; two that do not; 1 failure; 72k, 9 s | pass |
| `Query` | Do the statements say what was asked for? | 2 columns, 2 comparisons, 1 null test, 2 values, 4 terms; 235k | pass |
| `Objects` | Is everything freed once and alive while used; do bytes come back? | 2 columns, a text with a NUL byte, 2 stored rows, 10 blocks, 3 rows, 6 actions of the application, 1 failure; 1.94M, 65 s | pass |
| `Generator` | Do C code and CREATE TABLE agree, and do bad class files spoil others? | 3 files, 5 declarations, 2 names, 2 tables, types LONG, STRING, UNKNOWN; 1.85M, 23 s | pass |
| `ExecFreeHand` | `_table.c` 262: is the row id guarded? | 2 threads with 2 calls each, 1 connection, free-hand INSERT | violated |
| `ExecReinit` | `unit_test/test_threading.c` 371: does `init` leave global state alone? | 3 threads with 2, 2 and 1 calls, 2 connections | violated |
| `ExecLost` | `README.md` 25: do inserted rows stay? | 3 threads, 2 that share a connection with 2 calls each, one with 4; BEGIN and COMMIT | violated |
| `ReadSpin` | `unit_test/test_busy.c` 472: no infinite spin on SQLITE_BUSY? | 2 threads, 2 connections, no failures | violated |
| `ObjectsNul` | `README.md` 26, `unit_test/test_unicode.c` 292: do random bytes come back? | as `Objects` | violated |

Why the bounds are enough. A wrong row id needs two threads on a connection, and
a mutex that fails needs three with `init`: one that holds it, one that waits, and one
that opens a connection. The last needs one call for that, the others one to open
their own and one or two to write; with three calls one can have a transaction open while
another's write times out. The lost row needs a third thread
on another connection that holds the write lock, and seven calls are the
shortest way to it (two `init`, BEGIN, COMMIT, two writes, one more insert).
There are as many row ids as inserts that the calls allow in `OrmaExec`, so none
is refused for the bound; in `OrmaRead` two rows let a row come and another go while a list is made.
Five calls are BEGIN, a write and COMMIT of one connection against two reads of
another. Version 3 is a target two steps and one step away from the others, so that
upgrades are interrupted between callbacks. In `Query` the offsets are 4 and 6
instead of 400 and 600 so that conditions do reach the numbers of assignments. Six
actions make an object with an assignment and a condition, run it, and read the
table, or insert twice and read; ten blocks hold that with a list of both rows. The
columns of `Objects` are called `id_extra` and `id` so that a search by name could
confuse them. Three files and five declarations are a well-formed table
before and after a broken one.

**Fairness.** `LiveSpec` of `OrmaExec` and of `OrmaRead` assumes weak fairness of each
thread's call, and nothing about starting calls, nor that a COMMIT that failed is tried
again. In `OrmaExec` it assumes nothing of a thread whose wait for the mutex was forgotten by
an `init`: `CallsReturn` excepts it, and shows that nobody else has to wait for it. The application makes finitely many calls, so weak fairness of a
thread waiting for the mutex is enough: the others eventually stop taking it. With
calls without end a pthread mutex may starve a waiter, and nothing is claimed. The
timeout is part of a call, so a sleeping thread ends its sleep: this is
the 3-second timeout of `csorma.c` 579. `CallsReturn` of `OrmaRead` is conditional:
it excepts the behaviours where a COMMIT that failed keeps readers out for ever, the
subject of `ReadSpin`. `LiveSpec` of `SchemaUpgrade` assumes that upgrades run on
and that the application calls `do_schema_upgrade` while calls remain; the bounds
leave one more than the crash and the failure can spoil.

**Deadlock** is checked in all runs: the only states in which nothing can happen
are those where all calls have returned (`Finished`), or no file is being read.

### What the failing runs show

1. `ExecFreeHand`: `run_multi_sql` does not take the mutex (`csorma.c` 656), so a
   free-hand INSERT on a shared connection makes `orma_insertInto` return the id
   of another row.
2. `ExecReinit`: every `OrmaDatabase_init` initialises the global mutex
   (`csorma.c` 565), also while it is held, so a third thread gets in. And a thread
   that waits for it then may wait for ever: without its exception `CallsReturn` of
   `ExecPrivate` is violated, when one thread is between lock and unlock, a second waits,
   and a third opens a connection.
3. `ExecLost`: thread 1's insert times out because another connection has the
   write lock. It releases the mutex with its statement still active. The lock
   is released, thread 2 inserts over the same connection, gets a row id, but
   SQLite does not commit while thread 1's statement is active. Thread 1's
   `sqlite3_finalize` (`_table.c` 274 or 215) then rolls the row back. Its clearing
   of the change counter also makes `execute` return 0 for rows it did change.
   Finalizing before the mutex is released would prevent both.
4. `ReadSpin`: a COMMIT of another connection times out because someone reads. Its
   transaction stays open and still keeps new readers out. `toList`
   (`_table.c` 98) and `run_sql_int64` (`csorma.c` 700) now get SQLITE_BUSY from every
   step and step again, three seconds each time, until the application tries the COMMIT
   again or rolls back. The behaviour was confirmed with the bundled SQLite.
   `count` gives up with -2.
5. `ObjectsNul`: a text with a NUL byte is stored with all its bytes (`csorma.c` 326), and
   `__rs_getString` (868) reads it up to its first NUL. `README.md` 26 promises safe
   strings of "just random bytes". `unit_test/test_unicode.c`, which sets out to
   verify that "through the full bind → store → read path", reads the bytes
   with `sqlite3_column_bytes` itself. `ListAsAsked`, which `Objects` checks, claims the
   bytes of texts without NUL only; `TableAsAsked` claims all bytes of what is stored.

Seen while modelling, where no line of the repository says otherwise or where the
models state the behaviour as an exception:

- A failed `realloc` in `csorma_str_con` loses the block and keeps the length
  (`csorma.c` 135-140; the comment in 140 that the original data is preserved is not what
  happens to the buffer). If it was the text of the conditions, a DELETE deletes all
  rows. `TableAsAsked` and `ListAsAsked` claim nothing after a failed realloc;
  `StringsTerminated`, `Owned` and `BoundAlive` hold through it.
- `colIsNull` and `colIsNotNull` (generator 993-1007) leave no space after them, so a
  further condition gives `IS NULLand`: `execute` and `count` return -3, `toList`
  an empty list. `README.md` 222 chains conditions, though not these.
  `PreparedUnlessNullFirst` states the exception.
- NULL is read as an empty text. `ListAsAsked` states it.
- A connection whose close is refused stays open with its transaction, and nothing is
  left to close it with.
- With a write-ahead log, a thread whose sibling's read is not finalized reads that
  read's old snapshot (`ReadsOneState` claims nothing for overlapping calls of one
  connection).
- Two upgrades at the same time run callbacks twice (`csorma.c` 769-785);
  `test_threading.c` 464 expects that the number may vary.
- The callback pointer is tested and read again for the call (`csorma.c` 779), so an
  application that sets it to null in between makes the upgrade call a null
  pointer. `CallNull` models the crash; no property forbids it, `TrailsInv` holds through it.
- Asking for a smaller version lowers the stored one (`csorma.c` 785), and nothing forbids
  that. `VersionNeverLowered` and `RepeatsNeedTrouble` are about applications that never
  go back.
- A `toList` that meets an error returns the rows it has (`_table.c` 107), like one that
  has them all. `ListIsComplete` excepts it; no property covers it.
- Versions above INT_MAX are stored negative (`csorma.c` 754), and the seeding
  then adds a second row. The runs and theorems assume smaller targets, and show
  nothing about larger ones.
- `toList` and `count` on an object that was inserted run `INSERT ... SELECT`
  (the text of `sql_start` is never reset). `MisuseIsRefused` states it as the
  exception.
- A column of unknown type is a column of the INSERT without a value: it is always
  NULL (`InsertLinesUp` states it). A class file without `@Table` repeats the runtime
  section of the table before it, and two tables whose names differ only in case write
  the same files. A declaration without `;` raises an exception (generator 1148 tests
  the wrong index), and the file is then left half read.

## 4. Proofs

All are for every value of the constants: any threads, connections, columns,
offsets, files and bounds. They use the constants' assumptions in the modules and the
hypotheses named here, and no other. Every inductive invariant below was checked by
TLC on the instance of its run before it was proved.

| Property | Theorem | Hypotheses |
|---|---|---|
| `MutualExclusion` | `MutexExcludes` | `~InitWhileBusy` |
| `InsertInv`, `InsertReturnsOwn` | `InsertInvariant`, `InsertOwn` | also no free-hand INSERT |
| `ExecuteReturnsOwn`, `IsLinearizable`, one connection | `SharedResults`, `SharedLinearizable` | `OneConn`, `~InitWhileBusy`, no free-hand INSERT or DELETE |
| `PrivateInv`, `ExecuteReturnsOwn`, `NoLostInsert`, `WriteLockReleased`, `IsLinearizable`, a connection per thread | `PrivateInvariant`, `PrivateResults`, `PrivateKeepsRows`, `PrivateReleasesLock`, `PrivateLinearizable` | `PrivateConns` |
| `NoLostInsert`, `WriteLockReleased`, one connection | `SoleKeepsRows` | `OneConn` |
| `TypeOK`, `LocksOwned`, `ListIsComplete`, `ReadsOneState` of `OrmaRead` | `ReadTypes`, `LocksAreOwned`, `ListsAreComplete`, `OneStateIsRead` | none |
| `TrailsInv`, `VersionTrails`, `OneRow`, `TypeOK` | `UpgradeInvariant`, `VersionNeverAhead`, `SchemaTableHasOneRow`, `UpgradeTypes` | `Disciplined` |
| `RepeatsNeedTrouble`, `VersionNeverLowered`, `NoCallsOnSameVersion` | `RepeatsOnlyAfterTrouble`, `StoredVersionGrows`, `SameVersionNoCalls` | also finitely many threads |
| `QueryInv`, `SaysWhatWasAsked`, `PreparedUnlessNullFirst`, `MisuseIsRefused` | `BuilderInvariant`, `StatementSaysWhatWasAsked`, `ProperCallsPrepared`, `OtherCallsRefused` | none |
| `TypeOK`, `Owned`, `BoundAlive`, `StringsTerminated`, `TableAsAsked`, `ListAsAsked` | `ObjectTypes`, `BlocksAreOwned`, `BoundStringsStayAlive`, `StringsStayTerminated`, `TableIsAsAsked`, `ListIsAsAsked` | none |
| `TypeOK`, `InsertLinesUp`, `TableAsDeclared`, `StubComplete` of `Generator` | `GeneratorTypes`, `InsertAlwaysLinesUp`, `TablesAreAsDeclared`, `StubIsComplete` | none |

**Row ids (`OrmaExecProofs`).** `TypeCorrect` is the type invariant with
`CallInv`. `MutexExcludes` (hypothesis: no connection is opened during a call)
follows from `OwnsMutex`: whoever is between lock and unlock owns the mutex.
`InsertInv` (in addition: no free-hand INSERT) adds `LastRowidIsOwn`: until the
owner reads it, the connection's last row id is its own. Without it
`InsertReturnsOwn` is not inductive, as a thread about to read could read
anything. Only `Step` of an insert and `OpenConn` change a row id, and the mutex
rules out both. Both hypotheses are needed: `ExecReinit` and `ExecFreeHand`
break the property without them.

**One connection for all (`OrmaExecProofs`, hypothesis `OneConn`).** The change
counter needs more than the row id: `ExecLost` shows how a finalize outside the
mutex clears it. That takes a statement that got SQLITE_BUSY, and for this another
connection must hold the write lock. `SharedInv` says that with one connection no
statement is ever stalled, and that a counter about to be read is the reader's.
Free-hand BEGIN, COMMIT and ROLLBACK are allowed. For the rows, neither the mutex nor
a restriction of free-hand SQL is needed (`SoleKeepsRows` in `OrmaPrivateProofs`,
hypothesis `OneConn` only): with `SoleInv` - no statement is stalled, `OpenInv`,
`KeptInv` - no row is lost and the write lock is given back. Losing a row takes a second
connection, as in `ExecLost`.

**A connection per thread (`OrmaPrivateProofs`, hypothesis `PrivateConns`).**
Needs none of the hypotheses above, so the mutex plays no part. `PrivateInv` says: an
active BUSY statement belongs to a call that is about to finalize it
(`StalledInv`), a connection in autocommit mode does not hold the write lock
(`OpenInv`), rows to be kept are in the committed table and in the writer's
transaction (`KeptInv`), and a counter about to be read is the reader's
(`CounterIsOwn`). From it: results are the calls' own, no row is lost, and the
write lock is released.

**Linearizability.** That `OrmaExec` implements `AtomicTable` is proved in both
settings from the same lemmas: initial states map to initial states, and
`RefInv` is what a step needs to map to a step or a stutter: until a result is
read it is the call's own, and the finalize of a stalled statement has
nothing to roll back. The linearization point of a table call is the step of its
statement; free-hand SQL may change the table as it likes, a COMMIT or ROLLBACK
too (`FreeHandSql` of `AtomicTable`). In between, with several threads on each of
several connections, `RefInv` is false: `ExecLost` is the counterexample.

**Reads (`ReadProofs`).** `LockInv` gives each lock an owner: PENDING is the
writer's; the write lock of a connection in autocommit mode belongs to a write
that is committing; its SHARED lock to that write or to an active statement. With
it locks are given back through failures, timeouts and refused closes, in both journal
modes. `ListInv` says of a running loop that the rows visible to it all the time are
listed or lie ahead of the last one listed, which is what makes a list complete
however the table changes under it. `StateInv` adds for a call alone on its connection that
the snapshot its statement reads is a committed state of the time of the call, kept
by the connection's SHARED lock until the finalize.

**Schema (`SchemaProofs`, hypothesis `Disciplined`: targets fit into an int).**
`TrailsInv` adds to `VersionTrails` and `OneRow` that no running upgrade counts
beyond the schema's version, and that the stored version is at least 0. It
holds through any number of concurrent upgrades, crashes and failures, with and
without a callback. The other three properties are about applications that
upgrade one at a time and never go back, which the properties say themselves.
`OrderInv` has three layers for these: the stored version is at most the target
(`Lowest`); as long as no statement failed, the upgrade starts from the version last
recorded (`Resumes`); and without a crash either, it knows the version of the schema,
so no callback is called twice (`Knows`).

**Builder (`QueryProofs`).** `QueryInv` relates each term to what was asked for
and its placeholder to the position of its value; `AppendKeeps` carries that over
an appended term. From it: statements say what was asked for (as long as there are
fewer conditions than numbers between the two offsets), proper calls are
accepted, and others refused.

**Strings and objects (`StrProofs`, `ObjectProofs`).** The lemmas `ConIs`, `CStringIs`
and `BuildIs` say what the buffer's operations return for every string and text: a
terminated string that holds the old bytes and the new ones. Four invariants build on
each other. `OInv` says that what the application, the objects, the list and the
running call hold is apart: no string has two objects, or an object and the
application; the list and the text of the call belong to nobody else; what is bound
are strings of the call's object. This separation is what makes freeing one object
harmless to the others, and without it `BoundAlive` is not inductive: any `Free` could
take a bound string. `OwnInv` adds that no object holds a string twice and that what
is held is just what is allocated and not lost: with `OInv`, this is `Owned`. `MeantInv`
follows the bytes: until a realloc fails, the strings of the application and of the
objects it made are what was put into them, so what a call binds is what was
asked for. `ListedInv` says of a running `toList` which rows have become which items.

**Generator (`GeneratorProofs`).** `InsertLinesUp` is about finished code. `GInv` says the
same of the text that it is made from, at any time, and that `column_num` is the
number of columns in that text: with it each column's step keeps the text in
line, whatever the file is like. `FileInv` says that while a file with one table, one
key and distinct columns is read, the text gathered is that of the columns it has
declared so far (`AsGiven`); `OthersKept` says that no step touches the files of a table
but its own. `TableAsDeclared` follows at the end of the file, and stays.
`StubInv` adds where in the stub the files begin and end, one behind the other, and that
the part of the file that is read is, so far, the text of the `.sql` file of its only
table. With lemmas about pieces of sequences - a piece stays when something is put
behind it (`PieceStays`), the last one grows by it (`PieceGrows`) - `StubComplete`
follows.

Only model-checked are `CallsReturn` of both models and `UpgradeCompletes`: liveness under
fairness, and ENABLED, are out of the prover's reach. The models that have theorems use no RECURSIVE operator.

## 5. Not modelled

- SQLite and SQLCipher themselves: third-party amalgamations that make up nearly all
  lines of the repository. `Sqlite` and `SqliteLocks` model, as external
  definitions, what csorma's calls meet of them. Encryption changes none of it.
- An `init` that fails returns NULL and leaves nothing behind; the key and a change
  of the journal mode come before any call. A script in `run_multi_sql` is the sequence of
  its statements up to the first that fails: what it left open stays open by the
  application's choice.
- The values of numbers and booleans, which pass through bind and column access
  unchanged; lengths near 2^32 and `csorma_str_con2(x, x)`.
- In the generator: cutting names and types out of a line, the makefile, and copying
  the runtime's files.
- Logger, examples, tests and build files: no behaviour of the library.

## 6. Plan

Done: all modules of section 2 with their runs, and theorems for every safety and
action property of the passing runs. Next:

1. `SchemaUpgrade`: `RepeatsNeedTrouble` for several threads that agree on a
   version and upgrade one after the other.
2. An abstract specification of the read calls, as `AtomicTable` is one of the writes, and
   `OrmaRead` shown to implement it for calls that are alone on their connection;
   `OneStateIsRead` names the state that each of them returns.
